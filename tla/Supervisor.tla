----------------------------- MODULE Supervisor -----------------------------
(***************************************************************************)
(* The server manager's supervision of one service (services.go) and, for  *)
(* the Arma server, the scheduled restart of the control API               *)
(* (controlapi.go).                                                        *)
(*                                                                         *)
(* Requests from the window and the API, the manager's start-up, the       *)
(* waiter of each process and a restart's timer are goroutines: pc is the  *)
(* next statement, or the next section under service.mu or control.mu.     *)
(* The program being supervised and state.json outlive the manager.        *)
(* Durations are not modelled: a sleep, a build, a wait of thirty seconds  *)
(* and the crash window may end at any time, but for Searching below.      *)
(***************************************************************************)
EXTENDS Naturals, FiniteSets

CONSTANTS
    Processes,       \* identities of the service's processes
    Goroutines,
    None,
    Requests,        \* what the window and the API may ask for
    maxCrashes

ASSUME SupervisorAssumption ==
    /\ None \notin Processes \cup Goroutines
    /\ Requests \subseteq {"start", "stop", "stopAll", "restart", "schedule", "cancel"}
    /\ maxCrashes \in Nat \ {0}

VARIABLES
    alive,      \* processes of the service that run on the machine
    record,     \* the PID in state.json
    up,         \* the manager is open
    state, proc, stopping, crashes,   \* service, under its mutex
    toggles,    \* services.json: start with the manager, restart on crash
    tails,      \* processes whose log is tailed and performance sampled
    stopTail,   \* the one whose tail the exit hook would end
    run,        \* goroutines
    pending,    \* control.pendingCancel: the goroutine of the scheduled restart
    cooling,    \* within RestartCooldown of control.lastRestart
    halted,     \* (history) "inTime", "late": the service is to stay down
    missed,     \* (history) a cancel came too late for a timer that had fired
    raced       \* (history) a start began before start-up had looked for what runs

service == <<state, proc, stopping, crashes>>
logs == <<tails, stopTail>>
control == <<pending, cooling>>
history == <<halted, missed, raced>>
vars == <<alive, record, up, service, toggles, logs, run, control, history>>

-------------------------------------------------------------------------------

G(pc, op, pid) == [pc |-> pc, op |-> op, pid |-> pid]
Idle == G("idle", "none", None)
IdleOnes == {g \in Goroutines : run[g] = Idle}
At(g, pc) == run[g].pc = pc

Goto(g, pc) == run' = [run EXCEPT ![g] = G(pc, run[g].op, run[g].pid)]
Return(g) == run' = [run EXCEPT ![g] = Idle]

Init ==
    /\ alive = {} /\ record = None /\ up = FALSE
    /\ state = "stopped" /\ proc = None /\ stopping = FALSE /\ crashes = 0
    /\ toggles \in [auto : BOOLEAN, onCrash : BOOLEAN]
    /\ tails = {} /\ stopTail = None
    /\ run = [g \in Goroutines |-> Idle]
    /\ pending = None /\ cooling = FALSE
    /\ halted = "no" /\ missed = FALSE /\ raced = FALSE

\* Goroutines that may start the service although nobody asks for it after this.
OnTheirWay ==
    {g \in Goroutines :
        \/ At(g, "check")
        \/ run[g].op \in {"restart", "schedule", "scheduled", "startup"}
             /\ run[g].pc \notin {"build", "failed", "attach", "record", "watch"}}

Halt == halted' = IF OnTheirWay = {} THEN "inTime" ELSE "late"

\* Start-up has not looked at everything yet; a request need not wait for it (startup
\* runs the control API and startServices side by side).
Looking == \E g \in Goroutines : run[g].pc \in {"load", "adopt", "adopted", "find", "search", "found", "foundRecord"}

-------------------------------------------------------------------------------
(* startService and launch.                                                *)

\* Mutant: only a process counts as running, not a start under way.
CheckProcOnly(g) ==
    /\ At(g, "check")
    /\ \/ proc # None /\ Return(g) /\ UNCHANGED <<state, crashes>>
       \/ /\ proc = None
          /\ crashes' = IF run[g].op = "wait" THEN crashes ELSE 0
          /\ state' = "starting"
          /\ Goto(g, "build")
    /\ raced' = (raced \/ (Looking /\ run'[g].pc = "build"))
    /\ UNCHANGED <<alive, record, up, proc, stopping, toggles, logs, control, halted, missed>>

\* A crash restart (op "wait") keeps the count of crashes, a request resets it.
Check(g) ==
    /\ At(g, "check")
    /\ \/ /\ proc # None \/ state = "starting"
          /\ Return(g)
          /\ UNCHANGED <<state, crashes, raced>>
       \/ /\ proc = None /\ state # "starting"
          /\ crashes' = IF run[g].op = "wait" THEN crashes ELSE 0
          /\ state' = "starting"
          /\ Goto(g, "build")
          /\ raced' = (raced \/ Looking)
    /\ UNCHANGED <<alive, record, up, proc, stopping, toggles, logs, control, halted, missed>>

\* A process number that nothing refers to any more.
Fresh == Processes \ (alive \cup tails \cup {proc, record} \cup {run[g].pid : g \in Goroutines})

\* s.start (deploying, building) and cmd.Start.
Build(g) ==
    /\ At(g, "build")
    /\ \/ Goto(g, "failed") /\ UNCHANGED alive
       \/ \E p \in Fresh :
            /\ alive' = alive \cup {p}
            /\ run' = [run EXCEPT ![g] = G("attach", run[g].op, p)]
    /\ UNCHANGED <<record, up, service, toggles, logs, control, history>>

Failed(g) ==
    /\ At(g, "failed")
    /\ state' = "stopped"
    /\ Return(g)
    /\ UNCHANGED <<alive, record, up, proc, stopping, crashes, toggles, logs, control, history>>

SetRunning(p) == proc' = p /\ state' = "running" /\ stopping' = FALSE

Attach(g) ==
    /\ At(g, "attach")
    /\ SetRunning(run[g].pid)
    /\ Goto(g, "record")
    /\ UNCHANGED <<alive, record, up, crashes, toggles, logs, control, history>>

\* Mutant: a restart after a crash is not recorded.
SetRunStateOnce(g) ==
    /\ At(g, "record")
    /\ record' = IF run[g].op = "wait" THEN record ELSE run[g].pid
    /\ Goto(g, "watch")
    /\ UNCHANGED <<alive, up, service, toggles, logs, control, history>>

SetRunState(g) ==
    /\ At(g, "record")
    /\ record' = run[g].pid
    /\ Goto(g, "watch")
    /\ UNCHANGED <<alive, up, service, toggles, logs, control, history>>

\* onStarted, then go s.wait: w waits for the process g launched or adopted.
Watched(g, next) ==
    /\ tails' = tails \cup {run[g].pid} /\ stopTail' = run[g].pid
    /\ \E w \in IdleOnes :
         run' = [run EXCEPT ![g] = next, ![w] = G("watching", "wait", run[g].pid)]

Watch(g) ==
    /\ At(g, "watch")
    /\ Watched(g, Idle)
    /\ UNCHANGED <<alive, record, up, service, toggles, control, history>>

-------------------------------------------------------------------------------
(* wait: what the waiter of a process does when the process has ended.     *)

Exited(g) ==
    /\ At(g, "watching") /\ run[g].pid \notin alive
    /\ tails' = tails \ {stopTail} /\ UNCHANGED stopTail
    /\ record' = None
    /\ run' = [run EXCEPT ![g] = G("clear", "wait", None)]
    /\ UNCHANGED <<alive, up, service, toggles, control, history>>

GivesUp == crashes + 1 >= maxCrashes

\* Mutant: only an intended stop clears the process.
ClearIfStopped(g) ==
    /\ At(g, "clear") /\ stopping' = FALSE
    /\ \/ /\ stopping /\ proc' = None
          /\ state' = "stopped" /\ Return(g) /\ UNCHANGED <<crashes, halted>>
       \/ /\ ~stopping /\ crashes' = crashes + 1 /\ UNCHANGED proc
          /\ state' = "crashed" /\ Goto(g, "asleep") /\ UNCHANGED halted
    /\ UNCHANGED <<alive, record, up, toggles, logs, control, missed, raced>>

Clear(g) ==
    /\ At(g, "clear")
    /\ proc' = None /\ stopping' = FALSE
    /\ \/ /\ stopping
          /\ state' = "stopped" /\ Return(g) /\ UNCHANGED <<crashes, halted>>
       \/ /\ ~stopping /\ crashes' = crashes + 1
          /\ \/ /\ ~toggles.onCrash
                /\ state' = "stopped" /\ Return(g) /\ UNCHANGED halted
             \/ /\ toggles.onCrash /\ GivesUp
                /\ state' = "crash-loop" /\ Return(g) /\ Halt
             \/ /\ toggles.onCrash /\ ~GivesUp
                /\ state' = "crashed" /\ Goto(g, "asleep") /\ UNCHANGED halted
    /\ UNCHANGED <<alive, record, up, toggles, logs, control, missed, raced>>

\* Mutant: a restart unless something is running.
StillNone == proc = None

\* A delay is five seconds or more: it outlasts what start-up does about this
\* service from picking its process up to the walk through the process list.
Searching == \E g \in Goroutines : run[g].pc \in {"adopted", "find", "search", "found", "foundRecord"}

\* After the delay: restart, unless something else happened meanwhile.
Still == state = "crashed" /\ proc = None

Wake(g) ==
    /\ At(g, "asleep") /\ ~Searching
    /\ \/ Still /\ Goto(g, "check")
       \/ ~Still /\ Return(g)
    /\ UNCHANGED <<alive, record, up, service, toggles, logs, control, history>>

\* A crash falls out of the crash window.
Forget ==
    /\ crashes > 0 /\ crashes' = crashes - 1
    /\ UNCHANGED <<alive, record, up, state, proc, stopping, toggles, logs, run, control, history>>

-------------------------------------------------------------------------------
(* Stop, StopAllServices, Restart and restartNow.                          *)

Cancelled == pending' = None /\ UNCHANGED cooling
Unscheduled == [run EXCEPT ![pending] = IF run[pending].pc = "timer" THEN Idle ELSE run[pending]]

\* cancelPendingRestart: closing the channel ends a timer that has not fired.
Cancel(g) ==
    /\ At(g, "cancel")
    /\ LET next == IF run[g].op = "stop" THEN G("ask", "stop", None)
                   ELSE IF run[g].op = "stopAll" THEN G("look", "stopAll", None)
                   ELSE Idle
       IN  IF pending = None
           THEN run' = [run EXCEPT ![g] = next] /\ UNCHANGED <<control, missed>>
           ELSE /\ run' = [Unscheduled EXCEPT ![g] = next] /\ Cancelled
                /\ missed' = (missed \/ run[pending].pc # "timer")
    /\ UNCHANGED <<alive, record, up, service, toggles, logs, halted, raced>>

\* Running(), before StopAllServices stops and Restart stops.
Look(g) ==
    /\ At(g, "look")
    /\ \/ proc # None /\ Goto(g, "ask")
       \/ proc = None /\ run[g].op = "restart" /\ Goto(g, "check")
       \/ proc = None /\ run[g].op = "stopAll" /\ Return(g)
    /\ UNCHANGED <<alive, record, up, service, toggles, logs, control, history>>

Ask(g) ==
    /\ At(g, "ask")
    /\ \/ /\ proc = None
          /\ state' = IF state \in {"crashed", "crash-loop"} THEN "stopped" ELSE state
          /\ IF run[g].op = "scheduled" THEN Goto(g, "await") ELSE Return(g)
          /\ UNCHANGED stopping
       \/ /\ proc # None
          /\ stopping' = TRUE /\ state' = "stopping"
          /\ run' = [run EXCEPT ![g] = G("kill", run[g].op, proc)]
    /\ IF run[g].op \in {"stop", "stopAll"} /\ state # "starting" THEN Halt ELSE UNCHANGED halted
    /\ UNCHANGED <<alive, record, up, proc, crashes, toggles, logs, control, missed, raced>>

\* proc.Kill: it may be refused, or the process may be gone already.
Kill(g) ==
    /\ At(g, "kill")
    /\ \/ /\ alive' = alive \ {run[g].pid}
          /\ Goto(g, "await")
       \/ /\ UNCHANGED alive
          /\ IF proc # None THEN Return(g) ELSE Goto(g, "await")
    /\ UNCHANGED <<record, up, service, toggles, logs, control, history>>

\* Running() is polled: for as long as it is true for up to thirty seconds.
Await(g) ==
    /\ At(g, "await")
    /\ \/ proc = None /\ run[g].op \in {"restart", "scheduled"} /\ Goto(g, "check")
       \/ proc = None /\ run[g].op \in {"stop", "stopAll"} /\ Return(g)
       \/ proc # None /\ Return(g)
    /\ UNCHANGED <<alive, record, up, service, toggles, logs, control, history>>

-------------------------------------------------------------------------------
(* The control API's scheduled restart.                                    *)

\* GetServerStatus().Running, then control.mu.
Schedule(g) ==
    /\ At(g, "schedule")
    /\ \/ proc = None /\ Return(g)
       \/ proc # None /\ Goto(g, "book")
    /\ UNCHANGED <<alive, record, up, service, toggles, logs, control, history>>

Book(g) ==
    /\ At(g, "book")
    /\ \/ pending = None /\ ~cooling /\ pending' = g /\ run' = [run EXCEPT ![g] = G("timer", "scheduled", None)]
       \/ (pending # None \/ cooling) /\ Return(g) /\ UNCHANGED pending
    /\ UNCHANGED <<alive, record, up, service, toggles, logs, cooling, history>>

Fire(g) ==
    /\ At(g, "timer")
    /\ Goto(g, "fired")
    /\ UNCHANGED <<alive, record, up, service, toggles, logs, control, history>>

Due(g) ==
    /\ At(g, "fired")
    /\ pending' = None /\ cooling' = TRUE
    /\ Goto(g, "ask")
    /\ UNCHANGED <<alive, record, up, service, toggles, logs, history>>

CoolDown ==
    /\ cooling /\ cooling' = FALSE
    /\ UNCHANGED <<alive, record, up, service, toggles, logs, run, pending, history>>

\* services.go: a process left running is picked up again "instead of starting
\* duplicates".  The service never runs twice: not so when a start races with start-up.
OneProcess == \A p, q \in alive : p = q

-------------------------------------------------------------------------------
(* The manager opens and closes, and the world outside it.                 *)

\* What a race did is over when one process at most is left of it.
Open ==
    /\ ~up /\ up' = TRUE
    /\ \E g \in IdleOnes : run' = [run EXCEPT ![g] = G("load", "startup", None)]
    /\ raced' = (raced /\ ~OneProcess)
    /\ UNCHANGED <<alive, record, service, toggles, logs, control, halted, missed>>

Load(g) ==
    /\ At(g, "load")
    /\ run' = [run EXCEPT ![g] = G(IF record = None THEN "find" ELSE "adopt", "startup", record)]
    /\ UNCHANGED <<alive, record, up, service, toggles, logs, control, history>>

\* The recorded process is picked up, or the record dropped as stale.
Adopt(g) ==
    /\ At(g, "adopt")
    /\ \/ /\ run[g].pid \in alive
          /\ SetRunning(run[g].pid) /\ Goto(g, "adopted") /\ UNCHANGED record
       \/ /\ run[g].pid \notin alive
          /\ record' = None
          /\ run' = [run EXCEPT ![g] = G("find", "startup", None)]
          /\ UNCHANGED <<state, proc, stopping>>
    /\ UNCHANGED <<alive, up, crashes, toggles, logs, control, history>>

Adopted(g) ==
    /\ At(g, "adopted")
    /\ Watched(g, G("find", "startup", None))
    /\ UNCHANGED <<alive, record, up, service, toggles, control, history>>

\* Mutant: no search by the program's path.
FindNothing(g) ==
    /\ At(g, "find")
    /\ Goto(g, "auto")
    /\ UNCHANGED <<alive, record, up, service, toggles, logs, control, history>>

\* findRunning: only if nothing is running, by the program's path.
Find(g) ==
    /\ At(g, "find")
    /\ Goto(g, IF proc = None THEN "search" ELSE "auto")
    /\ UNCHANGED <<alive, record, up, service, toggles, logs, control, history>>

Search(g) ==
    /\ At(g, "search")
    /\ \/ alive = {} /\ Goto(g, "auto") /\ UNCHANGED <<state, proc, stopping>>
       \/ \E p \in alive : SetRunning(p) /\ run' = [run EXCEPT ![g] = G("found", "startup", p)]
    /\ UNCHANGED <<alive, record, up, crashes, toggles, logs, control, history>>

Found(g) ==
    /\ At(g, "found")
    /\ Watched(g, G("foundRecord", "startup", run[g].pid))
    /\ UNCHANGED <<alive, record, up, service, toggles, control, history>>

FoundRecord(g) ==
    /\ At(g, "foundRecord")
    /\ record' = run[g].pid
    /\ run' = [run EXCEPT ![g] = G("auto", "startup", None)]
    /\ UNCHANGED <<alive, up, service, toggles, logs, control, history>>

AutoStart(g) ==
    /\ At(g, "auto")
    /\ IF toggles.auto /\ proc = None THEN Goto(g, "check") ELSE Return(g)
    /\ UNCHANGED <<alive, record, up, service, toggles, logs, control, history>>

\* The window closed, or the manager was killed: its goroutines and memory go.
Close ==
    /\ up /\ up' = FALSE
    /\ run' = [g \in Goroutines |-> Idle]
    /\ state' = "stopped" /\ proc' = None /\ stopping' = FALSE /\ crashes' = 0
    /\ tails' = {} /\ stopTail' = None
    /\ pending' = None /\ cooling' = FALSE
    /\ halted' = "no" /\ missed' = FALSE
    /\ UNCHANGED <<alive, record, toggles, raced>>

First(op) ==
    CASE op = "start" -> "check" [] op \in {"stop", "stopAll", "cancel"} -> "cancel"
      [] op = "restart" -> "look" [] op = "schedule" -> "schedule"

Request ==
    /\ up
    /\ \E g \in IdleOnes, op \in Requests :
         /\ run' = [run EXCEPT ![g] = G(First(op), op, None)]
         /\ halted' = IF op \in {"start", "restart", "schedule"} THEN "no" ELSE halted
    /\ UNCHANGED <<alive, record, up, service, toggles, logs, control, missed, raced>>

SetServiceOptions ==
    /\ up
    /\ toggles' \in [auto : BOOLEAN, onCrash : BOOLEAN]
    /\ UNCHANGED <<alive, record, up, service, logs, run, control, history>>

\* The service's process ends by itself.
Exit ==
    /\ \E p \in alive : alive' = alive \ {p}
    /\ UNCHANGED <<record, up, service, toggles, logs, run, control, history>>

\* Somebody starts the program by hand while the manager is closed.
StartedElsewhere ==
    /\ ~up /\ alive = {}
    /\ \E p \in Fresh : alive' = {p}
    /\ UNCHANGED <<record, up, service, toggles, logs, run, control, history>>

Step(g) ==
    \/ Check(g) \/ Build(g) \/ Failed(g) \/ Attach(g) \/ SetRunState(g) \/ Watch(g)
    \/ Exited(g) \/ Clear(g) \/ Wake(g)
    \/ Cancel(g) \/ Look(g) \/ Ask(g) \/ Kill(g) \/ Await(g)
    \/ Schedule(g) \/ Book(g) \/ Fire(g) \/ Due(g)
    \/ Load(g) \/ Adopt(g) \/ Adopted(g) \/ Find(g) \/ Search(g) \/ Found(g) \/ FoundRecord(g) \/ AutoStart(g)

Next ==
    \/ \E g \in Goroutines : Step(g)
    \/ Forget \/ CoolDown \/ Open \/ Close \/ Request \/ SetServiceOptions \/ Exit \/ StartedElsewhere

Spec == Init /\ [][Next]_vars

(* Go runs every goroutine that can go on; sleeps and timers end.  Nothing   *)
(* makes requests arrive, processes end or the manager open.                 *)
FairSpec == Spec /\ \A g \in Goroutines : WF_vars(Step(g))

-------------------------------------------------------------------------------
(* Properties.                                                             *)

Steps == {"idle", "check", "build", "failed", "attach", "record", "watch", "watching", "clear", "asleep",
          "cancel", "look", "ask", "kill", "await", "schedule", "book", "timer", "fired",
          "load", "adopt", "adopted", "find", "search", "found", "foundRecord", "auto"}
Ops == {"none", "wait", "scheduled", "startup"} \cup {"start", "stop", "stopAll", "restart", "schedule", "cancel"}

\* The shape of the service, state.json, the goroutines and the schedule.
TypeOK ==
    /\ alive \subseteq Processes /\ record \in Processes \cup {None} /\ up \in BOOLEAN
    /\ state \in {"stopped", "starting", "running", "stopping", "crashed", "crash-loop"}
    /\ proc \in Processes \cup {None} /\ stopping \in BOOLEAN /\ crashes \in Nat
    /\ toggles \in [auto : BOOLEAN, onCrash : BOOLEAN]
    /\ tails \subseteq Processes /\ stopTail \in Processes \cup {None}
    /\ run \in [Goroutines -> [pc : Steps, op : Ops, pid : Processes \cup {None}]]
    /\ pending \in Goroutines \cup {None} /\ cooling \in BOOLEAN
    /\ halted \in {"no", "inTime", "late"} /\ missed \in BOOLEAN /\ raced \in BOOLEAN

\* While nothing has raced with start-up there is one process, so a start that comes
\* before start-up has looked is the only way to two.
NeverTwice == ~raced => OneProcess

Startup == \E g \in Goroutines : run[g].op = "startup" /\ run[g].pc \notin {"check", "build", "failed", "attach", "record", "watch"}
Holding(pcs) == {run[g].pid : g \in {h \in Goroutines : run[h].pc \in pcs}}

\* Once start-up has looked for it, a running process of the service is one the
\* manager can stop, or is about to be; and its end will be noticed.
Supervised ==
    up /\ ~Startup =>
        /\ alive \subseteq {proc} \cup Holding({"attach"})
        /\ proc # None => proc \in Holding({"record", "watch", "watching"}) \/ \E g \in Goroutines : At(g, "clear")

\* The state shown says whether there is a process, and one starter is at work
\* exactly while it says "starting".
StatusTrue ==
    /\ (proc # None) = (state \in {"running", "stopping"})
    /\ (state = "starting") = (\E g \in Goroutines : run[g].pc \in {"build", "failed", "attach"})

\* A manager that closes now leaves a record by which the next one re-attaches.
Reattachable ==
    up /\ ~Startup /\ proc \in alive /\ proc \notin Holding({"record"}) => record = proc

\* The tail of the log and the sampler end with the process they follow.
TailsEnd == up => tails \subseteq Holding({"watching"})

\* The process, what the window shows, who waits for it, the record and the tail agree,
\* requests during start-up included, unless a start has raced with it.
InStep == TypeOK /\ (~raced => Supervised /\ StatusTrue /\ Reattachable /\ TailsEnd)

Begins(g) == At(g, "check") /\ run'[g].pc = "build"

\* A service that was stopped, or gave up after three crashes, stays down until
\* somebody asks for it, unless a restart was past its last check by then, or a start
\* has raced with start-up.
StaysDown == [][\A g \in Goroutines : Begins(g) => halted # "inTime" \/ raced]_vars

\* controlapi.go: at most one restart every five minutes.  Only a cancel that
\* came too late for a timer that had fired can let two through.
RestartsSpaced == [][\A g \in Goroutines : At(g, "fired") /\ run'[g].pc = "ask" => ~cooling \/ missed]_vars

\* Nothing starts the service that should not.
StartsAllowed == StaysDown /\ RestartsSpaced

\* A start never wedges the service in "starting", where nothing can stop or
\* start it.
StartEnds == (state = "starting") ~> (state # "starting")

\* A crashed service comes back, unless it is stopped first or the manager goes.
CrashRecovers == (state = "crashed") ~> (state # "crashed")

\* Neither a start nor a crash is the end of it.
NeverWedged == StartEnds /\ CrashRecovers

\* What runs when the manager opens, or starts later, comes under its control.
FoundAgain == (up /\ alive # {}) ~> (~up \/ proc # None \/ alive = {})

===============================================================================
