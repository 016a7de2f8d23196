-------------------------------- MODULE Monitor --------------------------------
(***************************************************************************)
(* The checks of the status page.  While the website runs it probes each   *)
(* component once in an interval and records the answer; while it does     *)
(* not, or the database is down, nothing is recorded.  The page is made    *)
(* of what was recorded: the state of each component now, and how much of  *)
(* each day it was up, where for the website itself a minute without a     *)
(* check counts as down.                                                   *)
(*                                                                         *)
(* Time goes in ticks, so that a website which is started again may check  *)
(* out of step with before.  Probes and statements take less than a tick   *)
(* (10 s a probe).  Checks older than 90 days, which no page shows, are    *)
(* deleted; the model does not live that long.                             *)
(***************************************************************************)
EXTENDS Integers, Sequences, SequencesExt, FiniteSets, FiniteSetsExt

CONSTANTS
    Components,     \* those that are monitored, in order: a sequence of keys
    Self,           \* the one with selfCheck
    BotKey,         \* the one that is the bot
    Interval, DayLength,
    MaxTime,        \* how long a model checker looks: a constraint, time never stops
    MaxTroubles

ASSUME MonitorAssumption ==
    /\ Interval \in Nat \ {0} /\ DayLength \in Nat \ {0} /\ MaxTime \in Nat /\ MaxTroubles \in Nat
    /\ Components \in Seq(ToSet(Components)) /\ IsInjective(Components) /\ Self \in ToSet(Components)

VARIABLES
    now,
    checks,         \* status_checks: [component, ok, at]
    website,        \* the website's process: [up, next, todo, starts]
    database,       \* whether it answers
    well,           \* which components would answer
    troubles        \* what went wrong so far

monitorVars == <<now, checks, website, database, well, troubles>>

staleAfter == 3 * Interval
Keys == ToSet(Components)

Started(at) == [up |-> TRUE, next |-> at, todo |-> <<>>, starts |-> 1]

MonitorInit ==
    /\ now = 0 /\ checks = <<>>
    /\ website = Started(0) /\ database = TRUE
    /\ well = Keys /\ troubles = 0

Trouble == troubles < MaxTroubles /\ troubles' = troubles + 1

-------------------------------------------------------------------------------
\* Run: a pass at once, then one in each interval.

StartPass ==
    /\ website.up /\ website.todo = <<>> /\ website.next = now
    /\ website' = [website EXCEPT !.todo = Components, !.next = now + Interval]
    /\ UNCHANGED <<now, checks, database, well, troubles>>

\* checkAll, of the next component.  Where the row cannot be inserted there is none.
RecordCheck ==
    /\ website.todo # <<>>
    /\ LET c == Head(website.todo) IN
       checks' = IF database THEN Append(checks, [component |-> c, ok |-> c \in well, at |-> now]) ELSE checks
    /\ website' = [website EXCEPT !.todo = Tail(website.todo)]
    /\ UNCHANGED <<now, database, well, troubles>>

\* The website stops, at any point of a pass, and is started again.
WebsiteDown ==
    /\ website.up /\ Trouble
    /\ website' = [website EXCEPT !.up = FALSE, !.todo = <<>>]
    /\ UNCHANGED <<now, checks, database, well>>

WebsiteUp ==
    /\ ~website.up
    /\ website' = [Started(now) EXCEPT !.starts = website.starts + 1]
    /\ UNCHANGED <<now, checks, database, well, troubles>>

\* The database goes and comes back; so does whatever is monitored.
DatabaseChanges ==
    /\ IF database THEN Trouble ELSE UNCHANGED troubles
    /\ database' = ~database
    /\ UNCHANGED <<now, checks, website, well>>

HealthChanges(c) ==
    /\ c \notin {Self, BotKey}
    /\ IF c \in well THEN Trouble ELSE UNCHANGED troubles
    /\ well' = IF c \in well THEN well \ {c} ELSE well \cup {c}
    /\ UNCHANGED <<now, checks, website, database>>

\* What is due is done before the next tick.
OnTime == website.up => website.todo = <<>> /\ website.next > now

-------------------------------------------------------------------------------
\* Snapshot

Of(c) == {i \in DOMAIN checks : checks[i].component = c}

\* The latest check of a component, unless it is too old.
StateOf(c) ==
    IF Of(c) = {} THEN "unknown"
    ELSE LET latest == checks[Max(Of(c))] IN
         IF now - latest.at > staleAfter THEN "unknown" ELSE IF latest.ok THEN "up" ELSE "down"

\* What stands above them all.
Headline ==
    IF \E c \in Keys : StateOf(c) = "down" THEN "down"
    ELSE IF \E c \in Keys : StateOf(c) = "unknown" THEN "unknown" ELSE "up"

Count(c, d) == Cardinality({i \in DOMAIN checks : checks[i].component = c /\ checks[i].at \div DayLength = d})
CountOk(c, d) ==
    Cardinality({i \in DOMAIN checks : checks[i].component = c /\ checks[i].ok /\ checks[i].at \div DayLength = d})

\* The minutes of a day since the first check ever, until now.
Expected(d) ==
    (Min({now, (d + 1) * DayLength}) - Max({checks[1].at, d * DayLength})) \div Interval

\* Mutant: a minute without a check is left out, as it is for the others.
DenominatorRecorded(c, d) == Count(c, d)

\* What a day is measured by: its checks, or the minutes it should have had.
Denominator(c, d) ==
    IF c = Self THEN Max({Count(c, d), Expected(d)}) ELSE Count(c, d)

\* The days of the page, and how much of them a component was not up.
Days == 0..(now \div DayLength)
NotUp(c) ==
    LET upTo[d \in Days] == (IF d = 0 THEN 0 ELSE upTo[d - 1]) + (Denominator(c, d) - CountOk(c, d))
    IN IF checks = <<>> THEN 0 ELSE upTo[now \div DayLength]

-------------------------------------------------------------------------------
\* Intervals, from the first check on, in which the website recorded nothing.
Gaps ==
    IF checks = <<>> THEN {}
    ELSE {k \in 0..((now - checks[1].at) \div Interval - 1) :
            LET from == checks[1].at + k * Interval IN
            ~\E i \in DOMAIN checks : checks[i].component = Self /\ checks[i].at \in from..(from + Interval - 1)}

\* The time in which the website recorded nothing is shown as time it was down: all of it
\* but one interval for each start of the website, which checks at once and so more often
\* than the page expects, and one for each midnight, where intervals are rounded down ("a
\* missing minute *is* the outage", Snapshot).
OutagesCount == Cardinality(Gaps) <= NotUp(Self) + website.starts + now \div DayLength

\* "if the website is down, no row gets written at all, so its uptime counts missing
\* minutes as down" (Component.selfCheck): not all of them.
MissingMinutesCount == Cardinality(Gaps) <= NotUp(Self)

===============================================================================
