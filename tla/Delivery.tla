------------------------------- MODULE Delivery -------------------------------
(***************************************************************************)
(* How the website's messages reach Discord.  The outbox holds messages a  *)
(* person must receive: a transaction queues them with what they are about *)
(* and one worker sends them, in batches, with a backoff, for a day.  The  *)
(* poster copies the rows of the staff log to a channel.  Each marks a     *)
(* message in another statement than the call that sent it.                *)
(*                                                                         *)
(* What can go wrong is a fault: a call whose answer is lost, a mark the   *)
(* database refuses, a restart of the process with both loops.             *)
(***************************************************************************)
EXTENDS Integers, Sequences, FiniteSets

CONSTANTS
    Keys,          \* dedupe keys
    OutboxBatch,   \* outboxBatch
    LogBatch,      \* the LIMIT of postPending
    MaxFaults, MaxPosts, MaxLog   \* bounds

ASSUME DeliveryAssumption ==
    {OutboxBatch, LogBatch} \subseteq Nat \ {0} /\ {MaxFaults, MaxPosts, MaxLog} \subseteq Nat

VARIABLES
    outbox,     \* discord_outbox, by id: [key, text, state, due, old, heard]
    worker,     \* deliverDue: [at, batch, answer]
    staffLog,   \* staff_log, by id: [posted, old, heard]
    poster,     \* postPending: [at, batch]
    faults      \* how many there were

workerVars == <<outbox, worker>>
posterVars == <<staffLog, poster>>
deliveryVars == <<workerVars, posterVars, faults>>

AtRest == [at |-> "rest", batch |-> <<>>, answer |-> "none"]
Waits == [at |-> "rest", batch |-> <<>>]

DeliveryInit ==
    /\ outbox = <<>> /\ worker = AtRest
    /\ staffLog = <<>> /\ poster = Waits
    /\ faults = 0

\* The ids of rows, lowest first, the first n of them.
FirstIds(ids, n) ==
    LET before(i) == {j \in ids : j <= i}
        taken == {i \in ids : Cardinality(before(i)) <= n}
    IN [k \in 1..Cardinality(taken) |-> CHOOSE i \in taken : Cardinality(before(i)) = k]

Fault == faults < MaxFaults /\ faults' = faults + 1

-------------------------------------------------------------------------------
\* The outbox

Queued(key) == \E i \in DOMAIN outbox : outbox[i].key = key

\* Enqueue, in the caller's transaction: ON CONFLICT (dedupe_key) DO NOTHING.
Enqueue(key, text) ==
    IF Queued(key) THEN UNCHANGED outbox
    ELSE outbox' = Append(outbox, [key |-> key, text |-> text, state |-> "queued",
                                   due |-> TRUE, old |-> FALSE, heard |-> 0])

\* EnqueueNow, in a transaction of its own.
EnqueueNow ==
    /\ Len(outbox) < MaxPosts /\ \E key \in Keys : ~Queued(key)
    /\ Enqueue(CHOOSE key \in Keys : ~Queued(key), "post")
    /\ UNCHANGED <<worker, posterVars, faults>>

\* The batch of a pass: due rows, by id.
TakeBatch ==
    LET due == {i \in DOMAIN outbox : outbox[i].state = "queued" /\ outbox[i].due} IN
    /\ worker.at = "rest" /\ due # {}
    /\ worker' = [at |-> "send", batch |-> FirstIds(due, OutboxBatch), answer |-> "none"]
    /\ UNCHANGED <<outbox, posterVars, faults>>

\* What is known of a call after it was made.  DMs that are closed, and channels or
\* users that are gone, are permanent failures.
Classify(answer) == worker' = [worker EXCEPT !.at = "mark", !.answer = answer]

\* send: it reaches Discord, or fails, or reaches Discord and the answer is lost.
Send ==
    /\ worker.at = "send"
    /\ LET i == Head(worker.batch)
           heard == outbox' = [outbox EXCEPT ![i].heard = @ + 1]
       IN \/ heard /\ Classify("sent") /\ UNCHANGED faults
          \/ heard /\ Classify("failed") /\ Fault
          \/ \E answer \in {"failed", "permanent"} :
               Classify(answer) /\ UNCHANGED <<outbox, faults>>
    /\ UNCHANGED posterVars

\* The worker goes on to the next row of its batch, or rests.
NextRow ==
    worker' = IF Len(worker.batch) = 1 THEN AtRest
              ELSE [at |-> "send", batch |-> Tail(worker.batch), answer |-> "none"]

\* Mutant: whatever the answer was, the row is marked as sent.
VerdictSent(row) == [row EXCEPT !.state = "sent"]

\* Mutant: a row that keeps failing is tried for ever.
VerdictNever(row) ==
    IF worker.answer = "sent" THEN [row EXCEPT !.state = "sent"]
    ELSE IF worker.answer = "permanent" THEN [row EXCEPT !.state = "gave up"]
    ELSE [row EXCEPT !.due = FALSE]

\* The row after an attempt: sent, given up at once or after a day, or not due
\* before its backoff is over.
Verdict(row) ==
    IF worker.answer = "sent" THEN [row EXCEPT !.state = "sent"]
    ELSE IF worker.answer = "permanent" \/ row.old THEN [row EXCEPT !.state = "gave up"]
    ELSE [row EXCEPT !.due = FALSE]

\* The update of the row, which may fail: it is only logged.
Mark ==
    /\ worker.at = "mark"
    /\ LET i == Head(worker.batch) IN
       \/ outbox' = [outbox EXCEPT ![i] = Verdict(outbox[i])] /\ UNCHANGED faults
       \/ Fault /\ UNCHANGED outbox
    /\ NextRow
    /\ UNCHANGED posterVars

BackoffOver ==
    /\ \E i \in DOMAIN outbox :
         ~outbox[i].due /\ outbox' = [outbox EXCEPT ![i].due = TRUE]
    /\ UNCHANGED <<worker, posterVars, faults>>

-------------------------------------------------------------------------------
\* The poster

\* LogStaffAction, or a trigger, of any transaction.
LogStaffAction ==
    /\ Len(staffLog) < MaxLog
    /\ staffLog' = Append(staffLog, [posted |-> FALSE, old |-> FALSE, heard |-> 0])
    /\ UNCHANGED <<workerVars, poster, faults>>

Pending == {i \in DOMAIN staffLog : ~staffLog[i].posted /\ ~staffLog[i].old}

\* postPending, when notified and every minute: rows not posted and not too old, by id.
TakePending ==
    /\ poster.at = "rest" /\ Pending # {}
    /\ poster' = [at |-> "post", batch |-> FirstIds(Pending, LogBatch)]
    /\ UNCHANGED <<workerVars, staffLog, faults>>

\* A post that fails ends the pass, to keep the order.
PostRow ==
    /\ poster.at = "post"
    /\ LET heard == staffLog' = [staffLog EXCEPT ![Head(poster.batch)].heard = @ + 1]
       IN \/ heard /\ poster' = [poster EXCEPT !.at = "mark"] /\ UNCHANGED faults
          \/ heard /\ poster' = Waits /\ Fault
          \/ poster' = Waits /\ UNCHANGED <<staffLog, faults>>
    /\ UNCHANGED workerVars

MarkPosted ==
    /\ poster.at = "mark"
    /\ \/ /\ staffLog' = [staffLog EXCEPT ![Head(poster.batch)].posted = TRUE]
          /\ poster' = IF Len(poster.batch) = 1 THEN Waits
                       ELSE [at |-> "post", batch |-> Tail(poster.batch)]
          /\ UNCHANGED faults
       \/ poster' = Waits /\ Fault /\ UNCHANGED staffLog
    /\ UNCHANGED workerVars

-------------------------------------------------------------------------------
\* A row is a day old: outboxGiveUp and defaultMaxAge.
DayPasses ==
    /\ \/ \E i \in DOMAIN outbox :
            /\ outbox[i].state = "queued" /\ ~outbox[i].old
            /\ outbox' = [outbox EXCEPT ![i].old = TRUE] /\ UNCHANGED staffLog
       \/ \E i \in Pending : staffLog' = [staffLog EXCEPT ![i].old = TRUE] /\ UNCHANGED outbox
    /\ UNCHANGED <<worker, poster, faults>>

\* The process with the two loops stops and starts again.
BotRestart ==
    /\ <<worker, poster>> # <<AtRest, Waits>>
    /\ worker' = AtRest /\ poster' = Waits
    /\ Fault
    /\ UNCHANGED <<outbox, staffLog>>

\* The loops of Outbox and Poster go round while the process runs, and time passes.
OutboxRun == WF_deliveryVars(TakeBatch) /\ WF_deliveryVars(Send) /\ WF_deliveryVars(Mark)
PosterRun == WF_deliveryVars(TakePending) /\ WF_deliveryVars(PostRow) /\ WF_deliveryVars(MarkPosted)
TimePasses == WF_deliveryVars(BackoffOver) /\ WF_deliveryVars(DayPasses)

-------------------------------------------------------------------------------
\* Properties

Texts == {"post", "interview", "rejected", "accepted"}
LetterRow == [key : Keys, text : Texts, state : {"queued", "sent", "gave up"},
              due : BOOLEAN, old : BOOLEAN, heard : Nat]
LogRow == [posted : BOOLEAN, old : BOOLEAN, heard : Nat]

DeliveryTypeOK ==
    /\ outbox \in Seq(LetterRow)
    /\ worker \in [at : {"rest", "send", "mark"}, batch : Seq(DOMAIN outbox),
                   answer : {"none", "sent", "failed", "permanent"}]
    /\ worker.at = "rest" <=> worker.batch = <<>>
    /\ staffLog \in Seq(LogRow)
    /\ poster \in [at : {"rest", "post", "mark"}, batch : Seq(DOMAIN staffLog)]
    /\ poster.at = "rest" <=> poster.batch = <<>>
    /\ faults \in 0..MaxFaults

KeysIn(rows) == {outbox[i].key : i \in rows}

Letters ==
    INSTANCE Mailbox WITH
        Message <- Keys,
        posted <- KeysIn(DOMAIN outbox),
        heard <- KeysIn({i \in DOMAIN outbox : outbox[i].heard > 0}),
        confirmed <- KeysIn({i \in DOMAIN outbox : outbox[i].state = "sent"}),
        dropped <- KeysIn({i \in DOMAIN outbox : outbox[i].state = "gave up"})

\* Rows the poster has in hand may still be posted when they are too old.
InHand == {poster.batch[k] : k \in DOMAIN poster.batch}

Notices ==
    INSTANCE Mailbox WITH
        Message <- 1..MaxLog,
        posted <- DOMAIN staffLog,
        heard <- {i \in DOMAIN staffLog : staffLog[i].heard > 0},
        confirmed <- {i \in DOMAIN staffLog : staffLog[i].posted},
        dropped <- {i \in DOMAIN staffLog : staffLog[i].old /\ ~staffLog[i].posted} \ InHand

\* The outbox and the poster are mailboxes: what is marked as sent was sent, nothing
\* is sent that was not committed, and nothing after it was marked, through lost
\* answers, failed marks and restarts (deliverDue, postPending).
MailboxSpec == Letters!Spec /\ Notices!Spec

\* Every message is sent or given up in the end, and every row of the staff log is
\* posted or too old: no failing row holds up the rest for ever (the backoff and
\* the day after which deliverDue gives up, the age limit of postPending).
EveryMessageEnds == Letters!EveryMessageEnds /\ Notices!EveryMessageEnds

\* A row of the staff log is posted once, "even across restarts or a Discord
\* outage" (the comment of Poster), though the post and its mark are two steps.
PostedOnce == \A i \in DOMAIN staffLog : staffLog[i].heard <= 1

===============================================================================
