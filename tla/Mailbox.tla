-------------------------------- MODULE Mailbox --------------------------------
(***************************************************************************)
(* What the website promises of messages for Discord: one that was posted  *)
(* is confirmed once it was heard, or dropped; nothing is said that was    *)
(* not posted, and nothing is said again once it is confirmed or dropped.  *)
(* How often a message is heard before that is left open.                  *)
(***************************************************************************)
CONSTANT Message

VARIABLES
    posted,      \* committed with what they are about
    heard,       \* reached Discord
    confirmed,   \* known to have reached it
    dropped      \* given up

vars == <<posted, heard, confirmed, dropped>>

Init == posted = {} /\ heard = {} /\ confirmed = {} /\ dropped = {}

Waiting == posted \ (confirmed \cup dropped)

Post ==
    /\ \E m \in Message \ posted : posted' = posted \cup {m}
    /\ UNCHANGED <<heard, confirmed, dropped>>

\* A message whose answer is lost may be given up at once.
Say ==
    /\ \E m \in Waiting, some \in SUBSET Waiting :
         heard' = heard \cup {m} /\ dropped' = dropped \cup some
    /\ UNCHANGED <<posted, confirmed>>

Confirm ==
    /\ \E m \in Waiting \cap heard : confirmed' = confirmed \cup {m}
    /\ UNCHANGED <<posted, heard, dropped>>

Drop ==
    /\ \E some \in SUBSET Waiting : some # {} /\ dropped' = dropped \cup some
    /\ UNCHANGED <<posted, heard, confirmed>>

Next == Post \/ Say \/ Confirm \/ Drop

Spec == Init /\ [][Next]_vars

\* No message waits for ever.
EveryMessageEnds == \A m \in Message : m \in posted ~> m \in confirmed \cup dropped

===============================================================================
