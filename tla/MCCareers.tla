------------------------------- MODULE MCCareers -------------------------------
(* Instances of Careers for TLC. *)
EXTENDS Careers, TLC

CONSTANTS head, junior, outsider

Symmetry == Permutations(Web)

BothLetters == (1..MaxApps) \X {"interview", "decision"}

FirstStaff == [p \in People |-> IF p = head THEN 2 ELSE IF p = junior THEN 1 ELSE 0]

Everything == {"applications.view", "applications.decide", "staff.view",
               "staff.edit", "staff.remove", "staff.suspend", "staff.loa", "staff.notes"}
ByRank == <<{"staff.view", "staff.edit", "staff.loa", "staff.notes"}, Everything>>
\* Applications; ranks with teams, and with leave; delivery.
Scenes ==
    {{"apply", "interview"}, {"apply", "accept"},
     {"rank"}, {"remove", "placement"}, {"remove", "status", "notes"},
     {"outbox"}, {"log"}}
===============================================================================
