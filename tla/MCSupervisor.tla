---------------------------- MODULE MCSupervisor ----------------------------
(* Instances of Supervisor for TLC. *)
EXTENDS Supervisor, TLC

\* Past a start that raced with start-up the properties promise nothing.
UntilRaced == ~raced

Symmetry == Permutations(Processes) \cup Permutations(Goroutines)

=============================================================================
