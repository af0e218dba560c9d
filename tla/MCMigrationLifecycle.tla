------------------------ MODULE MCMigrationLifecycle ------------------------
(* Small instances of MigrationLifecycle for TLC. *)
EXTENDS MigrationLifecycle, TLC

\* Requests, slots and task ids are interchangeable in every action and in
\* every safety property.
Symmetry == Permutations(Requests) \cup Permutations(Slots) \cup Permutations(TaskIds)

=============================================================================
