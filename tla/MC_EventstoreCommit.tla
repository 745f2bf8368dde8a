------------------------- MODULE MC_EventstoreCommit -------------------------
(* Small instances of EventstoreCommit for TLC. *)
EXTENDS EventstoreCommit, TLC

Alike == Permutations(Handle) \cup Permutations(Stream)
           \cup Permutations(Event) \cup Permutations(Call)
=============================================================================
