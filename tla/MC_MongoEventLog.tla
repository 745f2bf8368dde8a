-------------------------- MODULE MC_MongoEventLog --------------------------
(* Small instances of MongoEventLog for TLC. *)
EXTENDS MongoEventLog, TLC

WholeStream == {<<0, -1>>}
UpToRevision == {<<0, -1>>, <<0, 1>>, <<1, -1>>}

ClientsAndIds == Permutations(Client) \cup Permutations(CommitId)
=============================================================================
