----------------------------- MODULE MCCommitLog -----------------------------
(* CommitLog for TLC: two commits in the wrong order are enough.             *)
EXTENDS CommitLog

===============================================================================
