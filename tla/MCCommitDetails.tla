-------------------------- MODULE MCCommitDetails --------------------------
(* CommitDetails for TLC: three commits and a list of two requests, so that *)
(* a page can push a request, or an answer, of another page out.            *)
EXTENDS CommitDetails

=============================================================================
