----------------------------- MODULE MCPtyGit -----------------------------
(* PtyGit for TLC: two requests and a commit are enough for a request to    *)
(* be overtaken while the terminal runs the command of another, three       *)
(* commands for a request that is run once more to meet the next one.       *)
EXTENDS PtyGit

===========================================================================
