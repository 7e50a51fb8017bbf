---------------------------- MODULE MCPosixPty ----------------------------
(* PosixPty for TLC: two commands show what one leaves to the next. *)
EXTENDS PosixPty

==========================================================================
