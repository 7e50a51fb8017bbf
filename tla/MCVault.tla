------------------------------ MODULE MCVault ------------------------------
(* Small instances of Vault for TLC. *)
EXTENDS Vault

\* Everything may go wrong.
AllFaults == FaultKinds

\* No store() fails and no record is hidden or damaged.
SoftFaults == {"load", "remove", "derive", "crash"}

StoreFaults == {"store"}

LoadFaults == {"load", "crash"}
=============================================================================
