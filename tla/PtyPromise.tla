----------------------------- MODULE PtyPromise -----------------------------
(***************************************************************************)
(* What a pseudo terminal process promises its users (AbstractPtyProcess). *)
(*                                                                         *)
(* One command at a time.  A command runs until it ends or is interrupted; *)
(* then wait() may go on, the completion callback is called once, and only *)
(* then can the thread be joined.  Until it is joined the process counts   *)
(* as running and start() is ignored.                                      *)
(***************************************************************************)
EXTENDS Naturals

VARIABLES
  phase,        \* of the running command
  interrupted,  \* stop() has been called since start() began
  success       \* the command that was last completed exited with 0

pty == <<phase, interrupted, success>>

\* "completed": wait() goes on; "notified": the callback has been called.
Phases == {"none", "running", "completed", "notified"}

is_running == phase # "none"

Free == phase = "none" /\ interrupted = FALSE /\ success = FALSE

\* start() forgets the last command ...
Reset ==
  /\ ~is_running
  /\ interrupted' = FALSE /\ success' = FALSE
  /\ UNCHANGED phase

\* ... and creates the thread.
Launch ==
  /\ phase = "none" /\ phase' = "running"
  /\ UNCHANGED <<interrupted, success>>

Complete ==
  /\ phase = "running" /\ phase' = "completed"
  /\ success' \in BOOLEAN
  /\ UNCHANGED interrupted

Notify ==
  /\ phase = "completed" /\ phase' = "notified"
  /\ UNCHANGED <<interrupted, success>>

Join ==
  /\ phase = "notified" /\ phase' = "none"
  /\ UNCHANGED <<interrupted, success>>

Interrupt ==
  /\ interrupted' = TRUE
  /\ UNCHANGED <<phase, success>>

PtyNext == Reset \/ Launch \/ Complete \/ Notify \/ Join \/ Interrupt

\* An interrupted command completes, and what has completed is notified.
Promise ==
  /\ Free /\ [][PtyNext]_pty
  /\ WF_pty(interrupted /\ Complete) /\ WF_pty(Notify)
=============================================================================
