-------------------------------- MODULE Logger --------------------------------
(***************************************************************************)
(* The log file (Logger.cpp, and main.cpp where it is used).               *)
(*                                                                         *)
(* Any thread pushes messages onto a list; one thread writes them.  main() *)
(* starts that thread before it can name the log file, so the first lines  *)
(* go to stderr, and pauses it while the file is opened.  x_stop() sets    *)
(* its flag without the mutex, so the thread's pass through its critical   *)
(* section is split between its look at the flag and its wait.             *)
(***************************************************************************)
EXTENDS Naturals, Sequences

CONSTANT MaxLogs  \* bound: messages logged

VARIABLES
  items,     \* m->items: messages are numbered in the order they were pushed
  paused,    \* m->paused
  stopping,  \* m->interrupted
  fd,        \* m->fd_log: where write() writes to
  writer,    \* where the logger's thread is
  batch,     \* its local items
  main,      \* how far main() is
  logged,    \* how many messages were pushed
  written,   \* history: what was written, and where to
  marks      \* history: logged when the thread was paused, and when it was stopped

vars == <<items, paused, stopping, fd, writer, batch, main, logged, written, marks>>

\* The thread holds the mutex at "check"; "wait" is inside cv.wait.
WriterPCs == {"none", "top", "check", "wait", "woken", "write", "ended"}
MainPCs == {"begin", "started", "paused", "opened", "running", "stopping", "joining", "stopped"}

Init ==
  /\ items = <<>> /\ paused = FALSE /\ stopping = FALSE /\ fd = "stderr"
  /\ writer = "none" /\ batch = <<>> /\ main = "begin" /\ logged = 0
  /\ written = <<>> /\ marks = [pause |-> 0, stop |-> 0]

MutexFree == writer # "check"
NotifyAll == writer' = IF writer = "wait" THEN "woken" ELSE writer

-----------------------------------------------------------------------------
(* The thread *)

Take ==
  /\ batch' = items /\ items' = <<>>
  /\ writer' = "write"

\* Variant: looks at the flag before it looks for messages.
TopFlagFirst ==
  /\ writer = "top"
  /\ \/ stopping /\ writer' = "ended" /\ UNCHANGED <<items, batch>>
     \/ ~stopping /\ items = <<>> /\ writer' = "check" /\ UNCHANGED <<items, batch>>
     \/ ~stopping /\ items # <<>> /\ ~paused /\ Take
  /\ UNCHANGED <<paused, stopping, fd, main, logged, written, marks>>

\* Nothing to write: end, or go to wait.  While paused the thread goes round
\* without a pause of its own: a step that changes nothing.
Top ==
  /\ writer = "top"
  /\ \/ /\ items = <<>>
        /\ writer' = IF stopping THEN "ended" ELSE "check"
        /\ UNCHANGED <<items, batch>>
     \/ items # <<>> /\ ~paused /\ Take
  /\ UNCHANGED <<paused, stopping, fd, main, logged, written, marks>>

Sleep ==
  /\ writer = "check"
  /\ writer' = "wait"
  /\ UNCHANGED <<items, paused, stopping, fd, batch, main, logged, written, marks>>

SpuriousWakeup ==
  /\ writer = "wait"
  /\ writer' = "woken"
  /\ UNCHANGED <<items, paused, stopping, fd, batch, main, logged, written, marks>>

\* Variant: does not look whether it is paused.
WokenAnyway ==
  /\ writer = "woken"
  /\ Take
  /\ UNCHANGED <<paused, stopping, fd, main, logged, written, marks>>

Woken ==
  /\ writer = "woken"
  /\ IF paused THEN writer' = "top" /\ UNCHANGED <<items, batch>> ELSE Take
  /\ UNCHANGED <<paused, stopping, fd, main, logged, written, marks>>

\* write(item), outside the mutex, to whatever file is open now.
Write ==
  /\ writer = "write"
  /\ IF batch = <<>>
     THEN writer' = "top" /\ UNCHANGED <<batch, written>>
     ELSE /\ written' = Append(written, [message |-> Head(batch), to |-> fd])
          /\ batch' = Tail(batch)
          /\ UNCHANGED writer
  /\ UNCHANGED <<items, paused, stopping, fd, main, logged, marks>>

Thread == Top \/ Sleep \/ Woken \/ Write

-----------------------------------------------------------------------------
(* Everybody else *)

Push ==
  /\ main # "begin" /\ logged < MaxLogs /\ MutexFree
  /\ logged' = logged + 1
  /\ items' = Append(items, logged')
  /\ NotifyAll
  /\ UNCHANGED <<paused, stopping, fd, batch, main, written, marks>>

Start ==
  /\ main = "begin" /\ main' = "started"
  /\ writer' = "top"
  /\ UNCHANGED <<items, paused, stopping, fd, batch, logged, written, marks>>

\* x_pause(true)
Pause ==
  /\ main = "started" /\ MutexFree /\ main' = "paused"
  /\ paused' = TRUE
  /\ marks' = [marks EXCEPT !.pause = logged]
  /\ UNCHANGED <<items, stopping, fd, writer, batch, logged, written>>

\* x_open(); the file may refuse to open.
Open ==
  /\ main = "paused" /\ main' = "opened"
  /\ fd' \in {"file", "stderr"}
  /\ UNCHANGED <<items, paused, stopping, writer, batch, logged, written, marks>>

\* x_pause(false)
Resume ==
  /\ main = "opened" /\ MutexFree /\ main' = "running"
  /\ paused' = FALSE
  /\ NotifyAll
  /\ UNCHANGED <<items, stopping, fd, batch, logged, written, marks>>

\* x_stop() as the program ends: the flag, the notification, the join.
Stop ==
  /\ main = "running" /\ main' = "stopping"
  /\ paused' = FALSE /\ stopping' = TRUE
  /\ marks' = [marks EXCEPT !.stop = logged]
  /\ UNCHANGED <<items, fd, writer, batch, logged, written>>

StopNotify ==
  /\ main = "stopping" /\ main' = "joining"
  /\ NotifyAll
  /\ UNCHANGED <<items, paused, stopping, fd, batch, logged, written, marks>>

Join ==
  /\ main = "joining" /\ writer = "ended" /\ main' = "stopped"
  /\ fd' = "stderr" /\ stopping' = FALSE
  /\ UNCHANGED <<items, paused, writer, batch, logged, written, marks>>

Main == Start \/ Pause \/ Open \/ Resume \/ Stop \/ StopNotify \/ Join

Next == Thread \/ SpuriousWakeup \/ Push \/ Main

Spec == Init /\ [][Next]_vars

-----------------------------------------------------------------------------
\* Every variable has its type (struct Logger::Private).
TypeOK ==
  /\ items \in Seq(1..MaxLogs) /\ batch \in Seq(1..MaxLogs)
  /\ paused \in BOOLEAN /\ stopping \in BOOLEAN /\ fd \in {"stderr", "file"}
  /\ writer \in WriterPCs /\ main \in MainPCs /\ logged \in 0..MaxLogs
  /\ written \in Seq([message : 1..MaxLogs, to : {"stderr", "file"}])
  /\ marks \in [pause : 0..MaxLogs, stop : 0..MaxLogs]

\* Messages are written once each and in the order of their pushes, and when
\* x_stop() has returned, everything pushed before it was called is written
\* (the thread ends only with an empty list).
Flushed ==
  /\ \A k \in 1..Len(written) : written[k].message = k
  /\ main = "stopped" => Len(written) >= marks.stop

\* What is logged after main() paused the thread never goes to stderr when the
\* file could be opened, however the thread was caught by the pause.
FileAfterPause ==
  fd = "file" => \A k \in 1..Len(written) : k > marks.pause => written[k].to = "file"

\* x_stop() returns, unless its notification fell between the thread's look at
\* the flag and its wait.
StopReturns == (main = "joining" /\ writer \notin {"check", "wait"}) ~> (main = "stopped")
===============================================================================
