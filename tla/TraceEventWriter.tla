--------------------------- MODULE TraceEventWriter ---------------------------
(***************************************************************************)
(* The trace log (TraceEventWriter.cpp and ApplicationGlobal.cpp).         *)
(*                                                                         *)
(* The file is opened once, when the program starts, if tracing is enabled *)
(* and the directory exists; the menu action and the end of the program    *)
(* close it.  Any thread puts events, whether a file is open or not; one   *)
(* thread per open file writes them.                                       *)
(***************************************************************************)
EXTENDS Integers, Sequences

CONSTANT MaxEvents  \* bound: events put

VARIABLES
  queue,    \* queue_: events are numbered in the order they were put
  closing,  \* interrupted_
  tracer,   \* the thread: waiting, writing the event it took, or ended
  event,    \* the event it took
  file,     \* what the file holds
  isOpen,   \* file_.isOpen()
  owner,    \* who calls open() and close()
  put,      \* how many events were put
  due       \* history: put when close() began

vars == <<queue, closing, tracer, event, file, isOpen, owner, put, due>>

\* "Application" begins with the first event of a file and ends outside the queue.
Header == -1
AppEnd == -2
Footer == -3
OwnerPCs == {"begin", "running", "menu", "quit", "ended"}

Init ==
  /\ queue = <<>> /\ closing = FALSE /\ tracer = "none" /\ event = 0
  /\ file = <<>> /\ isOpen = FALSE /\ owner = "begin" /\ put = 0 /\ due = 0

-----------------------------------------------------------------------------
(* The thread; its wait has a predicate, and both who make it true notify. *)

\* Variant: ends as soon as it is told to.
WaitOnce ==
  /\ tracer = "wait"
  /\ \/ closing /\ tracer' = "ended" /\ UNCHANGED <<queue, event>>
     \/ /\ ~closing /\ queue # <<>> /\ tracer' = "write"
        /\ event' = Head(queue) /\ queue' = Tail(queue)
  /\ UNCHANGED <<closing, file, isOpen, owner, put, due>>

Wait ==
  /\ tracer = "wait"
  /\ \/ queue = <<>> /\ closing /\ tracer' = "ended" /\ UNCHANGED <<queue, event>>
     \/ queue # <<>> /\ tracer' = "write" /\ event' = Head(queue) /\ queue' = Tail(queue)
  /\ UNCHANGED <<closing, file, isOpen, owner, put, due>>

Write ==
  /\ tracer = "write"
  /\ file' = Append(file, event)
  /\ tracer' = "wait"
  /\ UNCHANGED <<queue, closing, event, isOpen, owner, put, due>>

Thread == Wait \/ Write

-----------------------------------------------------------------------------
Put ==
  /\ owner # "begin" /\ put < MaxEvents
  /\ put' = put + 1
  /\ queue' = Append(queue, put')
  /\ UNCHANGED <<closing, tracer, event, file, isOpen, owner, due>>

\* open_trace_logger() from main(): nothing is open yet.  Tracing disabled, no
\* such directory and no such file all leave the queue without a thread; else
\* the event that begins "Application" is put.
Open ==
  /\ owner = "begin" /\ owner' = "running"
  /\ \/ UNCHANGED <<queue, tracer, file, isOpen, put>>
     \/ /\ put < MaxEvents
        /\ isOpen' = TRUE /\ file' = <<Header>>
        /\ tracer' = "wait"
        /\ put' = put + 1 /\ queue' = Append(queue, put')
  /\ UNCHANGED <<closing, event, due>>

\* close(), from the menu action or the destructor: the flag, under the mutex.
Close(by) ==
  /\ owner = "running" /\ owner' = by
  /\ closing' = TRUE
  /\ due' = IF isOpen THEN put ELSE due
  /\ UNCHANGED <<queue, tracer, event, file, isOpen, put>>

\* ... the join, and the end of the file.
CloseEnd ==
  /\ owner \in {"menu", "quit"} /\ tracer \in {"none", "ended"}
  /\ tracer' = "none" /\ closing' = FALSE
  /\ file' = IF isOpen THEN file \o <<AppEnd, Footer>> ELSE file
  /\ isOpen' = FALSE
  /\ owner' = IF owner = "menu" THEN "running" ELSE "ended"
  /\ UNCHANGED <<queue, event, put, due>>

Next == Thread \/ Put \/ Open \/ Close("menu") \/ Close("quit") \/ CloseEnd

Spec == Init /\ [][Next]_vars

-----------------------------------------------------------------------------
\* Every variable has its type (class TraceEventWriter).
TypeOK ==
  /\ queue \in Seq(1..MaxEvents) /\ event \in 0..MaxEvents
  /\ file \in Seq((1..MaxEvents) \cup {Header, AppEnd, Footer})
  /\ closing \in BOOLEAN /\ isOpen \in BOOLEAN /\ owner \in OwnerPCs
  /\ tracer \in {"none", "wait", "write", "ended"}
  /\ put \in 0..MaxEvents /\ due \in 0..MaxEvents

\* A closed trace file is complete: its header, then the events in the order
\* they were put, at least all that were put before close() was called, then
\* the end of "Application" and the footer; an event put later is not in it
\* twice or after the footer.
Flushed ==
  ~isOpen /\ file # <<>> =>
    LET n == Len(file) - 3 IN
    /\ n >= due
    /\ file = <<Header>> \o [k \in 1..n |-> k] \o <<AppEnd, Footer>>

\* The menu action is called "Restart trace logger" (MainWindow.ui:1791): what
\* was open before it is open after it.
RestartReopens == [][owner = "menu" /\ owner' = "running" /\ isOpen => isOpen']_vars

\* close() returns: the flag is set under the mutex, so no notification is lost.
StopReturns == (owner \in {"menu", "quit"}) ~> (owner \in {"running", "ended"})
===============================================================================
