------------------------------ MODULE MCWorkers ------------------------------
(***************************************************************************)
(* The small threads of the program, for TLC: those that write the log and *)
(* the trace, the one that asks for commit messages, and those that load   *)
(* the commits of a log.  They share nothing, so each behaviour is one of  *)
(* a single one of them.                                                   *)
(***************************************************************************)
EXTENDS CommitLog

CONSTANTS MaxLogs, MaxEvents, MaxAsked

ASSUME BoundAssumption == {MaxLogs, MaxEvents, MaxAsked} \subseteq Nat

VARIABLES
  busy,  \* the one that acts
  items, paused, stopping, fd, writer, batch, main, logged, written, marks,
  queue, closing, tracer, event, file, isOpen, owner, put, due,
  requested, fields, interrupted, gen, prompt, answers, dialog, enabled, asked

L == INSTANCE Logger
T == INSTANCE TraceEventWriter
G == INSTANCE CommitMessage

logger == <<items, paused, stopping, fd, writer, batch, main, logged, written, marks>>
trace == <<queue, closing, tracer, event, file, isOpen, owner, put, due>>
message == <<requested, fields, interrupted, gen, prompt, answers, dialog, enabled, asked>>
allVars == <<busy, logger, trace, message, vars>>

StartAll ==
  /\ busy \in {"logger", "trace", "message", "commits"}
  /\ L!Init /\ T!Init /\ G!Init /\ Init
  /\ busy # "commits" => objects = <<>>

Logs == busy = "logger" /\ L!Next /\ UNCHANGED <<busy, trace, message, vars>>
Traces == busy = "trace" /\ T!Next /\ UNCHANGED <<busy, logger, message, vars>>
Asks == busy = "message" /\ G!Next /\ UNCHANGED <<busy, logger, trace, vars>>
Loads == busy = "commits" /\ Next /\ UNCHANGED <<busy, logger, trace, message>>

Step == Logs \/ Traces \/ Asks \/ Loads

\* Threads run, the model server answers or the connection fails, queued
\* signals are delivered, and a stop() or close() that began goes on; nobody has
\* to log, to put, to ask or to stop.
Fairness ==
  /\ WF_allVars(Logs /\ L!Thread) /\ WF_allVars(Logs /\ (L!StopNotify \/ L!Join))
  /\ WF_allVars(Traces /\ T!Thread) /\ WF_allVars(Traces /\ T!CloseEnd)
  /\ WF_allVars(Asks /\ G!Thread) /\ WF_allVars(Asks /\ G!OnReady)
  /\ WF_allVars(Asks /\ (G!StopNotify \/ G!Join))

Working == StartAll /\ [][Step]_allVars /\ Fairness

-----------------------------------------------------------------------------
\* What was handed over before a stop is written by the time the stop returns,
\* once and in order, by the logger and in the trace file; nothing logged after the
\* pause misses the log file.
Flushed == L!Flushed /\ L!FileAfterPause /\ T!Flushed

\* A generated message is of one request, the latest.
OneRequest == G!OneRequest

\* A request that finds the thread waiting is answered.
Answered == busy = "message" => G!Answered

\* The first three stop when told to, outside the windows of lost notifications.
StopReturns == L!StopReturns /\ T!StopReturns /\ G!StopReturns
===============================================================================
