------------------------------ MODULE PosixPty ------------------------------
(***************************************************************************)
(* A command on a pseudo terminal (ProcessPosixPty, BasicProcessPosix.cpp) *)
(* as its two users see it: one thread starts commands, the GUI thread     *)
(* waits for them, stops them and types.                                   *)
(*                                                                         *)
(* The process thread forks the child, moves bytes both ways, polls for    *)
(* the child's end, reads what is left of its output, and on an            *)
(* interruption sends SIGTERM and later SIGKILL.                           *)
(***************************************************************************)
EXTENDS Naturals, Sequences, SequencesExt

CONSTANTS
  MaxRuns,    \* bound: commands started
  MaxOutput,  \* bound: chunks of output a child writes
  MaxInput    \* bound: keys typed per command

ASSUME PtyAssumption ==
  MaxRuns \in Nat /\ MaxOutput \in Nat /\ MaxInput \in Nat

VARIABLES
  thread,       \* m->thread: not joinable, executing, or returned and joinable
  pc,           \* where the process thread is
  interrupted,  \* m->interrupted
  completed,    \* m->completed
  exit_code,    \* m->exit_code, by what it says of the child
  input_queue,  \* m->input_queue
  written,      \* bytes of the last write that are still queued
  child,        \* the child process, for the operating system
  status,       \* how it ended
  unread,       \* output in the PTY's buffer
  output,       \* output_vector_, as the number of chunks in it
  tty,          \* history: the keys the child was sent
  typed,        \* history: keys typed for this command
  starter,      \* the starting thread
  gui,          \* the GUI thread
  runs,         \* bound counter, and history: commands started
  notified      \* history: callbacks called

os == <<child, status, unread>>
user == <<starter, gui>>
input == <<input_queue, written, tty, typed>>
vars == <<thread, pc, interrupted, completed, exit_code, input, os, output, user,
          runs, notified>>

PCs == {"open", "loop", "flush", "erase", "poll", "drain", "term", "grace",
        "close", "complete", "notify", "end"}
Ends == {"ok", "fail", "signal"}

-----------------------------------------------------------------------------
Init ==
  /\ thread = "none" /\ pc = "end" /\ interrupted = FALSE /\ completed = TRUE
  /\ exit_code = "unset"
  /\ input_queue = <<>> /\ written = 0 /\ tty = <<>> /\ typed = 0
  /\ child = "none" /\ status = "ok" /\ unread = 0 /\ output = 0
  /\ starter = "idle" /\ gui = "idle"
  /\ runs = 0 /\ notified = 0

is_running == thread # "none"

-----------------------------------------------------------------------------
(* start() *)

\* Variant: the exit code of the last command stays.
BeginKeepsCode ==
  /\ interrupted' = FALSE
  /\ completed' = FALSE
  /\ UNCHANGED exit_code
  /\ output' = 0
  /\ input_queue' = <<>>

Begin ==
  /\ interrupted' = FALSE
  /\ completed' = FALSE
  /\ exit_code' = "unset"
  /\ output' = 0
  /\ input_queue' = <<>>

\* Everything up to the creation of the thread.
StartReset ==
  /\ starter = "idle" /\ ~is_running /\ runs < MaxRuns
  /\ Begin
  /\ tty' = <<>> /\ typed' = 0 /\ UNCHANGED written
  /\ starter' = "starting"
  /\ UNCHANGED <<thread, pc, os, gui, runs, notified>>

StartThread ==
  /\ starter = "starting"
  /\ starter' = "idle"
  /\ thread' = "executing"
  /\ pc' = "open"
  /\ child' = "none" /\ unread' = 0
  /\ runs' = runs + 1
  /\ UNCHANGED <<interrupted, completed, exit_code, input, status, output, gui, notified>>

\* An empty command starts no thread.
StartEmpty ==
  /\ starter = "starting"
  /\ starter' = "idle"
  /\ completed' = TRUE
  /\ UNCHANGED <<thread, pc, interrupted, exit_code, input, os, output, gui, runs, notified>>

-----------------------------------------------------------------------------
(* The process thread: run() and what start() has it do after run(). *)

threadOnly == <<thread, interrupted, user, runs>>

\* No pseudo terminal, or no process.
OpenFails ==
  /\ pc = "open"
  /\ pc' = "complete"
  /\ UNCHANGED <<threadOnly, completed, exit_code, input, os, output, notified>>

Fork ==
  /\ pc = "open"
  /\ pc' = "loop"
  /\ child' = "alive"
  /\ UNCHANGED <<threadOnly, completed, exit_code, input, status, unread, output, notified>>

Loop ==
  /\ pc = "loop"
  /\ pc' = IF interrupted THEN "term" ELSE "flush"
  /\ UNCHANGED <<threadOnly, completed, exit_code, input, os, output, notified>>

\* flush_input: what was copied from the queue is written, or a part of it.
FlushWrite ==
  /\ pc = "flush"
  /\ \E n \in 1..Len(input_queue) :
       /\ tty' = tty \o SubSeq(input_queue, 1, n)
       /\ written' = n
  /\ pc' = "erase"
  /\ UNCHANGED <<threadOnly, completed, exit_code, input_queue, typed, os, output, notified>>

\* Variant: the whole queue goes.
EraseAll ==
  /\ pc = "erase"
  /\ pc' = "flush"
  /\ input_queue' = <<>>
  /\ written' = 0
  /\ UNCHANGED <<threadOnly, completed, exit_code, tty, typed, os, output, notified>>

Erase ==
  /\ pc = "erase"
  /\ pc' = "flush"
  /\ input_queue' = SubSeq(input_queue, written + 1, Len(input_queue))
  /\ written' = 0
  /\ UNCHANGED <<threadOnly, completed, exit_code, tty, typed, os, output, notified>>

\* The queue is empty, or the terminal takes no more for now.
Flushed ==
  /\ pc = "flush"
  /\ pc' = "poll"
  /\ UNCHANGED <<threadOnly, completed, exit_code, input, os, output, notified>>

\* waitpid finds the child alive; select and read follow.
Read ==
  /\ pc = "poll" /\ child = "alive"
  /\ pc' = "loop"
  /\ \/ unread > 0 /\ unread' = unread - 1 /\ output' = output + 1
     \/ UNCHANGED <<unread, output>>
  /\ UNCHANGED <<threadOnly, completed, exit_code, input, child, status, notified>>

\* waitpid or select fails, by a signal or an error: as an interruption.
PollFails ==
  /\ pc = "poll" /\ child = "alive"
  /\ pc' = "term"
  /\ UNCHANGED <<threadOnly, completed, exit_code, input, os, output, notified>>

Reap ==
  /\ pc = "poll" /\ child = "zombie"
  /\ pc' = "drain"
  /\ child' = "reaped"
  /\ exit_code' = status
  /\ UNCHANGED <<threadOnly, completed, input, status, unread, output, notified>>

\* The rest of the output, as long as select() and read() find more of it ...
Drain ==
  /\ pc = "drain" /\ unread > 0
  /\ output' = output + 1
  /\ unread' = unread - 1
  /\ UNCHANGED <<threadOnly, pc, completed, exit_code, input, child, status, notified>>

\* ... until there is none, or one of them fails, by a signal or an error, or nothing
\* comes for ten milliseconds.
DrainEnds ==
  /\ pc = "drain"
  /\ pc' = "close"
  /\ UNCHANGED <<threadOnly, completed, exit_code, input, os, output, notified>>

\* kill(SIGTERM), which the child may obey, handle or ignore.
Term ==
  /\ pc = "term"
  /\ pc' = "grace"
  /\ UNCHANGED <<threadOnly, completed, exit_code, input, os, output, notified>>

ReapTerminated ==
  /\ pc = "grace" /\ child = "zombie"
  /\ pc' = "close"
  /\ child' = "reaped"
  /\ exit_code' = IF status = "signal" THEN "signal" ELSE exit_code
  /\ UNCHANGED <<threadOnly, completed, input, status, unread, output, notified>>

\* Variant: the two seconds are not bounded.
KillNever ==
  /\ FALSE /\ UNCHANGED vars

\* Variant: the killed child is not waited for.
KillAndLeave ==
  /\ pc = "grace" /\ child = "alive"
  /\ pc' = "close"
  /\ child' = "zombie" /\ status' = "signal"
  /\ UNCHANGED <<threadOnly, completed, exit_code, input, unread, output, notified>>

\* After two seconds, SIGKILL and a blocking waitpid.
Kill ==
  /\ pc = "grace" /\ child = "alive"
  /\ pc' = "close"
  /\ child' = "reaped" /\ status' = "signal"
  /\ exit_code' = "signal"
  /\ UNCHANGED <<threadOnly, completed, input, unread, output, notified>>

Close ==
  /\ pc = "close"
  /\ pc' = "complete"
  /\ input_queue' = <<>>
  /\ UNCHANGED <<threadOnly, completed, exit_code, written, tty, typed, os, output, notified>>

Complete ==
  /\ pc = "complete"
  /\ pc' = "notify"
  /\ completed' = TRUE
  /\ UNCHANGED <<threadOnly, exit_code, input, os, output, notified>>

\* notify_completed(), the last thing the thread does.
Notify ==
  /\ pc = "notify"
  /\ pc' = "end"
  /\ thread' = "returned"
  /\ notified' = notified + 1
  /\ UNCHANGED <<interrupted, completed, exit_code, input, os, output, user, runs>>

-----------------------------------------------------------------------------
(* The child. *)

ChildWrites ==
  /\ child = "alive" /\ unread + output < MaxOutput
  /\ unread' = unread + 1
  /\ UNCHANGED <<threadOnly, pc, completed, exit_code, input, child, status, output, notified>>

ChildEnds ==
  /\ child = "alive"
  /\ child' = "zombie"
  /\ status' \in Ends
  /\ UNCHANGED <<threadOnly, pc, completed, exit_code, input, unread, output, notified>>

-----------------------------------------------------------------------------
(* The GUI thread. *)

guiOnly == <<pc, completed, exit_code, os, output, starter, runs, notified>>

WriteInput ==
  /\ gui = "idle" /\ typed < MaxInput
  /\ typed' = typed + 1
  /\ input_queue' = Append(input_queue, typed + 1)
  /\ UNCHANGED <<guiOnly, thread, interrupted, written, tty, gui>>

\* wait(): returns at once unless there is a thread.
Wait(kind) ==
  /\ gui = "idle" /\ is_running
  /\ gui' = kind
  /\ UNCHANGED <<guiOnly, thread, interrupted, input>>

\* stop()
Stop ==
  /\ gui = "idle"
  /\ interrupted' = TRUE
  /\ gui' = "stop"
  /\ UNCHANGED <<guiOnly, thread, input>>

\* stop() goes on to wait() without a limit.
StopWaits ==
  /\ gui = "stop"
  /\ gui' = IF is_running THEN "wait" ELSE "idle"
  /\ UNCHANGED <<guiOnly, thread, interrupted, input>>

TimedOut ==
  /\ gui = "wait_for"
  /\ gui' = "idle"
  /\ UNCHANGED <<guiOnly, thread, interrupted, input>>

\* Variant: does not wait for the thread.
WaitDoneUnchecked ==
  /\ gui \in {"wait", "wait_for"} /\ completed
  /\ gui' = "idle"
  /\ thread' = "none"
  /\ UNCHANGED <<guiOnly, interrupted, input>>

WaitDone ==
  /\ gui \in {"wait", "wait_for"} /\ completed
  /\ gui' = "join"
  /\ UNCHANGED <<guiOnly, thread, interrupted, input>>

JoinThread ==
  /\ gui = "join" /\ thread = "returned"
  /\ gui' = "idle"
  /\ thread' = "none"
  /\ UNCHANGED <<guiOnly, interrupted, input>>

Thread ==
  \/ OpenFails \/ Fork \/ Loop \/ FlushWrite \/ Erase \/ Flushed \/ Read \/ PollFails \/ Reap
  \/ Drain \/ DrainEnds \/ Term \/ ReapTerminated \/ Kill \/ Close \/ Complete \/ Notify

Child == ChildWrites \/ ChildEnds
Starter == StartReset \/ StartThread \/ StartEmpty
GuiReturns == StopWaits \/ WaitDone \/ JoinThread
Gui == WriteInput \/ Wait("wait") \/ Wait("wait_for") \/ Stop \/ TimedOut \/ GuiReturns

Next == Thread \/ Child \/ Starter \/ Gui

Spec == Init /\ [][Next]_vars

\* Threads are scheduled; nothing is assumed of the child.
FairSpec == Spec /\ WF_vars(Thread) /\ WF_vars(GuiReturns) /\ WF_vars(StartThread \/ StartEmpty)

-----------------------------------------------------------------------------
\* At most the queue itself is being written, and no output is invented.
TypeOK ==
  /\ thread \in {"none", "executing", "returned"} /\ pc \in PCs
  /\ interrupted \in BOOLEAN /\ completed \in BOOLEAN
  /\ exit_code \in Ends \cup {"unset"}
  /\ input_queue \in Seq(1..MaxInput) /\ tty \in Seq(1..MaxInput)
  /\ typed \in 0..MaxInput /\ written \in 0..Len(input_queue)
  /\ child \in {"none", "alive", "zombie", "reaped"} /\ status \in Ends
  /\ unread \in Nat /\ output \in Nat /\ unread + output <= MaxOutput
  /\ starter \in {"idle", "starting"}
  /\ gui \in {"idle", "stop", "wait", "wait_for", "join"}
  /\ runs \in 0..MaxRuns /\ notified \in 0..MaxRuns

\* Whoever has joined the thread leaves no child behind, alive or zombie.
NoOrphan == thread = "none" => child \in {"none", "reaped"}

\* Each started command calls its callback once, however it ended, and before
\* its thread can be joined.
NotifiedOnce == notified = IF thread = "executing" THEN runs - 1 ELSE runs

\* An exit code is only reported of the child of this very command, reaped, and says how
\* it ended: never that of the command before, of which start() may find one, when this
\* one has no pseudo terminal or no process.
ExitCodeIsTrue == exit_code # "unset" => child = "reaped" /\ exit_code = status

\* What is left in the terminal when the child has ended is read to the end before the
\* thread goes on (BasicProcessPosix.cpp:875).
OutputRead == pc \in {"complete", "notify", "end"} /\ exit_code \in {"ok", "fail"} => unread = 0

\* While the command runs, what was typed has been sent or is queued: nothing
\* is lost, doubled or reordered, also what was typed while it was launched.
InputKept ==
  pc \notin {"complete", "notify", "end"} =>
    tty \o SubSeq(input_queue, written + 1, Len(input_queue)) = [i \in 1..typed |-> i]

\* What makes these inductive: where the process thread is fixes what has
\* become of its child, of the output and of the exit code.
ThreadOK ==
  /\ thread = "executing" <=> pc # "end"
  /\ thread = "executing" => (completed <=> pc = "notify")
  /\ thread = "returned" => completed
  /\ starter = "starting" => thread = "none" /\ ~completed /\ runs < MaxRuns
  /\ gui \in {"wait", "wait_for", "join"} => thread # "none"
  /\ gui = "join" => completed

ChildOK ==
  /\ pc = "open" => child = "none"
  /\ pc \in {"loop", "flush", "erase", "poll", "term", "grace"} => child \in {"alive", "zombie"}
  /\ pc \in {"drain", "close"} => child = "reaped"
  /\ pc \in {"complete", "notify", "end"} => child \in {"none", "reaped"}
  /\ pc \in {"open", "loop", "flush", "erase", "poll", "term", "grace"} \/ starter = "starting"
       => exit_code = "unset"

InputOK ==
  /\ pc # "erase" => written = 0
  /\ starter = "starting" => tty \o input_queue = [i \in 1..typed |-> i]

Inv ==
  /\ TypeOK /\ ThreadOK /\ ChildOK /\ InputOK
  /\ NotifiedOnce /\ ExitCodeIsTrue /\ InputKept

\* stop() returns, even from a child that ignores SIGTERM, unless start()
\* cleared the flag in between.
StopReturns == gui = "wait" /\ interrupted ~> gui = "idle"

P == INSTANCE PtyPromise WITH
       phase <- CASE thread = "none" -> "none"
                  [] thread # "none" /\ ~completed -> "running"
                  [] thread # "none" /\ completed /\ pc = "notify" -> "completed"
                  [] thread # "none" /\ completed /\ pc # "notify" -> "notified",
       success <- completed /\ exit_code = "ok"

\* The process keeps the promise.
PromiseKept == P!Promise

=============================================================================
