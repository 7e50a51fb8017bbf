------------------------------- MODULE PtyGit -------------------------------
(***************************************************************************)
(* The git commands that run on the window's pseudo terminal: fetch, push, *)
(* pull, clone and the tag commands through the request queue of           *)
(* GitProcessThread, commit directly from the GUI thread.                  *)
(*                                                                         *)
(* The worker sets the terminal's completion callback and starts the       *)
(* command, which a running terminal ignores.  The terminal's thread       *)
(* calls whatever callback is set when the command has ended; the call is  *)
(* queued to the GUI thread.  Some callbacks reopen the repository, which  *)
(* joins the terminal's thread; the others do not, and then the terminal   *)
(* counts as running until the user presses stop.                          *)
(*                                                                         *)
(* The git thread waits without a predicate and then reads the front of    *)
(* its queue.  A wakeup that nobody caused may find it empty, which is     *)
(* undefined: the program crashes or runs the removed request once more.   *)
(***************************************************************************)
EXTENDS PtyPromise, Sequences, FiniteSets, SequencesExt

CONSTANTS
  MaxRequests,  \* bound: requests of the user
  MaxCommits,   \* bound: commits of the user
  MaxCommands   \* bound: both, and the request that is run once more

ASSUME PtyGitAssumption ==
  MaxRequests \in Nat /\ MaxCommits \in Nat /\ MaxCommands \in Nat

VARIABLES
  patient,     \* the user waits for one command before the next; frozen
  requests,    \* requests_
  interrupt,   \* interrrupt_ of the git thread
  worker,      \* where the git thread is
  req,         \* its copy of the request
  callback,    \* completed_fn_, as the request it belongs to
  cmd,         \* the request whose command is on the terminal
  signals,     \* sigPtyProcessCompleted, queued to the GUI thread
  gui,         \* where the GUI thread is
  made,        \* bound counter: requests made
  commits,     \* bound counter: commits begun
  ran,         \* history: the requests whose commands were launched
  called,      \* history: callbacks called, and for which command
  astray       \* history: the front of an empty queue was read

vars == <<pty, patient, requests, interrupt, worker, req, callback, cmd, signals, gui, made,
          commits, ran, called, astray>>

\* What a callback does: "open" reopens the repository, "list" only refreshes.
Request == [id : 1..MaxRequests, callback : {"open", "list"}]
NoRequest == [id |-> 0, callback |-> "list"]
Commit == [id |-> 0, callback |-> "open"]

\* The git thread holds its mutex at "wait" and "take" only on the way into and
\* out of cv_request.wait; "asleep" is inside it, "stirred" woken by nobody.
WorkerPCs == {"top", "wait", "asleep", "stirred", "take", "run", "start", "launch", "finish",
              "exited"}

\* "refused": a commit for which git cannot be executed.
GuiPCs == {"loop", "launch", "committing", "refused", "reopen", "stop", "stopping",
           "quit", "quitting", "closing", "ended", "terminated"}

Init ==
  /\ Free
  /\ patient \in BOOLEAN
  /\ requests = <<>> /\ interrupt = FALSE /\ worker = "top" /\ req = NoRequest
  /\ callback = NoRequest /\ cmd = NoRequest /\ signals = <<>>
  /\ gui = "loop" /\ made = 0 /\ commits = 0 /\ ran = <<>> /\ called = <<>>
  /\ astray = FALSE

MutexFree == worker # "wait"

Begun == made + commits + (IF astray THEN 1 ELSE 0)

Alive == gui # "terminated"

guiOnly == <<patient, interrupt, worker, req, callback, gui, made, commits, astray>>

-----------------------------------------------------------------------------
(* The git thread (GitProcessThread::start). *)

queueOnly == <<patient, pty, callback, cmd, signals, made, commits, ran, called>>
sane == <<gui, astray>>

\* Variant: goes to sleep without a look at the flag.
TopUnchecked ==
  /\ Alive /\ worker = "top"
  /\ worker' = "wait"
  /\ UNCHANGED <<queueOnly, sane, requests, interrupt, req>>

Top ==
  /\ Alive /\ worker = "top"
  /\ worker' = IF interrupt THEN "exited" ELSE "wait"
  /\ UNCHANGED <<queueOnly, sane, requests, interrupt, req>>

\* wait() without a predicate, whatever the queue holds.
Sleep ==
  /\ Alive /\ worker = "wait"
  /\ worker' = "asleep"
  /\ UNCHANGED <<queueOnly, sane, requests, interrupt, req>>

SpuriousWakeup ==
  /\ Alive /\ worker = "asleep"
  /\ worker' = "stirred"
  /\ UNCHANGED <<queueOnly, sane, requests, interrupt, req>>

\* Variant: the request leaves the queue when it is taken.
TakeOut ==
  /\ Alive /\ worker \in {"take", "stirred"}
  /\ \/ interrupt /\ worker' = "exited" /\ UNCHANGED <<req, requests>>
     \/ /\ ~interrupt /\ requests # <<>>
        /\ worker' = "run" /\ req' = Head(requests) /\ requests' = Tail(requests)
  /\ UNCHANGED <<queueOnly, sane, interrupt>>

Take ==
  /\ Alive /\ worker \in {"take", "stirred"}
  /\ \/ interrupt /\ worker' = "exited" /\ UNCHANGED req
     \/ ~interrupt /\ requests # <<>> /\ worker' = "run" /\ req' = Head(requests)
  /\ UNCHANGED <<queueOnly, sane, requests, interrupt>>

\* front() of an empty vector: what the memory still holds is the request that was
\* removed last, if there was one (bound: once), or it is a crash.
TakeNothing ==
  /\ Alive /\ worker \in {"take", "stirred"} /\ ~interrupt /\ requests = <<>>
  /\ astray' = TRUE
  /\ \/ /\ ~astray /\ Begun < MaxCommands /\ req # NoRequest
        /\ worker' = "run" /\ UNCHANGED gui
     \/ gui' = "terminated" /\ UNCHANGED worker
  /\ UNCHANGED <<queueOnly, requests, interrupt, req>>

\* Variant: the request stays in the queue while its command runs.
FinishKeeps ==
  /\ Alive /\ worker = "finish" /\ requests # <<>>
  /\ requests' = IF Head(requests).id = req.id /\ ~is_running THEN Tail(requests) ELSE requests
  /\ worker' = IF interrupt THEN "exited" ELSE "top"
  /\ UNCHANGED <<queueOnly, sane, interrupt, req>>

Finish ==
  /\ Alive /\ worker = "finish" /\ requests # <<>>
  /\ requests' = IF Head(requests).id = req.id THEN Tail(requests) ELSE requests
  /\ worker' = IF interrupt THEN "exited" ELSE "top"
  /\ UNCHANGED <<queueOnly, sane, interrupt, req>>

\* The front is not there again: a number that differs, or an erasure that crashes.
FinishNothing ==
  /\ Alive /\ worker = "finish" /\ requests = <<>>
  /\ astray' = TRUE
  /\ \/ worker' = (IF interrupt THEN "exited" ELSE "top") /\ UNCHANGED gui
     \/ gui' = "terminated" /\ UNCHANGED worker
  /\ UNCHANGED <<queueOnly, requests, interrupt, req>>

-----------------------------------------------------------------------------
(* runner.d.run, set up by MainWindow::runPtyGit *)

commandOnly == <<patient, requests, interrupt, req, gui, made, commits, called, astray>>

\* Variant: the callback of the first request stays.
SetCallbackOnce ==
  /\ Alive /\ worker = "run"
  /\ worker' = "start"
  /\ callback' = IF callback = NoRequest THEN req ELSE callback
  /\ UNCHANGED <<commandOnly, pty, cmd, signals, ran>>

SetCallback ==
  /\ Alive /\ worker = "run"
  /\ worker' = "start"
  /\ callback' = req
  /\ UNCHANGED <<commandOnly, pty, cmd, signals, ran>>

\* git cannot be executed: the GUI is told, without a callback.
StartFails ==
  /\ Alive /\ worker = "start"
  /\ worker' = "finish"
  /\ signals' = Append(signals, [ok |-> FALSE, callback |-> req, of |-> req])
  /\ UNCHANGED <<commandOnly, pty, callback, cmd, ran>>

\* start() of a running terminal returns.
StartIgnored ==
  /\ Alive /\ worker = "start" /\ is_running
  /\ worker' = "finish"
  /\ UNCHANGED <<commandOnly, pty, callback, cmd, signals, ran>>

\* Variant: does not look whether the terminal is running.
StartResetAnyway ==
  /\ Alive /\ worker = "start"
  /\ interrupted' = FALSE /\ success' = FALSE
  /\ worker' = "launch"
  /\ UNCHANGED <<commandOnly, phase, callback, cmd, signals, ran>>

StartReset ==
  /\ Alive /\ worker = "start"
  /\ Reset
  /\ worker' = "launch"
  /\ UNCHANGED <<commandOnly, callback, cmd, signals, ran>>

StartThread ==
  /\ Alive /\ worker = "launch"
  /\ Launch
  /\ worker' = "finish"
  /\ cmd' = req
  /\ ran' = Append(ran, req.id)
  /\ UNCHANGED <<commandOnly, callback, signals>>

\* Assigning to a std::thread that is joinable ends the program.
Terminate ==
  /\ Alive /\ is_running
  /\ worker = "launch" \/ gui = "launch"
  /\ gui' = "terminated"
  /\ UNCHANGED <<pty, patient, requests, interrupt, worker, req, callback, cmd, signals, made,
                 commits, ran, called, astray>>

-----------------------------------------------------------------------------
(* The terminal's thread. *)

CommandCompletes ==
  /\ Alive /\ Complete
  /\ UNCHANGED <<guiOnly, requests, cmd, signals, ran, called>>

\* notify_completed: the callback that is set now.
NotifyCompleted ==
  /\ Alive /\ Notify
  /\ signals' = IF callback = NoRequest THEN signals
                ELSE Append(signals, [ok |-> TRUE, callback |-> callback, of |-> cmd])
  /\ UNCHANGED <<guiOnly, requests, cmd, ran, called>>

-----------------------------------------------------------------------------
(* The GUI thread. *)

\* Nothing is going on and the stop button is not enabled.
Settled == requests = <<>> /\ worker = "asleep" /\ signals = <<>> /\ ~is_running

Push(r) == requests' = Append(requests, r)

\* Variant: nobody is told.
MakeRequestSilently(kind) ==
  /\ gui = "loop" /\ MutexFree /\ made < MaxRequests /\ Begun < MaxCommands
  /\ patient => Settled
  /\ made' = made + 1
  /\ Push([id |-> made + 1, callback |-> kind])
  /\ UNCHANGED <<pty, patient, interrupt, worker, req, callback, cmd, signals, gui,
                 commits, ran, called, astray>>

\* runPtyGit
MakeRequest(kind) ==
  /\ gui = "loop" /\ MutexFree /\ made < MaxRequests /\ Begun < MaxCommands
  /\ patient => Settled
  /\ made' = made + 1
  /\ Push([id |-> made + 1, callback |-> kind])
  /\ worker' = IF worker = "asleep" THEN "take" ELSE worker
  /\ UNCHANGED <<pty, patient, interrupt, req, callback, cmd, signals, gui, commits, ran, called,
                 astray>>

\* commit() starts git itself, if it can be executed ...
CommitStarts ==
  /\ gui = "loop" /\ commits < MaxCommits /\ Begun < MaxCommands
  /\ patient => Settled
  /\ commits' = commits + 1
  /\ \/ is_running /\ gui' = "committing" /\ UNCHANGED pty
     \/ Reset /\ gui' = "launch"
     \/ gui' = "refused" /\ UNCHANGED pty
  /\ UNCHANGED <<patient, requests, interrupt, worker, req, callback, cmd, signals, made, ran,
                 called, astray>>

CommitThread ==
  /\ gui = "launch"
  /\ Launch
  /\ gui' = "committing"
  /\ cmd' = Commit
  /\ UNCHANGED <<patient, requests, interrupt, worker, req, callback, signals, made, commits, ran,
                 called, astray>>

waitOnly == <<patient, requests, interrupt, worker, req, callback, cmd, signals, made, commits,
              ran, called, astray>>

\* ... and waits for whatever is on the terminal, then reopens the repository.
CommitWaits ==
  /\ gui \in {"committing", "refused"}
  /\ IF is_running THEN Join ELSE UNCHANGED pty
  /\ gui' = IF gui = "committing" THEN "reopen" ELSE "loop"
  /\ UNCHANGED waitOnly

\* onPtyProcessCompleted
Callback ==
  /\ gui = "loop" /\ signals # <<>>
  /\ signals' = Tail(signals)
  /\ called' = Append(called, Head(signals))
  /\ gui' = IF Head(signals).ok /\ Head(signals).callback.callback = "open"
            THEN "reopen" ELSE "loop"
  /\ UNCHANGED <<pty, patient, requests, interrupt, worker, req, callback, cmd, made, commits, ran,
                 astray>>

\* openRepositoryMain waits, for five seconds.
ReopenWaits ==
  /\ gui = "reopen"
  /\ IF is_running THEN Join ELSE UNCHANGED pty
  /\ gui' = "loop"
  /\ UNCHANGED waitOnly

ReopenTimesOut ==
  /\ gui = "reopen" /\ phase = "running"
  /\ gui' = "loop"
  /\ UNCHANGED <<pty, waitOnly>>

\* stopPtyProcess: the flag, then a wait without a limit.
Stop ==
  /\ gui = "loop"
  /\ Interrupt
  /\ gui' = "stop"
  /\ UNCHANGED waitOnly

StopWaits ==
  /\ gui = "stop"
  /\ gui' = IF is_running THEN "stopping" ELSE "loop"
  /\ UNCHANGED <<pty, waitOnly>>

\* Variant: looks until the terminal is not running, which without a join it always is.
StopPolls ==
  /\ gui = "stopping"
  /\ gui' = IF is_running THEN gui ELSE "loop"
  /\ UNCHANGED <<pty, waitOnly>>

StopJoins ==
  /\ gui = "stopping"
  /\ Join
  /\ gui' = "loop"
  /\ UNCHANGED waitOnly

\* ~MainWindow stops the git thread: the flag without the mutex ...
Quit ==
  /\ gui = "loop"
  /\ gui' = "quit"
  /\ interrupt' = TRUE
  /\ UNCHANGED <<pty, patient, requests, worker, req, callback, cmd, signals, made,
                 commits, ran, called, astray>>

\* ... the notification ...
QuitNotifies ==
  /\ gui = "quit"
  /\ gui' = "quitting"
  /\ worker' = IF worker = "asleep" THEN "take" ELSE worker
  /\ UNCHANGED <<pty, patient, requests, interrupt, req, callback, cmd, signals, made,
                 commits, ran, called, astray>>

\* ... and the join; then it stops the terminal ...
QuitJoins ==
  /\ gui = "quitting" /\ worker = "exited"
  /\ Interrupt
  /\ gui' = "closing"
  /\ UNCHANGED waitOnly

\* ... and waits for it.
QuitWaits ==
  /\ gui = "closing"
  /\ IF is_running THEN Join ELSE UNCHANGED pty
  /\ gui' = "ended"
  /\ UNCHANGED waitOnly

\* The program has ended, or hangs in its end: the git thread had read the flag
\* before it was set and was notified before it slept.
Over ==
  /\ gui \in {"ended", "terminated"} \/ (gui = "quitting" /\ worker = "asleep")
  /\ UNCHANGED vars

Worker ==
  \/ Top \/ Sleep \/ Take \/ TakeNothing \/ Finish \/ FinishNothing
  \/ SetCallback \/ StartFails \/ StartIgnored \/ StartReset \/ StartThread

Pty == CommandCompletes \/ NotifyCompleted

Gui ==
  \/ CommitThread \/ CommitWaits \/ Callback \/ ReopenWaits \/ ReopenTimesOut
  \/ StopWaits \/ StopJoins \/ QuitNotifies \/ QuitJoins \/ QuitWaits

User ==
  \/ \E kind \in {"open", "list"} : MakeRequest(kind)
  \/ CommitStarts \/ Stop \/ Quit

Next == Worker \/ SpuriousWakeup \/ Terminate \/ Pty \/ Gui \/ User \/ Over

Spec == Init /\ [][Next]_vars

\* Threads are scheduled.  A command ends when it is interrupted; that it ends by
\* itself is only assumed for a patient user, who answers what it asks or stops it.
\* The event loop serves queued signals between two clicks of such a user.
FairSpec ==
  /\ Spec /\ WF_vars(Worker) /\ WF_vars(Gui)
  /\ WF_vars(interrupted /\ CommandCompletes) /\ WF_vars(NotifyCompleted)
  /\ WF_vars(patient /\ CommandCompletes) /\ SF_vars(patient /\ Callback)

-----------------------------------------------------------------------------
\* A notified thread that is not to end finds a request, and the request it has worked
\* on is the one it then removes - unless a wakeup that nobody caused found the queue
\* empty before.
FrontExists ==
  /\ worker = "take" /\ ~interrupt => requests # <<>>
  /\ worker = "finish" /\ ~astray => requests # <<>> /\ Head(requests) = req

\* No request's command is launched twice, as long as no empty queue is read.
RanOnce == ~astray => IsInjective(ran)

\* start() looks whether a command runs and creates the thread later, without a lock.
\* Only a commit, which starts git from another thread, can come in between: without
\* one the program never assigns to the thread of a running command.
OneStarter == gui = "terminated" => commits > 0 \/ astray

Calm == patient /\ commits = 0 /\ ~astray

\* A patient user's callbacks, before the first commit: each is called for its own
\* command, and once.
OwnCallback ==
  Calm => /\ \A k \in 1..Len(called) : called[k].callback = called[k].of
          /\ IsInjective(called)

\* Such a user's requests are answered, although the thread that looks at the queue
\* only after it was notified could sleep on one.
Answered ==
  \A id \in 1..MaxRequests :
    Calm /\ made = id ~>
      \/ \E k \in 1..Len(called) : called[k].of.id = id
      \/ ~Calm \/ gui \in {"quit", "quitting", "closing", "ended"}

\* The stop button gives the window back, unless start() cleared the flag that
\* was just set, or an empty queue is read and the program crashes.
StopReturns == gui = "stopping" /\ interrupted ~> gui = "loop" \/ (astray /\ ~Alive)

\* The window's destructor ends, unless the git thread went to sleep between
\* the flag and the notification; or the program crashes by an empty queue.
QuitReturns ==
  gui = "quitting" /\ worker \notin {"wait", "asleep"} ~> gui = "ended" \/ (astray /\ ~Alive)

\* A callback is set before start() and not while a command runs
\* (AbstractProcess.h:115).
CallbackSetBeforeStart == [][callback' # callback => phase # "running"]_vars

=============================================================================
