-------------------------------- MODULE Session --------------------------------
(***************************************************************************)
(* Which repository the main window shows, and how new what it shows is.   *)
(*                                                                         *)
(* The window keeps the current repository, the runner of its git session, *)
(* the commit log made through a runner, the list of files of the selected *)
(* commit, and the thread that verifies commits.  A session has a cache of *)
(* git's answers.  Opening a repository is one function, called by the     *)
(* user's actions and by the callbacks of commands on the terminal; in the *)
(* middle of it the event loop runs, so one opening may start in another.  *)
(* HEAD, the status and the log are asked for by threads, in any order.    *)
(*                                                                         *)
(* What a repository holds is a number that grows with every change, by    *)
(* git commands of this program or of others.                              *)
(***************************************************************************)
EXTENDS Naturals, Sequences

CONSTANTS
  Repos,
  AtStart,      \* what the window may show at first: repositories, or None
  MaxChanges,   \* bound: changes of all repositories together
  MaxActions,   \* bound: openings and commands of the user
  None          \* no repository, no session

Sessions == 1..(MaxActions + 3)

ASSUME SessionAssumption ==
  /\ AtStart \subseteq Repos \cup {None} /\ None \notin Repos \cup Nat
  /\ MaxChanges \in Nat /\ MaxActions \in Nat

VARIABLES
  world,     \* what each repository holds
  broken,    \* repositories that are no valid working copies; frozen
  online,    \* whether opening fetches: online mode and the setting; frozen
  current,   \* current_repository
  runner,    \* current_git_runner, as a session
  cached,    \* session |-> its repository, and the answers in its command cache
  frames,    \* the openings in progress, the innermost first
  shown,     \* the log of the window and what the marks in it were made from
  files,     \* the file list
  timer,     \* update_file_list_timer is active
  getter,    \* the session of the commit_detail_getter
  commands,  \* requests of the git thread that have not ended
  posted,    \* sigPtyProcessCompleted, queued to the GUI thread
  actions,   \* bound counter: actions of the user
  changes,   \* bound counter: changes of all repositories
  rejected,  \* history: a repository failed the validation since the last new session
  mixed,     \* history: an opening went on with a runner another one had replaced
  lost       \* history: a fetch ended without its callback

vars == <<world, broken, online, current, runner, cached, frames, shown, files, timer,
          getter, commands, posted, actions, changes, rejected, mixed, lost>>

Pending == MaxChanges + 1  \* asked, not answered
Unasked == MaxChanges + 2

NoLog == [repo |-> None, head |-> Unasked, status |-> Unasked, log |-> Unasked, since |-> 0,
          clean |-> FALSE]
NoFiles == None
NoCache == [repo |-> None, head |-> Unasked, status |-> Unasked]

\* The window has no repository yet, or has just shown one and not fetched.
Init ==
  /\ world = [r \in Repos |-> 0]
  /\ broken \in SUBSET Repos /\ online \in BOOLEAN
  /\ current \in AtStart \ broken
  /\ frames = <<>> /\ files = NoFiles
  /\ IF current = None
     THEN /\ runner = None /\ getter = None /\ shown = NoLog /\ timer = FALSE
          /\ cached = [s \in Sessions |-> NoCache]
     ELSE /\ runner = 1 /\ getter = 1 /\ timer = TRUE
          /\ shown = [repo |-> current, head |-> 0, status |-> 0, log |-> 0, since |-> 0,
                      clean |-> TRUE]
          /\ cached = [s \in Sessions |->
                         IF s = 1 THEN [repo |-> current, head |-> 0, status |-> 0] ELSE NoCache]
  /\ commands = <<>> /\ posted = <<>> /\ actions = 0 /\ changes = 0
  /\ rejected = FALSE /\ mixed = FALSE /\ lost = FALSE

frozen == <<world, broken, online, changes>>
view == <<files, getter>>
terminal == <<commands, posted>>
history == <<rejected, mixed, lost>>

RepoOf(s) == IF s = None THEN None ELSE cached[s].repo

\* Sessions end when nothing refers to them.
Used == {runner, getter} \cup {frames[k].g : k \in 1..Len(frames)}
Fresh == CHOOSE s \in Sessions \ Used : TRUE

\* clearGitCommandCache of a runner
Cleared(s) ==
  IF s = None THEN cached
  ELSE [cached EXCEPT ![s] = [@ EXCEPT !.head = Unasked, !.status = Unasked]]

top == frames[1]

\* The event loop runs when no opening is in progress, and within processEvents.
Looping == frames # <<>> => top.pc = "events"

-----------------------------------------------------------------------------
(* openRepositoryMain *)

\* The beginning: the timer is stopped, the runner taken; the log is cleared, and
\* then events are processed, or the caches are.
Enter(new, clear_log, do_fetch, quiet) ==
  /\ timer' = FALSE
  /\ frames' = <<[pc |-> IF clear_log THEN "events" ELSE "session", g |-> runner,
                  new |-> new, clean |-> new \/ ~clear_log, fetch |-> do_fetch,
                  quiet |-> quiet, since |-> world, head |-> Unasked, status |-> Unasked,
                  log |-> Unasked]>> \o frames
  /\ shown' = IF clear_log THEN NoLog ELSE shown

\* The queries begin, with the runner g.
Asking(g) ==
  [top EXCEPT !.pc = "asking", !.g = g, !.head = Pending,
              !.status = IF top.quiet THEN Unasked ELSE Pending, !.log = Pending]

\* endSession and a new runner for the current repository, or the runner that was
\* taken before.  Without a repository the opening ends here.  A terminal that
\* runs is waited for.
StartWith(answers) ==
  /\ frames # <<>> /\ top.pc \in {"events", "session"}
  /\ LET g == IF top.new THEN Fresh ELSE top.g
         repo == IF top.new THEN current ELSE RepoOf(g)
     IN /\ runner' = g
        /\ cached' = [s \in Sessions |->
                         IF top.new /\ s = g THEN [answers EXCEPT !.repo = repo]
                         ELSE IF s \in Used \cup {g} THEN cached[s] ELSE NoCache]
        /\ frames' = IF g = None THEN Tail(frames) ELSE <<Asking(g)>> \o Tail(frames)
        /\ rejected' = (rejected /\ ~top.new)
        /\ mixed' = (~top.new /\ (mixed \/ top.g # runner))
  /\ UNCHANGED <<frozen, view, terminal, current, shown, timer, actions, lost>>

\* Variant: the new session takes over the answers of the old one.
StartSharing == StartWith(IF runner = None THEN NoCache ELSE cached[runner])

Start == StartWith(NoCache)

\* rev_parse("HEAD") and status go through the command cache, ...
AskCached(part) ==
  /\ frames # <<>> /\ top.pc = "asking" /\ top[part] = Pending
  /\ LET c == cached[top.g]
         answer == IF c[part] # Unasked THEN c[part] ELSE world[c.repo]
     IN /\ frames' = [frames EXCEPT ![1] = [@ EXCEPT ![part] = answer]]
        /\ cached' = [cached EXCEPT ![top.g] = [@ EXCEPT ![part] = answer]]
  /\ UNCHANGED <<frozen, view, terminal, current, runner, shown, timer, actions, history>>

\* ... the log and the branches do not.
AskLog ==
  /\ frames # <<>> /\ top.pc = "asking" /\ top.log = Pending
  /\ frames' = [frames EXCEPT ![1] = [@ EXCEPT !.log = world[RepoOf(top.g)]]]
  /\ UNCHANGED <<frozen, view, terminal, current, runner, cached, shown, timer, actions, history>>

Fetch == [kind |-> "fetch", repo |-> RepoOf(top.g)]

\* makeCommitLog clears the list of files; it is made after the fetch, or soon.
ShowWith(list, after, verifier) ==
  /\ frames # <<>> /\ top.pc = "asking" /\ Pending \notin {top.head, top.status, top.log}
  /\ shown' = [repo |-> RepoOf(top.g), head |-> top.head, status |-> top.status,
               log |-> top.log, since |-> top.since[RepoOf(top.g)], clean |-> top.clean]
  /\ files' = list /\ getter' = verifier /\ frames' = Tail(frames)
  /\ IF top.fetch /\ online
     THEN commands' = Append(commands, Fetch) /\ UNCHANGED timer
     ELSE timer' = after /\ UNCHANGED commands
  /\ UNCHANGED <<frozen, posted, current, runner, cached, actions, history>>

\* Variants: the old list stays until the new one is made; the list is only made
\* where the log was cleared.
ShowOldFiles == ShowWith(files, TRUE, top.g)
ShowListless == ShowWith(NoFiles, top.new \/ ~top.clean, top.g)

\* Variant: the thread that verifies commits goes on with its runner.
ShowVerifyingOld == ShowWith(NoFiles, TRUE, getter)

Show == ShowWith(NoFiles, TRUE, top.g)

-----------------------------------------------------------------------------
(* updateFileList *)

\* The command cache is cleared.  For uncommitted changes the status is asked
\* for, and HEAD if there are none; both are cached.
UpdateFiles ==
  IF runner = None THEN UNCHANGED <<cached, files>>
  ELSE LET repo == RepoOf(runner)
       IN /\ files' = repo
          /\ \E known \in SUBSET {"head", "status"} :
               /\ "head" \in known => "status" \in known
               /\ cached' = [cached EXCEPT ![runner] =
                    [repo |-> repo,
                     head |-> IF "head" \in known THEN world[repo] ELSE Unasked,
                     status |-> IF "status" \in known THEN world[repo] ELSE Unasked]]

TimerFires ==
  /\ Looping /\ timer /\ timer' = FALSE
  /\ UpdateFiles
  /\ UNCHANGED <<frozen, terminal, current, runner, frames, shown, getter, actions, history>>

\* onCommitLogCurrentRowChanged
SelectRow ==
  /\ frames = <<>> /\ shown # NoLog
  /\ files' = NoFiles /\ timer' = TRUE
  /\ UNCHANGED <<frozen, terminal, current, runner, cached, frames, shown, getter, actions,
                 history>>

-----------------------------------------------------------------------------
(* The ways a repository is opened *)

\* setCurrentRepository, openRepositoryMain without the validation or with one
\* that succeeds.
OpenAsNew(repo, do_fetch) ==
  /\ current' = repo /\ cached' = Cleared(runner)
  /\ Enter(TRUE, TRUE, do_fetch, FALSE)
  /\ UNCHANGED <<rejected, runner>>

Reopen(quiet) ==
  /\ Enter(FALSE, TRUE, TRUE, quiet)
  /\ UNCHANGED <<current, cached, runner, rejected>>

Acts ==
  /\ frames = <<>> /\ actions < MaxActions /\ actions' = actions + 1
  /\ UNCHANGED <<frozen, view, posted, mixed, lost>>

\* openSelectedRepository: the repository is set before it is validated.
OpenSelected(repo) ==
  /\ Acts /\ UNCHANGED commands
  /\ IF repo \in broken
     THEN /\ current' = repo /\ cached' = Cleared(runner) /\ rejected' = TRUE
          /\ UNCHANGED <<runner, frames, shown, timer>>
     ELSE OpenAsNew(repo, TRUE)

\* Branches were deleted, or doGitCommand: the current repository again, as a new
\* session.
OpenAgain ==
  /\ Acts /\ UNCHANGED commands
  /\ current \notin broken \cup {None}
  /\ Enter(TRUE, TRUE, TRUE, FALSE)
  /\ UNCHANGED <<current, cached, runner, rejected>>

\* The addRepository dialog opens a repository it has just initialized or found.
OpenAdded(repo) ==
  /\ Acts /\ UNCHANGED commands
  /\ repo \notin broken /\ OpenAsNew(repo, FALSE)

\* reopenRepository(true, ...) after a git command that changed the repository
\* (quiet: after commit), and reopenRepository(false, ...).
ReopenChanged(validate, quiet) ==
  /\ Acts /\ UNCHANGED commands
  /\ validate => current \notin broken \cup {None}
  /\ Reopen(quiet)

\* pull, clone, push and the commands that only need the list of files.
Command(kind, repo) ==
  /\ Acts
  /\ IF kind = "clone" THEN repo \notin broken ELSE runner # None /\ repo = current
  /\ commands' = Append(commands, [kind |-> kind, repo |-> repo])
  /\ UNCHANGED <<current, runner, cached, frames, shown, timer, rejected>>

-----------------------------------------------------------------------------
(* The git thread and onPtyProcessCompleted *)

\* A command ends, or was not started.
CommandEnds(ok) ==
  /\ commands # <<>>
  /\ commands' = Tail(commands)
  /\ posted' = Append(posted, [kind |-> Head(commands).kind, repo |-> Head(commands).repo,
                               ok |-> ok])
  /\ UNCHANGED <<frozen, view, current, runner, cached, frames, shown, timer, actions, history>>

Delivered ==
  /\ Looping /\ posted # <<>> /\ posted' = Tail(posted)
  /\ UNCHANGED <<frozen, commands, getter, actions, mixed>>

\* No callback for a command that was not started.
Drop ==
  /\ Delivered /\ ~Head(posted).ok
  /\ lost' = (lost \/ Head(posted).kind = "fetch")
  /\ UNCHANGED <<current, runner, cached, frames, shown, files, timer, rejected>>

Called(kinds) == Delivered /\ Head(posted).ok /\ Head(posted).kind \in kinds /\ UNCHANGED lost

\* internalAfterFetch
AfterFetch ==
  /\ Called({"fetch"})
  /\ cached' = Cleared(runner)
  /\ Enter(FALSE, FALSE, FALSE, FALSE)
  /\ UNCHANGED <<current, runner, files, rejected>>

\* doReopenRepository, if the command succeeded
AfterPull ==
  /\ Called({"pull", "clone"})
  /\ UNCHANGED files
  /\ \/ OpenAsNew(Head(posted).repo, TRUE)
     \/ UNCHANGED <<current, runner, cached, frames, shown, timer, rejected>>

\* The connection was refused, or the repository is not valid; or it is reopened.
AfterPush ==
  /\ Called({"push"})
  /\ UNCHANGED files
  /\ \/ current \notin broken \cup {None} /\ Reopen(FALSE)
     \/ UNCHANGED <<current, runner, cached, frames, shown, timer, rejected>>

AfterStage ==
  /\ Called({"stage"})
  /\ UpdateFiles
  /\ UNCHANGED <<current, runner, frames, shown, timer, rejected>>

-----------------------------------------------------------------------------
Change(repo) ==
  /\ changes < MaxChanges /\ changes' = changes + 1
  /\ world' = [world EXCEPT ![repo] = @ + 1]
  /\ UNCHANGED <<broken, online, view, terminal, current, runner, cached, frames, shown, timer,
                 actions, history>>

Queries == AskCached("head") \/ AskCached("status") \/ AskLog

Deliver == Drop \/ AfterFetch \/ AfterPull \/ AfterPush \/ AfterStage

User ==
  \/ SelectRow \/ OpenAgain
  \/ \E repo \in Repos : OpenSelected(repo) \/ OpenAdded(repo)
  \/ \E validate, quiet \in BOOLEAN : ReopenChanged(validate, quiet)
  \/ \E kind \in {"pull", "clone", "push", "stage"}, repo \in Repos : Command(kind, repo)

Next ==
  \/ Start \/ Queries \/ Show \/ TimerFires \/ Deliver \/ User
  \/ \E ok \in BOOLEAN : CommandEnds(ok)
  \/ \E repo \in Repos : Change(repo)

\* The GUI thread goes on, threads that ask git get an answer, and commands end:
\* what they ask on the terminal is answered, or they are stopped.
Spec ==
  /\ Init /\ [][Next]_vars
  /\ WF_vars(Start) /\ WF_vars(Queries) /\ WF_vars(Show)
  /\ WF_vars(\E ok \in BOOLEAN : CommandEnds(ok)) /\ WF_vars(Deliver) /\ WF_vars(TimerFires)

-----------------------------------------------------------------------------
Answers == 0..MaxChanges \cup {Pending, Unasked}

TypeOK ==
  /\ world \in [Repos -> 0..MaxChanges] /\ broken \subseteq Repos /\ online \in BOOLEAN
  /\ current \in Repos \cup {None} /\ {runner, getter} \subseteq Sessions \cup {None}
  /\ cached \in [Sessions -> [repo : Repos \cup {None}, head : Answers, status : Answers]]
  /\ \A k \in 1..Len(frames) :
       /\ frames[k].pc \in {"events", "session", "asking"}
       /\ frames[k].g \in Sessions \cup {None} /\ frames[k].since \in [Repos -> 0..MaxChanges]
       /\ {frames[k].head, frames[k].status, frames[k].log} \subseteq Answers
       /\ k > 1 => frames[k].pc = "events"
  /\ shown.repo \in Repos \cup {None} /\ files \in Repos \cup {NoFiles}
  /\ timer \in BOOLEAN /\ actions \in 0..MaxActions /\ changes \in 0..MaxChanges
  /\ {rejected, mixed, lost} \subseteq BOOLEAN

\* The window's log, the runner its commands go to, the thread that verifies its
\* commits and the repository it names are of one repository - unless the user
\* chose one that is not valid, or an opening began within another and the outer
\* one went on with the runner it had taken before; until the next new session.
OneRepository ==
  frames = <<>> /\ shown # NoLog =>
    /\ RepoOf(getter) = shown.repo
    /\ mixed \/ RepoOf(runner) = shown.repo
    /\ mixed \/ rejected \/ current = shown.repo

\* What an opening that starts a new session or keeps the log shows is not older
\* than its beginning: the mark of HEAD, the row of uncommitted changes, the log.
OpenedFresh ==
  shown # NoLog /\ shown.clean =>
    shown.head >= shown.since /\ shown.status >= shown.since /\ shown.log >= shown.since

\* The same of every opening; reopenRepository keeps session and cache
\* ("HEAD を取得", MainWindow.cpp:1837).
ReopenedFresh ==
  shown # NoLog =>
    shown.head >= shown.since /\ shown.status >= shown.since /\ shown.log >= shown.since

\* The files listed are of the repository whose log is shown.
FilesOfLog == frames = <<>> /\ shown # NoLog /\ files # NoFiles => files = shown.repo

\* A log that is shown gets its list of files, although the list is made by a
\* timer that every opening stops, or only after a fetch.
FilesShown ==
  frames = <<>> /\ shown # NoLog ~> files # NoFiles \/ shown = NoLog \/ lost \/ runner = None
================================================================================
