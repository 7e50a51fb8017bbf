# A verification project for Guitar

Guitar is a Qt client for git. Its windows run on one GUI thread; around it work a handful of
threads and protocols of its own, and that is where its logic is easiest to get wrong and hardest
to test: request lists with a worker behind a condition variable, a git process on a pseudo
terminal whose completion is handed back to the GUI, a repository that is opened while it changes,
caches shared between threads, and a vault that must not lose its key whatever the storage below
it does. This project models those parts in
TLA+, checks them with TLC and proves the safety results with TLAPS.

Paths below are relative to `src/src` of the repository (`Vault.cpp` is
`localvault/src/vault/Vault.cpp`). `PROJECT.json` lists the components, the runs, for every
definition the lines it models, the mutants that show each property can fail, the findings, the
hazards and the theorems.

## 1. Inventory

### Components modelled

| Component | State | Operations | Hard behaviour | What makes it correct |
|---|---|---|---|---|
| **Vault** (`Vault.cpp`) | EMK records `main` and `.pending` in a backend; master key `mk_` in memory | `setup`, `unlock`, `changePin`, `reset`, `destroy`, `lock`, `state` | each is a sequence of backend calls, any of which may fail, hide a record, or be the last before a crash | no key that encrypted data is lost; a reported success revokes the old PIN; all copies are of one key |
| **Storage backends** (`AtomicFile.cpp`, `FileBackend.cpp`, `SystemKeychainBackend.cpp`) | what is stored under a key | `load`, `store`, `remove`, `isAvailable` | partial failure, a locked keyring | a store replaces all or nothing (part of Vault) |
| **CommitDetailGetter** (`CommitDetailGetter.cpp`) | request list, cache, one worker, `interrupted` | `query`, `start`, `stop`, worker loop, `ready` | git runs outside the mutex; wait without predicate; eviction of answered and of busy requests; another repository is opened meanwhile | list and cache agree, nothing stale, no work twice, `stop()` returns, the view fills |
| **AvatarLoader** (`AvatarLoader.cpp`) | request list that is also the cache, one worker | `fetch`, `requestInterruption`, `stop`, worker loop, `ready` | the list is reordered during a download; the flag is set without the mutex | the worker's entry survives, no request is slept on |
| **GitProcessThread and the terminal commands** (`GitProcessThread.cpp`, `GitCommandRunner.cpp`, `MainWindow.cpp`) | request queue, `interrrupt_`, the terminal's callback, queued signals | `request`, worker loop, `runPtyGit`, `commit`, stop button, reopening, destructor | two threads start commands on one terminal and set its one callback | each command runs once, and its own callback answers it |
| **PTY process, POSIX** (`BasicProcessPosix.cpp`, `AbstractProcess.h`) | thread, child, output, input queue, exit code | `start`, `run`, `wait`, `stop`, `write_input` | child that ignores SIGTERM, output after the child's end, typing during a write | no orphan, one notification, true exit code, all input; of the output, see section 3 |
| **Opening a repository** (`MainWindow.cpp`, `AbstractGitSession.cpp`, `GitBasicSession.cpp`) | current repository, session with its command cache, log, file list and its timer, verifier, terminal commands | `openSelectedRepository`, `reopenRepository`, `addRepository`, `internalAfterFetch`, `doReopenRepository`, `updateFileList` | the event loop runs within an opening; answers come from a cache; the repository changes meanwhile | one repository in all parts, nothing older than the opening, the file list appears |
| **Retrieving the log** (`log_all2`, `GitObjectManager.cpp`, `GitTypes.cpp`) | two counters, a slot for each commit, the object cache with its limit, a permutation | loading threads, `catFile`, sort, `fixCommitLogOrder` | threads fill slots in any order, objects are loaded outside the mutex | every readable commit once and in order, a bounded cache |
| **Commit messages** (`GenerateCommitMessageThread.cpp`, `GenerateCommitMessageDialog.cpp`) | one request in members, two flags, a button | `start`, `stop`, `request`, thread, `generate`, `onReady` | members read outside the mutex, at two times; wait without predicate | a message is of one request, the request is answered, `stop()` returns |
| **Logger, TraceEventWriter** (`Logger.cpp`, `TraceEventWriter.cpp`) | list of items, a writer thread, a file | push, pause, open, stop; put, open, close | the file is opened while the writer is at work; the end of the program | everything is written, once, in order, to the file |

How they interact: the GUI thread paints the commit log and asks CommitDetailGetter and
AvatarLoader for each row; they answer from their lists or by a `ready` signal that makes the view
repaint. Menu actions put requests into GitProcessThread's queue; its thread sets the terminal's
callback and calls `start()`. The terminal's own thread calls the callback, which emits
`sigPtyProcessCompleted` to the GUI thread; there the user's completion function runs and may
reopen the repository, which joins the terminal's thread, starts a session, retrieves the log and
starts the getter over. The vault keeps the API keys of the commit message generator; its calls
come from dialogs on the GUI thread.

### Components not modelled

| Component | What it is | Why not |
|---|---|---|
| Timed user events (`MainWindow.cpp:466-557`) | a list ordered by due time, emptied by a 10 ms timer | events due in one tick are posted in the reverse of their times, but no text and no user of them asks for an order |
| Credential prompts (`MainWindow::onLogIdle`) | recognises a prompt in the terminal's log, asks, types the answer | parsing of text, with dialogs in between; its typing is `write_input` of `PosixPty` |
| Diffs, packs (`GitDiffManager.cpp`, `GitPack.cpp`, `GitPackIdxV2.cpp`), drawn graph | decoding and list algorithms in one thread | no state between calls; their correctness is one of bytes |
| Git command layer beyond its cache (`Git.cpp`) | formats commands, parses answers | wording |
| BackendSelector, SecretVault, SecureStoreGUI | choice of the storage, retry and reset dialogs | a sequence of modal dialogs around the vault |
| Process without terminal (POSIX) | reader threads joined within the call | nothing outlives the call |
| Text editor and terminal screen | layout, drawing, keys | one thread, no protocol |
| Web client, GitHub, AI clients (`inet/`, `ai/`) | HTTP over a socket | the model's answer and the download are outcomes in `CommitMessage` and `AvatarLoader` |
| Windows processes, SSH sessions, local socket | the same interfaces on other libraries | their POSIX counterparts are modelled |
| Settings, dialogs, widgets, process hardening | configuration and Qt user interface | none with a protocol of its own |
| `subprojects/` | MeCab, Oniguruma and libmagic with their generated tables | third-party code and data; most lines of the repository by far |

The share of the whole repository's lines that is modelled is therefore small: nine
lines in ten are dictionaries, Unicode tables and libraries under `subprojects/`, and of the
program's own the greater part is Qt user interface, parsing and drawing. What is modelled is its
concurrent core, and the vault.

## 2. Modules

```
VaultPromise  <--refined by--  Vault                 VaultProofs          EXTENDS Vault
PtyPromise    <--refined by--  PosixPty              PosixPtyProofs       EXTENDS PosixPty
PtyPromise    <--built upon--  PtyGit                PtyGitProofs         EXTENDS PtyGit
                               CommitDetails         CommitDetailsProofs  EXTENDS CommitDetails
                               AvatarLoader          AvatarLoaderProofs   EXTENDS AvatarLoader
                               Session               SessionProofs        EXTENDS Session
                               CommitLog             CommitLogProofs      EXTENDS CommitLog
Logger, TraceEventWriter, CommitMessage, CommitLog  <--instantiated by--  MCWorkers
                                                     MCWorkersProofs      EXTENDS MCWorkers
```

`MC*` modules hold only what TLC needs: sets of faults, the repositories. A definition
commented "Variant:" is an alternative to the definition that follows it, the way a plausible
mistake would write it. No specification uses one; a run in which it takes the other's place
violates the property that guards against it.

### Vault, VaultPromise

`main` and `pending` are the two backend keys. Each backend call is one action, named by `pc`; a
public call leads from `pc = "idle"` back to it (`Setup` … `StateMain`, `StatePending`, `Stage`,
`StageVerify`, `Recheck`, `Replace`, `ReplaceVerify`, `Unstage`, with `Abort` on the failing
paths; `OpenMain`, `OpenPending`, `Promote`, `PromoteVerify`, `Clean` for opening). The constant
`Faults` says what may go wrong: failing loads, stores, removals and key derivations, a record
hidden from `state()`, damage at rest, a crash between any two calls. Ciphers are abstracted to what
opens with which PIN. A store is atomic, as `AtomicFile` writes a temporary file and renames it.
`sealed` (the keys that encrypted data) and `wasReset` are history variables.

`VaultPromise` knows only which key each PIN opens, the key in memory, and what the user has
agreed to lose. `Vault` refines it with `opens` read off the two records.

### CommitDetails

One action per critical section: `WorkerTop` (the scan for a request and the decision to wait,
which are one section), the end of git (`WorkerFinish`), the emission of `ready`; on the GUI side
`Paint` (one query per row) and `Start` (after `stop()`), and the user's scrolling and opening.
`shown` is what each row was last painted with. A page of rows is no larger than the list, because
the number of commits in the log has the same setting as the list's limit (`MainWindow.cpp:3515`).
The early return of `query` for a finished request that is not in the cache (lines 150-153) cannot
be taken: that is what `CacheIsDone` says.

### AvatarLoader

`fetch()` and the worker share the list under a mutex, but `requestInterruption()` does not take
it. The worker's critical section is therefore split wherever it reads the flag, and the mutex is
held at "scan" and "check". The download is an outcome, success or failure.

### PtyPromise, PosixPty

`PtyPromise` is what `AbstractProcess.h` leads its users to expect: one command at a time, it
completes, the callback is called once, and only a joined process can start again.

`PosixPty` is the implementation: three threads (the one that starts, the process thread, the GUI
thread) and the child. The process thread's loop is split where it releases the mutex of the input
queue or makes a blocking system call; `grace` stands for the two seconds between SIGTERM and SIGKILL.
After the child's end the rest of its output is read a chunk at a time (`Drain`) until `select` or
`read` fails, is interrupted or finds nothing for ten milliseconds, which may be at any time
(`DrainEnds`). Output is counted in chunks, keys by their number, so that loss, duplication and order
can be told apart. Left out: `resize_terminal`, `pop_output` and the limit of the output queue, and
the undefined behaviour of reading `m->thread` while another thread assigns it.

### PtyGit

Built on the actions of `PtyPromise` rather than on `PosixPty`: `Launch`, `Complete`, `Notify`,
`Join` are the promise's, so what is checked here holds of any implementation that keeps it. The
git thread is split where `stop()`, which takes no mutex, can fall in between. `callback` is the
terminal's one callback, as the request it belongs to; `cmd` the command that really runs.
`patient`, chosen at the beginning, says whether the user waits for each command before the next;
some properties hold only of such a user.

`cv_request.wait` has no predicate, so the thread may also wake up without a notification
(`SpuriousWakeup`) and read the front of an empty queue, which is undefined. `TakeNothing` allows two
outcomes: the program crashes, or what the memory still holds, the request removed last, is run once
more; the second at most once in a behaviour, a bound, and only while `MaxCommands` leaves room for
it. Afterwards the front is looked for again and is not there either (`FinishNothing`), unless a
request was made meanwhile. `astray` records that this has happened. The properties that name it say
what holds until then; nothing in the code keeps it from happening.

A commit starts git from the GUI thread. Its three outcomes are those of `exec_git`: a command that
`start()` ignores, one that is started, and a git that cannot be executed (`refused`). The GUI waits
for whatever is on the terminal and, but for the last, reopens the repository. Left out: `cancel()`
and `wait()` of the queue, which nothing calls, and the captured output.

### Session

What a repository holds is a number that grows with every change; an answer of git is the number at
the time it was asked, or the one in the session's command cache. `openRepositoryMain` is a stack
of `frames`, because it calls `processEvents`, within which callbacks and the timer may begin another
opening: `Enter`, `Start` (new session or the runner taken at the beginning), `AskCached` and
`AskLog` (the queries, two of them in threads), `Show`. Around it stand the ways that lead to it:
`OpenSelected`, `OpenAgain`, `OpenAdded`, `ReopenChanged`, and the callbacks `AfterFetch`,
`AfterPull`, `AfterPush`, `AfterStage` of terminal commands. `rejected`, `mixed` and `lost` are
history variables for the exceptions the properties name.

`MaxActions` bounds the user's actions and `MaxChanges` the changes of all repositories together, which
`changes` counts. Abstractions: which repositories are valid does not change during a run.
`processEvents` excludes user input, and user actions are therefore only taken outside of an opening.
Each access to the command cache is one step, although the code takes no lock (see the hazards): what a
data race would do to the map is not modelled. The commits and diffs behind a list are left to
`CommitLog` and `CommitDetails`.

### CommitLog

A commit is its position in the list of `git rev-list`. Each loader takes a position, looks it up in
the object cache inside the mutex (`Find`, with `Trim`), loads it outside and stores it (`Load`,
`Store`), and places the commit in the next slot. `Join` sorts. Then `fixCommitLogOrder` runs for
any acyclic history: `FixStep` is one pass of its loop with the set of commits seen, `Copy` the copy
at its end, which applies the permutation twice. The log is a list of positions; timestamps and
marks are left out. The cache begins with anything an earlier log can have left there.

### Logger, TraceEventWriter, CommitMessage

One action per critical section, and one for each step outside of one that others can see. Items are
numbered in the order they were pushed, so that loss, repetition and order can be told apart.
`Logger` includes `main()`, which starts the thread, pauses it, opens the file and resumes it;
`x_stop()` is split into the flag, the notification and the join. `TraceEventWriter` is opened once
and closed from the menu or at the end. `CommitMessage` includes the dialog's button, which is what
keeps two requests apart. Left out: the rotation of log files, thread numbers and times of trace
events, the text of prompts and answers.

`MCWorkers` checks the three of them and `CommitLog` in one run. They share nothing, so a behaviour
is one of a single one of them (`busy`), with its own fairness.

## 3. Runs

| Run | Instance | Distinct states | Shows |
|---|---|---|---|
| `vault_faults` | 3 PINs, 2 keys, all faults | 175 772 | main is only replaced by what is staged; setup never overwrites; destruction is final; success revokes every other PIN |
| `vault_promise` | 3 PINs, 2 keys; loads, removals, derivations and crashes fail | 42 060 | no sealed key is lost, one master key, and `VaultPromise` is implemented |
| `vault_reset_loss` | 2 PINs, stores fail | violation | see findings |
| `details` | 3 commits, list of 2, 2 openings, 2 scrolls | 87 120 | all safety, `stop()` returns, the view fills |
| `avatar` | 3 addresses, list of 2, 1 scroll | 561 978 | the worker's entry survives, no request is slept on, only unfinished ones exceed the limit, `stop()` returns outside the window of the lost notification, a view that fits settles |
| `pty` | 2 commands, 2 chunks, 3 keys | 52 498 | no child is left behind, no exit code is another command's, what is typed arrives, `stop()` returns, and `PtyPromise` with its fairness |
| `git` | 2 requests, 1 commit; with a request that is run again, 3 commands | 537 058 | a notified thread finds a request; until an empty queue is read, at most one launch each; only a commit collides with a request; stop and quit return; a patient user's requests get their own callback, once, and an answer |
| `git_callback` | 2 requests | violation | see findings |
| `session` | 2 repositories, 2 actions, 1 change | 550 702 | one repository in all parts, openings that clear the caches show nothing old, the file list is of the log shown and appears |
| `session_stale` | the same | violation | see findings |
| `workers` | 4 messages, 4 events, 2 requests; 3 commits, 2 loaders, a cache without room | 30 158 | log, trace, commit messages and the retrieval of the log |
| `log_order` | 3 commits | violation | see findings |

Why these bounds are enough to be interesting. Vault: a third PIN is needed for a rewrite of a rewrite
(old, staged, new); a second key for a reset. Lists: with one entry fewer than there are rows, every
request can push out an idle, a busy or an answered one; a view that does not fit can evict its own
rows for ever, so `ViewSettles` speaks of one that has room. Processes: a second command shows what the
first leaves behind; three keys allow one to be written, one to be queued and one to be typed in
between. Git: a request, one that overtakes it, and a commit that bypasses the queue are all the kinds
of command there are; a request that is run again from an empty queue takes the place of one of them.
Session: two actions allow a command and an opening that meets its callback; a
change may fall before, into or after either, and two repositories can be told apart; a third opening
comes from a callback. Workers: four items are one written, one taken, one queued and one pushed late;
three commits allow a parent that moves above its own child, which then has to move again; the cache
without room is trimmed at every miss. What is proved (section 4) is every invariant and every action
property that a passing run lists, and does not depend on the bounds.

Deadlock is checked in every run but `session`, `workers` and the violations of the same modules:
there the user's actions are bounded and none need be taken, the windows of lost notifications really
hang, and the loading of a log ends. In the other runs, where the system may stop for good, at the
end of a run's bounds or in a state in which the program hangs, the specification says so with an
action of its own.

### Fairness

Weak fairness of a thread means that the operating system schedules it. No run assumes that a
user acts.

- `CommitDetails`: worker and GUI. git answers, as its worker's step includes the end of git.
- `AvatarLoader`: the same, and strong fairness of `fetch()` and of `onAvatarReady`, which need the
  mutex: the worker takes it again and again, and weak fairness would let it starve the GUI, which a
  real mutex does not for ever. A download ends, if only by its timeout.
- `PosixPty`: its thread and the steps of `start()` and of the waiting GUI. Nothing is assumed of
  the child, which may ignore SIGTERM and never end.
- `PtyGit`: an interrupted command completes (what `PosixPty` guarantees, see `StopReturns` and
  the fairness of `PtyPromise`). Of a patient user, who answers what commands ask or stops them,
  commands also end, and queued signals are served between two clicks (strong fairness of
  `Callback`). A spurious wakeup may always happen and never has to.
- `Session`: the GUI thread goes on, threads that ask git are answered, commands end, queued
  signals are delivered and the timer fires.
- `MCWorkers`: the threads run; the model server answers or the connection fails; queued signals
  are delivered; a `stop()` or `close()` that began goes on. The loaders need no fairness, as nothing
  temporal is said of them.

Conditions of liveness properties name windows in which the code really hangs or forgets: in
AvatarLoader, GitProcessThread, Logger and the commit message thread the flag is set and the
notification sent without the mutex, so a worker between its look at the flag and its wait misses both
(`StopReturns`, `QuitReturns`); a request for a commit message is only noticed by a thread that waits
(`Answered`); and `start()` of a pty clears a flag that `stop()` has just set (`StopReturns`). In
`PtyGit` both also allow for a program that crashed by reading an empty queue.

### Findings

1. `vault_reset_loss`: when `reset()` fails to stage its EMK, `writeEmk` removes the pending key,
   which may hold the vault's only EMK (`Vault.cpp:276`, against `Vault.h:158`).
2. `git_callback`: the second of two requests sets the terminal's callback while the first one's
   command runs (`MainWindow.cpp:2589`, against `AbstractProcess.h:115`).
3. `session_stale`: reopening a repository after a command that changed it answers HEAD and the
   status from the command cache of before (`MainWindow.cpp:1806`, against `MainWindow.cpp:1837` and
   `:1307`).
4. `log_order`: the permutation that `fixCommitLogOrder` finds is applied twice
   (`GitTypes.cpp:406`, against `GitTypes.cpp:371`).

### Other disagreements

Each of these is a definition in its module that no run lists; a run that lists it finds it violated.

- `Vault!EitherPinOpens`: the new EMK of a second `changePin()` overwrites a staged EMK that was
  never promoted; the old PIN is refused afterwards (`Vault.cpp:274`, against `Vault.h:149`; three
  PINs, stores fail).
- `Vault!WrongPinIsTrue`: an unreadable staging copy is reported as a wrong PIN (`Vault.cpp:323`,
  against `Vault.h:15`; loads fail), and so is one whose key cannot be derived.
- `PosixPty!OutputRead`: the loop that is to read the rest of a command's output until EIO or EOF
  (`BasicProcessPosix.cpp:875`) ends at the first `select` that is interrupted or finds nothing for ten
  milliseconds (`:884`); the command is reported with its exit code and the rest of its output is lost.
- `TraceEventWriter!RestartReopens`: the menu's "Restart trace logger" (`MainWindow.ui:1791`) only
  closes it (`MainWindow.cpp:7588`); `restart_trace_logger` (`ApplicationGlobal.cpp:103`) has no
  caller.
- `OrderFixed` without `limit > 0`: the loop of `fixCommitLogOrder` stops after as many moves as there
  are commits, which its comment calls an endless loop (`GitTypes.cpp:393`). Three commits never need
  that many; a history of five can use them up and be left in the wrong order.

### Hazards without a property

Two processes may write one vault; `m->thread` of a pty is assigned and read by two threads
(`BasicProcessPosix.cpp:664`) and the command cache is used by several without a lock
(`AbstractGitSession.cpp:24`), both undefined behaviour that these models replace by atomic steps;
`commit()` waits for the terminal in the GUI thread; trace events queue up without bound while no
trace file is open (`TraceEventWriter.cpp:163`); timed user events lose their order; a keyring that
hides its vault makes the selector choose another storage (`BackendSelector.cpp:109`).

## 4. Proofs

The theorems hold for every value of the constants that satisfies the module's named assumption:
any set of PINs, commits, addresses or repositories, any limit of a list, any number of commands,
keys, loading threads, messages or events. Every invariant and every action property that a passing
run lists is a theorem; so is the refinement of `VaultPromise`, and the safety half of that of
`PtyPromise`. The assumptions on constants say that bounds are natural numbers, that lists have room
for an entry, that sets of threads are finite, and that special values are not members of the sets
they are set apart from; `LogAssumption` also says that there is a thread to load commits
(`MainWindow.cpp:1577` starts eight).

**VaultProofs.** `StepInv` (`TypeOK`, `CallOK`, `BlobOK`) fixes, for each backend call that comes next,
which public call is running and what `main`, `pending` and the local EMK are by then; `TypeOK` alone
says nothing of them. It is inductive under every fault (`StepsConsistent`). The action properties
follow from one step under it: `StagedFirst`, `SetupCreatesOnly`, `DestroyedForGood`, `SuccessRevokes`.
Two theorems say where the first finding and one of the other disagreements end: `ResetWritesFirst`
proves `ResetKeepsAnEmk` when loads and stores succeed, `WrongPinOpensNothing` proves `WrongPinIsTrue`
when loads and key derivations do. `KeyInv` adds that all copies are of one key and that `setup()` has
seen no main record; it needs that no record is hidden from `state()` (`SameKeyEverywhere`, assuming
`"hide" \notin Faults`). `SealInv` adds where the key in memory is stored while it is rewrapped, and
needs that stores succeed and nothing rots (`NoKeyLost`); `vault_reset_loss` shows why stores must.
`KeepsPromise` is the refinement: every step is one of `VaultPromise` or changes nothing it sees, under
the same faults as `NoKeyLost`. It needs `Sure` as well, which says what is certain at each backend
call when no copy is damaged: that `setup()` still finds no record, that what `stage_verify` reads is
what was staged, that an opened staged copy is not also opened by main. `Rewraps`, `Supersedes`,
`Creates`, `Destroys`, `Holds` and `Releases` turn what a step does to the two records into the action
of the promise.

**CommitDetailsProofs.** `CacheIsDone` is not inductive: that a finished request is not busy, that
an unfinished one has no answer, that a joining GUI has emptied the list, and that an
uninterrupted worker asks the open repository's git are needed too (`ListOK`, `PhaseOK`). Lemmas
about moving an element to the back and dropping the first elements of a list carry the list
operations. From `InvHolds`: `TypeCorrect`, `CacheFollowsList`, `NoRequestStranded`,
`NoStaleAnswer`, and `GitRunsOnce`, an action property that no run lists.

**AvatarLoaderProofs.** `Inv` adds `BusyOK` to the types and `NoLostRequest`: the worker at work has a
busy request of its address in the list, and no other request is busy as long as it runs. That no
address is listed twice is part of the types and makes its request the only one. The lemmas say what
reordering and removal leave of a list (`Nth`, the k-th of the requests kept, is the model's way to
remove the others). From `InvHolds`: `TypeCorrect`, `RequestIsKept`, `NoRequestSleeps`, and the
action property `LimitExceededByPending`.

**PtyGitProofs.** `QueueSafe` is the invariant of the request queue. That a notified thread finds a
request, or the flag set, holds always. Until an empty queue is read (`~astray`), the thread's copy is
the front from its look until the front is removed (`QueueOK`), and ids grow in the queue and in what
was launched, which came before everything still queued (`OrderOK`). `FrontWhenNotified` and
`AlwaysRanOnce` follow. `OnlyOneStarter` rests on `Alone`: without a commit nobody launches a command
between the git thread's look at the terminal and its own launch. `CallbackAlwaysOwn` needs more than
those: `Served` says that the one request of a patient user is queued, or on the terminal with the
callback it set, or its signal is under way, and only one of these. It holds before the first commit,
which bypasses the queue, before an empty queue is read, and of a patient user alone; `git_callback`
shows what happens to another.

**PosixPtyProofs.** `Inv` says what has become of the child and the exit code at each
place of the process thread (`ChildOK`), how the flags of the threads agree (`ThreadOK`) and that
a half-done write is only under way between the write and the erasure (`InputOK`). It is proved in
two halves, `Keys` and `Course`, because the first needs sequences and no arithmetic of processes, the
second the reverse. `Typed` and `Sent` are the lemmas that make `InputKept` inductive. From
`InvHolds`: `TypeCorrect`, `LeavesNoChild`, `OneCallback`, `ExitCodeAlwaysOwn`,
`NoKeyLost`. `KeepsPromise` is the refinement: every step is one of `PtyPromise` or a stutter.

**CommitLogProofs.** `CacheBounded` follows from `RoomKept`: the cache's length together with the
threads that have made room and not stored yet (`Pending`) never exceeds the limit and the number of
threads. `OrderFixed` follows from `FixInv`, the invariant of the loop: every position occurs
in `order`; the commits above `at` have all been seen and none stands above a child of its own, or
the loop gave up; and a list in order is never moved. A move takes a commit to the place of its
topmost parent (`MinimumOfNat`, `MovedIs`), and the loop goes on right below it, so the ordered part
is cut back to that place. `Begin` establishes it from a log without
duplicates, however the loaders left it.

`LogIsComplete` rests on two more invariants. `Accounted`: every position taken is in a slot, among the
commits that could not be read, or in the hands of exactly one thread. When all threads are done it
makes the slots all readable commits, once each, and `SortedIs` says that sorting keeps them and puts
them in git's order (`Sorted` chooses the k-th smallest; `PlaceTaken` shows that there is one).
`LogOfAll` carries this through the loop; at its end the copy applies a permutation, twice, which
loses and doubles nothing.

**SessionProofs.** `Stacked` describes the stack of openings: only the innermost is past its events,
every opening that starts a session has a current repository to start it on, every runner in use has a
repository, and an opening that asks git asks the window's runner. `Linked` relates log, verifying
thread, runner, current repository and file list while openings are under way: what is not yet of one
repository is about to be replaced by an opening still on the stack, or is one of the exceptions
(`mixed`, `rejected`). `NotOlder` says of an opening that starts a session, or that has just cleared
the cache, that the cache it asks holds no answer from before its beginning, also when other openings
have run to their end within it. From them: `TypeCorrect`, `WindowOfOne`, `FilesMatchLog` and
`OpeningIsFresh`. The lemmas before them say what a push on the stack, the end of an opening and an
answer do to the set of openings.

**MCWorkersProofs.** About `Working`, in which one of the small threads acts. `OneAtATime`: a request
for a commit message is asked for, served or answered, and until the dialog has the answer it makes no
other (`AlwaysOneRequest`). `AlwaysFlushed` needs, of the logger, that written, taken and queued
messages are numbered without a gap (`Handed`), that the thread ends only with an empty list
(`EndsWritten`), and that nothing is taken while it is paused (`PausedBefore`); of the trace, that
file, thread and queue are numbered alike and a closed file has its end (`TraceWritten`). `From`, with
`FirstTaken` and `NextAdded`, is the theory of such lists. `WorkersTyped` is the three modules' type
correctness.

Type invariants are theorems of Vault, CommitDetails, AvatarLoader, PosixPty and Session
(`TypeCorrect`), of Logger, TraceEventWriter and CommitMessage (`WorkersTyped`), and, as parts of the
invariants above, of PtyGit (`QueueSafe`) and CommitLog (`RoomInvariant`, `FixInvariant`). No run lists
them.

The safety half of `StopReturns` and `QuitReturns` is proved beside them. `JoinedIsAwake`: the worker of
`CommitDetails`, whose flag is set under the mutex, is never in its wait while it is joined.
`ToldStaysAwake` (`AvatarLoader`; `Logger` and `CommitMessage`) and `QuitStaysAwake` (`PtyGit`): the
other threads, whose flags are set without it, do not wait again once they are joined awake, so the
window between the look at the flag and the wait is the only place where a stop can hang. All they need
is that whoever joins has set the flag (`FlagSet`).

Only model-checked: everything that needs fairness (`StopReturns`, `ViewFilled`, `ViewSettles`,
`Answered`, `QuitReturns`, `FilesShown`, and the fair half of the refinement of `PtyPromise`), which is
out of the prover's reach.

## 5. Plan

Everything in section 1's first table is modelled and checked, and all its invariants are proved.
What is left, in this order:

1. `PtyGit` without `patient`: which callbacks can be another command's, and that only those are.
2. `PosixPty` under several callers of `start()`, once `m->thread` is guarded in the code.
