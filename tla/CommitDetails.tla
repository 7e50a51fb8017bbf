--------------------------- MODULE CommitDetails ---------------------------
(***************************************************************************)
(* The signature column of the commit log (CommitDetailGetter.cpp and the  *)
(* part of MainWindow.cpp that paints from it).                            *)
(*                                                                         *)
(* While it paints a row, the GUI thread asks the getter for the           *)
(* verification result of the commit.  An unknown commit is put at the     *)
(* back of a bounded request list; one worker takes requests from the back *)
(* of the list, runs git, stores the answer and emits ready(), which makes *)
(* the view repaint.  Opening a repository stops the worker, forgets       *)
(* everything and starts a new worker on the new repository.               *)
(*                                                                         *)
(* Every access to the shared state is inside the mutex, except those that *)
(* start() makes while no worker runs: one action per critical section.    *)
(***************************************************************************)
EXTENDS Naturals, Sequences, FiniteSets, SequencesExt

CONSTANTS
  Ids,         \* the commits that are signed
  MAX,         \* min(1000, maximum_number_of_commit_item_acquisitions)
  Absent,      \* no cache entry
  MaxOpens,    \* bound: how often a repository is opened
  MaxScrolls   \* bound: how often the user moves the view

ASSUME GetterAssumption ==
  /\ MAX \in Nat \ {0}
  /\ MaxOpens \in Nat /\ MaxScrolls \in Nat
  /\ Absent \notin Nat

\* A result is the number of the repository whose git answered; 0 is Data{}:
\* not known yet, or git could not tell.
Unknown == 0
Data    == 0..MaxOpens
Request == [id : Ids, done : BOOLEAN, busy : BOOLEAN, data : Data]

VARIABLES
  requests,     \* m->requests, the next one to work on at the back
  cache,        \* m->cache
  interrupted,  \* m->interrupted
  git,          \* m->git: which repository the worker asks
  wpc,          \* where the worker is
  item,         \* the worker's local Request
  gui,          \* "idle", or "joining" inside stop()
  opened,       \* the number of the open repository, 0 for none
  visible,      \* the commits whose rows are in view
  unpainted,    \* rows the running paint event has yet to draw
  repaint,      \* a repaint is due: an update() or a ready() is under way
  shown,        \* the result each row was last painted with
  scrolls       \* bound counter

shared == <<requests, cache, interrupted, git>>
worker == <<wpc, item>>
view   == <<gui, opened, visible, unpainted, repaint, shown, scrolls>>
vars   == <<requests, cache, interrupted, git, wpc, item,
            gui, opened, visible, unpainted, repaint, shown, scrolls>>

\* "wait" is inside condition.wait, "woken" on the way out of it.
WorkerPCs == {"none", "top", "wait", "woken", "run", "emit", "exited"}

\* At most one page of rows: the log is limited to the same setting as MAX
\* (MainWindow.cpp:3515), whose least value is 1000 rows.
Pages == {rows \in SUBSET Ids : Cardinality(rows) <= MAX}

-----------------------------------------------------------------------------
NewRequest(i) == [id |-> i, done |-> FALSE, busy |-> FALSE, data |-> Unknown]

IsIdle(r) == ~r.done /\ ~r.busy

\* erase(begin() + k); push_back(r)
ToBack(rs, k, r) == Append(RemoveAt(rs, k), r)

Init ==
  /\ requests = <<>> /\ cache = [i \in Ids |-> Absent]
  /\ interrupted = FALSE /\ git = 0
  /\ wpc = "none" /\ item \in {NewRequest(i) : i \in Ids}
  /\ gui = "idle" /\ opened = 0 /\ visible = {} /\ unpainted = {}
  /\ repaint = FALSE /\ shown = [i \in Ids |-> Unknown] /\ scrolls = 0

\* condition.notify_all
Notify == wpc' = IF wpc = "wait" THEN "woken" ELSE wpc

-----------------------------------------------------------------------------
(* The worker. *)

\* NextQuery(): the idle request nearest to the back becomes busy.
NextQuery ==
  \E k \in 1..Len(requests) :
    /\ IsIdle(requests[k])
    /\ \A j \in k+1..Len(requests) : ~IsIdle(requests[j])
    /\ requests' = [requests EXCEPT ![k].busy = TRUE]
    /\ item' = [requests[k] EXCEPT !.busy = TRUE]
    /\ wpc' = "run"

NothingIdle(label) ==
  /\ \A k \in 1..Len(requests) : ~IsIdle(requests[k])
  /\ wpc' = label
  /\ UNCHANGED <<requests, item>>

WorkerExit == interrupted /\ wpc' = "exited" /\ UNCHANGED <<requests, item>>

WorkerTop ==
  /\ wpc = "top"
  /\ \/ WorkerExit
     \/ ~interrupted /\ NextQuery
     \/ ~interrupted /\ NothingIdle("wait")
  /\ UNCHANGED <<cache, interrupted, git, view>>

WorkerWoken ==
  /\ wpc = "woken"
  /\ \/ WorkerExit
     \/ ~interrupted /\ NextQuery
     \/ ~interrupted /\ NothingIdle("top")
  /\ UNCHANGED <<cache, interrupted, git, view>>

SpuriousWakeup ==
  /\ wpc = "wait"
  /\ wpc' = "woken"
  /\ UNCHANGED <<shared, item, view>>

\* The request of that id goes to the back, done, and its answer is cached.
Finished(k, result) ==
  /\ requests' = ToBack(requests, k,
                       [item EXCEPT !.done = TRUE, !.busy = FALSE, !.data = result])
  /\ cache' = [cache EXCEPT ![item.id] = result]

\* git answered or failed; the request may have been dropped meanwhile.
WorkerFinish ==
  /\ wpc = "run"
  /\ \/ interrupted /\ wpc' = "exited" /\ UNCHANGED <<requests, cache>>
     \/ /\ ~interrupted
        /\ \E result \in {git, Unknown}, k \in 1..Len(requests) :
             /\ requests[k].id = item.id
             /\ \A j \in 1..k-1 : requests[j].id # item.id
             /\ Finished(k, result)
        /\ wpc' = "emit"
     \/ /\ ~interrupted
        /\ \A k \in 1..Len(requests) : requests[k].id # item.id
        /\ wpc' = "top" /\ UNCHANGED <<requests, cache>>
  /\ UNCHANGED <<interrupted, git, item, view>>

\* Variant: the answer is stored but nobody is told.
EmitNothing ==
  /\ wpc = "emit"
  /\ wpc' = "top"
  /\ UNCHANGED <<shared, item, view>>

\* emit ready(): queued to the GUI thread, where a timer updates the view.
Emit ==
  /\ wpc = "emit"
  /\ wpc' = "top"
  /\ repaint' = TRUE
  /\ UNCHANGED <<shared, item, gui, opened, visible, unpainted, shown, scrolls>>

-----------------------------------------------------------------------------
(* query() on the GUI thread. *)

\* Variant: drops the oldest requests but keeps their answers.
TrimRequestsOnly(rs) ==
  LET n == IF Len(rs) > MAX THEN Len(rs) - MAX ELSE 0
  IN  /\ requests' = SubSeq(rs, n + 1, Len(rs))
      /\ UNCHANGED cache

\* Drops the oldest requests over the limit and their answers.
Trim(rs) ==
  LET n == IF Len(rs) > MAX THEN Len(rs) - MAX ELSE 0
  IN  /\ requests' = SubSeq(rs, n + 1, Len(rs))
      /\ cache' = [i \in Ids |-> IF \E k \in 1..n : rs[k].id = i
                                 THEN Absent ELSE cache[i]]

\* Variant: the worker is not told.
AddRequestSilently(i) ==
  /\ Trim(Append(requests, NewRequest(i)))
  /\ UNCHANGED wpc

AddRequest(i) ==
  /\ Trim(Append(requests, NewRequest(i)))
  /\ Notify

\* A request that is there already goes to the back.
Renew(k) ==
  /\ requests' = ToBack(requests, k, requests[k])
  /\ cache' = IF requests[k].done
              THEN [cache EXCEPT ![requests[k].id] = requests[k].data] ELSE cache
  /\ UNCHANGED wpc

\* signatureVerificationIcon() of one row.
Query(i) ==
  /\ gui = "idle"
  /\ i \in unpainted
  /\ unpainted' = unpainted \ {i}
  /\ \/ /\ cache[i] # Absent
        /\ shown' = [shown EXCEPT ![i] = cache[i]]
        /\ UNCHANGED <<requests, cache, wpc>>
     \/ /\ cache[i] = Absent
        /\ \E k \in 1..Len(requests) :
             /\ requests[k].id = i
             /\ \A j \in 1..k-1 : requests[j].id # i
             /\ shown' = [shown EXCEPT ![i] = requests[k].data]
             /\ Renew(k)
     \/ /\ cache[i] = Absent
        /\ \A k \in 1..Len(requests) : requests[k].id # i
        /\ shown' = [shown EXCEPT ![i] = Unknown]
        /\ AddRequest(i)
  /\ UNCHANGED <<interrupted, git, item, gui, opened, visible, repaint, scrolls>>

-----------------------------------------------------------------------------
(* The view, and opening a repository. *)

Paint ==
  /\ gui = "idle" /\ unpainted = {} /\ repaint
  /\ repaint' = FALSE
  /\ unpainted' = visible
  /\ UNCHANGED <<shared, worker, gui, opened, visible, shown, scrolls>>

Scroll(rows) ==
  /\ gui = "idle" /\ unpainted = {} /\ opened > 0 /\ scrolls < MaxScrolls
  /\ visible' = rows
  /\ repaint' = TRUE
  /\ scrolls' = scrolls + 1
  /\ UNCHANGED <<shared, worker, gui, opened, unpainted, shown>>

\* Variant: the worker is not told.
StopSilently ==
  /\ interrupted' = TRUE
  /\ requests' = <<>>
  /\ cache' = [i \in Ids |-> Absent]
  /\ UNCHANGED wpc

\* stop(), up to the join.
Stop ==
  /\ interrupted' = TRUE
  /\ Notify
  /\ requests' = <<>>
  /\ cache' = [i \in Ids |-> Absent]

\* openRepositoryMain() has filled the log with other commits.
Open(rows) ==
  /\ gui = "idle" /\ unpainted = {} /\ opened < MaxOpens
  /\ opened' = opened + 1
  /\ visible' = rows
  /\ shown' = [i \in Ids |-> Unknown]
  /\ repaint' = TRUE
  /\ Stop
  /\ gui' = "joining"
  /\ UNCHANGED <<git, item, unpainted, scrolls>>

\* Variant: the worker goes on with the git of the last repository.
StartSameGit ==
  /\ gui = "joining" /\ wpc \in {"none", "exited"}
  /\ interrupted' = FALSE
  /\ git' = IF git = 0 THEN opened ELSE git
  /\ wpc' = "top"
  /\ gui' = "idle"
  /\ UNCHANGED <<requests, cache, item, opened, visible, unpainted, repaint, shown, scrolls>>

\* The join returns; start(), whose own stop() finds no thread left.
Start ==
  /\ gui = "joining" /\ wpc \in {"none", "exited"}
  /\ interrupted' = FALSE
  /\ git' = opened
  /\ wpc' = "top"
  /\ gui' = "idle"
  /\ UNCHANGED <<requests, cache, item, opened, visible, unpainted, repaint, shown, scrolls>>

Worker == WorkerTop \/ WorkerWoken \/ WorkerFinish \/ Emit

Gui == Start \/ Paint \/ \E i \in Ids : Query(i)

User == \E rows \in Pages : Open(rows) \/ Scroll(rows)

Next == Worker \/ SpuriousWakeup \/ Gui \/ User

Spec == Init /\ [][Next]_vars

\* The threads are scheduled and git terminates; the user need not do anything.
FairSpec == Spec /\ WF_vars(Worker) /\ WF_vars(Gui)

-----------------------------------------------------------------------------
TypeOK ==
  /\ requests \in Seq(Request)
  /\ Len(requests) <= MAX
  /\ cache \in [Ids -> Data \cup {Absent}]
  /\ interrupted \in BOOLEAN /\ git \in Data
  /\ wpc \in WorkerPCs /\ item \in Request
  /\ gui \in {"idle", "joining"} /\ opened \in Data
  /\ visible \in Pages /\ unpainted \in SUBSET Ids
  /\ repaint \in BOOLEAN /\ shown \in [Ids -> Data] /\ scrolls \in 0..MaxScrolls

\* The list and the cache agree at every release of the mutex: no commit is in
\* the list twice, and exactly the finished requests have their answer cached,
\* so that the memory the cache takes is bounded like the list.
CacheIsDone ==
  /\ \A j, k \in 1..Len(requests) : requests[j].id = requests[k].id => j = k
  /\ \A i \in Ids : cache[i] # Absent <=>
       \E k \in 1..Len(requests) : requests[k].id = i /\ requests[k].done
  /\ \A k \in 1..Len(requests) :
       requests[k].done => cache[requests[k].id] = requests[k].data

\* A busy mark is the running worker's: a request left behind busy would never
\* be picked again, and its row would stay without an icon.
BusyIsFetched ==
  \A k \in 1..Len(requests) : requests[k].busy =>
    wpc = "run" /\ item.id = requests[k].id

\* The worker never sleeps on work: while it waits, nothing is left to do.
NoLostRequest ==
  wpc = "wait" => ~interrupted /\ \A k \in 1..Len(requests) : requests[k].done

\* No answer of a repository that was open before survives into the cache or
\* the view of the one open now, not even that of a git that ran on meanwhile.
NothingStale ==
  \A i \in Ids : cache[i] \in {Absent, Unknown, opened} /\ shown[i] \in {Unknown, opened}

\* What makes these five inductive.
ListOK ==
  /\ \A j, k \in 1..Len(requests) : requests[j].id = requests[k].id => j = k
  /\ \A k \in 1..Len(requests) :
       LET r == requests[k] IN
       /\ r.done => ~r.busy /\ cache[r.id] = r.data
       /\ ~r.done => r.data = Unknown /\ cache[r.id] = Absent
  /\ \A i \in Ids : cache[i] # Absent => \E k \in 1..Len(requests) : requests[k].id = i

PhaseOK ==
  /\ gui = "joining" <=> interrupted
  /\ interrupted => requests = <<>> /\ \A i \in Ids : cache[i] = Absent
  /\ ~interrupted => git = opened

Inv == TypeOK /\ ListOK /\ PhaseOK /\ BusyIsFetched /\ NoLostRequest /\ NothingStale

\* git is never run for a commit whose answer is there.
NoRepeatedWork ==
  [][wpc' = "run" /\ wpc # "run" => cache[item'.id] = Absent]_vars

\* stop() returns, whatever the worker was doing (openRepositoryMain calls it
\* on the GUI thread).
StopReturns == gui = "joining" ~> gui = "idle"

\* Once the user rests, every row in view has been answered and painted with
\* the answer, although repainting itself may push answers out of the cache.
ViewFilled ==
  <>[](opened > 0 => \A i \in visible : cache[i] # Absent /\ shown[i] = cache[i])

=============================================================================
