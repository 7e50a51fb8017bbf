---------------------------- MODULE AvatarLoader ----------------------------
(***************************************************************************)
(* The avatars of the commit log (AvatarLoader.cpp).                       *)
(*                                                                         *)
(* fetch(), called while the GUI thread paints a row, answers from a list  *)
(* of requests that is also the cache: a hit moves to the front, an        *)
(* unknown address is pushed at the back after finished entries have been  *)
(* removed from the back to make room.  One worker takes the idle request  *)
(* nearest to the back, downloads outside the mutex and stores the result. *)
(*                                                                         *)
(* requestInterruption() does not take the mutex, so the worker's pass     *)
(* through its critical section is split wherever it reads interrupted.    *)
(***************************************************************************)
EXTENDS Naturals, Sequences, FiniteSets, SequencesExt

CONSTANTS
  Emails,           \* the valid addresses of the committers
  MAX_CACHE_COUNT,  \* how long the list may get before entries are removed
  MaxScrolls        \* bound: how often the user moves the view

ASSUME LoaderAssumption == MAX_CACHE_COUNT \in Nat \ {0} /\ MaxScrolls \in Nat

VARIABLES
  requests,     \* m->requests
  interrupted,  \* m->interrupted
  wpc,          \* where the worker is
  email,        \* request.email, the worker's local copy
  gui,          \* the GUI thread: in its event loop, or somewhere in stop()
  visible,      \* the addresses of the rows in view
  unpainted,    \* rows the running paint event has yet to draw
  ready,        \* a ready() signal is queued to the GUI thread
  repaint,      \* a repaint is due
  shown,        \* the rows last painted with an avatar
  scrolls       \* bound counter

vars == <<requests, interrupted, wpc, email, gui, visible, unpainted, ready, repaint,
          shown, scrolls>>
view == <<visible, unpainted, ready, repaint, shown, scrolls>>

Item == [email : Emails, state : {"Idle", "Busy", "Done", "Fail"}]

\* The worker holds the mutex at "scan" and "check"; "wait" is inside
\* condition.wait, "woken" on the way out of it.
WorkerPCs == {"top", "scan", "check", "wait", "woken", "fetch", "emit", "exited"}
MutexFree == wpc \notin {"scan", "check"}

\* "loop", then the steps of stop(): interrupted set, notified, joined.
GuiPCs == {"loop", "interrupting", "joining", "stopped"}

-----------------------------------------------------------------------------
Init ==
  /\ requests = <<>> /\ interrupted = FALSE
  /\ wpc = "top" /\ email \in Emails
  /\ gui = "loop" /\ visible \in SUBSET Emails /\ unpainted = {}
  /\ ready = FALSE /\ repaint = TRUE /\ shown = {} /\ scrolls = 0

Finished(r) == r.state \in {"Done", "Fail"}

Listed(e) == \E k \in 1..Len(requests) : requests[k].email = e

-----------------------------------------------------------------------------
(* run() *)

\* Variant: does not look at the flag before it looks for work.
TopUnchecked ==
  /\ wpc = "top"
  /\ wpc' = "scan"
  /\ UNCHANGED <<requests, interrupted, email, gui, view>>

Top ==
  /\ wpc = "top"
  /\ wpc' = IF interrupted THEN "exited" ELSE "scan"
  /\ UNCHANGED <<requests, interrupted, email, gui, view>>

\* The idle request nearest to the back becomes busy; without one, wait.
Scan ==
  /\ wpc = "scan"
  /\ \/ \E k \in 1..Len(requests) :
          /\ requests[k].state = "Idle"
          /\ \A j \in k+1..Len(requests) : requests[j].state # "Idle"
          /\ requests' = [requests EXCEPT ![k].state = "Busy"]
          /\ email' = requests[k].email
          /\ wpc' = "check"
     \/ /\ \A k \in 1..Len(requests) : requests[k].state # "Idle"
        /\ wpc' = "wait"
        /\ UNCHANGED <<requests, email>>
  /\ UNCHANGED <<interrupted, gui, view>>

\* The second look at interrupted, still inside the mutex.
Check ==
  /\ wpc = "check"
  /\ wpc' = IF interrupted THEN "exited" ELSE "fetch"
  /\ UNCHANGED <<requests, interrupted, email, gui, view>>

Woken ==
  /\ wpc = "woken"
  /\ wpc' = IF interrupted THEN "exited" ELSE "top"
  /\ UNCHANGED <<requests, interrupted, email, gui, view>>

SpuriousWakeup ==
  /\ wpc = "wait"
  /\ wpc' = "woken"
  /\ UNCHANGED <<requests, interrupted, email, gui, view>>

WithResult(result) ==
  [k \in 1..Len(requests) |-> IF requests[k].email = email
                              THEN [requests[k] EXCEPT !.state = result] ELSE requests[k]]

Store(result) == requests' = WithResult(result)

\* The download has ended; the entry is looked up by address.
Fetched ==
  /\ wpc = "fetch"
  /\ \E result \in {"Done", "Fail"} : Store(result)
  /\ wpc' = IF Listed(email) THEN "emit" ELSE "top"
  /\ UNCHANGED <<interrupted, email, gui, view>>

\* Variant: the GUI is not told.
EmitNothing ==
  /\ wpc = "emit"
  /\ wpc' = "top"
  /\ UNCHANGED <<requests, interrupted, email, gui, view>>

\* emit ready(): queued to the GUI thread.
Emit ==
  /\ wpc = "emit"
  /\ wpc' = "top"
  /\ ready' = TRUE
  /\ UNCHANGED <<requests, interrupted, email, gui, visible, unpainted, repaint, shown,
                 scrolls>>

-----------------------------------------------------------------------------
(* fetch() *)

\* Variant: makes room by removing any entry, from the back.
MakeRoomOfAnything(rs) ==
  SubSeq(rs, 1, IF Len(rs) >= MAX_CACHE_COUNT THEN MAX_CACHE_COUNT - 1 ELSE Len(rs))

\* The i-th of a finite set of positions.
Nth(K, i) == CHOOSE k \in K : Cardinality({j \in K : j <= k}) = i

\* The last n finished requests are removed.
WithoutFinished(rs, n) ==
  LET Behind(k) == Cardinality({j \in k+1..Len(rs) : Finished(rs[j])})
      kept == {k \in 1..Len(rs) : ~Finished(rs[k]) \/ Behind(k) >= n}
  IN  [i \in 1..Cardinality(kept) |-> rs[Nth(kept, i)]]

\* Variant: leaves no room for the request to be added.
MakeRoomLate(rs) ==
  IF Len(rs) > MAX_CACHE_COUNT THEN WithoutFinished(rs, Len(rs) - MAX_CACHE_COUNT) ELSE rs

\* Going from the back, finished requests are removed until one more fits.
MakeRoom(rs) ==
  IF Len(rs) >= MAX_CACHE_COUNT
  THEN WithoutFinished(rs, Len(rs) + 1 - MAX_CACHE_COUNT) ELSE rs

\* Variant: the worker is not told.
PushSilently(e) ==
  /\ requests' = Append(MakeRoom(requests), [email |-> e, state |-> "Idle"])
  /\ UNCHANGED wpc

Push(e) ==
  /\ requests' = Append(MakeRoom(requests), [email |-> e, state |-> "Idle"])
  /\ wpc' = IF wpc = "wait" THEN "woken" ELSE wpc

\* Variant: the entry goes to the front and stays where it was.
HitCopied(e, k) ==
  /\ requests[k].email = e
  /\ requests' = IF requests[k].state = "Done"
                 THEN <<requests[k]>> \o requests ELSE requests
  /\ UNCHANGED wpc

\* An entry with an image goes to the front.
Hit(e, k) ==
  /\ requests[k].email = e
  /\ requests' = IF requests[k].state = "Done"
                 THEN <<requests[k]>> \o RemoveAt(requests, k) ELSE requests
  /\ UNCHANGED wpc

HasImage(e) == \E k \in 1..Len(requests) :
                 requests[k].email = e /\ requests[k].state = "Done"

\* fetch(e, true) while a row is drawn.
Fetch(e) ==
  /\ gui = "loop" /\ MutexFree
  /\ e \in unpainted
  /\ unpainted' = unpainted \ {e}
  /\ \/ \E k \in 1..Len(requests) : Hit(e, k)
     \/ ~Listed(e) /\ Push(e)
  /\ shown' = IF HasImage(e) THEN shown \cup {e} ELSE shown \ {e}
  /\ UNCHANGED <<interrupted, email, gui, visible, ready, repaint, scrolls>>

\* The ready() signal arrives: fetch(e, false) for the user's own avatar, and a
\* timer that repaints the view.
OnAvatarReady(e) ==
  /\ gui = "loop" /\ MutexFree
  /\ unpainted = {} /\ ready
  /\ ready' = FALSE
  /\ repaint' = TRUE
  /\ \/ \E k \in 1..Len(requests) : Hit(e, k)
     \/ ~Listed(e) /\ UNCHANGED <<requests, wpc>>
  /\ UNCHANGED <<interrupted, email, gui, visible, unpainted, shown, scrolls>>

-----------------------------------------------------------------------------
(* The view and the end of the program (main.cpp). *)

Paint ==
  /\ gui = "loop" /\ unpainted = {} /\ repaint
  /\ repaint' = FALSE
  /\ unpainted' = visible
  /\ UNCHANGED <<requests, interrupted, wpc, email, gui, visible, ready, shown, scrolls>>

Scroll(rows) ==
  /\ gui = "loop" /\ unpainted = {} /\ scrolls < MaxScrolls
  /\ visible' = rows
  /\ repaint' = TRUE
  /\ scrolls' = scrolls + 1
  /\ UNCHANGED <<requests, interrupted, wpc, email, gui, unpainted, ready, shown>>

\* The event loop has ended: requestInterruption() sets the flag ...
Interrupt ==
  /\ gui = "loop" /\ unpainted = {}
  /\ gui' = "interrupting"
  /\ interrupted' = TRUE
  /\ UNCHANGED <<requests, wpc, email, view>>

\* ... and notifies, both without the mutex.
NotifyAll ==
  /\ gui = "interrupting"
  /\ gui' = "joining"
  /\ wpc' = IF wpc = "wait" THEN "woken" ELSE wpc
  /\ UNCHANGED <<requests, interrupted, email, view>>

Join ==
  /\ gui = "joining" /\ wpc = "exited"
  /\ gui' = "stopped"
  /\ requests' = <<>>
  /\ UNCHANGED <<interrupted, wpc, email, visible, unpainted, ready, repaint, shown, scrolls>>

Worker == Top \/ Scan \/ Check \/ Woken \/ Fetched \/ Emit

Gui == Paint \/ NotifyAll \/ Join \/ \E e \in Emails : Fetch(e) \/ OnAvatarReady(e)

User == Interrupt \/ \E rows \in SUBSET Emails : Scroll(rows)

\* The program has ended.
Done == gui = "stopped" /\ UNCHANGED vars

Next == Worker \/ SpuriousWakeup \/ Gui \/ User \/ Done

Spec == Init /\ [][Next]_vars

\* Threads are scheduled, a download ends, if only by its timeout, and a fetch()
\* that keeps asking for the mutex gets it.
FairSpec ==
  /\ Spec /\ WF_vars(Worker) /\ WF_vars(Gui)
  /\ SF_vars(\E e \in Emails : Fetch(e)) /\ SF_vars(\E e \in Emails : OnAvatarReady(e))

-----------------------------------------------------------------------------
\* The list is one of distinct addresses.
TypeOK ==
  /\ requests \in Seq(Item)
  /\ \A j, k \in 1..Len(requests) : requests[j].email = requests[k].email => j = k
  /\ interrupted \in BOOLEAN
  /\ wpc \in WorkerPCs /\ email \in Emails
  /\ gui \in GuiPCs
  /\ visible \in SUBSET Emails /\ unpainted \in SUBSET Emails
  /\ ready \in BOOLEAN /\ repaint \in BOOLEAN /\ shown \in SUBSET Emails
  /\ scrolls \in 0..MaxScrolls

\* While the worker downloads, its request stays in the list, busy and the
\* only one of its address, whatever fetch() moves or removes meanwhile: the
\* result always finds its place and no address is downloaded twice at a time.
WorkerKeepsItsRequest ==
  wpc \in {"check", "fetch"} =>
    Cardinality({k \in 1..Len(requests) : requests[k].email = email}) = 1
    /\ \A k \in 1..Len(requests) :
         requests[k].email = email <=> requests[k].state = "Busy"

\* The worker never sleeps on work while the program runs.
NoLostRequest ==
  wpc = "wait" => \A k \in 1..Len(requests) : Finished(requests[k])

\* A request makes the list exceed its limit only when there was nothing that
\* could be removed, so the memory taken by images stays bounded.
OverLimitOnlyPending ==
  [][Len(requests') > Len(requests) /\ Len(requests') > MAX_CACHE_COUNT
       => \A k \in 1..Len(requests') : ~Finished(requests'[k])]_vars

\* stop() returns, unless the worker went to sleep between the two steps: it
\* had read the flag before it was set and was notified before it waited.
StopReturns ==
  gui = "joining" /\ wpc \notin {"scan", "wait"} ~> gui = "stopped"

\* Once the user rests, and as long as the list has room for the view, every row in
\* it has been downloaded or given up, and is painted with its avatar if there is one.
HasRoom == Cardinality(visible \cup {requests[k].email : k \in 1..Len(requests)}) <= MAX_CACHE_COUNT

ViewSettles ==
  <>[](gui = "loop" /\ HasRoom =>
         \A e \in visible : \E k \in 1..Len(requests) :
           /\ requests[k].email = e /\ Finished(requests[k])
           /\ e \in shown <=> requests[k].state = "Done")

=============================================================================
