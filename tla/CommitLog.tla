------------------------------- MODULE CommitLog -------------------------------
(***************************************************************************)
(* How the commit log is retrieved: git lists the commits' names, threads  *)
(* load the commits through the object cache, each taking the next name    *)
(* and the next free slot, and the result is sorted by the names'          *)
(* positions.  Then commits that git listed after a parent of theirs are   *)
(* moved above it, on a permutation by which the list is copied.           *)
(*                                                                         *)
(* A commit is its position in git's list.  The parents are chosen when    *)
(* fixCommitLogOrder begins.                                               *)
(***************************************************************************)
EXTENDS Naturals, Sequences, FiniteSets, SequencesExt

CONSTANTS
  Count,    \* how many commits git lists
  Loaders,  \* the threads that load them
  Room      \* how many objects the cache may hold before it is trimmed

ASSUME LogAssumption ==
  Count \in Nat /\ Room \in Nat /\ IsFiniteSet(Loaders) /\ Loaders # {}

Commits == 1..Count
Other == 0  \* another object in the cache

VARIABLES
  in,        \* the last position that was taken
  slots,     \* vec, up to "to": the positions loaded, in the order they were
  loaders,   \* where each thread is, and with which position
  unread,    \* history: commits that could not be loaded or parsed
  objects,   \* items_ of the object cache
  stage,     \* "load", "fix", "done"
  log,       \* the list: before fixCommitLogOrder, and after it
  parents,   \* parent_ids
  order,     \* fixCommitLogOrder: index
  at,        \* its i
  seen,      \* its set
  limit      \* its limit

vars == <<in, slots, loaders, unread, objects, stage, log, parents, order, at, seen, limit>>
loading == <<in, slots, loaders, unread, objects>>
fixing == <<stage, log, parents, order, at, seen, limit>>

\* The cache holds what earlier logs and diffs left there.
Init ==
  /\ in = 0 /\ slots = <<>> /\ unread = {}
  /\ objects \in SeqOf(Commits \cup {Other}, Room + Cardinality(Loaders))
  /\ loaders = [t \in Loaders |-> [pc |-> "take", j |-> 0]]
  /\ stage = "load" /\ log = <<>> /\ parents = [c \in Commits |-> {}]
  /\ order = <<>> /\ at = 1 /\ seen = {} /\ limit = 0

At(t, pc) == loaders[t].pc = pc
Go(t, pc) == loaders' = [loaders EXCEPT ![t].pc = pc]

-----------------------------------------------------------------------------
(* log_all2 *)

\* in++
Take(t) ==
  /\ At(t, "take")
  /\ loaders' = [loaders EXCEPT ![t] = IF in >= Count THEN [@ EXCEPT !.pc = "done"]
                                       ELSE [pc |-> "find", j |-> in + 1]]
  /\ in' = in + 1
  /\ UNCHANGED <<slots, unread, objects, fixing>>

\* Variant: removes one object too few.
TrimLess(os) == IF Len(os) > Room + 1 THEN SubSeq(os, Len(os) - Room, Len(os)) ELSE os

Trim(os) == IF Len(os) > Room THEN SubSeq(os, Len(os) - Room + 1, Len(os)) ELSE os

\* catFile, inside the mutex: an object that is found becomes the last one, or
\* the oldest are removed until there is room.
Find(t) ==
  /\ At(t, "find")
  /\ \/ /\ loaders[t].j \notin ToSet(objects)
        /\ objects' = Trim(objects) /\ Go(t, "load")
     \/ \E k \in DOMAIN objects :
          /\ objects[k] = loaders[t].j
          /\ \A l \in k + 1..Len(objects) : objects[l] # objects[k]
          /\ objects' = Append(RemoveAt(objects, k), objects[k]) /\ Go(t, "place")
  /\ UNCHANGED <<in, slots, unread, fixing>>

\* Outside it the object is read; there may be none.
Load(t) ==
  /\ At(t, "load")
  /\ \/ Go(t, "store") /\ UNCHANGED unread
     \/ Go(t, "take") /\ unread' = unread \cup {loaders[t].j}
  /\ UNCHANGED <<in, slots, objects, fixing>>

\* Store
Store(t) ==
  /\ At(t, "store")
  /\ objects' = Append(objects, loaders[t].j)
  /\ Go(t, "place")
  /\ UNCHANGED <<in, slots, unread, fixing>>

\* vec.at(to++), if the object is a commit
Place(t) ==
  /\ At(t, "place")
  /\ Go(t, "take")
  /\ \/ slots' = Append(slots, loaders[t].j) /\ UNCHANGED unread
     \/ unread' = unread \cup {loaders[t].j} /\ UNCHANGED slots
  /\ UNCHANGED <<in, objects, fixing>>

\* Histories without a cycle.
Histories ==
  {p \in [Commits -> SUBSET Commits] :
     \A C \in SUBSET Commits \ {{}} : \E c \in C : p[c] \cap C = {}}

Joined == stage = "load" /\ \A t \in Loaders : At(t, "done")

\* fixCommitLogOrder begins.
Begin(list) ==
  /\ stage' = "fix"
  /\ log' = list
  /\ parents' \in Histories
  /\ order' = [k \in 1..Len(list) |-> k] /\ at' = 1 /\ seen' = {} /\ limit' = Len(list)
  /\ UNCHANGED loading

\* std::sort: the k-th smallest at k.
Sorted(positions) ==
  [k \in 1..Len(positions) |->
     CHOOSE p \in ToSet(positions) : Cardinality({q \in ToSet(positions) : q <= p}) = k]

\* Variant: the commits stay in the order they were loaded in.
JoinUnsorted == Joined /\ Begin(slots)

Join == Joined /\ Begin(Sorted(slots))

-----------------------------------------------------------------------------
(* fixCommitLogOrder *)

Item(k) == log[order[k]]

\* Variant: inserts first, so that `from` is no longer its place when it is erased.
MovedInsertFirst(from, to) == RemoveAt(InsertAt(order, to, order[from]), from)

\* MoveItem
Moved(from, to) == InsertAt(RemoveAt(order, from), to, order[from])

\* Positions above `at` that hold a parent of the commit there.
ParentsAbove == {k \in 1..at - 1 : Item(k) \in parents[Item(at)] \cap seen}

FixStep ==
  /\ stage = "fix" /\ at <= Len(log)
  /\ seen' = seen \cup {Item(at)}
  /\ IF ParentsAbove = {} THEN at' = at + 1 /\ UNCHANGED <<order, limit>>
     ELSE LET newpos == CHOOSE k \in ParentsAbove : \A j \in ParentsAbove : k <= j
          IN IF limit = 0 THEN at' = Len(log) + 1 /\ UNCHANGED <<order, limit>>
             ELSE order' = Moved(at, newpos) /\ at' = newpos + 1 /\ limit' = limit - 1
  /\ UNCHANGED <<stage, log, parents, loading>>

\* The copy takes ListItem(i), which is list1[index[i]], of each i in index.
Copy ==
  /\ stage = "fix" /\ at > Len(log)
  /\ stage' = "done"
  /\ log' = [k \in 1..Len(log) |-> Item(order[k])]
  /\ UNCHANGED <<parents, order, at, seen, limit, loading>>

Loader(t) == Take(t) \/ Find(t) \/ Load(t) \/ Store(t) \/ Place(t)

Next == Join \/ FixStep \/ Copy \/ \E t \in Loaders : Loader(t)

Spec == Init /\ [][Next]_vars

-----------------------------------------------------------------------------
\* Whatever the threads do, the log has every commit that could be read, once and
\* in git's order, when its order is to be fixed, and has them all afterwards.
LogComplete ==
  /\ stage = "fix" =>
       (\A j, k \in 1..Len(log) : j < k => log[j] < log[k]) /\ ToSet(log) = Commits \ unread
  /\ stage = "done" => Len(log) = Count - Cardinality(unread) /\ ToSet(log) = Commits \ unread

\* The cache exceeds its limit by no more than an object for each thread.
CacheBounded == Len(objects) <= Room + Cardinality(Loaders)

Ordered(list) ==
  \A j, k \in 1..Len(list) : j < k => list[j] \notin parents[list[k]]

\* The loop ends with a permutation that puts every commit above its parents,
\* unless it has used up its limit, and leaves a list alone that was in order.
OrderFixed ==
  stage = "fix" /\ at > Len(log) =>
    /\ ToSet(order) = 1..Len(log)
    /\ limit > 0 => Ordered([k \in 1..Len(log) |-> Item(k)])
    /\ Ordered(log) => order = [k \in 1..Len(log) |-> k]

\* The parents of commits are looked at, and if the order is wrong it is fixed
\* ("親子関係を調べて、順番が狂っていたら、修正する。", GitTypes.cpp:371).
ChildrenFirst == stage = "done" => Ordered(log)
================================================================================
