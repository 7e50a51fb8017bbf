---------------------------- MODULE CommitLogProofs ----------------------------
(***************************************************************************)
(* What holds of retrieving the log for any number of commits, threads and *)
(* any limit of the cache: how far the cache exceeds its limit, and that   *)
(* the loop of fixCommitLogOrder ends with a permutation in order.         *)
(***************************************************************************)
EXTENDS CommitLog, FiniteSetTheorems, SequenceTheorems, WellFoundedInduction, TLAPS

LoaderPCs == {"take", "find", "load", "store", "place", "done"}

\* Threads that have made room in the cache and not yet used it.
Pending == {t \in Loaders : loaders[t].pc \in {"load", "store"}}

\* The types of what the threads use.
LoadTypes ==
  /\ in \in Nat /\ slots \in Seq(Nat) /\ objects \in Seq(Nat)
  /\ loaders \in [Loaders -> [pc : LoaderPCs, j : Nat]]

\* Whoever has made room may still use it.
RoomKept == Len(objects) + Cardinality(Pending) <= Room + Cardinality(Loaders)

-----------------------------------------------------------------------------
(* The cache *)

\* A set of threads is finite and no larger than all of them.
LEMMA PendingFinite ==
  ASSUME NEW P \in SUBSET Loaders
  PROVE  IsFiniteSet(P) /\ Cardinality(P) \in Nat /\ Cardinality(Loaders) \in Nat
         /\ Cardinality(P) <= Cardinality(Loaders)
<1>1. IsFiniteSet(Loaders)
  BY LogAssumption
<1>2. IsFiniteSet(P) /\ Cardinality(P) <= Cardinality(Loaders)
  BY <1>1, FS_Subset
<1> QED
  BY <1>1, <1>2, FS_CardinalityType

\* Trim leaves at most Room objects.
LEMMA TrimBounds ==
  ASSUME NEW os \in Seq(Nat)
  PROVE  Trim(os) \in Seq(Nat) /\ Len(Trim(os)) <= Room
<1>1. Len(os) \in Nat /\ Room \in Nat
  BY LogAssumption
<1>2. CASE Len(os) > Room
  <2>1. SubSeq(os, Len(os) - Room + 1, Len(os)) \in Seq(Nat)
        /\ Len(SubSeq(os, Len(os) - Room + 1, Len(os))) = Room
    BY <1>1, <1>2
  <2> QED
    BY <1>2, <2>1, <1>1 DEF Trim
<1>3. CASE ~(Len(os) > Room)
  BY <1>1, <1>3 DEF Trim
<1> QED
  BY <1>2, <1>3

\* An object that is found and moved to the end is still one object.
LEMMA HitKeepsLength ==
  ASSUME NEW os \in Seq(Nat), NEW k \in DOMAIN os
  PROVE  Append(RemoveAt(os, k), os[k]) \in Seq(Nat)
         /\ Len(Append(RemoveAt(os, k), os[k])) = Len(os)
<1>1. k \in 1..Len(os) /\ Len(os) \in Nat /\ os[k] \in Nat
  OBVIOUS
<1>2. SubSeq(os, 1, k - 1) \in Seq(Nat) /\ Len(SubSeq(os, 1, k - 1)) = k - 1
  BY <1>1
<1>3. SubSeq(os, k + 1, Len(os)) \in Seq(Nat) /\ Len(SubSeq(os, k + 1, Len(os))) = Len(os) - k
  BY <1>1
<1>4. RemoveAt(os, k) \in Seq(Nat) /\ Len(RemoveAt(os, k)) = Len(os) - 1
  <2>1. ASSUME NEW u \in Seq(Nat), NEW v \in Seq(Nat), Len(u) = k - 1, Len(v) = Len(os) - k
        PROVE  u \o v \in Seq(Nat) /\ Len(u \o v) = Len(os) - 1
    BY <1>1, <2>1
  <2> QED
    BY <1>2, <1>3, <2>1 DEF RemoveAt
<1> QED
  BY <1>1, <1>4

\* The cache in the initial state.
LEMMA LoadInit == Init => LoadTypes /\ RoomKept
<1> SUFFICES ASSUME Init PROVE LoadTypes /\ RoomKept
  OBVIOUS
<1>1. Room \in Nat /\ Count \in Nat
  BY LogAssumption
<1>2. Cardinality(Loaders) \in Nat
  BY PendingFinite
<1>3. PICK m \in 0..(Room + Cardinality(Loaders)) : objects \in [1..m -> Commits \cup {Other}]
  BY DEF Init, SeqOf
<1>4. Commits \cup {Other} \subseteq Nat
  BY <1>1 DEF Commits, Other
<1>5. m \in Nat /\ objects \in [1..m -> Nat]
  BY <1>1, <1>2, <1>3, <1>4
<1>6. objects \in Seq(Nat) /\ Len(objects) = m
  BY <1>5
<1>7. Pending = {}
  BY DEF Init, Pending
<1>8. Cardinality(Pending) = 0
  BY <1>7, FS_EmptySet
<1>9. LoadTypes
  BY <1>6 DEF Init, LoadTypes, LoaderPCs
<1> QED
  BY <1>1, <1>2, <1>3, <1>6, <1>8, <1>9 DEF RoomKept

-----------------------------------------------------------------------------
\* Steps of fixCommitLogOrder leave the cache and the threads alone.
LEMMA LoadFrame == LoadTypes /\ RoomKept /\ UNCHANGED loading => LoadTypes' /\ RoomKept'
  BY DEF LoadTypes, RoomKept, Pending, loading

\* A step that leaves the cache and who is at "load" or "store" alone.
LEMMA PlaceKeeps ==
  ASSUME LoadTypes, RoomKept, NEW t \in Loaders, Take(t) \/ Place(t)
  PROVE  LoadTypes' /\ RoomKept'
<1>1. LoadTypes'
  <2>1. CASE Take(t)
    BY <2>1 DEF Take, At, LoadTypes, LoaderPCs, fixing
  <2>2. CASE Place(t)
    <3>1. loaders[t].j \in Nat
      BY DEF LoadTypes
    <3>2. slots \in Seq(Nat) /\ (slots' = slots \/ slots' = Append(slots, loaders[t].j))
      BY <2>2 DEF Place, LoadTypes
    <3>3. slots' \in Seq(Nat)
      BY <3>1, <3>2
    <3> QED
      BY <2>2, <3>3 DEF Place, At, Go, LoadTypes, LoaderPCs, fixing
  <2> QED
    BY <2>1, <2>2
<1>2. Pending' = Pending
  <2>1. \A u \in Loaders \ {t} : loaders'[u] = loaders[u]
    BY DEF Take, Place, Go, LoadTypes
  <2>2. loaders[t].pc \notin {"load", "store"}
    BY DEF Take, Place, At
  <2>3. loaders'[t].pc \in {"done", "find", "take"}
    <3>1. CASE Take(t)
      BY <3>1 DEF Take, LoadTypes, LoaderPCs
    <3>2. CASE Place(t)
      BY <3>2 DEF Place, Go, LoadTypes, LoaderPCs
    <3> QED
      BY <3>1, <3>2
  <2> QED
    BY <2>1, <2>2, <2>3 DEF Pending
<1>3. objects' = objects
  BY DEF Take, Place
<1> QED
  BY <1>1, <1>2, <1>3 DEF RoomKept

\* Looking an object up: either it is there, or the cache is trimmed.
LEMMA FindKeeps ==
  ASSUME LoadTypes, RoomKept, NEW t \in Loaders, Find(t)
  PROVE  LoadTypes' /\ RoomKept'
<1>1. objects \in Seq(Nat) /\ Len(objects) \in Nat
  BY DEF LoadTypes
<1>2. CASE objects' = Trim(objects) /\ Go(t, "load")
  <2>1. objects' \in Seq(Nat) /\ Len(objects') <= Room
    BY <1>1, <1>2, TrimBounds
  <2>2. LoadTypes'
    <3>1. in' = in /\ slots' = slots /\ loaders' = [loaders EXCEPT ![t].pc = "load"]
      BY <1>2 DEF Find, Go
    <3>2. loaders' \in [Loaders -> [pc : LoaderPCs, j : Nat]]
      BY <3>1 DEF LoadTypes, LoaderPCs
    <3> QED
      BY <2>1, <3>1, <3>2 DEF LoadTypes
  <2>3. Pending' \in SUBSET Loaders
    BY DEF Pending
  <2>4. Cardinality(Pending') \in Nat /\ Cardinality(Loaders) \in Nat
        /\ Cardinality(Pending') <= Cardinality(Loaders)
    BY <2>3, PendingFinite
  <2>5. Len(objects') \in Nat /\ Room \in Nat
    BY <2>1, LogAssumption
  <2> QED
    BY <2>1, <2>2, <2>4, <2>5 DEF RoomKept
<1>3. CASE /\ Go(t, "place")
           /\ \E k \in DOMAIN objects : objects' = Append(RemoveAt(objects, k), objects[k])
  <2>1. objects' \in Seq(Nat) /\ Len(objects') = Len(objects)
    BY <1>1, <1>3, HitKeepsLength
  <2>2. LoadTypes'
    BY <1>3, <2>1 DEF Find, Go, LoadTypes, LoaderPCs, fixing
  <2>3. Pending' = Pending
    BY <1>3 DEF Find, At, Go, Pending, LoadTypes, LoaderPCs
  <2> QED
    BY <2>1, <2>2, <2>3 DEF RoomKept
<1> QED
  BY <1>2, <1>3 DEF Find

\* Reading and storing use the room that was made.
LEMMA StoreKeeps ==
  ASSUME LoadTypes, RoomKept, NEW t \in Loaders, Load(t) \/ Store(t)
  PROVE  LoadTypes' /\ RoomKept'
<1>1. objects \in Seq(Nat) /\ Len(objects) \in Nat /\ loaders[t].j \in Nat
  BY DEF LoadTypes
<1>2. t \in Pending
  BY DEF Load, Store, At, Pending
<1>3. Pending \in SUBSET Loaders
  BY DEF Pending
<1>4. IsFiniteSet(Pending) /\ Cardinality(Pending) \in Nat /\ Cardinality(Loaders) \in Nat
  BY <1>3, PendingFinite
<1>5. Cardinality(Pending \ {t}) = Cardinality(Pending) - 1
  BY <1>2, <1>4, FS_RemoveElement
<1>6. CASE Load(t)
  <2>1. LoadTypes'
    BY <1>6 DEF Load, Go, LoadTypes, LoaderPCs, fixing
  <2>2. Pending' = Pending \/ Pending' = Pending \ {t}
    BY <1>6 DEF Load, At, Go, Pending, LoadTypes, LoaderPCs
  <2>3. Cardinality(Pending') <= Cardinality(Pending) /\ Cardinality(Pending') \in Nat
    <3>1. Pending' \in SUBSET Loaders
      BY <1>3, <2>2
    <3>2. Cardinality(Pending') \in Nat
      BY <3>1, PendingFinite
    <3>3. CASE Pending' = Pending
      BY <1>4, <3>3
    <3>4. CASE Pending' = Pending \ {t}
      BY <1>4, <1>5, <3>2, <3>4
    <3> QED
      BY <2>2, <3>2, <3>3, <3>4
  <2>4. objects' = objects
    BY <1>6 DEF Load
  <2>5. Room \in Nat
    BY LogAssumption
  <2>6. RoomKept'
    BY <1>1, <1>4, <2>3, <2>4, <2>5 DEF RoomKept
  <2> QED
    BY <2>1, <2>6
<1>7. CASE Store(t)
  <2>1. objects' \in Seq(Nat) /\ Len(objects') = Len(objects) + 1
    BY <1>1, <1>7 DEF Store
  <2>2. LoadTypes'
    BY <1>7, <2>1 DEF Store, Go, LoadTypes, LoaderPCs, fixing
  <2>3. Pending' = Pending \ {t}
    BY <1>7 DEF Store, At, Go, Pending, LoadTypes, LoaderPCs
  <2> QED
    BY <1>1, <1>4, <1>5, <2>1, <2>2, <2>3, LogAssumption DEF RoomKept
<1> QED
  BY <1>6, <1>7

\* Room that was made in the cache is accounted for in every reachable state.
THEOREM RoomInvariant == Spec => [](LoadTypes /\ RoomKept)
<1>1. LoadTypes /\ RoomKept /\ [Next]_vars => LoadTypes' /\ RoomKept'
  <2> SUFFICES ASSUME LoadTypes, RoomKept, [Next]_vars PROVE LoadTypes' /\ RoomKept'
    OBVIOUS
  <2>1. CASE Join \/ FixStep \/ Copy \/ UNCHANGED vars
    <3>1. UNCHANGED loading
      BY <2>1 DEF Join, Begin, FixStep, Copy, vars, loading
    <3> QED
      BY <3>1, LoadFrame
  <2>2. CASE \E t \in Loaders : Loader(t)
    BY <2>2, PlaceKeeps, FindKeeps, StoreKeeps DEF Loader
  <2> QED
    BY <2>1, <2>2 DEF Next
<1> QED
  BY LoadInit, <1>1, PTL DEF Spec

\* The cache exceeds its limit by an object for each thread at most.
THEOREM CacheStaysBounded == Spec => []CacheBounded
<1>1. LoadTypes /\ RoomKept => CacheBounded
  <2> SUFFICES ASSUME LoadTypes, RoomKept PROVE CacheBounded
    OBVIOUS
  <2>1. Pending \in SUBSET Loaders
    BY DEF Pending
  <2>2. Cardinality(Pending) \in Nat /\ Cardinality(Loaders) \in Nat /\ Len(objects) \in Nat
    BY <2>1, PendingFinite DEF LoadTypes
  <2> QED
    BY <2>2, LogAssumption DEF RoomKept, CacheBounded
<1> QED
  BY RoomInvariant, <1>1, PTL

-----------------------------------------------------------------------------
(* The order of the commits *)

\* A well-founded relation that includes "less than" gives every set a least number.
LEMMA MinimumOf ==
  ASSUME NEW R, IsWellFoundedOn(R, Nat), \A x, y \in Nat : x < y => <<x, y>> \in R,
         NEW P \in SUBSET Nat, P # {}
  PROVE  \E k \in P : \A j \in P : k <= j
<1>1. P \subseteq Nat
  OBVIOUS
<1>2. \E k \in P : \A j \in P : ~ (<<j, k>> \in R)
  BY ONLY <1>1, WFMin, IsWellFoundedOn(R, Nat), P # {}, Zenon
<1>3. PICK k \in P : \A j \in P : ~ (<<j, k>> \in R)
  BY <1>2
<1>4. \A j \in P : k <= j
  <2>1. ASSUME NEW j \in P PROVE k <= j
    <3>1. j \in Nat /\ k \in Nat /\ ~ (<<j, k>> \in R)
      BY <1>3
    <3>2. ~ (j < k)
      BY <3>1
    <3> QED
      BY <3>1, <3>2
  <2> QED
    BY <2>1
<1> QED
  BY <1>4

\* A set of positions that is not empty has a first one.
LEMMA MinimumOfNat ==
  ASSUME NEW P \in SUBSET Nat, P # {}
  PROVE  \E k \in P : \A j \in P : k <= j
<1>1. \A x, y \in Nat : x < y => <<x, y>> \in OpToRel(<, Nat)
  BY DEF OpToRel
<1>2. IsWellFoundedOn(OpToRel(<, Nat), Nat)
  BY NatLessThanWellFounded
<1> QED
  BY <1>1, <1>2, MinimumOf, Zenon

\* MoveItem takes an element up and moves those it passes down by one.
LEMMA MovedIs ==
  ASSUME NEW S, NEW s \in Seq(S), NEW from \in DOMAIN s, NEW to \in 1..from - 1
  PROVE  InsertAt(RemoveAt(s, from), to, s[from]) =
           [k \in DOMAIN s |->
              IF k < to \/ k > from THEN s[k] ELSE IF k = to THEN s[from] ELSE s[k - 1]]
<1> DEFINE n == Len(s)
<1>1. n \in Nat /\ from \in 1..n /\ to \in 1..n /\ to < from /\ DOMAIN s = 1..n
  OBVIOUS
<1> DEFINE u == SubSeq(s, 1, from - 1)
           v == SubSeq(s, from + 1, n)
           r == u \o v
<1>2. /\ u \in Seq(S) /\ Len(u) = from - 1
      /\ \A k \in 1..from - 1 : u[k] = s[k]
  BY <1>1
<1>3. /\ v \in Seq(S) /\ Len(v) = n - from
      /\ \A k \in 1..n - from : v[k] = s[k + from]
  <2>1. v \in Seq(S) /\ Len(v) = n - from
    BY <1>1
  <2>2. \A k \in 1..n - from : v[k] = s[from + 1 + k - 1]
    BY <1>1
  <2>3. \A k \in Nat : from + 1 + k - 1 = k + from
    BY <1>1
  <2>4. \A k \in 1..n - from : k \in Nat
    BY <1>1
  <2> HIDE DEF n, v
  <2>5. \A k \in 1..n - from : v[k] = s[k + from]
    BY <2>2, <2>3, <2>4
  <2> QED
    BY <2>1, <2>5
<1> HIDE DEF u, v, n
<1>4. /\ r \in Seq(S) /\ Len(r) = n - 1
      /\ \A k \in 1..n - 1 : r[k] = IF k < from THEN s[k] ELSE s[k + 1]
  <2>0. r \in Seq(S) /\ Len(r) = Len(u) + Len(v)
    BY <1>2, <1>3, ConcatProperties
  <2>1. r \in Seq(S) /\ Len(r) = n - 1
    BY <1>1, <1>2, <1>3, <2>0
  <2>2. \A k \in 1..n - 1 : r[k] = IF k <= from - 1 THEN u[k] ELSE v[k - (from - 1)]
    BY <1>1, <1>2, <1>3
  <2>3. \A k \in from..n - 1 : v[k - (from - 1)] = s[k + 1]
    <3> SUFFICES ASSUME NEW k \in from..n - 1 PROVE v[k - (from - 1)] = s[k + 1]
      OBVIOUS
    <3>1. k - (from - 1) \in 1..n - from /\ k - (from - 1) + from = k + 1
      BY <1>1
    <3> QED
      BY <1>3, <3>1
  <2>4. ASSUME NEW k \in 1..n - 1 PROVE r[k] = IF k < from THEN s[k] ELSE s[k + 1]
    <3>1. CASE k < from
      <4>1. k \in 1..from - 1 /\ k <= from - 1
        BY <1>1, <3>1
      <4> QED
        BY <1>2, <2>2, <3>1, <4>1
    <3>2. CASE ~(k < from)
      <4>1. k \in from..n - 1 /\ ~(k <= from - 1)
        BY <1>1, <3>2
      <4> QED
        BY <2>2, <2>3, <3>2, <4>1
    <3> QED
      BY <3>1, <3>2
  <2> QED
    BY <2>1, <2>4
<1>5. RemoveAt(s, from) = r
  BY DEF RemoveAt, u, v, n
<1> HIDE DEF r
<1> DEFINE a == SubSeq(r, 1, to - 1)
           b == SubSeq(r, to, n - 1)
<1>6. /\ a \in Seq(S) /\ Len(a) = to - 1
      /\ \A k \in 1..to - 1 : a[k] = s[k]
  BY <1>1, <1>4
<1>7. /\ b \in Seq(S) /\ Len(b) = n - to
      /\ \A k \in 1..n - to : b[k] = r[k + to - 1]
  BY <1>1, <1>4
<1>8. InsertAt(r, to, s[from]) = a \o <<s[from]>> \o b
  BY <1>4 DEF InsertAt
<1> HIDE DEF a, b
<1> DEFINE c == a \o <<s[from]>>
<1>9. /\ c \in Seq(S) /\ Len(c) = to
      /\ \A k \in 1..to : c[k] = IF k = to THEN s[from] ELSE s[k]
  <2>1. s[from] \in S
    BY <1>1
  <2> QED
    BY <1>1, <1>6, <2>1
<1> HIDE DEF c
<1>10. /\ c \o b \in Seq(S) /\ Len(c \o b) = n
       /\ \A k \in 1..n : (c \o b)[k] = IF k < to \/ k > from THEN s[k]
                                           ELSE IF k = to THEN s[from] ELSE s[k - 1]
  <2>0. c \o b \in Seq(S) /\ Len(c \o b) = Len(c) + Len(b)
    BY <1>7, <1>9, ConcatProperties
  <2>1. c \o b \in Seq(S) /\ Len(c \o b) = n
    BY <1>1, <1>7, <1>9, <2>0
  <2>2. \A k \in 1..n : (c \o b)[k] = IF k <= to THEN c[k] ELSE b[k - to]
    BY <1>1, <1>7, <1>9
  <2>3. \A k \in to + 1..n : b[k - to] = r[k - 1]
    BY <1>1, <1>7
  <2>4. \A k \in to + 1..n : r[k - 1] = IF k <= from THEN s[k - 1] ELSE s[k]
    BY <1>1, <1>4
  <2>5. ASSUME NEW k \in 1..n
        PROVE  (c \o b)[k] = IF k < to \/ k > from THEN s[k]
                             ELSE IF k = to THEN s[from] ELSE s[k - 1]
    <3>1. k \in Int /\ to \in Int /\ from \in Int /\ n \in Int /\ 1 <= k /\ k <= n
      BY <1>1
    <3>2. CASE k <= to
      <4>1. k \in 1..to
        BY <3>1, <3>2
      <4>2. (c \o b)[k] = IF k = to THEN s[from] ELSE s[k]
        BY <1>9, <2>2, <3>2, <4>1
      <4> QED
        BY <1>1, <3>1, <3>2, <4>2
    <3>3. CASE k > to
      <4>1. k \in to + 1..n /\ ~(k <= to)
        BY <3>1, <3>3
      <4>2. (c \o b)[k] = IF k <= from THEN s[k - 1] ELSE s[k]
        BY <2>2, <2>3, <2>4, <4>1
      <4> QED
        BY <3>1, <3>3, <4>2
    <3>4. k <= to \/ k > to
      BY <3>1
    <3> QED
      BY <3>2, <3>3, <3>4, Zenon
  <2> QED
    BY <2>1, <2>5
<1>11. c \o b = [k \in 1..n |-> IF k < to \/ k > from THEN s[k]
                                ELSE IF k = to THEN s[from] ELSE s[k - 1]]
  <2> DEFINE d == c \o b
             e == [k \in 1..n |-> IF k < to \/ k > from THEN s[k]
                                 ELSE IF k = to THEN s[from] ELSE s[k - 1]]
  <2>0. d \in Seq(S) /\ Len(d) = n
    BY <1>10
  <2>1. d \in [1..n -> S]
    <3> HIDE DEF d
    <3> QED
      BY <1>1, <2>0
  <2>2. \A k \in 1..n : d[k] = e[k]
    BY <1>10
  <2> QED
    BY <2>1, <2>2, Zenon
<1> QED
  BY <1>1, <1>5, <1>8, <1>11 DEF c

Positions == 1..Len(log)

\* The loop gave up.
GaveUp == at > Len(log) /\ limit = 0

\* Above `at`, everything was seen and nothing stands above a child of it.
PrefixOrdered ==
  /\ \A k \in 1..at - 1 : Item(k) \in seen
  /\ \A j, k \in 1..at - 1 : j < k => Item(j) \notin parents[Item(k)]

\* The loop's invariant.
FixTypes ==
  /\ Len(log) \in Nat /\ order \in [Positions -> Positions]
  /\ at \in 1..Len(log) + 1 /\ limit \in Nat

FixInv ==
  stage = "fix" =>
    /\ FixTypes
    /\ \A v \in Positions : \E k \in Positions : order[k] = v
    /\ GaveUp \/ PrefixOrdered
    /\ Ordered(log) => order = [k \in Positions |-> k]

\* The loop begins with the identity.
LEMMA BeginEstablishes == LoadTypes /\ Join => FixInv'
<1> SUFFICES ASSUME LoadTypes, Join PROVE FixInv'
  OBVIOUS
<1>1. Len(slots) \in Nat
  BY DEF LoadTypes
<1>2. log' = Sorted(slots) /\ Len(log') = Len(slots)
  BY <1>1 DEF Join, Begin, Sorted
<1>3. order' = [k \in Positions' |-> k] /\ at' = 1 /\ limit' = Len(log')
  BY <1>2 DEF Join, Begin, Positions
<1>4. FixTypes'
  BY <1>1, <1>2, <1>3 DEF FixTypes, Positions
<1>5. PrefixOrdered'
  BY <1>3 DEF PrefixOrdered
<1> QED
  BY <1>3, <1>4, <1>5 DEF FixInv

\* A commit without a parent above it stays.
LEMMA StayKeeps ==
  ASSUME FixInv, stage = "fix", FixStep, ParentsAbove = {}
  PROVE  FixInv'
<1>1. /\ stage' = stage /\ log' = log /\ parents' = parents /\ order' = order /\ limit' = limit
      /\ at' = at + 1 /\ at <= Len(log) /\ seen' = seen \cup {Item(at)}
  BY DEF FixStep
<1>2. FixTypes /\ FixTypes'
  <2>1. FixTypes
    BY DEF FixInv
  <2>2. at' \in 1..Len(log) + 1
    BY <1>1, <2>1 DEF FixTypes
  <2> QED
    BY <1>1, <2>1, <2>2 DEF FixTypes, Positions
<1>3. PrefixOrdered
  BY <1>1, <1>2 DEF FixInv, GaveUp, FixTypes
<1>4. \A k : Item(k)' = Item(k)
  BY <1>1 DEF Item
<1>5. \A j \in 1..at - 1 : Item(j) \notin parents[Item(at)]
  BY <1>3 DEF ParentsAbove, PrefixOrdered
<1>6. at' - 1 = at /\ at \in Nat
  BY <1>1, <1>2 DEF FixTypes
<1>7. PrefixOrdered'
  <2>1. \A k \in 1..at : Item(k) \in seen'
    BY <1>1, <1>3, <1>6 DEF PrefixOrdered
  <2>2. \A j, k \in 1..at : j < k => Item(j) \notin parents[Item(k)]
    BY <1>3, <1>5, <1>6 DEF PrefixOrdered
  <2> QED
    BY <1>1, <1>4, <1>6, <2>1, <2>2 DEF PrefixOrdered
<1> QED
  BY <1>1, <1>2, <1>7 DEF FixInv, Positions, Ordered

\* A commit below a parent of its own moves above the first of them.
LEMMA MoveKeeps ==
  ASSUME FixInv, stage = "fix", FixStep, ParentsAbove # {}
  PROVE  FixInv'
<1>1. PICK newpos :
      /\ newpos = CHOOSE k \in ParentsAbove : \A j \in ParentsAbove : k <= j
      /\ stage' = stage /\ log' = log /\ parents' = parents
      /\ at <= Len(log) /\ seen' = seen \cup {Item(at)}
      /\ \/ limit = 0 /\ at' = Len(log) + 1 /\ order' = order /\ limit' = limit
         \/ limit # 0 /\ order' = Moved(at, newpos) /\ at' = newpos + 1 /\ limit' = limit - 1
  BY DEF FixStep
<1>2. FixTypes /\ Len(log) \in Nat /\ at \in 1..Len(log) /\ limit \in Nat
      /\ order \in [1..Len(log) -> 1..Len(log)]
  <2>1. FixTypes
    BY DEF FixInv
  <2> QED
    BY <1>1, <2>1 DEF FixTypes, Positions
<1>3. PrefixOrdered
  BY <1>1, <1>2 DEF FixInv, GaveUp
<1>4. ParentsAbove \in SUBSET Nat
  BY <1>2 DEF ParentsAbove
<1>5. newpos \in ParentsAbove /\ \A j \in ParentsAbove : newpos <= j
  <2>1. \E k \in ParentsAbove : \A j \in ParentsAbove : k <= j
    BY <1>4, MinimumOfNat
  <2> QED
    BY <1>1, <2>1
<1>6. newpos \in 1..at - 1 /\ Item(newpos) \in parents[Item(at)]
  BY <1>5 DEF ParentsAbove
<1>7. ~ Ordered(log)
  <2>1. SUFFICES ASSUME Ordered(log) PROVE FALSE
    OBVIOUS
  <2>2. order = [k \in Positions |-> k]
    BY <2>1 DEF FixInv
  <2>3. Item(newpos) = log[newpos] /\ Item(at) = log[at]
    BY <1>2, <1>6, <2>2 DEF Item, Positions
  <2> QED
    BY <1>2, <1>6, <2>1, <2>3 DEF Ordered
<1>8. Ordered(log)' = Ordered(log)
  BY <1>1 DEF Ordered
<1>9. CASE limit = 0
  <2>1. log' = log /\ at' = Len(log) + 1 /\ order' = order /\ limit' = limit
    BY <1>1, <1>9
  <2>2. FixTypes'
    BY <1>2, <2>1 DEF FixTypes, Positions
  <2>3. GaveUp'
    BY <1>2, <1>9, <2>1 DEF GaveUp
  <2>4. \A v \in Positions' : \E k \in Positions' : order'[k] = v
    BY <2>1 DEF FixInv, Positions
  <2>5. ~ Ordered(log)'
    BY <1>7, <1>8
  <2> QED
    BY <2>2, <2>3, <2>4, <2>5 DEF FixInv
<1>10. CASE limit # 0
  <2>1. order' = Moved(at, newpos) /\ at' = newpos + 1 /\ limit' = limit - 1
    BY <1>1, <1>10
  <2>2. order' = [k \in 1..Len(log) |-> IF k < newpos \/ k > at THEN order[k]
                                        ELSE IF k = newpos THEN order[at] ELSE order[k - 1]]
    <3>1. order \in Seq(1..Len(log)) /\ DOMAIN order = 1..Len(log)
      BY <1>2
    <3>2. at \in DOMAIN order /\ newpos \in 1..at - 1
      BY <1>2, <1>6, <3>1
    <3>3. InsertAt(RemoveAt(order, at), newpos, order[at]) =
            [k \in DOMAIN order |-> IF k < newpos \/ k > at THEN order[k]
                                    ELSE IF k = newpos THEN order[at] ELSE order[k - 1]]
      BY <3>1, <3>2, MovedIs
    <3> QED
      BY <2>1, <3>1, <3>3 DEF Moved
  <2>3. FixTypes'
    <3>1. at' \in 1..Len(log) + 1 /\ limit' \in Nat
      BY <1>2, <1>6, <1>10, <2>1
    <3>2. order' \in [1..Len(log) -> 1..Len(log)]
      BY <1>2, <1>6, <2>2
    <3> QED
      BY <1>1, <1>2, <3>1, <3>2 DEF FixTypes, Positions
  <2>4. \A v \in Positions' : \E k \in Positions' : order'[k] = v
    <3>1. SUFFICES ASSUME NEW v \in 1..Len(log)
                   PROVE  \E k \in 1..Len(log) : order'[k] = v
      BY <1>1 DEF Positions
    <3>2. PICK k \in 1..Len(log) : order[k] = v
      BY DEF FixInv, Positions
    <3>3. CASE k < newpos \/ k > at
      BY <2>2, <3>2, <3>3
    <3>4. CASE k = at
      BY <1>2, <1>6, <2>2, <3>2, <3>4
    <3>5. CASE newpos <= k /\ k < at
      <4>1. k + 1 \in 1..Len(log) /\ ~(k + 1 < newpos \/ k + 1 > at) /\ k + 1 # newpos
        BY <1>2, <1>6, <3>2, <3>5
      <4>2. order'[k + 1] = order[k]
        BY <2>2, <4>1
      <4> QED
        BY <3>2, <4>1, <4>2
    <3> QED
      BY <1>2, <1>6, <3>2, <3>3, <3>4, <3>5
  <2>5. PrefixOrdered'
    <3>1. \A k \in 1..newpos - 1 : Item(k)' = Item(k)
      BY <1>1, <1>2, <1>6, <2>2 DEF Item
    <3>2. Item(newpos)' = Item(at)
      BY <1>1, <1>2, <1>6, <2>2 DEF Item
    <3>3. \A j \in 1..newpos - 1 : Item(j) \in seen /\ Item(j) \notin parents[Item(at)]
      <4>1. \A j \in 1..newpos - 1 : j \in 1..at - 1 /\ j \notin ParentsAbove
        BY <1>2, <1>5, <1>6
      <4> QED
        BY <1>3, <4>1 DEF PrefixOrdered, ParentsAbove
    <3>4. \A j, k \in 1..newpos - 1 : j < k => Item(j) \notin parents[Item(k)]
      BY <1>2, <1>3, <1>6 DEF PrefixOrdered
    <3>5. at' - 1 = newpos /\ newpos \in Nat
      BY <1>6, <2>1
    <3>6. \A k \in 1..newpos : Item(k)' \in seen'
      <4>1. \A k \in 1..newpos : k \in 1..newpos - 1 \/ k = newpos
        BY <3>5
      <4> QED
        BY <1>1, <3>1, <3>2, <3>3, <4>1
    <3>7. \A j, k \in 1..newpos : j < k => Item(j)' \notin parents[Item(k)']
      <4>1. \A j, k \in 1..newpos :
              j < k => j \in 1..newpos - 1 /\ (k \in 1..newpos - 1 \/ k = newpos)
        BY <3>5
      <4> QED
        BY <3>1, <3>2, <3>3, <3>4, <4>1
    <3> QED
      BY <1>1, <3>5, <3>6, <3>7 DEF PrefixOrdered
  <2> QED
    BY <1>1, <1>7, <1>8, <2>3, <2>4, <2>5 DEF FixInv
<1> QED
  BY <1>9, <1>10

\* The invariant of the loop holds in every reachable state.
THEOREM FixInvariant == Spec => []FixInv
<1>1. Init => FixInv
  BY DEF Init, FixInv
<1>2. LoadTypes /\ FixInv /\ [Next]_vars => FixInv'
  <2> SUFFICES ASSUME LoadTypes, FixInv, [Next]_vars PROVE FixInv'
    OBVIOUS
  <2>1. CASE Join
    BY <2>1, BeginEstablishes
  <2>2. CASE FixStep
    BY <2>2, StayKeeps, MoveKeeps DEF FixStep
  <2>3. CASE Copy
    BY <2>3 DEF Copy, FixInv
  <2>4. CASE (\E t \in Loaders : Loader(t)) \/ UNCHANGED vars
    <3>1. UNCHANGED fixing
      BY <2>4 DEF Loader, Take, Find, Load, Store, Place, vars, fixing
    <3> QED
      BY <3>1 DEF fixing, FixInv, FixTypes, Positions, GaveUp, PrefixOrdered, Item, Ordered
  <2> QED
    BY <2>1, <2>2, <2>3, <2>4 DEF Next
<1> QED
  BY RoomInvariant, <1>1, <1>2, PTL DEF Spec

\* For any number of commits and any history, the loop ends with a permutation of
\* the list that puts every commit above its parents, unless it gave up, and leaves a
\* list in order alone.
THEOREM OrderIsFixed == Spec => []OrderFixed
<1>1. FixInv => OrderFixed
  <2> SUFFICES ASSUME FixInv, stage = "fix", at > Len(log) PROVE OrderFixed
    BY DEF OrderFixed
  <2>1. Len(log) \in Nat /\ order \in [1..Len(log) -> 1..Len(log)] /\ at = Len(log) + 1
    BY DEF FixInv, FixTypes, Positions
  <2>2. ToSet(order) = 1..Len(log)
    <3>1. \A v \in 1..Len(log) : \E k \in 1..Len(log) : order[k] = v
      BY DEF FixInv, Positions
    <3>2. DOMAIN order = 1..Len(log) /\ \A k \in 1..Len(log) : order[k] \in 1..Len(log)
      BY <2>1
    <3> QED
      BY <3>1, <3>2, Zenon DEF ToSet
  <2>3. ASSUME limit > 0 PROVE Ordered([k \in 1..Len(log) |-> Item(k)])
    <3>1. PrefixOrdered
      BY <2>3 DEF FixInv, GaveUp
    <3>2. Len([k \in 1..Len(log) |-> Item(k)]) = Len(log)
      BY <2>1
    <3>3. \A j, k \in 1..Len(log) : j < k => Item(j) \notin parents[Item(k)]
      BY <2>1, <3>1 DEF PrefixOrdered
    <3> QED
      BY <3>2, <3>3 DEF Ordered
  <2>4. Ordered(log) => order = [k \in 1..Len(log) |-> k]
    BY DEF FixInv, Positions
  <2> QED
    BY <2>2, <2>3, <2>4 DEF OrderFixed
<1> QED
  BY FixInvariant, <1>1, PTL

-----------------------------------------------------------------------------
(* The positions that were loaded, sorted *)

\* The elements of S up to p; how many they are is the place of p among them.
UpTo(S, p) == {q \in S : q <= p}

\* A set of positions that is not empty has a last one.
LEMMA MaximumOfNat ==
  ASSUME NEW n \in Nat, NEW P \in SUBSET (1..n), P # {}
  PROVE  \E k \in P : \A j \in P : j <= k
<1> DEFINE Q == {n - j : j \in P}
<1>1. Q \in SUBSET Nat /\ Q # {}
  OBVIOUS
<1>2. PICK m \in Q : \A i \in Q : m <= i
  BY <1>1, MinimumOfNat
<1>3. PICK k \in P : m = n - k
  BY <1>2
<1>4. ASSUME NEW j \in P PROVE j <= k
  <2>1. n - j \in Q /\ j \in Nat /\ k \in Nat
    OBVIOUS
  <2>2. n - k <= n - j
    BY <1>2, <1>3, <2>1
  <2> QED
    BY <2>1, <2>2
<1> QED
  BY <1>4

\* Sets of positions are finite, and so is what they have up to an element.
LEMMA UpToFinite ==
  ASSUME NEW n \in Nat, NEW S \in SUBSET (1..n), NEW p
  PROVE  /\ IsFiniteSet(S) /\ Cardinality(S) \in Nat
         /\ IsFiniteSet(UpTo(S, p)) /\ Cardinality(UpTo(S, p)) \in Nat
         /\ Cardinality(UpTo(S, p)) <= Cardinality(S)
<1>1. 1 \in Int /\ n \in Int
  OBVIOUS
<1>2. IsFiniteSet(1..n)
  BY <1>1, FS_Interval
<1>3. IsFiniteSet(S)
  BY <1>2, FS_Subset
<1>4. UpTo(S, p) \in SUBSET S
  BY DEF UpTo
<1>5. IsFiniteSet(UpTo(S, p)) /\ Cardinality(UpTo(S, p)) <= Cardinality(S)
  BY <1>3, <1>4, FS_Subset
<1> QED
  BY <1>3, <1>5, FS_CardinalityType

\* A later position has a later place.
LEMMA PlaceGrows ==
  ASSUME NEW n \in Nat, NEW S \in SUBSET (1..n), NEW p \in S, NEW q \in S, p < q
  PROVE  Cardinality(UpTo(S, p)) < Cardinality(UpTo(S, q))
<1>1. IsFiniteSet(UpTo(S, q))
  BY UpToFinite
<1>2. UpTo(S, p) \in SUBSET UpTo(S, q)
  <2>1. S \subseteq Nat
    OBVIOUS
  <2>2. \A r \in S : r <= p => r <= q
    BY <2>1
  <2> QED
    BY <2>2 DEF UpTo
<1>3. q \in UpTo(S, q) /\ q \notin UpTo(S, p)
  BY DEF UpTo
<1>4. Cardinality(UpTo(S, p)) \in Nat /\ Cardinality(UpTo(S, q)) \in Nat
  BY UpToFinite
<1>5. /\ Cardinality(UpTo(S, p)) <= Cardinality(UpTo(S, q))
      /\ Cardinality(UpTo(S, q)) = Cardinality(UpTo(S, p)) => UpTo(S, q) = UpTo(S, p)
  BY <1>1, <1>2, FS_Subset
<1>6. UpTo(S, q) # UpTo(S, p)
  BY <1>3
<1> QED
  BY <1>4, <1>5, <1>6

\* The place of an element is one of the places there are.
LEMMA PlaceInRange ==
  ASSUME NEW n \in Nat, NEW S \in SUBSET (1..n), NEW p \in S
  PROVE  Cardinality(UpTo(S, p)) \in 1..Cardinality(S)
<1>1. /\ IsFiniteSet(UpTo(S, p)) /\ Cardinality(UpTo(S, p)) \in Nat /\ Cardinality(S) \in Nat
      /\ Cardinality(UpTo(S, p)) <= Cardinality(S)
  BY UpToFinite
<1>2. p \in UpTo(S, p)
  BY DEF UpTo
<1>3. Cardinality(UpTo(S, p)) # 0
  BY <1>1, <1>2, FS_EmptySet
<1> QED
  BY <1>1, <1>3

\* Every place is that of an element.
LEMMA PlaceTaken ==
  ASSUME NEW n \in Nat, NEW S \in SUBSET (1..n), NEW k \in 1..Cardinality(S)
  PROVE  \E p \in S : Cardinality(UpTo(S, p)) = k
<1>1. IsFiniteSet(S) /\ Cardinality(S) \in Nat /\ k \in Nat /\ k # 0
  BY UpToFinite
<1> DEFINE R == {p \in S : k <= Cardinality(UpTo(S, p))}
<1>2. R \in SUBSET Nat /\ S \subseteq Nat
  <2>1. S \subseteq Nat
    OBVIOUS
  <2> QED
    BY <2>1
<1>3. R # {}
  <2>1. S # {}
    BY <1>1, FS_EmptySet
  <2>2. PICK m \in S : \A j \in S : j <= m
    BY <2>1, MaximumOfNat
  <2>3. UpTo(S, m) = S
    BY <2>2 DEF UpTo
  <2> QED
    BY <1>1, <2>2, <2>3
<1>4. PICK p \in R : \A j \in R : p <= j
  BY <1>2, <1>3, MinimumOfNat
<1>5. p \in S /\ k <= Cardinality(UpTo(S, p)) /\ Cardinality(UpTo(S, p)) \in Nat
      /\ IsFiniteSet(UpTo(S, p)) /\ p \in UpTo(S, p)
  BY <1>4, UpToFinite DEF UpTo
<1> DEFINE B == UpTo(S, p) \ {p}
<1>6. IsFiniteSet(B) /\ Cardinality(B) = Cardinality(UpTo(S, p)) - 1
  BY <1>5, FS_RemoveElement
<1>7. Cardinality(B) < k
  <2>1. CASE B = {}
    <3>1. Cardinality(B) = 0
      BY <2>1, FS_EmptySet
    <3> QED
      BY <1>1, <3>1
  <2>2. CASE B # {}
    <3>1. B \in SUBSET (1..n)
      BY DEF UpTo
    <3> HIDE DEF B
    <3>2. PICK m \in B : \A j \in B : j <= m
      BY <2>2, <3>1, MaximumOfNat
    <3>3. m \in S /\ m < p /\ m \in Nat /\ p \in Nat
      BY <1>5 DEF B, UpTo
    <3>4. UpTo(S, m) = B
      <4>1. UpTo(S, m) \subseteq B
        <5>1. \A q \in S : q <= m => q <= p /\ q # p
          BY <1>2, <3>3
        <5> QED
          BY <5>1 DEF B, UpTo
      <4>2. B \subseteq UpTo(S, m)
        BY <3>2 DEF B, UpTo
      <4> QED
        BY <4>1, <4>2
    <3>5. m \notin R
      BY <1>4, <3>3
    <3>6. ~ (k <= Cardinality(UpTo(S, m)))
      BY <3>3, <3>5
    <3>7. Cardinality(UpTo(S, m)) \in Nat
      BY UpToFinite
    <3> QED
      BY <1>1, <3>4, <3>6, <3>7
  <2> QED
    BY <2>1, <2>2
<1>8. Cardinality(UpTo(S, p)) = k
  BY <1>1, <1>5, <1>6, <1>7
<1> QED
  BY <1>5, <1>8

\* Sorting distinct positions keeps them all and leaves them ascending.
LEMMA SortedIs ==
  ASSUME NEW n \in Nat, NEW s \in Seq(1..n),
         \A j, k \in 1..Len(s) : s[j] = s[k] => j = k
  PROVE  /\ Cardinality(ToSet(s)) = Len(s) /\ Len(Sorted(s)) = Len(s)
         /\ ToSet(Sorted(s)) = ToSet(s) /\ Sorted(s) \in Seq(1..n)
         /\ \A j, k \in 1..Len(s) : j < k => Sorted(s)[j] < Sorted(s)[k]
<1> DEFINE S == ToSet(s)
<1>1. Len(s) \in Nat /\ S = {s[k] : k \in 1..Len(s)}
  BY DEF ToSet
<1>2. S \in SUBSET (1..n) /\ S \subseteq Nat
  <2>1. S \in SUBSET (1..n)
    BY <1>1
  <2> QED
    BY <2>1
<1>3. Cardinality(S) = Len(s)
  <2>1. s \in Injection(1..Len(s), S)
    BY <1>1 DEF Injection, IsInjective
  <2>2. s \in Surjection(1..Len(s), S)
    BY <1>1 DEF Surjection
  <2>3. ExistsBijection(1..Len(s), S)
    BY <2>1, <2>2 DEF ExistsBijection, Bijection
  <2>4. 1 \in Int /\ Len(s) \in Int
    BY <1>1
  <2>5. IsFiniteSet(1..Len(s)) /\ Cardinality(1..Len(s)) = Len(s)
    <3>1. /\ IsFiniteSet(1..Len(s))
          /\ Cardinality(1..Len(s)) = IF 1 > Len(s) THEN 0 ELSE Len(s) - 1 + 1
      BY <2>4, FS_Interval
    <3>2. CASE Len(s) = 0
      BY <3>1, <3>2
    <3>3. CASE Len(s) # 0
      BY <1>1, <3>1, <3>3
    <3> QED
      BY <3>2, <3>3
  <2> QED
    BY <2>3, <2>5, FS_Bijection
<1> DEFINE Kth(k) == CHOOSE p \in S : Cardinality(UpTo(S, p)) = k
<1>4. Sorted(s) = [k \in 1..Len(s) |-> Kth(k)]
  BY DEF Sorted, UpTo
<1>5. ASSUME NEW k \in 1..Len(s)
      PROVE  Kth(k) \in S /\ Cardinality(UpTo(S, Kth(k))) = k
  <2>1. \E p \in S : Cardinality(UpTo(S, p)) = k
    BY <1>2, <1>3, PlaceTaken
  <2> QED
    BY <2>1
<1> HIDE DEF S, Kth
<1>6. Len(Sorted(s)) = Len(s)
  BY <1>1, <1>4
<1>7. \A k \in 1..Len(s) : Sorted(s)[k] = Kth(k)
  BY <1>4
<1>8. ASSUME NEW j \in 1..Len(s), NEW k \in 1..Len(s), j < k
      PROVE  Sorted(s)[j] < Sorted(s)[k]
  <2>1. Kth(j) \in S /\ Kth(k) \in S /\ Kth(j) \in Nat /\ Kth(k) \in Nat
    BY <1>2, <1>5
  <2>2. Kth(k) # Kth(j)
    <3>1. Cardinality(UpTo(S, Kth(j))) = j /\ Cardinality(UpTo(S, Kth(k))) = k
      BY <1>5
    <3>2. j # k
      BY <1>8
    <3> QED
      BY <3>1, <3>2
  <2>3. ~ (Kth(k) < Kth(j))
    <3>1. SUFFICES ASSUME Kth(k) < Kth(j) PROVE FALSE
      OBVIOUS
    <3>2. Cardinality(UpTo(S, Kth(k))) < Cardinality(UpTo(S, Kth(j)))
      BY <1>2, <2>1, <3>1, PlaceGrows
    <3>3. k < j
      BY <1>5, <3>2
    <3> QED
      BY <1>1, <1>8, <3>3
  <2>4. Kth(j) < Kth(k)
    BY <2>1, <2>2, <2>3
  <2> QED
    BY <1>7, <2>4
<1>9. ToSet(Sorted(s)) = {Kth(k) : k \in 1..Len(s)}
  BY <1>4 DEF ToSet
<1>10. {Kth(k) : k \in 1..Len(s)} \subseteq S
  BY <1>5
<1>11. ASSUME NEW p \in S PROVE p \in {Kth(k) : k \in 1..Len(s)}
  <2>1. Cardinality(UpTo(S, p)) \in 1..Len(s)
    BY <1>2, <1>3, PlaceInRange
  <2>2. PICK k \in 1..Len(s) : k = Cardinality(UpTo(S, p))
    BY <2>1
  <2>3. Kth(k) \in S /\ Cardinality(UpTo(S, Kth(k))) = k
    BY <1>5
  <2>4. ~ (Kth(k) < p)
    <3>1. SUFFICES ASSUME Kth(k) < p PROVE FALSE
      OBVIOUS
    <3>2. Cardinality(UpTo(S, Kth(k))) < Cardinality(UpTo(S, p))
      BY <1>2, <2>3, <3>1, PlaceGrows
    <3> QED
      BY <2>2, <2>3, <3>2
  <2>5. ~ (p < Kth(k))
    <3>1. SUFFICES ASSUME p < Kth(k) PROVE FALSE
      OBVIOUS
    <3>2. Cardinality(UpTo(S, p)) < Cardinality(UpTo(S, Kth(k)))
      BY <1>2, <2>3, <3>1, PlaceGrows
    <3> QED
      BY <2>2, <2>3, <3>2
  <2>6. p = Kth(k)
    <3>1. p \in Nat /\ Kth(k) \in Nat
      BY <1>2, <2>3
    <3> QED
      BY <2>4, <2>5, <3>1
  <2> QED
    BY <2>6
<1>12. Sorted(s) \in Seq(1..n)
  <2>1. Sorted(s) \in [1..Len(s) -> 1..n]
    BY <1>2, <1>4, <1>5
  <2> QED
    BY <1>1, <2>1
<1> QED
  BY <1>3, <1>6, <1>8, <1>9, <1>10, <1>11, <1>12 DEF S


-----------------------------------------------------------------------------
(* What the threads make of git's list *)

\* The positions a thread has taken and neither placed nor given up.
Holds(t) == loaders[t].pc \in {"find", "load", "store", "place"}

Loaded == ToSet(slots)

\* Every position that was taken is in one place: in a slot, with the commits that
\* could not be read, or in the hands of one thread; who is done found none left.
Accounted ==
  /\ unread \subseteq Commits /\ slots \in Seq(Commits)
  /\ \A c \in Commits : c <= in <=>
       c \in Loaded \/ c \in unread \/ \E t \in Loaders : Holds(t) /\ loaders[t].j = c
  /\ \A j, k \in 1..Len(slots) : slots[j] = slots[k] => j = k
  /\ Loaded \cap unread = {}
  /\ \A t \in Loaders : Holds(t) =>
       /\ loaders[t].j \in Commits \ (Loaded \cup unread)
       /\ \A u \in Loaders : Holds(u) /\ loaders[u].j = loaders[t].j => u = t
  /\ \A t \in Loaders : loaders[t].pc = "done" => in >= Count

\* Once the threads were joined, the log has what they could read.
LogOfAll ==
  /\ stage \in {"load", "fix", "done"}
  /\ stage # "load" =>
       /\ \A t \in Loaders : loaders[t].pc = "done"
       /\ log \in Seq(Commits)
       /\ Len(log) = Count - Cardinality(unread) /\ ToSet(log) = Commits \ unread
  /\ stage = "fix" => \A j, k \in 1..Len(log) : j < k => log[j] < log[k]

\* A slot more holds a position more.
LEMMA SlotAdded ==
  ASSUME NEW S, NEW s \in Seq(S), NEW c \in S, c \notin ToSet(s),
         \A j, k \in 1..Len(s) : s[j] = s[k] => j = k
  PROVE  /\ Append(s, c) \in Seq(S) /\ ToSet(Append(s, c)) = ToSet(s) \cup {c}
         /\ \A j, k \in 1..Len(Append(s, c)) : Append(s, c)[j] = Append(s, c)[k] => j = k
<1> DEFINE a == Append(s, c)
<1>1. /\ a \in Seq(S) /\ Len(a) = Len(s) + 1 /\ Len(s) \in Nat
      /\ a[Len(s) + 1] = c /\ \A k \in 1..Len(s) : a[k] = s[k]
  OBVIOUS
<1>2. /\ ToSet(s) = {s[k] : k \in 1..Len(s)}
      /\ ToSet(a) = {a[k] : k \in 1..Len(a)}
  BY <1>1 DEF ToSet
<1> HIDE DEF a
<1>3. \A k \in 1..Len(a) : k \in 1..Len(s) \/ k = Len(s) + 1
  BY <1>1
<1>4. 1..Len(s) \subseteq 1..Len(a) /\ Len(s) + 1 \in 1..Len(a)
  BY <1>1
<1>5. ToSet(a) = ToSet(s) \cup {c}
  <2>1. ToSet(a) \subseteq ToSet(s) \cup {c}
    BY <1>1, <1>2, <1>3
  <2>2. ToSet(s) \subseteq ToSet(a)
    BY <1>1, <1>2, <1>4
  <2>3. c \in ToSet(a)
    BY <1>1, <1>2, <1>4
  <2> QED
    BY <2>1, <2>2, <2>3
<1>6. \A k \in 1..Len(s) : a[k] # c
  BY <1>1, <1>2
<1>7. \A j, k \in 1..Len(a) : a[j] = a[k] => j = k
  BY <1>1, <1>3, <1>6
<1> QED
  BY <1>1, <1>5, <1>7 DEF a

\* The threads' positions in the initial state.
LEMMA AccountedInit == Init => Accounted /\ LogOfAll
<1> SUFFICES ASSUME Init PROVE Accounted /\ LogOfAll
  OBVIOUS
<1>1. Count \in Nat
  BY LogAssumption
<1>2. slots = <<>> /\ in = 0 /\ unread = {} /\ Loaded = {} /\ Len(slots) = 0
  BY DEF Init, Loaded, ToSet
<1>3. \A c \in Commits : ~ (c <= in)
  BY <1>1, <1>2 DEF Commits
<1>4. \A t \in Loaders : loaders[t].pc = "take" /\ ~ Holds(t)
  BY DEF Init, Holds
<1> QED
  BY <1>2, <1>3, <1>4 DEF Init, Accounted, LogOfAll

\* Whoever takes a position is the only one that has it.
LEMMA TakeAccounts ==
  ASSUME LoadTypes, Accounted, NEW t \in Loaders, Take(t)
  PROVE  Accounted'
<1>1. in \in Nat /\ Count \in Nat /\ in' = in + 1 /\ slots' = slots /\ unread' = unread
  BY LogAssumption DEF LoadTypes, Take
<1>2. Loaded' = Loaded
  BY <1>1 DEF Loaded
<1>3. \A u \in Loaders \ {t} : loaders'[u] = loaders[u]
  BY DEF Take, LoadTypes
<1>4. \A u \in Loaders \ {t} : (Holds(u)' <=> Holds(u)) /\ loaders'[u] = loaders[u]
  BY <1>3 DEF Holds
<1>5. ~ Holds(t)
  BY DEF Take, At, Holds
<1>6. CASE in >= Count
  <2>1. loaders'[t].pc = "done" /\ ~ Holds(t)'
    BY <1>6 DEF Take, LoadTypes, Holds
  <2>2. \A c \in Commits : c <= in <=> c <= in'
    BY <1>1, <1>6 DEF Commits
  <2>3. \A u \in Loaders : (Holds(u)' <=> Holds(u)) /\ (Holds(u) => loaders'[u] = loaders[u])
    BY <1>4, <1>5, <2>1
  <2>4. in' >= Count
    BY <1>1, <1>6
  <2> QED
    BY <1>1, <1>2, <1>3, <2>1, <2>2, <2>3, <2>4 DEF Accounted
<1>7. CASE ~ (in >= Count)
  <2>1. loaders'[t] = [pc |-> "find", j |-> in + 1] /\ Holds(t)'
    BY <1>7 DEF Take, LoadTypes, Holds
  <2>2. in + 1 \in Commits
    BY <1>1, <1>7 DEF Commits
  <2>3. \A c \in Commits : c <= in' <=> c <= in \/ c = in + 1
    BY <1>1 DEF Commits
  <2>4. ~ (in + 1 <= in)
    BY <1>1
  <2>5. in + 1 \notin Loaded /\ in + 1 \notin unread
        /\ \A u \in Loaders : Holds(u) => loaders[u].j # in + 1
    BY <2>2, <2>4 DEF Accounted
  <2>6. \A c \in Commits : c <= in' <=>
          c \in Loaded \/ c \in unread \/ \E u \in Loaders : Holds(u)' /\ loaders'[u].j = c
    <3>1. ASSUME NEW c \in Commits
          PROVE  (\E u \in Loaders : Holds(u)' /\ loaders'[u].j = c)
                 <=> (\E u \in Loaders : Holds(u) /\ loaders[u].j = c) \/ c = in + 1
      BY <1>4, <1>5, <2>1
    <3> QED
      BY <2>3, <3>1 DEF Accounted
  <2>7. \A u \in Loaders : Holds(u)' =>
          /\ loaders'[u].j \in Commits \ (Loaded \cup unread)
          /\ \A v \in Loaders : Holds(v)' /\ loaders'[v].j = loaders'[u].j => v = u
    <3>1. \A u \in Loaders \ {t} : Holds(u)' => Holds(u) /\ loaders'[u].j # in + 1
      BY <1>4, <2>5
    <3>2. loaders'[t].j = in + 1
      BY <2>1
    <3> QED
      BY <1>4, <2>2, <2>5, <3>1, <3>2 DEF Accounted
  <2>8. \A u \in Loaders : loaders'[u].pc = "done" => in' >= Count
    BY <1>1, <1>3, <2>1 DEF Accounted, Commits
  <2> QED
    BY <1>1, <1>2, <2>6, <2>7, <2>8 DEF Accounted
<1> QED
  BY <1>6, <1>7

\* Looking an object up, reading and storing it leave the positions where they are.
LEMMA StepAccounts ==
  ASSUME LoadTypes, Accounted, NEW t \in Loaders,
         \E pc \in {"load", "store", "place"} : Go(t, pc),
         Holds(t), slots' = slots, unread' = unread, in' = in
  PROVE  Accounted'
<1>1. loaders'[t].pc \in {"load", "store", "place"} /\ loaders'[t].j = loaders[t].j
  BY DEF Go, LoadTypes
<1>2. \A u \in Loaders \ {t} : loaders'[u] = loaders[u]
  BY DEF Go, LoadTypes
<1>3. \A u \in Loaders : /\ Holds(u)' <=> Holds(u)
                         /\ loaders'[u].j = loaders[u].j
                         /\ loaders'[u].pc = "done" => loaders[u].pc = "done"
  BY <1>1, <1>2 DEF Holds
<1>4. Loaded' = Loaded
  BY DEF Loaded
<1> QED
  BY <1>3, <1>4 DEF Accounted

\* A position that was placed or given up is still in one place.
LEMMA EndAccounts ==
  ASSUME LoadTypes, Accounted, NEW t \in Loaders, Holds(t), Go(t, "take"), in' = in,
         \/ slots' = Append(slots, loaders[t].j) /\ unread' = unread
         \/ unread' = unread \cup {loaders[t].j} /\ slots' = slots
  PROVE  Accounted'
<1> DEFINE c == loaders[t].j
<1>1. c \in Commits /\ c \notin Loaded /\ c \notin unread /\ slots \in Seq(Commits)
  BY DEF Accounted
<1>2. /\ slots' \in Seq(Commits) /\ unread' \subseteq Commits
      /\ \A j, k \in 1..Len(slots') : slots'[j] = slots'[k] => j = k
      /\ \/ Loaded' = Loaded \cup {c} /\ unread' = unread
         \/ Loaded' = Loaded /\ unread' = unread \cup {c}
  <2>1. CASE slots' = Append(slots, c) /\ unread' = unread
    <3>1. \A j, k \in 1..Len(slots) : slots[j] = slots[k] => j = k
      BY DEF Accounted
    <3>2. c \notin ToSet(slots)
      BY <1>1 DEF Loaded
    <3> HIDE DEF c
    <3>3. /\ Append(slots, c) \in Seq(Commits)
          /\ ToSet(Append(slots, c)) = ToSet(slots) \cup {c}
          /\ \A j, k \in 1..Len(Append(slots, c)) :
               Append(slots, c)[j] = Append(slots, c)[k] => j = k
      BY <1>1, <3>1, <3>2, SlotAdded
    <3> QED
      BY <2>1, <3>3 DEF Loaded, Accounted
  <2>2. CASE unread' = unread \cup {c} /\ slots' = slots
    BY <1>1, <2>2 DEF Loaded, Accounted
  <2> QED
    BY <2>1, <2>2
<1>3. /\ loaders'[t].pc = "take" /\ ~ Holds(t)'
      /\ \A u \in Loaders \ {t} : loaders'[u] = loaders[u]
  BY DEF Go, LoadTypes, Holds
<1>4. \A u \in Loaders \ {t} : (Holds(u)' <=> Holds(u)) /\ loaders'[u] = loaders[u]
  BY <1>3 DEF Holds
<1>5. \A u \in Loaders \ {t} : Holds(u) => loaders[u].j # c
  BY DEF Accounted
<1> HIDE DEF c
<1>6. \A d \in Commits : d <= in' <=>
        d \in Loaded' \/ d \in unread' \/ \E u \in Loaders : Holds(u)' /\ loaders'[u].j = d
  <2>1. \A d \in Commits : (\E u \in Loaders : Holds(u) /\ loaders[u].j = d)
          <=> (\E u \in Loaders : Holds(u)' /\ loaders'[u].j = d) \/ d = c
    BY <1>3, <1>4, <1>5 DEF c
  <2>2. \A d \in Commits : d <= in <=>
          d \in Loaded \/ d \in unread \/ \E u \in Loaders : Holds(u) /\ loaders[u].j = d
    BY DEF Accounted
  <2> QED
    BY <1>2, <2>1, <2>2
<1>7. \A u \in Loaders : Holds(u)' =>
        /\ loaders'[u].j \in Commits \ (Loaded' \cup unread')
        /\ \A v \in Loaders : Holds(v)' /\ loaders'[v].j = loaders'[u].j => v = u
  <2>1. \A u \in Loaders : Holds(u)' => u # t /\ Holds(u) /\ loaders'[u].j = loaders[u].j
    BY <1>3, <1>4
  <2>2. \A u \in Loaders : Holds(u) =>
          /\ loaders[u].j \in Commits \ (Loaded \cup unread)
          /\ \A v \in Loaders : Holds(v) /\ loaders[v].j = loaders[u].j => v = u
    BY DEF Accounted
  <2> QED
    BY <1>2, <1>5, <2>1, <2>2
<1>8. Loaded' \cap unread' = {}
  BY <1>1, <1>2 DEF Accounted
<1>9. \A u \in Loaders : loaders'[u].pc = "done" => in' >= Count
  BY <1>3 DEF Accounted
<1> QED
  BY <1>2, <1>6, <1>7, <1>8, <1>9 DEF Accounted

\* The positions are accounted for after every step of a thread.
LEMMA LoaderAccounts ==
  ASSUME LoadTypes, Accounted, NEW t \in Loaders, Loader(t)
  PROVE  Accounted'
<1>1. CASE Take(t)
  BY <1>1, TakeAccounts
<1>2. CASE Find(t)
  <2>1. Holds(t) /\ slots' = slots /\ unread' = unread /\ in' = in
    BY <1>2 DEF Find, At, Holds
  <2>2. Go(t, "load") \/ Go(t, "place")
    BY <1>2 DEF Find
  <2> QED
    BY <2>1, <2>2, StepAccounts
<1>3. CASE Load(t)
  <2>1. Holds(t) /\ slots' = slots /\ in' = in
    BY <1>3 DEF Load, At, Holds
  <2>2. \/ Go(t, "store") /\ unread' = unread
        \/ Go(t, "take") /\ unread' = unread \cup {loaders[t].j}
    BY <1>3 DEF Load
  <2> QED
    BY <2>1, <2>2, StepAccounts, EndAccounts
<1>4. CASE Store(t)
  <2>1. Holds(t) /\ slots' = slots /\ unread' = unread /\ in' = in /\ Go(t, "place")
    BY <1>4 DEF Store, At, Holds
  <2> QED
    BY <2>1, StepAccounts
<1>5. CASE Place(t)
  <2>1. Holds(t) /\ in' = in /\ Go(t, "take")
    BY <1>5 DEF Place, At, Holds
  <2>2. \/ slots' = Append(slots, loaders[t].j) /\ unread' = unread
        \/ unread' = unread \cup {loaders[t].j} /\ slots' = slots
    BY <1>5 DEF Place
  <2> QED
    BY <2>1, <2>2, EndAccounts
<1> QED
  BY <1>1, <1>2, <1>3, <1>4, <1>5 DEF Loader


\* Joining: nobody holds a position and every position was taken.
LEMMA JoinCompletes ==
  ASSUME LoadTypes, Accounted, LogOfAll, Join
  PROVE  LogOfAll'
<1>1. /\ \A t \in Loaders : loaders[t].pc = "done"
      /\ loaders' = loaders /\ unread' = unread /\ stage' = "fix" /\ log' = Sorted(slots)
  BY DEF Join, Joined, At, Begin, loading
<1>2. Loaders # {} /\ Count \in Nat /\ in \in Nat
  BY LogAssumption DEF LoadTypes
<1>3. in >= Count
  BY <1>1, <1>2 DEF Accounted
<1>4. \A c \in Commits : c <= in
  BY <1>2, <1>3 DEF Commits
<1>5. \A t \in Loaders : ~ Holds(t)
  BY <1>1 DEF Holds
<1>6. Loaded = Commits \ unread
  <2>1. Loaded \subseteq Commits
    BY DEF Loaded, ToSet, Accounted
  <2>2. \A c \in Commits : c \in Loaded \/ c \in unread
    BY <1>4, <1>5 DEF Accounted
  <2>3. Loaded \cap unread = {}
    BY DEF Accounted
  <2> QED
    BY <2>1, <2>2, <2>3
<1>7. slots \in Seq(1..Count) /\ \A j, k \in 1..Len(slots) : slots[j] = slots[k] => j = k
  BY DEF Accounted, Commits
<1>8. /\ Cardinality(ToSet(slots)) = Len(slots) /\ Len(Sorted(slots)) = Len(slots)
      /\ ToSet(Sorted(slots)) = ToSet(slots) /\ Sorted(slots) \in Seq(1..Count)
      /\ \A j, k \in 1..Len(slots) : j < k => Sorted(slots)[j] < Sorted(slots)[k]
  BY <1>2, <1>7, SortedIs
<1>9. Cardinality(Commits \ unread) = Count - Cardinality(unread)
  <2>1. 1 \in Int /\ Count \in Int
    BY <1>2
  <2>2. IsFiniteSet(1..Count) /\ Cardinality(1..Count) = IF 1 > Count THEN 0 ELSE Count - 1 + 1
    BY <2>1, FS_Interval
  <2>3. IsFiniteSet(Commits) /\ Cardinality(Commits) = Count
    BY <2>2, LogAssumption DEF Commits
  <2>4. Cardinality(Commits \ unread) = Cardinality(Commits) - Cardinality(Commits \cap unread)
    BY <2>3, FS_Difference
  <2>5. Commits \cap unread = unread
    BY DEF Accounted
  <2> QED
    BY <2>3, <2>4, <2>5
<1> QED
  BY <1>1, <1>6, <1>8, <1>9 DEF LogOfAll, Loaded, Commits

\* Copying by a permutation, even by one applied twice, keeps every commit.
LEMMA CopyCompletes ==
  ASSUME FixInv, LogOfAll, Copy
  PROVE  LogOfAll'
<1>1. /\ stage = "fix" /\ stage' = "done" /\ loaders' = loaders /\ unread' = unread
      /\ log' = [k \in 1..Len(log) |-> Item(order[k])]
  BY DEF Copy, loading
<1>2. /\ order \in [1..Len(log) -> 1..Len(log)] /\ Len(log) \in Nat
      /\ \A v \in 1..Len(log) : \E k \in 1..Len(log) : order[k] = v
  BY <1>1 DEF FixInv, FixTypes, Positions
<1>3. Len(log') = Len(log)
  BY <1>1, <1>2
<1>4. /\ ToSet(log) = {log[k] : k \in DOMAIN log}
      /\ ToSet(log') = {log[order[order[k]]] : k \in 1..Len(log)}
  BY <1>1 DEF ToSet, Item
<1>5. \A k \in 1..Len(log) : order[order[k]] \in 1..Len(log)
  BY <1>2
<1>6. \A v \in 1..Len(log) : \E k \in 1..Len(log) : order[order[k]] = v
  BY <1>2
<1>7. log \in Seq(Commits)
  BY <1>1 DEF LogOfAll
<1>8. DOMAIN log = 1..Len(log) /\ \A k \in 1..Len(log) : log[k] \in Commits
  BY <1>7
<1>9. ToSet(log') = ToSet(log)
  BY <1>4, <1>5, <1>6, <1>8
<1>10. log' \in Seq(Commits)
  <2>1. log' \in [1..Len(log) -> Commits]
    BY <1>1, <1>5, <1>8 DEF Item
  <2>2. ASSUME NEW n \in Nat, NEW f \in [1..n -> Commits] PROVE f \in Seq(Commits)
    OBVIOUS
  <2> QED
    BY <1>2, <2>1, <2>2
<1> QED
  BY <1>1, <1>3, <1>9, <1>10 DEF LogOfAll

\* Where every position is and what the log holds, in every reachable state.
LEMMA LogInvariant == Spec => [](Accounted /\ LogOfAll)
<1>1. LoadTypes /\ FixInv /\ Accounted /\ LogOfAll /\ [Next]_vars => Accounted' /\ LogOfAll'
  <2> SUFFICES ASSUME LoadTypes, FixInv, Accounted, LogOfAll, [Next]_vars
               PROVE  Accounted' /\ LogOfAll'
    OBVIOUS
  <2>1. CASE Join \/ FixStep \/ Copy \/ UNCHANGED vars
    <3>1. UNCHANGED loading
      BY <2>1 DEF Join, Begin, FixStep, Copy, vars, loading
    <3>2. Accounted'
      BY <3>1 DEF loading, Accounted, Holds, Loaded
    <3>3. CASE UNCHANGED vars \/ FixStep
      <4>1. UNCHANGED <<stage, loaders, log, unread>>
        BY <3>3 DEF FixStep, vars, loading
      <4> QED
        BY <3>2, <4>1 DEF LogOfAll
    <3> QED
      BY <2>1, <3>2, <3>3, JoinCompletes, CopyCompletes
  <2>2. CASE \E t \in Loaders : Loader(t)
    <3>1. PICK t \in Loaders : Loader(t)
      BY <2>2
    <3>2. loaders[t].pc # "done"
      BY <3>1 DEF Loader, Take, Find, Load, Store, Place, At
    <3>3. stage = "load"
      BY <3>2 DEF LogOfAll
    <3>4. stage' = stage
      BY <3>1 DEF Loader, Take, Find, Load, Store, Place, fixing
    <3>5. LogOfAll'
      BY <3>3, <3>4 DEF LogOfAll
    <3> QED
      BY <3>1, <3>5, LoaderAccounts
  <2> QED
    BY <2>1, <2>2 DEF Next
<1> QED
  BY RoomInvariant, FixInvariant, AccountedInit, <1>1, PTL DEF Spec

\* However many threads share the work, and whatever they cannot read: the log has
\* every commit that could be read, once, in git's order before that is fixed.
THEOREM LogIsComplete == Spec => []LogComplete
<1>1. LogOfAll => LogComplete
  BY DEF LogOfAll, LogComplete
<1> QED
  BY LogInvariant, <1>1, PTL

===============================================================================
