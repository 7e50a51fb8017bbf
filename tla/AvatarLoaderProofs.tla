------------------------- MODULE AvatarLoaderProofs -------------------------
(***************************************************************************)
(* What holds of the avatars for any set of addresses and any length of    *)
(* the list: the request the worker downloads stays in the list, no        *)
(* request waits for a sleeping worker, and the list exceeds its limit     *)
(* only by requests that are not finished.                                 *)
(***************************************************************************)
EXTENDS AvatarLoader, FiniteSetTheorems, SequenceTheorems, TLAPS

-----------------------------------------------------------------------------
(* The positions of a set. *)

\* How many elements of K are not above k.
Rank(K, k) == Cardinality({j \in K : j <= k})

\* A proper subset has fewer elements.
LEMMA Smaller ==
  ASSUME NEW S, IsFiniteSet(S), NEW T \in SUBSET S, NEW x \in S, x \notin T
  PROVE  Cardinality(T) < Cardinality(S)
<1>1. IsFiniteSet(T) /\ Cardinality(T) <= Cardinality(S) /\ Cardinality(T) # Cardinality(S)
  BY FS_Subset
<1>2. Cardinality(T) \in Nat /\ Cardinality(S) \in Nat
  BY <1>1, FS_CardinalityType
<1> QED
  BY <1>1, <1>2

\* Ranks are positive, at most the number of elements, and grow with the element.
LEMMA RankGrows ==
  ASSUME NEW n \in Nat, NEW K \in SUBSET (1..n)
  PROVE  /\ IsFiniteSet(K) /\ Cardinality(K) \in 0..n
         /\ \A k \in K : Rank(K, k) \in 1..Cardinality(K)
         /\ \A k, l \in K : k < l => Rank(K, k) < Rank(K, l)
<1> DEFINE upTo(k) == {j \in K : j <= k}
<1>1. IsFiniteSet(1..n) /\ Cardinality(1..n) = n
  BY FS_Interval
<1>2. IsFiniteSet(K) /\ Cardinality(K) <= n /\ Cardinality(K) \in Nat
  BY <1>1, FS_Subset, FS_CardinalityType
<1>3. ASSUME NEW k \in K
      PROVE  /\ IsFiniteSet(upTo(k)) /\ Cardinality(upTo(k)) \in 1..Cardinality(K)
  <2>1. upTo(k) \in SUBSET K /\ upTo(k) # {}
    OBVIOUS
  <2>2. IsFiniteSet(upTo(k)) /\ Cardinality(upTo(k)) <= Cardinality(K)
    BY <1>2, <2>1, FS_Subset
  <2>3. Cardinality(upTo(k)) \in Nat /\ Cardinality(upTo(k)) # 0
    BY <2>1, <2>2, FS_CardinalityType, FS_EmptySet
  <2> QED
    BY <1>2, <2>2, <2>3
<1>4. ASSUME NEW k \in K, NEW l \in K, k < l
      PROVE  Cardinality(upTo(k)) < Cardinality(upTo(l))
  <2>1. k \in Nat /\ l \in Nat /\ \A j \in K : j \in Nat
    OBVIOUS
  <2>2. l <= l /\ ~(l <= k) /\ \A j \in K : j <= k => j <= l
    BY <1>4, <2>1
  <2>4. upTo(k) \in SUBSET upTo(l) /\ l \in upTo(l) /\ l \notin upTo(k)
    BY <2>2
  <2>3. IsFiniteSet(upTo(l))
    BY <1>3
  <2> HIDE DEF upTo
  <2> QED
    BY <2>3, <2>4, Smaller
<1> QED
  BY <1>2, <1>3, <1>4 DEF Rank

\* Nth enumerates the set in increasing order.
LEMMA NthEnumerates ==
  ASSUME NEW n \in Nat, NEW K \in SUBSET (1..n)
  PROVE  /\ Cardinality(K) \in 0..n
         /\ \A i \in 1..Cardinality(K) : Nth(K, i) \in K /\ Rank(K, Nth(K, i)) = i
         /\ \A i, j \in 1..Cardinality(K) : i # j => Nth(K, i) # Nth(K, j)
         /\ \A k \in K : \E i \in 1..Cardinality(K) : Nth(K, i) = k
<1> DEFINE c == Cardinality(K)
           f == [k \in K |-> Rank(K, k)]
<1>1. /\ IsFiniteSet(K) /\ c \in 0..n
      /\ \A k \in K : Rank(K, k) \in 1..c
      /\ \A k, l \in K : k < l => Rank(K, k) < Rank(K, l)
  BY RankGrows
<1>2. \A k, l \in K : Rank(K, k) = Rank(K, l) => k = l
  BY <1>1
<1>3. f \in Injection(K, 1..c)
  BY <1>1, <1>2 DEF Injection, IsInjective
<1>4. IsFiniteSet(1..c) /\ Cardinality(1..c) = c
  BY <1>1, FS_Interval
<1>5. f \in Surjection(K, 1..c)
  BY <1>3, <1>4, FS_Injection
<1>6. \A i \in 1..c : \E k \in K : Rank(K, k) = i
  BY <1>5 DEF Surjection
<1>7. \A i \in 1..c : Nth(K, i) \in K /\ Rank(K, Nth(K, i)) = i
  BY <1>6 DEF Nth, Rank
<1>8. ASSUME NEW k \in K PROVE Rank(K, k) \in 1..c /\ Nth(K, Rank(K, k)) = k
  BY <1>1, <1>2, <1>7
<1> QED
  BY <1>1, <1>7, <1>8

\* A set of positions that is not empty has a last one.
LEMMA LastOf ==
  ASSUME NEW n \in Nat, NEW K \in SUBSET (1..n), K # {}
  PROVE  \E m \in K : \A k \in K : k <= m
<1> DEFINE c == Cardinality(K)
<1>1. /\ c \in Nat /\ c # 0
      /\ \A k \in K : Rank(K, k) \in 1..c
      /\ \A k, l \in K : k < l => Rank(K, k) < Rank(K, l)
  BY RankGrows, FS_EmptySet
<1>2. PICK m \in K : Rank(K, m) = c
  <2>1. c \in 1..c
    BY <1>1
  <2>2. Nth(K, c) \in K /\ Rank(K, Nth(K, c)) = c
    BY <2>1, NthEnumerates
  <2> QED
    BY <2>2
<1>3. \A k \in K : k <= m
  BY <1>1, <1>2
<1> QED
  BY <1>2, <1>3

-----------------------------------------------------------------------------
(* What fetch() does to the list. *)

\* No address is listed twice.
Distinct(s) == \A j, k \in 1..Len(s) : s[j].email = s[k].email => j = k

\* t is s in another order, without some of the finished requests.
Tidied(s, t) ==
  /\ t \in Seq(Item) /\ Distinct(t)
  /\ \A i \in 1..Len(t) : \E k \in 1..Len(s) : t[i] = s[k]
  /\ \A k \in 1..Len(s) : ~Finished(s[k]) => \E i \in 1..Len(t) : t[i] = s[k]

\* The removal takes finished requests only, and as many as asked for unless there
\* are none left.
LEMMA RemovalTidies ==
  ASSUME NEW s \in Seq(Item), Distinct(s), NEW n \in Nat
  PROVE  LET t == WithoutFinished(s, n)
         IN  /\ Tidied(s, t)
             /\ Len(t) \in 0..Len(s)
             /\ \/ Len(t) + n <= Len(s)
                \/ \A i \in 1..Len(t) : ~Finished(t[i])
<1> DEFINE Behind(k) == {j \in k+1..Len(s) : Finished(s[j])}
           K == {k \in 1..Len(s) : ~Finished(s[k]) \/ Cardinality(Behind(k)) >= n}
           c == Cardinality(K)
           t == [i \in 1..c |-> s[Nth(K, i)]]
<1>1. WithoutFinished(s, n) = t
  BY DEF WithoutFinished
<1>2. Len(s) \in Nat /\ \A k \in 1..Len(s) : s[k] \in Item
  BY LenProperties, ElementOfSeq
<1>3. K \in SUBSET (1..Len(s))
  OBVIOUS
<1>4. \A k \in 1..Len(s) : ~Finished(s[k]) => k \in K
  OBVIOUS
<1>5. /\ \A k \in K : ~Finished(s[k]) \/ Cardinality(Behind(k)) >= n
      /\ \A k \in (1..Len(s)) \ K : Finished(s[k])
  OBVIOUS
<1> HIDE DEF K
<1>6. /\ c \in 0..Len(s)
      /\ \A i \in 1..c : Nth(K, i) \in K
      /\ \A i, j \in 1..c : i # j => Nth(K, i) # Nth(K, j)
      /\ \A k \in K : \E i \in 1..c : Nth(K, i) = k
  BY <1>2, <1>3, NthEnumerates
<1> HIDE DEF c
<1>7. t \in Seq(Item) /\ Len(t) = c /\ \A i \in 1..c : t[i] = s[Nth(K, i)]
  <2>1. \A i \in 1..c : s[Nth(K, i)] \in Item
    BY <1>2, <1>3, <1>6
  <2> QED
    BY <1>6, <2>1
<1> HIDE DEF t
<1>8. Distinct(t)
  <2> SUFFICES ASSUME NEW i \in 1..c, NEW j \in 1..c, t[i].email = t[j].email
               PROVE  i = j
    BY <1>7 DEF Distinct
  <2>1. /\ Nth(K, i) \in 1..Len(s) /\ Nth(K, j) \in 1..Len(s)
        /\ s[Nth(K, i)].email = s[Nth(K, j)].email
    BY <1>3, <1>6, <1>7
  <2>2. Nth(K, i) = Nth(K, j)
    BY <2>1 DEF Distinct
  <2> QED
    BY <1>6, <2>2
<1>9. \A i \in 1..Len(t) : \E k \in 1..Len(s) : t[i] = s[k]
  BY <1>3, <1>6, <1>7
<1>10. \A k \in 1..Len(s) : ~Finished(s[k]) => \E i \in 1..Len(t) : t[i] = s[k]
  BY <1>4, <1>6, <1>7
<1>11. ASSUME NEW k \in K, Finished(s[k])
       PROVE  c + n <= Len(s)
  <2> DEFINE F == {l \in K : Finished(s[l])}
             D == (1..Len(s)) \ K
  <2>1. F \in SUBSET (1..Len(s)) /\ F # {}
    BY <1>3, <1>11
  <2>2. PICK m \in F : \A l \in F : l <= m
    BY <1>2, <2>1, LastOf
  <2>3. m \in 1..Len(s) /\ Cardinality(Behind(m)) >= n
    BY <1>3, <1>5, <2>2
  <2>4. Behind(m) \in SUBSET D
    <3> SUFFICES ASSUME NEW j \in Behind(m)
                 PROVE  j \in D
      OBVIOUS
    <3>1. j \in 1..Len(s) /\ Finished(s[j]) /\ ~(j <= m)
      BY <1>2, <2>3
    <3> QED
      BY <2>2, <3>1
  <2>5. IsFiniteSet(1..Len(s)) /\ Cardinality(1..Len(s)) = Len(s)
    <3>1. Len(s) \in Int /\ Len(s) >= 0 /\ 1 \in Int
      BY <1>2
    <3>2. /\ IsFiniteSet(1..Len(s))
          /\ Cardinality(1..Len(s)) = IF 1 > Len(s) THEN 0 ELSE Len(s) - 1 + 1
      BY <3>1, FS_Interval
    <3> QED
      BY <3>1, <3>2
  <2>6. IsFiniteSet(D) /\ Cardinality(D) = Len(s) - Cardinality((1..Len(s)) \cap K)
    BY <2>5, FS_Difference
  <2>7. (1..Len(s)) \cap K = K
    BY <1>3
  <2>8. IsFiniteSet(Behind(m)) /\ Cardinality(Behind(m)) <= Cardinality(D)
    BY <2>4, <2>6, FS_Subset
  <2>9. Cardinality(Behind(m)) \in Nat /\ Cardinality(D) \in Nat
    BY <2>6, <2>8, FS_CardinalityType
  <2>10. Cardinality(D) = Len(s) - c
    BY <2>6, <2>7 DEF c
  <2> HIDE DEF Behind, D
  <2> QED
    BY <1>2, <1>6, <2>3, <2>8, <2>9, <2>10
<1>12. c + n <= Len(s) \/ \A i \in 1..Len(t) : ~Finished(t[i])
  BY <1>6, <1>7, <1>11
<1> QED
  BY <1>1, <1>6, <1>7, <1>8, <1>9, <1>10, <1>12 DEF Tidied

\* A hit changes the order only.
LEMMA HitTidies ==
  ASSUME NEW s \in Seq(Item), Distinct(s), NEW k \in 1..Len(s)
  PROVE  /\ Tidied(s, <<s[k]>> \o RemoveAt(s, k))
         /\ Len(<<s[k]>> \o RemoveAt(s, k)) = Len(s)
<1> DEFINE n == Len(s)
           a == SubSeq(s, 1, k - 1)
           b == SubSeq(s, k + 1, n)
           r == a \o b
           f == <<s[k]>>
           t == f \o r
           From(i) == IF i = 1 THEN k ELSE IF i <= k THEN i - 1 ELSE i
           To(j) == IF j = k THEN 1 ELSE IF j < k THEN j + 1 ELSE j
<1>0. n \in Nat /\ k \in 1..n /\ \A i \in 1..n : s[i] \in Item
  BY LenProperties, ElementOfSeq
<1>1. a \in Seq(Item) /\ Len(a) = k - 1 /\ \A i \in 1..k-1 : a[i] = s[i]
  BY <1>0, SubSeqProperties
<1>2. b \in Seq(Item) /\ Len(b) = n - k /\ \A i \in 1..n-k : b[i] = s[k + i]
  <2>1. /\ b \in Seq(Item) /\ Len(b) = IF k + 1 <= n THEN n - (k + 1) + 1 ELSE 0
        /\ \A i \in 1..n-(k+1)+1 : b[i] = s[k + 1 + i - 1]
    BY <1>0, SubSeqProperties
  <2>2. n - (k + 1) + 1 = n - k /\ \A i \in 1..n-k : k + 1 + i - 1 = k + i
    BY <1>0
  <2> HIDE DEF b, n
  <2> QED
    BY <1>0, <2>1, <2>2
<1>3. f \in Seq(Item) /\ Len(f) = 1 /\ f[1] = s[k]
  BY <1>0
<1> HIDE DEF n, a, b, f
<1>4. r \in Seq(Item) /\ Len(r) = n - 1 /\ \A i \in 1..n-1 : r[i] = IF i < k THEN s[i] ELSE s[i + 1]
  <2>1. /\ r \in Seq(Item) /\ Len(r) = Len(a) + Len(b)
        /\ \A i \in 1..Len(a)+Len(b) : r[i] = IF i <= Len(a) THEN a[i] ELSE b[i - Len(a)]
    BY <1>1, <1>2, ConcatProperties
  <2>2. Len(a) + Len(b) = n - 1
    BY <1>0, <1>1, <1>2
  <2> HIDE DEF r
  <2>3. ASSUME NEW i \in 1..n-1 PROVE r[i] = IF i < k THEN s[i] ELSE s[i + 1]
    <3>1. CASE i < k
      <4>1. i \in 1..k-1 /\ i <= Len(a)
        BY <1>0, <1>1, <3>1
      <4> QED
        BY <1>1, <2>1, <2>2, <3>1, <4>1
    <3>2. CASE ~(i < k)
      <4>1. i - (k - 1) \in 1..n-k /\ k + (i - (k - 1)) = i + 1 /\ ~(i <= Len(a))
        BY <1>0, <1>1, <3>2
      <4>2. r[i] = b[i - (k - 1)]
        BY <1>1, <2>1, <2>2, <4>1
      <4>3. b[i - (k - 1)] = s[i + 1]
        BY <1>2, <4>1
      <4> QED
        BY <3>2, <4>2, <4>3
    <3> QED
      BY <3>1, <3>2
  <2> QED
    BY <2>1, <2>2, <2>3
<1> HIDE DEF r
<1>5. t \in Seq(Item) /\ Len(t) = n /\ \A i \in 1..n : t[i] = s[From(i)] /\ From(i) \in 1..n
  <2>1. /\ t \in Seq(Item) /\ Len(t) = 1 + Len(r)
        /\ \A i \in 1..1+Len(r) : t[i] = IF i <= 1 THEN f[i] ELSE r[i - 1]
    <3>1. /\ t \in Seq(Item) /\ Len(t) = Len(f) + Len(r)
          /\ \A i \in 1..Len(f)+Len(r) : t[i] = IF i <= Len(f) THEN f[i] ELSE r[i - Len(f)]
      <4>1. f \in Seq(Item) /\ r \in Seq(Item)
        BY <1>3, <1>4
      <4> QED
        BY <4>1, ConcatProperties
    <3> QED
      BY <1>3, <3>1
  <2>2. 1 + Len(r) = n
    BY <1>0, <1>4
  <2> HIDE DEF t
  <2>3. ASSUME NEW i \in 1..n PROVE t[i] = s[From(i)] /\ From(i) \in 1..n
    <3>1. CASE i = 1
      BY <1>0, <1>3, <2>1, <2>2, <3>1
    <3>2. CASE i # 1
      <4>1. /\ i - 1 \in 1..n-1 /\ ~(i <= 1) /\ i - 1 + 1 = i /\ From(i) \in 1..n
            /\ (i - 1 < k <=> i <= k)
        BY <1>0, <3>2
      <4>2. t[i] = r[i - 1]
        BY <2>1, <2>2, <4>1
      <4>3. r[i - 1] = IF i - 1 < k THEN s[i - 1] ELSE s[i - 1 + 1]
        BY <1>4, <4>1
      <4> QED
        BY <3>2, <4>1, <4>2, <4>3
    <3> QED
      BY <3>1, <3>2
  <2> QED
    BY <2>1, <2>2, <2>3
<1>6. \A j \in 1..n : To(j) \in 1..n /\ From(To(j)) = j
  BY <1>0
<1>7. \A i, j \in 1..n : From(i) = From(j) => i = j
  BY <1>0
<1>8. <<s[k]>> \o RemoveAt(s, k) = t
  BY DEF RemoveAt, t, f, r, a, b, n
<1> HIDE DEF From, To, t
<1>9. \A i, j \in 1..n : t[i].email = t[j].email => i = j
  <2>1. \A i, j \in 1..n : s[i].email = s[j].email => i = j
    BY DEF Distinct, n
  <2> SUFFICES ASSUME NEW i \in 1..n, NEW j \in 1..n, t[i].email = t[j].email
               PROVE  i = j
    OBVIOUS
  <2>2. From(i) \in 1..n /\ From(j) \in 1..n /\ s[From(i)].email = s[From(j)].email
    BY <1>5
  <2> QED
    BY <1>7, <2>1, <2>2
<1>10. \A j \in 1..n : \E i \in 1..n : t[i] = s[j]
  <2> SUFFICES ASSUME NEW j \in 1..n
               PROVE  \E i \in 1..n : t[i] = s[j]
    OBVIOUS
  <2>1. To(j) \in 1..n /\ From(To(j)) = j
    BY <1>6
  <2>2. t[To(j)] = s[j]
    BY <1>5, <2>1
  <2> QED
    BY <2>1, <2>2
<1>11. n = Len(s)
  BY DEF n
<1>12. Distinct(t)
  BY <1>5, <1>9 DEF Distinct
<1>13. Tidied(s, t)
  BY <1>5, <1>10, <1>11, <1>12 DEF Tidied
<1> QED
  BY <1>5, <1>8, <1>11, <1>13

-----------------------------------------------------------------------------
(* The invariant. *)

AtWork == wpc \in {"check", "fetch"}

\* The worker at work has a busy request of its address in the list; but for one
\* that a worker left when it was interrupted no other request is busy.
BusyOK ==
  /\ AtWork => \E k \in 1..Len(requests) :
                 requests[k].email = email /\ requests[k].state = "Busy"
  /\ wpc # "exited" => \A k \in 1..Len(requests) :
                         requests[k].state = "Busy" => AtWork /\ requests[k].email = email

Inv == TypeOK /\ BusyOK /\ NoLostRequest

\* A list with the requests that were not finished, in whatever order, will do for
\* a worker that does not move.
LEMMA TidiedKeeps ==
  ASSUME Inv, Tidied(requests, requests'), UNCHANGED <<wpc, email>>
  PROVE  BusyOK' /\ NoLostRequest'
<1>1. \A i \in 1..Len(requests') : \E k \in 1..Len(requests) : requests'[i] = requests[k]
  BY DEF Tidied
<1>2. \A k \in 1..Len(requests) :
        ~Finished(requests[k]) => \E i \in 1..Len(requests') : requests'[i] = requests[k]
  BY DEF Tidied
<1>3. NoLostRequest'
  BY <1>1 DEF Inv, NoLostRequest, Finished
<1>4. ASSUME AtWork
      PROVE  \E i \in 1..Len(requests') :
               requests'[i].email = email /\ requests'[i].state = "Busy"
  <2>1. PICK k \in 1..Len(requests) : requests[k].email = email /\ requests[k].state = "Busy"
    BY <1>4 DEF Inv, BusyOK
  <2>2. ~Finished(requests[k])
    BY <2>1 DEF Finished
  <2> QED
    BY <1>2, <2>1, <2>2
<1>5. wpc # "exited" => \A i \in 1..Len(requests') :
        requests'[i].state = "Busy" => AtWork /\ requests'[i].email = email
  BY <1>1 DEF Inv, BusyOK
<1> QED
  BY <1>3, <1>4, <1>5 DEF BusyOK, AtWork

\* Room is made for one more request unless only unfinished ones are left.
LEMMA RoomTidies ==
  ASSUME NEW s \in Seq(Item), Distinct(s)
  PROVE  LET t == MakeRoom(s)
         IN  /\ Tidied(s, t)
             /\ Len(t) \in Nat
             /\ Len(t) + 1 <= MAX_CACHE_COUNT \/ \A i \in 1..Len(t) : ~Finished(t[i])
<1>1. Len(s) \in Nat /\ MAX_CACHE_COUNT \in Nat \ {0}
  BY LenProperties, LoaderAssumption
<1>2. CASE Len(s) >= MAX_CACHE_COUNT
  <2> DEFINE n == Len(s) + 1 - MAX_CACHE_COUNT
             t == WithoutFinished(s, n)
  <2>1. n \in Nat
    BY <1>1, <1>2
  <2>2. MakeRoom(s) = t
    BY <1>2 DEF MakeRoom
  <2>3. /\ Tidied(s, t) /\ Len(t) \in 0..Len(s)
        /\ Len(t) + n <= Len(s) \/ \A i \in 1..Len(t) : ~Finished(t[i])
    <3> HIDE DEF n
    <3> QED
      BY <2>1, RemovalTidies
  <2> HIDE DEF t
  <2>4. Len(t) + n <= Len(s) => Len(t) + 1 <= MAX_CACHE_COUNT
    BY <1>1, <2>3
  <2> QED
    BY <1>1, <2>2, <2>3, <2>4
<1>3. CASE ~(Len(s) >= MAX_CACHE_COUNT)
  BY <1>1, <1>3 DEF MakeRoom, Tidied
<1> QED
  BY <1>2, <1>3

-----------------------------------------------------------------------------
(* The steps. *)

\* The types but for the list.
Rest ==
  /\ interrupted \in BOOLEAN
  /\ wpc \in WorkerPCs /\ email \in Emails
  /\ gui \in GuiPCs
  /\ visible \in SUBSET Emails /\ unpainted \in SUBSET Emails
  /\ ready \in BOOLEAN /\ repaint \in BOOLEAN /\ shown \in SUBSET Emails
  /\ scrolls \in 0..MaxScrolls

\* The types of the list and those of the rest.
LEMMA TypeParts ==
  /\ TypeOK <=> requests \in Seq(Item) /\ Distinct(requests) /\ Rest
  /\ TypeOK' <=> requests' \in Seq(Item) /\ Distinct(requests') /\ Rest'
  BY DEF TypeOK, Distinct, Rest

\* A step that leaves the list and the address alone, and the worker out of sleep.
LEMMA ListSame ==
  ASSUME Inv, UNCHANGED <<requests, email>>, Rest', wpc' = "wait" => wpc = "wait",
         AtWork' => AtWork, wpc' = "exited" \/ (wpc # "exited" /\ (AtWork' <=> AtWork))
  PROVE  Inv'
<1>1. TypeOK'
  BY TypeParts DEF Inv
<1> QED
  BY <1>1 DEF Inv, BusyOK, NoLostRequest

\* The worker marks a request, or has found none and may sleep.
LEMMA ScanKeeps == Inv /\ Scan => Inv'
<1> SUFFICES ASSUME Inv, Scan
             PROVE  Inv'
  OBVIOUS
<1>1. TypeOK /\ requests \in Seq(Item) /\ Distinct(requests) /\ Rest
  BY TypeParts DEF Inv
<1>2. \A k \in 1..Len(requests) : requests[k].state # "Busy"
  BY DEF Scan, Inv, BusyOK, AtWork
<1>3. ASSUME NEW k \in 1..Len(requests), requests[k].state = "Idle",
             requests' = [requests EXCEPT ![k].state = "Busy"],
             email' = requests[k].email, wpc' = "check"
      PROVE  Inv'
  <2> DEFINE r == [requests[k] EXCEPT !.state = "Busy"]
  <2>1. requests[k] \in Item
    BY <1>1, ElementOfSeq
  <2>2. r \in Item /\ r.email = requests[k].email /\ r.state = "Busy"
    BY <2>1 DEF Item
  <2>3. requests' = [requests EXCEPT ![k] = r]
    BY <1>3
  <2> HIDE DEF r
  <2>4. /\ requests' \in Seq(Item) /\ Len(requests') = Len(requests)
        /\ \A j \in 1..Len(requests) : requests'[j] = IF j = k THEN r ELSE requests[j]
    BY <1>1, <2>2, <2>3, ExceptSeq
  <2>5. Distinct(requests')
    BY <1>1, <2>2, <2>4 DEF Distinct
  <2>6. Rest'
    BY <1>1, <1>3, <2>1 DEF Scan, Rest, view, WorkerPCs, Item
  <2>7. BusyOK'
    BY <1>2, <1>3, <2>2, <2>4 DEF BusyOK, AtWork
  <2> QED
    BY <1>3, <2>4, <2>5, <2>6, <2>7, TypeParts DEF Inv, NoLostRequest
<1>4. CASE /\ \A k \in 1..Len(requests) : requests[k].state # "Idle"
           /\ wpc' = "wait"
           /\ UNCHANGED <<requests, email>>
  <2>1. \A k \in 1..Len(requests) : requests[k] \in Item
    BY <1>1, ElementOfSeq
  <2>2. \A k \in 1..Len(requests) : Finished(requests[k])
    BY <1>2, <1>4, <2>1 DEF Item, Finished
  <2>3. Rest'
    BY <1>1, <1>4 DEF Scan, Rest, view, WorkerPCs
  <2>4. TypeOK'
    BY <1>1, <1>4, <2>3, TypeParts
  <2> QED
    BY <1>2, <1>4, <2>2, <2>4 DEF Inv, BusyOK, AtWork, NoLostRequest
<1> QED
  BY <1>3, <1>4 DEF Scan

\* The result goes to the one request of its address, and then none is busy.
LEMMA FetchedKeeps == Inv /\ Fetched => Inv'
<1> SUFFICES ASSUME Inv, Fetched
             PROVE  Inv'
  OBVIOUS
<1>1. TypeOK /\ requests \in Seq(Item) /\ Distinct(requests) /\ Rest
  BY TypeParts DEF Inv
<1>2. PICK result \in {"Done", "Fail"} : requests' = WithResult(result)
  BY DEF Fetched, Store
<1>3. Len(requests) \in Nat /\ \A k \in 1..Len(requests) : requests[k] \in Item
  BY <1>1, LenProperties, ElementOfSeq
<1>4. ASSUME NEW r \in Item
      PROVE  /\ [r EXCEPT !.state = result] \in Item
             /\ [r EXCEPT !.state = result].email = r.email
             /\ [r EXCEPT !.state = result].state = result
  BY DEF Item
<1>5. /\ Len(requests') = Len(requests) /\ requests' \in Seq(Item)
      /\ \A k \in 1..Len(requests) :
           requests'[k] = IF requests[k].email = email
                          THEN [requests[k] EXCEPT !.state = result] ELSE requests[k]
  BY <1>2, <1>3, <1>4 DEF WithResult
<1>6. \A k \in 1..Len(requests) : /\ requests'[k].email = requests[k].email
                                  /\ requests'[k].state # "Busy"
  <2> SUFFICES ASSUME NEW k \in 1..Len(requests)
               PROVE  requests'[k].email = requests[k].email /\ requests'[k].state # "Busy"
    OBVIOUS
  <2>1. requests[k].state = "Busy" => requests[k].email = email
    BY DEF Fetched, Inv, BusyOK
  <2>2. CASE requests[k].email = email
    <3>1. requests[k] \in Item
      BY <1>3
    <3>2. requests'[k] = [requests[k] EXCEPT !.state = result]
      BY <1>5, <2>2
    <3>3. requests'[k].email = requests[k].email /\ requests'[k].state = result
      BY <1>4, <3>1, <3>2
    <3> QED
      BY <3>3
  <2>3. CASE requests[k].email # email
    BY <1>5, <2>1, <2>3
  <2> QED
    BY <2>2, <2>3
<1>7. Distinct(requests')
  BY <1>1, <1>5, <1>6 DEF Distinct
<1>8. wpc' \in {"emit", "top"} /\ Rest'
  BY <1>1 DEF Fetched, Rest, view, WorkerPCs
<1>9. TypeOK'
  BY <1>5, <1>7, <1>8, TypeParts
<1> QED
  BY <1>5, <1>6, <1>8, <1>9 DEF Inv, BusyOK, AtWork, NoLostRequest

\* A hit, whatever the worker does meanwhile.
LEMMA HitKeeps ==
  ASSUME Inv, NEW e, NEW k \in 1..Len(requests), Hit(e, k), UNCHANGED email, Rest'
  PROVE  Inv' /\ Len(requests') = Len(requests)
<1>1. TypeOK /\ requests \in Seq(Item) /\ Distinct(requests) /\ Rest
  BY TypeParts DEF Inv
<1>2. wpc' = wpc
  BY DEF Hit
<1>3. Tidied(requests, requests') /\ Len(requests') = Len(requests)
  <2>1. CASE requests' = <<requests[k]>> \o RemoveAt(requests, k)
    BY <1>1, <2>1, HitTidies
  <2>2. CASE requests' = requests
    BY <1>1, <2>2 DEF Tidied
  <2> QED
    BY <2>1, <2>2 DEF Hit
<1>4. TypeOK'
  BY <1>3, TypeParts DEF Tidied
<1>5. BusyOK' /\ NoLostRequest'
  BY <1>2, <1>3, TidiedKeeps
<1> QED
  BY <1>3, <1>4, <1>5 DEF Inv

\* A request that was not listed is put behind the others and wakes the worker.
LEMMA PushKeeps ==
  ASSUME Inv, NEW e \in Emails, ~Listed(e), Push(e), UNCHANGED email, Rest', MutexFree
  PROVE  /\ Inv'
         /\ \/ Len(requests') <= MAX_CACHE_COUNT
            \/ \A k \in 1..Len(requests') : ~Finished(requests'[k])
<1> DEFINE t == MakeRoom(requests)
           r == [email |-> e, state |-> "Idle"]
<1>1. TypeOK /\ requests \in Seq(Item) /\ Distinct(requests) /\ Rest
  BY TypeParts DEF Inv
<1>2. /\ Tidied(requests, t) /\ Len(t) \in Nat
      /\ Len(t) + 1 <= MAX_CACHE_COUNT \/ \A i \in 1..Len(t) : ~Finished(t[i])
  BY <1>1, RoomTidies
<1>3. r \in Item /\ r.email = e /\ r.state = "Idle" /\ ~Finished(r)
  BY DEF Item, Finished
<1>4. requests' = Append(t, r)
  BY DEF Push
<1> HIDE DEF t, r
<1>5. /\ requests' \in Seq(Item) /\ Len(requests') = Len(t) + 1
      /\ \A i \in 1..Len(t) : requests'[i] = t[i]
      /\ requests'[Len(t) + 1] = r
  BY <1>2, <1>3, <1>4, AppendProperties DEF Tidied
<1>6. /\ Distinct(t)
      /\ \A i \in 1..Len(t) : \E k \in 1..Len(requests) : t[i] = requests[k]
      /\ \A k \in 1..Len(requests) :
           ~Finished(requests[k]) => \E i \in 1..Len(t) : t[i] = requests[k]
  BY <1>2 DEF Tidied
<1>7. \A i \in 1..Len(t) : t[i].email # e
  BY <1>6 DEF Listed
<1>8. \A i \in 1..Len(requests') : i \in 1..Len(t) \/ i = Len(t) + 1
  BY <1>2, <1>5
<1>9. Distinct(requests')
  BY <1>3, <1>5, <1>6, <1>7, <1>8 DEF Distinct
<1>10. TypeOK'
  BY <1>5, <1>9, TypeParts
<1>11. wpc' = IF wpc = "wait" THEN "woken" ELSE wpc
  BY DEF Push
<1>12. AtWork' <=> AtWork
  BY <1>11 DEF AtWork
<1>13. ASSUME AtWork
       PROVE  \E i \in 1..Len(requests') :
                requests'[i].email = email /\ requests'[i].state = "Busy"
  <2>1. PICK k \in 1..Len(requests) : requests[k].email = email /\ requests[k].state = "Busy"
    BY <1>13 DEF Inv, BusyOK
  <2>2. PICK i \in 1..Len(t) : t[i] = requests[k]
    BY <1>6, <2>1 DEF Finished
  <2>3. i \in 1..Len(requests') /\ requests'[i] = t[i]
    BY <1>2, <1>5
  <2> QED
    BY <2>1, <2>2, <2>3
<1>14. ASSUME wpc' # "exited", NEW i \in 1..Len(requests'), requests'[i].state = "Busy"
       PROVE  AtWork /\ requests'[i].email = email
  <2>1. i \in 1..Len(t) /\ requests'[i] = t[i]
    BY <1>3, <1>5, <1>8, <1>14
  <2>2. PICK k \in 1..Len(requests) : t[i] = requests[k]
    BY <1>6, <2>1
  <2>3. wpc # "exited"
    BY <1>11, <1>14
  <2> QED
    BY <1>14, <2>1, <2>2, <2>3 DEF Inv, BusyOK
<1>15. BusyOK'
  BY <1>12, <1>13, <1>14 DEF BusyOK
<1>16. NoLostRequest'
  BY <1>11 DEF NoLostRequest
<1>17. \/ Len(requests') <= MAX_CACHE_COUNT
       \/ \A k \in 1..Len(requests') : ~Finished(requests'[k])
  BY <1>2, <1>3, <1>5, <1>8
<1> QED
  BY <1>10, <1>15, <1>16, <1>17 DEF Inv

\* Painting a row keeps the list in order and exceeds its limit only by requests that
\* are not finished.
LEMMA FetchKeeps ==
  ASSUME Inv, NEW e \in Emails, Fetch(e)
  PROVE  /\ Inv'
         /\ \/ Len(requests') <= Len(requests) \/ Len(requests') <= MAX_CACHE_COUNT
            \/ \A k \in 1..Len(requests') : ~Finished(requests'[k])
<1>1. Rest
  BY TypeParts DEF Inv
<1>2. wpc' \in WorkerPCs
  BY <1>1 DEF Fetch, Hit, Push, Rest, WorkerPCs
<1>3. Rest' /\ UNCHANGED email /\ MutexFree
  BY <1>1, <1>2 DEF Fetch, Rest
<1>4. CASE \E k \in 1..Len(requests) : Hit(e, k)
  <2>1. Inv' /\ Len(requests') = Len(requests)
    BY <1>3, <1>4, HitKeeps
  <2>2. Len(requests) \in Nat
    BY LenProperties DEF Inv, TypeOK
  <2> QED
    BY <2>1, <2>2
<1>5. CASE ~Listed(e) /\ Push(e)
  BY <1>3, <1>5, PushKeeps
<1> QED
  BY <1>4, <1>5 DEF Fetch

\* The GUI takes an answer: its request becomes the newest one.
LEMMA ReadyKeeps ==
  ASSUME Inv, NEW e \in Emails, OnAvatarReady(e)
  PROVE  Inv' /\ Len(requests') = Len(requests)
<1>1. Rest
  BY TypeParts DEF Inv
<1>2. wpc' = wpc
  BY DEF OnAvatarReady, Hit
<1>3. Rest' /\ UNCHANGED email
  BY <1>1, <1>2 DEF OnAvatarReady, Rest
<1>4. CASE \E k \in 1..Len(requests) : Hit(e, k)
  BY <1>3, <1>4, HitKeeps
<1>5. CASE UNCHANGED requests
  BY <1>2, <1>3, <1>5, ListSame DEF AtWork
<1> QED
  BY <1>4, <1>5 DEF OnAvatarReady

\* The steps that change no entry of the list.
LEMMA OthersKeep ==
  ASSUME Inv, \/ Top \/ Check \/ Woken \/ Emit \/ SpuriousWakeup \/ Paint \/ NotifyAll
              \/ Interrupt \/ (\E rows \in SUBSET Emails : Scroll(rows)) \/ UNCHANGED vars
  PROVE  Inv' /\ UNCHANGED requests
<1>1. Rest
  BY TypeParts DEF Inv
<1>2. CASE Top \/ Check \/ Woken \/ SpuriousWakeup
  <2>1. Rest'
    BY <1>1, <1>2 DEF Top, Check, Woken, SpuriousWakeup, Rest, view, WorkerPCs
  <2> QED
    BY <1>2, <2>1, ListSame DEF Top, Check, Woken, SpuriousWakeup, AtWork
<1>3. CASE Emit
  <2>1. Rest'
    BY <1>1, <1>3 DEF Emit, Rest, WorkerPCs
  <2> QED
    BY <1>3, <2>1, ListSame DEF Emit, AtWork
<1>4. CASE NotifyAll \/ Interrupt
  <2>1. Rest'
    BY <1>1, <1>4 DEF NotifyAll, Interrupt, Rest, view, WorkerPCs, GuiPCs
  <2> QED
    BY <1>4, <2>1, ListSame DEF NotifyAll, Interrupt, AtWork
<1>5. CASE Paint \/ UNCHANGED vars
  <2>1. Rest'
    BY <1>1, <1>5 DEF Paint, Rest, vars
  <2> QED
    BY <1>5, <2>1, ListSame DEF Paint, vars, AtWork
<1>6. ASSUME NEW rows \in SUBSET Emails, Scroll(rows)
      PROVE  Inv' /\ UNCHANGED requests
  <2>1. Rest'
    BY <1>1, <1>6, LoaderAssumption DEF Scroll, Rest
  <2> QED
    BY <1>6, <2>1, ListSame DEF Scroll, AtWork
<1> QED
  BY <1>2, <1>3, <1>4, <1>5, <1>6

\* The list is emptied after the worker has ended.
LEMMA JoinKeeps == Inv /\ Join => Inv' /\ requests' = <<>>
<1> SUFFICES ASSUME Inv, Join
             PROVE  Inv'
  BY DEF Join
<1>1. Rest'
  BY TypeParts DEF Inv, Join, Rest, GuiPCs
<1>2. requests' \in Seq(Item) /\ Len(requests') = 0
  BY EmptySeq DEF Join
<1>3. TypeOK'
  BY <1>1, <1>2, TypeParts DEF Distinct
<1> QED
  BY <1>2, <1>3 DEF Inv, Join, BusyOK, AtWork, NoLostRequest

\* The list is empty when the loader is made.
LEMMA InvInit == Init => Inv
<1> SUFFICES ASSUME Init
             PROVE  Inv
  OBVIOUS
<1>1. requests \in Seq(Item) /\ Len(requests) = 0
  BY EmptySeq DEF Init
<1>2. Rest
  <2>1. scrolls \in 0..MaxScrolls
    BY LoaderAssumption DEF Init
  <2> QED
    BY <2>1 DEF Init, Rest, WorkerPCs, GuiPCs
<1>3. TypeOK
  BY <1>1, <1>2, TypeParts DEF Distinct
<1> QED
  BY <1>1, <1>3 DEF Init, Inv, BusyOK, AtWork, NoLostRequest

\* The step of one actor: the list grows beyond its limit by unfinished requests only.
Grows ==
  Len(requests') > Len(requests) /\ Len(requests') > MAX_CACHE_COUNT
    => \A k \in 1..Len(requests') : ~Finished(requests'[k])

\* Every step keeps the invariant, and a step that lets the list exceed its limit
\* finds no finished request to drop.
LEMMA InvNext == Inv /\ [Next]_vars => Inv' /\ Grows
<1> SUFFICES ASSUME Inv, [Next]_vars
             PROVE  Inv' /\ Grows
  OBVIOUS
<1>0. Len(requests) \in Nat /\ MAX_CACHE_COUNT \in Nat
  BY LenProperties, LoaderAssumption DEF Inv, TypeOK
<1>1. CASE Scan
  <2>1. Len(requests') = Len(requests)
    BY <1>0, <1>1, LenProperties DEF Scan, Inv, TypeOK
  <2> QED
    BY <1>0, <1>1, <2>1, ScanKeeps DEF Grows
<1>2. CASE Fetched
  <2>1. Len(requests') = Len(requests)
    BY <1>0, <1>2 DEF Fetched, Store, WithResult
  <2> QED
    BY <1>0, <1>2, <2>1, FetchedKeeps DEF Grows
<1>3. ASSUME NEW e \in Emails, Fetch(e)
      PROVE  Inv' /\ Grows
  <2>1. Inv' /\ Len(requests') \in Nat
    BY <1>3, FetchKeeps, LenProperties DEF Inv, TypeOK
  <2> QED
    BY <1>0, <1>3, <2>1, FetchKeeps DEF Grows
<1>4. ASSUME NEW e \in Emails, OnAvatarReady(e)
      PROVE  Inv' /\ Grows
  BY <1>0, <1>4, ReadyKeeps DEF Grows
<1>5. CASE Join
  BY <1>0, <1>5, JoinKeeps, EmptySeq DEF Grows
<1>6. CASE \/ Top \/ Check \/ Woken \/ Emit \/ SpuriousWakeup \/ Paint \/ NotifyAll
           \/ Interrupt \/ (\E rows \in SUBSET Emails : Scroll(rows)) \/ UNCHANGED vars
  BY <1>0, <1>6, OthersKeep DEF Grows
<1> QED
  BY <1>1, <1>2, <1>3, <1>4, <1>5, <1>6 DEF Next, Worker, Gui, User, Done

\* Where the worker is fixes which request is marked, in every reachable state, for any
\* set of addresses and any limit of the list.
THEOREM InvHolds == Spec => []Inv
  BY InvInit, InvNext, PTL DEF Spec

\* The list of AvatarLoader holds each address at most once.
THEOREM TypeCorrect == Spec => []TypeOK
<1>1. Inv => TypeOK
  BY DEF Inv
<1> QED
  BY <1>1, InvHolds, PTL

\* Whatever fetch() moves to the front or removes while AvatarLoader::run downloads
\* outside the mutex, the entry of the download stays in the list, busy, and is the only
\* one: the result finds its place.
THEOREM RequestIsKept == Spec => []WorkerKeepsItsRequest
<1>1. ASSUME Inv PROVE WorkerKeepsItsRequest
  <2> SUFFICES ASSUME AtWork
               PROVE  /\ Cardinality({k \in 1..Len(requests) : requests[k].email = email}) = 1
                      /\ \A k \in 1..Len(requests) :
                           requests[k].email = email <=> requests[k].state = "Busy"
    BY DEF WorkerKeepsItsRequest, AtWork
  <2>1. PICK k \in 1..Len(requests) : requests[k].email = email /\ requests[k].state = "Busy"
    BY <1>1 DEF Inv, BusyOK
  <2>2. \A j \in 1..Len(requests) : requests[j].email = email => j = k
    BY <1>1, <2>1 DEF Inv, TypeOK
  <2>3. {j \in 1..Len(requests) : requests[j].email = email} = {k}
    BY <2>1, <2>2
  <2>4. \A j \in 1..Len(requests) : requests[j].email = email <=> requests[j].state = "Busy"
    BY <1>1, <2>1, <2>2 DEF Inv, BusyOK, AtWork
  <2> QED
    BY <2>3, <2>4, FS_Singleton
<1> QED
  BY <1>1, InvHolds, PTL

\* AvatarLoader::run never sleeps on a request, although it waits without a predicate.
THEOREM NoRequestSleeps == Spec => []NoLostRequest
<1>1. Inv => NoLostRequest
  BY DEF Inv
<1> QED
  BY <1>1, InvHolds, PTL

\* AvatarLoader::fetch makes the list exceed MAX_CACHE_COUNT only when it holds no
\* finished request that could be removed.
THEOREM LimitExceededByPending == Spec => OverLimitOnlyPending
<1>1. Grows <=> (Len(requests') > Len(requests) /\ Len(requests') > MAX_CACHE_COUNT
                  => \A k \in 1..Len(requests') : ~Finished(requests'[k]))
  BY DEF Grows
<1> QED
  BY <1>1, InvHolds, InvNext, PTL DEF Spec, OverLimitOnlyPending

\* Whoever joins the worker has set its flag, and nobody resets it.
FlagSet == gui \in {"interrupting", "joining"} => interrupted

\* A worker that is awake while it is joined does not go to wait again.
StaysAwake == gui = "joining" /\ wpc \notin {"scan", "wait"} => wpc' \notin {"scan", "wait"}

\* AvatarLoader::requestInterruption sets its flag without the mutex, and all the same only
\* a worker between its look at the flag and its wait, or in its wait, can be joined forever:
\* every other one ends before it waits again.
THEOREM ToldStaysAwake == Spec => [][StaysAwake]_vars
<1>1. Init => FlagSet
  BY DEF Init, FlagSet
<1>2. ASSUME FlagSet, [Next]_vars PROVE FlagSet' /\ StaysAwake
  <2>1. CASE Worker \/ SpuriousWakeup \/ UNCHANGED vars
    BY <1>2, <2>1 DEF Worker, Top, Scan, Check, Woken, Fetched, Emit, SpuriousWakeup, vars,
       view, FlagSet, StaysAwake
  <2>2. CASE Gui \/ User \/ Done
    <3>1. ASSUME NEW e \in Emails, Fetch(e) \/ OnAvatarReady(e)
          PROVE  gui = "loop" /\ UNCHANGED <<gui, interrupted>>
      BY <3>1 DEF Fetch, OnAvatarReady
    <3>2. CASE \E e \in Emails : Fetch(e) \/ OnAvatarReady(e)
      BY <1>2, <3>1, <3>2 DEF FlagSet, StaysAwake
    <3>3. CASE Paint \/ NotifyAll \/ Join \/ User \/ Done
      BY <1>2, <3>3 DEF Paint, NotifyAll, Join, User, Interrupt, Scroll, Done, vars, view,
         FlagSet, StaysAwake
    <3> QED
      BY <2>2, <3>2, <3>3 DEF Gui
  <2> QED
    BY <1>2, <2>1, <2>2 DEF Next
<1> QED
  BY <1>1, <1>2, PTL DEF Spec

=============================================================================
