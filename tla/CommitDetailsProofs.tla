------------------------ MODULE CommitDetailsProofs ------------------------
(***************************************************************************)
(* Proofs about CommitDetails, for every set of commits and every limit.   *)
(* Inv says how the request list, the cache and the worker agree whenever  *)
(* the mutex is free.                                                      *)
(***************************************************************************)
EXTENDS CommitDetails, TLAPS, SequenceTheorems, FiniteSetTheorems

-----------------------------------------------------------------------------
(* The list operations, element by element.                                *)

\* What ToBack returns.
LEMMA MovedBack ==
  ASSUME NEW s \in Seq(Request), NEW k \in 1..Len(s), NEW e \in Request
  PROVE  /\ ToBack(s, k, e) \in Seq(Request) /\ Len(ToBack(s, k, e)) = Len(s)
         /\ \A j \in 1..k-1 : ToBack(s, k, e)[j] = s[j]
         /\ \A j \in k..Len(s)-1 : ToBack(s, k, e)[j] = s[j + 1]
         /\ ToBack(s, k, e)[Len(s)] = e
<1> DEFINE a == SubSeq(s, 1, k - 1)
           b == SubSeq(s, k + 1, Len(s))
           c == a \o b
<1>0. Len(s) \in Nat /\ k \in 1..Len(s) /\ \A i \in 1..Len(s) : s[i] \in Request
  BY ElementOfSeq, LenProperties
<1>1. /\ a \in Seq(Request) /\ Len(a) = k - 1
      /\ \A i \in 1..k-1 : a[i] = s[i]
  BY <1>0, SubSeqProperties
<1>2. /\ b \in Seq(Request) /\ Len(b) = Len(s) - k
      /\ \A i \in 1..Len(s)-k : b[i] = s[k + i]
  <2>1. /\ b \in Seq(Request) /\ Len(b) = IF k + 1 <= Len(s) THEN Len(s) - (k + 1) + 1 ELSE 0
        /\ \A i \in 1..Len(s)-(k+1)+1 : b[i] = s[k + 1 + i - 1]
    BY <1>0, SubSeqProperties
  <2> QED
    BY <1>0, <2>1
<1>3. ToBack(s, k, e) = Append(c, e)
  BY DEF ToBack, RemoveAt
<1> HIDE DEF a, b
<1>4. c \in Seq(Request) /\ Len(c) = Len(a) + Len(b)
      /\ \A i \in 1..Len(a)+Len(b) : c[i] = IF i <= Len(a) THEN a[i] ELSE b[i - Len(a)]
  BY <1>1, <1>2, ConcatProperties
<1> HIDE DEF c
<1>5. /\ c \in Seq(Request) /\ Len(c) = Len(s) - 1
      /\ \A i \in 1..k-1 : c[i] = s[i]
      /\ \A i \in k..Len(s)-1 : c[i] = s[i + 1]
  <2>1. Len(a) + Len(b) = Len(s) - 1
    BY <1>0, <1>1, <1>2
  <2>2. \A i \in 1..k-1 : c[i] = s[i]
    BY <1>0, <1>1, <1>4, <2>1
  <2>3. \A i \in k..Len(s)-1 : c[i] = s[i + 1]
    <3> SUFFICES ASSUME NEW i \in k..Len(s)-1 PROVE c[i] = s[i + 1]
      OBVIOUS
    <3>1. i \in 1..Len(a)+Len(b) /\ ~(i <= Len(a))
      BY <1>0, <1>1, <2>1
    <3>2. c[i] = b[i - (k - 1)]
      BY <1>1, <1>4, <3>1
    <3>3. i - (k - 1) \in 1..Len(s)-k /\ k + (i - (k - 1)) = i + 1
      BY <1>0
    <3> QED
      BY <1>2, <3>2, <3>3
  <2> QED
    BY <1>4, <2>1, <2>2, <2>3
<1> QED
  BY <1>0, <1>3, <1>5

\* push_back followed by the erasure of the first n.
LEMMA Dropped ==
  ASSUME NEW S, NEW s \in Seq(S), NEW n \in 0..Len(s)
  PROVE  LET t == SubSeq(s, n + 1, Len(s)) IN
         /\ t \in Seq(S) /\ Len(t) = Len(s) - n
         /\ \A j \in 1..Len(s)-n : t[j] = s[j + n]
<1>1. \A i \in n+1..Len(s) : s[i] \in S
  BY ElementOfSeq, LenProperties
<1>2. n + 1 \in Int /\ Len(s) \in Int /\ n <= Len(s)
  BY LenProperties
<1>3. LET t == SubSeq(s, n + 1, Len(s)) IN
      /\ t \in Seq(S) /\ Len(t) = IF n + 1 <= Len(s) THEN Len(s) - (n + 1) + 1 ELSE 0
      /\ \A j \in 1..Len(s)-(n+1)+1 : t[j] = s[n + 1 + j - 1]
  BY <1>1, <1>2, SubSeqProperties
<1> QED
  BY <1>2, <1>3

\* What a new request is, and the fields of one.
LEMMA Requests ==
  /\ \A i \in Ids : /\ NewRequest(i) \in Request /\ NewRequest(i).id = i
                    /\ ~NewRequest(i).done /\ ~NewRequest(i).busy
                    /\ NewRequest(i).data = Unknown
  /\ \A r \in Request : /\ r.id \in Ids /\ r.done \in BOOLEAN /\ r.busy \in BOOLEAN
                        /\ r.data \in Data
  /\ \A d \in Data : d # Absent
  /\ Unknown \in Data /\ MAX \in Nat \ {0}
  BY GetterAssumption DEF NewRequest, Request, Data, Unknown

\* t has the requests of s, with e in the place of the k-th and no id twice.
Moved(s, k, e, t) ==
  /\ t \in Seq(Request) /\ Len(t) = Len(s) /\ Len(s) \in Nat
  /\ \A j, m \in 1..Len(s) : t[j].id = t[m].id => j = m
  /\ \A j \in 1..Len(s) : t[j] = e \/ (\E m \in 1..Len(s) : m # k /\ t[j] = s[m])
  /\ \A m \in 1..Len(s) : m # k => \E j \in 1..Len(s) : t[j] = s[m]
  /\ \E j \in 1..Len(s) : t[j] = e

\* What it returns when the moved request keeps its id.
LEMMA MovedRequests ==
  ASSUME NEW s \in Seq(Request), NEW k \in 1..Len(s), NEW e \in Request,
         e.id = s[k].id,
         \A j, m \in 1..Len(s) : s[j].id = s[m].id => j = m
  PROVE  Moved(s, k, e, ToBack(s, k, e))
<1> DEFINE t == ToBack(s, k, e)
           from(j) == IF j < k THEN j ELSE IF j < Len(s) THEN j + 1 ELSE k
<1>1. /\ t \in Seq(Request) /\ Len(t) = Len(s)
      /\ \A j \in 1..k-1 : t[j] = s[j]
      /\ \A j \in k..Len(s)-1 : t[j] = s[j + 1]
      /\ t[Len(s)] = e
  BY MovedBack
<1>2. Len(s) \in Nat /\ k \in 1..Len(s)
  BY LenProperties
<1> HIDE DEF t
<1>3. \A j \in 1..Len(s) : from(j) \in 1..Len(s) /\ t[j].id = s[from(j)].id
  BY <1>1, <1>2
<1>4. \A j, m \in 1..Len(s) : from(j) = from(m) => j = m
  BY <1>2
<1>5. \A j \in 1..Len(s) : t[j] = e \/ (from(j) # k /\ t[j] = s[from(j)])
  BY <1>1, <1>2
<1>6. t[Len(s)] = e /\ (Len(s) \in 1..Len(s))
  BY <1>1, <1>2
<1>7. \A m \in 1..Len(s) : m # k => \E j \in 1..Len(s) : from(j) = m
  <2> SUFFICES ASSUME NEW m \in 1..Len(s), m # k PROVE \E j \in 1..Len(s) : from(j) = m
    OBVIOUS
  <2>1. CASE m < k
    BY <1>2, <2>1
  <2>2. CASE m > k
    <3>1. m - 1 \in 1..Len(s) /\ from(m - 1) = m
      BY <1>2, <2>2
    <3> QED
      BY <3>1
  <2> QED
    BY <1>2, <2>1, <2>2
<1>8. \A m \in 1..Len(s) : m # k => \E j \in 1..Len(s) : from(j) = m /\ t[j] = s[m]
  BY <1>1, <1>2, <1>7
<1> HIDE DEF from
<1>9. \A j, m \in 1..Len(s) : t[j].id = t[m].id => j = m
  <2> SUFFICES ASSUME NEW j \in 1..Len(s), NEW m \in 1..Len(s), t[j].id = t[m].id PROVE j = m
    OBVIOUS
  <2>1. s[from(j)].id = s[from(m)].id
    BY <1>3
  <2>2. from(j) = from(m)
    BY <1>3, <2>1
  <2> QED
    BY <1>4, <2>2
<1>10. \A j \in 1..Len(s) : t[j] = e \/ (\E m \in 1..Len(s) : m # k /\ t[j] = s[m])
  BY <1>3, <1>5
<1> QED
  BY <1>1, <1>2, <1>6, <1>8, <1>9, <1>10 DEF t, Moved

-----------------------------------------------------------------------------
(* The worker and the view keep the invariant. *)

\* Nothing is asked for at first.
LEMMA InvInit == Init => Inv
<1> SUFFICES ASSUME Init PROVE Inv
  OBVIOUS
<1>1. {} \in Pages
  <2>1. Cardinality({}) = 0
    BY FS_EmptySet
  <2> QED
    BY <2>1, Requests DEF Pages
<1>2. requests \in Seq(Request) /\ Len(requests) = 0
  BY EmptySeq DEF Init
<1>3. item \in Request
  BY Requests DEF Init
<1>4. TypeOK
  <2>1. Len(requests) <= MAX /\ 0 \in Data /\ 0 \in 0..MaxScrolls
    BY <1>2, GetterAssumption DEF Data
  <2>2. cache \in [Ids -> Data \cup {Absent}] /\ shown \in [Ids -> Data]
    BY Requests DEF Init
  <2> QED
    BY <1>1, <1>2, <1>3, <2>1, <2>2 DEF Init, TypeOK, WorkerPCs
<1> QED
  BY <1>2, <1>4 DEF Init, Inv, ListOK, PhaseOK, BusyIsFetched, NoLostRequest, NothingStale

\* NextQuery marks the one request that the worker will finish.
LEMMA InvPick ==
  ASSUME Inv, wpc \in {"top", "woken"}, ~interrupted, NextQuery,
         UNCHANGED <<cache, interrupted, git, view>>
  PROVE  Inv'
<1>1. PICK k \in 1..Len(requests) :
        /\ IsIdle(requests[k])
        /\ requests' = [requests EXCEPT ![k].busy = TRUE]
        /\ item' = [requests[k] EXCEPT !.busy = TRUE]
        /\ wpc' = "run"
  BY DEF NextQuery
<1> DEFINE e == [requests[k] EXCEPT !.busy = TRUE]
<1>2. requests \in Seq(Request) /\ requests[k] \in Request
  BY ElementOfSeq DEF Inv, TypeOK
<1>3. /\ e \in Request /\ e.busy /\ ~e.done
      /\ e.id = requests[k].id /\ e.data = requests[k].data
  BY <1>1, <1>2 DEF Request, IsIdle
<1> HIDE DEF e
<1>4. requests' = [requests EXCEPT ![k] = e] /\ item' = e
  BY <1>1 DEF e
<1>5. /\ requests' \in Seq(Request) /\ Len(requests') = Len(requests)
      /\ \A j \in 1..Len(requests) : requests'[j] = IF j = k THEN e ELSE requests[j]
  <2>1. e \in Request
    BY <1>3
  <2> QED
    BY <1>2, <1>4, <2>1, ExceptSeq
<1>6. TypeOK'
  BY <1>1, <1>3, <1>4, <1>5 DEF Inv, TypeOK, WorkerPCs, view
<1>7. ListOK'
  <2>1. \A j \in 1..Len(requests) :
          /\ requests'[j].id = requests[j].id /\ requests'[j].data = requests[j].data
          /\ requests'[j].done <=> requests[j].done
          /\ requests[j].done => requests'[j] = requests[j]
    BY <1>1, <1>3, <1>5 DEF IsIdle
  <2>2. cache' = cache /\ Len(requests') = Len(requests)
    BY <1>5
  <2>3. ListOK
    BY DEF Inv
  <2> QED
    BY <2>1, <2>2, <2>3 DEF ListOK
<1>8. BusyIsFetched'
  <2>1. \A j \in 1..Len(requests) : ~requests[j].busy
    BY DEF Inv, BusyIsFetched
  <2>2. \A j \in 1..Len(requests') : requests'[j].busy => requests'[j] = e
    BY <1>5, <2>1
  <2> QED
    BY <1>1, <1>4, <2>2 DEF BusyIsFetched
<1> QED
  BY <1>1, <1>6, <1>7, <1>8 DEF Inv, PhaseOK, NoLostRequest, NothingStale, view

\* The worker looks for a request, sleeps, wakes up or reports.
LEMMA InvWorkerTop == Inv /\ (WorkerTop \/ WorkerWoken \/ SpuriousWakeup \/ Emit) => Inv'
<1> SUFFICES ASSUME Inv, WorkerTop \/ WorkerWoken \/ SpuriousWakeup \/ Emit PROVE Inv'
  OBVIOUS
<1>1. CASE ~interrupted /\ NextQuery /\ wpc \in {"top", "woken"}
           /\ UNCHANGED <<cache, interrupted, git, view>>
  BY <1>1, InvPick
<1>2. CASE /\ wpc' # "run"
           /\ UNCHANGED <<shared, item, gui, opened, visible, unpainted, shown, scrolls>>
  <2>1. \/ wpc' = "wait" /\ wpc = "top" /\ ~interrupted
           /\ \A k \in 1..Len(requests) : ~IsIdle(requests[k])
        \/ wpc' \in {"top", "woken", "exited"} /\ wpc # "run"
    BY <1>2 DEF WorkerTop, WorkerWoken, SpuriousWakeup, Emit, WorkerExit, NothingIdle,
                NextQuery
  <2>2. wpc' \in WorkerPCs /\ repaint' \in BOOLEAN
    BY <2>1 DEF Inv, TypeOK, WorkerPCs, WorkerTop, WorkerWoken, SpuriousWakeup, Emit, view
  <2>5. TypeOK'
    BY <1>2, <2>2 DEF Inv, TypeOK, shared
  <2>3. ListOK' /\ PhaseOK' /\ NothingStale'
    BY <1>2 DEF Inv, ListOK, PhaseOK, NothingStale, shared
  <2>4. BusyIsFetched' /\ NoLostRequest'
    BY <1>2, <2>1 DEF Inv, BusyIsFetched, NoLostRequest, shared, IsIdle
  <2> QED
    BY <2>5, <2>3, <2>4 DEF Inv
<1> QED
  BY <1>1, <1>2 DEF WorkerTop, WorkerWoken, SpuriousWakeup, Emit, WorkerExit, NothingIdle,
                    shared, view

\* git has answered the worker.
LEMMA InvFinish == Inv /\ WorkerFinish => Inv'
<1> SUFFICES ASSUME Inv, WorkerFinish PROVE Inv'
  OBVIOUS
<1>0. /\ UNCHANGED <<interrupted, git, item, view>> /\ wpc = "run"
      /\ requests \in Seq(Request) /\ item \in Request /\ git \in Data
  BY DEF Inv, TypeOK, WorkerFinish
<1>1. CASE interrupted /\ wpc' = "exited" /\ UNCHANGED <<requests, cache>>
  <2>1. Len(requests) = 0
    BY <1>1, EmptySeq DEF Inv, PhaseOK
  <2> QED
    BY <1>0, <1>1, <2>1 DEF Inv, TypeOK, ListOK, PhaseOK, BusyIsFetched, NoLostRequest,
                            NothingStale, WorkerPCs, view
<1>2. CASE /\ ~interrupted /\ wpc' = "top" /\ UNCHANGED <<requests, cache>>
           /\ \A k \in 1..Len(requests) : requests[k].id # item.id
  BY <1>0, <1>2 DEF Inv, TypeOK, ListOK, PhaseOK, BusyIsFetched, NoLostRequest,
                    NothingStale, WorkerPCs, view
<1>3. ASSUME ~interrupted, wpc' = "emit",
             NEW result \in {git, Unknown}, NEW k \in 1..Len(requests),
             requests[k].id = item.id, Finished(k, result)
      PROVE  Inv'
  <2> DEFINE e == [item EXCEPT !.done = TRUE, !.busy = FALSE, !.data = result]
  <2>1. result \in Data /\ result \in {Unknown, opened} /\ result # Absent
    BY <1>0, <1>3, Requests DEF Inv, PhaseOK
  <2>2. /\ e \in Request /\ e.done /\ ~e.busy /\ e.data = result
        /\ e.id = requests[k].id /\ e.id \in Ids
    BY <1>0, <1>3, <2>1 DEF Request
  <2>3. /\ requests' = ToBack(requests, k, e)
        /\ cache' = [cache EXCEPT ![e.id] = result]
    BY <1>0, <1>3 DEF Finished, Request
  <2> HIDE DEF e
  <2>4. /\ requests' \in Seq(Request) /\ Len(requests') = Len(requests) /\ Len(requests) \in Nat
        /\ \A j, m \in 1..Len(requests) : requests'[j].id = requests'[m].id => j = m
        /\ \A j \in 1..Len(requests) :
             requests'[j] = e \/ (\E m \in 1..Len(requests) : m # k /\ requests'[j] = requests[m])
        /\ \A m \in 1..Len(requests) :
             m # k => \E j \in 1..Len(requests) : requests'[j] = requests[m]
        /\ \E j \in 1..Len(requests) : requests'[j] = e
    <3>1. \A j, m \in 1..Len(requests) : requests[j].id = requests[m].id => j = m
      BY DEF Inv, ListOK
    <3>2. requests' = ToBack(requests, k, e) /\ e \in Request /\ e.id = requests[k].id
      BY <2>2, <2>3
    <3>3. Moved(requests, k, e, ToBack(requests, k, e))
      BY <1>0, <3>1, <3>2, MovedRequests
    <3>4. Moved(requests, k, e, requests')
      BY <3>2, <3>3, Zenon
    <3> QED
      BY <3>4, Zenon DEF Moved
  <2>6. cache \in [Ids -> Data \cup {Absent}]
    BY DEF Inv, TypeOK
  <2>7. \A x \in Ids : cache'[x] = IF x = e.id THEN result ELSE cache[x]
    BY <2>2, <2>3, <2>6
  <2>8. TypeOK'
    <3>1. cache' \in [Ids -> Data \cup {Absent}]
      BY <2>1, <2>2, <2>3, <2>6
    <3> QED
      BY <1>0, <1>3, <2>4, <3>1 DEF Inv, TypeOK, WorkerPCs, view
  <2>9. \A j \in 1..Len(requests) : j # k => requests[j].id # e.id /\ ~requests[j].busy
    <3>1. \A j \in 1..Len(requests) : j # k => requests[j].id # e.id
      BY <2>2 DEF Inv, ListOK
    <3> QED
      BY <1>3, <2>2, <3>1 DEF Inv, BusyIsFetched
  <2>11. ListOK'
    <3>1. \A j, m \in 1..Len(requests') : requests'[j].id = requests'[m].id => j = m
      BY <2>4
    <3>2. \A j \in 1..Len(requests') :
            LET r == requests'[j] IN
            /\ r.done => ~r.busy /\ cache'[r.id] = r.data
            /\ ~r.done => r.data = Unknown /\ cache'[r.id] = Absent
      <4>1. \A m \in 1..Len(requests) :
              /\ requests[m].id \in Ids
              /\ requests[m].done => cache[requests[m].id] = requests[m].data
              /\ ~requests[m].done => requests[m].data = Unknown /\ cache[requests[m].id] = Absent
        BY <1>0, ElementOfSeq, Requests DEF Inv, ListOK
      <4>2. \A m \in 1..Len(requests) : m # k => cache'[requests[m].id] = cache[requests[m].id]
        BY <2>7, <2>9, <4>1
      <4>3. cache'[e.id] = result
        BY <2>2, <2>7
      <4> SUFFICES ASSUME NEW j \in 1..Len(requests)
                   PROVE  LET r == requests'[j] IN
                          /\ r.done => ~r.busy /\ cache'[r.id] = r.data
                          /\ ~r.done => r.data = Unknown /\ cache'[r.id] = Absent
        BY <2>4
      <4>4. CASE requests'[j] = e
        BY <2>2, <4>3, <4>4
      <4>5. ASSUME NEW m \in 1..Len(requests), m # k, requests'[j] = requests[m]
            PROVE  LET r == requests'[j] IN
                   /\ r.done => ~r.busy /\ cache'[r.id] = r.data
                   /\ ~r.done => r.data = Unknown /\ cache'[r.id] = Absent
        BY <2>9, <4>1, <4>2, <4>5
      <4> QED
        BY <2>4, <4>4, <4>5
    <3>3. \A x \in Ids : cache'[x] # Absent => \E j \in 1..Len(requests') : requests'[j].id = x
      <4> SUFFICES ASSUME NEW x \in Ids, cache'[x] # Absent
                   PROVE  \E j \in 1..Len(requests') : requests'[j].id = x
        OBVIOUS
      <4>1. CASE x = e.id
        BY <2>4, <4>1
      <4>2. CASE x # e.id
        <5>1. PICK m \in 1..Len(requests) : requests[m].id = x
          BY <2>7, <4>2 DEF Inv, ListOK
        <5> QED
          BY <2>2, <2>4, <4>2, <5>1
      <4> QED
        BY <4>1, <4>2
    <3> QED
      BY <3>1, <3>2, <3>3 DEF ListOK
  <2>12. BusyIsFetched'
    <3>1. ASSUME NEW j \in 1..Len(requests) PROVE ~requests'[j].busy
      <4>1. CASE requests'[j] = e
        BY <2>2, <4>1
      <4>2. CASE \E m \in 1..Len(requests) : m # k /\ requests'[j] = requests[m]
        BY <2>9, <4>2
      <4> QED
        BY <2>4, <4>1, <4>2
    <3> QED
      BY <2>4, <3>1 DEF BusyIsFetched
  <2>13. NothingStale'
    BY <1>0, <2>1, <2>7 DEF Inv, NothingStale, view
  <2> QED
    BY <1>0, <1>3, <2>8, <2>11, <2>12, <2>13 DEF Inv, PhaseOK, NoLostRequest, view
<1> QED
  BY <1>1, <1>2, <1>3 DEF WorkerFinish

\* A page asks for one commit: known, asked for before, or new.
LEMMA InvQuery ==
  ASSUME Inv, NEW i \in Ids, Query(i)
  PROVE  Inv'
<1>0. /\ UNCHANGED <<interrupted, git, item, gui, opened, visible, repaint, scrolls>>
      /\ requests \in Seq(Request) /\ Len(requests) \in Nat
      /\ cache \in [Ids -> Data \cup {Absent}] /\ shown \in [Ids -> Data]
      /\ unpainted' \in SUBSET Ids /\ ~interrupted /\ opened \in Data
  BY LenProperties DEF Inv, TypeOK, PhaseOK, Query
<1>1. CASE /\ cache[i] # Absent /\ shown' = [shown EXCEPT ![i] = cache[i]]
           /\ UNCHANGED <<requests, cache, wpc>>
  <2>1. cache[i] \in Data /\ cache[i] \in {Unknown, opened}
    BY <1>0, <1>1 DEF Inv, NothingStale
  <2>2. shown' \in [Ids -> Data] /\ \A x \in Ids : shown'[x] \in {Unknown, opened}
    BY <1>0, <1>1, <2>1 DEF Inv, NothingStale
  <2> QED
    BY <1>0, <1>1, <2>2 DEF Inv, TypeOK, ListOK, PhaseOK, BusyIsFetched, NoLostRequest,
                            NothingStale
<1>2. ASSUME NEW k \in 1..Len(requests), cache[i] = Absent, requests[k].id = i,
             shown' = [shown EXCEPT ![i] = requests[k].data], Renew(k)
      PROVE  Inv'
  <2> DEFINE e == requests[k]
  <2>1. /\ e \in Request /\ ~e.done /\ e.data = Unknown /\ e.id = i
        /\ \A j, m \in 1..Len(requests) : requests[j].id = requests[m].id => j = m
    <3>1. e \in Request
      BY <1>0, ElementOfSeq
    <3>2. ~e.done
      BY <1>2, <3>1, Requests DEF Inv, ListOK
    <3> QED
      BY <1>2, <3>1, <3>2 DEF Inv, ListOK
  <2>2. requests' = ToBack(requests, k, e)
    BY <1>2 DEF Renew
  <2>0. cache' = cache /\ wpc' = wpc /\ shown' = [shown EXCEPT ![i] = Unknown]
    BY <1>2, <2>1 DEF Renew
  <2>3. Moved(requests, k, e, ToBack(requests, k, e))
    BY <1>0, <2>1, MovedRequests
  <2>4. /\ requests' \in Seq(Request) /\ Len(requests') = Len(requests)
        /\ \A j, m \in 1..Len(requests) : requests'[j].id = requests'[m].id => j = m
        /\ \A j \in 1..Len(requests) : \E m \in 1..Len(requests) : requests'[j] = requests[m]
        /\ \A m \in 1..Len(requests) : \E j \in 1..Len(requests) : requests'[j] = requests[m]
    BY <2>2, <2>3 DEF Moved
  <2> HIDE DEF e
  <2>5. TypeOK'
    <3>1. shown' \in [Ids -> Data]
      BY <1>0, <2>0, Requests
    <3> QED
      BY <1>0, <2>0, <2>4, <3>1 DEF Inv, TypeOK
  <2>6. ListOK'
    <3>1. \A m \in 1..Len(requests) :
            LET r == requests[m] IN
            /\ r.done => ~r.busy /\ cache[r.id] = r.data
            /\ ~r.done => r.data = Unknown /\ cache[r.id] = Absent
      BY DEF Inv, ListOK
    <3>2. \A x \in Ids : cache[x] # Absent => \E m \in 1..Len(requests) : requests[m].id = x
      BY DEF Inv, ListOK
    <3>3. ASSUME NEW j \in 1..Len(requests')
          PROVE  LET r == requests'[j] IN
                 /\ r.done => ~r.busy /\ cache'[r.id] = r.data
                 /\ ~r.done => r.data = Unknown /\ cache'[r.id] = Absent
      <4>1. PICK m \in 1..Len(requests) : requests'[j] = requests[m]
        BY <2>4
      <4> QED
        BY <2>0, <3>1, <4>1
    <3>4. ASSUME NEW x \in Ids, cache'[x] # Absent
          PROVE  \E j \in 1..Len(requests') : requests'[j].id = x
      <4>1. PICK m \in 1..Len(requests) : requests[m].id = x
        BY <2>0, <3>2, <3>4
      <4>2. PICK j \in 1..Len(requests) : requests'[j] = requests[m]
        BY <2>4
      <4> QED
        BY <2>4, <4>1, <4>2
    <3> QED
      BY <2>4, <3>3, <3>4 DEF ListOK
  <2>7. BusyIsFetched'
    <3>1. \A m \in 1..Len(requests) :
            requests[m].busy => wpc = "run" /\ item.id = requests[m].id
      BY DEF Inv, BusyIsFetched
    <3>2. item' = item
      BY <1>0
    <3>3. ASSUME NEW j \in 1..Len(requests'), requests'[j].busy
          PROVE  wpc' = "run" /\ item'.id = requests'[j].id
      <4>1. PICK m \in 1..Len(requests) : requests'[j] = requests[m]
        BY <2>4
      <4> QED
        BY <2>0, <3>1, <3>2, <3>3, <4>1
    <3> QED
      BY <3>3 DEF BusyIsFetched
  <2>8. NoLostRequest'
    <3>1. wpc # "wait"
      BY <2>1 DEF Inv, NoLostRequest, e
    <3> QED
      BY <2>0, <3>1 DEF NoLostRequest
  <2>9. NothingStale'
    BY <1>0, <2>0 DEF Inv, NothingStale
  <2> QED
    BY <1>0, <2>0, <2>5, <2>6, <2>7, <2>8, <2>9 DEF Inv, PhaseOK
<1>3. CASE /\ cache[i] = Absent /\ \A k \in 1..Len(requests) : requests[k].id # i
           /\ shown' = [shown EXCEPT ![i] = Unknown] /\ AddRequest(i)
  <2> DEFINE rs == Append(requests, NewRequest(i))
             n  == IF Len(rs) > MAX THEN Len(rs) - MAX ELSE 0
  <2>1. /\ rs \in Seq(Request) /\ Len(rs) = Len(requests) + 1
        /\ \A j \in 1..Len(requests) : rs[j] = requests[j]
        /\ rs[Len(requests) + 1] = NewRequest(i)
    BY <1>0, Requests
  <2>2. /\ requests' = SubSeq(rs, n + 1, Len(rs))
        /\ cache' = [x \in Ids |-> IF \E k \in 1..n : rs[k].id = x THEN Absent ELSE cache[x]]
        /\ wpc' = IF wpc = "wait" THEN "woken" ELSE wpc
    BY <1>3 DEF AddRequest, Trim, Notify
  <2> HIDE DEF rs
  <2>3. n \in 0..Len(rs) /\ Len(rs) - n <= MAX /\ Len(rs) \in Nat
    BY <1>0, <2>1, Requests
  <2> HIDE DEF n
  <2>4. /\ requests' \in Seq(Request) /\ Len(requests') = Len(rs) - n
        /\ \A j \in 1..Len(rs)-n : requests'[j] = rs[j + n]
    BY <2>1, <2>2, <2>3, Dropped
  <2>5. /\ \A j, m \in 1..Len(rs) : rs[j].id = rs[m].id => j = m
        /\ \A k \in 1..Len(rs) :
             /\ rs[k].id \in Ids
             /\ rs[k].done => ~rs[k].busy /\ cache[rs[k].id] = rs[k].data
             /\ ~rs[k].done => rs[k].data = Unknown /\ cache[rs[k].id] = Absent
             /\ rs[k].busy => wpc = "run" /\ item.id = rs[k].id
        /\ \A x \in Ids : cache[x] # Absent => \E k \in 1..Len(rs) : rs[k].id = x
    <3>1. \A j, m \in 1..Len(rs) : rs[j].id = rs[m].id => j = m
      <4>1. \A j \in 1..Len(rs) :
              \/ j \in 1..Len(requests) /\ rs[j].id = requests[j].id /\ rs[j].id # i
              \/ j = Len(requests) + 1 /\ rs[j].id = i
        BY <1>0, <1>3, <2>1, Requests
      <4>2. \A j, m \in 1..Len(requests) : requests[j].id = requests[m].id => j = m
        BY DEF Inv, ListOK
      <4> HIDE DEF n
      <4> QED
        BY <4>1, <4>2
    <3>2. \A k \in 1..Len(requests) :
             /\ rs[k].id \in Ids
             /\ rs[k].done => ~rs[k].busy /\ cache[rs[k].id] = rs[k].data
             /\ ~rs[k].done => rs[k].data = Unknown /\ cache[rs[k].id] = Absent
             /\ rs[k].busy => wpc = "run" /\ item.id = rs[k].id
      BY <1>0, <2>1, ElementOfSeq, Requests DEF Inv, ListOK, BusyIsFetched
    <3>3. \A k \in 1..Len(rs) : k \in 1..Len(requests) \/ rs[k] = NewRequest(i)
      BY <1>0, <2>1
    <3>4. \A x \in Ids : cache[x] # Absent => \E k \in 1..Len(rs) : rs[k].id = x
      BY <1>0, <2>1 DEF Inv, ListOK
    <3> QED
      BY <1>3, <3>1, <3>2, <3>3, <3>4, Requests
  <2>6. /\ cache' \in [Ids -> Data \cup {Absent}]
        /\ \A x \in Ids : cache'[x] = Absent \/ cache'[x] = cache[x]
        /\ \A j \in 1..Len(requests') : cache'[requests'[j].id] = cache[requests'[j].id]
    <3>1. \A x \in Ids : cache'[x] = Absent \/ cache'[x] = cache[x]
      BY <2>2
    <3>2. cache' \in [Ids -> Data \cup {Absent}]
      BY <1>0, <2>2
    <3>3. ASSUME NEW j \in 1..Len(requests')
          PROVE  cache'[requests'[j].id] = cache[requests'[j].id]
      <4>1. j + n \in 1..Len(rs) /\ requests'[j] = rs[j + n] /\ \A k \in 1..n : k # j + n
        BY <2>3, <2>4
      <4>2. \A k \in 1..n : rs[k].id # rs[j + n].id
        BY <2>3, <2>5, <4>1
      <4>3. rs[j + n].id \in Ids /\ ~\E k \in 1..n : rs[k].id = rs[j + n].id
        BY <2>5, <4>1, <4>2
      <4>4. cache'[rs[j + n].id] = cache[rs[j + n].id]
        BY <2>2, <4>3
      <4> QED
        BY <4>1, <4>4
    <3> QED
      BY <3>1, <3>2, <3>3
  <2>7. \A j \in 1..Len(requests') : j + n \in 1..Len(rs) /\ requests'[j] = rs[j + n]
    BY <2>3, <2>4
  <2>8. ListOK'
    <3>1. \A j, m \in 1..Len(requests') : requests'[j].id = requests'[m].id => j = m
      <4> SUFFICES ASSUME NEW j \in 1..Len(requests'), NEW m \in 1..Len(requests'),
                          requests'[j].id = requests'[m].id
                   PROVE  j = m
        OBVIOUS
      <4>1. j + n = m + n
        BY <2>5, <2>7
      <4> QED
        BY <2>3, <2>4, <4>1
    <3>2. \A j \in 1..Len(requests') :
            LET r == requests'[j] IN
            /\ r.done => ~r.busy /\ cache'[r.id] = r.data
            /\ ~r.done => r.data = Unknown /\ cache'[r.id] = Absent
      BY <2>5, <2>6, <2>7
    <3>3. ASSUME NEW x \in Ids, cache'[x] # Absent
          PROVE  \E j \in 1..Len(requests') : requests'[j].id = x
      <4>1. cache[x] # Absent /\ ~\E k \in 1..n : rs[k].id = x
        BY <2>2, <3>3
      <4>2. PICK k \in 1..Len(rs) : rs[k].id = x
        BY <2>5, <4>1
      <4>3. k - n \in 1..Len(requests') /\ requests'[k - n] = rs[k]
        BY <2>3, <2>4, <4>1, <4>2
      <4> QED
        BY <4>2, <4>3
    <3> QED
      BY <3>1, <3>2, <3>3 DEF ListOK
  <2>9. wpc' # "wait" /\ wpc' \in WorkerPCs /\ (wpc = "run" => wpc' = "run")
    BY <2>2 DEF Inv, TypeOK, WorkerPCs
  <2>10. TypeOK'
    <3>1. shown' \in [Ids -> Data]
      BY <1>0, <1>3, Requests
    <3> QED
      BY <1>0, <2>3, <2>4, <2>6, <2>9, <3>1 DEF Inv, TypeOK
  <2>11. BusyIsFetched' /\ NoLostRequest'
    BY <1>0, <2>5, <2>7, <2>9 DEF BusyIsFetched, NoLostRequest
  <2>12. NothingStale'
    BY <1>0, <1>3, <2>6 DEF Inv, NothingStale
  <2> QED
    BY <1>0, <2>8, <2>10, <2>11, <2>12 DEF Inv, PhaseOK
<1> QED
  BY <1>1, <1>2, <1>3 DEF Query

\* The view paints, a repository is opened, the user scrolls.
LEMMA InvView == Inv /\ (Paint \/ Start \/ User) => Inv'
<1> SUFFICES ASSUME Inv, Paint \/ Start \/ User PROVE Inv'
  OBVIOUS
<1> USE DEF Inv
<1>1. CASE Paint
  <2>1. unpainted' \in SUBSET Ids
    BY <1>1 DEF Paint, TypeOK, Pages
  <2> QED
    BY <1>1, <2>1 DEF Paint, TypeOK, ListOK, PhaseOK, BusyIsFetched, NoLostRequest,
                      NothingStale, shared, worker
<1>2. CASE Start
  <2>1. Len(requests) = 0
    BY <1>2, EmptySeq DEF Start, PhaseOK
  <2>2. TypeOK'
    BY <1>2 DEF Start, TypeOK, WorkerPCs
  <2> QED
    BY <1>2, <2>1, <2>2 DEF Start, ListOK, PhaseOK, BusyIsFetched, NoLostRequest,
                            NothingStale
<1>3. ASSUME NEW rows \in Pages, Scroll(rows) PROVE Inv'
  <2>1. scrolls + 1 \in 0..MaxScrolls
    BY <1>3, GetterAssumption DEF Scroll, TypeOK
  <2> QED
    BY <1>3, <2>1 DEF Scroll, TypeOK, ListOK, PhaseOK, BusyIsFetched, NoLostRequest,
                      NothingStale, shared, worker
<1>4. ASSUME NEW rows \in Pages, Open(rows) PROVE Inv'
  <2>1. /\ requests' = <<>> /\ Len(requests') = 0 /\ requests' \in Seq(Request)
        /\ interrupted' /\ gui' = "joining" /\ UNCHANGED <<git, item, unpainted, scrolls>>
    BY <1>4, EmptySeq DEF Open, Stop
  <2>2. opened + 1 \in Data
    BY <1>4, GetterAssumption DEF Open, TypeOK, Data
  <2>3. /\ \A i \in Ids : cache'[i] = Absent /\ shown'[i] = Unknown
        /\ cache' \in [Ids -> Data \cup {Absent}] /\ shown' \in [Ids -> Data]
    BY <1>4, Requests DEF Open, Stop
  <2>4. wpc' \in WorkerPCs /\ wpc' # "wait"
    BY <1>4 DEF Open, Stop, Notify, TypeOK, WorkerPCs
  <2>5. TypeOK'
    <3>1. Len(requests') <= MAX
      BY <2>1, Requests
    <3>2. opened' \in Data /\ visible' \in Pages /\ repaint' \in BOOLEAN /\ interrupted' \in BOOLEAN
      BY <1>4, <2>2 DEF Open, Stop
    <3> QED
      BY <2>1, <2>3, <2>4, <3>1, <3>2 DEF TypeOK
  <2>6. ListOK' /\ BusyIsFetched' /\ NoLostRequest' /\ NothingStale'
    BY <2>1, <2>3, <2>4 DEF ListOK, BusyIsFetched, NoLostRequest, NothingStale
  <2>7. PhaseOK'
    BY <2>1, <2>3 DEF PhaseOK
  <2> QED
    BY <2>5, <2>6, <2>7
<1> QED
  BY <1>1, <1>2, <1>3, <1>4 DEF User

\* Every step keeps the invariant.
LEMMA InvNext == Inv /\ [Next]_vars => Inv'
<1> SUFFICES ASSUME Inv, [Next]_vars PROVE Inv'
  OBVIOUS
<1>1. CASE UNCHANGED vars
  BY <1>1 DEF vars, Inv, TypeOK, ListOK, PhaseOK, BusyIsFetched, NoLostRequest, NothingStale
<1> QED
  BY <1>1, InvWorkerTop, InvFinish, InvQuery, InvView DEF Next, Worker, Gui

\* List, cache, worker and repository agree in every reachable state, for any set of
\* commits and any limit of the list.
THEOREM InvHolds == Spec => []Inv
  BY InvInit, InvNext, PTL DEF Spec

-----------------------------------------------------------------------------
(* What follows from it. *)

\* CommitDetailGetter.h: the list never exceeds its limit, and every variable
\* keeps its type.
THEOREM TypeCorrect == Spec => []TypeOK
<1>1. Inv => TypeOK
  BY DEF Inv
<1> QED
  BY <1>1, InvHolds, PTL

\* CommitDetailGetter.cpp, query() and the worker: the request list and the
\* cache agree whenever the mutex is free.
THEOREM CacheFollowsList == Spec => []CacheIsDone
<1>1. Inv => CacheIsDone
  <2> SUFFICES ASSUME Inv PROVE CacheIsDone
    OBVIOUS
  <2>1. requests \in Seq(Request)
    BY DEF Inv, TypeOK
  <2>2. \A k \in 1..Len(requests) : requests[k].done => cache[requests[k].id] # Absent
    BY <2>1, ElementOfSeq, Requests DEF Inv, ListOK
  <2> QED
    BY <2>2 DEF Inv, ListOK, CacheIsDone
<1> QED
  BY <1>1, InvHolds, PTL

\* CommitDetailGetter.cpp:47-67: a worker that waits has nothing to do, and
\* every busy mark is its own, so no request is ever stranded.
THEOREM NoRequestStranded == Spec => [](NoLostRequest /\ BusyIsFetched)
<1>1. Inv => NoLostRequest /\ BusyIsFetched
  BY DEF Inv
<1> QED
  BY <1>1, InvHolds, PTL

\* CommitDetailGetter.cpp:104, stop(): nothing that an earlier repository
\* answered is ever shown for the one open now.
THEOREM NoStaleAnswer == Spec => []NothingStale
<1>1. Inv => NothingStale
  BY DEF Inv
<1> QED
  BY <1>1, InvHolds, PTL

\* CommitDetailGetter.cpp:50, NextQuery: git is never started for a commit whose
\* answer is cached.
THEOREM GitRunsOnce == Spec => NoRepeatedWork
<1>1. Inv /\ [Next]_vars =>
        [wpc' = "run" /\ wpc # "run" => cache[item'.id] = Absent]_vars
  <2> SUFFICES ASSUME Inv, Next, wpc' = "run", wpc # "run"
               PROVE  cache[item'.id] = Absent
    OBVIOUS
  <2>1. NextQuery
    BY DEF Next, Worker, Gui, User, WorkerTop, WorkerWoken, WorkerExit, NothingIdle,
           WorkerFinish, Emit, SpuriousWakeup, Start, Paint, Query, Renew, AddRequest,
           Notify, Open, Stop, Scroll, worker
  <2>2. PICK k \in 1..Len(requests) :
          IsIdle(requests[k]) /\ item' = [requests[k] EXCEPT !.busy = TRUE]
    BY <2>1 DEF NextQuery
  <2>3. requests[k] \in Request
    BY ElementOfSeq DEF Inv, TypeOK
  <2>4. item'.id = requests[k].id
    BY <2>2, <2>3 DEF Request
  <2>5. cache[requests[k].id] = Absent
    BY <2>2 DEF Inv, ListOK, IsIdle
  <2> QED
    BY <2>4, <2>5
<1> QED
  BY <1>1, InvHolds, PTL DEF Spec, NoRepeatedWork

\* CommitDetailGetter::stop, which sets its flag under the mutex: the thread that is joined
\* is never in its wait, so there is no moment at which its notification is lost.
THEOREM JoinedIsAwake == Spec => [](gui = "joining" => wpc # "wait")
<1>1. Inv => (gui = "joining" => wpc # "wait")
  BY DEF Inv, PhaseOK, NoLostRequest
<1> QED
  BY <1>1, InvHolds, PTL

=============================================================================
