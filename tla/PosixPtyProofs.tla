--------------------------- MODULE PosixPtyProofs ---------------------------
(***************************************************************************)
(* Proofs about PosixPty, for any number of commands, outputs and keys.    *)
(* Inv says where the process thread is, and what has become by then of    *)
(* its child, the output, the exit code and the keys typed.                *)
(***************************************************************************)
EXTENDS PosixPty, TLAPS, SequenceTheorems

Key == 1..MaxInput

\* The keys typed, in order.
UpTo(n) == [i \in 1..n |-> i]

-----------------------------------------------------------------------------
(* The input queue. *)

\* What the queue holds beyond the bytes that were already written.
LEMMA Rest ==
  ASSUME NEW q \in Seq(Key), NEW w \in 0..Len(q)
  PROVE  /\ SubSeq(q, w + 1, Len(q)) \in Seq(Key)
         /\ Len(SubSeq(q, w + 1, Len(q))) = Len(q) - w
         /\ \A i \in 1..Len(q)-w : SubSeq(q, w + 1, Len(q))[i] = q[w + i]
<1>1. Len(q) \in Nat /\ \A i \in 1..Len(q) : q[i] \in Key
  BY ElementOfSeq, LenProperties
<1> QED
  BY <1>1, SubSeqProperties

\* Before anything is written that is the whole queue.
LEMMA AllRest ==
  ASSUME NEW q \in Seq(Key)
  PROVE  SubSeq(q, 0 + 1, Len(q)) = q
<1>1. 0 + 1 = 1
  OBVIOUS
<1> QED
  BY <1>1, SubSeqFull

\* flush_input: what is written of the queue follows what was written before.
LEMMA Sent ==
  ASSUME NEW t \in Seq(Key), NEW q \in Seq(Key), NEW n \in 1..Len(q)
  PROVE  /\ t \o SubSeq(q, 1, n) \in Seq(Key)
         /\ (t \o SubSeq(q, 1, n)) \o SubSeq(q, n + 1, Len(q)) = t \o q
<1>1. Len(q) \in Nat /\ \A i \in 1..Len(q) : q[i] \in Key
  BY ElementOfSeq, LenProperties
<1>2. SubSeq(q, 1, n) \in Seq(Key)
  BY <1>1, SubSeqProperties
<1>3. SubSeq(q, n + 1, Len(q)) \in Seq(Key)
  BY <1>1, Rest
<1>4. SubSeq(q, 1, n) \o SubSeq(q, n + 1, Len(q)) = q
  BY <1>1, ConcatAdjacentSubSeq, SubSeqFull
<1>5. t \o SubSeq(q, 1, n) \in Seq(Key)
  BY <1>2, ConcatProperties
<1>6. ASSUME NEW u \in Seq(Key), NEW v \in Seq(Key) PROVE (t \o u) \o v = t \o (u \o v)
  OBVIOUS
<1>7. (t \o SubSeq(q, 1, n)) \o SubSeq(q, n + 1, Len(q))
        = t \o (SubSeq(q, 1, n) \o SubSeq(q, n + 1, Len(q)))
  BY <1>2, <1>3, <1>6
<1> QED
  BY <1>4, <1>5, <1>7

\* write_input: a key typed while a write is under way.
LEMMA Typed ==
  ASSUME NEW t \in Seq(Key), NEW q \in Seq(Key), NEW w \in 0..Len(q), NEW n \in Nat,
         n + 1 \in Key,
         t \o SubSeq(q, w + 1, Len(q)) = UpTo(n)
  PROVE  /\ Append(q, n + 1) \in Seq(Key)
         /\ w \in 0..Len(Append(q, n + 1))
         /\ t \o SubSeq(Append(q, n + 1), w + 1, Len(Append(q, n + 1)))
              = UpTo(n + 1)
<1> DEFINE a == Append(q, n + 1)
           r == SubSeq(q, w + 1, Len(q))
           s == SubSeq(a, w + 1, Len(a))
<1>1. /\ a \in Seq(Key) /\ Len(a) = Len(q) + 1 /\ a[Len(q) + 1] = n + 1
      /\ \A i \in 1..Len(q) : a[i] = q[i]
  BY AppendProperties
<1>2. Len(q) \in Nat /\ w \in 0..Len(a) /\ Len(t) \in Nat
  BY <1>1, LenProperties
<1>3. r \in Seq(Key) /\ Len(r) = Len(q) - w /\ \A i \in 1..Len(q)-w : r[i] = q[w + i]
  BY Rest
<1>4. s \in Seq(Key) /\ Len(s) = Len(a) - w /\ \A i \in 1..Len(a)-w : s[i] = a[w + i]
  BY <1>1, <1>2, Rest
<1> HIDE DEF a, r, s
<1>5. /\ t \o r \in Seq(Key) /\ Len(t \o r) = Len(t) + Len(r)
      /\ \A i \in 1..Len(t)+Len(r) :
           (t \o r)[i] = IF i <= Len(t) THEN t[i] ELSE r[i - Len(t)]
  BY <1>3, ConcatProperties
<1>6. /\ t \o s \in Seq(Key) /\ Len(t \o s) = Len(t) + Len(s)
      /\ \A i \in 1..Len(t)+Len(s) :
           (t \o s)[i] = IF i <= Len(t) THEN t[i] ELSE s[i - Len(t)]
  BY <1>4, ConcatProperties
<1>7. t \o r = [i \in 1..n |-> i]
  BY DEF r, UpTo
<1>8. Len(t \o r) = n
  <2>1. DOMAIN (t \o r) = 1..Len(t \o r)
    BY <1>5, LenProperties
  <2>2. DOMAIN (t \o r) = 1..n
    BY <1>7
  <2>3. Len(t \o r) \in Nat
    BY <1>5, LenProperties
  <2> QED
    BY <2>1, <2>2, <2>3
<1>9. /\ w \in Nat /\ w <= Len(q)
      /\ Len(r) = Len(q) - w /\ Len(s) = Len(q) + 1 - w
      /\ Len(t) + (Len(q) - w) = n
  <2>1. Len(t) + Len(r) = n
    BY <1>5, <1>8
  <2>2. w \in Nat /\ w <= Len(q)
    BY <1>2
  <2>3. Len(r) = Len(q) - w /\ Len(s) = Len(q) + 1 - w
    BY <1>1, <1>3, <1>4
  <2> QED
    BY <2>1, <2>2, <2>3
<1>10. Len(t \o s) = n + 1
  <2>1. Len(t \o s) = Len(t) + (Len(q) + 1 - w)
    BY <1>6, <1>9
  <2>2. ASSUME NEW x \in Nat, NEW y \in Nat, NEW v \in Nat PROVE x + (y + 1 - v) = x + (y - v) + 1
    OBVIOUS
  <2>3. Len(t) + (Len(q) + 1 - w) = (Len(t) + (Len(q) - w)) + 1
    BY <1>2, <1>9, <2>2
  <2> QED
    BY <1>9, <2>1, <2>3
<1>11. \A i \in 1..n+1 : (t \o s)[i] = i
  <2> SUFFICES ASSUME NEW i \in 1..n+1 PROVE (t \o s)[i] = i
    OBVIOUS
  <2>0. Len(t) + Len(r) = n /\ Len(t) + Len(s) = n + 1 /\ Len(t) <= n
    <3>1. Len(t) + Len(r) = n
      BY <1>9
    <3>2. Len(t) + Len(s) = n + 1
      BY <1>6, <1>10
    <3>3. Len(r) \in Nat
      BY <1>3, LenProperties
    <3> QED
      BY <1>2, <3>1, <3>2, <3>3
  <2>1. CASE i <= Len(t)
    <3>1. i \in 1..n /\ i \in 1..Len(t)+Len(r) /\ i \in 1..Len(t)+Len(s)
      BY <1>2, <2>1, <2>0
    <3>2. (t \o r)[i] = i
      BY <1>7, <3>1
    <3> QED
      BY <1>5, <1>6, <2>1, <3>1, <3>2
  <2>2. CASE i > Len(t) /\ i <= n
    <3>1. i \in 1..n /\ i \in 1..Len(t)+Len(r) /\ i \in 1..Len(t)+Len(s) /\ ~(i <= Len(t))
      BY <1>2, <2>2, <2>0
    <3>2. (t \o r)[i] = i
      BY <1>7, <3>1
    <3>3. i - Len(t) \in 1..Len(q)-w /\ i - Len(t) \in 1..Len(a)-w
      <4>1. ASSUME NEW x \in Nat, NEW d \in Nat, NEW k \in Nat
            PROVE  k > x /\ k <= x + d => k - x \in 1..d /\ k - x \in 1..(d + 1)
        OBVIOUS
      <4>2. Len(q) - w \in Nat /\ i \in Nat
        BY <1>2, <1>9, <2>2
      <4>3. i - Len(t) \in 1..Len(q)-w /\ i - Len(t) \in 1..(Len(q)-w) + 1
        BY <1>2, <1>9, <2>2, <4>1, <4>2
      <4>4. Len(a) - w = (Len(q) - w) + 1
        BY <1>1, <1>2, <1>9
      <4> QED
        BY <4>3, <4>4
    <3>4. w + (i - Len(t)) \in 1..Len(q)
      BY <1>2, <3>3
    <3>5. (t \o s)[i] = a[w + (i - Len(t))]
      BY <1>4, <1>6, <3>1, <3>3
    <3>6. (t \o r)[i] = q[w + (i - Len(t))]
      BY <1>3, <1>5, <3>1, <3>3
    <3> QED
      BY <1>1, <3>2, <3>4, <3>5, <3>6
  <2>3. CASE i = n + 1
    <3>1. i \in 1..Len(t)+Len(s) /\ ~(i <= Len(t))
      BY <1>2, <1>9, <2>3
    <3>2. w + (i - Len(t)) = Len(q) + 1
      <4>1. ASSUME NEW x \in Nat, NEW y \in Nat, NEW v \in Nat
            PROVE  v + ((x + (y - v)) + 1 - x) = y + 1
        OBVIOUS
      <4>2. i = (Len(t) + (Len(q) - w)) + 1
        BY <1>9, <2>3
      <4>3. w + ((Len(t) + (Len(q) - w)) + 1 - Len(t)) = Len(q) + 1
        BY <1>2, <1>9, <4>1
      <4> QED
        BY <4>2, <4>3
    <3>3. i - Len(t) \in 1..Len(a)-w
      BY <1>1, <1>2, <1>9, <2>3
    <3> QED
      BY <1>1, <1>4, <1>6, <2>3, <3>1, <3>2, <3>3
  <2>4. i <= Len(t) \/ (i > Len(t) /\ i <= n) \/ i = n + 1
    BY <1>2
  <2> QED
    BY <2>1, <2>2, <2>3, <2>4
<1>12. t \o s = [i \in 1..n+1 |-> i]
  <2>1. t \o s \in [1..n+1 -> Key]
    BY <1>6, <1>10, LenProperties
  <2> QED
    BY <1>11, <2>1
<1> QED
  BY <1>1, <1>2, <1>12 DEF a, s, UpTo

-----------------------------------------------------------------------------
(* The invariant, in two parts that need different facts. *)

\* The keys.
Keys ==
  /\ input_queue \in Seq(Key) /\ tty \in Seq(Key)
  /\ typed \in 0..MaxInput /\ written \in 0..Len(input_queue)
  /\ InputOK /\ InputKept

\* The threads, the child and its output.
Course ==
  /\ thread \in {"none", "executing", "returned"} /\ pc \in PCs
  /\ interrupted \in BOOLEAN /\ completed \in BOOLEAN
  /\ exit_code \in Ends \cup {"unset"}
  /\ child \in {"none", "alive", "zombie", "reaped"} /\ status \in Ends
  /\ unread \in Nat /\ output \in Nat /\ unread + output <= MaxOutput
  /\ starter \in {"idle", "starting"}
  /\ gui \in {"idle", "stop", "wait", "wait_for", "join"}
  /\ runs \in 0..MaxRuns /\ notified \in 0..MaxRuns
  /\ ThreadOK /\ ChildOK /\ NotifiedOnce /\ ExitCodeIsTrue

\* Together the two parts are the invariant.
LEMMA Parts == Inv <=> Keys /\ Course
  BY DEF Inv, TypeOK, Keys, Course, Key

\* Before the first command both hold.
LEMMA Start == Init => Keys /\ Course
<1> SUFFICES ASSUME Init PROVE Keys /\ Course
  OBVIOUS
<1>1. Course
  <2>1. ThreadOK
    BY DEF Init, ThreadOK
  <2>2. ChildOK /\ NotifiedOnce /\ ExitCodeIsTrue
    BY DEF Init, ChildOK, NotifiedOnce, ExitCodeIsTrue
  <2>3. interrupted \in BOOLEAN /\ completed \in BOOLEAN
    BY DEF Init
  <2> QED
    BY PtyAssumption, <2>1, <2>2, <2>3 DEF Init, Course, PCs, Ends
<1>2. Keys
  BY PtyAssumption DEF Init, Keys, InputOK, InputKept, Key
<1> QED
  BY <1>1, <1>2

\* run(), step by step.
LEMMA CourseThread == Course /\ Thread => Course'
<1> SUFFICES ASSUME Course, Thread PROVE Course'
  OBVIOUS
<1> USE PtyAssumption
  DEF Course, PCs, Ends, ThreadOK, ChildOK, NotifiedOnce, ExitCodeIsTrue,
      threadOnly, os, user
<1>1. CASE OpenFails
  BY <1>1 DEF OpenFails
<1>2. CASE Fork
  BY <1>2 DEF Fork
<1>3. CASE Loop
  BY <1>3 DEF Loop
<1>4. CASE FlushWrite
  BY <1>4 DEF FlushWrite
<1>5. CASE Erase
  BY <1>5 DEF Erase
<1>6. CASE Flushed
  BY <1>6 DEF Flushed
<1>7. CASE Read
  BY <1>7 DEF Read
<1>8. CASE PollFails
  BY <1>8 DEF PollFails
<1>9. CASE Reap
  BY <1>9 DEF Reap
<1>10. CASE Drain
  BY <1>10 DEF Drain
<1>17. CASE DrainEnds
  BY <1>17 DEF DrainEnds
<1>11. CASE Term
  BY <1>11 DEF Term
<1>12. CASE ReapTerminated
  BY <1>12 DEF ReapTerminated
<1>13. CASE Kill
  BY <1>13 DEF Kill
<1>14. CASE Close
  BY <1>14 DEF Close
<1>15. CASE Complete
  BY <1>15 DEF Complete
<1>16. CASE Notify
  BY <1>16 DEF Notify
<1> QED
  BY <1>1, <1>2, <1>3, <1>4, <1>5, <1>6, <1>7, <1>8, <1>9, <1>10, <1>11, <1>12, <1>13,
     <1>14, <1>15, <1>16, <1>17 DEF Thread

\* The child only adds output and ends, both before it is reaped.
LEMMA CourseChild == Course /\ Child => Course'
<1> SUFFICES ASSUME Course, Child PROVE Course'
  OBVIOUS
<1> USE PtyAssumption
  DEF Course, PCs, Ends, ThreadOK, ChildOK, NotifiedOnce, ExitCodeIsTrue,
      threadOnly, user
<1>1. CASE ChildWrites
  BY <1>1 DEF ChildWrites
<1>2. CASE ChildEnds
  BY <1>2 DEF ChildEnds
<1> QED
  BY <1>1, <1>2 DEF Child

\* start(), wait() and stop().
LEMMA CourseUsers == Course /\ (Starter \/ Gui) => Course'
<1> SUFFICES ASSUME Course, Starter \/ Gui PROVE Course'
  OBVIOUS
<1> USE PtyAssumption
  DEF Course, PCs, Ends, ThreadOK, ChildOK, NotifiedOnce, ExitCodeIsTrue,
      guiOnly, os, is_running
<1>1. CASE StartReset
  <2>1. ThreadOK'
    BY <1>1 DEF StartReset, Begin
  <2>2. ChildOK'
    BY <1>1 DEF StartReset, Begin
  <2>3. (NotifiedOnce /\ ExitCodeIsTrue)'
    BY <1>1 DEF StartReset, Begin
  <2>4. (interrupted \in BOOLEAN /\ completed \in BOOLEAN)'
    BY <1>1 DEF StartReset, Begin
  <2>5. unread + 0 <= MaxOutput
    OBVIOUS
  <2> QED
    BY <1>1, <2>1, <2>2, <2>3, <2>4, <2>5 DEF StartReset, Begin
<1>2. CASE StartThread
  BY <1>2 DEF StartThread
<1>3. CASE StartEmpty
  BY <1>3 DEF StartEmpty
<1>4. CASE WriteInput
  BY <1>4 DEF WriteInput
<1>5. CASE Wait("wait") \/ Wait("wait_for")
  BY <1>5 DEF Wait
<1>6. CASE Stop
  BY <1>6 DEF Stop
<1>10. CASE StopWaits
  BY <1>10 DEF StopWaits
<1>7. CASE TimedOut
  BY <1>7 DEF TimedOut
<1>8. CASE WaitDone
  BY <1>8 DEF WaitDone
<1>9. CASE JoinThread
  BY <1>9 DEF JoinThread
<1> QED
  BY <1>1, <1>2, <1>3, <1>4, <1>5, <1>6, <1>7, <1>8, <1>9, <1>10 DEF Starter, Gui, GuiReturns

-----------------------------------------------------------------------------
(* The keys, action by action; most leave them alone. *)

\* What leaves the queue, and its half-done write, alone keeps them.
LEMMA KeysKept ==
  ASSUME Keys, UNCHANGED input, UNCHANGED starter,
         pc' = "erase" => pc = "erase", pc = "erase" => pc' = "erase",
         pc \in {"complete", "notify", "end"} => pc' \in {"complete", "notify", "end"}
  PROVE  Keys'
  BY DEF Keys, InputOK, InputKept, input

\* run(): a write moves bytes from the queue to the terminal, in two steps.
LEMMA KeysThread == Keys /\ Course /\ Thread => Keys'
<1> SUFFICES ASSUME Keys, Course, Thread PROVE Keys'
  OBVIOUS
<1> USE DEF threadOnly, user
<1>1. CASE OpenFails \/ Loop \/ Flushed \/ Read \/ PollFails \/ Fork
  BY <1>1, KeysKept DEF OpenFails, Loop, Flushed, Read, PollFails, Fork
<1>2. CASE Reap \/ Drain \/ DrainEnds \/ Term \/ ReapTerminated \/ Kill
  BY <1>2, KeysKept DEF Reap, Drain, DrainEnds, Term, ReapTerminated, Kill
<1>3. CASE Complete \/ Notify
  BY <1>3, KeysKept DEF Complete, Notify
<1>4. CASE FlushWrite
  <2>1. PICK n \in 1..Len(input_queue) :
          tty' = tty \o SubSeq(input_queue, 1, n) /\ written' = n
    BY <1>4 DEF FlushWrite
  <2>2. /\ written = 0 /\ tty \in Seq(Key) /\ input_queue \in Seq(Key)
        /\ tty \o SubSeq(input_queue, 0 + 1, Len(input_queue)) = [i \in 1..typed |-> i]
    BY <1>4 DEF FlushWrite, Keys, InputOK, InputKept
  <2>3. tty \o input_queue = [i \in 1..typed |-> i]
    BY <2>2, AllRest
  <2>4. /\ tty' \in Seq(Key)
        /\ tty' \o SubSeq(input_queue, n + 1, Len(input_queue)) = tty \o input_queue
    BY <2>1, <2>2, Sent
  <2>5. n \in 0..Len(input_queue)
    BY <2>1
  <2> QED
    BY <1>4, <2>1, <2>2, <2>3, <2>4, <2>5 DEF FlushWrite, Keys, Course, ThreadOK, InputOK, InputKept
<1>5. CASE Erase
  <2> DEFINE rest == SubSeq(input_queue, written + 1, Len(input_queue))
  <2>1. /\ input_queue \in Seq(Key) /\ written \in 0..Len(input_queue)
        /\ tty \o rest = [i \in 1..typed |-> i]
    BY <1>5 DEF Erase, Keys, InputKept
  <2>2. rest \in Seq(Key)
    BY <2>1, Rest
  <2>3. rest = SubSeq(rest, 0 + 1, Len(rest)) /\ Len(rest) \in Nat
    BY <2>2, AllRest, LenProperties
  <2>4. input_queue' = rest /\ written' = 0
    BY <1>5 DEF Erase
  <2> HIDE DEF rest
  <2>5. 0 \in 0..Len(rest)
    BY <2>3
  <2> QED
    BY <1>5, <2>1, <2>2, <2>3, <2>4, <2>5
    DEF Erase, Keys, Course, ThreadOK, InputOK, InputKept
<1>6. CASE Close
  BY <1>6 DEF Close, Keys, Course, ThreadOK, InputOK, InputKept
<1> QED
  BY <1>1, <1>2, <1>3, <1>4, <1>5, <1>6 DEF Thread

\* The child never touches the queue.
LEMMA KeysChild == Keys /\ Child => Keys'
  BY KeysKept DEF Child, ChildWrites, ChildEnds, threadOnly, user

\* What is typed between the two halves of start() is the thread's to send.
LEMMA KeysStarter == Keys /\ Course /\ Starter => Keys'
<1> SUFFICES ASSUME Keys, Course, Starter PROVE Keys'
  OBVIOUS
<1>1. CASE StartReset
  <2>1. written = 0 /\ pc = "end"
    BY <1>1 DEF StartReset, is_running, Keys, InputOK, Course, ThreadOK
  <2>2. <<>> \in Seq(Key) /\ <<>> \o <<>> = [i \in 1..0 |-> i] /\ 0 \in 0..Len(<<>>)
    OBVIOUS
  <2> QED
    BY <1>1, <2>1, <2>2, PtyAssumption DEF StartReset, Begin, Keys, InputOK, InputKept
<1>2. CASE StartThread
  <2>1. written = 0 /\ pc = "end" /\ tty \o input_queue = [i \in 1..typed |-> i]
    BY <1>2 DEF StartThread, Keys, InputOK, Course, ThreadOK
  <2>2. SubSeq(input_queue, 0 + 1, Len(input_queue)) = input_queue
    BY AllRest DEF Keys
  <2> QED
    BY <1>2, <2>1, <2>2 DEF StartThread, input, Keys, InputOK, InputKept
<1>3. CASE StartEmpty
  BY <1>3 DEF StartEmpty, input, Keys, InputOK, InputKept
<1> QED
  BY <1>1, <1>2, <1>3 DEF Starter

\* write_input, also between the two steps of a write.
LEMMA KeysTyped == Keys /\ Course /\ WriteInput => Keys'
<1> SUFFICES ASSUME Keys, Course, WriteInput PROVE Keys'
  OBVIOUS
<1> DEFINE q == input_queue
           t == Append(q, typed + 1)
<1>1. /\ q \in Seq(Key) /\ tty \in Seq(Key) /\ written \in 0..Len(q)
      /\ typed \in Nat /\ typed + 1 \in Key /\ typed + 1 \in 0..MaxInput
  BY PtyAssumption DEF WriteInput, Keys, Key
<1>2. /\ input_queue' = t /\ typed' = typed + 1
      /\ UNCHANGED <<written, tty, pc, starter>>
  BY DEF WriteInput, guiOnly
<1>3. t \in Seq(Key) /\ written \in 0..Len(t)
  BY <1>1, AppendProperties, LenProperties
<1>4. ASSUME tty \o SubSeq(q, written + 1, Len(q)) = UpTo(typed)
      PROVE  tty \o SubSeq(t, written + 1, Len(t)) = UpTo(typed + 1)
  BY <1>1, <1>4, Typed
<1>5. ASSUME starter = "starting"
      PROVE  tty \o t = UpTo(typed + 1)
  <2>1. written = 0 /\ tty \o q = UpTo(typed)
    BY <1>5 DEF UpTo, Keys, InputOK, Course, ThreadOK
  <2>2. SubSeq(q, 0 + 1, Len(q)) = q /\ SubSeq(t, 0 + 1, Len(t)) = t
    BY <1>1, <1>3, AllRest
  <2> QED
    BY <1>4, <2>1, <2>2
<1> HIDE DEF t
<1>6. InputOK'
  BY <1>2, <1>5 DEF UpTo, Keys, InputOK
<1>7. InputKept'
  BY <1>2, <1>4 DEF UpTo, Keys, InputKept
<1> QED
  BY <1>1, <1>2, <1>3, <1>6, <1>7 DEF Keys

\* The rest of the GUI thread leaves the queue alone.
LEMMA KeysGui == Keys /\ Course /\ Gui => Keys'
<1> SUFFICES ASSUME Keys, Course, Gui PROVE Keys'
  OBVIOUS
<1>1. CASE WriteInput
  BY <1>1, KeysTyped
<1>2. CASE Wait("wait") \/ Wait("wait_for") \/ Stop \/ TimedOut \/ GuiReturns
  BY <1>2, KeysKept
  DEF Wait, Stop, TimedOut, GuiReturns, StopWaits, WaitDone, JoinThread, guiOnly
<1> QED
  BY <1>1, <1>2 DEF Gui

-----------------------------------------------------------------------------
\* Every step of Spec keeps both parts.
LEMMA Step == Keys /\ Course /\ [Next]_vars => (Keys /\ Course)'
<1> SUFFICES ASSUME Keys, Course, [Next]_vars PROVE (Keys /\ Course)'
  OBVIOUS
<1>1. CASE Thread
  BY <1>1, CourseThread, KeysThread
<1>2. CASE Child
  BY <1>2, CourseChild, KeysChild
<1>3. CASE Starter
  BY <1>3, CourseUsers, KeysStarter
<1>4. CASE Gui
  BY <1>4, CourseUsers, KeysGui
<1>5. CASE UNCHANGED vars
  <2>1. Keys'
    BY <1>5, KeysKept DEF vars, user
  <2>2. Course'
    BY <1>5 DEF vars, os, user, Course, ThreadOK, ChildOK, NotifiedOnce, ExitCodeIsTrue
  <2> QED
    BY <2>1, <2>2
<1> QED
  BY <1>1, <1>2, <1>3, <1>4, <1>5 DEF Next

\* The invariant, however many commands, chunks of output and keys there are.
THEOREM InvHolds == Spec => []Inv
<1>1. Init => Inv
  BY Start, Parts
<1>2. Inv /\ [Next]_vars => Inv'
  <2>1. (Inv <=> Keys /\ Course)'
    BY DEF Inv, TypeOK, Keys, Course, Key
  <2> QED
    BY <2>1, Step, Parts
<1> QED
  BY <1>1, <1>2, PTL DEF Spec

\* BasicProcessPosix.cpp: the variables keep their types.
THEOREM TypeCorrect == Spec => []TypeOK
<1>1. Inv => TypeOK
  BY DEF Inv
<1> QED
  BY <1>1, InvHolds, PTL

\* run(): however a command ends, its child has been waited for by the time
\* the thread can be joined.
THEOREM LeavesNoChild == Spec => []NoOrphan
<1>1. Inv => NoOrphan
  BY PtyAssumption DEF Inv, TypeOK, ThreadOK, ChildOK, NoOrphan
<1> QED
  BY <1>1, InvHolds, PTL

\* start() and run(): one callback for each command started.
THEOREM OneCallback == Spec => []NotifiedOnce
<1>1. Inv => NotifiedOnce
  BY DEF Inv
<1> QED
  BY <1>1, InvHolds, PTL

\* start() and run(): an exit code is only reported of this command's own child, reaped
\* with it, never of the command before.
THEOREM ExitCodeAlwaysOwn == Spec => []ExitCodeIsTrue
<1>1. Inv => ExitCodeIsTrue
  BY DEF Inv
<1> QED
  BY <1>1, InvHolds, PTL

\* write_input and flush_input: every key typed arrives once and in order.
THEOREM NoKeyLost == Spec => []InputKept
<1>1. Inv => InputKept
  BY DEF Inv
<1> QED
  BY <1>1, InvHolds, PTL

-----------------------------------------------------------------------------
(* The promise: which step of the process is which step of PtyPromise. *)

Same == UNCHANGED <<thread, completed, interrupted, pc = "notify", completed /\ exit_code = "ok">>

\* A step that changes none of these is a stutter of the promise.
LEMMA Unseen == Same => UNCHANGED P!pty
  BY DEF Same, P!pty

\* run(): only completing and notifying are seen.
LEMMA PromiseThread == Course /\ Thread => [P!PtyNext]_(P!pty)
<1> SUFFICES ASSUME Course, Thread PROVE P!PtyNext \/ UNCHANGED P!pty
  OBVIOUS
<1> USE DEF Course, ThreadOK, threadOnly, user
<1>1. CASE OpenFails \/ Fork \/ Loop \/ FlushWrite \/ Erase
  BY <1>1, Unseen DEF Same, OpenFails, Fork, Loop, FlushWrite, Erase
<1>2. CASE Flushed \/ Read \/ PollFails \/ Drain \/ DrainEnds \/ Term \/ Close
  BY <1>2, Unseen DEF Same, Flushed, Read, PollFails, Drain, DrainEnds, Term, Close
<1>3. CASE Reap \/ ReapTerminated \/ Kill
  BY <1>3, Unseen DEF Same, Reap, ReapTerminated, Kill
<1>4. CASE Complete
  <2>1. thread # "none" /\ ~completed /\ completed' /\ pc' = "notify"
        /\ UNCHANGED <<thread, interrupted>>
    BY <1>4 DEF Complete
  <2> QED
    BY <2>1 DEF P!PtyNext, P!Complete
<1>5. CASE Notify
  <2>1. thread # "none" /\ thread' # "none" /\ completed /\ pc = "notify" /\ pc' # "notify"
        /\ UNCHANGED <<completed, exit_code, interrupted>>
    BY <1>5 DEF Notify
  <2> QED
    BY <2>1 DEF P!PtyNext, P!Notify
<1> QED
  BY <1>1, <1>2, <1>3, <1>4, <1>5 DEF Thread

\* start(), stop() and the join are seen; waiting and typing are not.
LEMMA PromiseUsers == Course /\ (Starter \/ Gui) => [P!PtyNext]_(P!pty)
<1> SUFFICES ASSUME Course, Starter \/ Gui PROVE P!PtyNext \/ UNCHANGED P!pty
  OBVIOUS
<1> USE DEF Course, ThreadOK, guiOnly
<1>1. CASE StartReset
  <2>1. thread = "none" /\ thread' = "none" /\ interrupted' = FALSE /\ ~completed'
    BY <1>1 DEF StartReset, Begin, is_running
  <2> QED
    BY <2>1 DEF P!PtyNext, P!Reset, P!is_running
<1>2. CASE StartThread
  <2>1. thread = "none" /\ thread' # "none" /\ ~completed
        /\ UNCHANGED <<completed, exit_code, interrupted>>
    BY <1>2 DEF StartThread, input
  <2> QED
    BY <2>1 DEF P!PtyNext, P!Launch
<1>3. CASE StartEmpty
  <2>1. thread = "none" /\ exit_code = "unset" /\ UNCHANGED <<thread, pc, exit_code, interrupted>>
    BY <1>3 DEF StartEmpty, ChildOK
  <2> QED
    BY <2>1 DEF P!pty
<1>4. CASE WriteInput \/ Wait("wait") \/ Wait("wait_for") \/ StopWaits \/ TimedOut \/ WaitDone
  BY <1>4, Unseen DEF Same, WriteInput, Wait, StopWaits, TimedOut, WaitDone
<1>5. CASE Stop
  <2>1. interrupted' = TRUE /\ UNCHANGED <<thread, pc, completed, exit_code>>
    BY <1>5 DEF Stop
  <2> QED
    BY <2>1 DEF P!PtyNext, P!Interrupt
<1>6. CASE JoinThread
  <2>1. thread # "none" /\ thread' = "none" /\ completed /\ pc # "notify"
        /\ UNCHANGED <<pc, completed, exit_code, interrupted>>
    BY <1>6 DEF JoinThread
  <2> QED
    BY <2>1 DEF P!PtyNext, P!Join
<1> QED
  BY <1>1, <1>2, <1>3, <1>4, <1>5, <1>6 DEF Starter, Gui, GuiReturns

\* The process keeps the promise of AbstractPtyProcess, up to its fairness.
THEOREM KeepsPromise == Spec => P!Free /\ [][P!PtyNext]_(P!pty)
<1>1. Init => P!Free
  BY DEF Init, P!Free
<1>2. Inv /\ [Next]_vars => [P!PtyNext]_(P!pty)
  <2> SUFFICES ASSUME Course, [Next]_vars PROVE [P!PtyNext]_(P!pty)
    BY Parts
  <2>1. CASE Thread
    BY <2>1, PromiseThread
  <2>2. CASE Child
    BY <2>2, Unseen DEF Same, Child, ChildWrites, ChildEnds, threadOnly
  <2>3. CASE Starter \/ Gui
    BY <2>3, PromiseUsers
  <2>4. CASE UNCHANGED vars
    BY <2>4, Unseen DEF vars, Same
  <2> QED
    BY <2>1, <2>2, <2>3, <2>4 DEF Next
<1> QED
  BY <1>1, <1>2, InvHolds, PTL DEF Spec
=============================================================================
