---------------------------- MODULE MCWorkersProofs ----------------------------
(***************************************************************************)
(* What holds of the small threads for any number of messages, events and  *)
(* requests: the log file and the trace file get what was handed over, in  *)
(* order, and an answer of the language model is of one request.           *)
(***************************************************************************)
EXTENDS MCWorkers, SequenceTheorems, TLAPS

-----------------------------------------------------------------------------
(* The commit message *)

\* A request is in one place at a time: asked for, served or answered; until the
\* dialog has the answer, it makes no other.
OneAtATime ==
  /\ fields = asked
  /\ answers = <<>> \/ answers = <<[diff |-> asked, model |-> asked]>>
  /\ requested => gen \notin {"read", "talk"} /\ answers = <<>>
  /\ gen \in {"read", "talk"} => answers = <<>>
  /\ gen = "talk" => prompt = asked
  /\ enabled => ~requested /\ gen \notin {"read", "talk"} /\ answers = <<>>

\* Nobody has asked when the dialog appears.
LEMMA AskInit == StartAll => OneAtATime
  BY DEF StartAll, G!Init, OneAtATime

\* The thread's steps.
LEMMA AskThreadKeeps ==
  ASSUME OneAtATime, G!Thread \/ G!SpuriousWakeup
  PROVE  OneAtATime'
<1>1. CASE G!Top \/ G!Sleep \/ G!SpuriousWakeup
  <2>1. UNCHANGED <<enabled, asked, fields, answers, requested, prompt>>
    BY <1>1 DEF G!Top, G!Sleep, G!SpuriousWakeup, G!user
  <2>2. gen' \notin {"read", "talk"}
    BY <1>1 DEF G!Top, G!Sleep, G!SpuriousWakeup
  <2> QED
    BY <2>1, <2>2 DEF OneAtATime
<1>2. CASE G!Woken
  <2>1. UNCHANGED <<enabled, asked, fields, answers, prompt>> /\ requested' = FALSE
    BY <1>2 DEF G!Woken, G!user
  <2>2. gen' # "talk" /\ (gen' = "read" => requested)
    BY <1>2 DEF G!Woken
  <2> QED
    BY <2>1, <2>2 DEF OneAtATime
<1>3. CASE G!Read
  <2>1. UNCHANGED <<enabled, asked, fields, answers, requested>>
    BY <1>3 DEF G!Read, G!user
  <2>2. gen = "read" /\ gen' = "talk" /\ prompt' = fields
    BY <1>3 DEF G!Read
  <2> QED
    BY <2>1, <2>2 DEF OneAtATime
<1>4. CASE G!Reply
  <2>1. UNCHANGED <<enabled, asked, fields, requested>>
    BY <1>4 DEF G!Reply, G!user
  <2>2. /\ gen = "talk" /\ gen' = "top"
        /\ answers' = Append(answers, [diff |-> prompt, model |-> fields])
    BY <1>4 DEF G!Reply
  <2>3. answers = <<>> /\ prompt = asked /\ fields = asked /\ ~requested /\ ~enabled
    BY <2>2 DEF OneAtATime
  <2>4. answers' = <<[diff |-> asked, model |-> asked]>>
    BY <2>2, <2>3
  <2> QED
    BY <2>1, <2>2, <2>3, <2>4 DEF OneAtATime
<1> QED
  BY <1>1, <1>2, <1>3, <1>4 DEF G!Thread

\* The dialog's steps.
LEMMA AskDialogKeeps ==
  ASSUME OneAtATime, G!Generate \/ G!OnReady \/ G!Stop \/ G!StopNotify \/ G!Join
  PROVE  OneAtATime'
<1>1. CASE G!Generate
  <2>1. ~enabled' /\ answers' = answers /\ enabled
    BY <1>1 DEF G!Generate
  <2>2. answers = <<>> /\ ~requested /\ gen \notin {"read", "talk"} /\ fields = asked
    BY <2>1 DEF OneAtATime
  <2>3. gen' \notin {"read", "talk"} /\ fields' = asked'
    BY <1>1, <2>2 DEF G!Generate, G!NotifyAll
  <2> QED
    BY <2>1, <2>2, <2>3 DEF OneAtATime
<1>2. CASE G!OnReady
  <2>1. UNCHANGED <<requested, fields, gen, prompt, asked>>
    BY <1>2 DEF G!OnReady
  <2>2. answers # <<>> /\ answers' = Tail(answers)
    BY <1>2 DEF G!OnReady
  <2>3. answers = <<[diff |-> asked, model |-> asked]>>
    BY <2>2 DEF OneAtATime
  <2>4. answers' = <<>>
    BY <2>2, <2>3
  <2>5. ~requested /\ gen \notin {"read", "talk"}
    BY <2>2 DEF OneAtATime
  <2> QED
    BY <2>1, <2>4, <2>5 DEF OneAtATime
<1>3. CASE G!Stop \/ G!StopNotify \/ G!Join
  <2>1. UNCHANGED <<requested, enabled, asked, fields, prompt, answers>>
    BY <1>3 DEF G!Stop, G!StopNotify, G!Join
  <2>2. gen' = gen \/ (gen = "wait" /\ gen' = "woken")
    BY <1>3 DEF G!Stop, G!StopNotify, G!Join, G!NotifyAll
  <2> QED
    BY <2>1, <2>2 DEF OneAtATime
<1> QED
  BY <1>1, <1>2, <1>3

\* Although the thread reads what it is asked at two times outside its mutex, a
\* generated message is of one request, and of the one the dialog waits for.
THEOREM AlwaysOneRequest == Working => []OneRequest
<1>1. OneAtATime /\ [Step]_allVars => OneAtATime'
  <2> SUFFICES ASSUME OneAtATime, [Step]_allVars PROVE OneAtATime'
    OBVIOUS
  <2>1. CASE Asks
    BY <2>1, AskThreadKeeps, AskDialogKeeps DEF Asks, G!Next
  <2>2. CASE Logs \/ Traces \/ Loads \/ UNCHANGED allVars
    <3>1. UNCHANGED message
      BY <2>2 DEF Logs, Traces, Loads, allVars
    <3> QED
      BY <3>1 DEF message, OneAtATime
  <2> QED
    BY <2>1, <2>2 DEF Step
<1>2. OneAtATime => OneRequest
  <2> SUFFICES ASSUME OneAtATime, NEW k \in 1..Len(answers)
               PROVE  answers[k] = [diff |-> asked, model |-> asked]
    BY DEF OneRequest, G!OneRequest
  <2>1. CASE answers = <<>>
    BY <2>1
  <2>2. CASE answers = <<[diff |-> asked, model |-> asked]>>
    BY <2>2
  <2> QED
    BY <2>1, <2>2 DEF OneAtATime
<1> QED
  BY AskInit, <1>1, <1>2, PTL DEF Working

-----------------------------------------------------------------------------
(* Lists of numbered entries *)

\* s has the numbers that follow n.
From(s, n) == s \in Seq(Nat) /\ \A k \in 1..Len(s) : s[k] = n + k

\* The first entry is taken.
LEMMA FirstTaken ==
  ASSUME NEW n \in Nat, NEW s, From(s, n), s # <<>>
  PROVE  /\ Head(s) = n + 1 /\ Len(s) \in Nat \ {0} /\ Len(Tail(s)) = Len(s) - 1
         /\ From(Tail(s), n + 1)
<1>1. s \in Seq(Nat) /\ \A k \in 1..Len(s) : s[k] = n + k
  BY DEF From
<1>2. /\ Tail(s) \in Seq(Nat) /\ Len(s) \in Nat \ {0} /\ Len(Tail(s)) = Len(s) - 1
      /\ Head(s) = s[1] /\ \A k \in 1..Len(Tail(s)) : Tail(s)[k] = s[k + 1]
  BY <1>1
<1>3. 1 \in 1..Len(s) /\ \A k \in 1..Len(Tail(s)) : k + 1 \in 1..Len(s)
  BY <1>2
<1>4. \A k \in 1..Len(Tail(s)) : Tail(s)[k] = (n + 1) + k
  BY <1>1, <1>2, <1>3
<1> QED
  BY <1>1, <1>2, <1>3, <1>4 DEF From

\* The next entry is added.
LEMMA NextAdded ==
  ASSUME NEW n \in Nat, NEW s, From(s, n), NEW c, c = n + Len(s) + 1
  PROVE  From(Append(s, c), n) /\ Len(Append(s, c)) = Len(s) + 1 /\ Len(s) \in Nat
<1>1. s \in Seq(Nat) /\ Len(s) \in Nat /\ \A k \in 1..Len(s) : s[k] = n + k
  BY DEF From
<1>2. c \in Nat
  BY <1>1
<1>3. /\ Append(s, c) \in Seq(Nat) /\ Len(Append(s, c)) = Len(s) + 1
      /\ Append(s, c)[Len(s) + 1] = c /\ \A k \in 1..Len(s) : Append(s, c)[k] = s[k]
  BY <1>1, <1>2
<1>4. \A k \in 1..Len(s) + 1 : k \in 1..Len(s) \/ k = Len(s) + 1
  BY <1>1
<1>5. \A k \in 1..Len(s) + 1 : Append(s, c)[k] = n + k
  BY <1>1, <1>3, <1>4
<1> QED
  BY <1>1, <1>3, <1>5 DEF From

\* Nothing is from anywhere.
LEMMA NothingFrom ==
  ASSUME NEW n
  PROVE  From(<<>>, n)
BY DEF From

-----------------------------------------------------------------------------
(* The log file *)

Line == [message : Nat, to : {"stderr", "file"}]

\* What was pushed is written, in the thread's hands or still in the list, in the
\* order of the pushes.
Handed ==
  /\ written \in Seq(Line) /\ \A k \in 1..Len(written) : written[k].message = k
  /\ From(batch, Len(written)) /\ From(items, Len(written) + Len(batch))
  /\ logged = Len(written) + Len(batch) + Len(items)
  /\ fd \in {"stderr", "file"} /\ (batch # <<>> => writer = "write")
  /\ main = "begin" => writer = "none"

\* The thread ends only when all that was pushed before the stop is written.
EndsWritten ==
  /\ marks \in [pause : Nat, stop : Nat] /\ marks.stop <= logged
  /\ stopping => main \in {"stopping", "joining"}
  /\ writer = "ended" =>
       main \in {"stopping", "joining", "stopped"} /\ Len(written) >= marks.stop
  /\ main = "stopped" => writer = "ended"

\* The thread takes nothing while it is paused.
PausedBefore ==
  /\ main \in {"paused", "opened"} => paused
  /\ main = "paused" => Len(written) + Len(batch) <= marks.pause
  /\ fd = "file" => main \in {"opened", "running", "stopping", "joining"}
  /\ L!FileAfterPause

\* Lengths of the logger's lists.
LEMMA LogLengths ==
  Handed => /\ Len(written) \in Nat /\ Len(batch) \in Nat /\ Len(items) \in Nat
            /\ logged \in Nat
  BY DEF Handed, From

\* The program begins.
LEMMA LogInit == StartAll => Handed /\ EndsWritten /\ PausedBefore
<1> SUFFICES ASSUME StartAll PROVE Handed /\ EndsWritten /\ PausedBefore
  OBVIOUS
<1>1. /\ items = <<>> /\ paused = FALSE /\ stopping = FALSE /\ fd = "stderr"
      /\ writer = "none" /\ batch = <<>> /\ main = "begin" /\ logged = 0
      /\ written = <<>> /\ marks = [pause |-> 0, stop |-> 0]
  BY DEF StartAll, L!Init
<1>2. Handed
  BY <1>1, NothingFrom DEF Handed
<1>3. EndsWritten
  BY <1>1 DEF EndsWritten
<1>4. PausedBefore
  BY <1>1 DEF PausedBefore, L!FileAfterPause
<1> QED
  BY <1>2, <1>3, <1>4

\* Most steps leave the lists alone.
Still == UNCHANGED <<items, batch, written, logged, fd>>

\* Where the steps take the lines.
LEMMA LogSteps ==
  ASSUME L!Next
  PROVE  \/ Still
         \/ UNCHANGED <<items, batch, written, logged>> /\ (L!Open \/ L!Join)
         \/ L!Take /\ ~paused /\ writer \in {"top", "woken"}
            /\ UNCHANGED <<paused, stopping, fd, main, logged, written, marks>>
         \/ L!Write /\ batch # <<>>
         \/ L!Push
  BY DEF L!Next, L!Thread, L!Main, Still, L!Top, L!Sleep, L!SpuriousWakeup, L!Woken, L!Write,
         L!Start, L!Pause, L!Open, L!Resume, L!Stop, L!StopNotify, L!Join

\* A thread that has lines to write goes on writing, and there is none before Start.
LEMMA WriterSteps ==
  ASSUME L!Next
  PROVE  /\ main' = "begin" => main = "begin" /\ (writer = "none" => writer' = "none")
         /\ writer = "write" /\ batch # <<>> /\ main # "begin" => writer' = "write"
<1>1. CASE L!Thread \/ L!SpuriousWakeup \/ L!Push
  BY <1>1 DEF L!Thread, L!Top, L!Sleep, L!SpuriousWakeup, L!Woken, L!Take, L!Write, L!Push,
              L!NotifyAll
<1>2. CASE L!Main
  BY <1>2 DEF L!Main, L!Start, L!Pause, L!Open, L!Resume, L!Stop, L!StopNotify, L!Join,
              L!NotifyAll
<1> QED
  BY <1>1, <1>2 DEF L!Next

\* Taking the list.
LEMMA TakeHands ==
  ASSUME Handed, L!Take, writer \in {"top", "woken"}, UNCHANGED <<fd, main, logged, written>>
  PROVE  Handed'
<1>1. batch = <<>> /\ Len(batch) = 0 /\ main # "begin"
  BY DEF Handed
<1>2. batch' = items /\ items' = <<>> /\ Len(items') = 0 /\ writer' = "write"
  BY DEF L!Take
<1>3. Len(written) \in Nat /\ Len(items) \in Nat
  BY LogLengths
<1>4. From(items, Len(written))
  BY <1>1, <1>3 DEF Handed
<1>5. From(batch', Len(written')) /\ From(items', Len(written') + Len(batch'))
  BY <1>2, <1>4, NothingFrom
<1>6. logged' = Len(written') + Len(batch') + Len(items')
  BY <1>1, <1>2, <1>3 DEF Handed
<1> QED
  BY <1>1, <1>2, <1>5, <1>6 DEF Handed

\* Writing a line.
LEMMA WriteHands ==
  ASSUME Handed, L!Write, batch # <<>>
  PROVE  /\ Handed' /\ Len(written') = Len(written) + 1 /\ Len(batch') = Len(batch) - 1
         /\ written'[Len(written')].to = fd
         /\ \A k \in 1..Len(written) : written'[k] = written[k]
<1> DEFINE line == [message |-> Head(batch), to |-> fd]
<1>1. /\ written' = Append(written, line) /\ batch' = Tail(batch) /\ writer' = writer
      /\ UNCHANGED <<items, fd, main, logged>>
  BY DEF L!Write
<1>2. Len(written) \in Nat /\ Len(batch) \in Nat /\ Len(items) \in Nat
  BY LogLengths
<1>3. /\ Head(batch) = Len(written) + 1 /\ Len(batch') = Len(batch) - 1
      /\ From(batch', Len(written) + 1) /\ Len(batch) # 0
  BY <1>1, <1>2, FirstTaken DEF Handed
<1>4. line \in Line /\ line.message = Len(written) + 1 /\ line.to = fd
  BY <1>2, <1>3 DEF Handed, Line
<1> HIDE DEF line
<1>5. written \in Seq(Line) /\ \A k \in 1..Len(written) : written[k].message = k
  BY DEF Handed
<1>6. /\ written' \in Seq(Line) /\ Len(written') = Len(written) + 1
      /\ written'[Len(written) + 1] = line
      /\ \A k \in 1..Len(written) : written'[k] = written[k]
  <2>1. ASSUME NEW S, NEW s \in Seq(S), NEW e \in S
        PROVE  /\ Append(s, e) \in Seq(S) /\ Len(Append(s, e)) = Len(s) + 1
               /\ Append(s, e)[Len(s) + 1] = e
               /\ \A k \in 1..Len(s) : Append(s, e)[k] = s[k]
    OBVIOUS
  <2>2. /\ Append(written, line) \in Seq(Line)
        /\ Len(Append(written, line)) = Len(written) + 1
        /\ Append(written, line)[Len(written) + 1] = line
        /\ \A k \in 1..Len(written) : Append(written, line)[k] = written[k]
    BY <1>4, <1>5, <2>1
  <2> QED
    BY <1>1, <2>2
<1>7. \A k \in 1..Len(written') : k \in 1..Len(written) \/ k = Len(written) + 1
  BY <1>2, <1>6
<1>8. \A k \in 1..Len(written') : written'[k].message = k
  BY <1>4, <1>5, <1>6, <1>7
<1>9. Len(written') + Len(batch') = Len(written) + Len(batch)
  BY <1>2, <1>3, <1>6
<1>10. From(items', Len(written') + Len(batch')) /\ From(batch', Len(written'))
  BY <1>1, <1>3, <1>6, <1>9 DEF Handed
<1>11. logged' = Len(written') + Len(batch') + Len(items')
  BY <1>1, <1>9 DEF Handed
<1>12. fd' \in {"stderr", "file"} /\ writer' = "write" /\ main' # "begin"
  BY <1>1 DEF Handed
<1> QED
  BY <1>3, <1>4, <1>6, <1>8, <1>10, <1>11, <1>12 DEF Handed

\* A message is pushed.
LEMMA PushHands ==
  ASSUME Handed, L!Push
  PROVE  Handed' /\ logged' = logged + 1
<1>1. /\ main # "begin" /\ logged' = logged + 1 /\ items' = Append(items, logged + 1)
      /\ UNCHANGED <<fd, batch, main, written>>
  BY DEF L!Push
<1>2. /\ Len(written) \in Nat /\ Len(batch) \in Nat /\ Len(items) \in Nat /\ logged \in Nat
      /\ logged = Len(written) + Len(batch) + Len(items)
      /\ From(items, Len(written) + Len(batch))
  BY LogLengths DEF Handed
<1>3. From(items', Len(written) + Len(batch)) /\ Len(items') = Len(items) + 1
  <2>1. Len(written) + Len(batch) \in Nat
    BY <1>2
  <2>2. logged + 1 = (Len(written) + Len(batch)) + Len(items) + 1
    BY <1>2
  <2> QED
    BY <1>1, <1>2, <2>1, <2>2, NextAdded
<1>4. logged' = Len(written') + Len(batch') + Len(items')
  BY <1>1, <1>2, <1>3
<1>5. batch' # <<>> => writer' = "write"
  BY <1>1, WriterSteps DEF L!Next, Handed
<1> QED
  BY <1>1, <1>3, <1>4, <1>5 DEF Handed

\* Every step of the logger keeps the lines in their order.
LEMMA HandedKept ==
  ASSUME Handed, L!Next
  PROVE  Handed'
<1>1. CASE Still \/ (UNCHANGED <<items, batch, written, logged>> /\ (L!Open \/ L!Join))
  <2>1. UNCHANGED <<items, batch, written, logged>> /\ fd' \in {"stderr", "file"}
    BY <1>1 DEF Still, L!Open, L!Join, Handed
  <2>2. batch' # <<>> => writer' = "write"
    BY <2>1, WriterSteps DEF Handed
  <2>3. main' = "begin" => writer' = "none"
    BY WriterSteps DEF Handed
  <2> QED
    BY <2>1, <2>2, <2>3 DEF Handed
<1> QED
  BY <1>1, LogSteps, TakeHands, WriteHands, PushHands

\* The main program's steps.
LEMMA MainSteps ==
  ASSUME L!Next
  PROVE  \/ UNCHANGED <<paused, stopping, main, marks>>
            /\ (L!Thread \/ L!SpuriousWakeup \/ L!Push)
         \/ L!Start \/ L!Pause \/ L!Open \/ L!Resume \/ L!Stop \/ L!StopNotify \/ L!Join
  BY DEF L!Next, L!Main, L!Thread, L!Top, L!Sleep, L!SpuriousWakeup, L!Woken, L!Take, L!Write,
         L!Push

\* The thread ends with an empty list and nothing in hand.
LEMMA EndsKept ==
  ASSUME Handed, EndsWritten, L!Next
  PROVE  EndsWritten'
<1>1. /\ Len(written) \in Nat /\ Len(batch) \in Nat /\ Len(items) \in Nat /\ logged \in Nat
      /\ marks.stop \in Nat /\ marks.pause \in Nat
      /\ logged = Len(written) + Len(batch) + Len(items)
  BY LogLengths DEF EndsWritten, Handed
<1>2. /\ Len(written') \in Nat /\ Len(written') >= Len(written)
      /\ logged' \in Nat /\ logged' >= logged
  <2>1. CASE UNCHANGED <<written, logged>>
    BY <1>1, <2>1
  <2>2. CASE L!Write /\ batch # <<>>
    BY <1>1, <2>2, WriteHands DEF L!Write
  <2>3. CASE L!Push
    BY <1>1, <2>3, PushHands DEF L!Push
  <2> QED
    BY <2>1, <2>2, <2>3, LogSteps DEF Still
<1>3. CASE UNCHANGED <<paused, stopping, main, marks>>
           /\ (L!Thread \/ L!SpuriousWakeup \/ L!Push)
  <2>1. marks' \in [pause : Nat, stop : Nat] /\ marks'.stop <= logged'
    <3>1. marks \in [pause : Nat, stop : Nat] /\ marks' = marks
      BY <1>3 DEF EndsWritten
    <3>2. marks.stop <= logged'
      BY <1>1, <1>2 DEF EndsWritten
    <3> QED
      BY <3>1, <3>2
  <2>2. stopping' => main' \in {"stopping", "joining"}
    BY <1>3 DEF EndsWritten
  <2>3. main' = "stopped" => writer' = "ended"
    BY <1>3 DEF EndsWritten, L!Thread, L!Top, L!Sleep, L!SpuriousWakeup, L!Woken, L!Write, L!Push,
                L!NotifyAll
  <2>4. CASE writer = "ended"
    BY <1>1, <1>2, <1>3, <2>1, <2>2, <2>3, <2>4 DEF EndsWritten
  <2>5. CASE writer # "ended" /\ writer' = "ended"
    <3>1. L!Top /\ items = <<>> /\ stopping
      BY <1>3, <2>5 DEF L!Thread, L!Top, L!Take, L!Sleep, L!SpuriousWakeup, L!Woken, L!Write,
                        L!Push, L!NotifyAll
    <3>2. batch = <<>>
      BY <3>1 DEF L!Top, Handed
    <3>3. Len(written) = logged
      BY <1>1, <3>1, <3>2
    <3>4. main' \in {"stopping", "joining", "stopped"}
      BY <1>3, <3>1 DEF EndsWritten
    <3>5. marks'.stop <= Len(written')
      BY <1>1, <1>2, <1>3, <3>3 DEF EndsWritten
    <3> QED
      BY <1>1, <1>2, <1>3, <2>1, <2>2, <2>3, <3>4, <3>5 DEF EndsWritten
  <2>6. CASE writer' # "ended"
    BY <2>1, <2>2, <2>3, <2>6 DEF EndsWritten
  <2> QED
    BY <2>4, <2>5, <2>6
<1>4. CASE L!Start \/ L!Pause \/ L!Open \/ L!Resume
  <2>1. /\ main \in {"begin", "started", "paused", "opened"} /\ stopping' = stopping
        /\ main' \in {"started", "paused", "opened", "running"} /\ logged' = logged
    BY <1>4 DEF L!Start, L!Pause, L!Open, L!Resume
  <2>2. ~stopping /\ writer # "ended"
    BY <2>1 DEF EndsWritten
  <2>3. writer' # "ended"
    BY <1>4, <2>2 DEF L!Start, L!Pause, L!Open, L!Resume, L!NotifyAll
  <2>4. marks' \in [pause : Nat, stop : Nat] /\ marks'.stop = marks.stop
    <3>1. marks' = marks \/ marks' = [marks EXCEPT !.pause = logged]
      BY <1>4 DEF L!Start, L!Pause, L!Open, L!Resume
    <3> QED
      BY <1>1, <3>1 DEF EndsWritten
  <2> QED
    BY <2>1, <2>2, <2>3, <2>4 DEF EndsWritten
<1>5. CASE L!Stop
  <2>1. /\ main = "running" /\ main' = "stopping" /\ writer' = writer /\ logged' = logged
        /\ marks' = [marks EXCEPT !.stop = logged]
    BY <1>5 DEF L!Stop
  <2>2. writer' # "ended"
    BY <2>1 DEF EndsWritten
  <2>3. marks' \in [pause : Nat, stop : Nat] /\ marks'.stop = logged
    BY <1>1, <2>1 DEF EndsWritten
  <2> QED
    BY <1>1, <2>1, <2>2, <2>3 DEF EndsWritten
<1>6. CASE L!StopNotify
  <2>1. /\ main = "stopping" /\ main' = "joining" /\ (writer' = "ended" => writer = "ended")
        /\ UNCHANGED <<stopping, logged, marks, written>>
    BY <1>6 DEF L!StopNotify, L!NotifyAll
  <2> QED
    BY <2>1 DEF EndsWritten
<1>7. CASE L!Join
  <2>1. /\ main' = "stopped" /\ writer = "ended" /\ writer' = "ended" /\ ~stopping'
        /\ UNCHANGED <<logged, marks, written>>
    BY <1>7 DEF L!Join
  <2> QED
    BY <2>1 DEF EndsWritten
<1> QED
  BY <1>3, <1>4, <1>5, <1>6, <1>7, MainSteps

\* Nothing goes to stderr that was logged after the pause, if the file was opened.
LEMMA PausedKept ==
  ASSUME Handed, EndsWritten, PausedBefore, L!Next
  PROVE  PausedBefore'
<1>1. /\ Len(written) \in Nat /\ Len(batch) \in Nat /\ Len(items) \in Nat /\ logged \in Nat
      /\ marks.stop \in Nat /\ marks.pause \in Nat
      /\ logged = Len(written) + Len(batch) + Len(items)
  BY LogLengths DEF EndsWritten, Handed
<1>2. CASE UNCHANGED <<paused, stopping, main, marks>>
           /\ (L!Thread \/ L!SpuriousWakeup \/ L!Push)
  <2>1. fd' = fd
    BY <1>2 DEF L!Thread, L!Top, L!Sleep, L!SpuriousWakeup, L!Woken, L!Write, L!Push
  <2>2. CASE UNCHANGED <<batch, written>>
    BY <1>2, <2>1, <2>2 DEF PausedBefore, L!FileAfterPause
  <2>3. CASE L!Write /\ batch # <<>>
    <3>1. /\ Len(written') = Len(written) + 1 /\ Len(batch') = Len(batch) - 1
          /\ written'[Len(written) + 1].to = fd
          /\ \A k \in 1..Len(written) : written'[k] = written[k]
      BY <2>3, WriteHands
    <3>2. \A k \in 1..Len(written') : k \in 1..Len(written) \/ k = Len(written) + 1
      BY <1>1, <3>1
    <3>3. (L!FileAfterPause)'
      BY <1>2, <2>1, <3>1, <3>2 DEF PausedBefore, L!FileAfterPause
    <3>4. Len(written') + Len(batch') = Len(written) + Len(batch)
      BY <1>1, <3>1
    <3> QED
      BY <1>2, <2>1, <3>3, <3>4 DEF PausedBefore
  <2>4. CASE L!Take /\ ~paused /\ UNCHANGED written
    <3>1. main' \notin {"paused", "opened"}
      BY <1>2, <2>4 DEF PausedBefore
    <3> QED
      BY <1>2, <2>1, <2>4, <3>1 DEF PausedBefore, L!FileAfterPause
  <2> QED
    BY <1>2, <2>2, <2>3, <2>4, LogSteps DEF Still, L!Open, L!Join, L!Push
<1>3. CASE L!Start \/ L!Pause
  <2>1. fd' = fd /\ fd # "file" /\ UNCHANGED <<written, batch>>
    BY <1>3 DEF L!Start, L!Pause, PausedBefore
  <2>2. CASE L!Start
    BY <2>1, <2>2 DEF L!Start, PausedBefore, L!FileAfterPause
  <2>3. CASE L!Pause
    <3>1. main' = "paused" /\ paused' /\ marks' = [marks EXCEPT !.pause = logged]
      BY <2>3 DEF L!Pause
    <3>2. marks'.pause = logged
      BY <3>1 DEF EndsWritten
    <3> QED
      BY <1>1, <2>1, <3>1, <3>2 DEF PausedBefore, L!FileAfterPause
  <2> QED
    BY <1>3, <2>2, <2>3
<1>4. CASE L!Open
  <2>1. /\ main = "paused" /\ main' = "opened" /\ paused' = paused /\ paused
        /\ UNCHANGED <<written, marks>>
    BY <1>4 DEF L!Open, PausedBefore
  <2>2. Len(written) <= marks.pause
    BY <1>1, <2>1 DEF PausedBefore
  <2>3. (L!FileAfterPause)'
    BY <1>1, <2>1, <2>2 DEF L!FileAfterPause
  <2> QED
    BY <2>1, <2>3 DEF PausedBefore
<1>5. CASE L!Resume \/ L!Stop \/ L!StopNotify \/ L!Join
  <2>1. /\ main' \in {"running", "stopping", "joining", "stopped"} /\ written' = written
        /\ marks'.pause = marks.pause
        /\ fd' = "file" => fd = "file" /\ main' # "stopped"
    BY <1>5 DEF L!Resume, L!Stop, L!StopNotify, L!Join, EndsWritten
  <2>2. (L!FileAfterPause)'
    BY <2>1 DEF L!FileAfterPause, PausedBefore
  <2> QED
    BY <2>1, <2>2 DEF PausedBefore
<1> QED
  BY <1>2, <1>3, <1>4, <1>5, MainSteps

-----------------------------------------------------------------------------
(* The trace file *)

\* A file that is written to has its header and then the events, numbered.
Begun ==
  /\ file \in Seq(Int) /\ Len(file) # 0 /\ file[1] = T!Header
  /\ \A k \in 2..Len(file) : file[k] = k - 1

\* What was put is in the file, in the thread's hands or in the queue.
Traced ==
  /\ Begun
  /\ tracer = "write" =>
       event = Len(file) /\ From(queue, Len(file)) /\ put = Len(file) + Len(queue)
  /\ tracer # "write" => From(queue, Len(file) - 1) /\ put = Len(file) - 1 + Len(queue)

\* The thread of an open file ends only when all that was put before the close is
\* written, and a closed file is complete.
TraceWritten ==
  /\ put \in Nat /\ due \in Nat /\ due <= put
  /\ closing => owner \in {"menu", "quit"}
  /\ owner = "begin" => ~isOpen /\ queue = <<>> /\ put = 0 /\ file = <<>>
  /\ ~isOpen => tracer = "none"
  /\ isOpen => Traced /\ tracer # "none"
  /\ tracer = "ended" => owner \in {"menu", "quit"} /\ Len(file) - 1 >= due
  /\ T!Flushed

\* Nothing is open when the program begins.
LEMMA TraceInit == StartAll => TraceWritten
<1> SUFFICES ASSUME StartAll PROVE TraceWritten
  OBVIOUS
<1>1. /\ queue = <<>> /\ closing = FALSE /\ tracer = "none" /\ file = <<>>
      /\ isOpen = FALSE /\ owner = "begin" /\ put = 0 /\ due = 0
  BY DEF StartAll, T!Init
<1> QED
  BY <1>1 DEF TraceWritten, T!Flushed

\* The thread takes an event, writes it, or ends.
LEMMA TraceThreadKeeps ==
  ASSUME TraceWritten, T!Thread
  PROVE  TraceWritten'
<1>1. UNCHANGED <<closing, isOpen, owner, put, due>> /\ tracer # "none" /\ tracer' # "none"
  BY DEF T!Thread, T!Wait, T!Write
<1>2. isOpen /\ Traced /\ owner # "begin"
  BY <1>1 DEF TraceWritten
<1>3. /\ file \in Seq(Int) /\ Len(file) \in Nat \ {0} /\ put \in Nat /\ due \in Nat /\ due <= put
      /\ From(queue, Len(file)) \/ From(queue, Len(file) - 1)
  BY <1>2 DEF Traced, Begun, TraceWritten
<1>4. Len(queue) \in Nat
  BY <1>3 DEF From
<1>5. (T!Flushed)'
  BY <1>1, <1>2 DEF T!Flushed
<1>6. CASE T!Wait /\ tracer' = "ended"
  <2>1. queue = <<>> /\ closing /\ tracer = "wait" /\ UNCHANGED <<queue, event, file>>
    BY <1>6 DEF T!Wait
  <2>2. From(queue, Len(file) - 1) /\ put = Len(file) - 1 + Len(queue) /\ Len(queue) = 0
    BY <1>2, <2>1 DEF Traced
  <2>3. Len(file) - 1 >= due /\ owner \in {"menu", "quit"}
    BY <1>3, <2>1, <2>2 DEF TraceWritten
  <2>4. Traced'
    BY <1>1, <1>2, <1>6, <2>1, <2>2 DEF Traced, Begun
  <2> QED
    BY <1>1, <1>2, <1>5, <1>6, <2>1, <2>3, <2>4 DEF TraceWritten
<1>7. CASE T!Wait /\ tracer' # "ended"
  <2>1. /\ queue # <<>> /\ tracer = "wait" /\ tracer' = "write" /\ file' = file
        /\ event' = Head(queue) /\ queue' = Tail(queue)
    BY <1>7 DEF T!Wait
  <2>2. From(queue, Len(file) - 1) /\ put = Len(file) - 1 + Len(queue)
    BY <1>2, <2>1 DEF Traced
  <2>3. Len(file) - 1 \in Nat /\ (Len(file) - 1) + 1 = Len(file)
    BY <1>3
  <2>4. Head(queue) = Len(file) /\ From(Tail(queue), Len(file)) /\ Len(Tail(queue)) = Len(queue) - 1
    BY <2>1, <2>2, <2>3, FirstTaken
  <2>5. Begun'
    BY <1>2, <2>1 DEF Traced, Begun
  <2>6. put' = Len(file') + Len(queue')
    BY <1>1, <1>3, <1>4, <2>1, <2>2, <2>4
  <2>7. Traced'
    BY <2>1, <2>4, <2>5, <2>6 DEF Traced
  <2> QED
    BY <1>1, <1>2, <1>5, <2>1, <2>7 DEF TraceWritten
<1>8. CASE T!Write
  <2>1. /\ tracer = "write" /\ tracer' = "wait" /\ file' = Append(file, event) /\ queue' = queue
    BY <1>8 DEF T!Write
  <2>2. event = Len(file) /\ From(queue, Len(file)) /\ put = Len(file) + Len(queue)
    BY <1>2, <2>1 DEF Traced
  <2>3. /\ file' \in Seq(Int) /\ Len(file') = Len(file) + 1 /\ file'[Len(file) + 1] = Len(file)
        /\ \A k \in 1..Len(file) : file'[k] = file[k]
    BY <1>3, <2>1, <2>2
  <2>4. Begun'
    <3>1. \A k \in 2..Len(file') : k \in 2..Len(file) \/ k = Len(file) + 1
      BY <1>3, <2>3
    <3>2. \A k \in 2..Len(file) : file[k] = k - 1 /\ k \in 1..Len(file)
      BY <1>2, <1>3 DEF Traced, Begun
    <3>3. file'[1] = T!Header
      BY <1>2, <1>3, <2>3 DEF Traced, Begun
    <3>4. ASSUME NEW k \in 2..Len(file') PROVE file'[k] = k - 1
      <4>1. CASE k \in 2..Len(file)
        BY <2>3, <3>2, <4>1
      <4>2. CASE k = Len(file) + 1
        BY <1>3, <2>3, <4>2
      <4> QED
        BY <3>1, <4>1, <4>2
    <3>5. Len(file') # 0
      BY <1>3, <2>3
    <3> QED
      BY <2>3, <3>3, <3>4, <3>5 DEF Begun
  <2>5. Len(file') - 1 = Len(file)
    BY <1>3, <2>3
  <2>6. Traced'
    BY <1>1, <2>1, <2>2, <2>4, <2>5 DEF Traced
  <2> QED
    BY <1>1, <1>2, <1>5, <2>1, <2>6 DEF TraceWritten
<1> QED
  BY <1>6, <1>7, <1>8 DEF T!Thread

\* An event is put, whether a file is open or not.
LEMMA TracePutKeeps ==
  ASSUME TraceWritten, T!Put
  PROVE  TraceWritten'
<1>1. /\ owner # "begin" /\ put' = put + 1 /\ queue' = Append(queue, put + 1)
      /\ UNCHANGED <<closing, tracer, event, file, isOpen, owner, due>>
  BY DEF T!Put
<1>2. put \in Nat /\ due \in Nat /\ due <= put /\ put' \in Nat /\ due <= put'
  BY <1>1 DEF TraceWritten
<1>3. (T!Flushed)'
  BY <1>1 DEF T!Flushed, TraceWritten
<1>4. ASSUME isOpen PROVE Traced'
  <2>1. Traced /\ Begun /\ Len(file) \in Nat \ {0}
    BY <1>4 DEF TraceWritten, Traced, Begun
  <2>2. Begun'
    BY <1>1, <2>1 DEF Begun
  <2>3. ASSUME NEW n \in Nat, From(queue, n), put = n + Len(queue)
        PROVE  From(queue', n) /\ put' = n + Len(queue')
    <3>1. Len(queue) \in Nat /\ put + 1 = n + Len(queue) + 1
      BY <2>3 DEF From
    <3>2. From(Append(queue, put + 1), n) /\ Len(Append(queue, put + 1)) = Len(queue) + 1
      BY <2>3, <3>1, NextAdded
    <3> QED
      BY <1>1, <2>3, <3>1, <3>2
  <2>4. CASE tracer = "write"
    BY <1>1, <2>1, <2>2, <2>3, <2>4 DEF Traced
  <2>5. CASE tracer # "write"
    <3>1. Len(file) - 1 \in Nat
      BY <2>1
    <3> QED
      BY <1>1, <2>1, <2>2, <2>3, <2>5, <3>1 DEF Traced
  <2> QED
    BY <2>4, <2>5
<1> QED
  BY <1>1, <1>2, <1>3, <1>4 DEF TraceWritten

\* The file is opened with its first event, or not at all.
LEMMA TraceOpenKeeps ==
  ASSUME TraceWritten, T!Open
  PROVE  TraceWritten'
<1>1. /\ owner = "begin" /\ owner' = "running" /\ UNCHANGED <<closing, event, due>>
      /\ ~isOpen /\ queue = <<>> /\ put = 0 /\ file = <<>> /\ tracer = "none" /\ ~closing
      /\ due \in Nat /\ due <= put
  BY DEF T!Open, TraceWritten
<1>2. CASE UNCHANGED <<queue, tracer, file, isOpen, put>>
  BY <1>1, <1>2 DEF TraceWritten, T!Flushed
<1>3. CASE ~UNCHANGED <<queue, tracer, file, isOpen, put>>
  <2>1. /\ isOpen' /\ file' = <<T!Header>> /\ tracer' = "wait" /\ put' = 0 + 1
        /\ queue' = Append(<<>>, 0 + 1)
    BY <1>1, <1>3 DEF T!Open
  <2>2. From(queue', 0) /\ Len(queue') = 1
    <3>1. From(<<>>, 0) /\ Len(<<>>) = 0
      BY NothingFrom
    <3>2. 0 + 1 = 0 + Len(<<>>) + 1
      BY <3>1
    <3>3. From(Append(<<>>, 0 + 1), 0) /\ Len(Append(<<>>, 0 + 1)) = Len(<<>>) + 1
      BY <3>1, <3>2, NextAdded
    <3> QED
      BY <2>1, <3>1, <3>3
  <2>3. T!Header \in Int
    BY DEF T!Header
  <2>4. file' \in Seq(Int) /\ Len(file') = 1 /\ file'[1] = T!Header
    BY <2>1, <2>3
  <2>5. Begun'
    BY <2>4 DEF Begun
  <2>6. Traced'
    BY <2>1, <2>2, <2>4, <2>5 DEF Traced
  <2>7. (T!Flushed)'
    BY <2>1 DEF T!Flushed
  <2>8. put' \in Nat /\ due' \in Nat /\ due' <= put'
    BY <1>1, <2>1
  <2> QED
    BY <1>1, <2>1, <2>6, <2>7, <2>8 DEF TraceWritten
<1> QED
  BY <1>2, <1>3

\* The file is to be closed: from here on, what was put is due.
LEMMA TraceCloseKeeps ==
  ASSUME TraceWritten, NEW by \in {"menu", "quit"}, T!Close(by)
  PROVE  TraceWritten'
<1>1. /\ owner = "running" /\ owner' = by /\ due' = IF isOpen THEN put ELSE due
      /\ UNCHANGED <<queue, tracer, event, file, isOpen, put>>
  BY DEF T!Close
<1>2. put' \in Nat /\ due' \in Nat /\ due' <= put'
  BY <1>1 DEF TraceWritten
<1>3. tracer' # "ended"
  BY <1>1 DEF TraceWritten
<1>4. isOpen' => Traced'
  BY <1>1 DEF TraceWritten, Traced, Begun
<1>5. (T!Flushed)'
  <2>1. CASE isOpen
    BY <1>1, <2>1 DEF T!Flushed
  <2>2. CASE ~isOpen
    BY <1>1, <2>2 DEF T!Flushed, TraceWritten
  <2> QED
    BY <2>1, <2>2
<1> QED
  BY <1>1, <1>2, <1>3, <1>4, <1>5 DEF TraceWritten

\* The thread was joined: the file gets its end.
LEMMA TraceEndKeeps ==
  ASSUME TraceWritten, T!CloseEnd
  PROVE  TraceWritten'
<1>1. /\ owner \in {"menu", "quit"} /\ owner' # "begin" /\ tracer' = "none" /\ ~closing'
      /\ ~isOpen' /\ UNCHANGED <<queue, event, put, due>> /\ tracer \in {"none", "ended"}
  BY DEF T!CloseEnd
<1>2. (T!Flushed)'
  <2>1. CASE ~isOpen
    <3>1. file' = file
      BY <2>1 DEF T!CloseEnd
    <3> QED
      BY <1>1, <2>1, <3>1 DEF T!Flushed, TraceWritten
  <2>2. CASE isOpen
    <3>1. file' = file \o <<T!AppEnd, T!Footer>>
      BY <2>2 DEF T!CloseEnd
    <3>2. Begun /\ tracer = "ended" /\ Len(file) - 1 >= due
      BY <1>1, <2>2 DEF TraceWritten, Traced
    <3> DEFINE n == Len(file) - 1
               whole == <<T!Header>> \o [k \in 1..n |-> k]
    <3>3. file \in Seq(Int) /\ Len(file) \in Nat \ {0} /\ n \in Nat /\ Len(file) = n + 1
      BY <3>2 DEF Begun
    <3>4. T!Header \in Int /\ T!AppEnd \in Int /\ T!Footer \in Int
      BY DEF T!Header, T!AppEnd, T!Footer
    <3> HIDE DEF n
    <3>5. [k \in 1..n |-> k] \in Seq(Int) /\ Len([k \in 1..n |-> k]) = n
      BY <3>3
    <3>6. /\ whole \in Seq(Int) /\ Len(whole) = n + 1 /\ whole[1] = T!Header
          /\ \A k \in 2..n + 1 : whole[k] = [j \in 1..n |-> j][k - 1]
      BY <3>3, <3>4, <3>5
    <3>7. \A k \in 2..n + 1 : whole[k] = k - 1
      <4>1. \A k \in 2..n + 1 : k - 1 \in 1..n
        BY <3>3
      <4> QED
        BY <3>6, <4>1
    <3> HIDE DEF whole
    <3>8. \A k \in 1..Len(file) : file[k] = whole[k]
      <4>1. \A k \in 1..Len(file) : k = 1 \/ k \in 2..Len(file)
        BY <3>3
      <4> QED
        BY <3>2, <3>3, <3>6, <3>7, <4>1 DEF Begun
    <3>9. file = whole
      BY <3>3, <3>6, <3>8, SeqEqual
    <3>10. Len(file') - 3 = n
      BY <3>1, <3>3, <3>4
    <3> QED
      BY <1>1, <3>1, <3>2, <3>9, <3>10 DEF T!Flushed, n, whole
  <2> QED
    BY <2>1, <2>2
<1> QED
  BY <1>1, <1>2 DEF TraceWritten

\* Steps of the other threads.
LEMMA TraceFrame ==
  ASSUME TraceWritten, UNCHANGED trace
  PROVE  TraceWritten'
<1>1. UNCHANGED <<queue, closing, tracer, event, file, isOpen, owner, put, due>>
  BY DEF trace
<1>2. Traced' = Traced
  BY <1>1 DEF Traced, Begun
<1>3. (T!Flushed)' = T!Flushed
  BY <1>1 DEF T!Flushed
<1> QED
  BY <1>1, <1>2, <1>3 DEF TraceWritten

\* Every step of the trace log keeps the file in order.
LEMMA TraceKept == TraceWritten /\ T!Next => TraceWritten'
  BY TraceThreadKeeps, TracePutKeeps, TraceOpenKeeps, TraceCloseKeeps, TraceEndKeeps DEF T!Next

-----------------------------------------------------------------------------
\* However many messages are logged and events are put: what was handed over before a
\* stop is written when the stop returns, once and in order, and nothing that was logged
\* after the pause goes to stderr when the log file could be opened.
THEOREM AlwaysFlushed == Working => []Flushed
<1> DEFINE Inv == Handed /\ EndsWritten /\ PausedBefore /\ TraceWritten
<1>1. StartAll => Inv
  BY LogInit, TraceInit
<1>2. Inv /\ [Step]_allVars => Inv'
  <2> SUFFICES ASSUME Inv, [Step]_allVars PROVE Inv'
    OBVIOUS
  <2>1. UNCHANGED logger => (Handed /\ EndsWritten /\ PausedBefore)'
    BY DEF logger, Handed, EndsWritten, PausedBefore, L!FileAfterPause
  <2>2. UNCHANGED trace => TraceWritten'
    BY TraceFrame
  <2>3. CASE Logs
    BY <2>2, <2>3, HandedKept, EndsKept, PausedKept DEF Logs
  <2>4. CASE Traces
    BY <2>1, <2>4, TraceKept DEF Traces
  <2>5. CASE Asks \/ Loads \/ UNCHANGED allVars
    BY <2>1, <2>2, <2>5 DEF Asks, Loads, allVars
  <2> QED
    BY <2>3, <2>4, <2>5 DEF Step
<1>3. Inv => Flushed
  <2> SUFFICES ASSUME Inv PROVE Flushed
    OBVIOUS
  <2>1. L!Flushed
    BY DEF Handed, EndsWritten, L!Flushed
  <2> QED
    BY <2>1 DEF Flushed, PausedBefore, TraceWritten
<1> QED
  BY <1>1, <1>2, <1>3, PTL DEF Working

-----------------------------------------------------------------------------
(* Types *)

\* What the lists of the threads need from being sequences.
LEMMA ListTypes ==
  ASSUME NEW S, NEW s \in Seq(S)
  PROVE  /\ \A e \in S : Append(s, e) \in Seq(S)
         /\ s # <<>> => Head(s) \in S /\ Tail(s) \in Seq(S)
  OBVIOUS

\* The logger's types.
LEMMA LogTyped ==
  ASSUME L!TypeOK, L!Next
  PROVE  L!TypeOK'
<1> DEFINE L1 == [message : 1..MaxLogs, to : {"stderr", "file"}]
           Numbered == 1..MaxLogs
<1>0. /\ MaxLogs \in Nat /\ items \in Seq(Numbered) /\ batch \in Seq(Numbered)
      /\ written \in Seq(L1) /\ <<>> \in Seq(Numbered) /\ fd \in {"stderr", "file"}
  BY BoundAssumption DEF L!TypeOK
<1>1. /\ items' \in Seq(Numbered) /\ batch' \in Seq(Numbered) /\ written' \in Seq(L1)
      /\ logged' \in 0..MaxLogs
  <2>1. CASE L!Push
    <3>1. /\ logged' = logged + 1 /\ items' = Append(items, logged') /\ logged < MaxLogs
          /\ UNCHANGED <<batch, written>>
      BY <2>1 DEF L!Push
    <3>2. logged' \in Numbered /\ logged' \in 0..MaxLogs
      BY <1>0, <3>1 DEF L!TypeOK
    <3>3. items' \in Seq(Numbered)
      BY <1>0, <3>1, <3>2, ListTypes
    <3> QED
      BY <1>0, <3>1, <3>2, <3>3
  <2>2. CASE L!Write
    <3>1. UNCHANGED <<items, logged>>
      BY <2>2 DEF L!Write
    <3>2. CASE batch = <<>>
      BY <1>0, <2>2, <3>1, <3>2 DEF L!Write, L!TypeOK
    <3>3. CASE batch # <<>>
      <4>1. /\ written' = Append(written, [message |-> Head(batch), to |-> fd])
            /\ batch' = Tail(batch)
        BY <2>2, <3>3 DEF L!Write
      <4>2. Head(batch) \in Numbered /\ Tail(batch) \in Seq(Numbered)
        BY <1>0, <3>3, ListTypes
      <4>3. [message |-> Head(batch), to |-> fd] \in L1
        BY <1>0, <4>2
      <4>4. Append(written, [message |-> Head(batch), to |-> fd]) \in Seq(L1)
        BY <1>0, <4>3, ListTypes
      <4> QED
        BY <3>1, <4>1, <4>2, <4>4 DEF L!TypeOK
    <3> QED
      BY <3>2, <3>3
  <2>3. CASE L!Top \/ L!Woken
    BY <1>0, <2>3 DEF L!Top, L!Woken, L!Take, L!TypeOK
  <2>4. CASE L!Sleep \/ L!SpuriousWakeup \/ L!Main
    <3>1. UNCHANGED <<items, batch, written, logged>>
      BY <2>4 DEF L!Sleep, L!SpuriousWakeup, L!Main, L!Start, L!Pause, L!Open, L!Resume, L!Stop,
                  L!StopNotify, L!Join
    <3> QED
      BY <1>0, <3>1 DEF L!TypeOK
  <2> QED
    BY <2>1, <2>2, <2>3, <2>4 DEF L!Next, L!Thread
<1>2. /\ paused' \in BOOLEAN /\ stopping' \in BOOLEAN /\ fd' \in {"stderr", "file"}
      /\ marks' \in [pause : 0..MaxLogs, stop : 0..MaxLogs]
  <2>1. CASE L!Main
    BY <2>1 DEF L!Main, L!Start, L!Pause, L!Open, L!Resume, L!Stop, L!StopNotify, L!Join, L!TypeOK
  <2>2. CASE L!Thread \/ L!SpuriousWakeup \/ L!Push
    BY <2>2 DEF L!Thread, L!Top, L!Sleep, L!SpuriousWakeup, L!Woken, L!Take, L!Write, L!Push,
                L!TypeOK
  <2> QED
    BY <2>1, <2>2 DEF L!Next
<1>3. writer' \in L!WriterPCs /\ main' \in L!MainPCs
  <2>1. CASE L!Main
    BY <2>1 DEF L!Main, L!Start, L!Pause, L!Open, L!Resume, L!Stop, L!StopNotify, L!Join,
                L!NotifyAll, L!TypeOK, L!WriterPCs, L!MainPCs
  <2>2. CASE L!Thread \/ L!SpuriousWakeup \/ L!Push
    BY <2>2 DEF L!Thread, L!Top, L!Sleep, L!SpuriousWakeup, L!Woken, L!Take, L!Write, L!Push,
                L!NotifyAll, L!TypeOK, L!WriterPCs, L!MainPCs
  <2> QED
    BY <2>1, <2>2 DEF L!Next
<1> QED
  BY <1>1, <1>2, <1>3 DEF L!TypeOK

\* The trace log's types; an event that is being written has a number.
LEMMA TraceTyped ==
  ASSUME T!TypeOK, tracer = "write" => event \in 1..MaxEvents, T!Next
  PROVE  T!TypeOK' /\ (tracer' = "write" => event' \in 1..MaxEvents)
<1> DEFINE Numbered == 1..MaxEvents
           Entries == (1..MaxEvents) \cup {T!Header, T!AppEnd, T!Footer}
<1>0. /\ MaxEvents \in Nat /\ queue \in Seq(Numbered) /\ file \in Seq(Entries)
      /\ put \in 0..MaxEvents /\ event \in 0..MaxEvents /\ Numbered \subseteq 0..MaxEvents
  BY BoundAssumption DEF T!TypeOK
<1>1. CASE T!Wait
  <2>1. /\ queue # <<>> => Head(queue) \in Numbered /\ Tail(queue) \in Seq(Numbered)
        /\ UNCHANGED <<closing, file, isOpen, owner, put, due>>
    BY <1>0, <1>1, ListTypes DEF T!Wait
  <2>2. CASE tracer' = "ended" /\ UNCHANGED <<queue, event>>
    BY <2>1, <2>2 DEF T!TypeOK
  <2>3. CASE queue # <<>> /\ tracer' = "write" /\ event' = Head(queue) /\ queue' = Tail(queue)
    BY <1>0, <2>1, <2>3 DEF T!TypeOK
  <2> QED
    BY <1>1, <2>2, <2>3 DEF T!Wait
<1>2. CASE T!Write
  <2>1. /\ event \in Entries /\ file' = Append(file, event) /\ tracer' = "wait"
        /\ UNCHANGED <<queue, closing, event, isOpen, owner, put, due>>
    BY <1>2 DEF T!Write
  <2>2. file' \in Seq(Entries)
    BY <1>0, <2>1, ListTypes
  <2> QED
    BY <2>1, <2>2 DEF T!TypeOK
<1>3. ASSUME put < MaxEvents, put' = put + 1, queue' = Append(queue, put')
      PROVE  put' \in 0..MaxEvents /\ queue' \in Seq(Numbered)
  <2>1. put' \in Numbered
    BY <1>0, <1>3
  <2> QED
    BY <1>0, <1>3, <2>1, ListTypes
<1>4. CASE T!Put
  BY <1>3, <1>4 DEF T!Put, T!TypeOK
<1>5. CASE T!Open
  <2>1. <<T!Header>> \in Seq(Entries)
    OBVIOUS
  <2>2. CASE UNCHANGED <<queue, tracer, file, isOpen, put>>
    BY <1>5, <2>2 DEF T!Open, T!TypeOK, T!OwnerPCs
  <2>3. CASE ~UNCHANGED <<queue, tracer, file, isOpen, put>>
    BY <1>3, <1>5, <2>1, <2>3 DEF T!Open, T!TypeOK, T!OwnerPCs
  <2> QED
    BY <2>2, <2>3
<1>6. CASE T!Close("menu") \/ T!Close("quit")
  BY <1>6 DEF T!Close, T!TypeOK, T!OwnerPCs
<1>7. CASE T!CloseEnd
  <2>1. file \o <<T!AppEnd, T!Footer>> \in Seq(Entries)
    <3>1. <<T!AppEnd, T!Footer>> \in Seq(Entries)
      OBVIOUS
    <3> HIDE DEF Entries
    <3> QED
      BY <1>0, <3>1, ConcatProperties
  <2>2. file' \in Seq(Entries)
    BY <1>0, <1>7, <2>1 DEF T!CloseEnd
  <2> QED
    BY <1>7, <2>2 DEF T!CloseEnd, T!TypeOK, T!OwnerPCs
<1> QED
  BY <1>1, <1>2, <1>4, <1>5, <1>6, <1>7 DEF T!Next, T!Thread

\* The types of the thread that asks, and of its dialog.
LEMMA AskTyped ==
  ASSUME G!TypeOK, G!Next
  PROVE  G!TypeOK'
<1> DEFINE Answer == [diff : 0..MaxAsked, model : 0..MaxAsked]
<1>0. MaxAsked \in Nat /\ answers \in Seq(Answer) /\ asked \in 0..MaxAsked
  BY BoundAssumption DEF G!TypeOK
<1>1. answers' \in Seq(Answer)
  <2>1. CASE G!Reply
    <3>1. [diff |-> prompt, model |-> fields] \in Answer
      BY DEF G!TypeOK
    <3>2. answers' = Append(answers, [diff |-> prompt, model |-> fields])
      BY <2>1 DEF G!Reply
    <3> HIDE DEF Answer
    <3> QED
      BY <1>0, <3>1, <3>2, ListTypes
  <2>2. CASE G!OnReady
    <3>1. answers # <<>> /\ answers' = Tail(answers)
      BY <2>2 DEF G!OnReady
    <3> QED
      BY <1>0, <3>1, ListTypes
  <2>3. CASE ~G!Reply /\ ~G!OnReady
    <3>1. answers' = answers
      BY <2>3 DEF G!Next, G!Thread, G!Top, G!Sleep, G!SpuriousWakeup, G!Woken, G!Read, G!Generate,
                  G!Stop, G!StopNotify, G!Join
    <3> QED
      BY <1>0, <3>1
  <2> QED
    BY <2>1, <2>2, <2>3
<1>2. /\ requested' \in BOOLEAN /\ interrupted' \in BOOLEAN /\ enabled' \in BOOLEAN
      /\ fields' \in 0..MaxAsked /\ prompt' \in 0..MaxAsked /\ asked' \in 0..MaxAsked
  <2>1. CASE G!Thread \/ G!SpuriousWakeup
    BY <2>1 DEF G!Thread, G!Top, G!Sleep, G!SpuriousWakeup, G!Woken, G!Read, G!Reply, G!user,
                G!TypeOK
  <2>2. CASE G!Generate
    <3>1. \/ UNCHANGED <<fields, requested, asked>>
          \/ asked < MaxAsked /\ asked' = asked + 1 /\ fields' = asked' /\ requested' = TRUE
      BY <2>2 DEF G!Generate
    <3>2. asked < MaxAsked => asked + 1 \in 0..MaxAsked
      BY <1>0
    <3>3. interrupted' \in BOOLEAN /\ ~enabled' /\ enabled' \in BOOLEAN /\ prompt' = prompt
      BY <2>2 DEF G!Generate, G!TypeOK
    <3> QED
      BY <3>1, <3>2, <3>3 DEF G!TypeOK
  <2>3. CASE G!OnReady \/ G!Stop \/ G!StopNotify \/ G!Join
    BY <2>3 DEF G!OnReady, G!Stop, G!StopNotify, G!Join, G!TypeOK
  <2> QED
    BY <2>1, <2>2, <2>3 DEF G!Next
<1>3. gen' \in G!GenPCs /\ dialog' \in G!DialogPCs
  BY DEF G!Next, G!Thread, G!Top, G!Sleep, G!SpuriousWakeup, G!Woken, G!Read, G!Reply, G!Generate,
         G!OnReady, G!Stop, G!StopNotify, G!Join, G!NotifyAll, G!user, G!TypeOK, G!GenPCs,
         G!DialogPCs
<1> QED
  BY <1>1, <1>2, <1>3 DEF G!TypeOK

\* The variables of Logger, TraceEventWriter and GenerateCommitMessageThread have
\* their types, whatever the bounds.
THEOREM WorkersTyped == Working => [](L!TypeOK /\ T!TypeOK /\ G!TypeOK)
<1> DEFINE Numbered == tracer = "write" => event \in 1..MaxEvents
           Inv == L!TypeOK /\ T!TypeOK /\ G!TypeOK /\ Numbered
<1>1. StartAll => Inv
  <2> SUFFICES ASSUME StartAll PROVE Inv
    OBVIOUS
  <2>1. 0 \in 0..MaxLogs /\ 0 \in 0..MaxEvents /\ 0 \in 0..MaxAsked
    BY BoundAssumption
  <2>2. L!TypeOK
    <3>1. /\ items = <<>> /\ paused = FALSE /\ stopping = FALSE /\ fd = "stderr"
          /\ writer = "none" /\ batch = <<>> /\ main = "begin" /\ logged = 0
          /\ written = <<>> /\ marks = [pause |-> 0, stop |-> 0]
      BY DEF StartAll, L!Init
    <3> QED
      BY <2>1, <3>1, EmptySeq DEF L!TypeOK, L!WriterPCs, L!MainPCs
  <2>3. T!TypeOK /\ Numbered
    <3>1. /\ queue = <<>> /\ closing = FALSE /\ tracer = "none" /\ event = 0
          /\ file = <<>> /\ isOpen = FALSE /\ owner = "begin" /\ put = 0 /\ due = 0
      BY DEF StartAll, T!Init
    <3> QED
      BY <2>1, <3>1, EmptySeq DEF T!TypeOK, T!OwnerPCs
  <2>4. G!TypeOK
    <3>1. /\ requested = FALSE /\ fields = 0 /\ interrupted = FALSE
          /\ gen = "top" /\ prompt = 0 /\ answers = <<>>
          /\ enabled = TRUE /\ dialog = "new" /\ asked = 0
      BY DEF StartAll, G!Init
    <3> QED
      BY <2>1, <3>1, EmptySeq DEF G!TypeOK, G!GenPCs, G!DialogPCs
  <2> QED
    BY <2>2, <2>3, <2>4
<1>2. Inv /\ [Step]_allVars => Inv'
  <2> SUFFICES ASSUME Inv, [Step]_allVars PROVE Inv'
    OBVIOUS
  <2>1. UNCHANGED logger => L!TypeOK'
    BY DEF logger, L!TypeOK
  <2>2. UNCHANGED trace => T!TypeOK' /\ Numbered'
    BY DEF trace, T!TypeOK
  <2>3. UNCHANGED message => G!TypeOK'
    BY DEF message, G!TypeOK
  <2>4. CASE Logs
    BY <2>2, <2>3, <2>4, LogTyped DEF Logs
  <2>5. CASE Traces
    BY <2>1, <2>3, <2>5, TraceTyped DEF Traces
  <2>6. CASE Asks
    BY <2>1, <2>2, <2>6, AskTyped DEF Asks
  <2>7. CASE Loads \/ UNCHANGED allVars
    BY <2>1, <2>2, <2>3, <2>7 DEF Loads, allVars
  <2> QED
    BY <2>4, <2>5, <2>6, <2>7 DEF Step
<1> QED
  BY <1>1, <1>2, PTL DEF Working

-----------------------------------------------------------------------------
(* Threads that are told to end *)

\* Whoever joins a thread has set its flag.
FlagSet ==
  /\ main \in {"stopping", "joining"} => stopping
  /\ dialog \in {"stopping", "joining"} => interrupted

\* A thread that is awake while it is joined does not go to wait again.
StaysAwake ==
  /\ main = "joining" /\ writer \notin {"check", "wait"} => writer' \notin {"check", "wait"}
  /\ dialog = "joining" /\ gen \notin {"check", "wait"} => gen' \notin {"check", "wait"}

\* The flag stays until the join, and both threads look at it before they wait.
LEMMA FlagSteps ==
  ASSUME FlagSet, [Step]_allVars
  PROVE  FlagSet' /\ StaysAwake
<1>1. CASE Logs
  <2>1. UNCHANGED message
    BY <1>1 DEF Logs
  <2>2. CASE L!Thread \/ L!SpuriousWakeup \/ L!Push
    BY <2>1, <2>2 DEF L!Thread, L!Top, L!Sleep, L!SpuriousWakeup, L!Woken, L!Take, L!Write,
       L!Push, L!NotifyAll, message, FlagSet, StaysAwake
  <2>3. CASE L!Main
    BY <2>1, <2>3 DEF L!Main, L!Start, L!Pause, L!Open, L!Resume, L!Stop, L!StopNotify, L!Join,
       L!NotifyAll, message, FlagSet, StaysAwake
  <2> QED
    BY <1>1, <2>2, <2>3 DEF Logs, L!Next
<1>2. CASE Asks
  <2>1. UNCHANGED logger
    BY <1>2 DEF Asks
  <2>2. CASE G!Thread \/ G!SpuriousWakeup
    BY <2>1, <2>2 DEF G!Thread, G!Top, G!Sleep, G!SpuriousWakeup, G!Woken, G!Read, G!Reply,
       G!user, logger, FlagSet, StaysAwake
  <2>3. CASE G!Generate \/ G!OnReady \/ G!Stop \/ G!StopNotify \/ G!Join
    BY <2>1, <2>3 DEF G!Generate, G!OnReady, G!Stop, G!StopNotify, G!Join, G!NotifyAll,
       logger, FlagSet, StaysAwake
  <2> QED
    BY <1>2, <2>2, <2>3 DEF Asks, G!Next
<1>3. CASE Traces \/ Loads \/ UNCHANGED allVars
  BY <1>3 DEF Traces, Loads, allVars, logger, message, FlagSet, StaysAwake
<1> QED
  BY <1>1, <1>2, <1>3 DEF Step

\* Logger::stop and GenerateCommitMessageThread::stop: a notification can only be missed
\* by a thread that is between its look at the flag and its wait, or waits already; every
\* other thread that is joined is on its way to its end.
THEOREM ToldStaysAwake == Working => [][StaysAwake]_allVars
<1>1. StartAll => FlagSet
  BY DEF StartAll, L!Init, G!Init, FlagSet
<1> QED
  BY <1>1, FlagSteps, PTL DEF Working

================================================================================
