---------------------------- MODULE PtyGitProofs ----------------------------
(***************************************************************************)
(* What holds of the git commands on the terminal for any number of        *)
(* requests and commits: when the queue's front is there to be read, that  *)
(* a command is launched once, that only a commit can collide with a       *)
(* request, and that a patient user's callbacks are the commands' own.     *)
(***************************************************************************)
EXTENDS PtyGit, SequenceTheorems, TLAPS

Requester == Request \cup {NoRequest, Commit}
Signal == [ok : BOOLEAN, callback : Requester, of : Requester]

Types ==
  /\ phase \in Phases /\ worker \in WorkerPCs /\ interrupt \in BOOLEAN
  /\ requests \in Seq(Request) /\ {req, callback, cmd} \subseteq Requester
  /\ signals \in Seq(Signal) /\ called \in Seq(Signal) /\ ran \in Seq(Nat)
  /\ made \in Nat /\ commits \in Nat /\ astray \in BOOLEAN

\* From the look at its front until it is removed, the request the thread works on
\* is the front, unless it went astray; a thread that was notified finds one, or ends.
Working == worker \in {"run", "start", "launch", "finish"}

QueueOK ==
  /\ Working /\ ~astray => requests # <<>> /\ requests[1] = req
  /\ worker = "take" /\ ~interrupt => requests # <<>>
  /\ gui = "quit" => interrupt

\* Requests are numbered in the order they were made and launched in that order:
\* what was launched came before whatever is still queued, but for the front of a
\* thread that is about to remove it.
Launched(k) == worker = "finish" /\ k = 1

OrderOK ==
  /\ \A k \in 1..Len(requests) : requests[k].id <= made
  /\ \A j, k \in 1..Len(requests) : j < k => requests[j].id < requests[k].id
  /\ \A j \in 1..Len(ran) : ran[j] <= made
  /\ \A j, k \in 1..Len(ran) : j < k => ran[j] < ran[k]
  /\ \A j \in 1..Len(ran), k \in 1..Len(requests) : Launched(k) \/ ran[j] < requests[k].id

\* The latest request has not been answered: it is still to be launched, its
\* command is on the terminal, or its signal is under way - one of these at most.
Unanswered == \A k \in 1..Len(called) : called[k].of.id < made

Queued == requests # <<>> /\ worker # "finish"
OnTerminal == phase \in {"running", "completed"}

\* Each callback that was called was that of its command, in the order of the requests.
Answers ==
  /\ \A k \in 1..Len(called) : called[k].callback = called[k].of /\ called[k].of.id <= made
  /\ \A j, k \in 1..Len(called) : j < k => called[j].of.id < called[k].of.id

Served ==
  /\ gui \notin {"launch", "committing", "refused"}
  /\ Len(requests) <= 1 /\ Len(signals) <= 1
  /\ requests # <<>> => requests[1].id = made
  /\ Queued => phase = "none" /\ signals = <<>> /\ Unanswered
  /\ OnTerminal => cmd = callback /\ cmd.id = made /\ signals = <<>> /\ Unanswered
  /\ worker \in {"start", "launch"} => callback = req
  /\ signals # <<>> => /\ signals[1].of = signals[1].callback
                       /\ signals[1].of.id = made /\ Unanswered
  /\ Answers

CalmOK == Calm => Served


-----------------------------------------------------------------------------
(* Sequences that grow at one end and shrink at the other. *)

\* What was appended is the last element and the others keep their places.
LEMMA Grown ==
  ASSUME NEW S, NEW s \in Seq(S), NEW e \in S
  PROVE  /\ Append(s, e) \in Seq(S) /\ Len(Append(s, e)) = Len(s) + 1
         /\ \A k \in 1..Len(Append(s, e)) :
              \/ k \in 1..Len(s) /\ Append(s, e)[k] = s[k]
              \/ k = Len(s) + 1 /\ Append(s, e)[k] = e
         /\ Append(s, e) # <<>> /\ (s # <<>> => Append(s, e)[1] = s[1])
<1>1. Len(s) \in Nat /\ (s # <<>> => Len(s) # 0)
  BY LenProperties, EmptySeq
<1> QED
  BY <1>1, AppendProperties

\* The front is the first element, and the others move up by one.
LEMMA Shrunk ==
  ASSUME NEW S, NEW s \in Seq(S), s # <<>>
  PROVE  /\ Head(s) = s[1] /\ s[1] \in S /\ Tail(s) \in Seq(S)
         /\ Len(s) \in Nat \ {0} /\ Len(Tail(s)) = Len(s) - 1
         /\ \A k \in 1..Len(Tail(s)) : k + 1 \in 1..Len(s) /\ Tail(s)[k] = s[k + 1]
<1>1. Len(s) \in Nat \ {0}
  BY EmptySeq
<1>2. Head(s) = s[1] /\ s[1] \in S
  BY <1>1, ElementOfSeq
<1> QED
  BY <1>1, <1>2, HeadTailProperties

\* An element of a sequence that is not empty, and of one that has at most one.
LEMMA Single ==
  ASSUME NEW S, NEW s \in Seq(S)
  PROVE  /\ Len(s) \in Nat /\ (s # <<>> => 1 \in 1..Len(s))
         /\ Len(s) <= 1 /\ s # <<>> => Tail(s) = <<>>
         /\ s = <<>> => Len(s) = 0
<1>1. Len(s) \in Nat /\ (s # <<>> => Len(s) # 0) /\ (s = <<>> => Len(s) = 0)
  BY LenProperties, EmptySeq
<1>2. ASSUME Len(s) <= 1, s # <<>> PROVE Tail(s) = <<>>
  <2>1. Tail(s) \in Seq(S) /\ Len(Tail(s)) = Len(s) - 1
    BY <1>2, Shrunk
  <2>2. Len(Tail(s)) = 0
    BY <1>1, <1>2, <2>1
  <2> QED
    BY <2>1, <2>2, EmptySeq
<1> QED
  BY <1>1, <1>2

\* The first element of a sequence that was empty.
LEMMA First ==
  ASSUME NEW e
  PROVE  Append(<<>>, e) = <<e>> /\ Len(<<e>>) = 1 /\ <<e>>[1] = e
  OBVIOUS

\* A sequence is injective when an earlier element never is a later one.
LEMMA Injective ==
  ASSUME NEW S, NEW s \in Seq(S), \A j, k \in 1..Len(s) : j < k => s[j] # s[k]
  PROVE  IsInjective(s)
<1>1. DOMAIN s = 1..Len(s) /\ Len(s) \in Nat
  BY LenProperties
<1>2. \A j, k \in 1..Len(s) : s[j] = s[k] => j = k
  BY <1>1
<1> QED
  BY <1>1, <1>2 DEF IsInjective

-----------------------------------------------------------------------------
(* The types. *)

\* A request has a number, as what stands for none and for a commit has.
LEMMA Numbers ==
  /\ Request \subseteq Requester /\ NoRequest \in Requester /\ Commit \in Requester
  /\ \A r \in Requester : r.id \in Nat
  /\ \A s \in Signal : s.of \in Requester /\ s.callback \in Requester
<1>1. MaxRequests \in Nat
  BY PtyGitAssumption
<1> QED
  BY <1>1 DEF Requester, Request, NoRequest, Commit, Signal

\* Every step keeps the types.
LEMMA TypesKept == Types /\ [Next]_vars => Types'
<1> SUFFICES ASSUME Types, [Next]_vars
             PROVE  Types'
  OBVIOUS
<1> USE Numbers
<1>1. CASE Top \/ Sleep \/ SpuriousWakeup
  BY <1>1 DEF Types, Top, Sleep, SpuriousWakeup, queueOnly, sane, pty, WorkerPCs
<1>2. CASE Take
  <2>1. CASE interrupt
    BY <1>2, <2>1 DEF Types, Take, queueOnly, sane, pty, WorkerPCs
  <2>2. CASE ~interrupt
    <3>1. Head(requests) \in Requester
      BY <1>2, <2>2, Shrunk DEF Types, Take
    <3> QED
      BY <1>2, <2>2, <3>1 DEF Types, Take, queueOnly, sane, pty, WorkerPCs
  <2> QED
    BY <2>1, <2>2
<1>3. CASE Finish
  <2>1. Tail(requests) \in Seq(Request)
    BY <1>3, Shrunk DEF Types, Finish
  <2> QED
    BY <1>3, <2>1 DEF Types, Finish, queueOnly, sane, pty, WorkerPCs
<1>4. CASE SetCallback
  BY <1>4 DEF Types, SetCallback, commandOnly, pty, WorkerPCs
<1>5. CASE StartFails
  <2>1. [ok |-> FALSE, callback |-> req, of |-> req] \in Signal
    BY DEF Types, Signal
  <2>2. signals' \in Seq(Signal)
    BY <1>5, <2>1, Grown DEF Types, StartFails
  <2> QED
    BY <1>5, <2>2 DEF Types, StartFails, commandOnly, pty, WorkerPCs
<1>6. CASE StartIgnored
  BY <1>6 DEF Types, StartIgnored, commandOnly, pty, WorkerPCs
<1>7. CASE StartReset
  BY <1>7 DEF Types, StartReset, Reset, commandOnly, pty, WorkerPCs
<1>8. CASE StartThread
  <2>1. req.id \in Nat
    BY DEF Types
  <2>2. ran' \in Seq(Nat)
    BY <1>8, <2>1, Grown DEF Types, StartThread
  <2> QED
    BY <1>8, <2>2 DEF Types, StartThread, Launch, commandOnly, Phases, WorkerPCs
<1>9. CASE Terminate
  BY <1>9 DEF Types, Terminate, pty
<1>10. CASE CommandCompletes
  BY <1>10 DEF Types, CommandCompletes, Complete, guiOnly, Phases
<1>11. CASE NotifyCompleted
  <2>1. [ok |-> TRUE, callback |-> callback, of |-> cmd] \in Signal
    BY DEF Types, Signal
  <2>2. signals' \in Seq(Signal)
    BY <1>11, <2>1, Grown DEF Types, NotifyCompleted
  <2> QED
    BY <1>11, <2>2 DEF Types, NotifyCompleted, Notify, guiOnly, Phases
<1>12. CASE Callback
  <2>1. signals' \in Seq(Signal) /\ Head(signals) \in Signal
    BY <1>12, Shrunk DEF Types, Callback
  <2>2. called' \in Seq(Signal)
    BY <1>12, <2>1, Grown DEF Types, Callback
  <2> QED
    BY <1>12, <2>1, <2>2 DEF Types, Callback, pty
<1>13. CASE CommitThread
  BY <1>13 DEF Types, CommitThread, Launch, Phases
<1>14. CASE CommitWaits \/ ReopenWaits \/ QuitWaits
  BY <1>14 DEF Types, CommitWaits, ReopenWaits, QuitWaits, Join, waitOnly, pty, Phases
<1>15. CASE ReopenTimesOut \/ StopWaits \/ Stop \/ QuitJoins
  BY <1>15 DEF Types, ReopenTimesOut, StopWaits, Stop, QuitJoins, Interrupt, waitOnly, pty
<1>16. CASE StopJoins
  BY <1>16 DEF Types, StopJoins, Join, waitOnly, Phases
<1>17. CASE Quit
  BY <1>17 DEF Types, Quit, pty
<1>18. CASE QuitNotifies
  BY <1>18 DEF Types, QuitNotifies, pty, WorkerPCs
<1>19. ASSUME NEW kind \in {"open", "list"}, MakeRequest(kind)
       PROVE  Types'
  <2>1. [id |-> made + 1, callback |-> kind] \in Request
    BY <1>19, PtyGitAssumption DEF Types, MakeRequest, Request
  <2>2. requests' \in Seq(Request)
    BY <1>19, <2>1, Grown DEF Types, MakeRequest, Push
  <2> QED
    BY <1>19, <2>2 DEF Types, MakeRequest, pty, WorkerPCs
<1>20. CASE CommitStarts
  BY <1>20 DEF Types, CommitStarts, Reset, pty
<1>21. CASE TakeNothing \/ FinishNothing
  BY <1>21 DEF Types, TakeNothing, FinishNothing, queueOnly, pty, WorkerPCs
<1>22. CASE Over \/ UNCHANGED vars
  BY <1>22 DEF Types, Over, vars, pty
<1> QED
  BY <1>1, <1>2, <1>3, <1>4, <1>5, <1>6, <1>7, <1>8, <1>9, <1>10, <1>11, <1>12, <1>13,
     <1>14, <1>15, <1>16, <1>17, <1>18, <1>19, <1>20, <1>21, <1>22
     DEF Next, Worker, Pty, Gui, User

-----------------------------------------------------------------------------
(* The queue. *)

\* What the git thread does not do leaves the queue and the thread alone, but for
\* a request, the flag and the notification at the end.
Elsewhere ==
  \/ Terminate \/ CommandCompletes \/ NotifyCompleted \/ Callback \/ CommitThread
  \/ CommitWaits \/ ReopenWaits \/ QuitWaits \/ ReopenTimesOut \/ StopWaits \/ Stop
  \/ QuitJoins \/ StopJoins \/ CommitStarts \/ Over \/ UNCHANGED vars

\* What the others do leaves the queue and the git thread alone.
LEMMA ElsewhereKeeps ==
  Elsewhere => /\ UNCHANGED <<requests, worker, req, interrupt, made, ran, astray>>
               /\ gui' = "quit" => gui = "quit"
  BY DEF Elsewhere, Terminate, CommandCompletes, NotifyCompleted, Callback, CommitThread,
         CommitWaits, ReopenWaits, QuitWaits, ReopenTimesOut, StopWaits, Stop, QuitJoins,
         StopJoins, CommitStarts, Over, vars, waitOnly, guiOnly

\* The git thread finds a request when it looks and works on the front of the queue
\* until it removes it, whatever is put behind it meanwhile.
LEMMA QueueKept == Types /\ QueueOK /\ [Next]_vars => QueueOK'
<1> SUFFICES ASSUME Types, QueueOK, [Next]_vars
             PROVE  QueueOK'
  OBVIOUS
<1>1. CASE Top \/ Sleep \/ SpuriousWakeup
  BY <1>1 DEF QueueOK, Working, Top, Sleep, SpuriousWakeup, queueOnly, sane
<1>2. CASE Take
  <2>1. CASE interrupt
    BY <1>2, <2>1 DEF QueueOK, Working, Take, queueOnly, sane
  <2>2. CASE ~interrupt
    <3>1. requests # <<>> /\ Head(requests) = requests[1]
      BY <1>2, <2>2, Shrunk DEF Types, Take
    <3> QED
      BY <1>2, <2>2, <3>1 DEF QueueOK, Working, Take, queueOnly, sane
  <2> QED
    BY <2>1, <2>2
<1>3. CASE Finish
  BY <1>3 DEF QueueOK, Working, Finish, queueOnly, sane
<1>4. CASE SetCallback
  BY <1>4 DEF QueueOK, Working, SetCallback, commandOnly
<1>5. CASE StartFails \/ StartIgnored
  BY <1>5 DEF QueueOK, Working, StartFails, StartIgnored, commandOnly
<1>6. CASE StartReset \/ StartThread
  BY <1>6 DEF QueueOK, Working, StartReset, StartThread, commandOnly
<1>7. CASE Quit
  BY <1>7 DEF QueueOK, Working, Quit
<1>8. CASE QuitNotifies
  BY <1>8 DEF QueueOK, Working, QuitNotifies
<1>9. ASSUME NEW kind \in {"open", "list"}, MakeRequest(kind)
      PROVE  QueueOK'
  <2>1. [id |-> made + 1, callback |-> kind] \in Request
    BY <1>9, PtyGitAssumption DEF Types, MakeRequest, Request
  <2>2. requests' # <<>> /\ (requests # <<>> => requests'[1] = requests[1])
    BY <1>9, <2>1, Grown DEF Types, MakeRequest, Push
  <2> QED
    BY <1>9, <2>2 DEF QueueOK, Working, MakeRequest
<1>10. CASE Elsewhere
  BY <1>10, ElsewhereKeeps DEF QueueOK, Working
<1>11. CASE TakeNothing \/ FinishNothing
  BY <1>11 DEF QueueOK, Working, TakeNothing, FinishNothing, queueOnly
<1> QED
  BY <1>1, <1>2, <1>3, <1>4, <1>5, <1>6, <1>7, <1>8, <1>9, <1>10, <1>11
     DEF Next, Worker, Pty, Gui, User, Elsewhere

\* A thread that is not about to remove its request leaves the order alone.
LEMMA OrderSame ==
  ASSUME OrderOK, UNCHANGED <<requests, made, ran>>,
         worker = "finish" => worker' = "finish"
  PROVE  OrderOK'
  BY DEF OrderOK, Launched

\* Nothing forgets that the front of an empty queue was read.
LEMMA AstrayStays == [Next]_vars => UNCHANGED astray \/ astray'
  BY DEF Next, Worker, Pty, Gui, User, Top, Sleep, SpuriousWakeup, Take, TakeNothing, Finish,
         FinishNothing, SetCallback, StartFails, StartIgnored, StartReset, StartThread,
         Terminate, CommandCompletes, NotifyCompleted, CommitThread, CommitWaits, Callback,
         ReopenWaits, ReopenTimesOut, StopWaits, StopJoins, QuitNotifies, QuitJoins, QuitWaits,
         MakeRequest, CommitStarts, Stop, Quit, Over, vars, waitOnly, guiOnly, sane, commandOnly

\* The numbers of what was launched and of what is queued stay in order.
LEMMA OrderKept ==
  Types /\ QueueOK /\ (~astray => OrderOK) /\ [Next]_vars => (~astray => OrderOK)'
<1> SUFFICES ASSUME Types, QueueOK, OrderOK, ~astray, ~astray', [Next]_vars
             PROVE  OrderOK'
  BY AstrayStays
<1>0. /\ \A k \in 1..Len(requests) : requests[k] \in Request /\ requests[k].id \in Nat
      /\ \A j \in 1..Len(ran) : ran[j] \in Nat
      /\ made \in Nat /\ Len(requests) \in Nat /\ Len(ran) \in Nat
      /\ requests # <<>> => 1 \in 1..Len(requests)
  BY ElementOfSeq, Single, Numbers DEF Types
<1>1. CASE \/ Top \/ Sleep \/ SpuriousWakeup \/ Take \/ SetCallback \/ StartIgnored
           \/ StartFails \/ StartReset
  BY <1>1, OrderSame
     DEF Top, Sleep, SpuriousWakeup, Take, SetCallback, StartIgnored, StartFails, StartReset,
         queueOnly, commandOnly
<1>2. CASE Finish
  <2>1. requests # <<>> /\ requests[1] = req /\ Head(requests) = requests[1]
    BY <1>2, Shrunk DEF Types, QueueOK, Working, Finish
  <2>2. requests' = Tail(requests) /\ worker' # "finish" /\ UNCHANGED <<made, ran>>
    BY <1>2, <2>1 DEF Finish, queueOnly
  <2>3. \A k \in 1..Len(requests') : k + 1 \in 1..Len(requests) /\ requests'[k] = requests[k + 1]
    BY <2>1, <2>2, Shrunk DEF Types
  <2>4. Len(requests') \in Nat
    <3>1. Tail(requests) \in Seq(Request)
      BY <2>1, Shrunk DEF Types
    <3> QED
      BY <2>2, <3>1, LenProperties
  <2>5. \A k \in 1..Len(requests') : requests'[k].id <= made
    BY <2>3 DEF OrderOK
  <2>6. \A j, k \in 1..Len(requests') : j < k => requests'[j].id < requests'[k].id
    <3> SUFFICES ASSUME NEW j \in 1..Len(requests'), NEW k \in 1..Len(requests'), j < k
                 PROVE  requests'[j].id < requests'[k].id
      OBVIOUS
    <3>1. j + 1 < k + 1
      BY <2>4
    <3> QED
      BY <2>3, <3>1 DEF OrderOK
  <2>7. \A j \in 1..Len(ran), k \in 1..Len(requests') : ran[j] < requests'[k].id
    <3> SUFFICES ASSUME NEW j \in 1..Len(ran), NEW k \in 1..Len(requests')
                 PROVE  ran[j] < requests'[k].id
      OBVIOUS
    <3>1. k + 1 # 1 /\ k + 1 \in 1..Len(requests) /\ requests'[k] = requests[k + 1]
      BY <2>3, <2>4
    <3> QED
      BY <3>1 DEF OrderOK, Launched
  <2> QED
    BY <2>2, <2>5, <2>6, <2>7 DEF OrderOK
<1>3. CASE StartThread
  <2>1. requests # <<>> /\ requests[1] = req /\ worker = "launch"
    BY <1>3 DEF QueueOK, Working, StartThread
  <2>2. ran' = Append(ran, req.id) /\ worker' = "finish" /\ UNCHANGED <<requests, made>>
    BY <1>3 DEF StartThread, commandOnly
  <2>3. 1 \in 1..Len(requests) /\ req.id \in Nat /\ req.id <= made
    BY <1>0, <2>1 DEF OrderOK
  <2>4. \A j \in 1..Len(ran) : ran[j] < req.id
    BY <2>1, <2>3 DEF OrderOK, Launched
  <2>5. /\ Len(ran') = Len(ran) + 1
        /\ \A j \in 1..Len(ran') : \/ j \in 1..Len(ran) /\ ran'[j] = ran[j]
                                   \/ j = Len(ran) + 1 /\ ran'[j] = req.id
    BY <2>2, <2>3, Grown DEF Types
  <2>6. \A j \in 1..Len(ran') : ran'[j] <= made
    BY <2>3, <2>5 DEF OrderOK
  <2>7. \A j, k \in 1..Len(ran') : j < k => ran'[j] < ran'[k]
    <3> SUFFICES ASSUME NEW j \in 1..Len(ran'), NEW k \in 1..Len(ran'), j < k
                 PROVE  ran'[j] < ran'[k]
      OBVIOUS
    <3>1. j \in 1..Len(ran) /\ ran'[j] = ran[j]
      BY <1>0, <2>5
    <3> QED
      BY <2>4, <2>5, <3>1 DEF OrderOK
  <2>8. \A j \in 1..Len(ran'), k \in 1..Len(requests) : k = 1 \/ ran'[j] < requests[k].id
    <3> SUFFICES ASSUME NEW j \in 1..Len(ran'), NEW k \in 1..Len(requests), k # 1
                 PROVE  ran'[j] < requests[k].id
      OBVIOUS
    <3>1. req.id < requests[k].id
      BY <1>0, <2>1, <2>3 DEF OrderOK
    <3>2. ran'[j] \in Nat /\ ran'[j] <= req.id
      BY <1>0, <2>3, <2>4, <2>5
    <3> QED
      BY <1>0, <2>3, <3>1, <3>2
  <2> QED
    BY <2>2, <2>6, <2>7, <2>8 DEF OrderOK, Launched
<1>4. CASE Quit \/ QuitNotifies
  BY <1>4, OrderSame DEF Quit, QuitNotifies
<1>5. ASSUME NEW kind \in {"open", "list"}, MakeRequest(kind)
      PROVE  OrderOK'
  <2> DEFINE r == [id |-> made + 1, callback |-> kind]
  <2>1. r \in Request /\ r.id = made + 1
    BY <1>5, PtyGitAssumption DEF Types, MakeRequest, Request
  <2>2. /\ requests' = Append(requests, r) /\ made' = made + 1 /\ UNCHANGED ran
        /\ worker' = "finish" <=> worker = "finish"
    BY <1>5 DEF MakeRequest, Push
  <2>3. /\ Len(requests') = Len(requests) + 1
        /\ \A k \in 1..Len(requests') :
             \/ k \in 1..Len(requests) /\ requests'[k] = requests[k]
             \/ k = Len(requests) + 1 /\ requests'[k] = r
    BY <2>1, <2>2, Grown DEF Types
  <2> HIDE DEF r
  <2>4. \A k \in 1..Len(requests') : requests'[k].id <= made + 1
    BY <1>0, <2>1, <2>3 DEF OrderOK
  <2>5. \A j, k \in 1..Len(requests') : j < k => requests'[j].id < requests'[k].id
    <3> SUFFICES ASSUME NEW j \in 1..Len(requests'), NEW k \in 1..Len(requests'), j < k
                 PROVE  requests'[j].id < requests'[k].id
      OBVIOUS
    <3>1. j \in 1..Len(requests) /\ requests'[j] = requests[j] /\ requests[j].id <= made
      BY <1>0, <2>3 DEF OrderOK
    <3>2. CASE k \in 1..Len(requests) /\ requests'[k] = requests[k]
      BY <3>1, <3>2 DEF OrderOK
    <3>3. CASE requests'[k] = r
      BY <1>0, <2>1, <3>1, <3>3
    <3> QED
      BY <2>3, <3>2, <3>3
  <2>6. \A j \in 1..Len(ran) : ran[j] <= made + 1
    BY <1>0 DEF OrderOK
  <2>7. \A j \in 1..Len(ran), k \in 1..Len(requests') :
          Launched(k)' \/ ran[j] < requests'[k].id
    <3> SUFFICES ASSUME NEW j \in 1..Len(ran), NEW k \in 1..Len(requests')
                 PROVE  Launched(k)' \/ ran[j] < requests'[k].id
      OBVIOUS
    <3>1. CASE k \in 1..Len(requests) /\ requests'[k] = requests[k]
      BY <2>2, <3>1 DEF OrderOK, Launched
    <3>2. CASE requests'[k] = r
      BY <1>0, <2>1, <3>2 DEF OrderOK
    <3> QED
      BY <2>3, <3>1, <3>2
  <2> QED
    BY <2>2, <2>4, <2>5, <2>6, <2>7 DEF OrderOK
<1>6. CASE Elsewhere
  BY <1>6, ElsewhereKeeps, OrderSame
<1>7. CASE TakeNothing \/ FinishNothing
  BY <1>7 DEF TakeNothing, FinishNothing
<1> QED
  BY <1>1, <1>2, <1>3, <1>4, <1>5, <1>6, <1>7 DEF Next, Worker, Pty, Gui, User, Elsewhere

\* Until the front of an empty queue is read, the thread works on the queue's front and
\* requests are launched in order, whatever the user, the terminal and the end of the
\* program do in between; and whoever was notified finds a request.
THEOREM QueueSafe == Spec => [](Types /\ QueueOK /\ (~astray => OrderOK))
<1>1. Init => Types /\ QueueOK /\ OrderOK
  <2> SUFFICES ASSUME Init
               PROVE  Types /\ QueueOK /\ OrderOK
    OBVIOUS
  <2>1. Types
    BY Numbers, EmptySeq DEF Init, Free, Types, Phases, WorkerPCs
  <2>2. QueueOK
    BY DEF Init, QueueOK, Working
  <2>3. Len(requests) = 0 /\ Len(ran) = 0
    BY EmptySeq DEF Init
  <2> QED
    BY <2>1, <2>2, <2>3 DEF OrderOK
<1> QED
  BY <1>1, TypesKept, QueueKept, OrderKept, PTL DEF Spec

\* GitProcessThread::start: a thread that was notified finds a request or is to end, and
\* the front that is compared after the command is the request it was.  What remains is
\* the wakeup that nobody caused.
THEOREM FrontWhenNotified == Spec => []FrontExists
<1>1. QueueOK => FrontExists
  BY DEF QueueOK, Working, FrontExists
<1> QED
  BY <1>1, QueueSafe, PTL

\* GitProcessThread::start launches no request's command twice, as long as it reads no
\* empty queue.
THEOREM AlwaysRanOnce == Spec => []RanOnce
<1>1. ASSUME Types, OrderOK PROVE RanOnce
  <2>1. \A j, k \in 1..Len(ran) : ran[j] \in Nat /\ ran[k] \in Nat
    BY <1>1, ElementOfSeq DEF Types
  <2>2. \A j, k \in 1..Len(ran) : j < k => ran[j] # ran[k]
    BY <1>1, <2>1 DEF OrderOK
  <2> QED
    BY <1>1, <2>2, Injective DEF Types, RanOnce
<1>2. Types /\ (~astray => OrderOK) => RanOnce
  BY <1>1 DEF RanOnce
<1> QED
  BY <1>2, QueueSafe, PTL

\* Without a commit only the git thread starts commands: between its look and its launch
\* nobody else does, and nothing but an empty queue can end the program.
Alone ==
  commits = 0 => /\ gui # "launch"
                 /\ worker = "launch" => phase = "none"
                 /\ gui = "terminated" => astray

\* Every step keeps that.
LEMMA AloneKept == Types /\ Alone /\ [Next]_vars => Alone'
<1> SUFFICES ASSUME Types, Alone, [Next]_vars
             PROVE  Alone'
  OBVIOUS
<1> USE DEF Alone, Types, is_running
<1>1. CASE Top \/ Sleep \/ SpuriousWakeup \/ Take \/ Finish
  BY <1>1 DEF Top, Sleep, SpuriousWakeup, Take, Finish, queueOnly, sane, pty
<1>2. CASE TakeNothing \/ FinishNothing
  BY <1>2 DEF TakeNothing, FinishNothing, queueOnly, pty
<1>3. CASE SetCallback \/ StartFails \/ StartIgnored \/ StartReset \/ StartThread
  BY <1>3 DEF SetCallback, StartFails, StartIgnored, StartReset, StartThread, Reset,
              commandOnly, pty
<1>4. CASE Terminate
  BY <1>4 DEF Terminate, pty
<1>5. CASE Pty
  BY <1>5 DEF Pty, CommandCompletes, NotifyCompleted, Complete, Notify, guiOnly
<1>6. CASE CommitThread \/ CommitWaits \/ ReopenWaits \/ ReopenTimesOut \/ StopWaits
  BY <1>6 DEF CommitThread, CommitWaits, ReopenWaits, ReopenTimesOut, StopWaits, Join, waitOnly,
              pty
<1>7. CASE StopJoins \/ QuitJoins \/ QuitWaits \/ Stop
  BY <1>7 DEF StopJoins, QuitJoins, QuitWaits, Stop, Join, Interrupt, waitOnly, pty
<1>8. CASE Callback \/ QuitNotifies \/ Quit
  BY <1>8 DEF Callback, QuitNotifies, Quit, pty
<1>9. CASE \E kind \in {"open", "list"} : MakeRequest(kind)
  BY <1>9 DEF MakeRequest, pty
<1>10. CASE CommitStarts
  BY <1>10 DEF CommitStarts
<1>11. CASE Over \/ UNCHANGED vars
  BY <1>11 DEF Over, vars, pty
<1> QED
  BY <1>1, <1>2, <1>3, <1>4, <1>5, <1>6, <1>7, <1>8, <1>9, <1>10, <1>11
     DEF Next, Worker, Gui, User

\* ProcessPosixPty::start assigns to the thread of a running command only if a commit of
\* the GUI thread came in between; else the program ends by nothing but an empty queue.
THEOREM OnlyOneStarter == Spec => []OneStarter
<1>1. Init => Alone
  BY DEF Init, Alone
<1>2. Types /\ Alone => OneStarter
  BY DEF Types, Alone, OneStarter
<1> QED
  BY <1>1, <1>2, AloneKept, QueueSafe, PTL DEF Spec

-----------------------------------------------------------------------------
(* The callbacks of a patient user. *)

\* A step that answers nothing and starts nothing leaves the patient user where he was.
LEMMA ServedSame ==
  ASSUME Served, UNCHANGED <<requests, callback, cmd, signals, made, called>>,
         Queued' => Queued,
         phase' \in {phase, "none", "notified"}, Queued => phase' = phase \/ phase' = "none",
         gui' \notin {"launch", "committing", "refused"},
         worker' \in {"start", "launch"} => worker \in {"start", "launch"} /\ req' = req
  PROVE  Served'
<1>1. Unanswered' <=> Unanswered
  BY DEF Unanswered
<1>2. Answers'
  BY DEF Served, Answers
<1> QED
  BY <1>1, <1>2 DEF Served, OnTerminal

\* A user who waits is served alone: nothing is queued or on its way when the next
\* request is made, so there is one request, one command or one signal.
LEMMA CalmKept == Types /\ QueueOK /\ CalmOK /\ [Next]_vars => CalmOK'
<1> SUFFICES ASSUME Types, QueueOK, CalmOK, [Next]_vars, Calm'
             PROVE  Served'
  BY DEF CalmOK
<1>0. Calm
  <2>1. /\ patient' = patient /\ commits \in Nat
        /\ commits' = commits \/ commits' = commits + 1
    BY DEF Types, Next, Worker, Pty, Gui, User, Top, Sleep, SpuriousWakeup, Take, TakeNothing,
           Finish, FinishNothing, SetCallback,
           StartFails, StartIgnored, StartReset, StartThread, Terminate, CommandCompletes,
           NotifyCompleted, CommitThread, CommitWaits, Callback, ReopenWaits, ReopenTimesOut,
           StopWaits, StopJoins, QuitNotifies, QuitJoins, QuitWaits, MakeRequest, CommitStarts,
           Stop, Quit, Over, vars, waitOnly, guiOnly, queueOnly, commandOnly
  <2> QED
    BY <2>1, AstrayStays DEF Calm
<1>s. Served
  BY <1>0 DEF CalmOK
<1>q. /\ Len(requests) \in Nat /\ Len(signals) \in Nat /\ Len(called) \in Nat /\ made \in Nat
      /\ requests # <<>> => 1 \in 1..Len(requests) /\ requests[1] \in Request
      /\ \A k \in 1..Len(called) : called[k].of.id \in Nat
  BY ElementOfSeq, Single, Numbers DEF Types
<1>a. ~astray /\ ~astray'
  BY <1>0 DEF Calm
<1>1. CASE Top \/ Sleep \/ SpuriousWakeup \/ Take
  BY <1>1, <1>s, ServedSame
     DEF Top, Sleep, SpuriousWakeup, Take, queueOnly, sane, pty, Queued, Served
<1>2. CASE SetCallback
  <2>1. Queued /\ ~OnTerminal
    BY <1>2, <1>s, <1>a DEF QueueOK, Working, SetCallback, Queued, Served, OnTerminal
  <2>2. /\ UNCHANGED <<requests, signals, made, called, phase, gui>>
        /\ callback' = req' /\ req' = req /\ worker' # "finish"
    BY <1>2 DEF SetCallback, commandOnly, pty
  <2>3. Unanswered' /\ Answers'
    BY <1>s, <2>1, <2>2 DEF Served, Unanswered, Answers
  <2> QED
    BY <1>s, <2>1, <2>2, <2>3 DEF Served, Queued, OnTerminal
<1>3. CASE StartFails \/ StartIgnored \/ StartReset \/ StartThread
  <2>1. /\ Queued /\ phase = "none" /\ signals = <<>> /\ Unanswered /\ callback = req
        /\ requests[1] = req /\ req.id = made
    BY <1>3, <1>s, <1>a DEF QueueOK, Working, StartFails, StartIgnored, StartReset, StartThread,
                      Queued, Served
  <2>2. UNCHANGED <<requests, req, callback, made, called, gui>>
    BY <1>3 DEF StartFails, StartIgnored, StartReset, StartThread, commandOnly
  <2>3. Unanswered' /\ Answers'
    BY <1>s, <2>1, <2>2 DEF Served, Unanswered, Answers
  <2>4. CASE StartFails
    <3>1. signals' = <<[ok |-> FALSE, callback |-> req, of |-> req]>> /\ worker' = "finish"
          /\ phase' = "none"
      BY <2>1, <2>4 DEF StartFails, pty
    <3>2. Len(signals') = 1 /\ signals'[1].of = req /\ signals'[1].callback = req
      BY <3>1
    <3> QED
      BY <1>s, <2>1, <2>2, <2>3, <3>1, <3>2 DEF Served, Queued, OnTerminal
  <2>5. CASE StartIgnored
    BY <2>1, <2>5 DEF StartIgnored, is_running
  <2>6. CASE StartReset
    <3>1. signals' = signals /\ phase' = phase /\ cmd' = cmd /\ worker' # "finish"
      BY <2>6 DEF StartReset, Reset
    <3> QED
      BY <1>s, <2>1, <2>2, <2>3, <3>1 DEF Served, Queued, OnTerminal
  <2>7. CASE StartThread
    <3>1. signals' = signals /\ cmd' = req /\ worker' = "finish"
      BY <2>7 DEF StartThread
    <3> QED
      BY <1>s, <2>1, <2>2, <2>3, <3>1 DEF Served, Queued, OnTerminal
  <2> QED
    BY <1>3, <2>4, <2>5, <2>6, <2>7
<1>4. CASE Finish
  <2>1. requests' = <<>> /\ worker' \in {"top", "exited"}
    <3>1. requests # <<>> /\ Head(requests) = req /\ Tail(requests) = <<>>
      BY <1>4, <1>s, <1>a, Shrunk, Single DEF Types, QueueOK, Working, Finish, Served
    <3> QED
      BY <1>4, <3>1 DEF Finish
  <2>2. UNCHANGED <<phase, callback, cmd, signals, gui, made, called>>
    BY <1>4 DEF Finish, queueOnly, sane, pty
  <2>3. (Unanswered' <=> Unanswered) /\ Answers' /\ ~Queued' /\ Len(requests') = 0
    BY <1>s, <2>1, <2>2, EmptySeq DEF Served, Unanswered, Answers, Queued
  <2> QED
    BY <1>s, <2>1, <2>2, <2>3 DEF Served, OnTerminal
<1>5. CASE Terminate
  BY <1>5, <1>s, ServedSame DEF Terminate, pty, Queued
<1>6. CASE CommandCompletes
  <2>1. /\ phase = "running" /\ phase' = "completed"
        /\ UNCHANGED <<requests, worker, req, callback, cmd, signals, gui, made, called>>
    BY <1>6 DEF CommandCompletes, Complete, guiOnly
  <2>2. (Unanswered' <=> Unanswered) /\ Answers' /\ (Queued' <=> Queued)
    BY <1>s, <2>1 DEF Served, Unanswered, Answers, Queued
  <2> QED
    BY <1>s, <2>1, <2>2 DEF Served, OnTerminal
<1>7. CASE NotifyCompleted
  <2>1. /\ phase = "completed" /\ phase' = "notified"
        /\ UNCHANGED <<requests, worker, req, callback, cmd, gui, made, called>>
    BY <1>7 DEF NotifyCompleted, Notify, guiOnly
  <2>2. /\ ~Queued /\ cmd = callback /\ cmd.id = made /\ signals = <<>> /\ Unanswered
    BY <1>s, <2>1 DEF Served, OnTerminal
  <2>3. Unanswered' /\ Answers' /\ ~Queued'
    BY <1>s, <2>1, <2>2 DEF Served, Unanswered, Answers, Queued
  <2> DEFINE e == [ok |-> TRUE, callback |-> callback, of |-> cmd]
  <2>4. signals' = signals \/ signals' = Append(signals, e)
    BY <1>7 DEF NotifyCompleted
  <2>5. e.of = cmd /\ e.callback = callback
    OBVIOUS
  <2> HIDE DEF e
  <2>6. signals' = <<>> \/ signals' = <<e>>
    BY <2>2, <2>4, First
  <2>7. Len(<<>>) = 0 /\ Len(<<e>>) = 1 /\ <<e>>[1] = e
    BY First, EmptySeq
  <2>8. /\ Len(signals') <= 1
        /\ signals' # <<>> => signals'[1].of = cmd /\ signals'[1].callback = callback
    BY <2>5, <2>6, <2>7
  <2> QED
    BY <1>s, <2>1, <2>2, <2>3, <2>8 DEF Served, OnTerminal
<1>8. CASE Callback
  <2>1. /\ signals # <<>> /\ signals' = Tail(signals) /\ called' = Append(called, Head(signals))
        /\ gui' \in {"reopen", "loop"}
        /\ UNCHANGED <<phase, requests, worker, req, callback, cmd, made>>
    BY <1>8 DEF Callback, pty
  <2>2. /\ Head(signals) = signals[1] /\ signals[1] \in Signal /\ signals' = <<>>
    BY <1>s, <2>1, Shrunk, Single DEF Types, Served
  <2>3. /\ signals[1].of = signals[1].callback /\ signals[1].of.id = made
        /\ Unanswered /\ ~Queued /\ ~OnTerminal
    BY <1>s, <2>1 DEF Served
  <2>4. /\ Len(called') = Len(called) + 1
        /\ \A k \in 1..Len(called') :
             \/ k \in 1..Len(called) /\ called'[k] = called[k]
             \/ k = Len(called) + 1 /\ called'[k] = signals[1]
    BY <2>1, <2>2, Grown DEF Types
  <2>5. \A k \in 1..Len(called') : called'[k].callback = called'[k].of /\ called'[k].of.id <= made
    <3> SUFFICES ASSUME NEW k \in 1..Len(called')
                 PROVE  called'[k].callback = called'[k].of /\ called'[k].of.id <= made
      OBVIOUS
    <3>1. CASE k \in 1..Len(called) /\ called'[k] = called[k]
      BY <1>s, <3>1 DEF Served, Answers
    <3>2. CASE called'[k] = signals[1]
      BY <1>q, <2>3, <3>2
    <3> QED
      BY <2>4, <3>1, <3>2
  <2>6. \A j, k \in 1..Len(called') : j < k => called'[j].of.id < called'[k].of.id
    <3> SUFFICES ASSUME NEW j \in 1..Len(called'), NEW k \in 1..Len(called'), j < k
                 PROVE  called'[j].of.id < called'[k].of.id
      OBVIOUS
    <3>1. j \in 1..Len(called) /\ called'[j] = called[j]
      BY <1>q, <2>4
    <3>2. CASE k \in 1..Len(called) /\ called'[k] = called[k]
      BY <1>s, <3>1, <3>2 DEF Served, Answers
    <3>3. CASE called'[k] = signals[1]
      BY <2>3, <3>1, <3>3 DEF Unanswered
    <3> QED
      BY <2>4, <3>2, <3>3
  <2>7. ~Queued' /\ ~OnTerminal' /\ Answers' /\ Len(signals') = 0
    BY <2>1, <2>2, <2>3, <2>5, <2>6, EmptySeq DEF Queued, OnTerminal, Answers
  <2> QED
    BY <1>s, <2>1, <2>2, <2>7 DEF Served
<1>9. CASE CommitThread \/ CommitWaits
  BY <1>9, <1>s DEF CommitThread, CommitWaits, Served
<1>10. CASE ReopenWaits \/ QuitWaits \/ StopJoins
  BY <1>10, <1>s, ServedSame
     DEF ReopenWaits, QuitWaits, StopJoins, Join, waitOnly, pty, Queued
<1>11. CASE ReopenTimesOut \/ StopWaits \/ Stop \/ QuitJoins
  BY <1>11, <1>s, ServedSame
     DEF ReopenTimesOut, StopWaits, Stop, QuitJoins, Interrupt, waitOnly, pty, Queued
<1>12. CASE Quit \/ QuitNotifies
  BY <1>12, <1>s, ServedSame DEF Quit, QuitNotifies, pty, Queued
<1>13. ASSUME NEW kind \in {"open", "list"}, MakeRequest(kind)
       PROVE  Served'
  <2> DEFINE r == [id |-> made + 1, callback |-> kind]
  <2>1. requests = <<>> /\ signals = <<>> /\ phase = "none" /\ worker = "asleep"
    BY <1>0, <1>13 DEF MakeRequest, Settled, Calm, is_running
  <2>2. /\ requests' = <<r>> /\ made' = made + 1 /\ worker' = "take"
        /\ UNCHANGED <<phase, callback, cmd, signals, gui, called>>
    BY <1>13, <2>1 DEF MakeRequest, Push, pty
  <2>3. Len(requests') = 1 /\ requests'[1].id = made'
    BY <2>2
  <2>4. Unanswered'
    BY <1>q, <1>s, <2>2 DEF Unanswered, Served, Answers
  <2>5. Answers'
    BY <1>q, <1>s, <2>2 DEF Served, Answers
  <2> QED
    BY <1>s, <2>1, <2>2, <2>3, <2>4, <2>5 DEF Served, Queued, OnTerminal
<1>14. CASE CommitStarts
  BY <1>0, <1>14 DEF CommitStarts, Calm, Types
<1>15. CASE Over \/ UNCHANGED vars
  BY <1>15, <1>s, ServedSame DEF Over, vars, pty, Queued, Served
<1>16. CASE TakeNothing \/ FinishNothing
  BY <1>16, <1>a DEF TakeNothing, FinishNothing
<1> QED
  BY <1>1, <1>2, <1>3, <1>4, <1>5, <1>6, <1>7, <1>8, <1>9, <1>10, <1>11, <1>12, <1>13, <1>14,
     <1>15, <1>16 DEF Next, Worker, Pty, Gui, User

\* A patient user's callbacks are called each for its own command and once: what
\* MainWindow::runPtyGit hands to the terminal is not yet replaced when
\* notify_completed calls it.
THEOREM CallbackAlwaysOwn == Spec => []OwnCallback
<1>1. Init => CalmOK
  <2> SUFFICES ASSUME Init
               PROVE  Served
    BY DEF CalmOK
  <2>1. Len(requests) = 0 /\ Len(signals) = 0 /\ Len(called) = 0
    BY EmptySeq DEF Init
  <2> QED
    BY <2>1 DEF Init, Free, Served, Queued, OnTerminal, Answers
<1>2. ASSUME Types, CalmOK PROVE OwnCallback
  <2> SUFFICES ASSUME Calm
               PROVE  /\ \A k \in 1..Len(called) : called[k].callback = called[k].of
                      /\ IsInjective(called)
    BY DEF OwnCallback
  <2>1. Answers
    BY <1>2 DEF CalmOK, Served
  <2>2. \A k \in 1..Len(called) : called[k].of.id \in Nat
    BY <1>2, ElementOfSeq, Numbers DEF Types
  <2>3. \A j, k \in 1..Len(called) : j < k => called[j] # called[k]
    BY <2>1, <2>2 DEF Answers
  <2>4. IsInjective(called)
    BY <1>2, <2>3, Injective DEF Types
  <2> QED
    BY <2>1, <2>4 DEF Answers
<1> QED
  BY <1>1, <1>2, QueueSafe, CalmKept, PTL DEF Spec

\* Whoever joins the git thread has set its flag, and nobody resets it.
FlagSet == gui \in {"quit", "quitting"} => interrupt

\* A git thread that is awake while it is joined does not go to sleep again.
StaysAwake ==
  gui = "quitting" /\ worker \notin {"wait", "asleep"} => worker' \notin {"wait", "asleep"}

\* GitProcessThread::stop, called by the window's destructor: the join can last forever only
\* for a thread that is between its look at the flag and its sleep, or sleeps already; any
\* other one finishes its request and ends.
THEOREM QuitStaysAwake == Spec => [][StaysAwake]_vars
<1>1. Init => FlagSet
  BY DEF Init, FlagSet
<1>2. ASSUME FlagSet, [Next]_vars PROVE FlagSet' /\ StaysAwake
  <2>1. CASE Worker
    BY <1>2, <2>1 DEF Worker, Top, Sleep, Take, TakeNothing, Finish, FinishNothing, SetCallback,
       StartFails, StartIgnored, StartReset, StartThread, queueOnly, sane, commandOnly, FlagSet,
       StaysAwake
  <2>2. CASE SpuriousWakeup \/ Terminate \/ Pty \/ Over \/ UNCHANGED vars
    BY <1>2, <2>2 DEF SpuriousWakeup, queueOnly, sane, Terminate, Pty, CommandCompletes,
       NotifyCompleted, Over, guiOnly, vars, FlagSet, StaysAwake
  <2>3. CASE Gui
    BY <1>2, <2>3 DEF Gui, CommitThread, CommitWaits, Callback, ReopenWaits, ReopenTimesOut,
       StopWaits, StopJoins, QuitNotifies, QuitJoins, QuitWaits, waitOnly, FlagSet, StaysAwake
  <2>4. CASE User
    BY <1>2, <2>4 DEF User, MakeRequest, CommitStarts, Stop, Quit, waitOnly, FlagSet, StaysAwake
  <2> QED
    BY <1>2, <2>1, <2>2, <2>3, <2>4 DEF Next
<1> QED
  BY <1>1, <1>2, PTL DEF Spec

=============================================================================
