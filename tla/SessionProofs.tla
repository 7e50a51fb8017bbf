---------------------------- MODULE SessionProofs ----------------------------
(***************************************************************************)
(* Proofs about Session, for every set of repositories and every bound on  *)
(* the changes and the actions of the user.  Types and Stacked say what    *)
(* the openings in progress are; Linked keeps the window, its runner and   *)
(* its lists on one repository, and NotOlder what is shown on its answers. *)
(***************************************************************************)
EXTENDS Session, FiniteSetTheorems, SequenceTheorems, TLAPS

Frame ==
  [pc : {"events", "session", "asking"}, g : Sessions \cup {None}, new : BOOLEAN,
   clean : BOOLEAN, fetch : BOOLEAN, quiet : BOOLEAN, since : [Repos -> 0..MaxChanges],
   head : Answers, status : Answers, log : Answers]

Cache == [repo : Repos \cup {None}, head : Answers, status : Answers]
Kinds == {"fetch", "pull", "clone", "push", "stage"}
Job   == [kind : Kinds, repo : Repos]
Ended == [kind : Kinds, repo : Repos, ok : BOOLEAN]

Types ==
  /\ world \in [Repos -> 0..MaxChanges] /\ changes \in 0..MaxChanges
  /\ \A r \in Repos : world[r] <= changes
  /\ broken \subseteq Repos /\ online \in BOOLEAN
  /\ current \in Repos \cup {None}
  /\ runner \in Sessions \cup {None} /\ getter \in Sessions \cup {None}
  /\ cached \in [Sessions -> Cache]
  /\ frames \in Seq(Frame) /\ commands \in Seq(Job) /\ posted \in Seq(Ended)
  /\ shown.repo \in Repos \cup {None} /\ files \in Repos \cup {NoFiles}
  /\ timer \in BOOLEAN /\ actions \in 0..MaxActions
  /\ rejected \in BOOLEAN /\ mixed \in BOOLEAN /\ lost \in BOOLEAN

\* The openings in progress: all of them, and those the innermost one interrupted.
All(s)   == {s[k] : k \in 1..Len(s)}
Outer(s) == {s[k] : k \in 2..Len(s)}
Busy == frames # <<>> /\ top.pc = "asking"

\* Every opening in progress and every command goes back to an action of its own;
\* only the innermost opening is past its events.  The runners in use have a
\* repository, and an opening that asks git asks the window's runner.
Stacked ==
  /\ Len(frames) + Len(commands) + Len(posted) <= actions
  /\ \A f \in Outer(frames) : f.pc = "events"
  /\ \A f \in All(frames) : f.new => current # None
  /\ \A s \in Used : s # None => cached[s].repo \in Repos
  /\ Busy => top.g = runner /\ runner # None

-----------------------------------------------------------------------------
(* The stack of openings. *)

\* There is an innermost opening, and there are those it interrupted.
LEMMA Innermost ==
  ASSUME NEW F, NEW s \in Seq(F), s # <<>>
  PROVE  All(s) = {s[1]} \cup Outer(s)
<1>1. Len(s) \in Nat \ {0}
  OBVIOUS
<1> QED
  BY <1>1 DEF Outer, All

\* A new opening interrupts all that are in progress.
LEMMA Pushed ==
  ASSUME NEW F, NEW s \in Seq(F), NEW f \in F
  PROVE  /\ <<f>> \o s \in Seq(F) /\ Len(<<f>> \o s) = Len(s) + 1 /\ <<f>> \o s # <<>>
         /\ (<<f>> \o s)[1] = f
         /\ Outer(<<f>> \o s) = All(s) /\ All(<<f>> \o s) = {f} \cup All(s)
<1>1. /\ <<f>> \o s \in Seq(F) /\ Len(<<f>> \o s) = Len(s) + 1 /\ <<f>> \o s # <<>>
      /\ (<<f>> \o s)[1] = f /\ Len(s) \in Nat
      /\ \A k \in 2..(Len(s) + 1) : (<<f>> \o s)[k] = s[k - 1]
  OBVIOUS
<1>2. Outer(<<f>> \o s) = All(s)
  <2>1. \A k \in 2..(Len(s) + 1) : k - 1 \in 1..Len(s)
    BY <1>1
  <2>2. ASSUME NEW k \in 1..Len(s)
        PROVE  k + 1 \in 2..(Len(s) + 1) /\ (<<f>> \o s)[k + 1] = s[k]
    <3>1. k + 1 \in 2..(Len(s) + 1) /\ (k + 1) - 1 = k
      BY <1>1
    <3> QED
      BY <1>1, <3>1
  <2>3. Outer(<<f>> \o s) = {(<<f>> \o s)[k] : k \in 2..(Len(s) + 1)}
    BY <1>1 DEF Outer
  <2> HIDE DEF Outer
  <2>4. Outer(<<f>> \o s) \subseteq All(s)
    BY <1>1, <2>1, <2>3 DEF All
  <2>5. All(s) \subseteq Outer(<<f>> \o s)
    BY <2>2, <2>3 DEF All
  <2> QED
    BY <2>4, <2>5
<1>3. All(<<f>> \o s) = {f} \cup Outer(<<f>> \o s)
  BY <1>1, Innermost
<1> QED
  BY <1>1, <1>2, <1>3

\* The innermost opening ends.
LEMMA Popped ==
  ASSUME NEW F, NEW s \in Seq(F), s # <<>>
  PROVE  /\ Tail(s) \in Seq(F) /\ Len(Tail(s)) = Len(s) - 1 /\ s[1] \in F
         /\ All(Tail(s)) = Outer(s) /\ Outer(Tail(s)) \subseteq Outer(s)
         /\ Tail(s) # <<>> => Tail(s)[1] \in Outer(s)
         /\ All(s) = {s[1]} \cup Outer(s)
<1>1. /\ Tail(s) \in Seq(F) /\ Len(Tail(s)) = Len(s) - 1 /\ Len(s) \in Nat \ {0}
      /\ s[1] \in F
      /\ \A k \in 1..(Len(s) - 1) : Tail(s)[k] = s[k + 1]
  OBVIOUS
<1>2. All(Tail(s)) = Outer(s)
  <2>1. \A k \in 2..Len(s) : k - 1 \in 1..(Len(s) - 1) /\ s[k] = Tail(s)[k - 1]
    BY <1>1
  <2>2. \A k \in 1..(Len(s) - 1) : k + 1 \in 2..Len(s)
    BY <1>1
  <2> QED
    BY <1>1, <2>1, <2>2 DEF Outer, All
<1>3. Outer(Tail(s)) \subseteq All(Tail(s))
  BY <1>1 DEF Outer, All
<1>4. Tail(s) # <<>> => Tail(s)[1] \in All(Tail(s))
  BY <1>1 DEF All
<1>5. All(s) = {s[1]} \cup Outer(s)
  BY Innermost
<1> QED
  BY <1>1, <1>2, <1>3, <1>4, <1>5

\* The innermost opening goes on.
LEMMA Replaced ==
  ASSUME NEW F, NEW s \in Seq(F), s # <<>>, NEW f \in F
  PROVE  /\ [s EXCEPT ![1] = f] = <<f>> \o Tail(s)
         /\ <<f>> \o Tail(s) \in Seq(F) /\ Len(<<f>> \o Tail(s)) = Len(s)
         /\ <<f>> \o Tail(s) # <<>> /\ (<<f>> \o Tail(s))[1] = f
         /\ Outer(<<f>> \o Tail(s)) = Outer(s) /\ All(<<f>> \o Tail(s)) = {f} \cup Outer(s)
<1>0. Len(s) \in Nat \ {0}
  OBVIOUS
<1>1. Tail(s) \in Seq(F) /\ Len(Tail(s)) = Len(s) - 1 /\ All(Tail(s)) = Outer(s)
  BY Popped, Zenon
<1>2. /\ <<f>> \o Tail(s) \in Seq(F) /\ Len(<<f>> \o Tail(s)) = Len(Tail(s)) + 1
      /\ <<f>> \o Tail(s) # <<>> /\ (<<f>> \o Tail(s))[1] = f
      /\ Outer(<<f>> \o Tail(s)) = All(Tail(s))
      /\ All(<<f>> \o Tail(s)) = {f} \cup All(Tail(s))
  BY <1>1, Pushed, Zenon
<1>3. [s EXCEPT ![1] = f] = <<f>> \o Tail(s)
  <2>1. [s EXCEPT ![1] = f] \in Seq(F) /\ Len([s EXCEPT ![1] = f]) = Len(s)
    OBVIOUS
  <2>2. ASSUME NEW k \in 1..Len(s)
        PROVE  [s EXCEPT ![1] = f][k] = (<<f>> \o Tail(s))[k]
    <3>1. CASE k = 1
      BY <1>2, <3>1
    <3>2. CASE k # 1
      <4>1. k - 1 \in 1..Len(Tail(s)) /\ Tail(s)[k - 1] = s[k]
        BY <1>1, <3>2
      <4>2. (<<f>> \o Tail(s))[k] = Tail(s)[k - 1]
        BY <1>1, <3>2
      <4> QED
        BY <3>2, <4>1, <4>2
    <3> QED
      BY <3>1, <3>2
  <2> QED
    BY <1>1, <1>2, <2>1, <2>2, SeqEqual
<1> QED
  BY <1>1, <1>2, <1>3

\* The sessions in use are those of the window and those of the openings.
LEMMA UsedIs ==
  /\ Used = {runner, getter} \cup {f.g : f \in All(frames)}
  /\ Used' = {runner', getter'} \cup {f.g : f \in All(frames')}
BY DEF Used, All

\* Whatever is in use, but for "none", is a session.
LEMMA UsedFacts ==
  ASSUME Types
  PROVE  /\ All(frames) \subseteq Frame
         /\ \A s \in Used \ {None} : s \in Sessions
<1>1. All(frames) \subseteq Frame
  <2>1. frames \in Seq(Frame)
    BY DEF Types
  <2> HIDE DEF Types
  <2>2. \A k \in 1..Len(frames) : frames[k] \in Frame
    BY <2>1
  <2> QED
    BY <2>2 DEF All
<1>2. \A f \in Frame : f.g \in Sessions \cup {None}
  BY DEF Frame
<1>3. runner \in Sessions \cup {None} /\ getter \in Sessions \cup {None}
  BY DEF Types
<1> QED
  BY <1>1, <1>2, <1>3, UsedIs

\* No more sessions are in use than the runner, the getter and one of each opening:
\* a new one can be had.
LEMMA FreshIsNew ==
  ASSUME Types, Stacked
  PROVE  Fresh \in Sessions \ Used
<1> DEFINE n == Len(frames)
           g == [k \in 1..(n + 2) |-> IF k <= n THEN frames[k].g
                                      ELSE IF k = n + 1 THEN runner ELSE getter]
<1>1. n \in Nat /\ n <= MaxActions /\ MaxActions \in Nat
  <2>1. Len(frames) \in Nat /\ Len(commands) \in Nat /\ Len(posted) \in Nat
    BY DEF Types
  <2> QED
    BY <2>1, SessionAssumption DEF Types, Stacked, SessionAssumption
<1>2. g \in Surjection(1..(n + 2), Used)
  <2>1. \A k \in 1..(n + 2) : g[k] \in Used
    BY <1>1 DEF Used
  <2>2. \A s \in Used : \E k \in 1..(n + 2) : g[k] = s
    <3>1. g[n + 1] = runner /\ g[n + 2] = getter
      BY <1>1
    <3>2. \A k \in 1..n : g[k] = frames[k].g /\ k \in 1..(n + 2)
      BY <1>1
    <3> QED
      BY <1>1, <3>1, <3>2 DEF Used
  <2> HIDE DEF g
  <2>3. g \in [1..(n + 2) -> Used]
    BY <2>1 DEF g
  <2> QED
    BY <2>2, <2>3 DEF Surjection
<1> HIDE DEF g
<1>3. IsFiniteSet(Used) /\ Cardinality(Used) <= n + 2
  <2>1. 1 \in Int /\ n + 2 \in Int
    BY <1>1
  <2>2. IsFiniteSet(1..(n + 2)) /\ Cardinality(1..(n + 2)) = n + 2
    BY <1>1, <2>1, FS_Interval
  <2>3. IsFiniteSet(Used) /\ Cardinality(Used) <= Cardinality(1..(n + 2))
    BY <1>2, <2>2, FS_Surjection
  <2> QED
    BY <2>2, <2>3
<1>4. IsFiniteSet(Sessions) /\ Cardinality(Sessions) = MaxActions + 3
  <2>1. 1 \in Int /\ MaxActions + 3 \in Int
    BY <1>1
  <2> QED
    BY <1>1, <2>1, FS_Interval DEF Sessions
<1>5. ~ (Sessions \subseteq Used)
  <2> SUFFICES ASSUME Sessions \subseteq Used PROVE FALSE
    OBVIOUS
  <2>1. Cardinality(Sessions) <= Cardinality(Used)
    BY <1>3, FS_Subset
  <2>2. Cardinality(Used) \in Nat
    BY <1>3, FS_CardinalityType
  <2> QED
    BY <1>1, <1>3, <1>4, <2>1, <2>2
<1>6. \E s \in Sessions \ Used : TRUE
  BY <1>5
<1> QED
  BY <1>6 DEF Fresh


-----------------------------------------------------------------------------
(* The kinds of steps, as far as the window and the openings are concerned. *)

\* openRepositoryMain begins.
Opens ==
  /\ frames # <<>> => top.pc = "events"
  /\ \E new, clear_log, do_fetch, quiet \in BOOLEAN :
       /\ Enter(new, clear_log, do_fetch, quiet)
       /\ clear_log \/ (~new /\ cached' = Cleared(runner))
       /\ IF new THEN current' \in Repos ELSE current' = current
  /\ cached' \in {cached, Cleared(runner)}
  /\ UNCHANGED <<world, runner, getter, files, mixed, rejected>>

\* A repository is chosen that is not valid.
Rejects ==
  /\ frames = <<>> /\ current' \in Repos /\ rejected' = TRUE /\ cached' = Cleared(runner)
  /\ UNCHANGED <<world, runner, getter, files, mixed, frames, shown>>

\* The list of files is made.
Refreshes ==
  /\ ~Busy /\ (frames # <<>> => top.pc = "events") /\ UpdateFiles
  /\ UNCHANGED <<world, current, runner, getter, mixed, rejected, frames, shown>>

\* The window stays as it is, or its list is emptied.
Rests ==
  /\ files' \in {files, NoFiles}
  /\ \A r \in Repos : world[r] <= world'[r]
  /\ UNCHANGED <<current, runner, getter, mixed, rejected, frames, shown, cached>>

\* Every step is of one of these kinds, or one of those that an opening takes itself.
LEMMA StepKinds ==
  ASSUME Types, Stacked, [Next]_vars
  PROVE  \/ Opens \/ Rejects \/ Refreshes \/ Rests
         \/ Start \/ AskCached("head") \/ AskCached("status") \/ AskLog \/ Show
<1>0. /\ \A r \in Repos : world[r] \in Nat
      /\ None \notin Repos
  BY SessionAssumption DEF Types, SessionAssumption
<1>1. ASSUME NEW repo \in Repos, OpenSelected(repo) PROVE Opens \/ Rejects
  <2>1. frames = <<>> /\ UNCHANGED <<world, files, getter, mixed>>
    BY <1>1 DEF OpenSelected, Acts, frozen, view
  <2>2. CASE repo \in broken
    BY <1>1, <2>1, <2>2 DEF OpenSelected, Rejects
  <2>3. CASE repo \notin broken
    BY <1>1, <2>1, <2>3 DEF OpenSelected, OpenAsNew, Opens
  <2> QED
    BY <2>2, <2>3
<1>2. ASSUME NEW repo \in Repos, OpenAdded(repo) PROVE Opens
  BY <1>2 DEF OpenAdded, OpenAsNew, Opens, Acts, frozen, view
<1>3. ASSUME OpenAgain PROVE Opens
  <2>1. current' \in Repos /\ UNCHANGED <<world, runner, getter, files, mixed, rejected>>
    BY <1>3 DEF OpenAgain, Acts, frozen, view, Types
  <2> QED
    BY <1>3, <2>1 DEF OpenAgain, Opens, Acts
<1>4. ASSUME NEW validate \in BOOLEAN, NEW quiet \in BOOLEAN, ReopenChanged(validate, quiet)
      PROVE  Opens
  BY <1>4 DEF ReopenChanged, Reopen, Opens, Acts, frozen, view
<1>5. ASSUME NEW kind \in Kinds, NEW repo \in Repos, Command(kind, repo) PROVE Rests
  BY <1>0, <1>5 DEF Command, Acts, frozen, view, Rests
<1>6. ASSUME SelectRow PROVE Rests
  BY <1>0, <1>6 DEF SelectRow, frozen, terminal, history, Rests
<1>7. CASE User
  BY <1>1, <1>2, <1>3, <1>4, <1>5, <1>6, <1>7 DEF User, Kinds
<1>8. CASE \E ok \in BOOLEAN : CommandEnds(ok)
  BY <1>0, <1>8 DEF CommandEnds, frozen, view, history, Rests
<1>9. ASSUME NEW repo \in Repos, Change(repo) PROVE Rests
  <2>1. world \in [Repos -> 0..MaxChanges] /\ MaxChanges \in Nat
    BY SessionAssumption DEF Types, SessionAssumption
  <2>2. \A r \in Repos : world[r] <= world'[r]
    BY <1>9, <2>1 DEF Change
  <2> QED
    BY <1>9, <2>2 DEF Change, Rests, view, terminal, history
<1>10. ASSUME Delivered PROVE /\ frames # <<>> => top.pc = "events"
                              /\ UNCHANGED <<world, getter, mixed>> /\ ~Busy
  BY <1>10 DEF Delivered, Looping, frozen, Busy
<1>11. CASE Drop
  BY <1>0, <1>10, <1>11 DEF Drop, Rests, Delivered
<1>12. CASE AfterFetch
  BY <1>10, <1>12 DEF AfterFetch, Called, Opens
<1>13. CASE AfterPull
  <2>1. Delivered /\ posted # <<>> /\ UNCHANGED files
    BY <1>13 DEF AfterPull, Called, Delivered
  <2>2. Head(posted).repo \in Repos
    <3>1. Head(posted) \in Ended
      BY <2>1, HeadTailProperties DEF Types
    <3> QED
      BY <3>1 DEF Ended
  <2>3. CASE OpenAsNew(Head(posted).repo, TRUE)
    BY <1>10, <2>1, <2>2, <2>3 DEF OpenAsNew, Opens
  <2>4. CASE UNCHANGED <<current, runner, cached, frames, shown, timer, rejected>>
    BY <1>0, <1>10, <2>1, <2>4 DEF Rests
  <2> QED
    BY <1>13, <2>3, <2>4 DEF AfterPull
<1>14. CASE AfterPush
  <2>1. Delivered /\ UNCHANGED files
    BY <1>14 DEF AfterPush, Called
  <2>2. CASE Reopen(FALSE)
    BY <1>10, <2>1, <2>2 DEF Reopen, Opens
  <2>3. CASE UNCHANGED <<current, runner, cached, frames, shown, timer, rejected>>
    BY <1>0, <1>10, <2>1, <2>3 DEF Rests
  <2> QED
    BY <1>14, <2>2, <2>3 DEF AfterPush
<1>15. CASE AfterStage
  BY <1>10, <1>15 DEF AfterStage, Called, Refreshes
<1>16. CASE TimerFires
  BY <1>16 DEF TimerFires, Looping, Busy, Refreshes, frozen, history
<1>17. CASE UNCHANGED vars
  BY <1>0, <1>17 DEF vars, Rests
<1> QED
  BY <1>7, <1>8, <1>9, <1>11, <1>12, <1>13, <1>14, <1>15, <1>16, <1>17
  DEF Next, Deliver, Queries


-----------------------------------------------------------------------------
(* Type correctness. *)

\* The numbers that stand for no answer are answers that are too new.
LEMMA AnswerFacts ==
  /\ MaxChanges \in Nat /\ 0..MaxChanges \subseteq Answers
  /\ Pending \in Answers /\ Unasked \in Answers /\ Pending # Unasked
  /\ \A n \in 0..MaxChanges : n <= Pending /\ n <= Unasked /\ n # Pending /\ n # Unasked
  /\ None \notin Repos /\ None \notin Sessions
<1>1. MaxChanges \in Nat /\ MaxActions \in Nat /\ None \notin Repos \cup Nat
  BY SessionAssumption DEF SessionAssumption
<1> QED
  BY <1>1 DEF Answers, Pending, Unasked, Sessions

\* The frame that Enter pushes.
Entering(new, clear_log, do_fetch, quiet) ==
  [pc |-> IF clear_log THEN "events" ELSE "session", g |-> runner,
   new |-> new, clean |-> new \/ ~clear_log, fetch |-> do_fetch,
   quiet |-> quiet, since |-> world, head |-> Unasked, status |-> Unasked,
   log |-> Unasked]

\* What openRepositoryMain does to the openings in progress.
LEMMA OpensFacts ==
  ASSUME Types, Opens
  PROVE  \E new, clear_log, do_fetch, quiet \in BOOLEAN :
           LET f == Entering(new, clear_log, do_fetch, quiet)
           IN /\ f \in Frame /\ frames' \in Seq(Frame)
              /\ frames' # <<>> /\ frames'[1] = f /\ Len(frames') = Len(frames) + 1
              /\ Outer(frames') = All(frames) /\ All(frames') = {f} \cup All(frames)
              /\ shown' = IF clear_log THEN NoLog ELSE shown
              /\ clear_log \/ (~new /\ cached' = Cleared(runner))
              /\ IF new THEN current' \in Repos ELSE current' = current
<1>1. PICK new \in BOOLEAN, clear_log \in BOOLEAN, do_fetch \in BOOLEAN, quiet \in BOOLEAN :
        /\ Enter(new, clear_log, do_fetch, quiet)
        /\ clear_log \/ (~new /\ cached' = Cleared(runner))
        /\ IF new THEN current' \in Repos ELSE current' = current
  BY DEF Opens
<1> DEFINE f == Entering(new, clear_log, do_fetch, quiet)
<1>2. f \in Frame
  BY AnswerFacts DEF Entering, Frame, Types
<1>3. frames' = <<f>> \o frames /\ shown' = IF clear_log THEN NoLog ELSE shown
  BY <1>1 DEF Enter, Entering
<1> HIDE DEF f
<1>4. /\ frames' \in Seq(Frame)
      /\ frames' # <<>> /\ frames'[1] = f /\ Len(frames') = Len(frames) + 1
      /\ Outer(frames') = All(frames) /\ All(frames') = {f} \cup All(frames)
  BY <1>2, <1>3, Pushed DEF Types
<1> QED
  BY <1>1, <1>2, <1>3, <1>4 DEF f

\* Clearing a cache leaves the repository of every session.
LEMMA ClearedFacts ==
  ASSUME Types
  PROVE  /\ Cleared(runner) \in [Sessions -> Cache]
         /\ \A s \in Sessions : Cleared(runner)[s].repo = cached[s].repo
         /\ \A s \in Sessions : s = runner =>
              Cleared(runner)[s].head = Unasked /\ Cleared(runner)[s].status = Unasked
         /\ \A s \in Sessions : s # runner => Cleared(runner)[s] = cached[s]
<1>1. cached \in [Sessions -> Cache] /\ runner \in Sessions \cup {None}
  BY DEF Types
<1>2. CASE runner = None
  BY <1>1, <1>2, AnswerFacts DEF Cleared
<1>3. CASE runner \in Sessions
  <2> DEFINE d == [cached[runner] EXCEPT !.head = Unasked, !.status = Unasked]
  <2>1. Cleared(runner) = [cached EXCEPT ![runner] = d]
    BY <1>1, <1>3, AnswerFacts DEF Cleared
  <2>2. d \in Cache /\ d.repo = cached[runner].repo /\ d.head = Unasked /\ d.status = Unasked
    BY <1>1, <1>3, AnswerFacts DEF Cache
  <2> HIDE DEF d
  <2>3. /\ Cleared(runner)[runner] = d
        /\ \A s \in Sessions : s # runner => Cleared(runner)[s] = cached[s]
    BY <1>1, <1>3, <2>1
  <2>4. Cleared(runner) \in [Sessions -> Cache]
    BY <1>1, <1>3, <2>1, <2>2
  <2> QED
    BY <2>2, <2>3, <2>4
<1> QED
  BY <1>1, <1>2, <1>3

\* updateFileList asks for the runner's repository and keeps what it hears.
LEMMA UpdateFacts ==
  ASSUME Types, Stacked, UpdateFiles
  PROVE  /\ cached' \in [Sessions -> Cache]
         /\ \A s \in Sessions : cached'[s].repo = cached[s].repo
         /\ files' = files \/ (runner \in Sessions /\ files' = cached[runner].repo)
         /\ files' \in Repos \cup {NoFiles}
<1>1. cached \in [Sessions -> Cache] /\ runner \in Sessions \cup {None}
      /\ files \in Repos \cup {NoFiles}
  BY DEF Types
<1>2. CASE runner = None
  BY <1>1, <1>2 DEF UpdateFiles
<1>3. CASE runner \in Sessions
  <2>1. cached[runner].repo \in Repos
    BY <1>3, AnswerFacts DEF Stacked, Used
  <2>2. RepoOf(runner) = cached[runner].repo
    BY <1>3, AnswerFacts DEF RepoOf
  <2>3. files' = cached[runner].repo
    BY <1>3, <2>2, AnswerFacts DEF UpdateFiles
  <2>4. PICK known \in SUBSET {"head", "status"} :
          cached' = [cached EXCEPT ![runner] =
                       [repo |-> cached[runner].repo,
                        head |-> IF "head" \in known THEN world[cached[runner].repo]
                                 ELSE Unasked,
                        status |-> IF "status" \in known THEN world[cached[runner].repo]
                                   ELSE Unasked]]
    BY <1>3, <2>2, AnswerFacts DEF UpdateFiles
  <2>5. world[cached[runner].repo] \in Answers
    BY <2>1, AnswerFacts DEF Types
  <2>6. [repo |-> cached[runner].repo,
         head |-> IF "head" \in known THEN world[cached[runner].repo] ELSE Unasked,
         status |-> IF "status" \in known THEN world[cached[runner].repo] ELSE Unasked]
          \in Cache
    BY <2>1, <2>5, AnswerFacts DEF Cache
  <2> QED
    BY <1>1, <1>3, <2>1, <2>3, <2>4, <2>6
<1> QED
  BY <1>1, <1>2, <1>3


\* Starting a session: its cache is new and no other session in use is touched.
LEMMA StartFacts ==
  ASSUME Types, Stacked, Start
  PROVE  /\ frames # <<>> /\ top \in Frame /\ top.pc \in {"events", "session"}
         /\ UNCHANGED <<world, changes, broken, online, getter, current, files, shown,
                        commands, posted, actions, timer, lost>>
         /\ runner' \in Sessions \cup {None} /\ cached' \in [Sessions -> Cache]
         /\ \A s \in Used \ {None} : s \in Sessions /\ cached'[s] = cached[s]
         /\ top.new => /\ runner' \in Sessions \ Used /\ ~mixed' /\ ~rejected'
                       /\ cached'[runner'].repo = current
                       /\ cached'[runner'].head = Unasked /\ cached'[runner'].status = Unasked
         /\ ~top.new => /\ runner' = top.g /\ rejected' = rejected
                        /\ mixed' = (mixed \/ top.g # runner)
         /\ IF runner' = None
            THEN frames' = Tail(frames)
            ELSE Asking(runner') \in Frame /\ frames' = <<Asking(runner')>> \o Tail(frames)
<1> DEFINE g == IF top.new THEN Fresh ELSE top.g
           repo == IF top.new THEN current ELSE RepoOf(g)
<1>1. /\ frames # <<>> /\ top.pc \in {"events", "session"} /\ runner' = g
      /\ UNCHANGED <<world, changes, broken, online, getter, current, files, shown,
                     commands, posted, actions, timer, lost>>
  BY DEF Start, StartWith, frozen, view, terminal
<1>2. top \in Frame /\ top \in All(frames)
  BY <1>1, Popped DEF Types, top
<1>3. Fresh \in Sessions \ Used
  BY FreshIsNew
<1>4. \A s \in Used \ {None} : s \in Sessions
  BY UsedFacts
<1>5. /\ cached' = [s \in Sessions |->
                      IF top.new /\ s = g THEN [NoCache EXCEPT !.repo = repo]
                      ELSE IF s \in Used \cup {g} THEN cached[s] ELSE NoCache]
      /\ frames' = IF g = None THEN Tail(frames) ELSE <<Asking(g)>> \o Tail(frames)
      /\ rejected' = (rejected /\ ~top.new)
      /\ mixed' = (~top.new /\ (mixed \/ top.g # runner))
  BY DEF Start, StartWith
<1>6. g \in Sessions \cup {None} /\ top.new \in BOOLEAN
  BY <1>2, <1>3 DEF Frame
<1>7. ASSUME top.new PROVE /\ [NoCache EXCEPT !.repo = repo] \in Cache
                           /\ [NoCache EXCEPT !.repo = repo].repo = current
                           /\ [NoCache EXCEPT !.repo = repo].head = Unasked
                           /\ [NoCache EXCEPT !.repo = repo].status = Unasked
  BY <1>7, AnswerFacts DEF NoCache, Cache, Types
<1>8. NoCache \in Cache /\ cached \in [Sessions -> Cache]
  BY AnswerFacts DEF NoCache, Cache, Types
<1>9. top.new => g \in Sessions \ Used
  BY <1>3
<1>10. g # None => Asking(g) \in Frame
  <2>1. top.g \in Sessions \cup {None} /\ top.quiet \in BOOLEAN
    BY <1>2 DEF Frame
  <2> HIDE DEF g
  <2> QED
    BY <1>2, <1>6, AnswerFacts DEF Asking, Frame
<1>a. ~top.new => g = top.g
  OBVIOUS
<1> HIDE DEF g, repo
<1>11. cached' \in [Sessions -> Cache]
  BY <1>5, <1>7, <1>8
<1>12. \A s \in Used \ {None} : s \in Sessions /\ cached'[s] = cached[s]
  BY <1>4, <1>5, <1>9
<1>13. top.new => /\ runner' \in Sessions \ Used /\ ~mixed' /\ ~rejected'
                  /\ cached'[runner'].repo = current
                  /\ cached'[runner'].head = Unasked /\ cached'[runner'].status = Unasked
  <2> SUFFICES ASSUME top.new
               PROVE  /\ runner' \in Sessions \ Used /\ ~mixed' /\ ~rejected'
                      /\ cached'[runner'].repo = current
                      /\ cached'[runner'].head = Unasked /\ cached'[runner'].status = Unasked
    OBVIOUS
  <2>1. g \in Sessions \ Used
    BY <1>9
  <2>2. cached'[g] = [NoCache EXCEPT !.repo = repo]
    BY <1>5, <2>1
  <2>3. cached'[g].repo = current /\ cached'[g].head = Unasked /\ cached'[g].status = Unasked
    BY <1>7, <2>2
  <2>4. ~mixed' /\ ~rejected'
    BY <1>5
  <2> QED
    BY <1>1, <2>1, <2>3, <2>4
<1>14. ~top.new => /\ runner' = top.g /\ rejected' = rejected
                   /\ mixed' = (mixed \/ top.g # runner)
  <2>1. rejected \in BOOLEAN /\ mixed \in BOOLEAN
    BY DEF Types
  <2> QED
    BY <1>1, <1>5, <1>a, <2>1
<1> QED
  BY <1>1, <1>2, <1>5, <1>6, <1>10, <1>11, <1>12, <1>13, <1>14

\* An answer to one of the opening's queries, from the cache or from git.
Answered(f, c) ==
  LET now == world[cached[runner].repo]
  IN /\ f \in Frame /\ c \in Cache
     /\ f.pc = "asking" /\ f.g = runner /\ f.new = top.new /\ f.clean = top.clean
     /\ f.fetch = top.fetch /\ f.since = top.since /\ c.repo = cached[runner].repo
     /\ f.head \in {top.head, cached[runner].head, now} /\ c.head \in {cached[runner].head, now}
     /\ f.status \in {top.status, cached[runner].status, now}
     /\ c.status \in {cached[runner].status, now}
     /\ f.log \in {top.log, now}

\* An opening asks git through the window's runner: one answer for itself, one cache
\* that may have changed.
LEMMA AskFacts ==
  ASSUME Types, Stacked, AskCached("head") \/ AskCached("status") \/ AskLog
  PROVE  /\ Busy /\ runner \in Sessions /\ cached[runner].repo \in Repos
         /\ UNCHANGED <<world, changes, broken, online, getter, current, files, shown, runner,
                        commands, posted, actions, timer, lost, mixed, rejected>>
         /\ \E f, c : /\ Answered(f, c)
                      /\ frames' = <<f>> \o Tail(frames)
                      /\ cached' = [cached EXCEPT ![runner] = c]
<1>1. /\ Busy
      /\ UNCHANGED <<world, changes, broken, online, getter, current, files, shown, runner,
                     commands, posted, actions, timer, lost, mixed, rejected>>
  BY DEF AskCached, AskLog, Busy, frozen, view, terminal, history
<1>2. /\ runner \in Sessions /\ top.g = runner /\ cached \in [Sessions -> Cache]
      /\ runner # None
  BY <1>1 DEF Stacked, Types
<1>3. cached[runner].repo \in Repos
  BY <1>2 DEF Stacked, Used
<1>4. /\ top \in Frame /\ frames \in Seq(Frame) /\ frames # <<>> /\ top = frames[1]
      /\ top.pc = "asking"
  BY <1>1, Popped DEF Types, top, Busy
<1> DEFINE now == world[cached[runner].repo]
<1>5. now \in Answers
  BY <1>3, AnswerFacts DEF Types
<1> HIDE DEF now
<1>6. CASE AskCached("head")
  <2> DEFINE a == IF cached[runner].head # Unasked THEN cached[runner].head ELSE now
             f == [top EXCEPT !.head = a]
             c == [cached[runner] EXCEPT !.head = a]
  <2>1. /\ frames' = [frames EXCEPT ![1] = [@ EXCEPT !["head"] = a]]
        /\ cached' = [cached EXCEPT ![top.g] = [@ EXCEPT !["head"] = a]]
    BY <1>2, <1>6 DEF AskCached, now
  <2>2. a \in Answers /\ a \in {cached[runner].head, now}
    BY <1>2, <1>5 DEF Cache
  <2> HIDE DEF a
  <2>3. frames' = [frames EXCEPT ![1] = f] /\ cached' = [cached EXCEPT ![runner] = c]
    BY <1>2, <1>4, <2>1
  <2>4. /\ f \in Frame /\ f.pc = "asking" /\ f.g = runner /\ f.new = top.new
        /\ f.clean = top.clean /\ f.fetch = top.fetch /\ f.since = top.since
        /\ f.head = a /\ f.status = top.status /\ f.log = top.log
    BY <1>2, <1>4, <2>2 DEF Frame
  <2>5. /\ c \in Cache /\ c.repo = cached[runner].repo /\ c.head = a
        /\ c.status = cached[runner].status
    BY <1>2, <2>2 DEF Cache
  <2> HIDE DEF f, c
  <2>6. Answered(f, c)
    BY <2>2, <2>4, <2>5 DEF Answered, now
  <2>7. frames' = <<f>> \o Tail(frames)
    BY <1>4, <2>3, <2>4, Replaced
  <2> QED
    BY <1>1, <1>2, <1>3, <2>3, <2>6, <2>7
<1>7. CASE AskCached("status")
  <2> DEFINE a == IF cached[runner].status # Unasked THEN cached[runner].status ELSE now
             f == [top EXCEPT !.status = a]
             c == [cached[runner] EXCEPT !.status = a]
  <2>1. /\ frames' = [frames EXCEPT ![1] = [@ EXCEPT !["status"] = a]]
        /\ cached' = [cached EXCEPT ![top.g] = [@ EXCEPT !["status"] = a]]
    BY <1>2, <1>7 DEF AskCached, now
  <2>2. a \in Answers /\ a \in {cached[runner].status, now}
    BY <1>2, <1>5 DEF Cache
  <2> HIDE DEF a
  <2>3. frames' = [frames EXCEPT ![1] = f] /\ cached' = [cached EXCEPT ![runner] = c]
    BY <1>2, <1>4, <2>1
  <2>4. /\ f \in Frame /\ f.pc = "asking" /\ f.g = runner /\ f.new = top.new
        /\ f.clean = top.clean /\ f.fetch = top.fetch /\ f.since = top.since
        /\ f.status = a /\ f.head = top.head /\ f.log = top.log
    BY <1>2, <1>4, <2>2 DEF Frame
  <2>5. /\ c \in Cache /\ c.repo = cached[runner].repo /\ c.status = a
        /\ c.head = cached[runner].head
    BY <1>2, <2>2 DEF Cache
  <2> HIDE DEF f, c
  <2>6. Answered(f, c)
    BY <2>2, <2>4, <2>5 DEF Answered, now
  <2>7. frames' = <<f>> \o Tail(frames)
    BY <1>4, <2>3, <2>4, Replaced
  <2> QED
    BY <1>1, <1>2, <1>3, <2>3, <2>6, <2>7
<1>8. CASE AskLog
  <2> DEFINE f == [top EXCEPT !.log = now]
             c == cached[runner]
  <2>1. RepoOf(top.g) = cached[runner].repo
    BY <1>2 DEF RepoOf
  <2>2. frames' = [frames EXCEPT ![1] = f] /\ cached' = cached
    BY <1>4, <1>8, <2>1 DEF AskLog, now
  <2>3. /\ f \in Frame /\ f.pc = "asking" /\ f.g = runner /\ f.new = top.new
        /\ f.clean = top.clean /\ f.fetch = top.fetch /\ f.since = top.since
        /\ f.status = top.status /\ f.head = top.head /\ f.log = now
    BY <1>2, <1>4, <1>5 DEF Frame
  <2>4. c \in Cache /\ cached' = [cached EXCEPT ![runner] = c]
    BY <1>2, <2>2
  <2> HIDE DEF f
  <2>5. Answered(f, c)
    BY <2>3, <2>4 DEF Answered, now
  <2>6. frames' = <<f>> \o Tail(frames)
    BY <1>4, <2>2, <2>3, Replaced
  <2> QED
    BY <1>1, <1>2, <1>3, <2>4, <2>5, <2>6
<1> QED
  BY <1>6, <1>7, <1>8

\* The log is shown, and its opening is over.
LEMMA ShowFacts ==
  ASSUME Types, Stacked, Show
  PROVE  /\ Busy /\ runner \in Sessions /\ cached[runner].repo \in Repos
         /\ top \in Frame /\ top \in All(frames) /\ top.g = runner
         /\ UNCHANGED <<world, changes, broken, online, current, runner, cached, posted,
                        actions, lost, mixed, rejected>>
         /\ frames' = Tail(frames) /\ getter' = runner /\ files' = NoFiles
         /\ Pending \notin {top.head, top.status, top.log}
         /\ shown' = [repo |-> cached[runner].repo, head |-> top.head, status |-> top.status,
                      log |-> top.log, since |-> top.since[cached[runner].repo],
                      clean |-> top.clean]
         /\ \/ commands' = commands /\ timer' = TRUE
            \/ /\ commands' = Append(commands, [kind |-> "fetch", repo |-> cached[runner].repo])
               /\ timer' = timer
<1>1. /\ Busy
      /\ UNCHANGED <<world, changes, broken, online, current, runner, cached, posted, actions,
                     lost, mixed, rejected>>
      /\ frames' = Tail(frames) /\ getter' = top.g /\ files' = NoFiles
      /\ Pending \notin {top.head, top.status, top.log}
  BY DEF Show, ShowWith, Busy, frozen, history
<1>2. runner \in Sessions /\ top.g = runner /\ runner # None
  BY <1>1 DEF Stacked, Types
<1>3. cached[runner].repo \in Repos
  BY <1>2 DEF Stacked, Used
<1>4. top \in Frame /\ top \in All(frames)
  BY <1>1, Popped DEF Types, top, Busy
<1>5. RepoOf(top.g) = cached[runner].repo
  BY <1>2 DEF RepoOf
<1>6. /\ shown' = [repo |-> cached[runner].repo, head |-> top.head, status |-> top.status,
                   log |-> top.log, since |-> top.since[cached[runner].repo],
                   clean |-> top.clean]
      /\ \/ commands' = commands /\ timer' = TRUE
         \/ /\ commands' = Append(commands, [kind |-> "fetch", repo |-> cached[runner].repo])
            /\ timer' = timer
  BY <1>5 DEF Show, ShowWith, Fetch
<1> QED
  BY <1>1, <1>2, <1>3, <1>4, <1>6


\* What the repositories hold, and the flags of the window.
LEMMA DataTyped ==
  ASSUME Types, Stacked, [Next]_vars
  PROVE  /\ world' \in [Repos -> 0..MaxChanges] /\ changes' \in 0..MaxChanges
         /\ \A r \in Repos : world'[r] <= changes'
         /\ \A r \in Repos : world[r] <= world'[r]
         /\ broken' \subseteq Repos /\ online' \in BOOLEAN
         /\ timer' \in BOOLEAN /\ lost' \in BOOLEAN
<1> USE DEF frozen, view, terminal, history
<1>0. /\ world \in [Repos -> 0..MaxChanges] /\ changes \in 0..MaxChanges
      /\ \A r \in Repos : world[r] <= changes
      /\ broken \subseteq Repos /\ online \in BOOLEAN
      /\ timer \in BOOLEAN /\ lost \in BOOLEAN /\ MaxChanges \in Nat
  BY AnswerFacts DEF Types
<1>1. CASE UNCHANGED <<world, changes, broken, online>> /\ timer' \in BOOLEAN /\ lost' \in BOOLEAN
  BY <1>0, <1>1
<1>2. ASSUME NEW repo \in Repos, Change(repo) PROVE
         /\ world' \in [Repos -> 0..MaxChanges] /\ changes' \in 0..MaxChanges
         /\ \A r \in Repos : world'[r] <= changes'
         /\ \A r \in Repos : world[r] <= world'[r]
         /\ broken' \subseteq Repos /\ online' \in BOOLEAN
         /\ timer' \in BOOLEAN /\ lost' \in BOOLEAN
  <2>1. /\ world[repo] < MaxChanges => TRUE
        /\ world' = [world EXCEPT ![repo] = world[repo] + 1] /\ changes' = changes + 1
        /\ changes < MaxChanges /\ UNCHANGED <<broken, online, timer, lost>>
    BY <1>2 DEF Change
  <2>2. world[repo] + 1 \in 0..MaxChanges /\ world[repo] + 1 <= changes'
    BY <1>0, <2>1
  <2>3. world' \in [Repos -> 0..MaxChanges] /\ changes' \in 0..MaxChanges
    BY <1>0, <2>1, <2>2
  <2>4. \A r \in Repos : world'[r] <= changes' /\ world[r] <= world'[r]
    BY <1>0, <2>1, <2>2
  <2> QED
    BY <1>0, <2>1, <2>3, <2>4
<1>3. CASE User
  <2>1. UNCHANGED <<world, changes, broken, online, lost>>
    BY <1>3 DEF User, SelectRow, OpenAgain, OpenSelected, OpenAdded, ReopenChanged, Command, Acts
  <2>2. timer' \in {timer, FALSE, TRUE}
    BY <1>3 DEF User, SelectRow, OpenAgain, OpenSelected, OpenAdded, ReopenChanged, Command,
                OpenAsNew, Reopen, Enter
  <2> QED
    BY <1>0, <1>1, <2>1, <2>2
<1>4. CASE Deliver
  <2>1. UNCHANGED <<world, changes, broken, online>>
    BY <1>4 DEF Deliver, Drop, AfterFetch, AfterPull, AfterPush, AfterStage, Called, Delivered
  <2>2. timer' \in {timer, FALSE}
    BY <1>4 DEF Deliver, Drop, AfterFetch, AfterPull, AfterPush, AfterStage, OpenAsNew, Reopen,
                Enter
  <2>3. lost' \in BOOLEAN
    BY <1>0, <1>4 DEF Deliver, Drop, AfterFetch, AfterPull, AfterPush, AfterStage, Called
  <2> QED
    BY <1>0, <1>1, <2>1, <2>2, <2>3
<1>5. CASE Start \/ Queries
  BY <1>0, <1>1, <1>5, StartFacts, AskFacts DEF Queries
<1>6. CASE Show
  BY <1>0, <1>1, <1>6, ShowFacts
<1>7. CASE TimerFires \/ (\E ok \in BOOLEAN : CommandEnds(ok)) \/ UNCHANGED vars
  BY <1>0, <1>1, <1>7 DEF TimerFires, CommandEnds, vars
<1> QED
  BY <1>2, <1>3, <1>4, <1>5, <1>6, <1>7 DEF Next

\* Commands and their ends: each takes the place of the action or the opening that
\* it comes from.
LEMMA LinesTyped ==
  ASSUME Types, Stacked, [Next]_vars
  PROVE  /\ commands' \in Seq(Job) /\ posted' \in Seq(Ended) /\ actions' \in 0..MaxActions
         /\ Len(frames') + Len(commands') + Len(posted') <= actions'
<1> USE DEF frozen, view, terminal, history
<1>0. /\ commands \in Seq(Job) /\ posted \in Seq(Ended) /\ actions \in 0..MaxActions
      /\ Len(frames) + Len(commands) + Len(posted) <= actions
      /\ MaxActions \in Nat
      /\ Len(frames) \in Nat /\ Len(commands) \in Nat /\ Len(posted) \in Nat
  <2>1. frames \in Seq(Frame) /\ commands \in Seq(Job) /\ posted \in Seq(Ended)
    BY DEF Types
  <2>2. Len(frames) \in Nat /\ Len(commands) \in Nat /\ Len(posted) \in Nat
    BY <2>1
  <2> QED
    BY <2>1, <2>2, SessionAssumption DEF Types, Stacked, SessionAssumption
<1>a. ASSUME UNCHANGED <<commands, posted>>, actions' \in {actions, actions + 1} \cap 0..MaxActions,
             \/ Len(frames') = Len(frames)
             \/ Len(frames') = Len(frames) + 1 /\ actions' = actions + 1
      PROVE  /\ commands' \in Seq(Job) /\ posted' \in Seq(Ended) /\ actions' \in 0..MaxActions
             /\ Len(frames') + Len(commands') + Len(posted') <= actions'
  BY <1>0, <1>a
<1>b. Opens => Len(frames') = Len(frames) + 1
  BY OpensFacts
<1>c. Acts => actions' = actions + 1 /\ actions' \in 0..MaxActions /\ UNCHANGED posted
  BY <1>0 DEF Acts
<1>1. CASE User
  <2>1. CASE SelectRow
    BY <1>0, <1>a, <2>1 DEF SelectRow
  <2>2. ASSUME NEW kind \in {"pull", "clone", "push", "stage"}, NEW repo \in Repos,
               Command(kind, repo)
        PROVE  /\ commands' \in Seq(Job) /\ posted' \in Seq(Ended) /\ actions' \in 0..MaxActions
               /\ Len(frames') + Len(commands') + Len(posted') <= actions'
    <3>1. [kind |-> kind, repo |-> repo] \in Job
      BY DEF Job, Kinds
    <3>2. commands' = Append(commands, [kind |-> kind, repo |-> repo]) /\ frames' = frames /\ Acts
      BY <2>2 DEF Command
    <3>3. commands' \in Seq(Job) /\ Len(commands') = Len(commands) + 1
      BY <1>0, <3>1, <3>2
    <3> QED
      BY <1>0, <1>c, <3>2, <3>3
  <2>3. ASSUME Acts, UNCHANGED commands, Opens \/ UNCHANGED frames
        PROVE  /\ commands' \in Seq(Job) /\ posted' \in Seq(Ended) /\ actions' \in 0..MaxActions
               /\ Len(frames') + Len(commands') + Len(posted') <= actions'
    BY <1>0, <1>a, <1>b, <1>c, <2>3
  <2>4. ASSUME Acts, UNCHANGED commands PROVE Opens \/ UNCHANGED frames
    <3>1. Opens \/ Rejects \/ Refreshes \/ Rests
           \/ Start \/ AskCached("head") \/ AskCached("status") \/ AskLog \/ Show
      BY StepKinds
    <3>2. frames = <<>>
      BY <2>4 DEF Acts
    <3> QED
      BY <3>1, <3>2 DEF Rejects, Refreshes, Rests, Start, StartWith, AskCached, AskLog, Show,
                        ShowWith
  <2>5. \/ SelectRow \/ (Acts /\ UNCHANGED commands)
        \/ \E kind \in {"pull", "clone", "push", "stage"}, repo \in Repos : Command(kind, repo)
    BY <1>1 DEF User, OpenAgain, OpenSelected, OpenAdded, ReopenChanged
  <2> QED
    BY <2>1, <2>2, <2>3, <2>4, <2>5
<1>2. ASSUME NEW ok \in BOOLEAN, CommandEnds(ok)
      PROVE  /\ commands' \in Seq(Job) /\ posted' \in Seq(Ended) /\ actions' \in 0..MaxActions
             /\ Len(frames') + Len(commands') + Len(posted') <= actions'
  <2>1. /\ Head(commands) \in Job /\ Tail(commands) \in Seq(Job)
        /\ Len(Tail(commands)) = Len(commands) - 1
    BY <1>0, <1>2 DEF CommandEnds
  <2>2. [kind |-> Head(commands).kind, repo |-> Head(commands).repo, ok |-> ok] \in Ended
    BY <2>1 DEF Job, Ended
  <2>3. posted' = Append(posted, [kind |-> Head(commands).kind, repo |-> Head(commands).repo,
                                  ok |-> ok])
        /\ commands' = Tail(commands) /\ UNCHANGED <<frames, actions>>
    BY <1>2 DEF CommandEnds
  <2>4. posted' \in Seq(Ended) /\ Len(posted') = Len(posted) + 1
    BY <1>0, <2>2, <2>3
  <2> QED
    BY <1>0, <2>1, <2>3, <2>4
<1>3. CASE Deliver
  <2>1. Delivered
    BY <1>3 DEF Deliver, Drop, AfterFetch, AfterPull, AfterPush, AfterStage, Called
  <2>2. Tail(posted) \in Seq(Ended) /\ Len(Tail(posted)) = Len(posted) - 1
    BY <1>0, <2>1 DEF Delivered
  <2>3. posted' = Tail(posted) /\ UNCHANGED <<commands, actions>>
    BY <2>1 DEF Delivered
  <2>4. Len(frames') = Len(frames) \/ Len(frames') = Len(frames) + 1
    <3>1. UNCHANGED frames \/ \E n, c, d, q \in BOOLEAN : Enter(n, c, d, q)
      BY <1>3 DEF Deliver, Drop, AfterFetch, AfterPull, AfterPush, AfterStage, OpenAsNew, Reopen
    <3>2. \/ Opens \/ Rejects \/ Refreshes \/ Rests
          \/ Start \/ AskCached("head") \/ AskCached("status") \/ AskLog \/ Show
      BY StepKinds
    <3>3. Looping /\ posted' # posted
      <4>1. Len(posted') = Len(posted) - 1
        BY <2>2, <2>3
      <4>2. Len(posted) \in Nat
        BY <1>0
      <4>3. posted' # posted
        BY <4>1, <4>2
      <4> QED
        BY <2>1, <4>3 DEF Delivered
    <3>4. ~AskCached("head") /\ ~AskCached("status") /\ ~AskLog /\ ~Show /\ ~Start
      BY <3>3 DEF AskCached, AskLog, Show, ShowWith, Start, StartWith
    <3> QED
      BY <1>b, <3>2, <3>4 DEF Rejects, Refreshes, Rests
  <2> QED
    BY <1>0, <2>2, <2>3, <2>4
<1>4. CASE Start
  <2>1. UNCHANGED <<commands, posted, actions>> /\ frames # <<>> /\ frames \in Seq(Frame)
        /\ IF runner' = None
            THEN frames' = Tail(frames)
            ELSE Asking(runner') \in Frame /\ frames' = <<Asking(runner')>> \o Tail(frames)
    BY <1>4, StartFacts DEF Types
  <2>2. Len(Tail(frames)) = Len(frames) - 1
    BY <2>1, Popped
  <2>3. \A f \in Frame : Len(<<f>> \o Tail(frames)) = Len(frames)
    BY <2>1, Replaced
  <2>4. Len(frames') <= Len(frames) /\ Len(frames') \in Nat
    BY <1>0, <2>1, <2>2, <2>3
  <2> QED
    BY <1>0, <2>1, <2>4
<1>5. CASE Queries
  <2>1. /\ UNCHANGED <<commands, posted, actions>> /\ frames # <<>> /\ frames \in Seq(Frame)
        /\ \E f \in Frame : frames' = <<f>> \o Tail(frames)
    BY <1>5, AskFacts DEF Queries, Types, Busy, Answered
  <2>2. \A f \in Frame : Len(<<f>> \o Tail(frames)) = Len(frames)
    BY <2>1, Replaced
  <2> QED
    BY <1>0, <2>1, <2>2
<1>6. CASE Show
  <2>1. /\ UNCHANGED <<posted, actions>> /\ frames # <<>> /\ frames \in Seq(Frame)
        /\ frames' = Tail(frames) /\ cached[runner].repo \in Repos
        /\ \/ commands' = commands
           \/ commands' = Append(commands, [kind |-> "fetch", repo |-> cached[runner].repo])
    BY <1>6, ShowFacts DEF Types, Busy
  <2>2. Len(Tail(frames)) = Len(frames) - 1
    BY <2>1, Popped
  <2> DEFINE job == [kind |-> "fetch", repo |-> cached[runner].repo]
  <2>3. job \in Job
    BY <2>1 DEF Job, Kinds
  <2>5. commands' = commands \/ commands' = Append(commands, job)
    BY <2>1
  <2> HIDE DEF job
  <2>6. Append(commands, job) \in Seq(Job) /\ Len(Append(commands, job)) = Len(commands) + 1
    <3>1. ASSUME NEW S, NEW s \in Seq(S), NEW e \in S
          PROVE  Append(s, e) \in Seq(S) /\ Len(Append(s, e)) = Len(s) + 1
      OBVIOUS
    <3> QED
      BY <1>0, <2>3, <3>1, Zenon
  <2>4. commands' \in Seq(Job) /\ Len(commands') <= Len(commands) + 1 /\ Len(commands') \in Nat
    BY <1>0, <2>5, <2>6
  <2> QED
    BY <1>0, <2>1, <2>2, <2>4
<1>7. CASE UNCHANGED <<commands, posted, actions, frames>>
  BY <1>0, <1>7
<1> QED
  BY <1>1, <1>2, <1>3, <1>4, <1>5, <1>6, <1>7 DEF Next, TimerFires, Change, vars


\* What happens to the stack in a step of an opening that asks git.
LEMMA AskStack ==
  ASSUME Types, Busy, NEW f, NEW c, Answered(f, c), frames' = <<f>> \o Tail(frames)
  PROVE  /\ frames' \in Seq(Frame) /\ frames' # <<>> /\ frames'[1] = f
         /\ Outer(frames') = Outer(frames) /\ All(frames') = {f} \cup Outer(frames)
         /\ All(frames) = {top} \cup Outer(frames)
<1>1. frames \in Seq(Frame) /\ frames # <<>> /\ f \in Frame
  BY DEF Types, Busy, Answered
<1>2. All(frames) = {top} \cup Outer(frames)
  BY <1>1, Innermost DEF top
<1>3. /\ <<f>> \o Tail(frames) \in Seq(Frame) /\ <<f>> \o Tail(frames) # <<>>
      /\ (<<f>> \o Tail(frames))[1] = f /\ Outer(<<f>> \o Tail(frames)) = Outer(frames)
      /\ All(<<f>> \o Tail(frames)) = {f} \cup Outer(frames)
  BY <1>1, Replaced
<1> QED
  BY <1>2, <1>3

\* What happens to the stack when a session is started.
LEMMA StartStack ==
  ASSUME Types, Stacked, Start
  PROVE  /\ frames' \in Seq(Frame) /\ All(frames) = {top} \cup Outer(frames)
         /\ Outer(frames') \subseteq Outer(frames)
         /\ runner' = None => /\ All(frames') = Outer(frames)
                              /\ frames' # <<>> => frames'[1] \in Outer(frames)
         /\ runner' # None => /\ All(frames') = {Asking(runner')} \cup Outer(frames)
                              /\ frames' # <<>> /\ frames'[1] = Asking(runner')
<1>1. /\ frames \in Seq(Frame) /\ frames # <<>>
      /\ IF runner' = None
            THEN frames' = Tail(frames)
            ELSE Asking(runner') \in Frame /\ frames' = <<Asking(runner')>> \o Tail(frames)
  BY StartFacts DEF Types
<1>2. CASE runner' = None
  <2>1. /\ Tail(frames) \in Seq(Frame) /\ All(Tail(frames)) = Outer(frames)
        /\ Outer(Tail(frames)) \subseteq Outer(frames)
        /\ Tail(frames) # <<>> => Tail(frames)[1] \in Outer(frames)
        /\ All(frames) = {frames[1]} \cup Outer(frames)
    BY <1>1, Popped
  <2> QED
    BY <1>1, <1>2, <2>1 DEF top
<1>3. CASE runner' # None
  <2>1. Asking(runner') \in Frame /\ frames' = <<Asking(runner')>> \o Tail(frames)
    BY <1>1, <1>3
  <2>2. /\ frames' \in Seq(Frame) /\ frames' # <<>> /\ frames'[1] = Asking(runner')
        /\ Outer(frames') = Outer(frames)
        /\ All(frames') = {Asking(runner')} \cup Outer(frames)
    BY <1>1, <2>1, Replaced
  <2>3. All(frames) = {top} \cup Outer(frames)
    BY <1>1, Innermost DEF top
  <2> QED
    BY <1>3, <2>2, <2>3
<1> QED
  BY <1>2, <1>3

\* What happens to the stack when an opening ends.
LEMMA ShowStack ==
  ASSUME Types, Stacked, Show
  PROVE  /\ frames' \in Seq(Frame) /\ All(frames) = {top} \cup Outer(frames)
         /\ Outer(frames') \subseteq Outer(frames) /\ All(frames') = Outer(frames)
         /\ frames' # <<>> => frames'[1] \in Outer(frames)
<1>1. frames \in Seq(Frame) /\ frames # <<>> /\ frames' = Tail(frames)
  BY ShowFacts DEF Types, Busy
<1> QED
  BY <1>1, Popped DEF top

\* The window and the openings.
LEMMA WindowTyped ==
  ASSUME Types, Stacked, [Next]_vars
  PROVE  /\ current' \in Repos \cup {None}
         /\ runner' \in Sessions \cup {None} /\ getter' \in Sessions \cup {None}
         /\ cached' \in [Sessions -> Cache] /\ frames' \in Seq(Frame)
         /\ shown'.repo \in Repos \cup {None} /\ files' \in Repos \cup {NoFiles}
         /\ rejected' \in BOOLEAN /\ mixed' \in BOOLEAN
<1>0. /\ current \in Repos \cup {None}
      /\ runner \in Sessions \cup {None} /\ getter \in Sessions \cup {None}
      /\ cached \in [Sessions -> Cache] /\ frames \in Seq(Frame)
      /\ shown.repo \in Repos \cup {None} /\ files \in Repos \cup {NoFiles}
      /\ rejected \in BOOLEAN /\ mixed \in BOOLEAN
  BY DEF Types
<1>1. CASE Opens
  <2>1. /\ UNCHANGED <<runner, getter, files, mixed, rejected>>
        /\ cached' \in {cached, Cleared(runner)}
    BY <1>1 DEF Opens
  <2>2. cached' \in [Sessions -> Cache]
    BY <1>0, <2>1, ClearedFacts
  <2>3. frames' \in Seq(Frame) /\ shown' \in {shown, NoLog} /\ current' \in Repos \cup {current}
    BY <1>1, OpensFacts
  <2>4. shown'.repo \in Repos \cup {None}
    BY <1>0, <2>3 DEF NoLog
  <2> QED
    BY <1>0, <2>1, <2>2, <2>3, <2>4
<1>2. CASE Rejects
  BY <1>0, <1>2, ClearedFacts DEF Rejects
<1>3. CASE Refreshes
  <2>1. UNCHANGED <<current, runner, getter, mixed, rejected, frames, shown>> /\ UpdateFiles
    BY <1>3 DEF Refreshes
  <2>2. cached' \in [Sessions -> Cache] /\ files' \in Repos \cup {NoFiles}
    BY <2>1, UpdateFacts
  <2> QED
    BY <1>0, <2>1, <2>2
<1>4. CASE Rests
  BY <1>0, <1>4 DEF Rests
<1>5. CASE Start
  <2>1. /\ UNCHANGED <<getter, current, files, shown>>
        /\ runner' \in Sessions \cup {None} /\ cached' \in [Sessions -> Cache]
        /\ mixed' \in BOOLEAN /\ rejected' \in BOOLEAN
    <3>1. top \in Frame
      BY <1>5, StartFacts
    <3>2. top.new \in BOOLEAN
      BY <3>1 DEF Frame
    <3>3. /\ UNCHANGED <<getter, current, files, shown>>
          /\ runner' \in Sessions \cup {None} /\ cached' \in [Sessions -> Cache]
      BY <1>5, StartFacts
    <3>6. mixed' \in BOOLEAN /\ rejected' \in BOOLEAN
      <4>1. /\ rejected' = (rejected /\ ~top.new)
            /\ mixed' = (~top.new /\ (mixed \/ top.g # runner))
        BY <1>5 DEF Start, StartWith
      <4> QED
        BY <1>0, <3>2, <4>1
    <3> QED
      BY <3>3, <3>6
  <2> QED
    BY <1>0, <1>5, <2>1, StartStack
<1>6. CASE AskCached("head") \/ AskCached("status") \/ AskLog
  <2>1. UNCHANGED <<current, runner, getter, files, shown, mixed, rejected>> /\ Busy
    BY <1>6, AskFacts
  <2>2. PICK f, c : /\ Answered(f, c) /\ frames' = <<f>> \o Tail(frames)
                    /\ cached' = [cached EXCEPT ![runner] = c]
    BY <1>6, AskFacts
  <2>3. cached' \in [Sessions -> Cache]
    BY <1>0, <2>2 DEF Answered
  <2> QED
    BY <1>0, <2>1, <2>2, <2>3, AskStack
<1>7. CASE Show
  <2>1. /\ UNCHANGED <<current, runner, cached, mixed, rejected>>
        /\ getter' = runner /\ files' = NoFiles
        /\ shown'.repo = cached[runner].repo /\ cached[runner].repo \in Repos
    BY <1>7, ShowFacts
  <2> QED
    BY <1>0, <1>7, <2>1, ShowStack
<1> QED
  BY <1>1, <1>2, <1>3, <1>4, <1>5, <1>6, <1>7, StepKinds

\* Every step keeps the types.
LEMMA TypesKept ==
  ASSUME Types, Stacked, [Next]_vars
  PROVE  Types'
BY DataTyped, LinesTyped, WindowTyped DEF Types

\* The openings in progress stay in order.
LEMMA StackedKept ==
  ASSUME Types, Stacked, [Next]_vars
  PROVE  Stacked'
<1>0. /\ \A f \in Outer(frames) : f.pc = "events"
      /\ \A f \in All(frames) : f.new => current # None
      /\ \A s \in Used : s # None => cached[s].repo \in Repos
      /\ Busy => top.g = runner /\ runner # None
      /\ current \in Repos \cup {None} /\ None \notin Repos
      /\ \A s \in Used \ {None} : s \in Sessions
  BY UsedFacts, AnswerFacts DEF Stacked, Types
<1>a. Len(frames') + Len(commands') + Len(posted') <= actions'
  BY LinesTyped
<1> SUFFICES /\ \A f \in Outer(frames') : f.pc = "events"
             /\ \A f \in All(frames') : f.new => current' # None
             /\ \A s \in Used' : s # None => cached'[s].repo \in Repos
             /\ Busy' => top'.g = runner' /\ runner' # None
  BY <1>a DEF Stacked
<1>1. CASE Opens
  <2>1. /\ UNCHANGED <<runner, getter>> /\ cached' \in {cached, Cleared(runner)}
        /\ frames # <<>> => top.pc = "events"
    BY <1>1 DEF Opens
  <2>2. PICK new \in BOOLEAN, clear_log \in BOOLEAN, do_fetch \in BOOLEAN, quiet \in BOOLEAN :
           LET f == Entering(new, clear_log, do_fetch, quiet)
           IN /\ frames' # <<>> /\ frames'[1] = f
              /\ Outer(frames') = All(frames) /\ All(frames') = {f} \cup All(frames)
              /\ IF new THEN current' \in Repos ELSE current' = current
    BY <1>1, OpensFacts
  <2> DEFINE f == Entering(new, clear_log, do_fetch, quiet)
  <2>3. f.pc \in {"events", "session"} /\ f.new = new /\ f.g = runner
    BY DEF Entering
  <2> HIDE DEF f
  <2>4. \A e \in Outer(frames') : e.pc = "events"
    <3>1. frames \in Seq(Frame) /\ (frames = <<>> => All(frames) = {})
      BY DEF Types, All
    <3>2. frames # <<>> => All(frames) = {top} \cup Outer(frames)
      BY <3>1, Innermost DEF top
    <3> QED
      BY <1>0, <2>1, <2>2, <3>1, <3>2
  <2>5. \A e \in All(frames') : e.new => current' # None
    BY <1>0, <2>2, <2>3 DEF f
  <2>6. Used' = Used
    BY <2>1, <2>2, <2>3, UsedIs DEF f
  <2>7. \A s \in Used' : s # None => cached'[s].repo \in Repos
    BY <1>0, <2>1, <2>6, ClearedFacts
  <2>8. ~Busy'
    BY <2>2, <2>3 DEF Busy, top, f
  <2> QED
    BY <2>4, <2>5, <2>7, <2>8
<1>2. CASE Rejects
  <2>1. /\ UNCHANGED <<frames, runner, getter>> /\ cached' = Cleared(runner)
        /\ current' \in Repos
    BY <1>2 DEF Rejects
  <2>2. Used' = Used /\ Busy' = Busy /\ top' = top
    BY <2>1 DEF Used, Busy, top
  <2>3. \A s \in Used' : s # None => cached'[s].repo \in Repos
    BY <1>0, <2>1, <2>2, ClearedFacts
  <2> QED
    BY <1>0, <2>1, <2>2, <2>3
<1>3. CASE Refreshes
  <2>1. UNCHANGED <<frames, runner, getter, current>> /\ UpdateFiles
    BY <1>3 DEF Refreshes
  <2>2. Used' = Used /\ Busy' = Busy /\ top' = top
    BY <2>1 DEF Used, Busy, top
  <2>3. \A s \in Used' : s # None => cached'[s].repo \in Repos
    BY <1>0, <2>1, <2>2, UpdateFacts
  <2> QED
    BY <1>0, <2>1, <2>2, <2>3
<1>4. CASE Rests
  <2>1. UNCHANGED <<frames, runner, getter, current, cached>>
    BY <1>4 DEF Rests
  <2>2. Used' = Used /\ Busy' = Busy /\ top' = top
    BY <2>1 DEF Used, Busy, top
  <2> QED
    BY <1>0, <2>1, <2>2
<1>5. CASE Start
  <2>1. /\ UNCHANGED <<getter, current>>
        /\ \A s \in Used \ {None} : s \in Sessions /\ cached'[s] = cached[s]
        /\ top \in Frame
        /\ top.new => cached'[runner'].repo = current
        /\ ~top.new => runner' = top.g
    BY <1>5, StartFacts
  <2>2. /\ Outer(frames') \subseteq Outer(frames) /\ All(frames) = {top} \cup Outer(frames)
        /\ \/ runner' = None /\ All(frames') = Outer(frames)
           \/ runner' # None /\ All(frames') = {Asking(runner')} \cup Outer(frames)
        /\ frames' # <<>> => \/ frames'[1] \in Outer(frames)
                             \/ runner' # None /\ frames'[1] = Asking(runner')
    BY <1>5, StartStack
  <2>3. /\ Asking(runner').new = top.new /\ Asking(runner').g = runner'
        /\ Asking(runner').pc = "asking"
    BY <2>1 DEF Asking, Frame
  <2>4. \A f \in Outer(frames') : f.pc = "events"
    BY <1>0, <2>2
  <2>5. \A f \in All(frames') : f.new => current' # None
    BY <1>0, <2>1, <2>2, <2>3
  <2>6. Used' \subseteq Used \cup {runner'}
    BY <2>1, <2>2, <2>3, UsedIs
  <2>7. runner' # None => cached'[runner'].repo \in Repos
    <3>1. CASE top.new
      BY <1>0, <2>1, <2>2, <3>1
    <3>2. CASE ~top.new
      <4>1. top.g \in Used
        BY <2>2, UsedIs
      <4> QED
        BY <1>0, <2>1, <3>2, <4>1
    <3> QED
      BY <3>1, <3>2
  <2>8. \A s \in Used' : s # None => cached'[s].repo \in Repos
    BY <1>0, <2>1, <2>6, <2>7
  <2>9. Busy' => top'.g = runner' /\ runner' # None
    BY <1>0, <2>2, <2>3 DEF Busy, top
  <2> QED
    BY <2>4, <2>5, <2>8, <2>9
<1>6. CASE AskCached("head") \/ AskCached("status") \/ AskLog
  <2>1. UNCHANGED <<current, runner, getter>> /\ Busy /\ runner \in Sessions
    BY <1>6, AskFacts
  <2>2. PICK f, c : /\ Answered(f, c) /\ frames' = <<f>> \o Tail(frames)
                    /\ cached' = [cached EXCEPT ![runner] = c]
    BY <1>6, AskFacts
  <2>3. f.g = runner /\ f.new = top.new /\ c.repo = cached[runner].repo
    BY <2>2 DEF Answered
  <2>4. /\ frames' # <<>> /\ frames'[1] = f /\ All(frames) = {top} \cup Outer(frames)
        /\ Outer(frames') = Outer(frames) /\ All(frames') = {f} \cup Outer(frames)
    BY <2>1, <2>2, AskStack
  <2>5. cached \in [Sessions -> Cache] /\ top.g = runner
    BY <1>0, <2>1 DEF Types
  <2>6. Used' = Used
    BY <2>1, <2>3, <2>4, <2>5, UsedIs
  <2>7. \A s \in Used' : s # None => cached'[s].repo \in Repos
    BY <1>0, <2>1, <2>2, <2>3, <2>5, <2>6
  <2>8. \A e \in All(frames') : e.new => current' # None
    BY <1>0, <2>1, <2>3, <2>4
  <2>9. Busy' => top'.g = runner' /\ runner' # None
    BY <1>0, <2>1, <2>3, <2>4 DEF top
  <2> QED
    BY <1>0, <2>4, <2>7, <2>8, <2>9
<1>7. CASE Show
  <2>1. UNCHANGED <<current, runner, cached>> /\ getter' = runner
    BY <1>7, ShowFacts
  <2>2. /\ Outer(frames') \subseteq Outer(frames) /\ All(frames') = Outer(frames)
        /\ frames' # <<>> => frames'[1] \in Outer(frames)
        /\ All(frames) = {top} \cup Outer(frames)
    BY <1>7, ShowStack
  <2>3. Used' \subseteq Used
    BY <2>1, <2>2, UsedIs
  <2>4. ~Busy'
    BY <1>0, <2>2 DEF Busy, top
  <2> QED
    BY <1>0, <2>1, <2>2, <2>3, <2>4
<1> QED
  BY <1>1, <1>2, <1>3, <1>4, <1>5, <1>6, <1>7, StepKinds


\* No opening is in progress at first, and what is shown is of the runner's repository.
LEMMA StackedInit == Init => Types /\ Stacked
<1> SUFFICES ASSUME Init PROVE Types /\ Stacked
  OBVIOUS
<1>0. /\ AtStart \subseteq Repos \cup {None} /\ None \notin Repos /\ 1 \in Sessions
      /\ MaxChanges \in Nat /\ MaxActions \in Nat /\ 0 \in 0..MaxChanges /\ 0 \in 0..MaxActions
  BY SessionAssumption DEF SessionAssumption, Sessions
<1>1. /\ world = [r \in Repos |-> 0] /\ changes = 0 /\ broken \subseteq Repos
      /\ online \in BOOLEAN /\ current \in Repos \cup {None}
      /\ frames = <<>> /\ commands = <<>> /\ posted = <<>> /\ files = NoFiles
      /\ actions = 0 /\ rejected = FALSE /\ mixed = FALSE /\ lost = FALSE
  BY <1>0 DEF Init
<1>2. /\ NoCache \in Cache
      /\ current # None => [repo |-> current, head |-> 0, status |-> 0] \in Cache
  BY <1>1, AnswerFacts DEF NoCache, Cache
<1>3. /\ runner \in Sessions \cup {None} /\ getter \in Sessions \cup {None}
      /\ cached \in [Sessions -> Cache] /\ shown.repo \in Repos \cup {None} /\ timer \in BOOLEAN
  <2>1. CASE current = None
    <3>1. /\ runner = None /\ getter = None /\ shown = NoLog /\ timer = FALSE
          /\ cached = [s \in Sessions |-> NoCache]
      BY <2>1 DEF Init
    <3>2. cached \in [Sessions -> Cache]
      BY <1>2, <3>1
    <3> QED
      BY <3>1, <3>2 DEF NoLog
  <2>2. CASE current # None
    BY <1>0, <1>1, <1>2, <2>2 DEF Init
  <2> QED
    BY <2>1, <2>2
<1>4. frames \in Seq(Frame) /\ commands \in Seq(Job) /\ posted \in Seq(Ended)
  BY <1>1
<1>5. Types
  <2>1. world \in [Repos -> 0..MaxChanges] /\ \A r \in Repos : world[r] <= changes
    BY <1>0, <1>1
  <2> QED
    BY <1>0, <1>1, <1>3, <1>4, <2>1 DEF Types
<1>6. All(frames) = {} /\ Outer(frames) = {} /\ Len(frames) = 0
  BY <1>1 DEF All, Outer
<1>7. \A s \in Used : s # None => cached[s].repo \in Repos
  <2>1. Used = {runner, getter}
    BY <1>6, UsedIs
  <2>2. CASE current = None
    BY <2>1, <2>2 DEF Init
  <2>3. CASE current # None
    BY <1>0, <1>1, <2>1, <2>3 DEF Init
  <2> QED
    BY <2>2, <2>3
<1>8. Stacked
  BY <1>1, <1>6, <1>7 DEF Stacked, Busy
<1> QED
  BY <1>5, <1>8

\* Type correctness: every reachable state is well typed, and only the innermost
\* opening is past its events.
THEOREM TypeCorrect == Spec => []TypeOK
<1>1. Types /\ Stacked /\ [Next]_vars => Types' /\ Stacked'
  BY TypesKept, StackedKept
<1>2. Types /\ Stacked => TypeOK
  <2> SUFFICES ASSUME Types, Stacked PROVE TypeOK
    OBVIOUS
  <2>1. ASSUME NEW k \in 1..Len(frames)
        PROVE  /\ frames[k].pc \in {"events", "session", "asking"}
               /\ frames[k].g \in Sessions \cup {None}
               /\ frames[k].since \in [Repos -> 0..MaxChanges]
               /\ {frames[k].head, frames[k].status, frames[k].log} \subseteq Answers
               /\ k > 1 => frames[k].pc = "events"
    <3>1. frames[k] \in Frame
      BY UsedFacts DEF All
    <3>2. k > 1 => frames[k].pc = "events"
      <4>1. Len(frames) \in Nat
        BY DEF Types
      <4>2. k > 1 => frames[k] \in Outer(frames)
        BY <4>1 DEF Outer
      <4> QED
        BY <4>2 DEF Stacked
    <3> QED
      BY <3>1, <3>2 DEF Frame
  <2> QED
    BY <2>1 DEF Types, TypeOK, Cache
<1> QED
  BY StackedInit, <1>1, <1>2, PTL DEF Spec

-----------------------------------------------------------------------------
(* One repository in the window. *)

\* What is shown, the thread that verifies it and the list of files are of the
\* runner's repository, but while the queries of another run; the runner is the
\* one of the current repository once no new session is still to come.
Linked ==
  /\ shown # NoLog => RepoOf(getter) = shown.repo
  /\ shown # NoLog => RepoOf(runner) = shown.repo \/ (mixed /\ runner = None) \/ Busy
  /\ \/ \E f \in All(frames) : f.new /\ f.pc # "asking"
     \/ mixed \/ rejected \/ current = RepoOf(runner)
  /\ shown # NoLog /\ files # NoFiles => files = shown.repo \/ Busy

\* Which repository a session is of does not change while it is in use.
LEMMA SameRepo ==
  ASSUME Types, Stacked,
         cached' \in {cached, Cleared(runner)} \/ UpdateFiles
  PROVE  \A s \in Sessions \cup {None} : RepoOf(s)' = RepoOf(s)
<1>1. \A s \in Sessions : cached'[s].repo = cached[s].repo
  BY ClearedFacts, UpdateFacts
<1> QED
  BY <1>1 DEF RepoOf

\* Every step keeps the parts of the window on one repository.
LEMMA LinkedKept ==
  ASSUME Types, Stacked, Linked, [Next]_vars
  PROVE  Linked'
<1>0. /\ runner \in Sessions \cup {None} /\ getter \in Sessions \cup {None}
      /\ None \notin Sessions /\ runner \in Used /\ getter \in Used
  BY AnswerFacts DEF Types, Used
<1>a. \A f \in Outer(frames) : f.pc = "events"
  BY DEF Stacked
<1>1. CASE Opens
  <2>1. /\ UNCHANGED <<runner, getter, files, mixed, rejected>>
        /\ cached' \in {cached, Cleared(runner)}
        /\ frames # <<>> => top.pc = "events"
    BY <1>1 DEF Opens
  <2>2. PICK new \in BOOLEAN, clear_log \in BOOLEAN, do_fetch \in BOOLEAN, quiet \in BOOLEAN :
           LET f == Entering(new, clear_log, do_fetch, quiet)
           IN /\ All(frames') = {f} \cup All(frames)
              /\ shown' = IF clear_log THEN NoLog ELSE shown
              /\ clear_log \/ (~new /\ cached' = Cleared(runner))
              /\ IF new THEN current' \in Repos ELSE current' = current
    BY <1>1, OpensFacts
  <2> DEFINE f == Entering(new, clear_log, do_fetch, quiet)
  <2>3. f.new = new /\ (clear_log => f.pc = "events")
    BY DEF Entering
  <2>4. f \in All(frames') /\ All(frames) \subseteq All(frames')
    BY <2>2
  <2> HIDE DEF f
  <2>5. ~Busy /\ RepoOf(runner)' = RepoOf(runner) /\ RepoOf(getter)' = RepoOf(getter)
    <3>1. \A s \in Sessions \cup {None} : RepoOf(s)' = RepoOf(s)
      BY <2>1, SameRepo
    <3> QED
      BY <1>0, <2>1, <3>1 DEF RepoOf, Busy
  <2>6. shown' # NoLog => shown' = shown
    BY <2>2
  <2>7. \/ \E e \in All(frames') : e.new /\ e.pc # "asking"
        \/ mixed' \/ rejected' \/ current' = RepoOf(runner)'
    BY <2>1, <2>2, <2>3, <2>4, <2>5 DEF Linked
  <2> QED
    BY <2>1, <2>5, <2>6, <2>7 DEF Linked
<1>2. CASE Rejects
  <2>1. /\ UNCHANGED <<runner, getter, files, mixed, frames, shown>>
        /\ rejected' = TRUE /\ cached' = Cleared(runner)
    BY <1>2 DEF Rejects
  <2>2. RepoOf(runner)' = RepoOf(runner) /\ RepoOf(getter)' = RepoOf(getter)
    BY <1>0, <2>1, SameRepo DEF RepoOf
  <2>3. Busy' = Busy
    BY <2>1 DEF Busy, top
  <2> QED
    BY <2>1, <2>2, <2>3 DEF Linked
<1>3. CASE Refreshes
  <2>1. /\ UNCHANGED <<current, runner, getter, mixed, rejected, frames, shown>>
        /\ UpdateFiles /\ ~Busy
    BY <1>3 DEF Refreshes
  <2>2. RepoOf(runner)' = RepoOf(runner) /\ RepoOf(getter)' = RepoOf(getter)
    BY <1>0, <2>1, SameRepo DEF RepoOf
  <2>3. files' = files \/ (runner # None /\ files' = RepoOf(runner))
    BY <1>0, <2>1, UpdateFacts DEF RepoOf
  <2>4. Busy' = Busy
    BY <2>1 DEF Busy, top
  <2> QED
    BY <2>1, <2>2, <2>3, <2>4 DEF Linked
<1>4. CASE Rests
  <2>1. /\ UNCHANGED <<current, runner, getter, mixed, rejected, frames, shown, cached>>
        /\ files' \in {files, NoFiles}
    BY <1>4 DEF Rests
  <2>2. RepoOf(runner)' = RepoOf(runner) /\ RepoOf(getter)' = RepoOf(getter)
    BY <2>1 DEF RepoOf
  <2>3. Busy' = Busy
    BY <2>1 DEF Busy, top
  <2> QED
    BY <2>1, <2>2, <2>3 DEF Linked
<1>5. CASE Start
  <2>1. /\ UNCHANGED <<getter, current, files, shown>> /\ top.pc \in {"events", "session"}
        /\ runner' \in Sessions \cup {None}
        /\ \A s \in Used \ {None} : s \in Sessions /\ cached'[s] = cached[s]
    BY <1>5, StartFacts
  <2>2. /\ All(frames) = {top} \cup Outer(frames)
        /\ Outer(frames) \subseteq All(frames')
        /\ runner' # None => /\ All(frames') = {Asking(runner')} \cup Outer(frames)
                             /\ frames' # <<>> /\ frames'[1] = Asking(runner')
    BY <1>5, StartStack
  <2>3. runner' # None => Busy'
    <3>1. top \in Frame
      BY <1>5, StartFacts
    <3>2. Asking(runner').pc = "asking"
      BY <3>1 DEF Asking, Frame
    <3> QED
      BY <2>2, <3>2 DEF Busy, top
  <2>4. RepoOf(getter)' = RepoOf(getter)
    BY <1>0, <2>1 DEF RepoOf
  <2>5. ~Busy
    BY <2>1 DEF Busy
  <2>6. CASE top.new
    <3>1. runner' \in Sessions /\ cached'[runner'].repo = current
      BY <1>5, <2>6, StartFacts
    <3>2. RepoOf(runner)' = current'
      BY <1>0, <2>1, <3>1 DEF RepoOf
    <3>3. runner' # None
      BY <1>0, <3>1
    <3> QED
      BY <2>1, <2>3, <2>4, <3>2, <3>3 DEF Linked
  <2>7. CASE ~top.new
    <3>1. runner' = top.g /\ rejected' = rejected /\ mixed' = (mixed \/ top.g # runner)
      BY <1>5, <2>7, StartFacts
    <3>2. runner' = runner => RepoOf(runner)' = RepoOf(runner)
      BY <1>0, <2>1 DEF RepoOf
    <3>3. (\E f \in All(frames) : f.new /\ f.pc # "asking")
            => \E f \in All(frames') : f.new /\ f.pc # "asking"
      BY <2>2, <2>7
    <3>4. \/ \E f \in All(frames') : f.new /\ f.pc # "asking"
          \/ mixed' \/ rejected' \/ current' = RepoOf(runner)'
      BY <2>1, <3>1, <3>2, <3>3 DEF Linked
    <3>5. shown # NoLog => RepoOf(runner)' = shown.repo \/ (mixed' /\ runner' = None) \/ Busy'
      BY <2>3, <2>5, <3>1, <3>2 DEF Linked
    <3> QED
      BY <2>1, <2>4, <2>5, <3>4, <3>5 DEF Linked
  <2> QED
    BY <2>6, <2>7
<1>6. CASE AskCached("head") \/ AskCached("status") \/ AskLog
  <2>1. UNCHANGED <<current, runner, getter, files, shown, mixed, rejected>> /\ Busy
        /\ runner \in Sessions
    BY <1>6, AskFacts
  <2>2. PICK f, c : /\ Answered(f, c) /\ frames' = <<f>> \o Tail(frames)
                    /\ cached' = [cached EXCEPT ![runner] = c]
    BY <1>6, AskFacts
  <2>3. f.new = top.new /\ c.repo = cached[runner].repo /\ f.pc = "asking"
    BY <2>2 DEF Answered
  <2>4. /\ frames' # <<>> /\ frames'[1] = f /\ All(frames) = {top} \cup Outer(frames)
        /\ All(frames') = {f} \cup Outer(frames)
    BY <2>1, <2>2, AskStack
  <2>5. cached \in [Sessions -> Cache]
    BY DEF Types
  <2>6. \A s \in Sessions : cached'[s].repo = cached[s].repo
    BY <2>1, <2>2, <2>3, <2>5
  <2>7. RepoOf(runner)' = RepoOf(runner) /\ RepoOf(getter)' = RepoOf(getter)
    BY <1>0, <2>1, <2>6 DEF RepoOf
  <2>8. Busy'
    BY <2>3, <2>4 DEF Busy, top
  <2>9. (\E e \in All(frames) : e.new /\ e.pc # "asking")
            => \E e \in All(frames') : e.new /\ e.pc # "asking"
    BY <2>1, <2>4 DEF Busy
  <2> QED
    BY <2>1, <2>7, <2>8, <2>9 DEF Linked
<1>7. CASE Show
  <2>1. /\ UNCHANGED <<current, runner, cached, mixed, rejected>> /\ getter' = runner
        /\ files' = NoFiles /\ shown'.repo = cached[runner].repo /\ Busy /\ runner \in Sessions
    BY <1>7, ShowFacts
  <2>2. /\ All(frames') = Outer(frames) /\ All(frames) = {top} \cup Outer(frames)
    BY <1>7, ShowStack
  <2>3. RepoOf(runner)' = RepoOf(runner) /\ RepoOf(getter)' = shown'.repo
        /\ RepoOf(runner)' = shown'.repo
    BY <1>0, <2>1 DEF RepoOf
  <2>4. (\E f \in All(frames) : f.new /\ f.pc # "asking")
            => \E f \in All(frames') : f.new /\ f.pc # "asking"
    BY <2>1, <2>2 DEF Busy
  <2> QED
    BY <2>1, <2>3, <2>4 DEF Linked
<1> QED
  BY <1>1, <1>2, <1>3, <1>4, <1>5, <1>6, <1>7, StepKinds

\* The parts of the window are on one repository, as far as the openings have got.
LEMMA PartsLinked == Spec => []Linked
<1>1. Init => Linked
  <2> SUFFICES ASSUME Init PROVE Linked
    OBVIOUS
  <2>1. None \notin Repos \cup Nat
    BY SessionAssumption DEF SessionAssumption
  <2>2. CASE current = None
    BY <2>2 DEF Init, Linked, RepoOf
  <2>3. CASE current # None
    <3>1. runner = 1 /\ getter = 1 /\ shown.repo = current /\ files = NoFiles
      BY <2>3 DEF Init
    <3>2. cached[1].repo = current
      <4>1. 1 \in Sessions
        BY SessionAssumption DEF SessionAssumption, Sessions
      <4> QED
        BY <2>3, <4>1 DEF Init
    <3>3. 1 # None
      BY <2>1
    <3> QED
      BY <3>1, <3>2, <3>3 DEF Linked, RepoOf
  <2> QED
    BY <2>2, <2>3
<1>2. Types /\ Stacked /\ Linked /\ [Next]_vars => Types' /\ Stacked' /\ Linked'
  BY TypesKept, StackedKept, LinkedKept
<1> QED
  BY StackedInit, <1>1, <1>2, PTL DEF Spec

\* MainWindow.cpp, openRepositoryMain: once every opening has ended, the log that is
\* shown, the verifying thread, the runner and the current repository belong together.
THEOREM WindowOfOne == Spec => []OneRepository
<1>1. Linked => OneRepository
  <2> SUFFICES ASSUME Linked, frames = <<>>, shown # NoLog
               PROVE  /\ RepoOf(getter) = shown.repo
                      /\ mixed \/ RepoOf(runner) = shown.repo
                      /\ mixed \/ rejected \/ current = shown.repo
    BY DEF OneRepository
  <2>1. ~Busy /\ All(frames) = {}
    BY DEF Busy, All
  <2> QED
    BY <2>1 DEF Linked
<1> QED
  BY <1>1, PartsLinked, PTL

\* MainWindow.cpp, updateFileList: once every opening has ended, the files that are
\* listed are those of a commit of the log that is shown.
THEOREM FilesMatchLog == Spec => []FilesOfLog
<1>1. Linked => FilesOfLog
  <2> SUFFICES ASSUME Linked, frames = <<>>, shown # NoLog
               PROVE  files # NoFiles => files = shown.repo
    BY DEF FilesOfLog
  <2>1. ~Busy /\ All(frames) = {}
    BY DEF Busy, All
  <2> QED
    BY <2>1 DEF Linked
<1> QED
  BY <1>1, PartsLinked, PTL


-----------------------------------------------------------------------------
(* What is shown is not older than its opening. *)

\* An opening that starts a session, or that has just cleared its cache, only
\* meets answers that were given after it began.
NotOlder ==
  /\ \A f \in All(frames) : /\ \A r \in Repos : f.since[r] <= world[r]
                            /\ f.pc = "events" /\ f.clean => f.new
  /\ frames # <<>> /\ top.pc = "session"
       => /\ ~top.new
          /\ top.g # None => cached[top.g].head = Unasked /\ cached[top.g].status = Unasked
  /\ Busy /\ top.clean
       => LET since == top.since[cached[runner].repo]
          IN /\ top.head >= since /\ top.status >= since /\ top.log >= since
             /\ cached[runner].head >= since /\ cached[runner].status >= since
  /\ OpenedFresh

\* A step that leaves the openings, the log and the caches that they read alone.
LEMMA NotOlderSame ==
  ASSUME Types, Stacked, NotOlder, UNCHANGED <<frames, shown, runner>>,
         \A r \in Repos : world[r] <= world'[r], world' \in [Repos -> 0..MaxChanges],
         (frames # <<>> /\ top.pc \in {"session", "asking"}) => cached' = cached
  PROVE  NotOlder'
<1>1. All(frames') = All(frames) /\ top' = top /\ (Busy' <=> Busy)
  BY DEF top, Busy
<1>2. ASSUME NEW f \in All(frames), NEW r \in Repos PROVE f.since[r] <= world'[r]
  <2>1. f \in Frame
    BY UsedFacts
  <2>2. f.since[r] \in Nat /\ world[r] \in Nat /\ world'[r] \in Nat
    BY <2>1, AnswerFacts DEF Frame, Types
  <2>3. f.since[r] <= world[r] /\ world[r] <= world'[r]
    BY DEF NotOlder
  <2> QED
    BY <2>2, <2>3
<1>3. \A f \in All(frames) : f.pc = "events" /\ f.clean => f.new
  BY DEF NotOlder
<1>4. OpenedFresh'
  BY DEF NotOlder, OpenedFresh
<1>5. frames' # <<>> /\ top'.pc = "session"
       => /\ ~top'.new
          /\ top'.g # None => cached'[top'.g].head = Unasked /\ cached'[top'.g].status = Unasked
  BY <1>1 DEF NotOlder
<1>6. Busy' /\ top'.clean
       => LET since == top'.since[cached'[runner'].repo]
          IN /\ top'.head >= since /\ top'.status >= since /\ top'.log >= since
             /\ cached'[runner'].head >= since /\ cached'[runner'].status >= since
  BY <1>1 DEF NotOlder, Busy
<1> QED
  BY <1>1, <1>2, <1>3, <1>4, <1>5, <1>6 DEF NotOlder

\* Every step keeps what an opening knows from being older than the opening.
LEMMA NotOlderKept ==
  ASSUME Types, Stacked, NotOlder, [Next]_vars
  PROVE  NotOlder'
<1>0. /\ All(frames) \subseteq Frame /\ None \notin Sessions
      /\ \A f \in Outer(frames) : f.pc = "events"
      /\ \A f \in All(frames) : /\ \A r \in Repos : f.since[r] <= world[r]
                                /\ f.pc = "events" /\ f.clean => f.new
      /\ OpenedFresh
  BY UsedFacts, AnswerFacts DEF Stacked, NotOlder
<1>a. /\ world' \in [Repos -> 0..MaxChanges] /\ \A r \in Repos : world[r] <= world'[r]
      /\ world \in [Repos -> 0..MaxChanges] /\ MaxChanges \in Nat
  BY DataTyped, AnswerFacts DEF Types
<1>1. CASE Opens
  <2>1. /\ UNCHANGED <<world, runner>> /\ cached' \in {cached, Cleared(runner)}
        /\ frames # <<>> => top.pc = "events"
    BY <1>1 DEF Opens
  <2>2. PICK new \in BOOLEAN, clear_log \in BOOLEAN, do_fetch \in BOOLEAN, quiet \in BOOLEAN :
           LET f == Entering(new, clear_log, do_fetch, quiet)
           IN /\ frames' # <<>> /\ frames'[1] = f
              /\ All(frames') = {f} \cup All(frames)
              /\ shown' = IF clear_log THEN NoLog ELSE shown
              /\ clear_log \/ (~new /\ cached' = Cleared(runner))
    BY <1>1, OpensFacts
  <2> DEFINE f == Entering(new, clear_log, do_fetch, quiet)
  <2>3. /\ f.new = new /\ f.pc = (IF clear_log THEN "events" ELSE "session")
        /\ f.clean = (new \/ ~clear_log) /\ f.since = world /\ f.g = runner
    BY DEF Entering
  <2>4. /\ frames' # <<>> /\ frames'[1] = f /\ All(frames') = {f} \cup All(frames)
    BY <2>2
  <2> HIDE DEF f
  <2>5. \A e \in All(frames') : /\ \A r \in Repos : e.since[r] <= world'[r]
                                /\ e.pc = "events" /\ e.clean => e.new
    <3>1. \A r \in Repos : world[r] <= world[r]
      BY <1>a
    <3>2. f.pc = "events" /\ f.clean => f.new
      BY <2>3
    <3> QED
      BY <1>0, <2>1, <2>3, <2>4, <3>1, <3>2
  <2>6. f.pc = "session"
          => /\ ~f.new
             /\ f.g # None => cached'[f.g].head = Unasked /\ cached'[f.g].status = Unasked
    <3>1. runner \in Sessions \cup {None}
      BY DEF Types
    <3> QED
      BY <2>2, <2>3, <3>1, ClearedFacts
  <2>7. ~Busy' /\ top' = f
    BY <2>3, <2>4 DEF Busy, top
  <2>8. OpenedFresh'
    BY <1>0, <2>2 DEF OpenedFresh
  <2> QED
    BY <2>5, <2>6, <2>7, <2>8 DEF NotOlder
<1>2. CASE Rejects
  <2>1. /\ UNCHANGED <<world, runner, frames, shown>> /\ cached' = Cleared(runner)
    BY <1>2 DEF Rejects
  <2>2. runner \in Sessions \cup {None} /\ cached \in [Sessions -> Cache]
    BY DEF Types
  <2>3. frames = <<>> => NotOlder'
    BY <1>a, <2>1, NotOlderSame
  <2>4. frames = <<>>
    BY <1>2 DEF Rejects
  <2> QED
    BY <2>3, <2>4
<1>3. CASE Refreshes
  <2>1. /\ UNCHANGED <<runner, frames, shown>>
        /\ ~(frames # <<>> /\ top.pc \in {"session", "asking"})
    BY <1>3 DEF Refreshes
  <2> QED
    BY <1>a, <2>1, NotOlderSame
<1>4. CASE Rests
  BY <1>4, <1>a, NotOlderSame DEF Rests
<1>5. CASE Start
  <2>1. /\ UNCHANGED <<world, shown>> /\ top.pc \in {"events", "session"} /\ frames # <<>>
        /\ runner' \in Sessions \cup {None} /\ top \in Frame
        /\ \A s \in Used \ {None} : s \in Sessions /\ cached'[s] = cached[s]
        /\ cached' \in [Sessions -> Cache]
    BY <1>5, StartFacts
  <2>2. /\ All(frames) = {top} \cup Outer(frames)
        /\ runner' = None => /\ All(frames') = Outer(frames)
                             /\ frames' # <<>> => frames'[1] \in Outer(frames)
        /\ runner' # None => /\ All(frames') = {Asking(runner')} \cup Outer(frames)
                             /\ frames' # <<>> /\ frames'[1] = Asking(runner')
    BY <1>5, StartStack
  <2> DEFINE f == Asking(runner')
  <2>3. /\ f.pc = "asking" /\ f.since = top.since /\ f.clean = top.clean /\ f.new = top.new
        /\ f.head = Pending /\ f.log = Pending /\ f.status \in {Unasked, Pending}
    BY <2>1 DEF Asking, Frame
  <2>4. \/ runner' = None
        \/ All(frames') = {f} \cup Outer(frames) /\ frames' # <<>> /\ frames'[1] = f
    BY <2>2
  <2> HIDE DEF f
  <2>5. OpenedFresh'
    BY <1>0, <2>1 DEF OpenedFresh
  <2>6. \A e \in All(frames') : /\ \A r \in Repos : e.since[r] <= world'[r]
                                /\ e.pc = "events" /\ e.clean => e.new
    BY <1>0, <2>1, <2>2, <2>3, <2>4
  <2>7. ~(frames' # <<>> /\ top'.pc = "session")
    BY <1>0, <2>2, <2>3, <2>4 DEF top
  <2>8. ASSUME Busy', top'.clean
        PROVE  LET since == top'.since[cached'[runner'].repo]
               IN /\ top'.head >= since /\ top'.status >= since /\ top'.log >= since
                  /\ cached'[runner'].head >= since /\ cached'[runner'].status >= since
    <3>1. runner' # None /\ top' = f
      BY <1>0, <2>2, <2>4, <2>8 DEF Busy, top
    <3>2. runner' \in Sessions /\ cached'[runner'].repo \in Repos
      <4>1. Stacked' /\ Types'
        BY StackedKept, TypesKept
      <4>2. runner' \in Used'
        BY DEF Used
      <4> QED
        BY <2>1, <3>1, <4>1, <4>2 DEF Stacked
    <3>3. f.since[cached'[runner'].repo] \in 0..MaxChanges
      BY <2>1, <2>3, <3>2 DEF Frame
    <3>4. cached'[runner'].head = Unasked /\ cached'[runner'].status = Unasked
      <4>1. CASE top.new
        BY <1>5, <4>1, StartFacts
      <4>2. CASE ~top.new
        <5>1. runner' = top.g
          BY <1>5, <4>2, StartFacts
        <5>2. top.g \in Used
          BY <2>2, UsedIs
        <5>3. top.pc = "session"
          <6>1. top \in All(frames) /\ top.clean
            BY <2>2, <2>3, <2>8, <3>1
          <6> QED
            BY <1>0, <2>1, <4>2, <6>1
        <5>4. cached[top.g].head = Unasked /\ cached[top.g].status = Unasked
          BY <2>1, <3>1, <5>1, <5>3 DEF NotOlder
        <5> QED
          BY <2>1, <3>1, <5>1, <5>2, <5>4
      <4> QED
        BY <4>1, <4>2
    <3>5. \A n \in 0..MaxChanges : Pending >= n /\ Unasked >= n
      BY <1>a DEF Pending, Unasked
    <3> QED
      BY <2>3, <3>1, <3>3, <3>4, <3>5
  <2> QED
    BY <2>5, <2>6, <2>7, <2>8 DEF NotOlder
<1>6. CASE AskCached("head") \/ AskCached("status") \/ AskLog
  <2>1. UNCHANGED <<world, shown, runner>> /\ Busy /\ runner \in Sessions
        /\ cached[runner].repo \in Repos
    BY <1>6, AskFacts
  <2>2. PICK f, c : /\ Answered(f, c) /\ frames' = <<f>> \o Tail(frames)
                    /\ cached' = [cached EXCEPT ![runner] = c]
    BY <1>6, AskFacts
  <2>3. /\ frames' # <<>> /\ frames'[1] = f /\ All(frames) = {top} \cup Outer(frames)
        /\ All(frames') = {f} \cup Outer(frames)
    BY <2>1, <2>2, AskStack
  <2> DEFINE now == world[cached[runner].repo]
             since == top.since[cached[runner].repo]
  <2>4. /\ f.pc = "asking" /\ f.since = top.since /\ f.clean = top.clean
        /\ f.head \in {top.head, cached[runner].head, now}
        /\ f.status \in {top.status, cached[runner].status, now}
        /\ f.log \in {top.log, now} /\ c.repo = cached[runner].repo
        /\ c.head \in {cached[runner].head, now} /\ c.status \in {cached[runner].status, now}
    BY <2>2 DEF Answered
  <2>5. cached'[runner'] = c /\ top' = f /\ Busy'
    <3>1. cached \in [Sessions -> Cache]
      BY DEF Types
    <3> QED
      BY <2>1, <2>2, <2>3, <2>4, <3>1 DEF top, Busy
  <2>6. since \in Nat /\ now \in Nat /\ since <= now
    <3>1. top \in All(frames)
      BY <2>3
    <3>2. top \in Frame
      BY <1>0, <3>1
    <3> QED
      BY <1>0, <1>a, <2>1, <3>1, <3>2 DEF Frame
  <2>7. top.clean => /\ top.head >= since /\ top.status >= since /\ top.log >= since
                     /\ cached[runner].head >= since /\ cached[runner].status >= since
    BY <2>1 DEF NotOlder
  <2> HIDE DEF now, since
  <2>8. f.clean => /\ f.head >= since /\ f.status >= since /\ f.log >= since
                   /\ c.head >= since /\ c.status >= since
    BY <2>4, <2>6, <2>7
  <2>9. \A e \in All(frames') : /\ \A r \in Repos : e.since[r] <= world'[r]
                                /\ e.pc = "events" /\ e.clean => e.new
    BY <1>0, <2>1, <2>3, <2>4
  <2>10. OpenedFresh'
    BY <1>0, <2>1 DEF OpenedFresh
  <2>11. Busy' /\ top'.clean
       => LET from == top'.since[cached'[runner'].repo]
          IN /\ top'.head >= from /\ top'.status >= from /\ top'.log >= from
             /\ cached'[runner'].head >= from /\ cached'[runner'].status >= from
    BY <2>4, <2>5, <2>8 DEF since
  <2> QED
    BY <2>4, <2>5, <2>9, <2>10, <2>11 DEF NotOlder
<1>7. CASE Show
  <2>1. /\ UNCHANGED <<world, runner, cached>> /\ Busy
        /\ shown' = [repo |-> cached[runner].repo, head |-> top.head, status |-> top.status,
                      log |-> top.log, since |-> top.since[cached[runner].repo],
                      clean |-> top.clean]
    BY <1>7, ShowFacts
  <2>2. /\ All(frames') = Outer(frames) /\ All(frames) = {top} \cup Outer(frames)
        /\ frames' # <<>> => frames'[1] \in Outer(frames)
    BY <1>7, ShowStack
  <2>3. OpenedFresh'
    <3>1. top.clean => LET since == top.since[cached[runner].repo]
                       IN top.head >= since /\ top.status >= since /\ top.log >= since
      BY <2>1 DEF NotOlder
    <3>2. /\ shown'.head = top.head /\ shown'.status = top.status /\ shown'.log = top.log
          /\ shown'.since = top.since[cached[runner].repo] /\ shown'.clean = top.clean
      BY <2>1
    <3> QED
      BY <3>1, <3>2 DEF OpenedFresh
  <2>4. ~Busy' /\ ~(frames' # <<>> /\ top'.pc = "session")
    BY <1>0, <2>2 DEF Busy, top
  <2>5. \A e \in All(frames') : /\ \A r \in Repos : e.since[r] <= world'[r]
                                /\ e.pc = "events" /\ e.clean => e.new
    BY <1>0, <2>1, <2>2
  <2> QED
    BY <2>3, <2>4, <2>5 DEF NotOlder
<1> QED
  BY <1>1, <1>2, <1>3, <1>4, <1>5, <1>6, <1>7, StepKinds

\* MainWindow.cpp, openRepositoryMain: the marks of HEAD and of uncommitted changes
\* and the log of an opening that starts a session are no older than its beginning.
THEOREM OpeningIsFresh == Spec => []OpenedFresh
<1>1. Init => NotOlder
  <2> SUFFICES ASSUME Init PROVE NotOlder
    OBVIOUS
  <2>1. frames = <<>> /\ All(frames) = {} /\ ~Busy
    BY DEF Init, All, Busy
  <2>2. OpenedFresh
    BY DEF Init, OpenedFresh
  <2> QED
    BY <2>1, <2>2 DEF NotOlder
<1>2. Types /\ Stacked /\ NotOlder /\ [Next]_vars => Types' /\ Stacked' /\ NotOlder'
  BY TypesKept, StackedKept, NotOlderKept
<1>3. NotOlder => OpenedFresh
  BY DEF NotOlder
<1> QED
  BY StackedInit, <1>1, <1>2, <1>3, PTL DEF Spec

=============================================================================
