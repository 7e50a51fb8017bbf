---------------------------- MODULE VaultProofs ----------------------------
(***************************************************************************)
(* Proofs about Vault, for every set of PINs, every number of master keys  *)
(* and every set of faults.  StepInv says what is stored at each step of a *)
(* call; the action properties follow from it.                             *)
(***************************************************************************)
EXTENDS Vault, TLAPS

\* What the other proofs need to know of the constants and the records.
LEMMA Basics ==
  /\ MaxKey \in Nat \ {0} /\ NoEmk \notin Emk /\ Garbage \notin Emk
  /\ NoEmk # Garbage /\ NoPin \notin Pins
  /\ \A k \in Keys, p \in Pins : [mk |-> k, pin |-> p] \in Emk
  /\ \A b \in Emk : b.mk \in Keys /\ b.pin \in Pins
  /\ \A n \in OpNames, p, q \in Pins \cup {NoPin} :
       [name |-> n, pin |-> p, new |-> q] \in Ops
  /\ NoOp \in Ops /\ NoOp.name = "none"
<1>1. /\ MaxKey \in Nat \ {0} /\ NoEmk \notin Emk /\ Garbage \notin Emk
      /\ NoEmk # Garbage /\ NoPin \notin Pins
  BY VaultAssumption DEF VaultAssumption
<1>2. \A k \in Keys, p \in Pins : [mk |-> k, pin |-> p] \in Emk
  BY DEF Emk
<1>3. \A b \in Emk : b.mk \in Keys /\ b.pin \in Pins
  BY DEF Emk
<1>4. \A n \in OpNames, p, q \in Pins \cup {NoPin} :
        [name |-> n, pin |-> p, new |-> q] \in Ops
  BY DEF Ops
<1>5. NoOp \in Ops /\ NoOp.name = "none"
  BY DEF Ops, NoOp, OpNames
<1> QED
  BY <1>1, <1>2, <1>3, <1>4, <1>5

\* StepInv holds initially.
LEMMA StepInit == Init => StepInv
<1> SUFFICES ASSUME Init PROVE StepInv
  OBVIOUS
<1>1. TypeOK
  <2>1. /\ main \in Blobs /\ pending \in Blobs
        /\ mk \in 0..MaxKey /\ lastKey \in 0..MaxKey
    BY Basics DEF Init, Blobs, NoKey
  <2>2. op \in Ops /\ emk \in Emk \cup {NoEmk}
    BY Basics DEF Init
  <2>3. /\ pc \in PCs /\ res \in Results
        /\ sealed \subseteq Keys /\ wasReset \in BOOLEAN
    BY DEF Init, PCs, Results
  <2> QED
    BY <2>1, <2>2, <2>3 DEF TypeOK
<1>2. CallOK /\ BlobOK
  BY Basics DEF Init, CallOK, BlobOK, Opening, Writing
<1> QED
  BY <1>1, <1>2 DEF StepInv

\* A user's call starts in a state that satisfies StepInv and leads to one.
LEMMA StepUser == StepInv /\ UserStep => StepInv'
<1> SUFFICES ASSUME StepInv, UserStep PROVE StepInv'
  OBVIOUS
<1> USE DEF StepInv, TypeOK, CallOK, BlobOK, Blobs, PCs, Results,
            Opening, Writing, NoKey, Call, Return, OpNames
<1>1. ASSUME NEW p \in Pins, Setup(p) PROVE StepInv'
  BY <1>1, Basics DEF Setup
<1>2. ASSUME NEW p \in Pins, Unlock(p) PROVE StepInv'
  BY <1>2, Basics DEF Unlock
<1>4. ASSUME NEW old \in Pins, NEW new \in Pins, ChangePin(old, new) PROVE StepInv'
  BY <1>4, Basics DEF ChangePin
<1>5. CASE SetupUnlocked
  BY <1>5, Basics DEF SetupUnlocked
<1>6. CASE ChangePinLocked
  BY <1>6, Basics DEF ChangePinLocked
<1>7. CASE Destroy
  BY <1>7, Basics DEF Destroy
<1>8. CASE Lock
  BY <1>8, Basics DEF Lock
<1>9. CASE Encrypt
  BY <1>9, Basics DEF Encrypt, Keys
<1>3. ASSUME NEW p \in Pins, Reset(p) PROVE StepInv'
  BY <1>3, Basics DEF Reset, Keys
<1> QED
  BY <1>1, <1>2, <1>3, <1>4, <1>5, <1>6, <1>7, <1>8, <1>9 DEF UserStep

\* A step of a call keeps StepInv; one lemma for each half of the steps.
LEMMA StepWrite ==
  ASSUME StepInv,
         StateMain \/ StatePending \/ Stage \/ StageVerify \/ Recheck \/ Abort
           \/ Replace \/ ReplaceVerify \/ Unstage
  PROVE  StepInv'
<1> USE DEF StepInv, TypeOK, CallOK, BlobOK, Blobs, PCs, Results,
            Opening, Writing, NoKey, Goto, Return, Loads, Works, Opens
<1>1. CASE StateMain
  BY <1>1, Basics DEF StateMain
<1>2. CASE StatePending
  BY <1>2, Basics DEF StatePending, CreateEmk, Keys
<1>3. CASE Stage
  BY <1>3, Basics DEF Stage
<1>4. CASE StageVerify
  BY <1>4, Basics DEF StageVerify
<1>5. CASE Recheck
  BY <1>5, Basics DEF Recheck
<1>6. CASE Abort
  BY <1>6, Basics DEF Abort
<1>7. CASE Replace
  BY <1>7, Basics DEF Replace
<1>8. CASE ReplaceVerify
  BY <1>8, Basics DEF ReplaceVerify
<1>9. CASE Unstage
  <2>1. emk.mk \in Keys /\ mk' \in 0..MaxKey
    BY <1>9, Basics DEF Unstage, Keys
  <2>2. wasReset' \in BOOLEAN /\ sealed' \subseteq Keys
    BY <1>9 DEF Unstage
  <2> QED
    BY <1>9, <2>1, <2>2, Basics DEF Unstage
<1> QED
  BY <1>1, <1>2, <1>3, <1>4, <1>5, <1>6, <1>7, <1>8, <1>9

\* Opening a vault, promoting a staged EMK and destroying keep the invariant.
LEMMA StepOpen ==
  ASSUME StepInv,
         OpenMain \/ OpenPending \/ Promote \/ PromoteVerify \/ Clean
           \/ DestroyPending \/ DestroyMain
  PROVE  StepInv'
<1> USE DEF StepInv, TypeOK, CallOK, BlobOK, Blobs, PCs, Results,
            Opening, Writing, NoKey, Goto, Return, Loads, Works, Opens
<1>1. CASE OpenMain
  BY <1>1, Basics DEF OpenMain
<1>2. CASE OpenPending
  BY <1>2, Basics DEF OpenPending, MainError, ParseError
<1>3. CASE Promote
  BY <1>3, Basics DEF Promote, Opened, CreateEmk, Keys
<1>4. CASE PromoteVerify
  BY <1>4, Basics DEF PromoteVerify, Opened, CreateEmk, Keys
<1>5. CASE Clean
  BY <1>5, Basics DEF Clean, Opened, CreateEmk, Keys
<1>6. CASE DestroyPending
  BY <1>6, Basics DEF DestroyPending
<1>7. CASE DestroyMain
  BY <1>7, Basics DEF DestroyMain
<1> QED
  BY <1>1, <1>2, <1>3, <1>4, <1>5, <1>6, <1>7

\* Faults and stuttering keep StepInv.
LEMMA StepEnv ==
  ASSUME StepInv, Crash \/ Rot \/ UNCHANGED vars
  PROVE  StepInv'
<1> USE DEF StepInv, TypeOK, CallOK, BlobOK, Blobs, PCs, Results,
            Opening, Writing, NoKey, Return, Opens
<1>1. CASE Crash
  BY <1>1, Basics DEF Crash
<1>2. CASE Rot
  BY <1>2, Basics DEF Rot
<1>3. CASE UNCHANGED vars
  BY <1>3 DEF vars
<1> QED
  BY <1>1, <1>2, <1>3

\* Every reachable state is well typed and consistent with the step its call
\* is at.
THEOREM StepsConsistent == Spec => []StepInv
<1>1. StepInv /\ [Next]_vars => StepInv'
  BY StepUser, StepWrite, StepOpen, StepEnv DEF Next, CallStep
<1> QED
  BY StepInit, <1>1, PTL DEF Spec

\* Type correctness.
THEOREM TypeCorrect == Spec => []TypeOK
BY StepsConsistent, PTL DEF StepInv

-----------------------------------------------------------------------------
(* Action properties. *)

\* The only steps that touch main.
LEMMA MainChanges ==
  ASSUME Next, main' # main
  PROVE  Replace \/ Promote \/ DestroyMain \/ Rot
BY DEF Next, CallStep, UserStep, StateMain, StatePending, Stage, StageVerify,
       Recheck, Abort, ReplaceVerify, Unstage, OpenMain, OpenPending,
       PromoteVerify, Clean, DestroyPending, Setup, Unlock, Reset, ChangePin,
       SetupUnlocked, ChangePinLocked, Destroy, Lock, Encrypt, Crash

\* Vault.cpp, writeEmk and openEmk: main only takes what was staged.
THEOREM StagedFirst == Spec => ReplacedOnlyByStaged
<1>1. StepInv /\ [Next]_vars => [main' # main => main' \in {pending, NoEmk, Garbage}]_vars
  <2> SUFFICES ASSUME StepInv, Next, main' # main
               PROVE  main' \in {pending, NoEmk, Garbage}
    OBVIOUS
  <2>1. Replace \/ Promote \/ DestroyMain \/ Rot
    BY MainChanges
  <2>2. CASE Replace
    BY <2>2 DEF Replace, StepInv, BlobOK
  <2>3. CASE Promote
    BY <2>3 DEF Promote, StepInv, BlobOK
  <2>4. CASE DestroyMain \/ Rot
    BY <2>4 DEF DestroyMain, Rot
  <2> QED
    BY <2>1, <2>2, <2>3, <2>4
<1> QED
  BY StepsConsistent, <1>1, PTL DEF Spec, ReplacedOnlyByStaged

\* Vault.cpp, setup: an existing EMK is never overwritten.
THEOREM SetupCreatesOnly == Spec => SetupKeepsMain
<1>1. StepInv /\ [Next]_vars
        => [op.name = "setup" /\ main # NoEmk => main' = main]_vars
  <2> SUFFICES ASSUME StepInv, Next, op.name = "setup", main # NoEmk, main' # main
               PROVE  FALSE
    OBVIOUS
  <2>1. Replace \/ Promote \/ DestroyMain \/ Rot
    BY MainChanges
  <2> QED
    BY <2>1, Basics DEF Replace, Promote, DestroyMain, Rot, StepInv, CallOK, BlobOK, Opening
<1> QED
  BY StepsConsistent, <1>1, PTL DEF Spec, SetupKeepsMain

\* Vault.cpp, destroy: no staged EMK outlives main.
THEOREM DestroyedForGood == Spec => DestroyLeavesNoStaging
<1>1. StepInv /\ [Next]_vars
        => [main # NoEmk /\ main' = NoEmk => pending' = NoEmk]_vars
  <2> SUFFICES ASSUME StepInv, Next, main # NoEmk, main' = NoEmk
               PROVE  pending' = NoEmk
    OBVIOUS
  <2>1. Replace \/ Promote \/ DestroyMain \/ Rot
    BY MainChanges
  <2> QED
    BY <2>1, Basics DEF Replace, Promote, DestroyMain, Rot, StepInv, BlobOK,
                        Writing, Opens
<1> QED
  BY StepsConsistent, <1>1, PTL DEF Spec, DestroyLeavesNoStaging

\* Vault.cpp, writeEmk: a rewrite that reports success leaves no copy that
\* another PIN opens.
THEOREM SuccessRevokes == Spec => OldPinRevoked
<1>1. StepInv /\ [Next]_vars
        => [pc = "unstage" /\ pc' = "idle" /\ res' = "None" /\ mk' # NoKey
              => \A b \in {main', pending'} : b = NoEmk \/ Opens(b, op.new)]_vars
  <2> SUFFICES ASSUME StepInv, Next, pc = "unstage", mk' # NoKey
               PROVE  \A b \in {main', pending'} : b = NoEmk \/ Opens(b, op.new)
    OBVIOUS
  <2>1. Unstage
    BY DEF Next, CallStep, UserStep, StateMain, StatePending, Stage, StageVerify,
           Recheck, Abort, Replace, ReplaceVerify, OpenMain, OpenPending, Promote,
           PromoteVerify, Clean, DestroyPending, DestroyMain, Setup, Unlock, Reset,
           ChangePin, SetupUnlocked, ChangePinLocked, Destroy, Lock, Encrypt,
           Crash, Rot, Call
  <2> QED
    BY <2>1 DEF Unstage, StepInv, BlobOK, Writing, Opens
<1> QED
  BY StepsConsistent, <1>1, PTL DEF Spec, OldPinRevoked

-----------------------------------------------------------------------------
(* What only fails when the storage does: reset() keeps an EMK, and a PIN  *)
(* is only called wrong when it opens nothing.                             *)

\* Where loads and stores succeed, only setup() gives up what it staged.
Straight ==
  /\ pc = "abort" => op.name = "setup"
  /\ pc = "stage_verify" => pending = emk

\* Every step keeps it.
LEMMA StraightKept ==
  ASSUME Faults \cap {"load", "store"} = {}, StepInv, Straight, [Next]_vars
  PROVE  Straight'
<1>1. CASE Stage
  <2>1. pending' = emk /\ emk' = emk /\ pc' = "stage_verify"
    BY <1>1 DEF Stage, Works, Goto
  <2> QED
    BY <2>1 DEF Straight
<1>2. CASE StageVerify
  <2>1. pending = emk /\ emk \in Emk
    BY <1>2 DEF StageVerify, Straight, StepInv, BlobOK, Writing
  <2>2. pc' \in {"recheck", "replace"}
    BY <1>2, <2>1, Basics DEF StageVerify, Loads, Goto
  <2> QED
    BY <2>2 DEF Straight
<1>3. CASE Recheck
  BY <1>3 DEF Recheck, Goto, StepInv, CallOK, Straight
<1>4. CASE UNCHANGED vars
  BY <1>4 DEF vars, Straight
<1>5. CASE StateMain \/ StatePending \/ Abort \/ Replace \/ ReplaceVerify \/ Unstage
  <2>1. pc' \notin {"abort", "stage_verify"}
    BY <1>5 DEF StateMain, StatePending, Abort, Replace, ReplaceVerify, Unstage, CreateEmk,
                Goto, Return
  <2> QED
    BY <2>1 DEF Straight
<1>6. CASE OpenMain \/ OpenPending \/ Promote \/ PromoteVerify \/ Clean
  <2>1. pc' \notin {"abort", "stage_verify"}
    BY <1>6 DEF OpenMain, OpenPending, Promote, PromoteVerify, Clean, Opened, CreateEmk,
                Goto, Return
  <2> QED
    BY <2>1 DEF Straight
<1>7. CASE DestroyPending \/ DestroyMain \/ UserStep \/ Crash \/ Rot
  <2>1. pc' \notin {"abort", "stage_verify"}
    BY <1>7 DEF DestroyPending, DestroyMain, UserStep, Setup, Unlock, Reset, ChangePin,
                SetupUnlocked, ChangePinLocked, Destroy, Lock, Encrypt, Crash, Rot, Call,
                Goto, Return
  <2> QED
    BY <2>1 DEF Straight
<1> QED
  BY <1>1, <1>2, <1>3, <1>4, <1>5, <1>6, <1>7 DEF Next, CallStep

\* Vault.h, reset: the existing EMK is not removed before the new one is written -
\* as long as the storage can be read and written; where it cannot,
\* vault_reset_loss finds the loss.
THEOREM ResetWritesFirst ==
  ASSUME Faults \cap {"load", "store"} = {}
  PROVE  Spec => ResetKeepsAnEmk
<1>1. Init => Straight
  BY DEF Init, Straight
<1>2. StepInv /\ Straight /\ [Next]_vars => Straight'
  BY StraightKept
<1>3. StepInv /\ Straight /\ [Next]_vars
        => [op.name = "reset" /\ StoredKeys # {} => StoredKeys' # {}]_vars
  <2> SUFFICES ASSUME StepInv, Straight, Next, op.name = "reset", StoredKeys # {}
               PROVE  StoredKeys' # {}
    OBVIOUS
  <2>1. /\ pc \in Writing \ {"recheck", "abort"} /\ emk \in Emk
        /\ pc = "unstage" => main = emk
    BY DEF StepInv, CallOK, BlobOK, Straight, Writing
  <2>2. \A b \in {main', pending'} \cap Emk : b.mk \in StoredKeys'
    BY DEF StoredKeys
  <2>3. CASE Stage \/ Replace \/ Unstage
    <3>1. emk \in {main', pending'}
      BY <2>1, <2>3 DEF Stage, Replace, Unstage, Works
    <3> QED
      BY <2>1, <2>2, <3>1
  <2>4. CASE UNCHANGED <<main, pending>>
    BY <2>4 DEF StoredKeys
  <2>5. Stage \/ Replace \/ Unstage \/ UNCHANGED <<main, pending>>
    BY <2>1 DEF Next, CallStep, UserStep, StateMain, StatePending, StageVerify, Recheck, Abort,
                ReplaceVerify, OpenMain, OpenPending, Promote, PromoteVerify, Clean,
                DestroyPending, DestroyMain, Setup, Unlock, Reset, ChangePin, SetupUnlocked,
                ChangePinLocked, Destroy, Lock, Encrypt, Crash, Rot, Call, Writing
  <2> QED
    BY <2>3, <2>4, <2>5
<1> QED
  BY StepsConsistent, <1>1, <1>2, <1>3, PTL DEF Spec, ResetKeepsAnEmk

\* openEmk reads the staged copy only when main does not open; no other step
\* finds a PIN wrong.
Sought ==
  /\ pc = "open_pending" => ~Opens(main, op.pin)
  /\ pc = "abort" => res # "WrongPin"

\* Every step keeps it.
LEMMA SoughtKept ==
  ASSUME StepInv, Sought, [Next]_vars
  PROVE  Sought'
<1>1. CASE OpenMain
  <2>1. pc' # "abort" /\ main' = main
    BY <1>1 DEF OpenMain, Goto, Return
  <2>2. pc' = "open_pending" => ~Opens(main, op.pin) /\ op' = op
    BY <1>1 DEF OpenMain, Goto, Return
  <2> QED
    BY <2>1, <2>2 DEF Sought, Opens
<1>2. CASE UNCHANGED vars
  BY <1>2 DEF vars, Sought, Opens
<1>3. CASE Stage \/ StageVerify \/ Recheck
  <2>1. pc' # "open_pending" /\ (pc' = "abort" => res' \in {"Storage", "AlreadySetup"})
    BY <1>3 DEF Stage, StageVerify, Recheck, Goto
  <2> QED
    BY <2>1 DEF Sought
<1>4. CASE StateMain \/ StatePending \/ Abort \/ Replace \/ ReplaceVerify \/ Unstage
  <2>1. pc' \notin {"abort", "open_pending"}
    BY <1>4 DEF StateMain, StatePending, Abort, Replace, ReplaceVerify, Unstage, CreateEmk,
                Goto, Return
  <2> QED
    BY <2>1 DEF Sought
<1>5. CASE OpenPending \/ Promote \/ PromoteVerify \/ Clean
  <2>1. pc' \notin {"abort", "open_pending"}
    BY <1>5 DEF OpenPending, Promote, PromoteVerify, Clean, Opened, CreateEmk, Goto, Return
  <2> QED
    BY <2>1 DEF Sought
<1>6. CASE DestroyPending \/ DestroyMain \/ UserStep \/ Crash \/ Rot
  <2>1. pc' \notin {"abort", "open_pending"}
    BY <1>6 DEF DestroyPending, DestroyMain, UserStep, Setup, Unlock, Reset, ChangePin,
                SetupUnlocked, ChangePinLocked, Destroy, Lock, Encrypt, Crash, Rot, Call,
                Goto, Return
  <2> QED
    BY <2>1 DEF Sought
<1> QED
  BY <1>1, <1>2, <1>3, <1>4, <1>5, <1>6 DEF Next, CallStep

\* Vault.h, VaultError: a storage failure is not mistaken for a wrong PIN, as long as
\* loads and key derivations succeed; an unreadable staged copy is.
THEOREM WrongPinOpensNothing ==
  ASSUME Faults \cap {"load", "derive"} = {}
  PROVE  Spec => WrongPinIsTrue
<1>1. Init => Sought
  BY DEF Init, Sought
<1>2. StepInv /\ Sought /\ [Next]_vars => Sought'
  BY SoughtKept
<1>3. StepInv /\ Sought /\ [Next]_vars
        => [pc # "idle" /\ pc' = "idle" /\ res' = "WrongPin"
              => ~Opens(main, op.pin) /\ ~Opens(pending, op.pin)]_vars
  <2> SUFFICES ASSUME StepInv, Sought, Next, pc # "idle", pc' = "idle", res' = "WrongPin"
               PROVE  ~Opens(main, op.pin) /\ ~Opens(pending, op.pin)
    OBVIOUS
  <2>1. OpenPending
    <3>1. ~UserStep /\ ~Rot /\ ~Crash
      BY DEF UserStep, Setup, Unlock, Reset, ChangePin, SetupUnlocked, ChangePinLocked, Destroy,
             Lock, Encrypt, Rot, Crash, Call, Return
    <3>2. ~StateMain /\ ~StatePending
      BY DEF StateMain, StatePending, CreateEmk, Goto, Return
    <3>3. ~Stage /\ ~StageVerify /\ ~Recheck /\ ~Abort /\ ~Replace /\ ~ReplaceVerify /\ ~Unstage
      BY DEF Stage, StageVerify, Recheck, Abort, Replace, ReplaceVerify, Unstage, Goto, Return,
             Sought
    <3>4. ~OpenMain /\ ~Promote /\ ~PromoteVerify /\ ~Clean
      BY DEF OpenMain, Promote, PromoteVerify, Clean, Opened, CreateEmk, Goto, Return
    <3>5. ~DestroyPending /\ ~DestroyMain
      BY DEF DestroyPending, DestroyMain, Goto, Return
    <3> QED
      BY <3>1, <3>2, <3>3, <3>4, <3>5 DEF Next, CallStep
  <2>2. ~Opens(main, op.pin)
    BY <2>1 DEF OpenPending, Sought
  <2>3. ~Opens(pending, op.pin)
    <3>1. PICK status \in Loads(pending), derived \in Works("derive") :
            \/ status = "NotFound"
            \/ status = "Fail"
            \/ status = "Ok" /\ (pending \in Emk => (derived => ~Opens(pending, op.pin)))
            \/ pc' = "promote"
      BY <2>1 DEF OpenPending, Goto
    <3>2. derived = TRUE /\ status # "Fail" /\ (status = "NotFound" => pending = NoEmk)
      BY <3>1 DEF Loads, Works
    <3> QED
      BY <3>1, <3>2, Basics DEF Opens
  <2> QED
    BY <2>2, <2>3
<1> QED
  BY StepsConsistent, <1>1, <1>2, <1>3, PTL DEF Spec, WrongPinIsTrue

-----------------------------------------------------------------------------
(* One master key: no copy of another vault's key is ever around.          *)

\* Wherever emk is copied from or to, the key stays; a fresh key is drawn
\* only over an empty backend (as long as state() sees what is there).
LEMMA KeyStep ==
  ASSUME "hide" \notin Faults, KeyInv, [Next]_vars
  PROVE  OneMasterKey' /\ (pc = "state_pending" => main = NoEmk)'
<1> USE DEF KeyInv, OneMasterKey
<1>0. StepInv'
  BY StepUser, StepWrite, StepOpen, StepEnv DEF Next, CallStep
<1>1. CASE UserStep
  BY <1>1, Basics DEF UserStep, Setup, Unlock, Reset, ChangePin, SetupUnlocked,
       ChangePinLocked, Destroy, Lock, Encrypt, Call, Return, StepInv, BlobOK, Writing
<1>2. CASE StateMain
  BY <1>2, Basics DEF StateMain, Goto, Return, Loads
<1>3. CASE StatePending
  BY <1>3, Basics DEF StatePending, CreateEmk, Goto, Return, Loads, StepInv, CallOK, NoKey
<1>4. CASE Stage \/ StageVerify \/ Recheck \/ Abort
  BY <1>4, Basics DEF Stage, StageVerify, Recheck, Abort, Goto, Return
<1>5. CASE Replace \/ ReplaceVerify
  BY <1>5, Basics DEF Replace, ReplaceVerify, Goto, Return
<1>6. CASE Unstage
  BY <1>6, Basics DEF Unstage, Return, StepInv, BlobOK, CallOK, Writing
<1>7. CASE OpenMain \/ OpenPending
  BY <1>7, Basics DEF OpenMain, OpenPending, Goto, Return, Opens
<1>8. ASSUME NEW b \in {main, emk} \cap Emk, Opened(b.mk), UNCHANGED wasReset,
             main' \in {main, emk}, pending' \in {pending, NoEmk}
      PROVE  OneMasterKey' /\ pc' # "state_pending"
  <2>1. pc' # "state_pending" /\ emk' \in {NoEmk, [mk |-> b.mk, pin |-> op.new]}
    BY <1>8 DEF Opened, CreateEmk, Goto, Return
  <2>2. mk' \in {mk, b.mk}
    BY <1>8 DEF Opened
  <2>3. CASE ~wasReset
    <3>1. \A c \in {main', pending', emk'} \cap Emk : c.mk = b.mk
      BY <1>8, <2>1, <2>3, Basics
    <3> QED
      BY <1>8, <2>1, <2>2, <2>3, <3>1
  <2> QED
    BY <1>8, <2>1, <2>3
<1>9. CASE Promote \/ PromoteVerify \/ Clean
  <2>1. /\ pc \in {"promote", "promote_verify"} => emk \in Emk
        /\ pc = "clean" => main \in Emk
    BY DEF StepInv, BlobOK, Opens
  <2>2. CASE pc' \in {"promote_verify", "clean"} /\ UNCHANGED <<mk, emk, wasReset>>
    BY <1>9, <2>1, <2>2, Basics DEF Promote, PromoteVerify, Clean
  <2>3. CASE Opened(emk.mk) /\ emk \in Emk
    BY <1>8, <1>9, <2>3 DEF Promote, PromoteVerify, Clean
  <2>4. CASE Opened(main.mk) /\ main \in Emk
    BY <1>8, <1>9, <2>4 DEF Promote, PromoteVerify, Clean
  <2> QED
    BY <1>9, <2>1, <2>2, <2>3, <2>4 DEF Promote, PromoteVerify, Clean, Goto
<1>10. CASE DestroyPending \/ DestroyMain
  BY <1>10, Basics DEF DestroyPending, DestroyMain, Goto, Return, StepInv, BlobOK, CallOK, NoKey
<1>11. CASE Crash \/ Rot
  BY <1>11, Basics DEF Crash, Rot, Return, NoKey
<1>12. CASE UNCHANGED vars
  BY <1>12 DEF vars
<1> QED
  BY <1>1, <1>2, <1>3, <1>4, <1>5, <1>6, <1>7, <1>9, <1>10, <1>11, <1>12 DEF Next, CallStep

\* Vault.cpp, setup and writeEmk: without a hidden EMK, all copies and the
\* key in memory are of one master key.
THEOREM SameKeyEverywhere ==
  ASSUME "hide" \notin Faults
  PROVE  Spec => []OneMasterKey
<1>1. Init => KeyInv
  BY StepInit DEF KeyInv, Init, OneMasterKey
<1>2. KeyInv /\ [Next]_vars => KeyInv'
  <2> SUFFICES ASSUME KeyInv, [Next]_vars PROVE KeyInv'
    OBVIOUS
  <2>1. StepInv'
    BY StepUser, StepWrite, StepOpen, StepEnv DEF Next, CallStep, KeyInv
  <2> QED
    BY <2>1, KeyStep DEF KeyInv
<1>3. KeyInv => OneMasterKey
  BY DEF KeyInv
<1> QED
  BY <1>1, <1>2, <1>3, PTL DEF Spec

-----------------------------------------------------------------------------
(* While writes succeed, the keys in use are always stored somewhere.      *)

\* Every step keeps the keys in use stored.
LEMMA SealStep ==
  ASSUME Faults \cap {"hide", "store", "rot"} = {},
         KeyInv, SealInv, [Next]_vars
  PROVE  SealInv'
<1> USE DEF SealInv, StoredKeys
<1>0. KeyInv'
  BY KeyStep, StepUser, StepWrite, StepOpen, StepEnv DEF Next, CallStep, KeyInv
<1>a. UNCHANGED <<main, pending>> => StoredKeys' = StoredKeys
  OBVIOUS
<1>1. CASE UserStep
  <2>1. UNCHANGED <<main, pending>>
    BY <1>1 DEF UserStep, Setup, Unlock, Reset, ChangePin, SetupUnlocked,
         ChangePinLocked, Destroy, Lock, Encrypt
  <2>2. CASE Destroy \/ Lock \/ Encrypt
    <3>1. CASE Destroy
      BY <1>a, <2>1, <3>1, Basics DEF Destroy, Call, Writing, NoKey
    <3>2. CASE Lock
      BY <1>a, <2>1, <3>2, Basics DEF Lock, NoKey
    <3>3. CASE Encrypt
      <4>1. op.name # "destroy"
        BY <3>3 DEF Encrypt, KeyInv, StepInv, CallOK, NoOp
      <4>2. pc \notin Writing
        BY <3>3 DEF Encrypt, Writing
      <4> QED
        BY <1>a, <2>1, <3>3, <4>1, <4>2 DEF Encrypt
    <3> QED
      BY <2>2, <3>1, <3>2, <3>3
  <2>3. CASE \E p \in Pins : Reset(p)
    BY <2>3, Basics DEF Reset, Return, KeyInv, StepInv, CallOK, NoOp
  <2>4. CASE SetupUnlocked \/ ChangePinLocked
    BY <1>a, <2>1, <2>4, Basics DEF SetupUnlocked, ChangePinLocked, Return, Writing
  <2>5. CASE \/ \E p \in Pins : Setup(p) \/ Unlock(p)
             \/ \E old, new \in Pins : ChangePin(old, new)
    BY <1>a, <2>1, <2>5, Basics DEF Setup, Unlock, ChangePin, Call, Writing
  <2> QED
    BY <1>1, <2>2, <2>3, <2>4, <2>5 DEF UserStep
<1>2. CASE StateMain \/ StatePending
  <2>1. UNCHANGED <<main, pending, mk, sealed, wasReset>>
    BY <1>2 DEF StateMain, StatePending
  <2>2. CASE pc' \notin Writing
    BY <1>a, <1>2, <2>1, <2>2, Basics DEF StateMain, StatePending, Goto, Return, CreateEmk
  <2>3. CASE pc' \in Writing
    <3>1. main = NoEmk /\ pending = NoEmk /\ op.name = "setup" /\ op' = op
      BY <1>2, <2>3 DEF StateMain, StatePending, Goto, Return, CreateEmk, Loads,
                        Writing, KeyInv, StepInv, CallOK
    <3>2. StoredKeys = {}
      BY <3>1, Basics
    <3> QED
      BY <1>a, <2>1, <3>1, <3>2
  <2> QED
    BY <2>2, <2>3
<1>3. CASE Stage
  BY <1>3, Basics DEF Stage, Goto, Works, KeyInv, OneMasterKey, StepInv, CallOK, Writing
<1>4. CASE StageVerify \/ Recheck
  BY <1>4, Basics DEF StageVerify, Recheck, Goto, Writing
<1>5. CASE Abort
  BY <1>5, Basics DEF Abort, Return, KeyInv, OneMasterKey, StepInv, CallOK, Writing
<1>6. CASE Replace \/ ReplaceVerify
  <2>1. \/ main' = main /\ pc' = "idle"
        \/ main' = emk /\ emk \in Emk /\ op' = op
    <3>1. CASE Replace
      BY <3>1 DEF Replace, Goto, Return, Works, KeyInv, StepInv, BlobOK, Writing
    <3>2. CASE ReplaceVerify
      BY <3>2 DEF ReplaceVerify, Goto, Return, KeyInv, StepInv, BlobOK, Writing
    <3> QED
      BY <1>6, <3>1, <3>2
  <2>2. UNCHANGED <<pending, mk, sealed, wasReset>>
    BY <1>6 DEF Replace, ReplaceVerify
  <2>3. CASE main' = main /\ pc' = "idle"
    BY <1>a, <1>6, <2>2, <2>3, Basics DEF Replace, ReplaceVerify, Goto, Return, Writing
  <2>4. CASE main' = emk /\ emk \in Emk /\ op' = op
    <3>1. emk.mk \in StoredKeys'
      BY <2>4
    <3>2. ~wasReset => StoredKeys \subseteq {emk.mk}
      BY <2>4 DEF KeyInv, OneMasterKey
    <3> QED
      BY <1>6, <2>2, <2>4, <3>1, <3>2, Basics DEF Replace, ReplaceVerify, Writing
  <2> QED
    BY <2>1, <2>3, <2>4
<1>7. CASE Unstage
  BY <1>7, Basics DEF Unstage, Return, KeyInv, OneMasterKey, StepInv, BlobOK, CallOK, Writing
<1>8. CASE OpenMain \/ OpenPending
  BY <1>8, Basics DEF OpenMain, OpenPending, Goto, Return, Writing
<1>9. CASE Promote
  <2>1. main' = emk /\ emk \in Emk /\ pc' = "promote_verify" /\ op' = op
    BY <1>9 DEF Promote, Goto, Works, KeyInv, StepInv, BlobOK, Opens
  <2>2. emk.mk \in StoredKeys'
    BY <2>1
  <2>3. ~wasReset => StoredKeys \subseteq {emk.mk}
    BY <2>1 DEF KeyInv, OneMasterKey
  <2> QED
    BY <1>9, <2>1, <2>2, <2>3 DEF Promote, Goto, Works, Writing
<1>10. CASE PromoteVerify
  BY <1>10, Basics DEF PromoteVerify, Opened, CreateEmk, Goto, Return, KeyInv, OneMasterKey,
                       StepInv, BlobOK, CallOK, Opens, Writing
<1>11. CASE Clean
  BY <1>11, Basics DEF Clean, Opened, CreateEmk, Goto, Return, KeyInv, OneMasterKey,
                       StepInv, BlobOK, CallOK, Opens, Writing
<1>12. CASE DestroyPending \/ DestroyMain
  BY <1>12, Basics DEF DestroyPending, DestroyMain, Goto, Return, KeyInv, StepInv,
                       CallOK, NoKey, Writing
<1>13. CASE Crash \/ Rot
  BY <1>13, Basics DEF Crash, Rot, Return, NoKey, Writing
<1>14. CASE UNCHANGED vars
  BY <1>14 DEF vars
<1> QED
  BY <1>1, <1>2, <1>3, <1>4, <1>5, <1>6, <1>7, <1>8, <1>9, <1>10, <1>11, <1>12, <1>13, <1>14
  DEF Next, CallStep

\* Vault.h, the class comment: data that was encrypted and not given up stays
\* within reach of a PIN, through every crash, failed load and failed removal.
THEOREM NoKeyLost ==
  ASSUME Faults \cap {"hide", "store", "rot"} = {}
  PROVE  Spec => []SealedRecoverable
<1>1. Init => KeyInv /\ SealInv
  BY StepInit DEF KeyInv, SealInv, Init, OneMasterKey, Writing, NoOp
<1>2. KeyInv /\ SealInv /\ [Next]_vars => KeyInv' /\ SealInv'
  BY SealStep, KeyStep, StepUser, StepWrite, StepOpen, StepEnv DEF Next, CallStep, KeyInv
<1>3. SealInv => SealedRecoverable
  BY DEF SealInv, SealedRecoverable
<1> QED
  BY <1>1, <1>2, <1>3, PTL DEF Spec

-----------------------------------------------------------------------------
(* The vault implements its promise. *)

\* What else holds while records are neither hidden, damaged nor left unwritten.
Sure ==
  /\ main # Garbage /\ pending # Garbage
  /\ mk <= lastKey /\ \A b \in {main, pending, emk} \cap Emk : b.mk <= lastKey
  /\ mk # NoKey => main \in Emk
  /\ op.name = "setup" /\ pc \in {"state_pending", "stage", "stage_verify", "abort", "recheck"}
       => main = NoEmk
  /\ op.name = "setup" /\ pc = "stage" => pending = NoEmk
  /\ pc \in {"stage_verify", "abort"} => pending = emk
  /\ pc \in Writing /\ op.name = "changePin" => main \in Emk /\ main.mk = mk
  /\ pc \in Writing /\ op.name = "reset" => emk.mk # mk
  /\ pc \in {"open_pending", "promote"} => ~Opens(main, op.pin)

\* What the promise says of the vault is a matter of main, pending, mk and these two.
Unlocks(m, s) ==
  [p \in Pins |-> IF Opens(m, p) THEN m.mk ELSE IF Opens(s, p) THEN s.mk ELSE NoKey]

Live(m, s) == {Unlocks(m, s)[p] : p \in Pins} \ {0}

Stake(m, w, n) ==
  {c \in {"setup", "reset", "destroy"} :
     CASE c = "setup"   -> m = NoEmk
       [] c = "reset"   -> w
       [] c = "destroy" -> n = "destroy"}

\* Whether two stakes are the same or one of them is less.
LEMMA Stakes ==
  ASSUME NEW m, NEW w \in BOOLEAN, NEW n, NEW m2, NEW w2 \in BOOLEAN, NEW n2
  PROVE  /\ "setup" \in Stake(m, w, n) <=> m = NoEmk
         /\ "reset" \in Stake(m, w, n) <=> w
         /\ "destroy" \in Stake(m, w, n) <=> n = "destroy"
         /\ Stake(m2, w2, n2) \subseteq Stake(m, w, n) <=>
              (m2 = NoEmk => m = NoEmk) /\ (w2 => w) /\ (n2 = "destroy" => n = "destroy")
         /\ Stake(m2, w2, n2) \subseteq Stake(m, w, n) \cup {"setup"} <=>
              (w2 => w) /\ (n2 = "destroy" => n = "destroy")
         /\ Stake(m2, w2, n2) = Stake(m, w, n) <=>
              (m2 = NoEmk <=> m = NoEmk) /\ (w2 <=> w) /\ (n2 = "destroy" <=> n = "destroy")
<1>1. ASSUME NEW x, NEW y \in BOOLEAN, NEW z, NEW c
      PROVE  c \in Stake(x, y, z) <=> \/ c = "setup" /\ x = NoEmk
                                      \/ c = "reset" /\ y
                                      \/ c = "destroy" /\ z = "destroy"
  BY DEF Stake
<1>2. /\ "setup" \in Stake(m, w, n) <=> m = NoEmk
      /\ "reset" \in Stake(m, w, n) <=> w
      /\ "destroy" \in Stake(m, w, n) <=> n = "destroy"
  BY <1>1
<1>3. /\ "setup" \in Stake(m2, w2, n2) <=> m2 = NoEmk
      /\ "reset" \in Stake(m2, w2, n2) <=> w2
      /\ "destroy" \in Stake(m2, w2, n2) <=> n2 = "destroy"
  BY <1>1
<1>4. /\ Stake(m, w, n) \subseteq {"setup", "reset", "destroy"}
      /\ Stake(m2, w2, n2) \subseteq {"setup", "reset", "destroy"}
  BY DEF Stake
<1>5. Stake(m2, w2, n2) \subseteq Stake(m, w, n) <=>
        (m2 = NoEmk => m = NoEmk) /\ (w2 => w) /\ (n2 = "destroy" => n = "destroy")
  BY <1>2, <1>3, <1>4
<1>6. Stake(m, w, n) \subseteq Stake(m2, w2, n2) <=>
        (m = NoEmk => m2 = NoEmk) /\ (w => w2) /\ (n = "destroy" => n2 = "destroy")
  BY <1>2, <1>3, <1>4
<1>7. Stake(m2, w2, n2) = Stake(m, w, n) <=>
        Stake(m2, w2, n2) \subseteq Stake(m, w, n) /\ Stake(m, w, n) \subseteq Stake(m2, w2, n2)
  OBVIOUS
<1>8. Stake(m2, w2, n2) = Stake(m, w, n) <=>
        (m2 = NoEmk <=> m = NoEmk) /\ (w2 <=> w) /\ (n2 = "destroy" <=> n = "destroy")
  BY <1>5, <1>6, <1>7
<1>9. Stake(m2, w2, n2) \subseteq Stake(m, w, n) \cup {"setup"} <=>
        (w2 => w) /\ (n2 = "destroy" => n = "destroy")
  BY <1>2, <1>3, <1>4
<1> QED
  BY <1>2, <1>5, <1>8, <1>9

\* The keys that some PIN unlocks: a staged EMK of the same PIN as main's is hidden.
LEMMA LiveKeys ==
  ASSUME NEW m \in Emk \cup {NoEmk}, NEW s \in Emk \cup {NoEmk}
  PROVE  /\ Unlocks(m, s) \in [Pins -> 0..MaxKey]
         /\ Live(m, s) = {b.mk : b \in {c \in {m, s} : c \in Emk /\
                                          (c = m \/ m = NoEmk \/ m.pin # c.pin)}}
<1>1. ASSUME NEW b \in Emk PROVE b.mk \in 1..MaxKey /\ b.pin \in Pins /\ b # NoEmk
  BY Basics DEF Keys
<1>2. Unlocks(m, s) \in [Pins -> 0..MaxKey]
  BY <1>1, Basics DEF Unlocks, Opens, NoKey
<1>3. \A p \in Pins : Unlocks(m, s)[p] =
        IF m \in Emk /\ m.pin = p THEN m.mk ELSE IF s \in Emk /\ s.pin = p THEN s.mk ELSE 0
  BY DEF Unlocks, Opens, NoKey
<1>4. ASSUME NEW k \in Live(m, s)
      PROVE  \/ m \in Emk /\ k = m.mk
             \/ s \in Emk /\ k = s.mk /\ (m = NoEmk \/ m.pin # s.pin)
  BY <1>3 DEF Live
<1>5. ASSUME m \in Emk PROVE m.mk \in Live(m, s)
  BY <1>1, <1>3, <1>5 DEF Live
<1>6. ASSUME s \in Emk, m = NoEmk \/ m.pin # s.pin PROVE s.mk \in Live(m, s)
  BY <1>1, <1>3, <1>6, Basics DEF Live
<1>7. Live(m, s) = {b.mk : b \in {c \in {m, s} : c \in Emk /\
                                    (c = m \/ m = NoEmk \/ m.pin # c.pin)}}
  BY <1>4, <1>5, <1>6, Basics
<1> QED
  BY <1>2, <1>7

\* Each step of the promise in these terms.
Keys0 == Live(main, pending)
Keys1 == Live(main', pending')
Stake0 == Stake(main, wasReset, op.name)
Stake1 == Stake(main', wasReset', op'.name)
SameUnlocks == Unlocks(main', pending') = Unlocks(main, pending)

\* A step the promise does not see.
LEMMA Unseen == SameUnlocks /\ mk' = mk /\ Stake1 = Stake0 => UNCHANGED Promise!vars
  BY DEF SameUnlocks, Stake1, Stake0, Unlocks, Stake, Promise!vars

\* The user agrees to lose something.
LEMMA Agrees ==
  /\ SameUnlocks /\ Stake0 \subseteq Stake1
  /\ mk' = IF "destroy" \in Stake1 THEN 0 ELSE mk
  => Promise!Agree
  BY DEF SameUnlocks, Stake1, Stake0, Unlocks, Stake, Promise!Agree

\* A call ends, and with it what it put at stake.
LEMMA Settles ==
  /\ SameUnlocks /\ Stake1 \subseteq Stake0 /\ mk' \in {mk} \cup Keys0
  => Promise!Settle
  BY DEF SameUnlocks, Stake1, Stake0, Keys0, Live, Unlocks, Stake, Promise!Settle,
         Promise!Working

\* The keys stay, other PINs open them.
LEMMA Rewraps ==
  /\ Unlocks(main', pending') \in [Pins -> 0..MaxKey]
  /\ Keys1 = Keys0 /\ mk' \in {mk} \cup Keys0 /\ Stake1 = Stake0
  => Promise!Rewrap
  BY DEF Stake1, Stake0, Keys0, Keys1, Live, Unlocks, Stake, Promise!Rewrap, Promise!Working

\* A reset puts a new key in the place of others.
LEMMA Supersedes ==
  /\ "reset" \in Stake0
  /\ Unlocks(main', pending') \in [Pins -> 0..MaxKey]
  /\ Keys1 # {} /\ \E k \in (1..MaxKey) \ {mk} : Keys1 \subseteq Keys0 \cup {k}
  /\ mk' \in {mk} \cup Keys1 /\ Stake1 \subseteq Stake0
  => Promise!Supersede
  BY DEF Stake1, Stake0, Keys0, Keys1, Live, Unlocks, Stake, Promise!Supersede, Promise!Working

\* A key that is stored gets into memory.
LEMMA Holds ==
  /\ SameUnlocks /\ mk' \in Keys0 /\ Stake1 = Stake0 => Promise!Hold
  BY DEF SameUnlocks, Stake1, Stake0, Keys0, Live, Unlocks, Stake, Promise!Hold, Promise!Working

\* The key in memory is forgotten.
LEMMA Releases ==
  /\ SameUnlocks /\ mk' = 0 /\ Stake1 \subseteq Stake0 => Promise!Release
  BY DEF SameUnlocks, Stake1, Stake0, Unlocks, Stake, Promise!Release

\* The first key is stored.
LEMMA Creates ==
  /\ Keys0 = {} /\ mk = 0 /\ mk' = mk /\ Stake1 = Stake0
  /\ \E p \in Pins, k \in 1..MaxKey :
       Unlocks(main', pending') = [q \in Pins |-> IF q = p THEN k ELSE 0]
  => Promise!Create
  BY DEF Stake1, Stake0, Keys0, Live, Unlocks, Stake, Promise!Create, Promise!Working

\* Keys that were agreed to be lost are no longer opened by some PINs.
LEMMA Destroys ==
  /\ "setup" \in Stake0 \/ "destroy" \in Stake0
  /\ mk = 0 /\ mk' = mk /\ Stake1 \subseteq Stake0 \cup {"setup"}
  /\ \E gone \in SUBSET Pins :
       Unlocks(main', pending') =
         [p \in Pins |-> IF p \in gone THEN 0 ELSE Unlocks(main, pending)[p]]
  => Promise!Destroy
  BY DEF Stake1, Stake0, Unlocks, Stake, Promise!Destroy

-----------------------------------------------------------------------------
(* Sure is inductive. *)

\* Nothing is stored at first.
LEMMA SureInit == Init => Sure
BY Basics DEF Init, Sure, Writing, NoKey, NoOp

\* The user's calls, which store nothing, keep Sure: a new reset draws a new key.
LEMMA SureUser ==
  ASSUME KeyInv, Sure, UserStep
  PROVE  Sure'
<1> USE DEF Sure, Writing, NoKey, Call, Return
<1>1. ASSUME NEW p \in Pins, Setup(p) PROVE Sure'
  BY <1>1, Basics DEF Setup
<1>2. ASSUME NEW p \in Pins, Unlock(p) PROVE Sure'
  BY <1>2, Basics DEF Unlock
<1>3. ASSUME NEW p \in Pins, Reset(p) PROVE Sure'
  <2>1. lastKey \in Nat /\ mk \in Nat /\ \A b \in Emk : b.mk \in Nat
    BY Basics DEF KeyInv, StepInv, TypeOK, Keys
  <2>2. UNCHANGED <<main, pending, mk>> /\ lastKey' = lastKey + 1
    BY <1>3 DEF Reset
  <2>3. emk' = NoEmk \/ emk' = [mk |-> lastKey + 1, pin |-> p]
    BY <1>3 DEF Reset
  <2>4. mk' <= lastKey' /\ \A b \in {main, pending, emk}' \cap Emk : b.mk <= lastKey'
    BY <2>1, <2>2, <2>3, Basics
  <2>5. pc' \in {"idle", "stage"} /\ (pc' = "stage" => op'.name = "reset" /\ emk'.mk # mk')
    BY <1>3, <2>1 DEF Reset
  <2> QED
    BY <2>2, <2>4, <2>5
<1>4. ASSUME NEW old \in Pins, NEW new \in Pins, ChangePin(old, new) PROVE Sure'
  BY <1>4, Basics DEF ChangePin
<1>5. CASE SetupUnlocked \/ ChangePinLocked
  BY <1>5, Basics DEF SetupUnlocked, ChangePinLocked
<1>6. CASE Destroy \/ Lock \/ Encrypt
  <2>1. lastKey \in Nat
    BY DEF KeyInv, StepInv, TypeOK
  <2>2. UNCHANGED <<main, pending, lastKey, emk>>
    BY <1>6 DEF Destroy, Lock, Encrypt
  <2>3. pc' \in {"idle", "destroy_pending"} /\ mk' \in {mk, 0}
    BY <1>6 DEF Destroy, Lock, Encrypt
  <2> QED
    BY <2>1, <2>2, <2>3
<1> QED
  BY <1>1, <1>2, <1>3, <1>4, <1>5, <1>6 DEF UserStep

\* The steps of setup() and of writeEmk(): what is staged is what was wrapped.
LEMMA SureWrite ==
  ASSUME Faults \cap {"hide", "store", "rot"} = {}, KeyInv, Sure,
         StateMain \/ StatePending \/ Stage \/ StageVerify \/ Recheck \/ Abort
           \/ Replace \/ ReplaceVerify \/ Unstage
  PROVE  Sure'
<1> USE DEF Sure, Writing, NoKey, Goto, Return
<1>0. /\ lastKey \in Nat /\ mk \in Nat /\ NoEmk # Garbage /\ NoEmk \notin Emk
      /\ \A b \in Emk : b.mk \in Nat
  BY Basics DEF KeyInv, StepInv, TypeOK, Keys
<1>1. CASE StateMain
  BY <1>0, <1>1 DEF StateMain, Loads, KeyInv, StepInv, CallOK
<1>2. CASE StatePending
  <2>1. UNCHANGED <<main, pending, mk>>
    BY <1>2 DEF StatePending
  <2>2. CASE pc' = "idle" /\ emk' = NoEmk
    BY <1>0, <1>2, <2>1, <2>2 DEF StatePending, CreateEmk
  <2>3. CASE pc' = "stage"
    <3>1. /\ emk' = [mk |-> lastKey + 1, pin |-> op.new] /\ lastKey' = lastKey + 1
          /\ pending = NoEmk /\ op' = op /\ op.name = "setup" /\ main = NoEmk
      BY <1>2, <2>3 DEF StatePending, CreateEmk, Loads, KeyInv, StepInv, CallOK
    <3>2. \A b \in {main, pending, emk}' \cap Emk : b.mk <= lastKey'
      BY <1>0, <2>1, <3>1
    <3> QED
      BY <1>0, <2>1, <2>3, <3>1, <3>2
  <2> QED
    BY <1>2, <2>2, <2>3 DEF StatePending, CreateEmk
<1>3. CASE Stage
  <2>1. /\ pending' = emk /\ pc' = "stage_verify" /\ emk \in Emk
        /\ UNCHANGED <<main, mk, lastKey, emk, op>> /\ pc = "stage"
    BY <1>3 DEF Stage, Works, KeyInv, StepInv, BlobOK
  <2> QED
    BY <1>0, <2>1, Basics
<1>4. CASE StageVerify \/ Recheck
  <2>1. UNCHANGED <<main, pending, mk, lastKey, emk, op>>
    BY <1>4 DEF StageVerify, Recheck
  <2>2. /\ pc' \in {"recheck", "replace", "abort"} /\ pc \in {"stage_verify", "recheck"}
        /\ pc' = "recheck" => op.name = "setup"
    BY <1>4 DEF StageVerify, Recheck
  <2>3. pending = emk
    BY <2>2 DEF KeyInv, StepInv, BlobOK
  <2> QED
    BY <2>1, <2>2, <2>3
<1>5. CASE Abort
  BY <1>0, <1>5 DEF Abort
<1>6. CASE Replace
  <2>1. /\ main' = emk /\ pc' = "replace_verify" /\ emk \in Emk /\ pc = "replace"
        /\ UNCHANGED <<pending, mk, lastKey, emk, op>>
    BY <1>6 DEF Replace, Works, KeyInv, StepInv, BlobOK
  <2>2. op.name = "changePin" => emk.mk = mk
    BY <2>1 DEF KeyInv, StepInv, BlobOK
  <2> QED
    BY <1>0, <2>1, <2>2, Basics
<1>7. CASE ReplaceVerify
  BY <1>0, <1>7 DEF ReplaceVerify
<1>8. CASE Unstage
  <2>1. pc = "unstage" /\ main = emk /\ emk \in Emk
    BY <1>8 DEF Unstage, KeyInv, StepInv, BlobOK
  <2>2. mk' \in {mk, emk.mk} /\ pending' \in {pending, NoEmk} /\ UNCHANGED <<main, lastKey>>
    BY <1>8 DEF Unstage
  <2>3. emk' = NoEmk /\ pc' = "idle"
    BY <1>8 DEF Unstage
  <2> QED
    BY <1>0, <2>1, <2>2, <2>3
<1> QED
  BY <1>1, <1>2, <1>3, <1>4, <1>5, <1>6, <1>7, <1>8

\* openEmk() returns the key of main, or of an EMK that it has just copied there.
LEMMA SureOpened ==
  ASSUME KeyInv, Sure, Opened(main.mk), main \in Emk, op.name \in {"unlock", "changePin"},
         UNCHANGED <<main, lastKey>>, pending' \in {pending, NoEmk}
  PROVE  Sure'
<1> USE DEF Sure, Writing, NoKey, Goto, Return
<1>0. /\ lastKey \in Nat /\ mk \in Nat /\ NoEmk # Garbage /\ NoEmk \notin Emk
      /\ \A b \in Emk : b.mk \in Nat
  BY Basics DEF KeyInv, StepInv, TypeOK, Keys
<1>1. CASE pc' = "idle"
  <2>1. emk' = NoEmk /\ mk' \in {mk, main.mk}
    BY <1>1 DEF Opened, CreateEmk
  <2> QED
    BY <1>0, <1>1, <2>1
<1>2. CASE pc' = "stage"
  <2>1. /\ emk' = [mk |-> main.mk, pin |-> op.new] /\ mk' = mk /\ main.mk = mk
        /\ op' = op /\ op.name = "changePin"
    BY <1>2 DEF Opened, CreateEmk
  <2> QED
    BY <1>0, <1>2, <2>1
<1> QED
  BY <1>1, <1>2 DEF Opened, CreateEmk

\* Opening, promoting, destroying and crashing keep what the mapping needs.
LEMMA SureOpen ==
  ASSUME Faults \cap {"hide", "store", "rot"} = {}, KeyInv, Sure,
         OpenMain \/ OpenPending \/ Promote \/ PromoteVerify \/ Clean
           \/ DestroyPending \/ DestroyMain \/ Crash \/ Rot \/ UNCHANGED vars
  PROVE  Sure'
<1> USE DEF Sure, Writing, NoKey, Goto, Return
<1>0. /\ lastKey \in Nat /\ mk \in Nat /\ NoEmk # Garbage /\ NoEmk \notin Emk
      /\ \A b \in Emk : b.mk \in Nat
  BY Basics DEF KeyInv, StepInv, TypeOK, Keys
<1>1. CASE OpenMain
  BY <1>0, <1>1 DEF OpenMain
<1>2. CASE OpenPending
  BY <1>0, <1>2 DEF OpenPending
<1>3. CASE Promote
  <2>1. /\ main' = emk /\ pc' = "promote_verify" /\ emk \in Emk
        /\ UNCHANGED <<pending, mk, lastKey, emk, op>>
    BY <1>3 DEF Promote, Works, KeyInv, StepInv, BlobOK, Opens
  <2> QED
    BY <1>0, <2>1, Basics
<1>4. CASE PromoteVerify \/ Clean
  <2>1. /\ main \in Emk /\ op.name \in {"unlock", "changePin"}
        /\ pc = "promote_verify" => main = emk
    BY <1>4 DEF PromoteVerify, Clean, KeyInv, StepInv, BlobOK, CallOK, Opening, Opens
  <2>2. CASE Opened(main.mk)
    <3>1. UNCHANGED <<main, lastKey>> /\ pending' \in {pending, NoEmk}
      BY <1>4 DEF PromoteVerify, Clean
    <3> QED
      BY <2>1, <2>2, <3>1, SureOpened
  <2>3. CASE pc' = "clean" /\ UNCHANGED <<main, pending, mk, lastKey, emk, op>>
    BY <2>3
  <2> QED
    BY <1>4, <2>1, <2>2, <2>3 DEF PromoteVerify, Clean
<1>5. CASE DestroyPending
  BY <1>0, <1>5 DEF DestroyPending
<1>6. CASE DestroyMain
  <2>1. mk = NoKey
    BY <1>6 DEF DestroyMain, KeyInv, StepInv, CallOK
  <2> QED
    BY <1>0, <1>6, <2>1 DEF DestroyMain
<1>7. CASE Crash \/ Rot
  BY <1>0, <1>7 DEF Crash, Rot
<1>8. CASE UNCHANGED vars
  BY <1>8 DEF vars
<1> QED
  BY <1>1, <1>2, <1>3, <1>4, <1>5, <1>6, <1>7, <1>8

\* Sure holds in every reachable state of a storage whose writes succeed.
LEMMA SureStep ==
  ASSUME Faults \cap {"hide", "store", "rot"} = {}, KeyInv, Sure, [Next]_vars
  PROVE  Sure'
BY SureUser, SureWrite, SureOpen DEF Next, CallStep

-----------------------------------------------------------------------------
(* Every step of the vault is a step of the promise, or none. *)

Kept == Promise!Next \/ UNCHANGED Promise!vars

\* What the mapping needs of both states of a step: each key of the backend
\* holds a whole EMK or nothing.
Whole ==
  /\ main \in Emk \cup {NoEmk} /\ pending \in Emk \cup {NoEmk}
  /\ mk \in 0..MaxKey /\ wasReset \in BOOLEAN

\* Without damage at rest, the records are whole before and after a step.
LEMMA IsWhole ==
  /\ KeyInv /\ Sure => Whole
  /\ KeyInv' /\ Sure' => Whole'
BY DEF KeyInv, StepInv, TypeOK, Sure, Blobs, Whole

\* The stakes before and after a step.
LEMMA StakesHere ==
  ASSUME wasReset \in BOOLEAN, wasReset' \in BOOLEAN
  PROVE  /\ "setup" \in Stake0 <=> main = NoEmk
         /\ "reset" \in Stake0 <=> wasReset
         /\ "destroy" \in Stake0 <=> op.name = "destroy"
         /\ "destroy" \in Stake1 <=> op'.name = "destroy"
         /\ Stake1 \subseteq Stake0 <=>
              /\ main' = NoEmk => main = NoEmk
              /\ wasReset' => wasReset
              /\ op'.name = "destroy" => op.name = "destroy"
         /\ Stake0 \subseteq Stake1 <=>
              /\ main = NoEmk => main' = NoEmk
              /\ wasReset => wasReset'
              /\ op.name = "destroy" => op'.name = "destroy"
         /\ Stake1 \subseteq Stake0 \cup {"setup"} <=>
              /\ wasReset' => wasReset
              /\ op'.name = "destroy" => op.name = "destroy"
         /\ Stake1 = Stake0 <=>
              /\ main' = NoEmk <=> main = NoEmk
              /\ wasReset' <=> wasReset
              /\ op'.name = "destroy" <=> op.name = "destroy"
<1>1. /\ "setup" \in Stake0 <=> main = NoEmk
      /\ "reset" \in Stake0 <=> wasReset
      /\ "destroy" \in Stake0 <=> op.name = "destroy"
  BY Stakes DEF Stake0
<1>2. "destroy" \in Stake1 <=> op'.name = "destroy"
  BY Stakes DEF Stake1
<1>3. Stake1 \subseteq Stake0 <=>
              /\ main' = NoEmk => main = NoEmk
              /\ wasReset' => wasReset
              /\ op'.name = "destroy" => op.name = "destroy"
  BY Stakes DEF Stake0, Stake1
<1>4. Stake0 \subseteq Stake1 <=>
              /\ main = NoEmk => main' = NoEmk
              /\ wasReset => wasReset'
              /\ op.name = "destroy" => op'.name = "destroy"
  BY Stakes DEF Stake0, Stake1
<1>5. Stake1 \subseteq Stake0 \cup {"setup"} <=>
              /\ wasReset' => wasReset
              /\ op'.name = "destroy" => op.name = "destroy"
  BY Stakes DEF Stake0, Stake1
<1>6. Stake1 = Stake0 <=>
              /\ main' = NoEmk <=> main = NoEmk
              /\ wasReset' <=> wasReset
              /\ op'.name = "destroy" <=> op.name = "destroy"
  <2>1. Stake1 = Stake0 <=> Stake1 \subseteq Stake0 /\ Stake0 \subseteq Stake1
    OBVIOUS
  <2> QED
    BY <1>3, <1>4, <2>1
<1> QED
  BY <1>1, <1>2, <1>3, <1>4, <1>5, <1>6

\* Copies of one key unlock that key and nothing else.
LEMMA OneLive ==
  ASSUME NEW m \in Emk \cup {NoEmk}, NEW s \in Emk \cup {NoEmk}, NEW k,
         \A b \in {m, s} \cap Emk : b.mk = k,
         {m, s} \cap Emk # {}
  PROVE  Live(m, s) = {k}
<1>1. Live(m, s) = {b.mk : b \in {c \in {m, s} : c \in Emk /\
                                    (c = m \/ m = NoEmk \/ m.pin # c.pin)}}
  BY LiveKeys
<1>2. PICK b \in {m, s} : b \in Emk /\ (b = m \/ m = NoEmk \/ m.pin # b.pin)
  BY Basics
<1> QED
  BY <1>1, <1>2

\* Main always unlocks its key, and the staging copy its own unless main hides it.
LEMMA MainLives ==
  ASSUME NEW m \in Emk \cup {NoEmk}, NEW s \in Emk \cup {NoEmk}
  PROVE  /\ m \in Emk => m.mk \in Live(m, s)
         /\ s \in Emk /\ (m = NoEmk \/ m.pin # s.pin) => s.mk \in Live(m, s)
         /\ Live(m, s) \subseteq {b.mk : b \in {m, s} \cap Emk}
         /\ Live(m, s) \subseteq 1..MaxKey
<1>1. Live(m, s) = {b.mk : b \in {c \in {m, s} : c \in Emk /\
                                    (c = m \/ m = NoEmk \/ m.pin # c.pin)}}
  BY LiveKeys
<1>2. \A b \in Emk : b.mk \in 1..MaxKey
  BY Basics DEF Keys
<1>3. m \in Emk => m.mk \in Live(m, s)
  BY <1>1
<1>4. s \in Emk /\ (m = NoEmk \/ m.pin # s.pin) => s.mk \in Live(m, s)
  BY <1>1
<1>5. Live(m, s) \subseteq {b.mk : b \in {m, s} \cap Emk}
  BY <1>1
<1>6. Live(m, s) \subseteq 1..MaxKey
  BY <1>2, <1>5
<1> QED
  BY <1>3, <1>4, <1>5, <1>6

\* Where nothing is stored no PIN works.
LEMMA NoneLive ==
  /\ Unlocks(NoEmk, NoEmk) = [p \in Pins |-> 0]
  /\ Live(NoEmk, NoEmk) = {}
BY Basics DEF Live, Unlocks, Opens, NoKey

\* A step that leaves both copies, the key in memory and the stake alone.
LEMMA Quiet ==
  ASSUME wasReset \in BOOLEAN, UNCHANGED <<main, pending, mk, wasReset>>,
         op'.name = "destroy" <=> op.name = "destroy"
  PROVE  Kept
BY StakesHere, Unseen DEF SameUnlocks, Kept

\* A step that gives copies up or writes an EMK of a known key: a reset was
\* begun wherever fewer keys remain.
LEMMA Rewrites ==
  ASSUME Whole, Whole',
         Keys1 # {}, Keys1 \subseteq Keys0, wasReset \/ Keys1 = Keys0,
         mk' \in {mk} \cup Keys1, Stake1 = Stake0
  PROVE  Kept
<1>1. /\ Unlocks(main', pending') \in [Pins -> 0..MaxKey]
      /\ Keys0 \subseteq 1..MaxKey
  BY LiveKeys, MainLives DEF Keys0, Whole
<1>2. CASE Keys1 = Keys0
  BY <1>1, <1>2, Rewraps DEF Kept, Promise!Next
<1>3. CASE Keys1 # Keys0
  <2>1. \E k \in Keys0 : k # mk
    BY <1>3
  <2>2. \E k \in (1..MaxKey) \ {mk} : Keys1 \subseteq Keys0 \cup {k}
    BY <1>1, <2>1
  <2>3. "reset" \in Stake0
    BY <1>3, Stakes DEF Stake0, Whole
  <2>4. Promise!Supersede
    BY <1>1, <2>2, <2>3, Supersedes
  <2> QED
    BY <2>4 DEF Kept, Promise!Next
<1> QED
  BY <1>2, <1>3


\* setup(), unlock() and changePin() begin, and the calls that are refused.
LEMMA KeptUser ==
  ASSUME KeyInv, Whole, Whole', UserStep
  PROVE  Kept
<1> USE DEF Whole
<1>0. pc = "idle" => op.name = "none"
  BY Basics DEF KeyInv, StepInv, CallOK
<1>1. CASE \/ \E p \in Pins : Setup(p) \/ Unlock(p)
           \/ \E old, new \in Pins : ChangePin(old, new)
           \/ SetupUnlocked \/ ChangePinLocked \/ Encrypt
  <2>1. UNCHANGED <<main, pending, mk, wasReset>>
    BY <1>1 DEF Setup, Unlock, ChangePin, SetupUnlocked, ChangePinLocked, Encrypt
  <2>2. op.name # "destroy" /\ op'.name # "destroy"
    BY <1>0, <1>1, Basics DEF Setup, Unlock, ChangePin, SetupUnlocked, ChangePinLocked,
         Encrypt, Call, Return
  <2> QED
    BY <2>1, <2>2, Quiet
<1>2. ASSUME NEW p \in Pins, Reset(p) PROVE Kept
  <2>1. UNCHANGED <<main, pending, mk>> /\ wasReset' = TRUE
    BY <1>2 DEF Reset
  <2>2. op.name # "destroy" /\ op'.name # "destroy"
    BY <1>0, <1>2, Basics DEF Reset, Return
  <2>3. SameUnlocks /\ Stake0 \subseteq Stake1 /\ "destroy" \notin Stake1
    BY <2>1, <2>2, StakesHere DEF SameUnlocks
  <2> QED
    BY <2>1, <2>3, Agrees DEF Kept, Promise!Next
<1>3. CASE Destroy
  <2>1. UNCHANGED <<main, pending, wasReset>> /\ mk' = 0
    BY <1>3 DEF Destroy, NoKey
  <2>2. op.name # "destroy" /\ op'.name = "destroy"
    BY <1>0, <1>3, Basics DEF Destroy, Call
  <2>3. SameUnlocks /\ Stake0 \subseteq Stake1 /\ "destroy" \in Stake1
    BY <2>1, <2>2, StakesHere DEF SameUnlocks
  <2> QED
    BY <2>1, <2>3, Agrees DEF Kept, Promise!Next
<1>4. CASE Lock
  <2>1. UNCHANGED <<main, pending, wasReset, op>> /\ mk' = 0
    BY <1>4 DEF Lock, NoKey
  <2>2. SameUnlocks /\ Stake1 \subseteq Stake0
    BY <2>1, StakesHere DEF SameUnlocks
  <2> QED
    BY <2>1, <2>2, Releases DEF Kept, Promise!Next
<1> QED
  BY <1>1, <1>2, <1>3, <1>4 DEF UserStep

\* The steps that only read: state(), the verifications and the attempts to open.
LEMMA KeptRead ==
  ASSUME KeyInv, Whole,
         StateMain \/ StatePending \/ StageVerify \/ Recheck \/ ReplaceVerify
           \/ OpenMain \/ OpenPending
  PROVE  Kept
<1>1. UNCHANGED <<main, pending, mk, wasReset>>
  BY DEF StateMain, StatePending, StageVerify, Recheck, ReplaceVerify, OpenMain, OpenPending
<1>2. op'.name \in {op.name, "none"}
  BY Basics DEF StateMain, StatePending, StageVerify, Recheck, ReplaceVerify, OpenMain,
       OpenPending, Goto, Return, CreateEmk
<1>3. op.name # "destroy"
  BY DEF StateMain, StatePending, StageVerify, Recheck, ReplaceVerify, OpenMain,
       OpenPending, KeyInv, StepInv, CallOK, Opening, Writing
<1> QED
  BY <1>1, <1>2, <1>3, Quiet DEF Whole

\* writeEmk() stages the new EMK: the first one of a setup, one of the same key
\* for changePin(), one of a new key for reset().
LEMMA KeptStage ==
  ASSUME Faults \cap {"hide", "store", "rot"} = {}, KeyInv, Sure, Whole, Whole', Stage
  PROVE  Kept
<1>1. /\ pending' = emk /\ emk \in Emk /\ UNCHANGED <<main, mk, op, wasReset>>
      /\ pc = "stage"
  BY DEF Stage, Works, Goto, KeyInv, StepInv, BlobOK, Writing
<1>2. Stake1 = Stake0
  BY <1>1, StakesHere DEF Whole
<1>3. op.name \in {"setup", "changePin", "reset"}
  BY <1>1 DEF KeyInv, StepInv, CallOK, Writing
<1>4. CASE op.name = "setup"
  <2>1. main = NoEmk /\ pending = NoEmk /\ mk = 0
    BY <1>1, <1>4 DEF Sure, KeyInv, StepInv, CallOK, NoKey
  <2>2. Keys0 = {}
    BY <2>1, NoneLive DEF Keys0
  <2>3. Unlocks(main', pending') = [q \in Pins |-> IF q = emk.pin THEN emk.mk ELSE 0]
    BY <1>1, <2>1, Basics DEF Unlocks, Opens, NoKey
  <2>4. emk.pin \in Pins /\ emk.mk \in 1..MaxKey
    BY <1>1, Basics DEF Keys
  <2>5. \E p \in Pins, k \in 1..MaxKey :
          Unlocks(main', pending') = [q \in Pins |-> IF q = p THEN k ELSE 0]
    BY <2>3, <2>4
  <2> QED
    BY <1>1, <1>2, <2>1, <2>2, <2>5, Creates DEF Kept, Promise!Next
<1>5. CASE op.name = "changePin"
  <2>1. main \in Emk /\ main.mk = mk /\ emk.mk = mk
    BY <1>1, <1>5 DEF Sure, KeyInv, StepInv, BlobOK, Writing
  <2>2. Keys1 = {mk}
    BY <1>1, <2>1, OneLive DEF Keys1
  <2>3. mk \in Keys0
    BY <2>1, MainLives DEF Keys0, Whole
  <2>4. ASSUME ~wasReset PROVE Keys0 = {mk}
    <3>1. \A b \in {main, pending} \cap Emk : b.mk = mk
      BY <2>1, <2>4 DEF KeyInv, OneMasterKey
    <3> QED
      BY <2>1, <3>1, OneLive DEF Keys0, Whole
  <2> QED
    BY <1>1, <1>2, <2>2, <2>3, <2>4, Rewrites
<1>6. CASE op.name = "reset"
  <2>1. wasReset /\ emk.mk # mk /\ emk.mk \in 1..MaxKey
    BY <1>1, <1>6, Basics DEF Sure, KeyInv, StepInv, CallOK, Writing, Keys
  <2>2. Keys1 \subseteq Keys0 \cup {emk.mk}
    <3>1. Keys1 \subseteq {b.mk : b \in {main, emk} \cap Emk}
      BY <1>1, MainLives DEF Keys1, Whole
    <3>2. main \in Emk => main.mk \in Keys0
      BY MainLives DEF Keys0, Whole
    <3> QED
      BY <3>1, <3>2
  <2>3. Keys1 # {}
    <3>1. main \in Emk => main.mk \in Keys1
      BY <1>1, MainLives DEF Keys1, Whole
    <3>2. main = NoEmk => emk.mk \in Keys1
      BY <1>1, MainLives DEF Keys1, Whole
    <3> QED
      BY <3>1, <3>2 DEF Whole
  <2>4. "reset" \in Stake0
    BY <2>1, StakesHere DEF Whole
  <2>5. Unlocks(main', pending') \in [Pins -> 0..MaxKey]
    BY LiveKeys DEF Whole
  <2> QED
    BY <1>1, <1>2, <2>1, <2>2, <2>3, <2>4, <2>5, Supersedes DEF Kept, Promise!Next
<1> QED
  BY <1>3, <1>4, <1>5, <1>6


\* writeEmk() gives the staged EMK up: main, where there is one, keeps its key.
LEMMA KeptAbort ==
  ASSUME KeyInv, Sure, Whole, Whole', Abort
  PROVE  Kept
<1>1. /\ pending' \in {pending, NoEmk} /\ pending = emk /\ emk \in Emk /\ pc = "abort"
      /\ UNCHANGED <<main, mk, wasReset>> /\ op'.name = "none"
  BY Basics DEF Abort, Return, Sure, KeyInv, StepInv, BlobOK, Writing
<1>2. op.name \in {"setup", "changePin", "reset"}
  BY <1>1 DEF KeyInv, StepInv, CallOK, Writing
<1>3. Stake1 = Stake0
  BY <1>1, <1>2, StakesHere DEF Whole
<1>4. CASE pending' = pending
  BY <1>1, <1>2, <1>4, Quiet DEF Whole
<1>5. CASE pending' = NoEmk /\ main = NoEmk
  <2>1. mk = 0
    BY <1>5, Basics DEF Sure, NoKey
  <2>2. Unlocks(main', pending') =
          [p \in Pins |-> IF p \in Pins THEN 0 ELSE Unlocks(main, pending)[p]]
    BY <1>1, <1>5, NoneLive
  <2>3. "setup" \in Stake0
    BY <1>5, StakesHere DEF Whole
  <2>4. Promise!Destroy
    BY <1>1, <1>3, <2>1, <2>2, <2>3, Destroys
  <2> QED
    BY <2>4 DEF Kept, Promise!Next
<1>6. CASE pending' = NoEmk /\ main \in Emk
  <2>1. Keys1 = {main.mk}
    <3>1. {main, NoEmk} \cap Emk = {main}
      BY <1>6, Basics
    <3> QED
      BY <1>1, <1>6, <3>1, OneLive DEF Keys1, Whole
  <2>2. main.mk \in Keys0
    BY <1>6, MainLives DEF Keys0, Whole
  <2>3. ASSUME ~wasReset PROVE Keys0 = {main.mk}
    <3>1. \A b \in {main, pending} \cap Emk : b.mk = main.mk
      BY <1>6, <2>3 DEF KeyInv, OneMasterKey
    <3> QED
      BY <1>6, <3>1, OneLive DEF Keys0, Whole
  <2> QED
    BY <1>1, <1>3, <2>1, <2>2, <2>3, Rewrites
<1> QED
  BY <1>1, <1>4, <1>5, <1>6 DEF Whole

\* writeEmk() replaces main: the PIN that was staged is now the only one.
LEMMA KeptReplace ==
  ASSUME Faults \cap {"hide", "store", "rot"} = {}, KeyInv, Sure, Whole, Whole', Replace
  PROVE  Kept
<1>1. /\ main' = emk /\ pending = emk /\ emk \in Emk /\ pc = "replace"
      /\ UNCHANGED <<pending, mk, op, wasReset>>
  BY DEF Replace, Works, Goto, KeyInv, StepInv, BlobOK, Writing
<1>2. op.name \in {"setup", "changePin", "reset"}
  BY <1>1 DEF KeyInv, StepInv, CallOK, Writing
<1>3. Stake1 \subseteq Stake0 /\ (main # NoEmk => Stake1 = Stake0)
  BY <1>1, StakesHere, Basics DEF Whole
<1>4. Keys1 = {emk.mk}
  BY <1>1, OneLive DEF Keys1, Whole
<1>5. CASE op.name = "setup"
  <2>1. main = NoEmk
    BY <1>1, <1>5 DEF KeyInv, StepInv, BlobOK
  <2>2. SameUnlocks
    BY <1>1, <2>1, Basics DEF SameUnlocks, Unlocks, Opens
  <2>3. Promise!Settle
    BY <1>1, <1>3, <2>2, Settles
  <2> QED
    BY <2>3 DEF Kept, Promise!Next
<1>6. CASE op.name = "changePin"
  <2>1. main \in Emk /\ main.mk = mk /\ emk.mk = mk
    BY <1>1, <1>6 DEF Sure, KeyInv, StepInv, BlobOK, Writing
  <2>2. Keys0 = {mk}
    BY <1>1, <2>1, OneLive DEF Keys0, Whole
  <2> QED
    BY <1>1, <1>3, <1>4, <2>1, <2>2, Rewrites, Basics
<1>7. CASE op.name = "reset"
  <2>1. wasReset /\ emk.mk # mk /\ emk.mk \in 1..MaxKey
    BY <1>1, <1>7, Basics DEF Sure, KeyInv, StepInv, CallOK, Writing, Keys
  <2>2. "reset" \in Stake0
    BY <2>1, StakesHere DEF Whole
  <2>3. Unlocks(main', pending') \in [Pins -> 0..MaxKey]
    BY LiveKeys DEF Whole
  <2>4. Promise!Supersede
    BY <1>1, <1>3, <1>4, <2>1, <2>2, <2>3, Supersedes
  <2> QED
    BY <2>4 DEF Kept, Promise!Next
<1> QED
  BY <1>2, <1>5, <1>6, <1>7

\* writeEmk() is done: setup() and reset() take the key that the new PIN unlocks.
LEMMA KeptUnstage ==
  ASSUME KeyInv, Whole, Whole', Unstage
  PROVE  Kept
<1>1. /\ main = emk /\ pending = emk /\ emk \in Emk /\ main' = emk
      /\ pending' \in {emk, NoEmk} /\ mk' \in {mk, emk.mk} /\ op'.name = "none"
  BY Basics DEF Unstage, Return, KeyInv, StepInv, BlobOK, Writing
<1>2. wasReset' => wasReset
  BY DEF Unstage
<1>3. Stake1 \subseteq Stake0
  BY <1>1, <1>2, StakesHere DEF Whole
<1>4. Keys0 = {emk.mk}
  BY <1>1, OneLive DEF Keys0, Whole
<1>5. SameUnlocks
  BY <1>1, Basics DEF SameUnlocks, Unlocks, Opens
<1>6. Promise!Settle
  BY <1>1, <1>3, <1>4, <1>5, Settles
<1> QED
  BY <1>6 DEF Kept, Promise!Next

\* openEmk() promotes the copy that opened: it was not hidden by main.
LEMMA KeptPromote ==
  ASSUME Faults \cap {"hide", "store", "rot"} = {}, KeyInv, Sure, Whole, Whole', Promote
  PROVE  Kept
<1>1. /\ main' = emk /\ pending = emk /\ emk \in Emk /\ pc = "promote"
      /\ emk.pin = op.pin /\ UNCHANGED <<pending, mk, op, wasReset>>
  BY DEF Promote, Works, Goto, KeyInv, StepInv, BlobOK, Opens
<1>2. Stake1 \subseteq Stake0 /\ (main # NoEmk => Stake1 = Stake0)
  BY <1>1, StakesHere, Basics DEF Whole
<1>3. CASE main = NoEmk
  <2>1. SameUnlocks
    BY <1>1, <1>3, Basics DEF SameUnlocks, Unlocks, Opens
  <2>2. Promise!Settle
    BY <1>1, <1>2, <2>1, Settles
  <2> QED
    BY <2>2 DEF Kept, Promise!Next
<1>4. CASE main \in Emk
  <2>1. Keys1 = {emk.mk}
    BY <1>1, OneLive DEF Keys1, Whole
  <2>2. main.pin # emk.pin
    BY <1>1, <1>4 DEF Sure, Opens
  <2>3. emk.mk \in Keys0
    BY <1>1, <2>2, MainLives DEF Keys0, Whole
  <2>4. ASSUME ~wasReset PROVE Keys0 = {emk.mk}
    <3>1. \A b \in {main, pending} \cap Emk : b.mk = emk.mk
      BY <1>1, <2>4 DEF KeyInv, OneMasterKey
    <3>2. main \in Emk /\ main.mk = emk.mk
      BY <1>4, <3>1
    <3>3. \A b \in {main, pending} \cap Emk : b.mk = main.mk
      BY <3>1, <3>2
    <3>4. Keys0 = {main.mk}
      BY <3>2, <3>3, OneLive DEF Keys0, Whole
    <3> QED
      BY <3>2, <3>4
  <2> QED
    BY <1>1, <1>2, <1>4, <2>1, <2>3, <2>4, Rewrites, Basics
<1> QED
  BY <1>3, <1>4 DEF Whole

\* openEmk() has its key: unlock() keeps it, changePin() goes on to wrap it.
LEMMA KeptOpened ==
  ASSUME KeyInv, Whole, Whole', main \in Emk, Opened(main.mk), UNCHANGED <<main, wasReset>>,
         pending' \in {pending, NoEmk}, op.name \in {"unlock", "changePin"}
  PROVE  Kept
<1>1. mk' \in {mk, main.mk} /\ op'.name # "destroy"
  BY Basics DEF Opened, CreateEmk, Return, Goto
<1>2. Stake1 = Stake0
  BY <1>1, StakesHere DEF Whole
<1>3. main.mk \in Keys0
  BY MainLives DEF Keys0, Whole
<1>4. CASE pending' = pending
  <2>1. CASE mk' = mk
    BY <1>1, <1>4, <2>1, Quiet DEF Whole
  <2>2. CASE mk' = main.mk
    <3>1. Promise!Hold
      BY <1>2, <1>3, <1>4, <2>2, Holds DEF SameUnlocks
    <3> QED
      BY <3>1 DEF Kept, Promise!Next
  <2> QED
    BY <1>1, <2>1, <2>2
<1>5. CASE pending' = NoEmk
  <2>1. Keys1 = {main.mk}
    <3>1. {main, NoEmk} \cap Emk = {main}
      BY Basics
    <3> QED
      BY <1>5, <3>1, OneLive DEF Keys1, Whole
  <2>2. ASSUME ~wasReset PROVE Keys0 = {main.mk}
    <3>1. \A b \in {main, pending} \cap Emk : b.mk = main.mk
      BY <2>2 DEF KeyInv, OneMasterKey
    <3> QED
      BY <3>1, OneLive DEF Keys0, Whole
  <2> QED
    BY <1>1, <1>2, <1>3, <2>1, <2>2, Rewrites
<1> QED
  BY <1>4, <1>5

\* The rest of openEmk().
LEMMA KeptOpen ==
  ASSUME KeyInv, Whole, Whole', PromoteVerify \/ Clean
  PROVE  Kept
<1>1. /\ main \in Emk /\ op.name \in {"unlock", "changePin"}
      /\ pc = "promote_verify" => main = emk
  BY DEF PromoteVerify, Clean, KeyInv, StepInv, BlobOK, CallOK, Opening, Opens
<1>2. UNCHANGED <<main, wasReset>> /\ pending' \in {pending, NoEmk}
  BY DEF PromoteVerify, Clean
<1>3. CASE Opened(main.mk)
  BY <1>1, <1>2, <1>3, KeptOpened
<1>4. CASE UNCHANGED <<main, pending, mk, op, wasReset>>
  BY <1>4, Quiet DEF Whole
<1> QED
  BY <1>1, <1>3, <1>4 DEF PromoteVerify, Clean, Goto

\* destroy() has locked the vault; it takes the staging copy and then main.
LEMMA KeptDestroy ==
  ASSUME KeyInv, Whole, Whole', DestroyPending \/ DestroyMain
  PROVE  Kept
<1>1. /\ op.name = "destroy" /\ mk = 0 /\ mk' = mk
      /\ wasReset' => wasReset
  BY DEF DestroyPending, DestroyMain, KeyInv, StepInv, CallOK, NoKey
<1>2. "destroy" \in Stake0
  BY <1>1, StakesHere DEF Whole
<1>3. CASE UNCHANGED <<main, pending, wasReset>>
  <2>1. SameUnlocks /\ Stake1 \subseteq Stake0
    BY <1>1, <1>3, StakesHere DEF Whole, SameUnlocks
  <2>2. Promise!Settle
    BY <1>1, <2>1, Settles
  <2> QED
    BY <2>2 DEF Kept, Promise!Next
<1>4. CASE main' = NoEmk /\ pending' = NoEmk
  <2>1. Unlocks(main', pending') =
          [p \in Pins |-> IF p \in Pins THEN 0 ELSE Unlocks(main, pending)[p]]
    BY <1>4, NoneLive
  <2>2. Stake1 \subseteq Stake0 \cup {"setup"}
    BY <1>1, StakesHere DEF Whole
  <2>3. Promise!Destroy
    BY <1>1, <1>2, <2>1, <2>2, Destroys
  <2> QED
    BY <2>3 DEF Kept, Promise!Next
<1>5. CASE main' = main /\ pending' = NoEmk
  <2>1. Stake1 \subseteq Stake0 \cup {"setup"}
    BY <1>1, StakesHere DEF Whole
  <2>2. Unlocks(main', pending') =
          [p \in Pins |-> IF p \in {q \in Pins : ~Opens(main, q)} THEN 0
                          ELSE Unlocks(main, pending)[p]]
    BY <1>5, Basics DEF Unlocks, Opens, NoKey
  <2>3. \E gone \in SUBSET Pins :
          Unlocks(main', pending') =
            [p \in Pins |-> IF p \in gone THEN 0 ELSE Unlocks(main, pending)[p]]
    BY <2>2
  <2>4. Promise!Destroy
    BY <1>1, <1>2, <2>1, <2>3, Destroys
  <2> QED
    BY <2>4 DEF Kept, Promise!Next
<1> QED
  BY <1>3, <1>4, <1>5 DEF DestroyPending, DestroyMain, KeyInv, StepInv, BlobOK

\* The process dies: the key in memory is gone, the PINs are not.
LEMMA KeptCrash ==
  ASSUME Whole, Whole', Crash
  PROVE  Kept
<1>1. UNCHANGED <<main, pending, wasReset>> /\ mk' = 0 /\ op'.name = "none"
  BY Basics DEF Crash, Return, NoKey
<1>2. SameUnlocks /\ Stake1 \subseteq Stake0
  BY <1>1, StakesHere DEF Whole, SameUnlocks
<1>3. Promise!Release
  BY <1>1, <1>2, Releases
<1> QED
  BY <1>3 DEF Kept, Promise!Next

\* Vault.h, the class comments: where records are neither hidden, damaged nor left
\* unwritten, PINs and keys only change in the steps of VaultPromise.
THEOREM KeepsPromise ==
  ASSUME Faults \cap {"hide", "store", "rot"} = {}
  PROVE  Spec => PromiseKept
<1>1. Init => KeyInv /\ Sure
  BY StepInit, SureInit DEF KeyInv, Init, OneMasterKey
<1>2. KeyInv /\ Sure /\ [Next]_vars => KeyInv' /\ Sure'
  BY SureStep, KeyStep, StepUser, StepWrite, StepOpen, StepEnv DEF Next, CallStep, KeyInv
<1>3. Init => Promise!Init
  BY Basics DEF Init, Promise!Init, Opens, NoKey, NoOp
<1>4. KeyInv /\ Sure /\ KeyInv' /\ Sure' /\ [Next]_vars => [Promise!Next]_(Promise!vars)
  <2> SUFFICES ASSUME KeyInv, Sure, KeyInv', Sure', [Next]_vars PROVE Kept
    BY DEF Kept
  <2>1. Whole /\ Whole'
    BY IsWhole
  <2>2. CASE UserStep
    BY <2>1, <2>2, KeptUser
  <2>3. CASE StateMain \/ StatePending \/ StageVerify \/ Recheck \/ ReplaceVerify
               \/ OpenMain \/ OpenPending
    BY <2>1, <2>3, KeptRead
  <2>4. CASE Stage \/ Abort \/ Replace \/ Unstage
    BY <2>1, <2>4, KeptStage, KeptAbort, KeptReplace, KeptUnstage
  <2>5. CASE Promote \/ PromoteVerify \/ Clean
    BY <2>1, <2>5, KeptPromote, KeptOpen
  <2>6. CASE DestroyPending \/ DestroyMain \/ Crash
    BY <2>1, <2>6, KeptDestroy, KeptCrash
  <2>7. ~Rot
    BY DEF Rot
  <2>8. CASE UNCHANGED vars
    BY <2>1, <2>8, Quiet DEF vars, Whole
  <2> QED
    BY <2>2, <2>3, <2>4, <2>5, <2>6, <2>7, <2>8 DEF Next, CallStep
<1> QED
  BY <1>1, <1>2, <1>3, <1>4, PTL DEF Spec, PromiseKept, Promise!Spec

=============================================================================
