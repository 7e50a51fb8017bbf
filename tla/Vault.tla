------------------------------- MODULE Vault -------------------------------
(***************************************************************************)
(* The local vault of Guitar (localvault/src/vault/Vault.cpp).             *)
(*                                                                         *)
(* A master key MK encrypts the application's secrets.  The vault stores   *)
(* it only wrapped under a PIN, as an EMK record, in a backend with two    *)
(* keys: emkKey_ (main) and emkKey_ + ".pending" (pending).  A rewrite     *)
(* stages the new EMK under pending, verifies it, replaces main and then   *)
(* removes pending; unlocking falls back to pending and promotes it.       *)
(*                                                                         *)
(* Each backend call is one action, so that a call may fail and the        *)
(* process may die between any two of them.  A call of the public          *)
(* interface runs from pc = "idle" back to pc = "idle".                    *)
(***************************************************************************)
EXTENDS Naturals

CONSTANTS
  Pins,     \* the PINs a user may type (all valid for validate_pin)
  MaxKey,   \* bound: how many master keys newMasterKey may draw
  Faults,   \* what may go wrong, a subset of FaultKinds
  NoPin,    \* the PIN argument of a call that has none
  NoEmk,    \* the backend holds nothing under the key
  Garbage   \* the backend holds bytes that parseEmk rejects as corrupted

Keys  == 1..MaxKey
NoKey == 0

\* createEmk: the master key mk wrapped under pin.
Emk   == [mk : Keys, pin : Pins]
Blobs == Emk \cup {NoEmk, Garbage}

FaultKinds == {"load",    \* load answers Unavailable or Error
               "hide",    \* state() does not see an existing main EMK
               "store",   \* store fails and keeps the old data
               "remove",  \* remove fails and keeps the data
               "derive",  \* deriveKek or the lock of key memory fails
               "crash",   \* the process dies
               "rot"}     \* stored bytes are damaged at rest

ASSUME VaultAssumption ==
  /\ MaxKey \in Nat \ {0}
  /\ Faults \subseteq FaultKinds
  /\ NoPin \notin Pins
  /\ NoEmk \notin Emk
  /\ Garbage \notin Emk
  /\ NoEmk # Garbage

VARIABLES
  main,     \* what the backend holds under emkKey_
  pending,  \* what it holds under emkKey_ + ".pending"
  mk,       \* mk_, or NoKey while the vault is locked
  lastKey,  \* the last master key drawn
  op,       \* the call in progress and its arguments
  pc,       \* the backend call that comes next
  emk,      \* the local blob that is being written or promoted
  res,      \* the VaultError of the last call; inside a call, of the failed step
  sealed,   \* history: the keys that encrypted data not yet given up
  wasReset  \* history: a reset() was begun and none has succeeded since

vars == <<main, pending, mk, lastKey, op, pc, emk, res, sealed, wasReset>>

OpNames == {"none", "setup", "unlock", "changePin", "reset", "destroy"}
Ops     == [name : OpNames, pin : Pins \cup {NoPin}, new : Pins \cup {NoPin}]
NoOp    == [name |-> "none", pin |-> NoPin, new |-> NoPin]

PCs == {"idle", "state_main", "state_pending",
        "open_main", "open_pending", "promote", "promote_verify", "clean",
        "stage", "stage_verify", "abort", "recheck",
        "replace", "replace_verify", "unstage",
        "destroy_pending", "destroy_main"}

\* "Storage" stands for BackendUnavailable and StorageError, which differ only
\* in the message; "Other" for KeyDerivationFailed and MemoryLockFailed.
Results == {"None", "AlreadySetup", "NotSetup", "WrongPin", "Corrupted",
            "Locked", "Storage", "Other"}

-----------------------------------------------------------------------------
(* The backend and the cryptography. *)

\* Variant: an unreachable backend is taken for an empty one.
LoadsConfused(blob) ==
  {IF blob = NoEmk THEN "NotFound" ELSE "Ok"}
    \cup (IF "load" \in Faults THEN {"NotFound"} ELSE {})

\* The answers load() may give for a blob.
Loads(blob) ==
  {IF blob = NoEmk THEN "NotFound" ELSE "Ok"}
    \cup (IF "load" \in Faults THEN {"Fail"} ELSE {})

\* Whether a call that fault f may disturb succeeds.
Works(f) == IF f \in Faults THEN BOOLEAN ELSE {TRUE}

\* parseEmk succeeds: the record decrypts under the key derived from p.
Opens(blob, p) == blob \in Emk /\ blob.pin = p

\* Why a blob that does not open does not.
ParseError(blob) == IF blob = Garbage THEN "Corrupted" ELSE "WrongPin"

\* mainError of openEmk, when the main blob did not open.
MainError == IF main = NoEmk THEN "NotSetup" ELSE ParseError(main)

\* The master keys some stored EMK wraps.
StoredKeys == {b.mk : b \in {main, pending} \cap Emk}

-----------------------------------------------------------------------------
Init ==
  /\ main = NoEmk /\ pending = NoEmk
  /\ mk = NoKey /\ lastKey = 0
  /\ op = NoOp /\ pc = "idle" /\ emk = NoEmk /\ res = "None"
  /\ sealed = {} /\ wasReset = FALSE

Goto(label) == pc' = label /\ UNCHANGED <<op, res>>

\* The call returns err; its local variables go out of scope.
Return(err) ==
  /\ pc' = "idle" /\ op' = NoOp /\ emk' = NoEmk /\ res' = err

Call(name, pin, new, label) ==
  /\ pc = "idle"
  /\ op' = [name |-> name, pin |-> pin, new |-> new]
  /\ pc' = label
  /\ UNCHANGED <<emk, res>>

\* createEmk(k, op.new) and entry into writeEmk, or the failure of createEmk.
CreateEmk(k) ==
  \/ /\ emk' = [mk |-> k, pin |-> op.new]
     /\ Goto("stage")
  \/ /\ "derive" \in Faults
     /\ Return("Other")

-----------------------------------------------------------------------------
(* setup(): state() first, then a fresh key through writeEmk(emk, true). *)

Setup(p) ==
  /\ lastKey < MaxKey
  /\ mk = NoKey
  /\ Call("setup", NoPin, p, "state_main")
  /\ UNCHANGED <<main, pending, mk, lastKey, sealed, wasReset>>

\* state() answers Unlocked without asking the backend.
SetupUnlocked ==
  /\ pc = "idle"
  /\ mk # NoKey
  /\ Return("AlreadySetup")
  /\ UNCHANGED <<main, pending, mk, lastKey, sealed, wasReset>>

\* Variant: leaves it to the recheck to find an existing EMK.
StateMainOptimistic ==
  /\ pc = "state_main"
  /\ Goto("state_pending")
  /\ UNCHANGED <<main, pending, mk, lastKey, emk, sealed, wasReset>>

StateMain ==
  /\ pc = "state_main"
  /\ \E status \in Loads(main) \cup (IF "hide" \in Faults THEN {"NotFound"} ELSE {}) :
       \/ status = "NotFound" /\ Goto("state_pending") /\ UNCHANGED emk
       \/ status = "Ok" /\ Return("AlreadySetup")
       \/ status = "Fail" /\ Return("Storage")
  /\ UNCHANGED <<main, pending, mk, lastKey, sealed, wasReset>>

StatePending ==
  /\ pc = "state_pending"
  /\ \E status \in Loads(pending) :
       \/ /\ status = "NotFound"
          /\ lastKey' = lastKey + 1
          /\ CreateEmk(lastKey + 1)
       \/ status = "Ok" /\ Return("AlreadySetup") /\ UNCHANGED lastKey
       \/ status = "Fail" /\ Return("Storage") /\ UNCHANGED lastKey
  /\ UNCHANGED <<main, pending, mk, sealed, wasReset>>

-----------------------------------------------------------------------------
(* writeEmk(): stage and verify, recheck when creating, replace, unstage.  *)

\* Variant: goes on to main although staging failed.
StageUnchecked ==
  /\ pc = "stage"
  /\ \E ok \in Works("store") : pending' = IF ok THEN emk ELSE pending
  /\ Goto("replace")
  /\ UNCHANGED <<main, mk, lastKey, emk, sealed, wasReset>>

Stage ==
  /\ pc = "stage"
  /\ \E ok \in Works("store") :
       IF ok THEN pending' = emk /\ Goto("stage_verify")
             ELSE pc' = "abort" /\ res' = "Storage" /\ UNCHANGED <<op, pending>>
  /\ UNCHANGED <<main, mk, lastKey, emk, sealed, wasReset>>

StageVerify ==
  /\ pc = "stage_verify"
  /\ \E status \in Loads(pending) :
       IF status = "Ok" /\ pending = emk
       THEN Goto(IF op.name = "setup" THEN "recheck" ELSE "replace")
       ELSE pc' = "abort" /\ res' = "Storage" /\ UNCHANGED op
  /\ UNCHANGED <<main, pending, mk, lastKey, emk, sealed, wasReset>>

\* Variant: relies on what state() saw.
RecheckSkipped ==
  /\ pc = "recheck"
  /\ Goto("replace")
  /\ UNCHANGED <<main, pending, mk, lastKey, emk, sealed, wasReset>>

\* createOnly: the main key must still be absent just before it is written.
Recheck ==
  /\ pc = "recheck"
  /\ \E status \in Loads(main) :
       IF status = "NotFound"
       THEN Goto("replace")
       ELSE /\ pc' = "abort"
            /\ res' = IF status = "Ok" THEN "AlreadySetup" ELSE "Storage"
            /\ UNCHANGED op
  /\ UNCHANGED <<main, pending, mk, lastKey, emk, sealed, wasReset>>

\* Variant: removes the wrong one of the two keys.
AbortMain ==
  /\ pc = "abort"
  /\ \E ok \in Works("remove") : main' = IF ok THEN NoEmk ELSE main
  /\ Return(res)
  /\ UNCHANGED <<pending, mk, lastKey, sealed, wasReset>>

\* Gives the staged EMK up; the result of the removal is ignored.
Abort ==
  /\ pc = "abort"
  /\ \E ok \in Works("remove") : pending' = IF ok THEN NoEmk ELSE pending
  /\ Return(res)
  /\ UNCHANGED <<main, mk, lastKey, sealed, wasReset>>

\* Variant: does not look at the result of the replacement.
ReplaceUnchecked ==
  /\ pc = "replace"
  /\ \E ok \in Works("store") : main' = IF ok THEN emk ELSE main
  /\ Goto("unstage")
  /\ UNCHANGED <<pending, mk, lastKey, emk, sealed, wasReset>>

\* A failure leaves the staged EMK behind for openEmk.
Replace ==
  /\ pc = "replace"
  /\ \E ok \in Works("store") :
       IF ok THEN main' = emk /\ Goto("replace_verify") /\ UNCHANGED emk
             ELSE Return("Storage") /\ UNCHANGED main
  /\ UNCHANGED <<pending, mk, lastKey, sealed, wasReset>>

ReplaceVerify ==
  /\ pc = "replace_verify"
  /\ \E status \in Loads(main) :
       IF status = "Ok" /\ main = emk
       THEN Goto("unstage") /\ UNCHANGED emk
       ELSE Return("Storage")
  /\ UNCHANGED <<main, pending, mk, lastKey, sealed, wasReset>>

\* The removal's result is ignored; setup and reset then take the new key.
Unstage ==
  /\ pc = "unstage"
  /\ \E ok \in Works("remove") : pending' = IF ok THEN NoEmk ELSE pending
  /\ mk' = IF op.name = "changePin" THEN mk ELSE emk.mk
  /\ Return("None")
  /\ IF op.name = "reset" THEN wasReset' = FALSE /\ sealed' = {}
                          ELSE UNCHANGED <<wasReset, sealed>>
  /\ UNCHANGED <<main, lastKey>>

-----------------------------------------------------------------------------
(* unlock(), changePin() and the openEmk() they share.                     *)

Unlock(p) ==
  /\ Call("unlock", p, NoPin, "open_main")
  /\ UNCHANGED <<main, pending, mk, lastKey, sealed, wasReset>>

ChangePin(old, new) ==
  /\ mk # NoKey
  /\ Call("changePin", old, new, "open_main")
  /\ UNCHANGED <<main, pending, mk, lastKey, sealed, wasReset>>

ChangePinLocked ==
  /\ pc = "idle"
  /\ mk = NoKey
  /\ Return("Locked")
  /\ UNCHANGED <<main, pending, mk, lastKey, sealed, wasReset>>

\* openEmk has returned the key k: unlock keeps it in memory, changePin wraps
\* it under the new PIN unless it is not the key in memory.
Opened(k) ==
  \/ op.name = "unlock" /\ mk' = k /\ Return("None")
  \/ op.name = "changePin" /\ k # mk /\ Return("Corrupted") /\ UNCHANGED mk
  \/ op.name = "changePin" /\ k = mk /\ CreateEmk(k) /\ UNCHANGED mk

OpenMain ==
  /\ pc = "open_main"
  /\ \E status \in Loads(main), derived \in Works("derive") :
       IF status = "Fail" THEN Return("Storage")
       ELSE IF main \in Emk /\ ~derived THEN Return("Other")
       ELSE /\ Goto(IF Opens(main, op.pin) THEN "clean" ELSE "open_pending")
            /\ UNCHANGED emk
  /\ UNCHANGED <<main, pending, mk, lastKey, sealed, wasReset>>

\* Only when there is no main EMK does an error on pending reach the caller.
OpenPending ==
  /\ pc = "open_pending"
  /\ \E status \in Loads(pending), derived \in Works("derive") :
       \/ /\ status = "NotFound"
          /\ Return(MainError)
       \/ /\ status = "Fail"
          /\ Return(IF main = NoEmk THEN "Storage" ELSE MainError)
       \/ /\ status = "Ok"
          /\ pending \in Emk => (derived => ~Opens(pending, op.pin))
          /\ Return(IF main # NoEmk THEN MainError
                    ELSE IF pending \in Emk /\ ~derived THEN "Other"
                    ELSE ParseError(pending))
       \/ /\ status = "Ok" /\ derived /\ Opens(pending, op.pin)
          /\ emk' = pending
          /\ Goto("promote")
  /\ UNCHANGED <<main, pending, mk, lastKey, sealed, wasReset>>

\* Promotion: a failure leaves pending for the next attempt, and the call
\* goes on with the key all the same.
Promote ==
  /\ pc = "promote"
  /\ \E ok \in Works("store") :
       IF ok THEN main' = emk /\ Goto("promote_verify") /\ UNCHANGED <<mk, emk>>
             ELSE Opened(emk.mk) /\ UNCHANGED main
  /\ UNCHANGED <<pending, lastKey, sealed, wasReset>>

PromoteVerify ==
  /\ pc = "promote_verify"
  /\ \E status \in Loads(main) :
       IF status = "Ok" /\ main = emk
       THEN Goto("clean") /\ UNCHANGED <<mk, emk>>
       ELSE Opened(emk.mk)
  /\ UNCHANGED <<main, pending, lastKey, sealed, wasReset>>

\* main opened or was just promoted: what is left under pending is stale.
Clean ==
  /\ pc = "clean"
  /\ \E ok \in Works("remove") : pending' = IF ok THEN NoEmk ELSE pending
  /\ Opened(main.mk)
  /\ UNCHANGED <<main, lastKey, sealed, wasReset>>

-----------------------------------------------------------------------------
(* reset(), destroy(), lock() and the use of the key.                      *)

Reset(p) ==
  /\ pc = "idle"
  /\ lastKey < MaxKey
  /\ lastKey' = lastKey + 1
  /\ wasReset' = TRUE
  /\ \/ /\ op' = [name |-> "reset", pin |-> NoPin, new |-> p]
        /\ emk' = [mk |-> lastKey + 1, pin |-> p]
        /\ pc' = "stage" /\ UNCHANGED res
     \/ "derive" \in Faults /\ Return("Other")
  /\ UNCHANGED <<main, pending, mk, sealed>>

Destroy ==
  /\ Call("destroy", NoPin, NoPin, "destroy_pending")
  /\ mk' = NoKey
  /\ sealed' = {}
  /\ UNCHANGED <<main, pending, lastKey, wasReset>>

\* Variant: goes on although the staged EMK could not be removed.
DestroyPendingUnchecked ==
  /\ pc = "destroy_pending"
  /\ \E ok \in Works("remove") : pending' = IF ok THEN NoEmk ELSE pending
  /\ Goto("destroy_main")
  /\ UNCHANGED <<main, mk, lastKey, emk, sealed, wasReset>>

\* The staged EMK goes first, so that it cannot come back without main.
DestroyPending ==
  /\ pc = "destroy_pending"
  /\ \E ok \in Works("remove") :
       IF ok THEN pending' = NoEmk /\ Goto("destroy_main") /\ UNCHANGED emk
             ELSE Return("Storage") /\ UNCHANGED pending
  /\ UNCHANGED <<main, mk, lastKey, sealed, wasReset>>

DestroyMain ==
  /\ pc = "destroy_main"
  /\ \E ok \in Works("remove") :
       IF ok THEN main' = NoEmk /\ wasReset' = FALSE /\ Return("None")
             ELSE UNCHANGED <<main, wasReset>> /\ Return("Storage")
  /\ UNCHANGED <<pending, mk, lastKey, sealed>>

Lock ==
  /\ pc = "idle"
  /\ mk # NoKey
  /\ mk' = NoKey
  /\ UNCHANGED <<main, pending, lastKey, op, pc, emk, res, sealed, wasReset>>

\* encryptBytes: from now on some ciphertext needs the key in memory.
Encrypt ==
  /\ pc = "idle"
  /\ mk # NoKey
  /\ sealed' = sealed \cup {mk}
  /\ UNCHANGED <<main, pending, mk, lastKey, op, pc, emk, res, wasReset>>

-----------------------------------------------------------------------------
(* The environment. *)

\* The process dies and is started again: only the backend survives.
Crash ==
  /\ "crash" \in Faults
  /\ Return("None")
  /\ mk' = NoKey
  /\ UNCHANGED <<main, pending, lastKey, sealed, wasReset>>

\* A stored record is damaged while no call runs.
Rot ==
  /\ "rot" \in Faults
  /\ pc = "idle"
  /\ \/ main # NoEmk /\ main' = Garbage /\ UNCHANGED pending
     \/ pending # NoEmk /\ pending' = Garbage /\ UNCHANGED main
  /\ UNCHANGED <<mk, lastKey, op, pc, emk, res, sealed, wasReset>>

CallStep ==
  \/ StateMain \/ StatePending
  \/ Stage \/ StageVerify \/ Recheck \/ Abort
  \/ Replace \/ ReplaceVerify \/ Unstage
  \/ OpenMain \/ OpenPending \/ Promote \/ PromoteVerify \/ Clean
  \/ DestroyPending \/ DestroyMain

UserStep ==
  \/ \E p \in Pins : Setup(p) \/ Unlock(p) \/ Reset(p)
  \/ \E old, new \in Pins : ChangePin(old, new)
  \/ SetupUnlocked \/ ChangePinLocked
  \/ Destroy \/ Lock \/ Encrypt

Next == CallStep \/ UserStep \/ Crash \/ Rot

Spec == Init /\ [][Next]_vars

-----------------------------------------------------------------------------
TypeOK ==
  /\ main \in Blobs /\ pending \in Blobs
  /\ mk \in 0..MaxKey /\ lastKey \in 0..MaxKey
  /\ op \in Ops
  /\ pc \in PCs
  /\ emk \in Emk \cup {NoEmk}
  /\ res \in Results
  /\ sealed \subseteq Keys
  /\ wasReset \in BOOLEAN


-----------------------------------------------------------------------------
(* The inductive invariant: where a call stands fixes what is stored. *)

Writing  == {"stage", "stage_verify", "abort", "recheck", "replace",
             "replace_verify", "unstage"}
Opening  == {"open_main", "open_pending", "promote", "promote_verify", "clean"}

\* Which call is at which step, and what its arguments are.
CallOK ==
  /\ pc = "idle" => op = NoOp
  /\ pc \in {"state_main", "state_pending", "recheck"} => op.name = "setup"
  /\ pc \in {"state_main", "state_pending"} => lastKey < MaxKey
  /\ pc \in Opening => op.name \in {"unlock", "changePin"} /\ op.pin \in Pins
  /\ pc \in Writing => op.name \in {"setup", "changePin", "reset"}
  /\ pc \in {"destroy_pending", "destroy_main"} => op.name = "destroy"
  /\ op.name \in {"setup", "changePin", "reset"} => op.new \in Pins
  /\ op.name = "changePin" => mk # NoKey
  /\ op.name \in {"setup", "destroy"} => mk = NoKey
  /\ op.name = "reset" => pc \in Writing /\ wasReset

\* What the local blob is, and what the two keys hold by then.
BlobOK ==
  /\ pc \in Writing => emk \in Emk /\ emk.pin = op.new
  /\ pc \in Writing /\ op.name = "changePin" => emk.mk = mk
  /\ pc \in {"recheck", "replace", "replace_verify", "unstage"} => pending = emk
  /\ pc = "replace" /\ op.name = "setup" => main = NoEmk
  /\ pc \in {"replace_verify", "unstage", "promote_verify"} => main = emk
  /\ pc \in {"promote", "promote_verify"} => pending = emk /\ Opens(emk, op.pin)
  /\ pc = "clean" => Opens(main, op.pin)
  /\ pc = "destroy_main" => pending = NoEmk
  /\ pc \notin Writing \cup {"promote", "promote_verify", "clean"} => emk = NoEmk

StepInv == TypeOK /\ CallOK /\ BlobOK

-----------------------------------------------------------------------------
(* Properties. *)

\* Write-ahead: main only ever takes what staging holds at that moment
\* (writeEmk verified it there, openEmk read it there), so that a crash at any
\* point leaves a whole EMK behind; otherwise main is only removed or damaged.
ReplacedOnlyByStaged ==
  [][main' # main => main' \in {pending, NoEmk, Garbage}]_vars

\* setup() never touches an EMK that exists, even one that state() did not see
\* (Vault.cpp:281 and Vault.h:110).
SetupKeepsMain ==
  [][op.name = "setup" /\ main # NoEmk => main' = main]_vars

\* main disappears only when nothing is staged: a destroyed EMK cannot come
\* back through the promotion of an old staging copy (Vault.cpp:502).
DestroyLeavesNoStaging ==
  [][main # NoEmk /\ main' = NoEmk => pending' = NoEmk]_vars

\* When a rewrite reports success no stored EMK, in main or left over under
\* pending by this or an earlier rewrite, opens with any PIN but the new one.
OldPinRevoked ==
  [][pc = "unstage" /\ pc' = "idle" /\ res' = "None" /\ mk' # NoKey
       => \A b \in {main', pending'} : b = NoEmk \/ Opens(b, op.new)]_vars

\* Unless a reset failed half-way, the EMKs of the backend, the one about to
\* be written and the key in memory are all of one master key: whichever PIN
\* opens whichever copy, the data decrypts.
OneMasterKey ==
  ~wasReset =>
    /\ \A a, b \in {main, pending, emk} \cap Emk : a.mk = b.mk
    /\ mk # NoKey => \A b \in {main, pending, emk} \cap Emk : b.mk = mk

\* Unless a reset failed half-way, every key that ever encrypted data the user
\* has not given up is still wrapped by an EMK in the backend, in every state:
\* after any crash and any failed removal, a PIN brings the data back.
SealedRecoverable ==
  ~wasReset => sealed \subseteq StoredKeys

\* What makes OneMasterKey and SealedRecoverable inductive.
KeyInv ==
  /\ StepInv
  /\ OneMasterKey
  /\ pc = "state_pending" => main = NoEmk

SealInv ==
  /\ op.name = "destroy" => sealed = {}
  /\ ~wasReset =>
       /\ sealed \subseteq StoredKeys
       /\ mk # NoKey => mk \in StoredKeys
       /\ pc \in Writing /\ op.name = "changePin" => main \in Emk
       /\ pc \in Writing /\ op.name = "setup" => sealed = {}

\* WrongPin is only reported for a PIN that opens neither copy (Vault.h:15
\* asks not to mistake a storage failure for a wrong PIN).
WrongPinIsTrue ==
  [][pc # "idle" /\ pc' = "idle" /\ res' = "WrongPin"
       => ~Opens(main, op.pin) /\ ~Opens(pending, op.pin)]_vars

\* A changePin() whose replacement of main failed leaves a vault that the old
\* PIN and the new one both open (Vault.h:58, Vault.h:149).
EitherPinOpens ==
  [][pc = "replace" /\ op.name = "changePin" /\ pc' = "idle" /\ res' = "Storage"
       => \A p \in {op.pin, op.new} :
            Opens(main', p) \/ Opens(pending', p)]_vars

\* reset() does not remove the existing EMK before the new one is written
\* (Vault.h:158, Vault.cpp:483): no step of it leaves the backend without any.
ResetKeepsAnEmk ==
  [][op.name = "reset" /\ StoredKeys # {} => StoredKeys' # {}]_vars

\* The vault implements what it promises: PINs and keys only change in the
\* steps of VaultPromise, whatever staging goes on and wherever it is cut off.
Promise == INSTANCE VaultPromise WITH
  opens   <- [p \in Pins |-> IF Opens(main, p) THEN main.mk
                             ELSE IF Opens(pending, p) THEN pending.mk
                             ELSE NoKey],
  held    <- mk,
  consent <- {c \in {"setup", "reset", "destroy"} :
                CASE c = "setup"   -> main = NoEmk
                  [] c = "reset"   -> wasReset
                  [] c = "destroy" -> op.name = "destroy"}
PromiseKept == Promise!Spec

=============================================================================
