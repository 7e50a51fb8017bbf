---------------------------- MODULE CommitMessage ----------------------------
(***************************************************************************)
(* A commit message from a language model (GenerateCommitMessageDialog.cpp *)
(* and GenerateCommitMessageThread.cpp).                                   *)
(*                                                                         *)
(* The dialog stores what it asks for in the thread's members and wakes    *)
(* it; the thread reads them outside the mutex, some before and some after *)
(* it has talked to the model, and its answer is queued to the dialog.     *)
(* The thread waits without a look at requested_, and stop() sets its flag *)
(* without the mutex.                                                      *)
(***************************************************************************)
EXTENDS Naturals, Sequences

CONSTANT MaxAsked  \* bound: requests of one dialog

VARIABLES
  requested,    \* requested_
  fields,       \* the request diff_, status_s_u_, hint_ and ai_model_ belong to
  interrupted,  \* interrupted_
  gen,          \* where the thread is
  prompt,       \* the request whose diff the thread sent
  answers,      \* ready() signals queued to the dialog
  dialog,       \* where the dialog is
  enabled,      \* its regenerate button
  asked         \* how many requests were made

vars == <<requested, fields, interrupted, gen, prompt, answers, dialog, enabled, asked>>
user == <<dialog, enabled, asked>>

\* The thread holds the mutex at "check"; "wait" is inside cv_.wait.
GenPCs == {"top", "check", "wait", "woken", "read", "talk", "ended"}
DialogPCs == {"new", "shown", "stopping", "joining", "closed"}

\* The constructor of the dialog starts the thread.
Init ==
  /\ requested = FALSE /\ fields = 0 /\ interrupted = FALSE
  /\ gen = "top" /\ prompt = 0 /\ answers = <<>>
  /\ dialog = "new" /\ enabled = TRUE /\ asked = 0

NotifyAll == gen' = IF gen = "wait" THEN "woken" ELSE gen

-----------------------------------------------------------------------------
(* The thread *)

\* Variant: goes to wait without a look at the flag.
TopUnchecked ==
  /\ gen = "top"
  /\ gen' = "check"
  /\ UNCHANGED <<requested, fields, interrupted, prompt, answers, user>>

Top ==
  /\ gen = "top"
  /\ gen' = IF interrupted THEN "ended" ELSE "check"
  /\ UNCHANGED <<requested, fields, interrupted, prompt, answers, user>>

Sleep ==
  /\ gen = "check"
  /\ gen' = "wait"
  /\ UNCHANGED <<requested, fields, interrupted, prompt, answers, user>>

SpuriousWakeup ==
  /\ gen = "wait"
  /\ gen' = "woken"
  /\ UNCHANGED <<requested, fields, interrupted, prompt, answers, user>>

\* A thread that is told to end while it waits first serves the request it has.
Woken ==
  /\ gen = "woken"
  /\ gen' = IF requested THEN "read" ELSE "top"
  /\ requested' = FALSE
  /\ UNCHANGED <<fields, interrupted, prompt, answers, user>>

Read ==
  /\ gen = "read"
  /\ prompt' = fields
  /\ gen' = "talk"
  /\ UNCHANGED <<requested, fields, interrupted, answers, user>>

\* Variant: signals nothing when the model could not be asked.
ReplyIfAny ==
  /\ gen = "talk"
  /\ \/ answers' = Append(answers, [diff |-> prompt, model |-> fields])
     \/ UNCHANGED answers
  /\ gen' = "top"
  /\ UNCHANGED <<requested, fields, interrupted, prompt, user>>

\* The model has answered or failed; the answer is parsed as one of the model
\* that ai_model_ names now.
Reply ==
  /\ gen = "talk"
  /\ answers' = Append(answers, [diff |-> prompt, model |-> fields])
  /\ gen' = "top"
  /\ UNCHANGED <<requested, fields, interrupted, prompt, user>>

Thread == Top \/ Sleep \/ Woken \/ Read \/ Reply

-----------------------------------------------------------------------------
(* The dialog *)

\* Variant: the button is not disabled.
GenerateAgain ==
  /\ dialog \in {"new", "shown"} /\ asked < MaxAsked
  /\ gen # "check"
  /\ dialog' = "shown"
  /\ asked' = asked + 1 /\ fields' = asked' /\ requested' = TRUE
  /\ NotifyAll
  /\ UNCHANGED <<prompt, answers, enabled, interrupted>>

\* generate() disables the button.  The user may cancel at the vault's PIN:
\* the first time that ends the dialog, later the button stays disabled.
Generate ==
  /\ dialog \in {"new", "shown"} /\ enabled /\ asked < MaxAsked
  /\ gen # "check"
  /\ enabled' = FALSE
  /\ \/ /\ dialog' = "shown"
        /\ asked' = asked + 1 /\ fields' = asked' /\ requested' = TRUE
        /\ NotifyAll
        /\ UNCHANGED interrupted
     \/ /\ dialog' = IF dialog = "new" THEN "stopping" ELSE "shown"
        /\ interrupted' = (dialog = "new")
        /\ UNCHANGED <<requested, fields, gen, asked>>
  /\ UNCHANGED <<prompt, answers>>

OnReady ==
  /\ dialog = "shown" /\ answers # <<>>
  /\ answers' = Tail(answers)
  /\ enabled' = TRUE
  /\ UNCHANGED <<requested, fields, interrupted, gen, prompt, dialog, asked>>

\* stop() in the dialog's destructor: the flag, the notification, the join.
Stop ==
  /\ dialog = "shown" /\ dialog' = "stopping"
  /\ interrupted' = TRUE
  /\ UNCHANGED <<requested, fields, gen, prompt, answers, enabled, asked>>

StopNotify ==
  /\ dialog = "stopping" /\ dialog' = "joining"
  /\ NotifyAll
  /\ UNCHANGED <<requested, fields, interrupted, prompt, answers, enabled, asked>>

Join ==
  /\ dialog = "joining" /\ gen = "ended" /\ dialog' = "closed"
  /\ UNCHANGED <<requested, fields, interrupted, gen, prompt, answers, enabled, asked>>

Next == Thread \/ SpuriousWakeup \/ Generate \/ OnReady \/ Stop \/ StopNotify \/ Join

Spec == Init /\ [][Next]_vars

-----------------------------------------------------------------------------
\* Every variable has its type (class GenerateCommitMessageThread).
TypeOK ==
  /\ requested \in BOOLEAN /\ interrupted \in BOOLEAN /\ enabled \in BOOLEAN
  /\ fields \in 0..MaxAsked /\ prompt \in 0..MaxAsked /\ asked \in 0..MaxAsked
  /\ gen \in GenPCs /\ dialog \in DialogPCs
  /\ answers \in Seq([diff : 0..MaxAsked, model : 0..MaxAsked])

\* Although the thread reads its members outside the mutex, at two times, an
\* answer is of one request, and of the one the dialog waits for.
OneRequest ==
  \A k \in 1..Len(answers) : answers[k] = [diff |-> asked, model |-> asked]

\* A request that finds the thread waiting is answered, or the dialog is
\* closed.  (One that finds it on its way to the wait is not noticed.)
Answered == (requested /\ gen = "woken") ~> (enabled \/ dialog # "shown")

\* stop() returns, unless its notification fell between the thread's look at
\* the flag and its wait.
StopReturns == (dialog = "joining" /\ gen \notin {"check", "wait"}) ~> (dialog = "closed")
===============================================================================
