---------------------------- MODULE VaultPromise ----------------------------
(***************************************************************************)
(* What the vault promises its user, without storage or staging            *)
(* (the class comments of localvault/src/vault/Vault.h): which master key  *)
(* each PIN unlocks, and which key is in memory.                           *)
(*                                                                         *)
(* The PINs may change while the keys stay.  Only a user who asked for a   *)
(* reset can lose a key, and then some PIN works all the time; only a user *)
(* who asked for the destruction, or whose vault was never set up to the   *)
(* end, can be left without a PIN that works.                              *)
(***************************************************************************)
EXTENDS Naturals

CONSTANTS Pins, MaxKey

VARIABLES
  opens,   \* the master key each PIN unlocks, 0 for a PIN that is refused
  held,    \* the master key in memory, 0 while locked
  consent  \* what is at stake: a subset of {"setup", "reset", "destroy"}

vars == <<opens, held, consent>>

Working(f) == {f[p] : p \in Pins} \ {0}

Init == opens = [p \in Pins |-> 0] /\ held = 0 /\ consent = {"setup"}

\* The user calls reset() or destroy(), which locks at once.
Agree ==
  /\ consent \subseteq consent'
  /\ held' = IF "destroy" \in consent' THEN 0 ELSE held
  /\ UNCHANGED opens

\* The setup or a reset is complete, or a destruction was given up.
Settle ==
  /\ consent' \subseteq consent
  /\ held' \in {held} \cup Working(opens)
  /\ UNCHANGED opens

\* setup(): the first key, under one PIN.
Create ==
  /\ Working(opens) = {} /\ held = 0
  /\ \E p \in Pins, k \in 1..MaxKey :
       opens' = [q \in Pins |-> IF q = p THEN k ELSE 0]
  /\ UNCHANGED <<held, consent>>

\* changePin(), or the repair of an interrupted one: other PINs, same keys.
Rewrap ==
  /\ opens' \in [Pins -> 0..MaxKey]
  /\ Working(opens') = Working(opens)
  /\ held' \in {held} \cup Working(opens)
  /\ UNCHANGED consent

\* reset(), or the PIN that decides an interrupted one: keys may be given up
\* and one may be new, but some PIN works all the time.
Supersede ==
  /\ "reset" \in consent
  /\ opens' \in [Pins -> 0..MaxKey]
  /\ Working(opens') # {}
  /\ \E k \in (1..MaxKey) \ {held} : Working(opens') \subseteq Working(opens) \cup {k}
  /\ held' \in {held} \cup Working(opens')
  /\ consent' \subseteq consent

\* unlock(), and the key that setup() leaves in memory; lock().
Hold    == held' \in Working(opens) /\ UNCHANGED <<opens, consent>>
Release == held' = 0 /\ consent' \subseteq consent /\ UNCHANGED opens

\* destroy() has locked the vault before it removes anything; a setup() or
\* reset() that fails before there is a vault takes its PIN back.
Destroy ==
  /\ consent \cap {"setup", "destroy"} # {} /\ held = 0
  /\ \E gone \in SUBSET Pins :
       opens' = [p \in Pins |-> IF p \in gone THEN 0 ELSE opens[p]]
  /\ consent' \subseteq consent \cup {"setup"}
  /\ UNCHANGED held

Next ==
  \/ Agree \/ Settle \/ Create \/ Rewrap \/ Supersede
  \/ Hold \/ Release \/ Destroy

Spec == Init /\ [][Next]_vars
=============================================================================
