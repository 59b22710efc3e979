------------------------------ MODULE OrgKeys -------------------------------
(***************************************************************************)
(* What the keystore promises the rest of the service: each organisation   *)
(* gets a key on first use, and every later request for that organisation  *)
(* is answered with that key, until an operator disturbs the keystore.     *)
(***************************************************************************)
EXTENDS Naturals

CONSTANTS Orgs, Keys, None

VARIABLES
  key,     \* the key of each organisation, None before its first use
  answers  \* the answers given since the keystore was last disturbed

vars == <<key, answers>>

Init ==
  /\ key = [o \in Orgs |-> None]
  /\ answers = {}

\* First use: a fresh key, one no organisation has, recorded and answered.
FirstUse(o) ==
  /\ key[o] = None
  /\ \E k \in Keys :
       /\ \A other \in Orgs : key[other] # k
       /\ key' = [key EXCEPT ![o] = k]
       /\ answers' = answers \cup {<<o, k>>}

\* Any later use.
Use(o) ==
  /\ key[o] # None
  /\ answers' = answers \cup {<<o, key[o]>>}
  /\ UNCHANGED key

\* An operator's hand in the keystore: the organisations it touches lose their
\* key or get back one of their own, and the promise starts over for them.
Disturb(S) ==
  /\ \A o \in Orgs \ S : key'[o] = key[o]
  /\ DOMAIN key' = Orgs
  /\ answers' = {a \in answers : a[1] \notin S}

Next ==
  \/ \E o \in Orgs : FirstUse(o) \/ Use(o)
  \/ \E S \in SUBSET Orgs : Disturb(S)

Spec == Init /\ [][Next]_vars
=============================================================================
