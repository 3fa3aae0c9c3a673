------------------------------- MODULE Outbox -------------------------------
(***************************************************************************)
(* What a broadcaster promises to the handlers that give it messages: an   *)
(* accepted message stays in durable storage until the chain has executed  *)
(* it, the chain executes nothing that is not in storage, and a message    *)
(* that was executed and dropped from storage never comes back.            *)
(***************************************************************************)
CONSTANT Msgs

VARIABLES
  outbox,     \* messages the database holds
  delivered   \* messages the chain has executed

vars == <<outbox, delivered>>

Init == outbox = {} /\ delivered = {}

Accept(S) ==
  /\ S \cap delivered = {}
  /\ outbox' = outbox \cup S
  /\ UNCHANGED delivered

Deliver(m) ==
  /\ m \in outbox \ delivered
  /\ delivered' = delivered \cup {m}
  /\ UNCHANGED outbox

Forget(S) ==
  /\ S \subseteq delivered
  /\ outbox' = outbox \ S
  /\ UNCHANGED delivered

Next ==
  \/ \E S \in SUBSET Msgs : Accept(S) \/ Forget(S)
  \/ \E m \in Msgs : Deliver(m)

Spec == Init /\ [][Next]_vars
=============================================================================
