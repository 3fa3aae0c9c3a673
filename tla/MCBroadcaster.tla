--------------------------- MODULE MCBroadcaster ---------------------------
(***************************************************************************)
(* Instances of Broadcaster for TLC: a node with one account that sends    *)
(* two saved messages, and the executor's child node, whose second account *)
(* sends unsaved oracle updates.                                           *)
(***************************************************************************)
EXTENDS Broadcaster, TLC

CONSTANTS m1, m2, o1, base, oracle

OneAccount == m1 :> base @@ m2 :> base
TwoAccounts == m1 :> base @@ m2 :> base @@ o1 :> oracle
TwoAccountsOneDeposit == m1 :> base @@ o1 :> oracle

(* The accounts of a node have sequences of their own.                     *)
BaseOnlyAt5 == base :> 5
BaseAt5 == base :> 5 @@ oracle :> 1
OracleAt5 == base :> 1 @@ oracle :> 5
=============================================================================
