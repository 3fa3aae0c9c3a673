---------------------------- MODULE MCChallenger ----------------------------
(***************************************************************************)
(* Instances of Challenger for TLC.  L1 blocks have even times and L2      *)
(* blocks odd ones; an output is proposed after the L2 blocks it covers.   *)
(***************************************************************************)
EXTENDS Challenger, TLC

CONSTANTS good, bad

Block(t, e) == [time |-> t, events |-> e]
D(n) == <<"Deposit", n>>
O(n) == <<"Output", n>>
P(n) == <<"Oracle", n>>
R(n) == <<"OracleRelay", n>>

(* Deposit 1 is finalized after its time, and no second output follows the *)
(* first in time.                                                          *)
Late(v, r) ==
  [l1 |-> <<Block(2, D(1) :> good), Block(4, O(1) :> <<1, r>>),
            Block(8, Empty), Block(10, O(2) :> <<3, good>>)>>,
   l2 |-> <<Block(1, Empty), Block(5, Empty), Block(7, D(1) :> v)>>]

(* Two deposits, finalized in time.                                        *)
Punctual(v, r) ==
  [l1 |-> <<Block(2, D(1) :> good), Block(4, O(1) :> <<2, good>>),
            Block(6, D(2) :> good), Block(8, O(2) :> <<3, r>>)>>,
   l2 |-> <<Block(1, Empty), Block(3, D(1) :> v), Block(7, D(2) :> good)>>]

(* Oracle updates and a relay, one of which L2 leaves out, and two outputs   *)
(* in one block.                                                           *)
Prices(v) ==
  [l1 |-> <<Block(2, P(1) :> good), Block(4, P(2) :> good @@ R(1) :> good),
            Block(8, P(3) :> good @@ O(1) :> <<2, good>> @@ O(2) :> <<3, bad>>)>>,
   l2 |-> <<Block(1, Empty), Block(5, P(2) :> v), Block(7, R(1) :> good)>>]

Scenarios ==
  {Late(v, r) : v \in {good, bad}, r \in {good, bad}} \cup
  {Punctual(v, good) : v \in {good, bad}} \cup {Prices(good), Prices(bad)}
PunctualOnly == {Punctual(good, good)}
LateOnly == {Late(bad, bad)}
=============================================================================
