----------------------------- MODULE MCExecutor -----------------------------
(***************************************************************************)
(* Small instances of Executor.  A scenario is a configuration of the bot  *)
(* with what happens on the two chains: the transactions of the users of   *)
(* L1 in order, and the receivers of the withdrawals of each L2 block.     *)
(***************************************************************************)
EXTENDS Executor

Deposit(bridge, seq) ==
  [type |-> "initiate_token_deposit",
   attrs |-> << <<"bridge_id", bridge>>, <<"l1_sequence", seq>>, <<"from", "u">>, <<"to", "v">>,
                <<"l1_denom", "b">>, <<"l2_denom", "d">>, <<"amount", "5">>, <<"data", "00">> >>]
(* The same attributes in another order, one repeated and one unknown.     *)
Odd(e) ==
  [e EXCEPT !.attrs = << <<"l1_sequence", 9>>, <<"msg_index", "0">> >> \o Reverse(@)]

Update(type, key, value) ==
  [type |-> type,
   attrs |-> << <<"bridge_id", BridgeId>>, <<key, value>>, <<"batch_chain_type", "INITIA">>,
                <<"finalized_output_index", 1>>, <<"finalized_l2_block_number", 1>> >>]
Other(type, attrs) == [type |-> type, attrs |-> attrs]
Finalize ==
  Other("finalize_token_withdrawal",
        << <<"bridge_id", 1>>, <<"output_index", 1>>, <<"l2_sequence", 1>>, <<"from", "u">>,
           <<"to", "a">>, <<"l1_denom", "b">>, <<"l2_denom", "d">>, <<"amount", "1">> >>)
Prices == Other("prices", <<>>)

Max3(crashes, fails, resets) == [crashes |-> crashes, fails |-> fails, resets |-> resets]

Quiet ==
  [l1txs |-> <<>>, withdrawals |-> <<>>, L2StartHeight |-> 1, DisableAutoSetL1Height |-> FALSE,
   L1StartHeight |-> 1, DisableDeleteFutureWithdrawal |-> FALSE, mayDisable |-> FALSE,
   oracleRelay |-> FALSE, submitter |-> "s1", interval |-> 9, max |-> Max3(1, 1, 0),
   bridge |-> [proposer |-> "p1", challenger |-> "c1", batch_submitter |-> "s1",
               oracle_enabled |-> "false"]]

(* Deposits of two bridges, some in the same transaction.                  *)
DepositsOnly ==
  [Quiet EXCEPT !.l1txs = << <<Deposit(2, 1), Deposit(1, 1)>>,
                             <<Deposit(2, 2), Odd(Deposit(1, 2)), Deposit(1, 3)>> >>,
                !.max = Max3(1, 0, 1)]
(* Withdrawals, three of them in the tree of the second output.            *)
WithdrawalsOnly ==
  [Quiet EXCEPT !.withdrawals = << <<"a">>, <<"a", "b">>, <<"b">>, <<"a">> >>, !.interval = 1,
                !.max = Max3(1, 0, 1)]
(* A later start height, and a crash after the reset as well.              *)
LaterStart ==
  [Quiet EXCEPT !.withdrawals = << <<"a">>, <<"a", "b">>, <<"b">> >>, !.interval = 1,
                !.L2StartHeight = 3, !.max = Max3(2, 0, 1)]
(* The option not to delete is set before some start.                      *)
Option == [Quiet EXCEPT !.withdrawals = << <<"a">>, <<"a">>, <<"b">> >>, !.interval = 1,
                        !.L2StartHeight = 2, !.mayDisable = TRUE, !.max = Max3(1, 0, 1)]
Both == [Quiet EXCEPT !.l1txs = << <<Deposit(1, 1)>> >>, !.withdrawals = << <<"a">>, <<"b">> >>,
                      !.interval = 1]
Updates ==
  [Quiet EXCEPT !.l1txs = << <<Update("update_proposer", "proposer", "p2"), Finalize,
                               Update("update_challenger", "challenger", "c2")>>,
                             <<Other("record_batch", << <<"submitter", "s1">> >>),
                               Update("update_batch_info", "batch_submitter", "s2"),
                               Update("update_oracle", "oracle_enabled", "true")>> >>]
Relay ==
  [Quiet EXCEPT !.oracleRelay = TRUE, !.bridge.oracle_enabled = "true",
                !.l1txs = << <<Prices>>, <<Deposit(1, 1)>>, <<Prices>>, <<Prices>> >>,
                !.max = Max3(1, 0, 0)]
Legacy == [Relay EXCEPT !.oracleRelay = FALSE]

Scenarios == {DepositsOnly, WithdrawalsOnly, LaterStart, Option, Both, Updates, Relay, Legacy}
=============================================================================
