-------------------------- MODULE MCBatchSubmitter --------------------------
(***************************************************************************)
(* Instances of BatchSubmitter for TLC: four blocks whose transactions     *)
(* meet every case of the conversions, chunks of two items and batches of  *)
(* at most two chunks.                                                     *)
(***************************************************************************)
EXTENDS BatchSubmitter

CONSTANTS l1, l2, payload, s1, s2, s3

Oracle == [type |-> "UpdateOracle", data |-> payload]
Relay == [type |-> "RelayOracleData", data |-> payload]
Other == [type |-> "Other", data |-> payload]
Exec(ms) == [type |-> "Exec", msgs |-> ms]
Client(c, sigs) ==
  [type |-> "UpdateClient", chain |-> c, height |-> 1, vals |-> payload, sigs |-> sigs]
Tx(ms) == [known |-> TRUE, msgs |-> ms]
Unknown == [known |-> FALSE, msgs |-> <<Oracle>>]

FourBlocks == <<
  [time |-> 1, txs |-> <<Tx(<<Exec(<<Oracle>>)>>), Tx(<<Oracle>>), Unknown>>],
  [time |-> 3, txs |-> <<>>],
  [time |-> 4, txs |-> <<Tx(<<Client(l1, <<s2, Absent, s3>>), Exec(<<Relay>>), Relay, Oracle>>),
                         Tx(<<Client(l2, <<s1>>), Client(l1, <<s1, s2>>), Relay>>)>>],
  [time |-> 6, txs |-> <<Tx(<<Oracle>>), Tx(<<Exec(<<Oracle, Relay>>), Other>>)>>]>>
ThreeBlocks == SubSeq(FourBlocks, 1, 3)

(* Block 2 of L1 carries s1 at index 0 and s2 at index 3, beyond one byte. *)
Commits == <<<<>>, <<s1, Absent, s1, s2>>>>

First == [l2 |-> 0, chain |-> "INITIA", submitter |-> "own"]
Celestia == {[l2 |-> 1, chain |-> "CELESTIA", submitter |-> "new"],
             [l2 |-> 3, chain |-> "INITIA", submitter |-> "other"]}
GenesisFile == <<1, 2, 1>>
=============================================================================
