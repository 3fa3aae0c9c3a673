------------------------------- MODULE Events -------------------------------
(***************************************************************************)
(* Reading the events of the two chains (provider/host/parse.go,           *)
(* provider/child/parse.go).  The attributes of an event are a sequence of *)
(* pairs <<key, value>>.  The text of a number is that number, negative    *)
(* for a text that is no number.  Hexadecimal data, truth values and coin  *)
(* amounts are texts, Garbled when they cannot be read.                    *)
(***************************************************************************)
EXTENDS Integers, Sequences, SequencesExt, TLC

Garbled == "garbled"

Readable(kind, value) ==
  CASE kind = "text" -> TRUE
    [] kind = "uint" -> value >= 0
    [] kind = "chain" -> value \in {"INITIA", "CELESTIA"}
    [] OTHER -> value # Garbled

(* Mutant: an unknown attribute ends the reading.                          *)
ParseAttrsStrict(attrs, kinds) ==
  LET Read(r, a) ==
        IF ~r.ok THEN r
        ELSE IF a[1] \notin DOMAIN kinds THEN [r EXCEPT !.ok = FALSE]
        ELSE [r EXCEPT !.val = (a[1] :> a[2]) @@ @]
      r == FoldLeft(Read, [ok |-> TRUE, val |-> <<>>], attrs)
  IN  [r EXCEPT !.ok = @ /\ DOMAIN r.val = DOMAIN kinds]

(* Unknown attributes are passed over, the last of a repeated attribute    *)
(* counts, the first unreadable value ends the reading, and no attribute   *)
(* may be missing.                                                         *)
ParseAttrs(attrs, kinds) ==
  LET Read(r, a) ==
        IF ~r.ok \/ a[1] \notin DOMAIN kinds THEN r
        ELSE IF ~Readable(kinds[a[1]], a[2]) THEN [r EXCEPT !.ok = FALSE]
        ELSE [r EXCEPT !.val = (a[1] :> a[2]) @@ @]
      r == FoldLeft(Read, [ok |-> TRUE, val |-> <<>>], attrs)
  IN  [r EXCEPT !.ok = @ /\ DOMAIN r.val = DOMAIN kinds]

-----------------------------------------------------------------------------
(* Events of L1.                                                           *)

ParseMsgRecordBatch(attrs) == ParseAttrs(attrs, [submitter |-> "text"])

ParseMsgUpdateBatchInfo(attrs) ==
  ParseAttrs(attrs, [bridge_id |-> "uint", batch_chain_type |-> "chain", batch_submitter |-> "text",
                     finalized_output_index |-> "uint", finalized_l2_block_number |-> "uint"])

ParseMsgInitiateDeposit(attrs) ==
  ParseAttrs(attrs, [bridge_id |-> "uint", l1_sequence |-> "uint", from |-> "text", to |-> "text",
                     l1_denom |-> "text", l2_denom |-> "text", amount |-> "text", data |-> "hex"])

ParseMsgProposeOutput(attrs) ==
  ParseAttrs(attrs, [bridge_id |-> "uint", l2_block_number |-> "uint", output_index |-> "uint",
                     proposer |-> "text", output_root |-> "hex"])

ParseMsgFinalizeWithdrawal(attrs) ==
  ParseAttrs(attrs, [bridge_id |-> "uint", output_index |-> "uint", l2_sequence |-> "uint",
                     from |-> "text", to |-> "text", l1_denom |-> "text", l2_denom |-> "text",
                     amount |-> "text"])

ParseMsgUpdateOracleConfig(attrs) ==
  ParseAttrs(attrs, [bridge_id |-> "uint", oracle_enabled |-> "bool"])

ParseMsgUpdateProposer(attrs) ==
  ParseAttrs(attrs, [bridge_id |-> "uint", proposer |-> "text",
                     finalized_output_index |-> "uint", finalized_l2_block_number |-> "uint"])

ParseMsgUpdateChallenger(attrs) ==
  ParseAttrs(attrs, [bridge_id |-> "uint", challenger |-> "text",
                     finalized_output_index |-> "uint", finalized_l2_block_number |-> "uint"])

-----------------------------------------------------------------------------
(* Events of L2.                                                           *)

ParseFinalizeDeposit(attrs) ==
  ParseAttrs(attrs, [finalize_height |-> "uint", l1_sequence |-> "uint", sender |-> "text",
                     recipient |-> "text", denom |-> "text", base_denom |-> "text",
                     amount |-> "coin"])

ParseUpdateOracle(attrs) ==
  ParseAttrs(attrs, [height |-> "uint", from |-> "text"])

ParseInitiateWithdrawal(attrs) ==
  ParseAttrs(attrs, [l2_sequence |-> "uint", from |-> "text", to |-> "text", denom |-> "text",
                     base_denom |-> "text", amount |-> "coin"])
=============================================================================
