------------------------------ MODULE Executor ------------------------------
(***************************************************************************)
(* The executor bot (executor/): its host node reads L1 and sends deposits *)
(* and bridge updates to L2, its child node reads L2, keeps the trees of   *)
(* withdrawals and proposes their roots on L1, and the oracle relay sends  *)
(* the prices of L1.  What a node sends is saved, in the same commit as    *)
(* its synced height, as processed messages of the other node.  Here those *)
(* are queues that the chains execute in order, which is what Broadcaster  *)
(* is shown to provide (Outbox).  A reset empties the queues, but not the  *)
(* mempools: what was sent by then is in the pool of its chain, which the  *)
(* chain executes first.                                                   *)
(*                                                                         *)
(* A block of L1 is its time and its transactions, each a sequence of      *)
(* events; a block of L2 is a sequence of events, and its height is its    *)
(* time.  cfg is the configuration of the bot and of the bridge, with      *)
(* interval for two thirds of its submission interval, what the users of   *)
(* the two chains do, and in max the bounds on the faults.                 *)
(***************************************************************************)
EXTENDS Migrations, Events

CONSTANT Configs   \* the configurations to start from

ASSUME BoundsAssumption ==
  \A c \in Configs : c.max \in [crashes : Nat, fails : Nat, resets : Nat]

VARIABLES
  cfg,       \* the configuration
  l1, l2,    \* the two chains
  hostDB,    \* the host's part of the database
  childDB,   \* the child's part of the database
  pc,        \* where the main goroutine of the process is
  host,      \* memory of the host
  child,     \* memory of the child
  relay,     \* memory of the oracle relay
  start,     \* the start heights, while the process starts
  first,     \* history: the first L1 block committed since the last reset, and the
             \* first L2 block in the database; whether a start since then kept trees
             \* of blocks that the child reads again
  faults     \* the crashes, failed commits and resets so far

vars == <<cfg, l1, l2, hostDB, childDB, pc, host, child, relay, start, first, faults>>

BridgeId == 1

-----------------------------------------------------------------------------
(* The chains.                                                             *)

AttrOrder == <<"bridge_id", "l1_sequence", "l2_sequence", "output_index", "l2_block_number",
               "output_root", "proposer", "sender", "recipient", "from", "to", "denom",
               "base_denom", "amount", "finalize_height">>

Event(type, rec) ==
  LET keys == SelectSeq(AttrOrder, LAMBDA k : k \in DOMAIN rec)
  IN  [type |-> type, attrs |-> [i \in DOMAIN keys |-> <<keys[i], rec[keys[i]]>>]]

Has(e, key, value) == \E i \in DOMAIN e.attrs : e.attrs[i][1] = key /\ e.attrs[i][2] = value

EventsOf(type, events) == SelectSeq(events, LAMBDA e : e.type = type)
L2Events(height) == FlattenSeq(SubSeq(l2.blocks, 1, height))

QueryNextL1Sequence == 1 + Len(EventsOf("finalize_token_deposit", L2Events(Len(l2.blocks))))
QueryNextL2Sequence(height) == 1 + Len(EventsOf("initiate_token_withdrawal", L2Events(height)))

(* The first transaction with a deposit of that sequence, of any bridge,   *)
(* and a deposit of this bridge.                                           *)
QueryDepositTxHeight(seq) ==
  LET Deposit(tx, key, value) ==
        \E i \in DOMAIN tx : tx[i].type = "initiate_token_deposit" /\ Has(tx[i], key, value)
      found == {h \in DOMAIN l1.blocks : \E t \in DOMAIN l1.blocks[h].txs :
                  /\ Deposit(l1.blocks[h].txs[t], "l1_sequence", seq)
                  /\ Deposit(l1.blocks[h].txs[t], "bridge_id", BridgeId)}
  IN  IF seq = 0 \/ found = {} THEN 0 ELSE Min(found)

QueryCreateBridgeHeight ==
  Max({h \in DOMAIN l1.blocks : \E t \in DOMAIN l1.blocks[h].txs :
         \E i \in DOMAIN l1.blocks[h].txs[t] : l1.blocks[h].txs[t][i].type = "create_bridge"})

(* Index of the last output before an L2 block, 0 for none, by bisection.  *)
QueryOutputByL2BlockNumber(n) ==
  LET outs == l1.outputs
      search[s \in DOMAIN outs, e \in DOMAIN outs] ==
        LET mid == (s + e) \div 2
        IN  IF outs[s].l2 >= n THEN s - 1
            ELSE IF outs[e].l2 < n THEN e
            ELSE IF e - s <= 1 THEN s
            ELSE IF outs[mid].l2 <= n THEN search[mid, e]
            ELSE search[s, mid]
  IN  IF outs = <<>> THEN 0 ELSE search[1, Len(outs)]

(* A proposal with an old index is refused and dropped by the broadcaster; *)
(* of the others the chain takes the next index with a later L2 block.     *)
Old(p) == p.index <= Len(l1.outputs)
Takes(p) == p.index = Len(l1.outputs) + 1 /\ \A i \in DOMAIN l1.outputs : l1.outputs[i].l2 < p.l2

OutputEvent(p) ==
  Event("propose_output", [bridge_id |-> BridgeId, output_index |-> p.index,
                           l2_block_number |-> p.l2, output_root |-> "root", proposer |-> "p"])

(* What an update event of this bridge does to its configuration on L1.    *)
ConfigKey(type) ==
  CASE type = "update_proposer" -> "proposer"
    [] type = "update_challenger" -> "challenger"
    [] type = "update_batch_info" -> "batch_submitter"
    [] OTHER -> "oracle_enabled"
UpdateTypes == {"update_proposer", "update_challenger", "update_batch_info", "update_oracle"}
IsUpdate(e) == e.type \in UpdateTypes /\ Has(e, "bridge_id", BridgeId)
Value(e, key) == LET i == Max({j \in DOMAIN e.attrs : e.attrs[j][1] = key}) IN e.attrs[i][2]
Updated(config, events) ==
  FoldLeft(LAMBDA c, e : IF IsUpdate(e) THEN [c EXCEPT ![ConfigKey(e.type)] = Value(e, ConfigKey(e.type))]
                         ELSE c, config, events)

NextL1Block(tx) == Append(l1.blocks, [time |-> Len(l2.blocks), txs |-> <<tx>>])

(* The next transaction of the users of L1.                                *)
L1Tx ==
  LET tx == cfg.l1txs[l1.next]
  IN  /\ l1.next <= Len(cfg.l1txs)
      /\ l1' = [l1 EXCEPT !.blocks = NextL1Block(tx), !.next = @ + 1, !.config = Updated(@, tx)]
      /\ UNCHANGED <<cfg, l2, hostDB, childDB, pc, host, child, relay, start, first, faults>>

(* late is history: the child has passed the block and did not end the     *)
(* tree there.                                                             *)
Late(p) ==
  /\ childDB.synced >= p.l2
  /\ ~ /\ p.l2 \in DOMAIN childDB.working
       /\ childDB.working[p.l2].done /\ childDB.working[p.l2].index = p.index
WithOutput(p) ==
  IF ~Takes(p) THEN l1
  ELSE [l1 EXCEPT !.blocks = NextL1Block(<<OutputEvent(p)>>),
                  !.outputs = Append(@, [l1 |-> Len(l1.blocks) + 1, l2 |-> p.l2, root |-> p.root,
                                         time |-> Len(l2.blocks), late |-> Late(p)])]

L1Output ==
  LET p == Head(hostDB.msgs)
  IN  /\ l1.pool = <<>> /\ hostDB.msgs # <<>> /\ (Takes(p) \/ Old(p))
      /\ l1' = WithOutput(p)
      /\ hostDB' = [hostDB EXCEPT !.msgs = Tail(@)]
      /\ UNCHANGED <<cfg, l2, childDB, pc, host, child, relay, start, first, faults>>

(* What was sent before a reset; a proposal that L1 refuses is gone.       *)
L1Pool ==
  /\ l1.pool # <<>>
  /\ l1' = [WithOutput(Head(l1.pool)) EXCEPT !.pool = Tail(@)]
  /\ UNCHANGED <<cfg, l2, hostDB, childDB, pc, host, child, relay, start, first, faults>>

(* L2 finalizes the next deposit, does nothing for an older one and fails  *)
(* for a later one.  A block has at most one message of the bot.           *)
Fails(m) == m.type = "deposit" /\ m.seq > QueryNextL1Sequence
Executed(m) ==
  IF m.type = "info" \/ m.seq # QueryNextL1Sequence THEN <<>>
  ELSE <<Event("finalize_token_deposit",
               [l1_sequence |-> m.seq, finalize_height |-> m.height, sender |-> m.from,
                recipient |-> m.to, denom |-> "d", base_denom |-> "b", amount |-> m.amount])>>

Withdrawals(height) ==
  LET seq == QueryNextL2Sequence(height - 1)
      tos == cfg.withdrawals[height]
  IN  IF height \notin DOMAIN cfg.withdrawals THEN <<>>
      ELSE [i \in DOMAIN tos |->
             Event("initiate_token_withdrawal",
                   [l2_sequence |-> seq + i - 1, from |-> "u", to |-> tos[i], denom |-> "d",
                    base_denom |-> "b", amount |-> "1"])]

L2Block ==
  LET height == Len(l2.blocks) + 1
  IN  /\ height \in DOMAIN cfg.withdrawals
      /\ l2' = [l2 EXCEPT !.blocks = Append(@, Withdrawals(height))]
      /\ UNCHANGED <<cfg, l1, hostDB, childDB, pc, host, child, relay, start, first, faults>>

WithMsg(m) ==
  [l2 EXCEPT !.blocks = Append(@, Executed(m) \o Withdrawals(Len(l2.blocks) + 1)),
             !.info = IF m.type = "info" THEN m.config ELSE @]

L2Msg ==
  LET m == Head(childDB.msgs)
  IN  /\ l2.pool = <<>> /\ childDB.msgs # <<>> /\ ~Fails(m)
      /\ l2' = WithMsg(m)
      /\ childDB' = [childDB EXCEPT !.msgs = Tail(@)]
      /\ UNCHANGED <<cfg, l1, hostDB, pc, host, child, relay, start, first, faults>>

L2Pool ==
  /\ l2.pool # <<>>
  /\ l2' = [WithMsg(Head(l2.pool)) EXCEPT !.pool = Tail(@)]
  /\ UNCHANGED <<cfg, l1, hostDB, childDB, pc, host, child, relay, start, first, faults>>

-----------------------------------------------------------------------------
(* Starting the process.                                                   *)

NoConfig == [proposer |-> "", challenger |-> "", batch_submitter |-> "", oracle_enabled |-> ""]
NoHost == [height |-> 0, initial |-> 0, config |-> NoConfig,
           status |-> [output |-> 0, batch |-> 0]]
NoInit == [height |-> 0, index |-> 0, seq |-> 0]
NoChild == [height |-> 0, latest |-> 0, finalizing |-> 0, next |-> 0, init |-> NoInit,
            deposit |-> 0]
NoRelay == [last |-> 0, target |-> 0, sent |-> 0]
NoStart == [l1 |-> 0, l2 |-> 0, index |-> 0]

NewNode(db) == db.synced
InitializeNode(synced, processed) == IF synced = 0 THEN processed ELSE synced

(* NewNode loads the synced heights, Initialize asks for the configuration *)
(* of the bridge and getNodeStartHeights for the last output before the    *)
(* configured L2 height.                                                   *)
StartOutput ==
  /\ pc = "down"
  /\ pc' = "heights"
  /\ host' = [NoHost EXCEPT !.height = NewNode(hostDB), !.config = l1.config]
  /\ child' = [NoChild EXCEPT !.height = NewNode(childDB)]
  /\ start' = LET i == QueryOutputByL2BlockNumber(cfg.L2StartHeight)
              IN  IF hostDB.synced # 0 /\ childDB.synced # 0 THEN NoStart
                  ELSE IF i = 0 THEN [l1 |-> 0, l2 |-> 1, index |-> 1]
                  ELSE [l1 |-> l1.outputs[i].l1, l2 |-> l1.outputs[i].l2 + 1, index |-> i + 1]
  /\ UNCHANGED <<cfg, l1, l2, hostDB, childDB, relay, first, faults>>

(* Mutant: the creation of the bridge is not asked for.                    *)
L1StartHeightNoBridge(outputL1) ==
  LET found == QueryDepositTxHeight(QueryNextL1Sequence)
  IN  IF outputL1 # 0 /\ outputL1 + 1 < found THEN outputL1 + 1 ELSE found

(* The L1 height to start from, given the L1 height of the output.         *)
L1StartHeight(outputL1) ==
  LET next == QueryNextL1Sequence
      found == QueryDepositTxHeight(next)
      deposit == IF found = 0 /\ next > 1 THEN QueryDepositTxHeight(next - 1) ELSE found
      height == IF outputL1 # 0 /\ outputL1 + 1 < deposit THEN outputL1 + 1 ELSE deposit
  IN  IF cfg.DisableAutoSetL1Height THEN cfg.L1StartHeight
      ELSE IF height = 0 THEN QueryCreateBridgeHeight
      ELSE height

StartHeights ==
  /\ pc = "heights"
  /\ pc' = "host"
  /\ start' = [start EXCEPT !.l1 = IF host.height = 0 THEN L1StartHeight(@) ELSE 0]
  /\ UNCHANGED <<cfg, l1, l2, hostDB, childDB, host, child, relay, first, faults>>

InitializeHost ==
  /\ pc = "host"
  /\ pc' = "child"
  /\ host' = [host EXCEPT !.height = InitializeNode(@, start.l1 - 1),
                          !.initial = QueryNextL1Sequence,
                          !.status = hostDB.status]
  /\ UNCHANGED <<cfg, l1, l2, hostDB, childDB, child, relay, start, first, faults>>

(* A child without a synced height forgets what it has of later blocks and *)
(* gets a tree to begin with; with DisableDeleteFutureWithdrawal it keeps  *)
(* withdrawals and finalized trees, and needs the tree of the height it    *)
(* goes back to.                                                           *)
InitializeChild ==
  /\ pc = "child"
  /\ pc' = "withdrawals"
  /\ LET processed == start.l2 - 1
         keeps == cfg.DisableDeleteFutureWithdrawal
         seq == IF processed = 0 THEN 1 ELSE QueryNextL2Sequence(processed)
     IN  IF child.height # 0 THEN UNCHANGED <<child, childDB>>
         ELSE /\ child' = [child EXCEPT !.height = InitializeNode(@, processed),
                             !.init = IF keeps THEN NoInit
                                      ELSE [height |-> processed, index |-> start.index, seq |-> seq]]
              /\ childDB' = [childDB EXCEPT
                   !.finalized = IF keeps \/ processed = 0 THEN @
                                 ELSE DeleteFutureFinalizedTrees(@, seq),
                   !.working = DeleteFutureWorkingTrees(@, processed + 1),
                   !.nodes = DeleteFutureNodes(@, processed + 1)]
  /\ first' = [first EXCEPT !.kept =
       \/ @
       \/ /\ child.height = 0 /\ childDB.withdrawals # <<>>
          /\ cfg.DisableDeleteFutureWithdrawal \/ start.l2 = 1]
  /\ UNCHANGED <<cfg, l1, l2, hostDB, host, relay, start, faults>>

(* Mutant: the first of them stays.                                        *)
DeleteFutureWithdrawalsNext(db, from) ==
  [db EXCEPT !.withdrawals = Before(@, from + 1),
             !.byAddress = @ \ {<<db.withdrawals[s].to, s>> : s \in {k \in DOMAIN db.withdrawals : k > from}}]

DeleteFutureWithdrawals(db, from) ==
  [db EXCEPT !.withdrawals = Before(@, from),
             !.byAddress = @ \ {<<db.withdrawals[s].to, s>> : s \in {k \in DOMAIN db.withdrawals : k >= from}}]

InitializeWithdrawals ==
  /\ pc = "withdrawals"
  /\ pc' = "up"
  /\ childDB' = IF child.init.seq = 0 THEN childDB
                ELSE DeleteFutureWithdrawals(childDB, child.init.seq)
  /\ child' = [child EXCEPT !.deposit = childDB.deposit]
  /\ start' = NoStart
  /\ UNCHANGED <<cfg, l1, l2, hostDB, host, relay, first, faults>>

-----------------------------------------------------------------------------
(* The host: one block of L1 is handled and committed at a time.           *)

(* The handlers change m: configuration and status in memory, the queue of *)
(* messages, and whether a handler returned an error.                      *)
Fail(m) == [m EXCEPT !.failed = TRUE]

GetMsgFinalizeTokenDeposit(val, height) ==
  [type |-> "deposit", seq |-> val.l1_sequence, height |-> height,
   from |-> val.from, to |-> val.to, amount |-> val.amount]
GetMsgSetBridgeInfo(config) == [type |-> "info", config |-> config]

(* Mutant: the deposit that L2 waits for is taken for an old one.          *)
initiateDepositHandlerLate(m, r, height) ==
  IF ~r.ok THEN Fail(m)
  ELSE IF r.val.bridge_id # BridgeId \/ r.val.l1_sequence <= host.initial THEN m
  ELSE [m EXCEPT !.queue = Append(@, GetMsgFinalizeTokenDeposit(r.val, height))]

initiateDepositHandler(m, r, height) ==
  IF ~r.ok THEN Fail(m)
  ELSE IF r.val.bridge_id # BridgeId \/ r.val.l1_sequence < host.initial THEN m
  ELSE IF r.val.amount = Garbled THEN Fail(m)
  ELSE [m EXCEPT !.queue = Append(@, GetMsgFinalizeTokenDeposit(r.val, height))]

proposeOutputHandler(m, r) ==
  IF ~r.ok THEN Fail(m)
  ELSE IF r.val.bridge_id # BridgeId THEN m
  ELSE [m EXCEPT !.status.output = r.val.output_index]

finalizeWithdrawalHandler(m, r) == IF r.ok THEN m ELSE Fail(m)

recordBatchHandler(m, r, time) ==
  IF ~r.ok THEN Fail(m)
  ELSE IF r.val.submitter # cfg.submitter THEN m
  ELSE [m EXCEPT !.status.batch = time]

(* Mutant: the configuration before the update is sent.                    *)
updateHandlerOld(m, r, key) ==
  IF ~r.ok THEN Fail(m)
  ELSE IF r.val.bridge_id # BridgeId THEN m
  ELSE [m EXCEPT !.config[key] = r.val[key],
                 !.queue = Append(@, GetMsgSetBridgeInfo(m.config))]

(* Every update sends the whole configuration that the host has in memory. *)
updateHandler(m, r, key) ==
  LET config == [m.config EXCEPT ![key] = r.val[key]]
  IN  IF ~r.ok THEN Fail(m)
      ELSE IF r.val.bridge_id # BridgeId THEN m
      ELSE [m EXCEPT !.config = config,
                     !.queue = Append(@, GetMsgSetBridgeInfo(config))]
updateProposerHandler(m, attrs) == updateHandler(m, ParseMsgUpdateProposer(attrs), "proposer")
updateChallengerHandler(m, attrs) == updateHandler(m, ParseMsgUpdateChallenger(attrs), "challenger")
updateBatchInfoHandler(m, attrs) == updateHandler(m, ParseMsgUpdateBatchInfo(attrs), "batch_submitter")
updateOracleConfigHandler(m, attrs) == updateHandler(m, ParseMsgUpdateOracleConfig(attrs), "oracle_enabled")

hostEvent(m, e, height, time) ==
  IF m.failed THEN m ELSE
  CASE e.type = "initiate_token_deposit" -> initiateDepositHandler(m, ParseMsgInitiateDeposit(e.attrs), height)
    [] e.type = "propose_output" -> proposeOutputHandler(m, ParseMsgProposeOutput(e.attrs))
    [] e.type = "finalize_token_withdrawal" -> finalizeWithdrawalHandler(m, ParseMsgFinalizeWithdrawal(e.attrs))
    [] e.type = "record_batch" -> recordBatchHandler(m, ParseMsgRecordBatch(e.attrs), time)
    [] e.type = "update_proposer" -> updateProposerHandler(m, e.attrs)
    [] e.type = "update_challenger" -> updateChallengerHandler(m, e.attrs)
    [] e.type = "update_batch_info" -> updateBatchInfoHandler(m, e.attrs)
    [] e.type = "update_oracle" -> updateOracleConfigHandler(m, e.attrs)
    [] OTHER -> m

HostHandled(height) ==
  LET b == l1.blocks[height]
  IN  FoldLeft(LAMBDA m, e : hostEvent(m, e, height, b.time),
               [config |-> host.config, status |-> host.status, queue |-> <<>>, failed |-> FALSE],
               FlattenSeq(b.txs))

(* Mutant: the votes are sent whether or not the relay sends prices.       *)
oracleTxHandlerAlways(height, latest) ==
  /\ height = latest /\ l1.blocks[height].txs # <<>>
  /\ host.config.oracle_enabled = "true"

(* The older way to send prices: the votes that open the latest block.     *)
oracleTxHandler(height, latest) ==
  /\ height = latest /\ l1.blocks[height].txs # <<>>
  /\ host.config.oracle_enabled = "true" /\ ~cfg.oracleRelay

(* latest is what the last status request returned.                        *)
HostBlock ==
  \E latest \in (host.height + 1)..Len(l1.blocks) :
    LET height == host.height + 1
        m == HostHandled(height)
    IN  /\ pc = "up" /\ ~m.failed
        /\ host' = [host EXCEPT !.height = height, !.config = m.config, !.status = m.status]
        /\ hostDB' = [hostDB EXCEPT !.synced = height, !.status = m.status]
        /\ childDB' = [childDB EXCEPT !.msgs = @ \o m.queue]
        /\ relay' = IF oracleTxHandler(height, latest) THEN [relay EXCEPT !.sent = height] ELSE relay
        /\ first' = IF hostDB.synced = 0 THEN [first EXCEPT !.l1 = height] ELSE first
        /\ UNCHANGED <<cfg, l1, l2, pc, child, start, faults>>

(* A block that is not committed is tried again; what its handlers did to  *)
(* the memory remains.                                                     *)
HostBlockFails ==
  LET m == HostHandled(host.height + 1)
  IN  /\ pc = "up" /\ host.height < Len(l1.blocks)
      /\ m.failed \/ faults.fails < cfg.max.fails
      /\ host' = [host EXCEPT !.config = m.config, !.status = m.status]
      /\ faults' = IF m.failed THEN faults ELSE [faults EXCEPT !.fails = @ + 1]
      /\ UNCHANGED <<cfg, l1, l2, hostDB, childDB, pc, child, relay, start, first>>

-----------------------------------------------------------------------------
(* The child: a block is begun, its events are handled, and it is ended    *)
(* with one commit.  L1 and the database are read at the beginning only.   *)

ChildStatus ==
  /\ pc = "up" /\ child.latest = 0 /\ child.height < Len(l2.blocks)
  /\ child' = [child EXCEPT !.latest = Len(l2.blocks)]
  /\ UNCHANGED <<cfg, l1, l2, hostDB, childDB, pc, host, relay, start, first, faults>>

TreeSaved(height) == height - 1 \in DOMAIN childDB.working
InitializeTree(height) == child.init.seq # 0 /\ child.init.height + 1 = height

prepareTree(height) ==
  IF TreeSaved(height) THEN PrepareWorkingTree(childDB.working[height - 1])
  ELSE InitializeWorkingTree(height, child.init.index, child.init.seq)

(* Asks L1 for the previous output, once, and for the output of the tree.  *)
PreviousMissing(tree) == child.next = 0 /\ tree.index > 1 /\ tree.index - 1 > Len(l1.outputs)
prepareOutput(tree) ==
  [next |-> IF child.next = 0 /\ tree.index > 1 THEN l1.outputs[tree.index - 1].time + cfg.interval
            ELSE child.next,
   finalizing |-> IF tree.index <= Len(l1.outputs) THEN l1.outputs[tree.index].l2
                  ELSE child.finalizing]

(* The handlers of L2 change c: the tree in memory with its new nodes, the *)
(* withdrawals to be saved, the last deposit, and whether all is well.     *)
WithdrawalHash(seq, to) == <<seq, to>>
NewWithdrawalData(to, height) == [to |-> to, height |-> height]

handleInitiateWithdrawal(c, r, height) ==
  LET seq == r.val.l2_sequence
      s == InsertLeaf(c, WithdrawalHash(seq, r.val.to))
  IN  IF ~r.ok THEN [c EXCEPT !.bad = "error"]
      ELSE IF c.tree.start + c.tree.count # seq THEN [c EXCEPT !.bad = "panic"]
      ELSE [c EXCEPT !.tree = s.tree, !.nodes = s.nodes,
                     !.withdrawals = (seq :> NewWithdrawalData(r.val.to, height)) @@ @]

finalizeDepositHandler(c, r) ==
  IF r.ok THEN [c EXCEPT !.deposit = r.val.l1_sequence] ELSE [c EXCEPT !.bad = "error"]

updateOracleHandler(c, r) == IF r.ok THEN c ELSE [c EXCEPT !.bad = "error"]

childEvent(c, e, height) ==
  IF c.bad # "" THEN c ELSE
  CASE e.type = "initiate_token_withdrawal" -> handleInitiateWithdrawal(c, ParseInitiateWithdrawal(e.attrs), height)
    [] e.type = "finalize_token_deposit" -> finalizeDepositHandler(c, ParseFinalizeDeposit(e.attrs))
    [] e.type = "update_oracle" -> updateOracleHandler(c, ParseUpdateOracle(e.attrs))
    [] OTHER -> c

ChildHandled(tree, height) ==
  FoldLeft(LAMBDA c, e : childEvent(c, e, height),
           [tree |-> tree, nodes |-> <<>>, withdrawals |-> <<>>,
            deposit |-> child.deposit, bad |-> ""],
           l2.blocks[height])

(* The tree ends at the block of its output if L1 has it, and else at the  *)
(* latest block once the interval has passed.                              *)
Passed(o, height) == o.finalizing # 0 /\ o.finalizing < height
Finalizes(o, height) ==
  \/ o.finalizing = height
  \/ o.finalizing = 0 /\ height = child.latest /\ height > o.next

BlockId(height) == height
NewTreeExtraData(number, hash) == [number |-> number, hash |-> hash]

(* Tree, nodes and finalized tree after the block.                         *)
handleTree(c, o, height) ==
  IF Finalizes(o, height)
  THEN FinalizeWorkingTree([tree |-> c.tree, nodes |-> c.nodes],
                           NewTreeExtraData(height, BlockId(height)))
  ELSE [tree |-> c.tree, nodes |-> c.nodes, root |-> EmptyRootHash, finalized |-> <<>>]

OutputRoot(storage, block) == <<storage, block>>
GetMsgProposeOutput(index, height, root) == [index |-> index, l2 |-> height, root |-> root]

(* An output that L1 has already is not proposed again.                    *)
handleOutput(t, o, height) ==
  IF Finalizes(o, height) /\ o.finalizing # height
  THEN <<GetMsgProposeOutput(t.tree.index, height, OutputRoot(t.root, BlockId(height)))>>
  ELSE <<>>

SaveWithdrawals(db, ws) ==
  [db EXCEPT !.withdrawals = ws @@ @, !.byAddress = @ \cup {<<ws[s].to, s>> : s \in DOMAIN ws}]

(* The handling of the next block up to its commit: how it ends, and what  *)
(* it leaves in memory, in the database and for the host.                  *)
ChildHandling ==
  LET height == child.height + 1
      tree == prepareTree(height)
      o == prepareOutput(tree)
      c == ChildHandled(tree, height)
      t == handleTree(c, o, height)
      begun == [child EXCEPT !.next = o.next, !.finalizing = o.finalizing]
  IN  IF ~TreeSaved(height) /\ ~InitializeTree(height) THEN [end |-> "panic"]
      ELSE IF PreviousMissing(tree) THEN [end |-> "error", memory |-> child]
      ELSE IF c.bad = "error"
           THEN [end |-> "error", memory |-> [begun EXCEPT !.deposit = c.deposit]]
      ELSE IF c.bad = "panic" \/ Passed(o, height) THEN [end |-> "panic"]
      ELSE [end |-> "commit",
            memory |-> IF Finalizes(o, height)
                       THEN [begun EXCEPT !.deposit = c.deposit, !.finalizing = 0,
                                          !.next = height + cfg.interval]
                       ELSE [begun EXCEPT !.deposit = c.deposit],
            db |-> [SaveWithdrawals(childDB, c.withdrawals) EXCEPT
                      !.synced = height, !.deposit = c.deposit, !.nodes = t.nodes @@ @,
                      !.finalized = t.finalized @@ @, !.working = (height :> t.tree) @@ @],
            msgs |-> handleOutput(t, o, height)]

(* The panics: no tree to go on from, a withdrawal out of sequence, or a   *)
(* tree past the block of its output.                                      *)
ChildBlock ==
  LET height == child.height + 1
      r == ChildHandling
  IN  /\ pc = "up" /\ child.latest # 0 /\ r.end # "error"
      /\ IF r.end = "panic" THEN pc' = "panic" /\ UNCHANGED <<child, childDB, hostDB, first>>
         ELSE /\ child' = [r.memory EXCEPT !.height = height, !.latest = IF height = @ THEN 0 ELSE @]
              /\ childDB' = r.db
              /\ hostDB' = [hostDB EXCEPT !.msgs = @ \o r.msgs]
              /\ first' = IF first.l2 = 0 THEN [first EXCEPT !.l2 = height] ELSE first
              /\ UNCHANGED pc
      /\ UNCHANGED <<cfg, l1, l2, host, relay, start, faults>>

(* The block is tried again, from a new status request.  The output before *)
(* the tree may not be on L1 yet; a commit may fail.                       *)
ChildTryLater ==
  LET r == ChildHandling
  IN  /\ pc = "up" /\ child.latest # 0 /\ r.end = "error"
      /\ child' = [r.memory EXCEPT !.latest = 0]
      /\ UNCHANGED <<cfg, l1, l2, hostDB, childDB, pc, host, relay, start, first, faults>>

ChildCommitFails ==
  LET r == ChildHandling
  IN  /\ pc = "up" /\ child.latest # 0 /\ r.end = "commit" /\ faults.fails < cfg.max.fails
      /\ child' = [r.memory EXCEPT !.latest = 0]
      /\ faults' = [faults EXCEPT !.fails = @ + 1]
      /\ UNCHANGED <<cfg, l1, l2, hostDB, childDB, pc, host, relay, start, first>>

-----------------------------------------------------------------------------
(* The queries of the users.                                               *)

QueryWithdrawal(seq) ==
  IF seq \notin DOMAIN childDB.withdrawals THEN Failed
  ELSE GetProofs(childDB.finalized, childDB.nodes, seq)

(* The keys of an address in the order of Iterate, from offset on, or of   *)
(* ReverseIterate, from offset down and from the last key if offset is 0.  *)
Ascending(keys, offset) == SetToSortSeq({k \in keys : k >= offset}, <)
Descending(keys, offset) == SetToSortSeq({k \in keys : offset # 0 => k <= offset}, >)

(* A page of sequences and where the next one starts, 0 for the last page. *)
GetSequencesByAddress(address, offset, limit, desc) ==
  LET keys == {k[2] : k \in {j \in childDB.byAddress : j[1] = address}}
      found == IF desc THEN Descending(keys, offset) ELSE Ascending(keys, offset)
  IN  IF Len(found) <= limit THEN [sequences |-> found, next |-> 0]
      ELSE [sequences |-> SubSeq(found, 1, limit), next |-> found[limit + 1]]

(* The page fails if one of its withdrawals does.                          *)
QueryWithdrawals(address, offset, limit, desc) ==
  LET page == GetSequencesByAddress(address, offset, limit, desc)
  IN  IF \E i \in DOMAIN page.sequences : QueryWithdrawal(page.sequences[i]) = Failed
      THEN [sequences |-> <<>>, next |-> 0] ELSE page

-----------------------------------------------------------------------------
(* The oracle relay: from the prices before the target height, and only    *)
(* when they are newer than the last ones.                                 *)

PriceHeight(height) ==
  Max({0} \cup {h \in 1..height : \E t \in DOMAIN l1.blocks[h].txs :
        EventsOf("prices", l1.blocks[h].txs[t]) # <<>>})

RelayTarget ==
  /\ pc = "up" /\ cfg.oracleRelay /\ relay.target = 0
  /\ host.config.oracle_enabled = "true" /\ Len(l1.blocks) >= 2
  /\ relay' = [relay EXCEPT !.target = Len(l1.blocks)]
  /\ UNCHANGED <<cfg, l1, l2, hostDB, childDB, pc, host, child, start, first, faults>>

RelaySend ==
  LET prices == PriceHeight(relay.target - 1)
  IN  /\ pc = "up" /\ relay.target # 0
      /\ relay' = IF prices <= relay.last THEN [relay EXCEPT !.target = 0]
                  ELSE [last |-> prices, target |-> 0, sent |-> prices]
      /\ UNCHANGED <<cfg, l1, l2, hostDB, childDB, pc, host, child, start, first, faults>>

-----------------------------------------------------------------------------
(* Faults.                                                                 *)

Crash ==
  /\ pc # "down" /\ faults.crashes < cfg.max.crashes
  /\ pc' = "down"
  /\ host' = NoHost /\ child' = NoChild /\ relay' = NoRelay /\ start' = NoStart
  /\ faults' = [faults EXCEPT !.crashes = @ + 1]
  /\ UNCHANGED <<cfg, l1, l2, hostDB, childDB, first>>

(* reset-heights: synced heights and messages go, trees and status stay.   *)
DeleteSyncedHeight(db) == [db EXCEPT !.synced = 0]
DeleteProcessedMsgs(db) == [db EXCEPT !.msgs = <<>>]
(* The first n messages have been sent, the others are in no mempool.      *)
Sent(chain, db) == {[chain EXCEPT !.pool = @ \o SubSeq(db.msgs, 1, n)] : n \in 0..Len(db.msgs)}
ResetHeight(db) == DeleteProcessedMsgs(DeleteSyncedHeight(db))
ResetHeights ==
  /\ pc = "down" /\ faults.resets < cfg.max.resets
  /\ l1' \in Sent(l1, hostDB) /\ l2' \in Sent(l2, childDB)
  /\ hostDB' = ResetHeight(hostDB)
  /\ childDB' = ResetHeight(childDB)
  /\ faults' = [faults EXCEPT !.resets = @ + 1]
  /\ UNCHANGED <<cfg, pc, host, child, relay, start, first>>

(* reset-db: the database is removed.                                      *)
EmptyHostDB == [synced |-> 0, msgs |-> <<>>, status |-> [output |-> 0, batch |-> 0]]
EmptyChildDB == [synced |-> 0, msgs |-> <<>>, deposit |-> 0, working |-> <<>>, finalized |-> <<>>,
                 nodes |-> <<>>, withdrawals |-> <<>>, byAddress |-> {}]
ResetDB ==
  /\ pc = "down" /\ faults.resets < cfg.max.resets
  /\ l1' \in Sent(l1, hostDB) /\ l2' \in Sent(l2, childDB)
  /\ hostDB' = EmptyHostDB
  /\ childDB' = EmptyChildDB
  /\ first' = [l1 |-> 0, l2 |-> 0, kept |-> FALSE]
  /\ faults' = [faults EXCEPT !.resets = @ + 1]
  /\ UNCHANGED <<cfg, pc, host, child, relay, start>>

(* The option is set in the configuration file before a start.             *)
DisableDelete ==
  /\ pc = "down" /\ cfg.mayDisable /\ ~cfg.DisableDeleteFutureWithdrawal
  /\ cfg' = [cfg EXCEPT !.DisableDeleteFutureWithdrawal = TRUE]
  /\ UNCHANGED <<l1, l2, hostDB, childDB, pc, host, child, relay, start, first, faults>>

-----------------------------------------------------------------------------
Init ==
  /\ cfg \in Configs
  /\ l1 = [blocks |-> <<[time |-> 0, txs |-> <<<<[type |-> "create_bridge", attrs |-> <<>>]>>>>]>>,
           next |-> 1, outputs |-> <<>>, config |-> cfg.bridge, pool |-> <<>>]
  /\ l2 = [blocks |-> <<>>, info |-> cfg.bridge, pool |-> <<>>]
  /\ hostDB = EmptyHostDB /\ childDB = EmptyChildDB
  /\ pc = "down"
  /\ host = NoHost /\ child = NoChild /\ relay = NoRelay
  /\ start = NoStart
  /\ first = [l1 |-> 0, l2 |-> 0, kept |-> FALSE]
  /\ faults = [crashes |-> 0, fails |-> 0, resets |-> 0]

Executes == L2Msg \/ L2Pool
Chains == L1Tx \/ L1Output \/ L1Pool \/ L2Block \/ Executes
Starting ==
  StartOutput \/ StartHeights \/ InitializeHost \/ InitializeChild \/ InitializeWithdrawals
ChildLoop == ChildStatus \/ ChildBlock \/ ChildTryLater
RelayLoop == RelayTarget \/ RelaySend
Faults == HostBlockFails \/ ChildCommitFails \/ Crash \/ ResetHeights \/ ResetDB \/ DisableDelete

Next == Chains \/ Starting \/ HostBlock \/ ChildLoop \/ RelayLoop \/ Faults

Spec == Init /\ [][Next]_vars

(* When a goroutine of the process or a chain can take its step.           *)
StartReady == pc \in {"down", "heights", "host", "child", "withdrawals"}
HostReady ==
  pc = "up" /\ host.height < Len(l1.blocks) /\ ~HostHandled(host.height + 1).failed
MsgReady == l2.pool # <<>> \/ (childDB.msgs # <<>> /\ ~Fails(Head(childDB.msgs)))

(* Weak fairness of each, with ENABLED written out.                        *)
FairSpec ==
  /\ Spec
  /\ []<>~StartReady \/ []<><<Starting>>_vars
  /\ []<>~HostReady \/ []<><<HostBlock>>_vars
  /\ []<>~MsgReady \/ []<><<Executes>>_vars

-----------------------------------------------------------------------------
(* Properties.                                                             *)

(* Heights in database and memory are heights of the chains, the trees are *)
(* kept by number, and the process is at one of its steps.                 *)
TypeOK ==
  /\ pc \in {"down", "heights", "host", "child", "withdrawals", "up", "panic"}
  /\ hostDB.synced \in 0..Len(l1.blocks) /\ host.height \in 0..Len(l1.blocks)
  /\ childDB.synced \in 0..Len(l2.blocks) /\ child.height \in 0..Len(l2.blocks)
  /\ DOMAIN childDB.working \subseteq Nat /\ DOMAIN childDB.finalized \subseteq Nat

(* Every deposit in the L1 blocks up to the saved height of the host is    *)
(* finalized on L2 or saved to be sent, whatever crashes, failed commits,  *)
(* restarts and resets came between (executor/executor.go, host/deposit.go). *)
IsDeposit(e) == e.type = "initiate_token_deposit" /\ Has(e, "bridge_id", BridgeId)
L1Events(from, to) ==
  FlattenSeq([i \in 1..(to - from + 1) |-> FlattenSeq(l1.blocks[from + i - 1].txs)])
Deposits(to) ==
  LET events == SelectSeq(L1Events(1, to), IsDeposit)
  IN  {Value(events[i], "l1_sequence") : i \in DOMAIN events}
Waiting == {m \in Range(childDB.msgs) : m.type = "deposit"}
DepositsKept ==
  \A s \in Deposits(hostDB.synced) :
    s < QueryNextL1Sequence \/ \E m \in Waiting : m.seq = s

(* What the bot does not survive.  A proposal that was sent before a reset *)
(* comes to L1 when the child has passed its block again (Overtaken), or a *)
(* child that may delete nothing starts without a tree (NoTree).           *)
Overtaken == \E i \in DOMAIN l1.outputs : l1.outputs[i].late
NoTree == cfg.DisableDeleteFutureWithdrawal /\ ~TreeSaved(child.height + 1)

(* Neither the bot nor its queues get stuck.  But for these two cases the  *)
(* child never meets its INVARIANT panics: it has a tree to go on from,    *)
(* the withdrawals come in sequence, and no tree passes the block of its   *)
(* output on L1.  Nothing saved for a chain is refused by it for good: the *)
(* deposits wait without a gap, and the proposals have the next index or   *)
(* an older one, and rising L2 blocks (executor/host/deposit.go,           *)
(* child/withdraw.go).                                                     *)
NeverStuck ==
  /\ pc = "panic" => Overtaken \/ NoTree
  /\ \A i \in DOMAIN childDB.msgs : childDB.msgs[i].type = "deposit" =>
       \A s \in QueryNextL1Sequence..(childDB.msgs[i].seq - 1) :
         \E j \in 1..(i - 1) : childDB.msgs[j].type = "deposit" /\ childDB.msgs[j].seq = s
  /\ \A i \in DOMAIN hostDB.msgs :
       LET p == hostDB.msgs[i]
       IN  IF i = 1 THEN Old(p) \/ Takes(p)
           ELSE p.index = hostDB.msgs[i - 1].index + 1 /\ p.l2 > hostDB.msgs[i - 1].l2

(* The output of an index on L1 is the root of the tree of exactly the     *)
(* withdrawals after the previous output and up to its block, in order, as *)
(* long as no proposal of before a reset overtook the child                *)
(* (merkle/merkle.go, executor/child/withdraw.go).                         *)
Leaves(from, to) ==
  LET ws == EventsOf("initiate_token_withdrawal", FlattenSeq(SubSeq(l2.blocks, from, to)))
  IN  [i \in DOMAIN ws |-> WithdrawalHash(Value(ws[i], "l2_sequence"), Value(ws[i], "to"))]
RootOf(leaves) ==
  LET n == Len(leaves)
      height == Min({h \in 1..n : n <= 2^h})
      node[h \in 0..height, i \in 0..(2^height - 1)] ==
        IF h = 0 THEN leaves[IF i < n THEN i + 1 ELSE n]
        ELSE NodeHash(node[h - 1, 2 * i], node[h - 1, 2 * i + 1])
  IN  IF n = 0 THEN EmptyRootHash ELSE node[height, 0]
FirstBlock(i) == IF i = 1 THEN 1 ELSE l1.outputs[i - 1].l2 + 1
OutputsRight ==
  \A i \in DOMAIN l1.outputs : (\A j \in 1..(i - 1) : ~l1.outputs[j].late) =>
    l1.outputs[i].root = OutputRoot(RootOf(Leaves(FirstBlock(i), l1.outputs[i].l2)), l1.outputs[i].l2)

(* A start can keep what an earlier run had of blocks that the child reads *)
(* again: the finalized trees when it goes back to the beginning, and with *)
(* DisableDeleteFutureWithdrawal trees and withdrawals.  The trees are     *)
(* stale as long as one of them is not the tree that ended at its block.   *)
TreeCurrent(s) ==
  LET n == childDB.finalized[s].extra.number
  IN  n \in DOMAIN childDB.working /\ childDB.working[n].done /\ childDB.working[n].start = s
StaleTrees == first.kept /\ \E s \in DOMAIN childDB.finalized : ~TreeCurrent(s)
ReadsAgain ==
  first.kept /\ \E s \in DOMAIN childDB.withdrawals : childDB.withdrawals[s].height > child.height

(* A withdrawal can be proved on L1 as soon as its output is there: the    *)
(* query never fails, answers with the output of the withdrawal, and the   *)
(* proofs lead from the withdrawal to the root of that output, unless      *)
(* stale trees were kept or a late output overtook the child               *)
(* (executor/child/query.go, merkle/db.go).                                *)
ProofRoot(leaf, proofs) == FoldLeft(NodeHash, leaf, proofs)
ProofsVerify ==
  pc = "up" /\ ~Overtaken /\ ~StaleTrees =>
    \A s \in DOMAIN childDB.withdrawals :
      LET w == childDB.withdrawals[s]
          q == QueryWithdrawal(s)
          own == {i \in DOMAIN l1.outputs : w.height \in FirstBlock(i)..l1.outputs[i].l2}
      IN  /\ q.status # "failed"
          /\ \A i \in own : l1.outputs[i].l2 <= childDB.synced => q.status = "proofs"
          /\ q.status = "proofs" /\ q.index \in DOMAIN l1.outputs =>
               /\ q.index \in own
               /\ l1.outputs[q.index].root =
                    OutputRoot(ProofRoot(WithdrawalHash(s, w.to), q.proofs), q.extra.hash)

(* The pages of the withdrawals of an address, in both orders and for      *)
(* every page size, list the withdrawals in the blocks the child has read, *)
(* each once and in order, unless kept ones are read again                 *)
(* (executor/child/db.go, db/db.go).                                       *)
Pages(address, limit, desc) ==
  LET page[n \in Nat] ==
        IF n = 0 THEN QueryWithdrawals(address, 0, limit, desc)
        ELSE LET p == page[n - 1]
                 q == QueryWithdrawals(address, p.next, limit, desc)
             IN  IF p.next = 0 THEN p ELSE [q EXCEPT !.sequences = p.sequences \o @]
  IN  page[Cardinality(childDB.byAddress)].sequences
WithdrawalsListed ==
  pc = "up" /\ ~StaleTrees /\ ~ReadsAgain =>
    \A address \in {"a", "b"}, limit \in 1..2, desc \in BOOLEAN :
      LET ws == SelectSeq(IF first.l2 = 0 THEN <<>> ELSE Leaves(first.l2, child.height),
                          LAMBDA w : w[2] = address)
          seqs == [i \in DOMAIN ws |-> ws[i][1]]
      IN  Pages(address, limit, desc) = IF desc THEN Reverse(seqs) ELSE seqs

(* The migrations lead from the database that an older version would have  *)
(* after the same blocks to the database of this version: those of v0.1.5, *)
(* v0.1.10 and v0.1.11 give the very keys and values, and those of v0.1.9  *)
(* give every tree its place among the withdrawals and its block, if the   *)
(* database begins with the first L2 block and has no stale trees          *)
(* (executor/db.go).  The roots are not part of the second claim:          *)
(* Migration019_1 reads the siblings under their new name.                 *)
Heights == [host |-> hostDB.synced, child |-> childDB.synced, batch |-> childDB.synced,
            da |-> hostDB.synced]
PlacesRestored(db) ==
  LET FinalizedKey(s) == MerkleKey(PrefixedFinalizedTreeKey(s))
  IN  /\ Under(db, <<"child", "merkle", "finalized_tree">>) = {FinalizedKey(s) : s \in DOMAIN childDB.finalized}
      /\ \A s \in DOMAIN childDB.finalized :
           [db[FinalizedKey(s)] EXCEPT !.root = EmptyRootHash]
             = [childDB.finalized[s] EXCEPT !.root = EmptyRootHash]
      /\ \A v \in DOMAIN childDB.working :
           db[MerkleKey(PrefixedWorkingTreeKey(v))].start = childDB.working[v].start
MigrationsRestore ==
  pc = "down" =>
    /\ LET db == Migration0111(Migration0110(Migration015(LegacyDB(childDB, Heights, FALSE))))
       IN  Deleted(db, {k \in DOMAIN db : k[2] = "last_processed_block_height"})
             = CurrentDB(childDB, Heights)
    /\ first.l2 = 1 /\ ~StaleTrees =>
         PlacesRestored(Migration019_2(Migration019_1(LegacyDB(childDB, Heights, TRUE)),
                                       [n \in DOMAIN l2.blocks |-> BlockId(n)]))

(* A host that has read all of L1 has the last output in its status, and   *)
(* once the updates of the bridge that it met are executed, L2 has the     *)
(* configuration of L1 (executor/host/bridge_info.go, host/oracle.go).     *)
HostFollows ==
  hostDB.synced # 0 /\ hostDB.synced = Len(l1.blocks) =>
    /\ (\E i \in DOMAIN l1.outputs : l1.outputs[i].l1 >= first.l1) =>
         hostDB.status.output = Len(l1.outputs)
    /\ /\ SelectSeq(L1Events(first.l1, hostDB.synced), IsUpdate) # <<>>
       /\ \A m \in Range(childDB.msgs) : m.type # "info"
       => l2.info = l1.config

(* While the process runs, the prices that it sends to L2 are of rising L1 *)
(* heights, by either way (executor/oraclerelay, executor/host/oracle.go). *)
PricesRise == [][relay'.sent # relay.sent => relay'.sent > relay.sent \/ pc' = "down"]_vars

(* Every deposit on L1 is finalized on L2 in the end: again and again none *)
(* is outstanding, however the process crashed and was reset before.  (A   *)
(* panic of the child ends the host as well; NeverStuck says when.)        *)
DepositsFinalized ==
  []<>(pc = "panic" \/ \A s \in Deposits(Len(l1.blocks)) : s < QueryNextL1Sequence)
=============================================================================
