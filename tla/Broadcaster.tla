---------------------------- MODULE Broadcaster ----------------------------
(***************************************************************************)
(* The broadcaster of one node (node/broadcaster), the transaction checker *)
(* that watches what it sent (node/tx_checker.go), and the chain they talk *)
(* to.                                                                     *)
(*                                                                         *)
(* Block handlers commit messages to the database and hand them over an    *)
(* unbuffered channel to one loop, which signs each with the next sequence *)
(* of its sender, sends it and records it as a pending transaction.  The   *)
(* checker polls the oldest pending transaction and removes it once the    *)
(* chain has it.  After a crash everything in memory is rebuilt from the   *)
(* database and the chain.                                                 *)
(*                                                                         *)
(* A message stands for one ProcessedMsgs record, a transaction for one    *)
(* PendingTxInfo: its hash is determined by the message, the sequence and  *)
(* the memo, and a rebuilt transaction differs only in the memo.  Database *)
(* keys are timestamps; `order' is the sequence of messages in key order.  *)
(***************************************************************************)
EXTENDS Integers, Sequences, FiniteSets

CONSTANTS
  Accounts,        \* the addresses this node signs with
  Msgs,            \* all messages (ProcessedMsgs records)
  Saved,           \* the messages with Save = true
  Sender,          \* the account that signs each message
  StartSeq,        \* the sequence of each account at the start
  Handlers,        \* the block handlers that feed this broadcaster
  NoMsg,           \* no message in the loop
  Faults,          \* the faults of the environment that may happen
  MaxFaults,       \* bound: number of faults
  MaxBatch,        \* bound: messages committed by one block
  MaxMemo,         \* bound: times one transaction is rebuilt
  MaxErrors,       \* types.MaxBroadcastErrorCount
  MaxRetryCount    \* types.MaxRetryCount

FaultKinds == {"evict", "crash", "ackLost", "commitFails", "fail", "lag"}

ASSUME ConstantsAssumption ==
  /\ Saved \subseteq Msgs
  /\ Sender \in [Msgs -> Accounts]
  /\ StartSeq \in [Accounts -> Nat]
  /\ NoMsg \notin Msgs
  /\ {"reload", "free"} \cap Handlers = {}
  /\ Faults \subseteq FaultKinds
  /\ MaxFaults \in Nat /\ MaxBatch \in Nat /\ MaxMemo \in Nat /\ MaxErrors \in Nat
  /\ MaxRetryCount \in Nat \ {0}

VARIABLES
  (* the chain *)
  chainSeq,     \* account -> next sequence in the committed state
  checkSeq,     \* account -> next sequence CheckTx accepts
  mempool,      \* transactions accepted and not yet in a block
  blocks,       \* transactions in blocks, with their result
  indexed,      \* transactions the tx query can find
  (* the database of this node *)
  processedDB,  \* processed_msgs/: saved messages not sent yet
  pendingDB,    \* pending_txs/: saved transactions not confirmed yet
  order,        \* messages in the order of their timestamps
  (* memory *)
  up,           \* "down", "boot" (Initialize) or "run"
  accSeq,       \* account -> next sequence to sign with
  local,        \* pendingTxs, oldest first
  phase,        \* the loop: "idle", "handle" or "sent" (not committed yet)
  cur,          \* the message the loop works on
  feed,         \* feeder -> messages still to be handed to the loop
  mutex,        \* broadcastProcessedMsgsMut: the feeder that holds it
  checker,      \* the checker: "poll", "rebuild", "rebroadcast", "mismatch"
  errors,       \* consecutiveErrors
  lastBlock,    \* "seen": txNotFoundBefore and no block since
  boot,         \* loadPendingTxs: what is left, what to redo, retries
  (* history *)
  accepted,     \* messages committed by a handler
  faults        \* faults that happened

chain == <<chainSeq, checkSeq, mempool, blocks, indexed>>
db == <<processedDB, pendingDB, order>>
loop == <<phase, cur>>
handover == <<feed, mutex>>
checkerVars == <<checker, errors, lastBlock>>
memory == <<up, accSeq, local, loop, handover, checkerVars, boot>>
vars == <<chain, db, memory, accepted, faults>>

Feeders == Handlers \cup {"reload"}
Tx == [msg : Msgs, seq : Nat, memo : Nat]
SavedTx == [msg : Saved, seq : Nat, memo : Nat]
Codes == {"ok", "ignored", "failed"}

From(t) == Sender[t.msg]
Elems(s) == {s[i] : i \in 1..Len(s)}
MsgsOf(txs) == {t.msg : t \in txs}

Executed == {r.tx.msg : r \in {b \in blocks : b.code = "ok"}}
Result(t, code) == [tx |-> t, code |-> code] \in blocks

Fault(kind) ==
  /\ kind \in Faults
  /\ faults < MaxFaults
  /\ faults' = faults + 1

-----------------------------------------------------------------------------
(* The chain.  A transaction is accepted when it carries the next sequence *)
(* of the check state; blocks take an account's transactions in order; a   *)
(* node that drops a transaction drops the later ones of the account when  *)
(* it rechecks.  A message that was executed before is redundant: the      *)
(* transaction fails with an error the bots ignore.                        *)

CheckTx(t) ==
  /\ t.seq = checkSeq[From(t)]
  /\ mempool' = mempool \cup {t}
  /\ checkSeq' = [checkSeq EXCEPT ![From(t)] = @ + 1]
  /\ UNCHANGED <<chainSeq, blocks, indexed>>

Include(t, code) ==
  /\ t \in mempool
  /\ t.seq = chainSeq[From(t)]
  /\ code = "ignored" <=> t.msg \in Executed
  /\ IF code = "failed" THEN Fault("fail") ELSE UNCHANGED faults
  /\ mempool' = mempool \ {t}
  /\ chainSeq' = [chainSeq EXCEPT ![From(t)] = @ + 1]
  /\ blocks' = blocks \cup {[tx |-> t, code |-> code]}
  /\ indexed' \in {indexed \cup {t}} \cup (IF "lag" \in Faults THEN {indexed} ELSE {})
  /\ lastBlock' = "new"
  /\ UNCHANGED <<checkSeq, db, up, accSeq, local, loop, handover, checker,
                 errors, boot, accepted>>

EmptyBlock ==
  /\ lastBlock = "seen"
  /\ lastBlock' = "new"
  /\ UNCHANGED <<chain, db, up, accSeq, local, loop, handover, checker,
                 errors, boot, accepted, faults>>

IndexTx(t) ==
  /\ t \notin indexed
  /\ indexed' = indexed \cup {t}
  /\ UNCHANGED <<chainSeq, checkSeq, mempool, blocks, db, memory, accepted, faults>>

Evict(t) ==
  /\ t \in mempool
  /\ Fault("evict")
  /\ mempool' = {u \in mempool : From(u) = From(t) => u.seq < t.seq}
  /\ checkSeq' = [checkSeq EXCEPT ![From(t)] = t.seq]
  /\ UNCHANGED <<chainSeq, blocks, indexed, db, memory, accepted>>

-----------------------------------------------------------------------------
(* Handing messages over.  A handler commits the messages of a block in    *)
(* one batch write, then sends them one by one over the channel, taking    *)
(* the mutex for each; the goroutine that resends the reloaded messages    *)
(* keeps the mutex until all of them are sent.                             *)

(* Faulty variant: the messages are handed over before they are committed. *)
HandOverUncommitted(h, ms) ==
  /\ up = "run"
  /\ feed[h] = <<>>
  /\ feed' = [feed EXCEPT ![h] = ms]
  /\ UNCHANGED <<chain, db, up, accSeq, local, loop, mutex, checkerVars, boot,
                 accepted, faults>>

CommitBlock(h, ms) ==
  /\ up = "run"
  /\ feed[h] = <<>>
  /\ \A i, j \in 1..Len(ms) : i # j => ms[i] # ms[j]
  /\ processedDB' = processedDB \cup (Elems(ms) \cap Saved)
  /\ order' = order \o ms
  /\ feed' = [feed EXCEPT ![h] = ms]
  /\ accepted' = accepted \cup Elems(ms)
  /\ UNCHANGED <<chain, pendingDB, up, accSeq, local, loop, mutex, checkerVars,
                 boot, faults>>

Lock(f) ==
  /\ up = "run"
  /\ mutex = "free"
  /\ feed[f] # <<>>
  /\ mutex' = f
  /\ UNCHANGED <<chain, db, up, accSeq, local, loop, feed, checkerVars, boot,
                 accepted, faults>>

Send(f) ==
  /\ up = "run"
  /\ mutex = f
  /\ feed[f] # <<>>
  /\ phase = "idle"
  /\ phase' = "handle"
  /\ cur' = Head(feed[f])
  /\ feed' = [feed EXCEPT ![f] = Tail(@)]
  /\ mutex' = IF f = "reload" /\ Len(feed[f]) > 1 THEN f ELSE "free"
  /\ UNCHANGED <<chain, db, up, accSeq, local, checkerVars, boot, accepted, faults>>

-----------------------------------------------------------------------------
(* The loop: Start, handleProcessedMsgs and handleMsgError.  An attempt    *)
(* that changes nothing (the request never reached the node, a saved       *)
(* message whose simulation fails) is a stuttering step.                   *)

Built(m) == [msg |-> m, seq |-> accSeq[Sender[m]], memo |-> 0]

Handling == up = "run" /\ phase = "handle"

Done ==
  /\ phase' = "idle"
  /\ cur' = NoMsg

Broadcast ==
  /\ Handling
  /\ CheckTx(Built(cur))
  /\ phase' = "sent"
  /\ UNCHANGED <<db, up, accSeq, local, cur, handover, checkerVars, boot, accepted, faults>>

BroadcastAckLost ==
  /\ Handling
  /\ Fault("ackLost")
  /\ CheckTx(Built(cur))
  /\ UNCHANGED <<db, memory, accepted>>

(* Faulty variant: the last pending transaction, whoever sent it.          *)
LastSeqOfAnyone(a) == IF local = <<>> THEN 0 ELSE local[Len(local)].seq

LastLocalSeq(a) ==
  LET S == {i \in 1..Len(local) : From(local[i]) = a}
  IN  IF S = {} THEN 0
      ELSE local[CHOOSE i \in S : \A j \in S : j <= i].seq

(* Faulty variants: always follow the chain; never follow the chain.       *)
FollowAlways(a, expected) == [accSeq EXCEPT ![a] = expected]
FollowNever(a, expected) == accSeq

UpdatedSequence(a, expected) ==
  IF expected > accSeq[a] \/ expected > LastLocalSeq(a)
  THEN [accSeq EXCEPT ![a] = expected]
  ELSE accSeq

SequenceMismatch ==
  /\ Handling
  /\ accSeq[Sender[cur]] # checkSeq[Sender[cur]]
  /\ accSeq' = UpdatedSequence(Sender[cur], checkSeq[Sender[cur]])
  /\ UNCHANGED <<chain, db, up, local, loop, handover, checkerVars, boot, accepted, faults>>

IgnoredError ==
  /\ Handling
  /\ cur \in Executed \/ cur \notin Saved
  /\ processedDB' = processedDB \ {cur}
  /\ Done
  /\ UNCHANGED <<chain, pendingDB, order, up, accSeq, local, handover, checkerVars,
                 boot, accepted, faults>>

CommitPending ==
  /\ up = "run" /\ phase = "sent"
  /\ processedDB' = processedDB \ {cur}
  /\ pendingDB' = pendingDB \cup {t \in {Built(cur)} : t.msg \in Saved}
  /\ accSeq' = [accSeq EXCEPT ![Sender[cur]] = @ + 1]
  /\ local' = Append(local, Built(cur))
  /\ Done
  /\ UNCHANGED <<chain, order, up, handover, checkerVars, boot, accepted, faults>>

CommitFails ==
  /\ up = "run" /\ phase = "sent"
  /\ Fault("commitFails")
  /\ accSeq' = [accSeq EXCEPT ![Sender[cur]] = @ + 1]
  /\ IF cur \in Saved THEN phase' = "handle" /\ UNCHANGED cur ELSE Done
  /\ UNCHANGED <<chain, db, up, local, handover, checkerVars, boot, accepted>>

-----------------------------------------------------------------------------
(* The checker.  It looks at the oldest pending transaction only.          *)

Polling == up = "run" /\ checker = "poll" /\ local # <<>>

MoreErrors == IF errors > MaxErrors THEN errors ELSE errors + 1

(* RemovePendingTx and RemovePendingTxsUntil delete the first n records.   *)
DropPending(n) ==
  LET gone == {local[i].msg : i \in 1..n}
  IN  /\ pendingDB' = {t \in pendingDB : t.msg \notin gone}
      /\ local' = SubSeq(local, n + 1, Len(local))

(* The header or the tx query fails, or no block came since the tx was not *)
(* found: a saved transaction waits for the next poll, another is dropped. *)
CheckLater ==
  /\ Polling
  /\ errors' = MoreErrors
  /\ UNCHANGED <<chain, db, up, accSeq, local, loop, handover, checker, lastBlock,
                 boot, accepted, faults>>

CheckDiscards ==
  /\ Polling
  /\ lastBlock = "new"
  /\ Head(local).msg \notin Saved
  /\ DropPending(1)
  /\ errors' = 0
  /\ UNCHANGED <<chain, processedDB, order, up, accSeq, loop, handover, checker,
                 lastBlock, boot, accepted, faults>>

CheckFound ==
  /\ Polling
  /\ lastBlock = "new"
  /\ Head(local) \in indexed
  /\ ~Result(Head(local), "failed")
  /\ DropPending(1)
  /\ errors' = 0
  /\ UNCHANGED <<chain, processedDB, order, up, accSeq, loop, handover, checker,
                 lastBlock, boot, accepted, faults>>

CheckNotFound ==
  /\ Polling
  /\ lastBlock = "new"
  /\ Head(local) \notin indexed
  /\ lastBlock' = "seen"
  /\ errors' = MoreErrors
  /\ checker' = IF MoreErrors > MaxErrors THEN "rebuild" ELSE "rebroadcast"
  /\ UNCHANGED <<chain, db, up, accSeq, local, loop, handover, boot, accepted, faults>>

Rebuilt(t) == [msg |-> t.msg, seq |-> t.seq, memo |-> t.memo + 1]

(* Faulty variant: the rebuilt transactions are not written to the         *)
(* database.                                                               *)
RebuildInMemoryOnly ==
  /\ up = "run" /\ checker = "rebuild"
  /\ \A t \in Elems(local) : t.memo < MaxMemo
  /\ local' = [i \in 1..Len(local) |-> Rebuilt(local[i])]
  /\ checker' = "rebroadcast"
  /\ UNCHANGED <<chain, db, up, accSeq, loop, handover, errors, lastBlock, boot,
                 accepted, faults>>

RebuildPendingTxs ==
  /\ up = "run" /\ checker = "rebuild"
  /\ \/ /\ \A t \in Elems(local) : t.memo < MaxMemo
        /\ local' = [i \in 1..Len(local) |-> Rebuilt(local[i])]
        /\ pendingDB' = {t \in pendingDB : t.msg \notin MsgsOf(Elems(local))}
                          \cup {t \in Elems(local') : t.msg \in Saved}
     \/ UNCHANGED <<local, pendingDB>>
  /\ checker' = "rebroadcast"
  /\ UNCHANGED <<chain, processedDB, order, up, accSeq, loop, handover, errors,
                 lastBlock, boot, accepted, faults>>

(* BroadcastTxSync of the oldest transaction: accepted, or refused with a  *)
(* sequence mismatch, or an error that is ignored.                         *)
Rebroadcast ==
  /\ up = "run" /\ checker = "rebroadcast"
  /\ \/ CheckTx(Head(local)) /\ checker' = "poll"
     \/ /\ checker' = IF checkSeq[From(Head(local))] > Head(local).seq
                      THEN "mismatch" ELSE "poll"
        /\ UNCHANGED chain
  /\ UNCHANGED <<db, up, accSeq, local, loop, handover, errors, lastBlock, boot,
                 accepted, faults>>

(* Faulty variant: one record too many is removed.                         *)
PrefixThrough(n, until) ==
  /\ \A i \in 1..n : local[i].seq <= until + 1
  /\ n < Len(local) => local[n + 1].seq > until + 1

(* The first n records are those before the first with a sequence above    *)
(* `until', whoever sent them.                                             *)
PrefixUntil(n, until) ==
  /\ \A i \in 1..n : local[i].seq <= until
  /\ n < Len(local) => local[n + 1].seq > until

RemovePendingTxsUntil ==
  LET onChain == chainSeq[From(Head(local))] IN
  /\ up = "run" /\ checker = "mismatch"
  /\ IF onChain > Head(local).seq
     THEN /\ \E n \in 0..Len(local) : PrefixUntil(n, onChain - 1) /\ DropPending(n)
          /\ errors' = 0
     ELSE UNCHANGED <<pendingDB, local, errors>>
  /\ checker' = "poll"
  /\ UNCHANGED <<chain, processedDB, order, up, accSeq, loop, handover, lastBlock,
                 boot, accepted, faults>>

-----------------------------------------------------------------------------
(* Crash and restart.  Initialize loads the sequences of the accounts and  *)
(* the pending transactions; loadPendingTxs goes through them in key order *)
(* and decides for each whether it is done, to be sent again, or waited    *)
(* for; then one batch write replaces all pending transactions and         *)
(* messages by the messages to send, under new timestamps.                 *)

NoBoot == [todo |-> <<>>, redo |-> <<>>, retry |-> 0]

Stop ==
  /\ up' = "down"
  /\ local' = <<>>
  /\ Done
  /\ feed' = [f \in Feeders |-> <<>>]
  /\ mutex' = "free"
  /\ checker' = "poll"
  /\ errors' = 0
  /\ lastBlock' = "new"
  /\ boot' = NoBoot
  /\ UNCHANGED accSeq

Crash ==
  /\ up # "down"
  /\ Fault("crash")
  /\ Stop
  /\ UNCHANGED <<chain, db, accepted>>

(* CheckPendingTx panics on a transaction that failed in its block.        *)
CheckPanics ==
  /\ Polling
  /\ lastBlock = "new"
  /\ Head(local) \in indexed
  /\ Result(Head(local), "failed")
  /\ Stop
  /\ UNCHANGED <<chain, db, accepted, faults>>

(* Iterating over a table gives the records in the order of their keys.    *)
Before(m, n) ==
  \E i, j \in 1..Len(order) : i < j /\ order[i] = m /\ order[j] = n

InKeyOrder(ms, S) ==
  /\ Elems(ms) = S
  /\ \A i, j \in 1..Len(ms) : i < j => ms[i] # ms[j] /\ Before(ms[i], ms[j])

MsgSeq(txs) == [i \in 1..Len(txs) |-> txs[i].msg]

Initialize(todo) ==
  /\ up = "down"
  /\ todo \in Seq(pendingDB)
  /\ InKeyOrder(MsgSeq(todo), MsgsOf(pendingDB))
  /\ up' = "boot"
  /\ accSeq' = chainSeq
  /\ boot' = [todo |-> todo, redo |-> <<>>, retry |-> 1]
  /\ UNCHANGED <<chain, db, local, loop, handover, checkerVars, accepted, faults>>

Loading == up = "boot" /\ boot.todo # <<>>

BootFound ==
  LET t == Head(boot.todo) IN
  /\ Loading
  /\ t \in indexed
  /\ boot' = [todo |-> Tail(boot.todo), retry |-> 1,
              redo |-> IF Result(t, "ok") THEN boot.redo ELSE Append(boot.redo, t.msg)]
  /\ UNCHANGED <<chain, db, up, accSeq, local, loop, handover, checkerVars, accepted, faults>>

(* The last block is past the tx timeout, or ten minutes passed.           *)
BootTimeout ==
  /\ Loading
  /\ Head(boot.todo) \notin indexed
  /\ boot' = [todo |-> <<>>, retry |-> boot.retry,
              redo |-> boot.redo \o MsgSeq(boot.todo)]
  /\ UNCHANGED <<chain, db, up, accSeq, local, loop, handover, checkerVars, accepted, faults>>

(* All remaining transactions are sent again; of each account the chain    *)
(* takes those that continue its sequence, up to some point.  A query that *)
(* fails for another reason only counts a retry; after the last one the    *)
(* start is given up.                                                      *)
Rejoins(upto) ==
  \A a \in Accounts :
    /\ upto[a] >= checkSeq[a]
    /\ \A s \in checkSeq[a]..(upto[a] - 1) :
         \E t \in Elems(boot.todo) : From(t) = a /\ t.seq = s

(* Faulty variant: the last retry is not the last.                         *)
BootRetryForever(upto) ==
  /\ Loading
  /\ Head(boot.todo) \in indexed => upto = checkSeq
  /\ Rejoins(upto)
  /\ boot.retry <= MaxRetryCount
  /\ mempool' = mempool
  /\ checkSeq' = checkSeq
  /\ boot' = [boot EXCEPT !.retry = @ + 1]
  /\ UNCHANGED <<chainSeq, blocks, indexed, db, up, accSeq, local, loop, handover,
                 checkerVars, accepted, faults>>

BootRetry(upto) ==
  /\ Loading
  /\ Head(boot.todo) \in indexed => upto = checkSeq
  /\ Rejoins(upto)
  /\ mempool' = mempool \cup {t \in Elems(boot.todo) :
                                t.seq \in checkSeq[From(t)]..(upto[From(t)] - 1)}
  /\ checkSeq' = upto
  /\ IF boot.retry < MaxRetryCount
     THEN /\ boot' = [boot EXCEPT !.retry = @ + 1]
          /\ UNCHANGED <<up, accSeq, local, loop, handover, checkerVars>>
     ELSE Stop
  /\ UNCHANGED <<chainSeq, blocks, indexed, db, accepted, faults>>

(* Faulty variant: what is to be sent again is only kept in memory.        *)
BootFinishUnsaved(unsent) ==
  /\ up = "boot"
  /\ boot.todo = <<>>
  /\ unsent \in Seq(processedDB)
  /\ InKeyOrder(unsent, processedDB)
  /\ pendingDB' = {}
  /\ order' = boot.redo \o unsent
  /\ feed' = [feed EXCEPT !["reload"] = boot.redo \o unsent]
  /\ up' = "run"
  /\ boot' = NoBoot
  /\ UNCHANGED <<chain, processedDB, accSeq, local, loop, mutex, checkerVars,
                 accepted, faults>>

BootFinish(unsent) ==
  LET ms == boot.redo \o unsent IN
  /\ up = "boot"
  /\ boot.todo = <<>>
  /\ unsent \in Seq(processedDB)
  /\ InKeyOrder(unsent, processedDB)
  /\ pendingDB' = {}
  /\ processedDB' = processedDB \cup Elems(boot.redo)
  /\ order' = ms
  /\ feed' = [feed EXCEPT !["reload"] = ms]
  /\ up' = "run"
  /\ boot' = NoBoot
  /\ UNCHANGED <<chain, accSeq, local, loop, mutex, checkerVars, accepted, faults>>

-----------------------------------------------------------------------------

Init ==
  /\ chainSeq = StartSeq
  /\ checkSeq = chainSeq
  /\ mempool = {} /\ blocks = {} /\ indexed = {}
  /\ processedDB = {} /\ pendingDB = {} /\ order = <<>>
  /\ up = "run"
  /\ accSeq = chainSeq
  /\ local = <<>>
  /\ phase = "idle" /\ cur = NoMsg
  /\ feed = [f \in Feeders |-> <<>>]
  /\ mutex = "free"
  /\ checker = "poll" /\ errors = 0 /\ lastBlock = "new"
  /\ boot = NoBoot
  /\ accepted = {}
  /\ faults = 0

Batches == UNION {[1..n -> Msgs \ accepted] : n \in 1..MaxBatch}
Listings(S) == [1..Cardinality(S) -> S]

(* The sequence numbers up to which a resent transaction may bring a.      *)
Ends == UNION {{checkSeq[a] : a \in Accounts}, {t.seq + 1 : t \in pendingDB}}

ChainNext ==
  \/ \E t \in mempool, code \in Codes : Include(t, code)
  \/ EmptyBlock
  \/ \E r \in blocks : IndexTx(r.tx)
  \/ \E t \in mempool : Evict(t)

FeedNext ==
  \/ \E h \in Handlers : \E ms \in Batches : CommitBlock(h, ms)
  \/ \E f \in Feeders : Lock(f) \/ Send(f)

LoopNext ==
  \/ Broadcast \/ BroadcastAckLost \/ SequenceMismatch \/ IgnoredError
  \/ CommitPending \/ CommitFails

CheckerNext ==
  \/ CheckLater \/ CheckDiscards \/ CheckFound \/ CheckPanics \/ CheckNotFound
  \/ RebuildPendingTxs \/ Rebroadcast \/ RemovePendingTxsUntil

BootNext ==
  \/ Crash
  \/ \E todo \in Listings(pendingDB) : Initialize(todo)
  \/ BootFound \/ BootTimeout
  \/ \E upto \in [Accounts -> Ends] : BootRetry(upto)
  \/ \E unsent \in Listings(processedDB) : BootFinish(unsent)

Next == ChainNext \/ FeedNext \/ LoopNext \/ CheckerNext \/ BootNext

Spec == Init /\ [][Next]_vars

-----------------------------------------------------------------------------

(* Every variable has its type; a message is in the loop exactly while the *)
(* loop works, only saved messages reach the database, and the retries of  *)
(* loadPendingTxs end at MaxRetryCount.                                    *)
TypeOK ==
  /\ chainSeq \in [Accounts -> Nat] /\ checkSeq \in [Accounts -> Nat]
  /\ mempool \subseteq Tx /\ indexed \subseteq Tx
  /\ blocks \subseteq [tx : Tx, code : Codes]
  /\ processedDB \subseteq Saved /\ pendingDB \subseteq SavedTx
  /\ order \in Seq(Msgs)
  /\ up \in {"down", "boot", "run"}
  /\ accSeq \in [Accounts -> Nat]
  /\ local \in Seq(Tx)
  /\ phase \in {"idle", "handle", "sent"}
  /\ cur \in Msgs \cup {NoMsg}
  /\ phase # "idle" => cur \in Msgs
  /\ feed \in [Feeders -> Seq(Msgs)]
  /\ mutex \in Feeders \cup {"free"}
  /\ checker \in {"poll", "rebuild", "rebroadcast", "mismatch"}
  /\ errors \in 0..(MaxErrors + 1)
  /\ lastBlock \in {"new", "seen"}
  /\ boot \in [todo : Seq(SavedTx), redo : Seq(Saved), retry : 0..MaxRetryCount]
  /\ accepted \subseteq Msgs
  /\ faults \in 0..MaxFaults

(* Every message a handler committed with Save = true is still in the      *)
(* database, as a message or as a pending transaction, or was executed:    *)
(* whatever mixture of crashes, lost answers, evictions, rebuilds and      *)
(* sequence corrections happened since.                                    *)
NoSavedMsgLost ==
  \A m \in accepted \cap Saved :
    m \in processedDB \cup MsgsOf(pendingDB) \cup Executed

(* A saved message is in the database, in the mempool or executed: if not, *)
(* nobody will ever deliver it.  RemovePendingTxsUntil takes a consumed    *)
(* sequence for a processed transaction.                                   *)
NoSavedMsgForgotten ==
  \A m \in accepted \cap Saved :
    m \in processedDB \cup MsgsOf(pendingDB) \cup Executed \cup MsgsOf(mempool)

(* The pending transactions of an account carry ascending sequences below  *)
(* the one the account signs with next: handleMsgError never moves the     *)
(* account back onto a sequence that a pending transaction still claims.   *)
SequencesAscend ==
  /\ \A i, j \in 1..Len(local) :
       i < j /\ From(local[i]) = From(local[j]) => local[i].seq < local[j].seq
  /\ \A i \in 1..Len(local) : local[i].seq < accSeq[From(local[i])]

(* While the bot runs, the pending transactions in the database are the    *)
(* saved ones in memory, hash for hash, and no message is recorded both as *)
(* unsent and as pending: a restart at any moment resumes from what the    *)
(* checker was watching.                                                   *)
DBMatchesMemory ==
  up = "run" =>
    /\ pendingDB = {t \in Elems(local) : t.msg \in Saved}
    /\ processedDB \cap MsgsOf(pendingDB) = {}

(* The broadcaster implements the outbox.                                  *)
Promise == INSTANCE Outbox WITH
  Msgs <- Saved,
  outbox <- processedDB \cup MsgsOf(pendingDB),
  delivered <- Executed \cap Saved

ImplementsOutbox == Promise!Spec

-----------------------------------------------------------------------------
(* Liveness.  Blocks keep coming and take what the mempool holds, a tx in  *)
(* a block is indexed in the end, requests succeed in the end, the bot is  *)
(* restarted after it stopped, and the timeout of a pending transaction    *)
(* passes in the end.  Faults are finite.                                  *)

Fairness ==
  /\ WF_vars(\E t \in mempool, code \in {"ok", "ignored"} : Include(t, code))
  /\ WF_vars(EmptyBlock)
  /\ WF_vars(\E r \in blocks : IndexTx(r.tx))
  /\ WF_vars(\E f \in Feeders : Lock(f) \/ Send(f))
  /\ WF_vars(LoopNext /\ UNCHANGED faults)
  /\ WF_vars(CheckFound)
  /\ WF_vars(CheckPanics)
  /\ WF_vars(CheckNotFound)
  /\ WF_vars(RebuildPendingTxs)
  /\ WF_vars(Rebroadcast)
  /\ SF_vars(Rebroadcast /\ checkSeq' # checkSeq)
  /\ WF_vars(RemovePendingTxsUntil)
  /\ WF_vars(\E todo \in Listings(pendingDB) : Initialize(todo))
  /\ SF_vars(BootFound)
  /\ SF_vars(BootTimeout)
  /\ WF_vars(\E unsent \in Listings(processedDB) : BootFinish(unsent))

FairSpec == Spec /\ Fairness

(* Every saved message a handler committed is executed in the end.         *)
SavedMsgsExecuted ==
  \A m \in Saved : m \in accepted ~> m \in Executed
=============================================================================
