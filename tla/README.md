# A TLA+ model of the OPinit bots

OPinit bots connect an L1 chain (the host) to an L2 rollup (the child). The
*executor* relays deposits and oracle data from L1 to L2, proposes outputs of L2
on L1 and publishes L2 blocks on a data availability chain. The *challenger*
replays both chains and records where the executor was wrong or late. Both are
long-running Go programs that keep their progress in LevelDB, talk to nodes that
may drop, delay or forget requests, and are expected to survive being killed at
any moment. The modules here are about that: what is in memory, what is in the
database, what the chain knows, and in which orders these change.

## The system and its parts

| part | code | model |
|---|---|---|
| broadcaster: signs, sends and tracks transactions | `node/broadcaster` | `Broadcaster`, `Outbox` |
| transaction checker | `node/tx_checker.go` | `Broadcaster` |
| block loop, begin/tx/event/end block handlers | `node/*.go` | in each bot's module: `Executor`, `BatchSubmitter`, `Challenger` |
| executor host and child: deposits, bridge updates, output proposals, queries | `executor/host`, `executor/child`, `provider` | `Executor`, `Events` |
| withdrawal tree | `merkle` | `Merkle` |
| oracle relay | `executor/oraclerelay` | `Executor` |
| start heights, reset-heights, reset-db | `executor/executor.go`, `executor/db.go` | `Executor` |
| database migrations | `executor/db.go` | `Migrations` |
| batch submitter, choice of the DA node | `executor/batchsubmitter`, `executor/types/batch.go` | `BatchSubmitter`, `BatchData` |
| challenger: pending events, challenges, reset-heights | `challenger` | `Challenger` |
| LevelDB with stages | `db` | a stage commit is one atomic write |
| Celestia messages, RPC, keys, server, metrics, command line, e2e | `executor/celestia`, `node/rpcclient`, `keys`, `server`, `cmd`, `e2e` | not modelled |

How they interact: a block handler of the executor derives messages from a block,
commits them together with the synced height in one stage, and then hands them to
the broadcaster of the *other* chain. The broadcaster signs each with the next
sequence of its sender, sends it, and records it as pending; the checker polls
the oldest pending transaction and removes it once the chain has it. A restart
rebuilds all memory from the database and the chain.

`PROJECT.json` lists every part with its source files, the hazards of the code at
the line where they bite, and the source lines behind each definition.

## Broadcaster

State (`Broadcaster.tla`): the chain (`chainSeq`, `checkSeq`, `mempool`, `blocks`,
`indexed`), the node's database (`processedDB`, `pendingDB`, `order`), and memory
(`accSeq`, `local`, the loop's `phase` and `cur`, the messages waiting to be handed
over in `feed` with the `mutex`, the checker's `checker`, `errors`, `lastBlock`, and
what `loadPendingTxs` works on in `boot`). A message stands for one `ProcessedMsgs`
record, a transaction for one `PendingTxInfo`; its hash is given by message,
sequence and memo. Database keys are timestamps; the model keeps only their order.

| actions | code |
|---|---|
| `CommitBlock`, `Lock`, `Send` | end block handlers, `BroadcastProcessedMsgs`, `BroadcastPendingProcessedMsgs` |
| `Broadcast`, `BroadcastAckLost`, `SequenceMismatch`, `IgnoredError`, `CommitPending`, `CommitFails` | `Start`, `handleProcessedMsgs`, `handleMsgError` |
| `CheckLater`, `CheckDiscards`, `CheckFound`, `CheckNotFound`, `RebuildPendingTxs`, `Rebroadcast`, `RemovePendingTxsUntil`, `CheckPanics` | `txChecker`, `CheckPendingTx`, `RemovePendingTx(sUntil)`, `RebuildPendingTxs` |
| `Crash`, `Initialize`, `BootFound`, `BootTimeout`, `BootRetry`, `BootFinish` | end of the process, `Initialize`, `prepareBroadcaster`, `loadPendingTxs`, `loadProcessedMsgsBatch` |
| `Include`, `EmptyBlock`, `IndexTx`, `Evict` | external: the chain |

The chain is external: CheckTx accepts the next sequence of its check state,
blocks take an account's transactions in order, a mempool that drops a transaction
drops the later ones of the account, the tx index may lag behind the blocks, and a
message that was executed before fails with an error that the bots ignore. There
is one mempool; gossip between several is not modelled.

`Outbox.tla` is the abstract promise to the handlers: an accepted message stays in
durable storage until it is executed, and what was executed and dropped does not
come back.

### Runs

Two messages are enough for a transaction that is followed by another one of the
same account, which is what eviction, rebuilding and cutting the list are about.
Faults are bounded by `MaxFaults`; each fault kind may be any of them.
`MaxErrors = 1` and `MaxRetryCount = 2` stand for the larger constants of the code:
what matters is that there is an attempt before and one after the limit.
`MaxMemo` bounds how often one transaction is rebuilt. The bot may have nothing
left to do, so deadlock is not checked.

| run | shows |
|---|---|
| `broadcaster_one_account` | two faults, one account: types, `NoSavedMsgLost`, `SequencesAscend`, `DBMatchesMemory`, and that the broadcaster implements `Outbox` |
| `broadcaster_two_accounts` | the accounts of base and oracle in one list: `SequencesAscend` and `DBMatchesMemory`, failing transactions included |
| `broadcaster_live` | one fault of any kind: every saved message is executed in the end |
| `broadcaster_other_sender` | violated: records of another account are deleted as processed |
| `broadcaster_failed_tx` | violated: a transaction that failed in its block is deleted as processed |
| `broadcaster_sequence_gap` | violated: a lost answer and an eviction leave a gap that is never filled |

The three violated runs state `executor/README.md:180` ("if ProcessedMsgs or Txs
cannot be processed due to an interrupt or error, it is guaranteed to be read from
the DB and processed") of the code; the findings in `PROJECT.json` describe the
behaviours. They also say why the passing runs and the theorems assume one account
and no failing transaction where they do.

Fairness (`Fairness`): blocks keep coming and take what the mempool holds; a
transaction in a block is indexed in the end; the loop, the feeders and the checker
are tickers and goroutines that keep running; a request that is tried again and
again succeeds in the end (strong fairness of an accepted `Rebroadcast`,
`BootFound`, `BootTimeout`); a stopped bot is restarted. Faults are finitely many.

### Proofs

For all values of the constants, that is for any number of messages, handlers and
faults:

* `TypeCorrect` (`BroadcasterProofs`): `Spec => []TypeOK`. Not inductive by itself:
  the checker keeps the oldest pending transaction between its steps, so `TypeInv`
  adds that the list is not empty meanwhile.
* `SavedMsgsKept` (`BroadcasterProofs`): `Spec => []NoSavedMsgLost`, assuming
  `SingleAccount` and `NoFailures`.
* `SequencesNeverReused` (`BroadcasterProofs`): `Spec => []SequencesAscend`, under
  the same assumptions.
* `MessagesInPlace` and `DatabaseMatchesMemory` (`BroadcasterRefines`):
  `Spec => []DBMatchesMemory`, for any accounts and with failing transactions.
* `OutboxImplemented` (`BroadcasterRefines`): `Spec => ImplementsOutbox`, assuming
  `SingleAccount` and `NoFailures`. `Outbox` has no fairness, so this is step
  simulation.

The inductive invariant (`IInv`, `BroadcasterProofs`) is about *slots*: a slot is a
sequence number of the account. The dangerous step is `RemovePendingTxsUntil`, which
deletes records because the chain consumed their sequences. It loses nothing only
if whatever the chain took at a sequence carried the message of the record that
claims it. So the invariant says: everything in the mempool or being tracked (the
pending list, the transaction just sent, what the restart is going through) that
shares a slot shares its message (`PoolInv`, `TrackInv`); a tracked slot below the
chain's sequence has an executed message; the mempool lies between the chain's
sequence and the check state's; the loop's next sequence is above all of the list
(`PhaseInv`, `UpdateAbove`); the restart accounts for every pending record
(`BootInv`); and what the index finds was executed (`IndexInv`). The proofs go
action by action: `IncludeLoss`/`ChainLoss`, `FeedLoss`, `LoopLoss`, `CheckerLoss`,
`BootLoss`, put together in `InductiveInvariant`.

`DBMatchesMemory` has an invariant of its own (`PlaceInv`, `BroadcasterRefines`), since
it holds where `IInv` does not. It follows each record through the places it can be
in: the messages a feeder holds (`FeedInv`), the one in the loop (`CurInv`), the pending
list, whose saved entries are those of the database (`PendInv`), and a start that has
gone through part of them (`LoadInv`); a process that is not running holds nothing
(`DownInv`), and nothing is anywhere that was not accepted (`AcceptInv`). No message is
in two places, so removing it in one leaves the others right.

The refinement maps the state to the messages the database holds and those the chain
has executed. Every step accepts, delivers, drops or leaves both as they are. A drop is
allowed in `Outbox` only after execution; that is `NoSavedMsgLost` of the state *after*
the step (`Shrinks`), so the theorem rests on `SavedMsgsKept` and `MessagesInPlace`.

Liveness (`SavedMsgsExecuted`) and `SequencesAscend` for several accounts are
model-checked only.

### Left out

The commit mode of `BroadcastTx` (used when a transaction must be in a block before
the loop goes on), the event handlers the checker calls for nodes that process no
blocks, gas and signatures, timestamps as numbers, and several mempools.

## Executor

The host node reads L1 and saves messages for L2: a deposit to finalize, the bridge
configuration after an update, the prices. The child node reads L2, inserts every
withdrawal into the working tree, and when the output interval has passed, or at the
block of an output that is already on L1, finalizes the tree and saves a proposal for
L1. A block is committed with its messages and the synced height in one stage.

`Executor.tla` composes both nodes, the oracle relay, the start of the process and the
two chains. It extends `Events` (reading event attributes), `Merkle` (the tree and its
part of the database) and `Migrations`. The broadcasters appear as what `Outbox`
promises, queues (`hostDB.msgs`, `childDB.msgs`) that the chains execute in order.

A reset deletes the records of these messages and not what was sent: the model chooses
how many of the first ones are in the mempool by then (`Sent`) and keeps them in the
`pool` of the chain. The chain executes the pool before any new message, because a
broadcaster that starts again is told the next sequence of the account behind what is
in the mempool; a transaction that the mempool loses is one of those not sent.

State: the chains (`l1`, `l2`); per node its part of the database (`hostDB`, `childDB`:
synced height, messages to send, status, working and finalized trees, nodes,
withdrawals by sequence and by address) and its memory (`host`, `child`, `relay`);
`pc` and `start` for the goroutine that starts the process. `first` is history: from
which blocks the database was built. `cfg` holds the configuration, what the users of
the chains do and the bounds on faults.

| actions | code |
|---|---|
| `StartOutput`, `StartHeights`, `InitializeHost`, `InitializeChild`, `InitializeWithdrawals` | `Initialize`, `getNodeStartHeights` of `executor/executor.go`, `Initialize` of the nodes and providers; each is a separate step because a stop may come between them and each has written something |
| `HostBlock`, `HostBlockFails` | `executor/host/handler.go` with every event handler of the host and the commit; a failing handler or commit |
| `ChildStatus`, `ChildBlock`, `ChildTryLater`, `ChildCommitFails` | `executor/child/handler.go`, `withdraw.go` (`prepareTree`, `prepareOutput`, `handleTree`, `handleOutput`); `ErrIgnoreAndTryLater`; a commit that fails after the output times changed in memory |
| `RelayTarget`, `RelaySend` | `executor/oraclerelay/oracle_relay.go` |
| `ResetHeights`, `ResetDB` | `executor/db.go`, `cmd/opinitd/reset.go` |
| `DisableDelete` | external: the operator sets `disable_delete_future_withdrawal` while the bot is down |
| `Crash` | external: the process ends at any point |
| `L1Tx`, `L1Output`, `L1Pool`, `L2Block`, `L2Msg`, `L2Pool` | external: the chains. L1 takes the next output index with a later L2 block; L2 finalizes the next deposit and ignores an older one |

A hash is the sequence of leaves below it, so that equal roots mean equal trees; the
symmetric `NodeHash` orders its arguments as the code does. The text of a number in an
event is that number, negative when it cannot be read. The time of an L1 block is the
height of L2 at the time.

Queries are operators: `QueryWithdrawal` with `GetProofs`, and `QueryWithdrawals` with
pages in both directions. `QueryOutputByL2BlockNumber` is the code's bisection.

### Run

`executor_crash` starts from eight scenarios (`MCExecutor`): deposits of two bridges
with attributes reordered, repeated and unknown; withdrawals with one, two and three in
a tree; a bot configured to start at L2 height 3; one that may be told not to delete
future withdrawals; deposits and withdrawals together; updates of every part of the
bridge configuration; prices by the relay and by the older oracle messages. The first
four allow one reset, the third one a crash before and after it, the others one crash;
the scenarios after them allow a crash and, but for the prices, a failing commit. Trees of one to four leaves take every path through `fillLeaves`; a crash
during the start after a reset is where the deletions of the start can disagree with
the blocks handled afterwards. All of what "Read with care" names below happens in
this run: proposals and deposits of before a reset that are executed at every point of
the replay, old proposals, kept trees, and both panics.

| property | says |
|---|---|
| `DepositsKept`, `DepositsFinalized` | no deposit up to the host's synced height is neither on L2 nor saved; in the end none is outstanding |
| `NeverStuck` | no panic of the child but in the two cases named below, no gap in what waits for L2, no proposal that L1 would refuse for ever |
| `OutputsRight` | every output on L1 is the root of exactly the withdrawals since the previous one, compared with a tree computed level by level, up to the first output that overtook the child |
| `ProofsVerify` | a withdrawal whose output is on L1 has proofs, and they lead to that output's root, unless an output overtook the child or stale trees were kept |
| `WithdrawalsListed` | the pages of an address list each withdrawal once, in order |
| `MigrationsRestore` | the migrations turn the database of an older version into the one of this version |
| `HostFollows` | the status knows the last output; L2 gets the bridge configuration of L1 |
| `PricesRise` | prices go to L2 with rising L1 heights while the process runs |

Fairness (`FairSpec`) is weak fairness of the start, of the host's loop and of the
execution of messages on L2: a stopped bot is started again, the loop is driven by a
ticker and retries for ever, and L2 keeps executing. Nothing is assumed of the child's
loop, of the relay or of the users, so no deposit waits for a withdrawal or an output.
It is written as "again and again not ready, or again and again taken",
since evaluating ENABLED of these actions is out of TLC's reach. The host's part has
no promise for a block whose handler fails, because the code repeats such a block.

Deadlock is not checked: users stop at some point and the bot has nothing to do.

### Read with care

Three things the code does not survive, or survives only after a replay. The
properties except them by name, so the run shows that nothing else goes wrong.

* **A proposal that outlives a reset** (`Overtaken`). `reset-heights` and `reset-db`
  delete records, and a proposal that is in the mempool of L1 is still executed. If
  that is before the replay comes to its L2 block, the child finds the output and ends
  the tree there. If it is after, and the child did not end its tree at that block,
  either the tree is still open, and every start panics at `executor/child/withdraw.go:162`
  (under the comment "this must not happened"), or the child ended it at a later block:
  its own proposal is then refused as old, the next output begins behind its tree, and
  the withdrawals in between are in no output. `OutputsRight` holds for every output up
  to the one that overtook the child, which is marked `late`.
* **`disable_delete_future_withdrawal`** (`NoTree`). With this option the start sets no
  tree to begin with (`provider/child/child.go:127`). A child that goes back to a height
  whose working tree it has goes on from there. One without it, on a fresh database or
  when it goes back to the beginning, panics at its first block (`withdraw.go:94`, under
  "must not happened"); `executor/README.md:90` does not say so.
* **Kept trees** (`StaleTrees`, `ReadsAgain`). With the option, finalized trees and
  withdrawals stay; without it, a start that has processed height 0 deletes working
  trees, nodes and withdrawals from the beginning but no finalized trees
  (`child.go:129`). During the replay `QueryWithdrawal` can find an old tree whose nodes
  are missing; an old tree that the replay does not end again stays. `ProofsVerify`,
  `WithdrawalsListed` and the second half of `MigrationsRestore` speak of databases in
  which every finalized tree is the one that ended at its block.
* **`Migration019_1`** decodes old working trees with the field name of the new version
  (`last_siblings` for `height_data`), so it sees no siblings: the roots of the finalized
  trees it makes are empty, and a working tree that it writes back has lost its
  siblings. It also counts from sequence 1. `MigrationsRestore` claims for it the
  places and blocks of the trees, not the roots, for a database that begins with the
  first L2 block.
* `DepositsFinalized` excepts a bot that has panicked, since the child's panic ends the
  host as well; `NeverStuck` says when that is. Outputs are not deleted on L1.
* Updates of the bridge before the L1 start height are not sent to L2 (`HostFollows`
  speaks of the blocks since), and a failed commit at the end of a tree delays that
  output by an interval.

## Batch submitter

`BatchSubmitter.tla` models the raw block loop that fills the batch file. What survives
a stop is in two places that no commit joins: the file (`file`, with `torn` while a
gzip member is unfinished) and the database (`synced`, `saved`). The handler of a block
is therefore several steps, with a stop between any two: `prepareBatch`, `handleBatch`,
`measureBatch`, `writeCommit`, `createBatchMsgs`, `Commit`. A stop is `Kill`, which
leaves the file as it is, or `Close` and `Exit`, the signal or panic that closes the
writer while the handler may be anywhere. `HandlerFails` and `InitializeFails` are
failing requests. The change to a new batch info is `switchWait`, `switchEmpty`,
`switchSave`, `switchSynced`; `Open`, `EmptyAtStart`, `InitializeNode` are the start;
`ResetHeight` is `opinitd reset-height executor batch`.

`BatchData.tla` has the pure parts: the three conversions of a block that leave out
what L1 holds, the division into chunks, and the bytes of headers, chunks and genesis
messages with their decoders. Bytes are digits of a small base and words short, so that
an instance meets the limits. Sizes are counted in items of the file.

| run | shows |
|---|---|
| `batch_faults` | four blocks, two changes of the batch info, two faults: `HeaderAnnouncesChunks`, `NoBlockSkipped`, `BatchHoldsItsBlocks` (each block restorable from L1 to what L2 produced), `SavedMsgsDecode`, and `CatchesUp` |
| `batch_failed_start` | violated: a start that fails after emptying a corrupted file leaves the old synced height, and the next batch lacks the blocks that were in the file |

Four blocks make a full batch by size and one by time, with a third begun; two faults
allow one during the recovery from another. The transactions meet every case of the
conversions: known and unknown, direct and in an `Exec`, one and several messages,
headers of this and of another chain, signatures present, absent and beyond one byte.

Fairness: the start, the status request, the handler, the exit after a close and the
execution on the DA chain keep happening (tickers, retries, and `Outbox`). It is weak
fairness, written as for the executor: with `WF_vars` TLC needs twice the time. The
`...Ready` predicates were compared with ENABLED in every state of `batch_faults`.

Two windows are excluded from `batch_faults` by `MayStop` and `MayKill`, because the
code does not survive a stop in them. In the first a new batch info waits
(`StopDuringUpdate`): a start then takes it from the queue without submitting again
from the last finalized output, as `executor/README.md:319` describes it. In the second
the file was emptied and its blocks are not read again yet (`StopWhileExposed`); that
one is the run `batch_failed_start`. Known and allowed by the properties: a block may
be in a batch twice after a failure or a close between its write and the commit, and
such a batch may have more than `MaxChunks` chunks; after a failure between the close
of the writer and the commit every retry fails until the next start (`WriterLost`); a
kill in the first block after a finalized batch submits the old batch again.

### Proofs

For any blocks, batch infos, limits, chunk sizes and any number of faults:

* `BatchTyped` (`BatchTypes`): `Spec => []TypeOK`.
* `BlocksCovered` (`BatchCover`): `Spec => []NoBlockSkipped`, assuming
  `~StopDuringUpdate` and `OneInfoPerOutput`. A stop while the file lacks a block may
  happen here: such a batch lacks the block, but its header claims it.
* `ChunksAnnounced` (`BatchContents`): `Spec => []HeaderAnnouncesChunks`, assuming
  `~StopDuringUpdate` and `~StopWhileExposed`.
* `BatchesHoldBlocks` (`BatchContents`): `Spec => []BatchHoldsItsBlocks`, under the same
  two assumptions. `batch_failed_start` shows that the second one is needed.

`OneInfoPerOutput` says that no two batch infos name the same output. The code is not
of one mind about two that do: `UpdateBatchInfo` keeps the first in the queue, and
`DequeuePassed` at a start takes the last. The instance of `batch_faults` satisfies it.

`TypeInv` adds to the types what each indexing step relies on: a running process has a
batch info, a change of the info has a next one, and the block that is handled lies
within the bulk and within `Blocks`. `PlaceInv` relates the three heights of the
program: the batch in the database starts at most one block after what is synced, a
finished one ends there, and the handler works on the block after it. That is what a
stop between `switchSave` and `switchSynced`, or between the reset of the file and its
truncation, could break. `HeaderInv` says that a header is staged with the range of the
local batch info exactly when the batch ends.

`NoBlockSkipped` then needs to know which batch info the next start will take.
`InfoInv` says that the queue in memory is a segment of the infos on L1, and `CoverInv`
that the saved batches cover everything from the first block of the info in force up to
where the current batch starts; for a process that is down, or has still to find its
place, of the info that `DequeuePassed` is going to choose (`Resumes`).

The contents rest on `ReadInv`: at each step of the handler the file holds every block
from the start of the batch up to the block before, or up to the one handled, and the
same of the database's view when the process is down and the file is not torn
(`Survives`); `DataInv`, the blocks are in order and no commit is without its block; and
`FlagInv`, when the file is torn and its writer closed. The limit on chunks comes from
counting: data that holds `n` heights in order has at least `n` items (`Pigeonhole`), so
a batch that `checkBatch` has not ended has room for two items more. `ChunkFacts` and
`ChunksFlatten` say that the chunks divide the file and give it back, and `BlankedAgain`,
`IndexFacts` and the lemmas after them that what the three conversions leave out is
what a reader finds on L1: `Restore` undoes `ConvertBlock`.

`BatchAssumption` has the ranges of the configuration (a chunk has room for a block and
a commit, the DA chain is one that `makeDANode` knows). `PayloadsAssumption` says where
the data that the conversions leave out comes from: an oracle message carries the
payload of the L1 block it relays, a client update the validators of the L1 header.
Without it a batch could not be read back; the code takes it for granted when it
empties these fields. It also states the fields that messages have.
`CommitsAssumption` bounds the validators of L1 by what a compacted signature can refer
to, which the code assumes as well (`data_conversion.go:209`); the error it returns
beyond that, `validator set length is greater than 65536`, is not modelled.

`SavedMsgsDecode` (the bytes of headers, chunks and genesis messages) and `CatchesUp`
(liveness) are model-checked only.

## Challenger

The host loop and the child loop of the challenger each handle one block at a time
and share one database. The host writes what it reads on L1 into the child's
pending events; the child compares L2 with them. A challenge is committed as
pending with the block that raised it, handed over an unbuffered channel, and
recorded by the challenge handler, which three senders feed: the two loops and a
goroutine with the challenges an earlier run left.

State (`Challenger.tla`): the two chains (`chains`, fixed: a block the bot has not
read is the same to it as one that does not exist yet), the database (`hostSynced`,
`childSynced`, `treeIndex`, `hostPending`, `childPending`, `pendingChallenges`,
`challenges`), and memory (`hostMem`, `childMem`, what each loop computed in
`hostWork` and `childWork`, `starting`, `handling`, `initialL1Sequence`). An event is
a type and a number with a value; a value stands for all fields that `Equal`
compares. An output event is one Go object in the maps of both loops: `shared` says
for which outputs that is so, and a timeout flag set by one loop shows in the other.
The flag is read and set without a lock, so `CheckTimeout` may miss one that the
other loop is just setting.

| actions | code |
|---|---|
| `HostStage`, `HostCommit`, `HostCommitFails`, `HostUpdate`, `HostSend`, `HostDone` | `challenger/host` block handlers, in the block loop of `node/process.go` |
| `ChildStage`, `ChildCommit`, `ChildCommitFails`, `ChildUpdate`, `ChildSend`, `ChildDone` | `challenger/child` block handlers; `ChildStage` is disabled while the code returns `ErrIgnoreAndTryLater` |
| `SendLoaded`, `HandleChallenge` | `Start`, `challengeHandler` |
| `Start`, `ResetHeights`, `Crash` | `Initialize` of challenger, host and child; `challenger/db/db.go`; external: the process ends |

The order of the challenges of one block on the channel is left open. Withdrawals
enter as the root that replaying L2 gives (`Right`). The L2 start height is 1.

| run | shows |
|---|---|
| `challenger_crash` | eight pairs of chains, two stops or resets and one failing commit: `EventsKept`, `WrongChallenged`, `TimeoutChallenged`, `NoSilentTimeout`, `ChallengesFounded`, `MemoryMatchesDB`, `NoTreePassed`, and the liveness of `PendingHandled` and `AllBlocksSynced` |
| `challenger_skipped_deposit` | violated: after a restart the host passes a deposit the child still has to compare |
| `challenger_same_id` | violated: a mismatch and a timeout of one output share a pending record, and a stop loses one |

The chains of `MCChallenger` have three or four blocks: a deposit finalized late and
an output that no other follows in time (`Late`), deposits in time (`Punctual`), and
oracle updates of which L2 leaves one out, with two outputs in one block (`Prices`),
each with right and wrong values. That is enough for one event to be late and then
wrong, and for both loops to raise a challenge for one output. Two stops allow a stop
during the recovery from the first. The chains are finite, so deadlock is not checked.

The properties are about event ids where the code keys by event id: `WrongChallenged`
says there is a challenge for the event, `MismatchesRecorded` (violated) that there is
one for each reason. `EventsKept` excepts a deposit in the next L2 block, which is
what the violated `NoEventDropped` is about. `NoSilentTimeout` assumes that no commit
failed: the flag is set before the commit and keeps a retry from raising the timeout.

Fairness: both loops retry for ever; the handler always returns to the channel, which
serves blocked senders in turn (strong fairness of the sends); a stopped bot is
restarted.

`ResetHeights` sets both nodes back and empties their pending events; pending
challenges stay, because the code looks for them under the prefix of the node, where
they are not. The replay raises its challenges again: `ChallengesFounded` and
`PendingHandled` say that none is without ground and none is left. The next start
deletes recorded challenges that are not before the first blocks. A reset of the host
alone is not modelled: it would add events again that the child has settled, and they
would time out.

Left out: start heights above 1, outputs that are deleted and proposed again, a price
hash shared by several L1 blocks, the latest challenges kept for the status.

### Proofs

For any chains that satisfy `ChainsAssumption` and any number of stops, resets and
failing commits, all seven invariants of the run and the types:

* `TimeoutsChallenged` (`ChallengerMemory`): `Spec => []TimeoutChallenged`. The mark of
  a late event and its challenge are written in one commit, so `TimeoutInv` says that
  what the child has staged as late is among the challenges it has staged. The other
  danger is the start, which deletes recorded challenges while a loop has no synced
  height. The child stages nothing before the host has synced an output, hence a child
  with a synced height has a host with one; and a child without one has marked nothing.
* `MemoryFollowsDatabase` (`ChallengerMemory`): `Spec => []MemoryMatchesDB`. Both loops
  change the child's events, each in its database at the commit and in memory later, so
  between these steps neither side is a function of the other's last state. `MatchInv`
  says by how much they differ: the database is ahead by the new events of a committed
  host block (`Added`) and without those a committed child block settled (`Removed`).
  `HostInv` and `ChildInv` keep the two apart: the host's are in no handler's memory,
  the child's were in memory when the block was staged. Each step then is an instance
  of one lemma on maps (`MatchAdd`, `MatchAdded`, `MatchMoved`, `MatchMarked`,
  `MatchDrop`, `MatchSettled`, `MatchFlag`).
* `MarksAnswered` (`ChallengerMemory`): `Spec => []NoSilentTimeout`. A mark in memory is
  set before the commit that records its challenge, by either loop and, for an output,
  in an object that both hold. `SilentInv` says which staged block is about to commit
  the challenge of a mark that has none yet.
* `ChallengerTyped` (`ChallengerEvents`): `Spec => []TypeOK`; `TypeInv` adds that pending
  events, wherever they are, carry the value and time of their L1 event, and that every
  challenge, wherever it is, is one.
* `TreesInTime` (`ChallengerEvents`): `Spec => []NoTreePassed`. `TreeInv` says that the
  working tree splits the outputs on L1, those the host has not read included, at the
  child's height: the ones before it are replayed, the others close later. It holds
  because the child waits for the output its tree belongs to.
* `NothingForgotten` (`ChallengerEvents`): `Spec => []EventsKept`. `PendingInv`: what is
  pending is not settled, so a replayed block finds it; `QueueInv` and `SequenceInv`: the
  host leaves out deposits only that the child's next block or one before it settles.
* `DifferencesChallenged` (`ChallengerEvents`): `Spec => []WrongChallenged`, from
  `TreeInv` (what the child compares is what the chains say), `PendingInv` and the commit
  of a challenge with its block.
* `NoUnfoundedChallenge` (`ChallengerEvents`): `Spec => []ChallengesFounded`. A challenge
  passes through seven places; `FoundedInv` holds of all of them (`AllChallenges`).
  `LastInv`, the host has only the last output pending, is what founds its timeouts.

`ChainsAssumption` is what the two chains see to: an event id occurs in one L1 block
(`UniqueEvents`: deposit sequences only grow, an oracle update is numbered by its
block), numbers of outputs and oracle updates are in block order (`NumbersInOrder`), a
later output covers more L2 blocks (`OutputsRise`), and L2 finalizes deposits one after
the other (`DepositsInOrder`). It leaves out what the model leaves out: an output that
is deleted and proposed again, and a price hash of several L1 blocks. The chains of the
run satisfy it (TLC evaluates the assumption), and TLC checked the inductive invariants
on them before they were proved.

## What is proved and what is only model-checked

Proved for every value of the constants: every safety property of the passing runs of
the broadcaster (under `SingleAccount` and `NoFailures` where the code needs them), of
the challenger and, `SavedMsgsDecode` apart, of the batch submitter, and the refinement
of `Outbox`. Proofs about numbers of steps, data or events go by induction over sets of
naturals (`Induction`), since the induction theorems of the library take an operator.

Model-checked only:

* liveness (`SavedMsgsExecuted`, `DepositsFinalized`, `CatchesUp`, `PendingHandled`,
  `AllBlocksSynced`), which is outside what the prover can do;
* the executor: `OutputsRight`, `ProofsVerify`, `WithdrawalsListed`, `MigrationsRestore`
  compare the database with a tree computed level by level, or with the one another
  version would have written, by the folds and recursive functions of `Merkle`, `Events`
  and `Migrations`: what those compute for every input is an induction over data;
* `SavedMsgsDecode`, whose encoders and decoders work byte by byte;
* `SequencesAscend` for several accounts.

## Not modelled

* **Celestia node, RPC client, keys, HTTP server, status, metrics, command line**: I/O,
  cryptography, configuration and read-only views. Their failures appear as failing
  requests where the callers handle them.
* **reset-height of one node** of executor or challenger, except of the batch submitter.
* **Clock readings as numbers** (`types/time.go`), which are the keys of saved messages.
* **Amounts as numbers**: a withdrawal of 2^64 or more (`provider/child/parse.go:141`).
* **Generated code and the end-to-end test harness.**
