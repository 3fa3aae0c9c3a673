--------------------------- MODULE BatchSubmitter ---------------------------
(***************************************************************************)
(* The batch submitter (executor/batchsubmitter/): one loop that reads L2  *)
(* blocks in bulk, converts each, appends it to a gzip file, and from time *)
(* to time closes the file, divides it into chunks and saves a header and  *)
(* the chunks as messages for the data availability (DA) chain.            *)
(*                                                                         *)
(* What survives a stop is in two places that no commit joins: the batch   *)
(* file, written block by block, and the database, written by the commit   *)
(* at the end of the block.  The file is unreadable (torn) from the first  *)
(* write of a gzip member to the Close of its writer; a start that finds   *)
(* it torn empties it and reads the batch again from its first block.      *)
(*                                                                         *)
(* A stop is a kill, which leaves the file as it is, or a signal or panic, *)
(* which closes writer and file while the handler of a block may be        *)
(* anywhere.  The broadcaster that sends saved messages is an Outbox: it   *)
(* keeps them until the DA chain has executed them, in order.              *)
(*                                                                         *)
(* Sizes are counted in items of the file: a block or a commit is one.     *)
(***************************************************************************)
EXTENDS BatchData, FiniteSets

CONSTANTS
  Blocks,             \* the L2 blocks, [time, txs]
  HostChain,          \* chain id of L1
  LastCommit,         \* signatures of the last commit of each L1 block
  L1Payload,          \* the payload of oracle messages and client updates
  FirstInfo,          \* the batch info the bridge was created with
  NewInfos,           \* batch infos that the L1 chain may set later
  Own,                \* address of the host's account
  Disabled,           \* DisableBatchSubmitter
  BatchStartHeight, MaxChunks, MaxChunkSize, MaxSubmissionTime, SubmissionInterval,
  QueryMax,           \* RAW_BLOCK_QUERY_MAX_SIZE
  Genesis,            \* the genesis file
  StopDuringUpdate,   \* whether the process may stop while a new batch info waits
  StopWhileExposed,   \* whether it may stop while the file lacks a synced block
  MaxFaults           \* bound: kills, signals, failures and resets

Infos == {FirstInfo} \cup NewInfos

(* A DA node exists for INITIA and CELESTIA only; makeDANode refuses other *)
(* chains.  A chunk has room for a block and the commit that follows it.   *)
ASSUME BatchAssumption ==
  /\ Len(Blocks) \in Nat /\ \A h \in 1..Len(Blocks) : Blocks[h].time \in Nat
  /\ BatchStartHeight \in 1..Len(Blocks) /\ QueryMax \in Nat \ {0}
  /\ MaxChunks \in Nat /\ MaxChunks > 1 /\ MaxChunkSize \in Nat /\ MaxChunkSize > 1
  /\ FirstInfo.l2 = 0 /\ Genesis \in Seq(0..(Byte - 1))
  /\ \A info \in Infos : info.l2 \in Nat /\ info.chain \in {"INITIA", "CELESTIA"}

(* What the conversions leave out is on L1: the payload of an oracle       *)
(* message is that of the L1 block it relays, the validators of a client   *)
(* update are those of the L1 header, and the signatures are kept or found *)
(* in the commit of the next L1 block.                                     *)
OracleTypes == {"UpdateOracle", "RelayOracleData"}
HasFields(m, fields) == m = [x \in DOMAIN m |-> m[x]] /\ fields \subseteq DOMAIN m
FromL1(m) ==
  /\ HasFields(m, {"type"})
  /\ m.type \in OracleTypes => HasFields(m, {"data"}) /\ m.data = L1Payload
MsgFromL1(m) ==
  /\ FromL1(m)
  /\ m.type = "Exec" =>
       HasFields(m, {"msgs"}) /\ HasFields(m.msgs, {}) /\ \A k \in DOMAIN m.msgs : FromL1(m.msgs[k])
  /\ m.type = "UpdateClient" /\ m.chain = HostChain =>
       /\ HasFields(m, {"chain", "height", "sigs", "vals"}) /\ m.vals = L1Payload /\ HasFields(m.sigs, {})
       /\ DOMAIN LastCommit[m.height + 1] = 1..Len(LastCommit[m.height + 1])
       /\ Len(LastCommit[m.height + 1]) \in Nat
TxFromL1(tx) ==
  /\ HasFields(tx, {"known", "msgs"}) /\ HasFields(tx.msgs, {})
  /\ tx.known => \A i \in DOMAIN tx.msgs : MsgFromL1(tx.msgs[i])

ASSUME PayloadsAssumption ==
  \A h \in 1..Len(Blocks) :
    LET txs == Blocks[h].txs
    IN  HasFields(txs, {}) /\ \A t \in DOMAIN txs : TxFromL1(txs[t])

(* "assume that the length of the validator set is less than 65536"        *)
(* (data_conversion.go:209): the error behind it is left out.              *)
ASSUME CommitsAssumption == \A h \in DOMAIN LastCommit : Len(LastCommit[h]) <= Byte * Byte

VARIABLES
  top,        \* height of L2
  hostInfos,  \* batch infos on L1
  seen,       \* how many of them the host loop has handled
  (* disk *)
  synced,     \* synced height in the database
  saved,      \* local batch info in the database
  file,       \* the batch file: [data, torn]
  outbox,     \* every message saved for the DA chain
  posted,     \* how many of them the DA chain has executed
  (* memory *)
  pc,         \* the step of the process, "down" when there is none
  closed,     \* Close has been called
  writer,     \* the gzip writer, "open" or "closed"
  height,     \* synced height of the node
  latest, bulkEnd,    \* L2 height at the last status query, end of the bulk
  local,      \* localBatchInfo
  batchInfos, \* queue of batch infos, the current one first
  msgs,       \* processedMsgs
  faults      \* what MaxFaults bounds

chain == <<top, hostInfos, seen>>
disk == <<synced, saved, file, outbox, posted>>
loop == <<latest, bulkEnd>>
memory == <<closed, writer, height, loop, local, batchInfos, msgs>>
vars == <<chain, disk, pc, memory, faults>>

InfoAt(start, last) == [start |-> start, end |-> 0, last |-> last, size |-> 0]
EmptyFile == [data |-> <<>>, torn |-> FALSE]
BlockItem(h) == [height |-> h, commit |-> FALSE,
                 txs |-> ConvertBlock(Blocks[h].txs, HostChain, LastCommit)]
CommitItem(h) == [height |-> h, commit |-> TRUE, txs |-> <<>>]
Appended(item) == [file EXCEPT !.data = Append(@, item), !.torn = TRUE]

Init ==
  /\ top = 1 /\ hostInfos = <<FirstInfo>> /\ seen = 1
  /\ synced = 0 /\ saved = InfoAt(0, 0) /\ file = EmptyFile
  /\ outbox = <<>> /\ posted = 0
  /\ pc = "down" /\ closed = FALSE /\ writer = "closed" /\ height = 0
  /\ latest = 0 /\ bulkEnd = 0
  /\ local = InfoAt(0, 0) /\ batchInfos = <<>> /\ msgs = <<>>
  /\ faults = 0

Fault ==
  /\ faults < MaxFaults
  /\ faults' = faults + 1

-----------------------------------------------------------------------------
(* The chains around the bot.                                              *)

Running == pc \notin {"down", "emptying", "opened"} /\ ~closed

L2Block ==
  /\ top < Len(Blocks)
  /\ top' = top + 1
  /\ UNCHANGED <<hostInfos, seen, disk, pc, memory, faults>>

(* An info takes the L2 block of the last output, so blocks do not fall.   *)
L1UpdateBatchInfo(info) ==
  /\ Running \/ StopDuringUpdate
  /\ info \notin Range(hostInfos)
  /\ Last(hostInfos).l2 <= info.l2 /\ info.l2 <= top
  /\ hostInfos' = Append(hostInfos, info)
  /\ UNCHANGED <<top, seen, disk, pc, memory, faults>>

Post ==
  /\ posted < Len(outbox)
  /\ posted' = posted + 1
  /\ UNCHANGED <<chain, synced, saved, file, outbox, pc, memory, faults>>

-----------------------------------------------------------------------------
(* Batch infos: the host loop appends, Initialize drops the passed ones.   *)

UpdateBatchInfo(queue, info) ==
  IF Last(queue).l2 >= info.l2 THEN queue ELSE Append(queue, info)

HostEvent ==
  /\ Running /\ seen < Len(hostInfos)
  /\ seen' = seen + 1
  /\ batchInfos' = UpdateBatchInfo(batchInfos, hostInfos[seen + 1])
  /\ UNCHANGED <<top, hostInfos, disk, pc, closed, writer, height, loop, local, msgs, faults>>

Passed(info, next) == info.l2 = 0 \/ info.l2 + 1 <= next
DequeuePassed(infos, next) ==
  LET run == {n \in 1..Len(infos) : \A i \in 1..n : Passed(infos[i], next)}
  IN  IF run = {} THEN infos ELSE SubSeq(infos, Max(run), Len(infos))

(* makeDANode: the node that gets the messages.                            *)
DANode(info) ==
  IF Disabled THEN "noop"
  ELSE CASE info.chain = "INITIA" /\ info.submitter = Own -> "host"
         [] info.chain = "INITIA" /\ info.submitter # Own -> "hostDA"
         [] info.chain = "CELESTIA" -> "celestia"

-----------------------------------------------------------------------------
(* Initialize.                                                             *)

(* Mutant: the node keeps its synced height when the file is reset.        *)
ResetBatchFileOnly(start) ==
  /\ local' = InfoAt(start, saved.last)
  /\ saved' = local'
  /\ height' = IF synced = 0 THEN start - 1 ELSE synced
  /\ pc' = "emptying"

ResetBatchFile(start) ==
  /\ local' = InfoAt(start, saved.last)
  /\ saved' = local'
  /\ height' = start - 1
  /\ pc' = "emptying"

checkBatchFileCorruption == file.data # <<>> /\ file.torn

Open ==
  /\ pc = "down"
  /\ closed' = FALSE
  /\ \/ /\ synced = 0
        /\ ResetBatchFile(BatchStartHeight)
     \/ /\ synced # 0 /\ checkBatchFileCorruption
        /\ ResetBatchFile(saved.start)
     \/ /\ synced # 0 /\ ~checkBatchFileCorruption
        /\ local' = saved /\ height' = synced /\ pc' = "opened"
        /\ UNCHANGED saved
  /\ UNCHANGED <<chain, synced, file, outbox, posted, writer, loop, batchInfos, msgs, faults>>

EmptyAtStart ==
  /\ pc = "emptying"
  /\ file' = EmptyFile
  /\ pc' = "opened"
  /\ UNCHANGED <<chain, synced, saved, outbox, posted, memory, faults>>

InitializeNode ==
  /\ pc = "opened"
  /\ writer' = "open"
  /\ batchInfos' = DequeuePassed(hostInfos, height + 1)
  /\ latest' = 0 /\ bulkEnd' = 0 /\ msgs' = <<>>
  /\ pc' = "idle"
  /\ UNCHANGED <<chain, disk, closed, height, local, faults>>

(* Two windows that a stop must not meet: a new batch info is on L1 and    *)
(* not yet in force, or the file lacks blocks that the database says are   *)
(* in it, since the file was emptied and the blocks are not yet read again.*)
Settled == seen = Len(hostInfos) /\ (Running => Len(batchInfos) = 1)
Held == {file.data[i].height : i \in DOMAIN file.data}
Exposed == saved.end = 0 /\ ~(saved.start..synced \subseteq Held)
MayStop ==
  /\ Settled \/ StopDuringUpdate
  /\ ~Exposed \/ StopWhileExposed
MayKill ==
  /\ Settled \/ StopDuringUpdate
  /\ ~Exposed \/ file.torn \/ StopWhileExposed

(* A query of Initialize fails, and the process with it.                   *)
InitializeFails ==
  /\ pc = "opened" /\ MayKill
  /\ Fault
  /\ pc' = "down"
  /\ UNCHANGED <<chain, disk, memory>>

-----------------------------------------------------------------------------
(* The loop and the handler of a block.                                    *)

(* Mutant: the last block of L2 is left for later.                         *)
BehindByTwo == height + 1 < top

Behind == height < top

(* Mutant: the bulk is not cut at the height of L2.                        *)
StatusPastLatest ==
  /\ pc = "idle" /\ ~closed /\ Behind
  /\ latest' = top
  /\ bulkEnd' = height + QueryMax
  /\ pc' = "block"
  /\ UNCHANGED <<chain, disk, closed, writer, height, local, batchInfos, msgs, faults>>

Status ==
  /\ pc = "idle" /\ ~closed /\ Behind
  /\ latest' = top
  /\ bulkEnd' = IF height + QueryMax > top THEN top ELSE height + QueryMax
  /\ pc' = "block"
  /\ UNCHANGED <<chain, disk, closed, writer, height, local, batchInfos, msgs, faults>>

Return == pc' = "idle" /\ UNCHANGED <<closed, writer, height, loop, local, batchInfos, msgs>>

NextIsReached == Len(batchInfos) > 1 /\ batchInfos[2].l2 < saved.start

(* Mutant: the block after the one being handled.                          *)
NextStartLate == height + 2

(* A new batch starts with the block being handled.                        *)
NextStart == height + 1

prepareBatch ==
  /\ pc = "block"
  /\ UNCHANGED <<chain, synced, saved, outbox, posted, closed, height, loop, batchInfos, faults>>
  /\ msgs' = <<>>
  /\ \/ /\ NextIsReached
        /\ local' = saved /\ pc' = "switch"
        /\ UNCHANGED <<file, writer>>
     \/ /\ ~NextIsReached /\ saved.end = 0
        /\ local' = saved /\ pc' = "prepared"
        /\ UNCHANGED <<file, writer>>
     \/ /\ ~NextIsReached /\ saved.end # 0 /\ ~closed
        /\ file' = EmptyFile /\ writer' = "open"
        /\ local' = InfoAt(NextStart, saved.last) /\ pc' = "prepared"
     \/ /\ ~NextIsReached /\ saved.end # 0 /\ closed
        /\ local' = saved /\ pc' = "idle"
        /\ UNCHANGED <<file, writer>>

handleBatch ==
  /\ pc = "prepared"
  /\ \/ /\ writer = "open"
        /\ file' = Appended(BlockItem(height + 1))
        /\ pc' = "written"
        /\ UNCHANGED memory
     \/ writer = "closed" /\ Return /\ UNCHANGED file
  /\ UNCHANGED <<chain, synced, saved, outbox, posted, faults>>

After(time, interval) == time > local.last + interval
(* Mutant: the room for the block that exceeds the limit is forgotten.     *)
checkBatchFull(h) ==
  \/ h = latest /\ After(Blocks[h].time, (SubmissionInterval * 2) \div 3)
  \/ h = latest /\ After(Blocks[h].time, MaxSubmissionTime)
  \/ Len(file.data) > MaxChunks * MaxChunkSize

checkBatch(h) ==
  \/ h = latest /\ After(Blocks[h].time, (SubmissionInterval * 2) \div 3)
  \/ h = latest /\ After(Blocks[h].time, MaxSubmissionTime)
  \/ Len(file.data) > (MaxChunks - 1) * MaxChunkSize

GenesisMsgs ==
  LET chunks == GenesisChunks(Genesis, MaxChunkSize)
  IN  [i \in DOMAIN chunks |->
        [type |-> "genesis", da |-> batchInfos[1], index |-> i - 1,
         length |-> Len(chunks), chunk |-> chunks[i]]]

measureBatch ==
  LET h == height + 1
      sized == [local EXCEPT !.size = Len(file.data)]
  IN  /\ pc = "written"
      /\ \/ closed /\ Return
         \/ /\ ~closed
            /\ msgs' = IF h = 1 THEN GenesisMsgs ELSE <<>>
            /\ \/ /\ checkBatch(h)
                  /\ local' = [sized EXCEPT !.end = h, !.last = Blocks[h].time]
                  /\ pc' = "finalize"
               \/ /\ ~checkBatch(h)
                  /\ local' = sized /\ pc' = "staged"
            /\ UNCHANGED <<closed, writer, height, loop, batchInfos>>
      /\ UNCHANGED <<chain, disk, faults>>

writeCommit ==
  /\ pc = "finalize"
  /\ \/ /\ writer = "open"
        /\ file' = [Appended(CommitItem(height + 1)) EXCEPT !.torn = FALSE]
        /\ writer' = "closed" /\ pc' = "final"
        /\ UNCHANGED <<closed, height, loop, local, batchInfos, msgs>>
     \/ writer = "closed" /\ Return /\ UNCHANGED file
  /\ UNCHANGED <<chain, synced, saved, outbox, posted, faults>>

Checksum(chunk) == <<"sha256", chunk>>
BatchMsgs ==
  LET chunks == FileChunks(file.data, MaxChunkSize)
      range == [da |-> batchInfos[1], start |-> local.start, end |-> local.end]
  IN  <<[type |-> "header", range |-> range,
         checksums |-> [i \in DOMAIN chunks |-> Checksum(chunks[i])]]>> \o
      [i \in DOMAIN chunks |->
        [type |-> "chunk", range |-> range, index |-> i - 1,
         length |-> Len(chunks), chunk |-> chunks[i]]]

createBatchMsgs ==
  /\ pc = "final"
  /\ \/ closed /\ Return
     \/ /\ ~closed
        /\ local' = [local EXCEPT !.size = Len(file.data)]
        /\ msgs' = msgs \o BatchMsgs
        /\ pc' = "staged"
        /\ UNCHANGED <<closed, writer, height, loop, batchInfos>>
  /\ UNCHANGED <<chain, disk, faults>>

Commit ==
  /\ pc = "staged"
  /\ synced' = height + 1
  /\ saved' = local
  /\ outbox' = IF DANode(batchInfos[1]) = "noop" THEN outbox ELSE outbox \o msgs
  /\ height' = height + 1
  /\ pc' = IF height' < bulkEnd /\ ~closed THEN "block" ELSE "idle"
  /\ UNCHANGED <<chain, file, posted, closed, writer, loop, local, batchInfos, msgs, faults>>

(* A conversion, the genesis or raw commit query, the making of a message  *)
(* or the commit of the stage fails; the loop takes the block up again.    *)
HandlerFails ==
  /\ pc \in {"prepared", "finalize", "final", "staged"} \/ (pc = "written" /\ height = 0)
  /\ Fault
  /\ Return
  /\ UNCHANGED <<chain, disk>>

-----------------------------------------------------------------------------
(* The change to the next batch info, in prepareBatch.                     *)

switchWait ==
  /\ pc = "switch"
  /\ \/ closed /\ Return /\ UNCHANGED file
     \/ /\ ~closed /\ posted = Len(outbox)
        /\ writer' = "closed" /\ file' = [file EXCEPT !.torn = FALSE]
        /\ pc' = "switchEmpty"
        /\ UNCHANGED <<closed, height, loop, local, batchInfos, msgs>>
  /\ UNCHANGED <<chain, synced, saved, outbox, posted, faults>>

switchEmpty ==
  /\ pc = "switchEmpty"
  /\ \/ closed /\ Return /\ UNCHANGED file
     \/ ~closed /\ file' = EmptyFile /\ pc' = "switchSave" /\ UNCHANGED memory
  /\ UNCHANGED <<chain, synced, saved, outbox, posted, faults>>

switchSave ==
  /\ pc = "switchSave"
  /\ local' = InfoAt(batchInfos[2].l2 + 1, local.last)
  /\ saved' = local'
  /\ pc' = "switchSynced"
  /\ UNCHANGED <<chain, synced, file, outbox, posted, closed, writer, height, loop,
                 batchInfos, msgs, faults>>

(* The panic ends the loop, and Close runs.                                *)
switchSynced ==
  /\ pc = "switchSynced"
  /\ synced' = batchInfos[2].l2
  /\ closed' = TRUE /\ pc' = "idle"
  /\ UNCHANGED <<chain, saved, file, outbox, posted, writer, height, loop, local,
                 batchInfos, msgs, faults>>

-----------------------------------------------------------------------------
(* Stops.                                                                  *)

Close ==
  /\ Running /\ MayStop
  /\ Fault
  /\ closed' = TRUE /\ writer' = "closed"
  /\ file' = [file EXCEPT !.torn = FALSE]
  /\ UNCHANGED <<chain, synced, saved, outbox, posted, pc, height, loop, local, batchInfos, msgs>>

Exit ==
  /\ pc = "idle" /\ closed
  /\ pc' = "down"
  /\ UNCHANGED <<chain, disk, memory, faults>>

Kill ==
  /\ pc # "down" /\ MayKill
  /\ Fault
  /\ pc' = "down"
  /\ UNCHANGED <<chain, disk, memory>>

(* opinitd reset-height executor batch                                     *)
ResetHeight ==
  /\ pc = "down" /\ synced # 0
  /\ Fault
  /\ synced' = 0
  /\ UNCHANGED <<chain, saved, file, outbox, posted, pc, memory>>

-----------------------------------------------------------------------------
Start == Open \/ EmptyAtStart \/ InitializeNode
Handler ==
  \/ prepareBatch \/ handleBatch \/ measureBatch \/ writeCommit \/ createBatchMsgs \/ Commit
  \/ switchWait \/ switchEmpty \/ switchSave \/ switchSynced

Next ==
  \/ L2Block \/ Post \/ HostEvent
  \/ \E info \in NewInfos : L1UpdateBatchInfo(info)
  \/ Start \/ InitializeFails \/ Status \/ Handler \/ HandlerFails
  \/ Close \/ Exit \/ Kill \/ ResetHeight

Spec == Init /\ [][Next]_vars

(* When the process, the handler of a block and the DA chain can take a    *)
(* step.                                                                   *)
StartReady == pc \in {"down", "emptying", "opened"}
StatusReady == pc = "idle" /\ ~closed /\ Behind
HandlerReady ==
  /\ ~StartReady /\ pc # "idle"
  /\ pc = "switch" => closed \/ posted = Len(outbox)
ExitReady == pc = "idle" /\ closed
PostReady == posted < Len(outbox)

(* Weak fairness of each, with ENABLED written out.                        *)
FairSpec ==
  /\ Spec
  /\ []<>~StartReady \/ []<><<Start>>_vars
  /\ []<>~StatusReady \/ []<><<Status>>_vars
  /\ []<>~HandlerReady \/ []<><<Handler>>_vars
  /\ []<>~ExitReady \/ []<><<Exit>>_vars
  /\ []<>~PostReady \/ []<><<Post>>_vars

-----------------------------------------------------------------------------
(* Properties.                                                             *)

Steps == {"down", "emptying", "opened", "idle", "block", "prepared", "written", "finalize",
          "final", "staged", "switch", "switchEmpty", "switchSave", "switchSynced"}
LocalInfos == [start : Nat, end : Nat, last : Nat, size : Nat]

(* The variables have the types of their fields in the code.               *)
TypeOK ==
  /\ top \in 1..Len(Blocks) /\ hostInfos \in Seq(Infos) /\ seen \in 1..Len(hostInfos)
  /\ synced \in 0..top /\ saved \in LocalInfos /\ local \in LocalInfos
  /\ DOMAIN file = {"data", "torn"} /\ file.torn \in BOOLEAN
  /\ posted \in 0..Len(outbox)
  /\ pc \in Steps /\ closed \in BOOLEAN /\ writer \in {"open", "closed"}
  /\ height \in 0..Len(Blocks) /\ latest \in 0..top /\ bulkEnd \in 0..latest
  /\ batchInfos \in Seq(Infos) /\ Running => batchInfos # <<>>

Headers == {i \in DOMAIN outbox : outbox[i].type = "header"}
ChunksOf(i) == [j \in 1..Len(outbox[i].checksums) |-> outbox[i + j].chunk]
DataOf(i) == Joined(ChunksOf(i))

(* A header is saved together with its chunks, which follow it in order    *)
(* with its range, their index and number, and the checksums it announces; *)
(* unless a block was repeated there are no more than MaxChunks of them.   *)
HeaderAnnouncesChunks ==
  \A i \in Headers :
    LET h == outbox[i]
        n == Len(h.checksums)
    IN  /\ \A j \in 1..n :
             /\ i + j \in DOMAIN outbox
             /\ outbox[i + j] = [type |-> "chunk", range |-> h.range, index |-> j - 1,
                                 length |-> n, chunk |-> outbox[i + j].chunk]
             /\ h.checksums[j] = Checksum(outbox[i + j].chunk)
        /\ Len(DataOf(i)) = h.range.end - h.range.start + 2 => n <= MaxChunks

(* What a reader of the batch does to get L2's own block back: it takes    *)
(* emptied payloads and compacted signatures from L1.                      *)
RestorePayload(m) ==
  IF m.type \in OracleTypes
  THEN [m EXCEPT !.data = IF @ = Blank THEN L1Payload ELSE @]
  ELSE m
RestoreSig(s, commit) == IF s.ref = <<>> THEN s.sig ELSE commit[s.ref[1] + Byte * s.ref[2] + 1]
RestoreMsg(m) ==
  IF m.type = "Exec"
  THEN [m EXCEPT !.msgs = [k \in DOMAIN @ |-> RestorePayload(@[k])]]
  ELSE IF m.type = "UpdateClient" /\ m.chain = HostChain
  THEN [m EXCEPT !.vals = L1Payload,
                 !.sigs = [i \in DOMAIN @ |-> RestoreSig(@[i], LastCommit[m.height + 1])]]
  ELSE RestorePayload(m)
Restore(txs) ==
  [t \in DOMAIN txs |->
    IF ~txs[t].known THEN txs[t]
    ELSE [txs[t] EXCEPT !.msgs = [i \in DOMAIN @ |-> RestoreMsg(@[i])]]]

(* The data of a saved batch holds every block from the start to the end   *)
(* of its header, in order (a block may be repeated), each one restorable  *)
(* from L1 to what L2 produced, and ends with the commit of the last.      *)
BatchHoldsItsBlocks ==
  \A i \in Headers :
    LET data == DataOf(i)
        blocks == {k \in DOMAIN data : ~data[k].commit}
        range == outbox[i].range
    IN  /\ {data[k].height : k \in blocks} = range.start..range.end
        /\ \A j, k \in blocks : j < k => data[j].height <= data[k].height
        /\ \A k \in blocks : Restore(data[k].txs) = Blocks[data[k].height].txs
        /\ Last(data) = CommitItem(range.end)

(* The batches saved for one batch info leave out no block: from the block *)
(* after the info's output (or the configured first block, when that is    *)
(* later) to the end of any of them, each is in a batch.                   *)
NoBlockSkipped ==
  \A i \in Headers :
    LET info == outbox[i].range.da
        first == IF info.l2 < BatchStartHeight THEN BatchStartHeight ELSE info.l2 + 1
    IN  \A b \in first..outbox[i].range.end :
          \E k \in Headers :
            /\ k <= i /\ outbox[k].range.da = info
            /\ b \in outbox[k].range.start..outbox[k].range.end

(* The submitter catches up with L2 again and again, whatever stops and    *)
(* fails, unless the step that failed came after the writer was closed for *)
(* a batch that was then not committed: then it repeats the block in vain. *)
WriterLost == Running /\ pc = "idle" /\ writer = "closed" /\ saved.end = 0
CatchesUp == []<>(synced = top \/ WriterLost)

(* Every message saved for the DA chain decodes from its bytes to what it  *)
(* says: the range, the index and number of chunks, the checksums and the  *)
(* data.  (A byte of the data stands for the height of an item.)           *)
Bytes(chunk) == [i \in DOMAIN chunk |-> chunk[i].height % Byte]
SumOf(sum) == [i \in 1..SumLen |-> (Len(sum[2]) + i) % Byte]
SavedMsgsDecode ==
  \A m \in Range(outbox) :
    CASE m.type = "header" ->
           LET sums == [i \in DOMAIN m.checksums |-> SumOf(m.checksums[i])]
           IN  UnmarshalBatchDataHeader(MarshalBatchDataHeader(m.range.start, m.range.end, sums))
                 = [ok |-> TRUE, start |-> m.range.start, end |-> m.range.end, checksums |-> sums]
      [] m.type = "chunk" ->
           UnmarshalBatchDataChunk(MarshalBatchDataChunk(m.range.start, m.range.end, m.index,
                                                         m.length, Bytes(m.chunk)))
             = [ok |-> TRUE, start |-> m.range.start, end |-> m.range.end, index |-> m.index,
                length |-> m.length, chunk |-> Bytes(m.chunk)]
      [] m.type = "genesis" ->
           UnmarshalBatchDataGenesis(MarshalBatchDataGenesis(m.index, m.length, m.chunk))
             = [ok |-> TRUE, index |-> m.index, length |-> m.length, chunk |-> m.chunk]
=============================================================================
