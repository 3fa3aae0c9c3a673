--------------------------- MODULE BatchContents ----------------------------
(***************************************************************************)
(* What the batches hold.  More inductive invariants:                      *)
(*   - FlagInv: when the file is torn, its writer closed, the process      *)
(*     ending;                                                             *)
(*   - DataInv and ReadInv: the file holds its blocks in order, and every  *)
(*     block from the start of the batch to where the node is;             *)
(*   - MsgInv and OutInv: the staged and the saved messages announce and   *)
(*     carry such a file.                                                  *)
(* The last part shows that the conversions of a block can be undone.      *)
(***************************************************************************)
EXTENDS BatchTypes

Room == (MaxChunks - 1) * MaxChunkSize

HeightsOf(d) == {d[i].height : i \in DOMAIN d}
Ordered(d) == \A i, k \in DOMAIN d : i < k => d[i].height <= d[k].height
Within(d, lo, hi) == \A i \in DOMAIN d : d[i].height \in lo..hi
(* A commit is of a block that the data holds.                             *)
Committed(d) == \A i \in DOMAIN d : d[i].commit => \E k \in DOMAIN d : d[k] = BlockItem(d[i].height)

(* The data of a batch read up to a block, and maybe the next one.         *)
ReadTo(d, lo, h) == lo..h \subseteq HeightsOf(d) /\ Within(d, lo, h + 1)
Full(d, lo, h) == lo..h \subseteq HeightsOf(d) /\ Within(d, lo, h)

(* When the batch file is torn, its writer closed or the process ending.   *)
FlagInv ==
  /\ file.torn => file.data # <<>>
  /\ pc = "emptying" /\ synced # 0 => file.torn
  /\ pc = "opened" => ~file.torn
  /\ pc \in {"emptying", "opened"} => ~closed
  /\ closed /\ pc \notin Booting => writer = "closed" /\ ~file.torn
  /\ closed /\ pc \notin Booting \cup {"idle"} => Len(batchInfos) = 1
  /\ pc \in {"switchEmpty", "switchSave", "switchSynced"} => writer = "closed"
  /\ pc \in {"switchSave", "switchSynced"} => file = EmptyFile

(* The file holds its blocks in order, and no commit without its block.    *)
DataInv == Ordered(file.data) /\ Committed(file.data)

(* What the file holds while the process runs and when it has stopped, and *)
(* that the batch has not outgrown its chunks.                             *)
Reached == saved.end = 0 =>
  ReadTo(file.data, saved.start, height) /\ height + 1 - saved.start <= Room
Survives == synced # 0 /\ saved.end = 0 /\ ~file.torn =>
  ReadTo(file.data, saved.start, synced) /\ synced + 1 - saved.start <= Room

(* The same at each step of the handler: the file holds every block from   *)
(* the start of the batch up to the one that is handled.                   *)
ReadInv ==
  /\ pc = "down" \/ (closed /\ pc \notin Booting) => Survives
  /\ pc \in {"opened", "block"} \/ (pc = "idle" /\ ~closed) => Reached
  /\ pc \in Handling \cup {"emptying", "switch", "switchEmpty", "switchSave"} =>
       (saved.end = 0 => height + 1 - saved.start <= Room)
  /\ pc = "prepared" => ReadTo(file.data, local.start, height)
  /\ pc \in {"written", "finalize", "final", "staged"} =>
       Full(file.data, local.start, height + 1)
  /\ pc = "staged" /\ local.end = 0 => height + 2 - local.start <= Room
  /\ pc = "final" \/ (pc = "staged" /\ local.end # 0) =>
       file.data # <<>> /\ file.data[Len(file.data)] = CommitItem(height + 1)

-----------------------------------------------------------------------------
(* The data of a finished batch.                                           *)
Complete(d, range) ==
  /\ Ordered(d) /\ Committed(d) /\ Full(d, range.start, range.end)
  /\ d # <<>> /\ d[Len(d)] = CommitItem(range.end)
  /\ range.end - range.start <= Room

(* The messages that a commit is about to save carry the file.             *)
MsgInv ==
  pc = "staged" =>
    \A i \in DOMAIN msgs : msgs[i].type = "header" =>
      Announced(msgs, i, file.data,
                [da |-> batchInfos[1], start |-> local.start, end |-> local.end])

(* Each saved header announces the chunks of complete data.                *)
OutInv ==
  \A i \in Headers : \E d \in Seq(Items) :
    Announced(outbox, i, d, outbox[i].range) /\ Complete(d, outbox[i].range)

-----------------------------------------------------------------------------
(* The batch file.                                                         *)

(* A limit of a batch leaves room for two items at least.                  *)
LEMMA RoomFacts == Room \in Nat /\ Room >= 2 /\ Room + MaxChunkSize = MaxChunks * MaxChunkSize
<1>1. MaxChunks \in Nat /\ MaxChunks > 1 /\ MaxChunkSize \in Nat /\ MaxChunkSize > 1
  BY BatchAssumption, Zenon
<1>2. PICK k \in Nat : k = MaxChunks - 1 /\ k > 0
  BY <1>1
<1>3. k * MaxChunkSize \in Nat /\ k * MaxChunkSize >= MaxChunkSize
  BY <1>1, <1>2
<1>4. (k + 1) * MaxChunkSize = k * MaxChunkSize + MaxChunkSize /\ MaxChunks = k + 1
  BY <1>1, <1>2
<1> QED
  BY <1>1, <1>2, <1>3, <1>4 DEF Room

(* The data of an empty file.                                              *)
LEMMA EmptyData ==
  /\ Ordered(<<>>) /\ Committed(<<>>) /\ EmptyFile.data = <<>> /\ ~EmptyFile.torn
  /\ \A h \in Int : ReadTo(<<>>, h + 1, h)
<1>1. DOMAIN <<>> = {}
  OBVIOUS
<1>2. \A h \in Int : (h + 1)..h = {}
  OBVIOUS
<1> QED
  BY <1>1, <1>2, Zenon DEF Ordered, Committed, EmptyFile, ReadTo, Within

(* One more item.                                                          *)
LEMMA AppendData ==
  ASSUME NEW d \in Seq(Items), NEW x \in Items, NEW lo \in Int, NEW hi \in Int, Within(d, lo, hi)
  PROVE  /\ HeightsOf(Append(d, x)) = HeightsOf(d) \cup {x.height}
         /\ x.height \in lo..hi => Within(Append(d, x), lo, hi)
         /\ Ordered(d) /\ x.height = hi => Ordered(Append(d, x))
         /\ Committed(d) /\ (x.commit => \E k \in DOMAIN d : d[k] = BlockItem(x.height)) =>
              Committed(Append(d, x))
<1> DEFINE e == Append(d, x)
           n == Len(d)
<1>1. /\ n \in Nat /\ DOMAIN d = 1..n /\ DOMAIN e = 1..(n + 1) /\ e[n + 1] = x
      /\ \A i \in 1..n : e[i] = d[i]
  BY AppendFacts, SeqFacts
<1>2. \A i \in 1..n : d[i] \in Items /\ d[i].height \in Int
  BY <1>1, SeqFacts, ItemTypes
<1> HIDE DEF e, n
<1>3. 1..(n + 1) = (1..n) \cup {n + 1}
  BY <1>1
<1>4. HeightsOf(e) = HeightsOf(d) \cup {x.height}
  BY <1>1, <1>3 DEF HeightsOf
<1>5. ASSUME x.height \in lo..hi PROVE Within(e, lo, hi)
  BY <1>1, <1>3, <1>5, Zenon DEF Within
<1>6. ASSUME Ordered(d), x.height = hi PROVE Ordered(e)
  <2> SUFFICES ASSUME NEW i \in 1..(n + 1), NEW k \in 1..(n + 1), i < k
               PROVE  e[i].height <= e[k].height
    BY <1>1, Zenon DEF Ordered
  <2>1. i \in 1..n /\ (k \in 1..n \/ k = n + 1)
    BY <1>1
  <2>2. CASE k \in 1..n
    BY <1>1, <1>6, <2>1, <2>2, Zenon DEF Ordered
  <2>3. CASE k = n + 1
    <3>1. d[i].height <= hi
      BY <1>1, <1>2, <2>1 DEF Within
    <3> QED
      BY <1>1, <1>6, <2>1, <2>3, <3>1, Zenon
  <2> QED
    BY <2>1, <2>2, <2>3, Zenon
<1>7. ASSUME Committed(d), x.commit => \E k \in DOMAIN d : d[k] = BlockItem(x.height)
      PROVE  Committed(e)
  <2> SUFFICES ASSUME NEW i \in 1..(n + 1), e[i].commit
               PROVE  \E k \in 1..(n + 1) : e[k] = BlockItem(e[i].height)
    BY <1>1, Zenon DEF Committed
  <2>1. \E k \in 1..n : d[k] = BlockItem(e[i].height)
    BY <1>1, <1>3, <1>7, Zenon DEF Committed
  <2> QED
    BY <1>1, <1>3, <2>1, Zenon
<1> QED
  BY <1>4, <1>5, <1>6, <1>7, Zenon DEF e

(* A batch with the next block is a batch without it.                      *)
LEMMA FullReads ==
  ASSUME NEW d, NEW lo \in Int, NEW h \in Int, Full(d, lo, h + 1)
  PROVE  ReadTo(d, lo, h) /\ ReadTo(d, lo, h + 1)
<1>1. lo..h \subseteq lo..(h + 1) /\ lo..(h + 1) \subseteq lo..(h + 1 + 1)
  OBVIOUS
<1> QED
  BY <1>1, Zenon DEF Full, ReadTo, Within

(* Data that holds some heights in order has as many items at least.       *)
LEMMA Pigeonhole ==
  ASSUME NEW d \in Seq(Items), Ordered(d), NEW lo \in Int, NEW h \in Int, lo <= h,
         lo..h \subseteq HeightsOf(d)
  PROVE  h - lo + 1 <= Len(d)
<1>1. Len(d) \in Nat /\ DOMAIN d = 1..Len(d)
  BY SeqFacts, Zenon
<1> DEFINE late == {n \in Nat : \A i \in DOMAIN d : d[i].height = lo + n /\ lo + n <= h => n < i}
<1>2. 0 \in late
  BY <1>1
<1>3. ASSUME NEW n \in late PROVE n + 1 \in late
  <2> SUFFICES ASSUME NEW i \in DOMAIN d, d[i].height = lo + (n + 1), lo + (n + 1) <= h
               PROVE  n + 1 < i
    OBVIOUS
  <2>1. lo + n \in lo..h
    OBVIOUS
  <2>2. PICK k \in DOMAIN d : d[k].height = lo + n
    BY <2>1, Zenon DEF HeightsOf
  <2>3. n < k
    BY <2>1, <2>2
  <2>4. ~(d[i].height <= d[k].height) /\ i # k
    BY <2>2
  <2>5. ~(i < k)
    BY <2>4, Zenon DEF Ordered
  <2> QED
    BY <1>1, <2>3, <2>4, <2>5
<1>4. late = Nat
  <2>1. late \in SUBSET Nat
    BY Zenon
  <2> HIDE DEF late
  <2> QED
    BY <1>2, <1>3, <2>1, SetInduction, Zenon
<1>5. h - lo \in late /\ lo + (h - lo) = h
  <2>1. h - lo \in Nat /\ lo + (h - lo) = h
    OBVIOUS
  <2> HIDE DEF late
  <2> QED
    BY <1>4, <2>1, Zenon
<1>6. PICK i \in DOMAIN d : d[i].height = h
  BY DEF HeightsOf
<1>7. h - lo < i
  BY <1>5, <1>6
<1> QED
  BY <1>1, <1>6, <1>7

(* The block being handled.                                                *)
LEMMA BlockHandled ==
  ASSUME TypeInv, pc \in Handling
  PROVE  height + 1 \in 1..Len(Blocks)
<1>1. /\ Len(Blocks) \in Nat /\ height \in Nat /\ bulkEnd \in Nat /\ latest \in Nat
      /\ top \in Nat /\ top <= Len(Blocks)
  BY TypeFacts, Zenon
<1>2. height < bulkEnd /\ bulkEnd <= latest /\ latest <= top
  BY <1>1 DEF TypeInv
<1> QED
  BY <1>1, <1>2

(* A step keeps the flags of the batch file.                               *)
LEMMA FlagStep ==
  ASSUME ~StopDuringUpdate, TypeInv, PlaceInv, FlagInv, [Next]_vars
  PROVE  FlagInv'
<1>0. /\ file \in Files /\ file.data \in Seq(Items) /\ Len(batchInfos) \in Nat
      /\ closed \in BOOLEAN /\ height \in Nat /\ top \in Nat /\ bulkEnd \in Nat
      /\ Len(Blocks) \in Nat /\ top <= Len(Blocks) /\ latest \in Nat
  BY TypeFacts, FileTypes, Zenon DEF TypeInv
<1>1. EmptyFile.data = <<>> /\ ~EmptyFile.torn
  BY EmptyData, Zenon
<1>2. /\ [file EXCEPT !.torn = FALSE].data = file.data /\ ~[file EXCEPT !.torn = FALSE].torn
  BY <1>0, FileTypes, Zenon
<1> HIDE DEF EmptyFile
<1>3. CASE UNCHANGED vars
  BY <1>3, Zenon DEF FlagInv, vars, disk, memory
<1>4. CASE L2Block \/ Post \/ \E info \in NewInfos : L1UpdateBatchInfo(info)
  BY <1>4 DEF FlagInv, L2Block, Post, L1UpdateBatchInfo, disk, memory
<1>5. CASE HostEvent
  BY <1>5, Zenon DEF FlagInv, HostEvent, Running, disk
<1>6. CASE Open
  <2>1. /\ pc = "down" /\ ~closed' /\ UNCHANGED <<file, synced>>
        /\ \/ pc' = "emptying" /\ (synced = 0 \/ file.torn)
           \/ pc' = "opened" /\ ~checkBatchFileCorruption
    BY <1>6, Zenon DEF Open, ResetBatchFile, checkBatchFileCorruption
  <2> QED
    BY <2>1, Zenon DEF FlagInv, checkBatchFileCorruption, Booting
<1>7. CASE EmptyAtStart \/ InitializeNode \/ InitializeFails \/ Exit \/ Kill \/ Status
  BY <1>1, <1>7 DEF FlagInv, EmptyAtStart, InitializeNode, InitializeFails, Exit, Kill, Status,
                    disk, memory, Booting
<1>8. CASE ResetHeight
  BY <1>8, Zenon DEF FlagInv, ResetHeight, memory, Booting
<1>9. CASE Close
  <2>1. /\ Running /\ Settled /\ UNCHANGED <<pc, synced, batchInfos>>
        /\ writer' = "closed" /\ closed' /\ file' = [file EXCEPT !.torn = FALSE]
    BY <1>9, Zenon DEF Close, MayStop
  <2>2. Len(batchInfos) = 1 /\ pc \notin Booting
    BY <2>1, Zenon DEF Settled, Running, Booting
  <2>3. pc \notin Switching
    BY <2>2 DEF TypeInv
  <2> QED
    BY <1>2, <2>1, <2>2, <2>3, Zenon DEF FlagInv, Booting, Switching
<1>10. CASE HandlerFails
  BY <1>10, Zenon DEF FlagInv, HandlerFails, Return, disk, Booting
<1>11. CASE prepareBatch
  <2>1. /\ pc = "block" /\ UNCHANGED <<synced, closed, batchInfos>>
        /\ pc' \in {"switch", "prepared", "idle"}
        /\ \/ UNCHANGED <<file, writer>>
           \/ ~closed /\ file' = EmptyFile
    BY <1>11, Zenon DEF prepareBatch
  <2> QED
    BY <1>1, <2>1, Zenon DEF FlagInv, Booting
<1>12. CASE handleBatch
  <2>1. CASE writer = "open"
    <3>1. /\ pc = "prepared" /\ pc' = "written" /\ UNCHANGED <<closed, batchInfos, writer>>
          /\ file' = Appended(BlockItem(height + 1))
      BY <1>12, <2>1, Zenon DEF handleBatch, memory
    <3>2. ~closed
      BY <2>1, <3>1, Zenon DEF FlagInv, Booting
    <3>3. BlockItem(height + 1) \in Items
      <4>1. pc \in Handling
        BY <3>1, Zenon DEF Handling
      <4> QED
        BY <4>1, BlockHandled, ItemTypes, Zenon
    <3>4. file'.data # <<>>
      BY <1>0, <3>1, <3>3, FileTypes, AppendFacts, SMTT(30)
    <3> QED
      BY <3>1, <3>2, <3>4, Zenon DEF FlagInv, Booting
  <2>2. CASE writer = "closed"
    BY <1>12, <2>2 DEF FlagInv, handleBatch, Return, Booting
  <2> QED
    BY <2>1, <2>2, Zenon DEF TypeInv
<1>13. CASE measureBatch \/ createBatchMsgs
  <2>1. /\ pc \in {"written", "final"} /\ UNCHANGED <<file, synced, closed, batchInfos, writer>>
        /\ pc' \in {"idle", "finalize", "staged"}
    BY <1>13, Zenon DEF measureBatch, createBatchMsgs, Return, disk
  <2> QED
    BY <2>1, Zenon DEF FlagInv, Booting
<1>14. CASE writeCommit
  <2>1. CASE writer = "open"
    <3>1. /\ pc = "finalize" /\ pc' = "final" /\ UNCHANGED <<closed, batchInfos>>
          /\ file' = [Appended(CommitItem(height + 1)) EXCEPT !.torn = FALSE]
      BY <1>14, <2>1, Zenon DEF writeCommit
    <3>2. ~closed
      BY <2>1, <3>1, Zenon DEF FlagInv, Booting
    <3>3. CommitItem(height + 1) \in Items
      <4>1. pc \in Handling
        BY <3>1, Zenon DEF Handling
      <4> QED
        BY <4>1, BlockHandled, ItemTypes, Zenon
    <3>4. ~file'.torn
      BY <1>0, <3>1, <3>3, FileTypes, Zenon
    <3> QED
      BY <3>1, <3>2, <3>4, Zenon DEF FlagInv, Booting
  <2>2. CASE writer = "closed"
    BY <1>14, <2>2 DEF FlagInv, writeCommit, Return, Booting
  <2> QED
    BY <2>1, <2>2, Zenon DEF TypeInv
<1>15. CASE Commit
  BY <1>15, Zenon DEF FlagInv, Commit, Booting
<1>16. CASE switchWait
  <2>1. /\ pc = "switch" /\ UNCHANGED <<closed, batchInfos>>
        /\ \/ closed /\ UNCHANGED <<file, writer>> /\ pc' = "idle"
           \/ /\ ~closed /\ file' = [file EXCEPT !.torn = FALSE] /\ pc' = "switchEmpty"
              /\ writer' = "closed"
    BY <1>16, Zenon DEF switchWait, Return
  <2> QED
    BY <1>2, <2>1, Zenon DEF FlagInv, Booting
<1>17. CASE switchEmpty
  <2>1. /\ pc = "switchEmpty" /\ UNCHANGED <<closed, batchInfos, writer>>
        /\ \/ closed /\ UNCHANGED file /\ pc' = "idle"
           \/ ~closed /\ file' = EmptyFile /\ pc' = "switchSave"
    BY <1>17, Zenon DEF switchEmpty, Return, memory
  <2> QED
    BY <1>1, <2>1, Zenon DEF FlagInv, Booting
<1>18. CASE switchSave \/ switchSynced
  <2>1. /\ pc \in {"switchSave", "switchSynced"} /\ UNCHANGED <<file, batchInfos, writer>>
        /\ \/ pc = "switchSave" /\ pc' = "switchSynced" /\ UNCHANGED closed
           \/ pc' = "idle"
    BY <1>18, Zenon DEF switchSave, switchSynced
  <2>2. Len(batchInfos) # 1
    <3>1. Len(batchInfos) > 1
      BY <2>1, Zenon DEF TypeInv, Switching
    <3>2. ~(1 > 1)
      OBVIOUS
    <3> QED
      BY <3>1, <3>2, Zenon
  <2>3. ~closed
    BY <2>1, <2>2, Zenon DEF FlagInv, Booting
  <2> QED
    BY <1>1, <2>1, <2>3 DEF FlagInv, Booting
<1> QED
  BY Zenon, <1>3, <1>4, <1>5, <1>6, <1>7, <1>8, <1>9, <1>10, <1>11, <1>12, <1>13, <1>14, <1>15, <1>16,
     <1>17, <1>18 DEF Next, Start, Handler

(* What the file holds depends on the file, the infos and the heights.     *)
LEMMA ReadSame ==
  /\ UNCHANGED <<saved, file, height>> => (Reached' <=> Reached)
  /\ UNCHANGED <<saved, file, synced>> => (Survives' <=> Survives)
BY Zenon DEF Reached, Survives, ReadTo, Within

(* The handler of a block has read the batch up to the block.              *)
LEMMA HandlingReached ==
  ASSUME TypeInv, PlaceInv, ReadInv, pc \in Handling
  PROVE  Reached
<1>0. saved.start \in Nat /\ local.start \in Nat /\ height \in Nat
  BY TypeFacts, Zenon
<1> SUFFICES ASSUME saved.end = 0
             PROVE  ReadTo(file.data, saved.start, height) /\ height + 1 - saved.start <= Room
  BY Zenon DEF Reached
<1>1. local.start = saved.start
  BY Zenon DEF PlaceInv
<1>2. height + 1 - saved.start <= Room
  BY Zenon DEF ReadInv
<1>3. CASE pc = "prepared"
  BY <1>1, <1>2, <1>3, Zenon DEF ReadInv
<1>4. CASE pc # "prepared"
  <2>1. Full(file.data, local.start, height + 1)
    BY <1>4, Zenon DEF ReadInv, Handling
  <2>2. ReadTo(file.data, local.start, height)
    BY <1>0, <2>1, FullReads
  <2> QED
    BY <1>1, <1>2, <2>2, Zenon
<1> QED
  BY <1>3, <1>4, Zenon

(* The handler gives a block up.                                           *)
LEMMA ReadReturn ==
  ASSUME TypeInv, PlaceInv, ReadInv, closed \/ pc \in Handling, pc \notin Booting, pc' = "idle",
         UNCHANGED <<saved, file, synced, height, closed>>
  PROVE  ReadInv'
<1>1. closed => Survives'
  BY ReadSame, Zenon DEF ReadInv
<1>2. ~closed => Reached'
  BY ReadSame, HandlingReached, Zenon
<1> QED
  BY <1>1, <1>2, Zenon DEF ReadInv, Handling, Booting

(* A stop leaves the batch in the file, when no block is exposed.          *)
LEMMA StopReads ==
  ASSUME TypeInv, PlaceInv, ReadInv, ~Exposed,
         pc = "opened" \/ (pc \notin Booting \cup Switching /\ ~closed),
         synced # 0, saved.end = 0
  PROVE  ReadTo(file.data, saved.start, synced) /\ synced + 1 - saved.start <= Room
<1>0. saved.start \in Nat /\ synced \in Nat /\ height \in Nat /\ Room \in Nat /\ Room >= 2
  BY TypeFacts, RoomFacts, Zenon
<1>1. Reached
  <2>1. CASE pc \in Handling
    BY <2>1, HandlingReached, Zenon
  <2>2. CASE pc \notin Handling
    <3>1. pc \in {"opened", "block"} \/ (pc = "idle" /\ ~closed)
      BY <2>2, Zenon DEF TypeInv, Steps, Booting, Switching, Handling
    <3> QED
      BY <3>1, Zenon DEF ReadInv
  <2> QED
    BY <2>1, <2>2, Zenon
<1>2. saved.start..synced \subseteq HeightsOf(file.data)
  BY Zenon DEF Exposed, Held, HeightsOf
<1>3. Within(file.data, saved.start, height + 1) /\ height + 1 - saved.start <= Room
  BY <1>1, Zenon DEF Reached, ReadTo
<1>4. /\ height = synced \/ height + 1 = saved.start
      /\ saved.start <= synced + 1
  BY Zenon DEF PlaceInv, Stopped, Booting, Switching
<1>5. CASE height = synced
  BY <1>2, <1>3, <1>5, Zenon DEF ReadTo
<1>6. CASE height + 1 = saved.start
  <2>1. synced <= saved.start
    <3> SUFFICES ASSUME synced > saved.start PROVE FALSE
      BY <1>0
    <3>1. synced \in saved.start..synced
      BY <1>0
    <3>2. synced \in HeightsOf(file.data)
      BY <1>2, <3>1, Zenon
    <3>3. synced \in saved.start..(height + 1)
      BY <1>3, <3>2, Zenon DEF Within, HeightsOf
    <3> QED
      BY <1>0, <1>6, <3>3, SMTT(30)
  <2>2. saved.start..(height + 1) \subseteq saved.start..(synced + 1)
    BY <1>0, <1>4, <1>6
  <2>3. Within(file.data, saved.start, synced + 1)
    BY <1>3, <2>2, Zenon DEF Within
  <2>4. synced + 1 - saved.start <= Room
    BY <1>0, <2>1
  <2> QED
    BY <1>2, <2>3, <2>4, Zenon DEF ReadTo
<1> QED
  BY <1>4, <1>5, <1>6, Zenon

(* A stop in the middle of anything: the batch is in the file, or the file *)
(* is torn, or a start reads the batch again.                              *)
LEMMA KillSurvives ==
  ASSUME ~StopDuringUpdate, ~StopWhileExposed, TypeInv, PlaceInv, FlagInv, ReadInv,
         pc # "down", MayKill
  PROVE  Survives
<1>1. CASE pc = "emptying"
  BY <1>1, Zenon DEF FlagInv, Survives
<1>2. CASE pc # "emptying" /\ (closed /\ pc \notin Booting)
  BY <1>2, Zenon DEF ReadInv
<1>3. CASE pc # "emptying" /\ ~(closed /\ pc \notin Booting)
  <2>1. CASE file.torn
    BY <2>1, Zenon DEF Survives
  <2>2. CASE ~file.torn
    <3>1. ~Exposed
      BY <2>2, Zenon DEF MayKill
    <3>2. pc = "opened" \/ (pc \notin Booting \cup Switching /\ ~closed)
      <4>1. CASE pc \in Booting
        BY <1>3, <4>1, Zenon DEF Booting
      <4>2. CASE pc \notin Booting
        <5>1. Len(batchInfos) = 1
          BY <1>3, <4>2, Zenon DEF MayKill, Settled, Running, Booting
        <5>2. ~(1 > 1)
          OBVIOUS
        <5>3. pc \notin Switching
          BY <5>1, <5>2, Zenon DEF TypeInv
        <5> QED
          BY <1>3, <4>2, <5>3, Zenon
      <4> QED
        BY <4>1, <4>2, Zenon
    <3> QED
      BY <3>1, <3>2, StopReads, Zenon DEF Survives
  <2> QED
    BY <2>1, <2>2, Zenon
<1> QED
  BY <1>1, <1>2, <1>3, Zenon

(* The handler writes a block.                                             *)
LEMMA ReadHandle ==
  ASSUME TypeInv, PlaceInv, FlagInv, ReadInv, handleBatch
  PROVE  ReadInv'
<1>0. /\ saved.start \in Nat /\ local.start \in Nat /\ height \in Nat /\ file \in Files
      /\ file.data \in Seq(Items)
  BY TypeFacts, FileTypes, Zenon DEF TypeInv
<1>1. pc = "prepared" /\ pc \in Handling
  BY Zenon DEF handleBatch, Handling
<1>2. CASE writer = "open"
  <2>1. /\ pc' = "written" /\ UNCHANGED <<closed, saved, local, height>>
        /\ file' = Appended(BlockItem(height + 1))
    BY <1>2, Zenon DEF handleBatch, memory
  <2>2. ~closed
    BY <1>1, <1>2, Zenon DEF FlagInv, Booting
  <2>3. BlockItem(height + 1) \in Items /\ BlockItem(height + 1).height = height + 1
    BY <1>1, BlockHandled, ItemTypes, Zenon
  <2>4. file'.data = Append(file.data, BlockItem(height + 1))
    BY <1>0, <2>1, <2>3, FileTypes, Zenon
  <2>5. local.start <= height + 1
    BY <1>0, <1>1 DEF PlaceInv
  <2>6. local.start..height \subseteq HeightsOf(file.data) /\ Within(file.data, local.start, height + 1)
    BY <1>1, Zenon DEF ReadInv, ReadTo
  <2>7. /\ HeightsOf(file'.data) = HeightsOf(file.data) \cup {height + 1}
        /\ Within(file'.data, local.start, height + 1)
    <3>1. height + 1 \in local.start..(height + 1) /\ local.start \in Int /\ height + 1 \in Int
      BY <1>0, <2>5
    <3> QED
      BY <1>0, <2>3, <2>4, <2>6, <3>1, AppendData, Zenon
  <2>8. local.start..(height + 1) \subseteq HeightsOf(file'.data)
    <3>1. local.start..(height + 1) \subseteq (local.start..height) \cup {height + 1}
      BY <1>0
    <3> QED
      BY <2>6, <2>7, <3>1, Zenon
  <2>9. Full(file.data, local.start, height + 1)'
    BY <2>1, <2>7, <2>8, Zenon DEF Full, Within, HeightsOf
  <2>10. saved.end = 0 => height + 1 - saved.start <= Room
    BY <1>1, Zenon DEF ReadInv
  <2> QED
    BY <2>1, <2>2, <2>9, <2>10, Zenon DEF ReadInv, Handling
<1>3. CASE writer = "closed"
  <2>1. pc' = "idle" /\ UNCHANGED <<saved, file, synced, height, closed>>
    BY <1>3, Zenon DEF handleBatch, Return
  <2> QED
    BY <1>1, <2>1, ReadReturn, Zenon DEF Booting
<1> QED
  BY <1>2, <1>3, Zenon DEF TypeInv

(* The handler measures the batch.                                         *)
LEMMA ReadMeasure ==
  ASSUME TypeInv, PlaceInv, ReadInv, DataInv, measureBatch
  PROVE  ReadInv'
<1>0. /\ saved.start \in Nat /\ local.start \in Nat /\ height \in Nat /\ file \in Files
      /\ file.data \in Seq(Items) /\ Len(file.data) \in Nat /\ local \in LocalInfos
      /\ Room \in Nat
  BY TypeFacts, FileTypes, RoomFacts, SeqFacts, Zenon DEF TypeInv
<1>1. pc = "written" /\ pc \in Handling /\ UNCHANGED <<saved, file, synced, height, closed>>
  BY Zenon DEF measureBatch, Handling, Return, disk
<1>2. CASE closed
  <2>1. pc' = "idle"
    BY <1>2, Zenon DEF measureBatch, Return
  <2> QED
    BY <1>1, <2>1, ReadReturn, Zenon DEF Booting
<1>3. CASE ~closed
  <2>1. Full(file.data, local.start, height + 1) /\ (saved.end = 0 => height + 1 - saved.start <= Room)
    BY <1>1, Zenon DEF ReadInv
  <2>2. \/ /\ local' = Ended(local, Len(file.data), height + 1, Blocks[height + 1].time)
           /\ pc' = "finalize"
        \/ /\ local' = [local EXCEPT !.size = Len(file.data)] /\ pc' = "staged"
           /\ ~checkBatch(height + 1)
    BY <1>3, Zenon DEF measureBatch, Ended
  <2>3. CASE /\ local' = Ended(local, Len(file.data), height + 1, Blocks[height + 1].time)
             /\ pc' = "finalize"
    <3>3. Blocks[height + 1].time \in Nat
      BY <1>1, BlockHandled, BatchAssumption, Zenon
    <3> DEFINE n == Len(file.data)
               h == height + 1
               t == Blocks[height + 1].time
    <3>4. n \in Nat /\ h \in Nat /\ t \in Nat /\ local \in LocalInfos
      BY <1>0, <3>3
    <3>5. local' = Ended(local, n, h, t)
      BY <2>3, Zenon
    <3> HIDE DEF n, h, t
    <3>7. local'.start = local.start
      BY <3>4, <3>5, EndedFacts
    <3>6. Full(file.data, local.start, height + 1)'
      BY <1>1, <2>1, <3>7, Zenon DEF Full, Within
    <3> QED
      BY <1>1, <1>3, <2>1, <2>3, <3>6, Zenon DEF ReadInv, Handling
  <2>4. CASE /\ local' = [local EXCEPT !.size = Len(file.data)] /\ pc' = "staged"
             /\ ~checkBatch(height + 1)
    <3>2. local'.start = local.start /\ local'.end = local.end
      BY <1>0, <2>4, SizedFacts, Zenon
    <3>3. Full(file.data, local.start, height + 1)'
      BY <1>1, <2>1, <3>2, Zenon DEF Full, Within
    <3>4. local.start <= height + 1 /\ local.end = 0
      BY <1>0, <1>1 DEF PlaceInv
    <3>5. Len(file.data) <= Room
      BY <1>0, <2>4 DEF checkBatch, Room
    <3>6. (height + 1) - local.start + 1 <= Len(file.data)
      <4> DEFINE h == height + 1
      <4>1. h \in Int /\ local.start \in Int /\ local.start <= h
        BY <1>0, <3>4
      <4>2. local.start..h \subseteq HeightsOf(file.data)
        BY <2>1, Zenon DEF Full
      <4> HIDE DEF h
      <4>3. h - local.start + 1 <= Len(file.data)
        BY <1>0, <4>1, <4>2, Pigeonhole, Zenon DEF DataInv
      <4> QED
        BY <4>3, Zenon DEF h
    <3>7. height + 2 - local.start <= Room
      BY <1>0, <3>5, <3>6, SMTT(30)
    <3> QED
      BY <1>1, <1>3, <2>1, <2>4, <3>2, <3>3, <3>4, <3>7, Zenon DEF ReadInv, Handling
  <2> QED
    BY <2>2, <2>3, <2>4, Zenon
<1> QED
  BY <1>2, <1>3, Zenon

(* The handler writes the commit of the last block.                        *)
LEMMA ReadCommit ==
  ASSUME TypeInv, PlaceInv, FlagInv, ReadInv, writeCommit
  PROVE  ReadInv'
<1>0. /\ saved.start \in Nat /\ local.start \in Nat /\ height \in Nat /\ file \in Files
      /\ file.data \in Seq(Items)
  BY TypeFacts, FileTypes, Zenon DEF TypeInv
<1>1. pc = "finalize" /\ pc \in Handling
  BY Zenon DEF writeCommit, Handling
<1>2. CASE writer = "open"
  <2>1. /\ pc' = "final" /\ UNCHANGED <<closed, saved, local, height>>
        /\ file' = [Appended(CommitItem(height + 1)) EXCEPT !.torn = FALSE]
    BY <1>2, Zenon DEF writeCommit
  <2>2. ~closed
    BY <1>1, <1>2, Zenon DEF FlagInv, Booting
  <2>3. CommitItem(height + 1) \in Items /\ CommitItem(height + 1).height = height + 1
    BY <1>1, BlockHandled, ItemTypes, Zenon
  <2>4. file'.data = Append(file.data, CommitItem(height + 1))
    <3>1. /\ Appended(CommitItem(height + 1)) \in Files
          /\ Appended(CommitItem(height + 1)).data = Append(file.data, CommitItem(height + 1))
      BY <1>0, <2>3, FileTypes, Zenon
    <3> QED
      BY <2>1, <3>1, FileTypes, Zenon
  <2>5. local.start <= height + 1
    BY <1>0, <1>1, SMTT(30) DEF PlaceInv
  <2>6. /\ local.start..(height + 1) \subseteq HeightsOf(file.data)
        /\ Within(file.data, local.start, height + 1)
    BY <1>1, Zenon DEF ReadInv, Full
  <2>7. /\ HeightsOf(file'.data) = HeightsOf(file.data) \cup {height + 1}
        /\ Within(file'.data, local.start, height + 1)
    <3>1. height + 1 \in local.start..(height + 1) /\ local.start \in Int /\ height + 1 \in Int
      BY <1>0, <2>5
    <3> QED
      BY <1>0, <2>3, <2>4, <2>6, <3>1, AppendData, Zenon
  <2>8. Full(file.data, local.start, height + 1)'
    <3>1. local.start..(height + 1) \subseteq HeightsOf(file'.data)
      BY <2>6, <2>7, Zenon
    <3> QED
      BY <2>1, <2>7, <3>1, Zenon DEF Full, Within, HeightsOf
  <2>9. file'.data # <<>> /\ file'.data[Len(file'.data)] = CommitItem(height + 1)
    <3> DEFINE x == CommitItem(height + 1)
    <3> HIDE DEF x
    <3>1. x \in Items /\ file'.data = Append(file.data, x)
      BY <2>3, <2>4, Zenon DEF x
    <3>2. file'.data # <<>> /\ file'.data[Len(file'.data)] = x
      BY <1>0, <3>1, AppendFacts, SMTT(30)
    <3> QED
      BY <3>2, Zenon DEF x
  <2>10. saved.end = 0 => height + 1 - saved.start <= Room
    BY <1>1, Zenon DEF ReadInv
  <2> QED
    BY <2>1, <2>2, <2>8, <2>9, <2>10, Zenon DEF ReadInv, Handling, CommitItem
<1>3. CASE writer = "closed"
  <2>1. pc' = "idle" /\ UNCHANGED <<saved, file, synced, height, closed>>
    BY <1>3, Zenon DEF writeCommit, Return
  <2> QED
    BY <1>1, <2>1, ReadReturn, Zenon DEF Booting
<1> QED
  BY <1>2, <1>3, Zenon DEF TypeInv

(* A step keeps what the file is known to hold.                            *)
LEMMA ReadStep ==
  ASSUME ~StopDuringUpdate, ~StopWhileExposed, TypeInv, PlaceInv, FlagInv, ReadInv, DataInv,
         [Next]_vars
  PROVE  ReadInv'
<1>0. /\ saved.start \in Nat /\ local.start \in Nat /\ height \in Nat /\ synced \in Nat
      /\ saved.last \in Nat /\ closed \in BOOLEAN /\ Room \in Nat /\ Room >= 2
  BY TypeFacts, RoomFacts, Zenon DEF TypeInv
<1>1. CASE UNCHANGED <<pc, closed, saved, file, synced, height, local>>
  BY <1>1, ReadSame, Zenon DEF ReadInv, ReadTo, Full, Within
<1>2. CASE UNCHANGED vars \/ L2Block \/ Post \/ HostEvent \/ \E info \in NewInfos : L1UpdateBatchInfo(info)
  BY <1>1, <1>2, Zenon DEF vars, L2Block, Post, HostEvent, L1UpdateBatchInfo, disk, memory
<1>3. CASE Open
  <2>1. pc = "down" /\ ~closed' /\ UNCHANGED <<file, synced>>
    BY <1>3, Zenon DEF Open
  <2>2. CASE \E start \in {BatchStartHeight, saved.start} : ResetBatchFile(start)
    <3>1. PICK start \in {BatchStartHeight, saved.start} : ResetBatchFile(start)
      BY <2>2, Zenon
    <3>2. start \in Nat
      BY <1>0, BatchAssumption, SMTT(30)
    <3>3. saved'.start = start /\ height' = start - 1 /\ pc' = "emptying"
      BY <1>0, <3>1, <3>2, NewFacts, Zenon DEF ResetBatchFile
    <3>4. height' + 1 - saved'.start <= Room
      BY <1>0, <3>2, <3>3
    <3> QED
      BY <3>3, <3>4, Zenon DEF ReadInv, Handling, Booting
  <2>3. CASE ~\E start \in {BatchStartHeight, saved.start} : ResetBatchFile(start)
    <3>1. /\ saved' = saved /\ height' = synced /\ pc' = "opened" /\ synced # 0
          /\ ~checkBatchFileCorruption
      BY <1>3, <2>3, Zenon DEF Open
    <3>2. Survives /\ ~file.torn
      BY <2>1, <3>1, Zenon DEF ReadInv, FlagInv, checkBatchFileCorruption
    <3>3. Reached'
      BY <2>1, <3>1, <3>2, Zenon DEF Survives, Reached, ReadTo, Within
    <3> QED
      BY <3>1, <3>3, Zenon DEF ReadInv, Handling, Booting
  <2> QED
    BY <2>2, <2>3, Zenon
<1>4. CASE EmptyAtStart
  <2>1. pc = "emptying" /\ pc' = "opened" /\ file' = EmptyFile /\ UNCHANGED <<saved, height>>
    BY <1>4, Zenon DEF EmptyAtStart, memory
  <2>2. height + 1 = saved.start /\ height + 1 - saved.start <= Room
    BY <1>0, <2>1, Zenon DEF PlaceInv, ReadInv
  <2>3. ReadTo(<<>>, height + 1, height)
    BY <1>0, EmptyData
  <2>4. file'.data = <<>>
    BY <2>1, EmptyData, Zenon
  <2>5. Reached'
    BY <2>1, <2>2, <2>3, <2>4, Zenon DEF Reached, ReadTo, Within
  <2> QED
    BY <2>1, <2>5, Zenon DEF ReadInv, Handling, Booting
<1>5. CASE InitializeNode
  <2>1. pc = "opened" /\ pc' = "idle" /\ UNCHANGED <<saved, file, synced, height, closed>> /\ ~closed
    BY <1>5, Zenon DEF InitializeNode, disk, FlagInv
  <2>2. Reached'
    BY <2>1, ReadSame, Zenon DEF ReadInv
  <2> QED
    BY <2>1, <2>2, Zenon DEF ReadInv, Handling, Booting
<1>6. CASE InitializeFails \/ Kill
  <2>1. pc # "down" /\ MayKill /\ pc' = "down" /\ UNCHANGED <<saved, file, synced>>
    BY <1>6, Zenon DEF InitializeFails, Kill, disk
  <2>2. Survives'
    BY <2>1, ReadSame, KillSurvives, Zenon
  <2> QED
    BY <2>1, <2>2, Zenon DEF ReadInv, Handling, Booting
<1>7. CASE Status
  <2>1. pc = "idle" /\ ~closed /\ pc' = "block" /\ UNCHANGED <<saved, file, synced, height, closed>>
    BY <1>7, Zenon DEF Status, disk
  <2>2. Reached'
    BY <2>1, ReadSame, Zenon DEF ReadInv
  <2> QED
    BY <2>1, <2>2, Zenon DEF ReadInv, Handling, Booting
<1>8. CASE HandlerFails
  <2>1. /\ pc \in Handling /\ pc' = "idle" /\ UNCHANGED <<saved, file, synced, height, closed>>
    BY <1>8, Zenon DEF HandlerFails, Return, disk, Handling
  <2> QED
    BY <2>1, ReadReturn, Zenon DEF Handling, Booting
<1>9. CASE prepareBatch
  <2>1. pc = "block" /\ UNCHANGED <<saved, synced, height, closed>> /\ Reached
    BY <1>9, Zenon DEF prepareBatch, ReadInv
  <2>2. closed => Survives
    BY <2>1, Zenon DEF ReadInv, Booting
  <2>3. saved.end = 0 => height + 1 - saved.start <= Room
    BY <2>1, Zenon DEF Reached
  <2>4. CASE pc' = "switch" /\ UNCHANGED file
    <3>1. closed => Survives'
      BY <2>1, <2>2, <2>4, ReadSame, Zenon
    <3> QED
      BY <2>1, <2>3, <2>4, <3>1, Zenon DEF ReadInv, Handling, Booting
  <2>5. CASE pc' = "prepared" /\ local' = saved /\ saved.end = 0 /\ UNCHANGED file
    <3>1. closed => Survives'
      BY <2>1, <2>2, <2>5, ReadSame, Zenon
    <3>2. ReadTo(file.data, local.start, height)'
      BY <2>1, <2>5, Zenon DEF Reached, ReadTo, Within
    <3> QED
      BY <2>1, <2>3, <2>5, <3>1, <3>2, Zenon DEF ReadInv, Handling, Booting
  <2>6. CASE /\ pc' = "prepared" /\ ~closed /\ saved.end # 0 /\ file' = EmptyFile
             /\ local' = InfoAt(height + 1, saved.last)
    <3>1. local'.start = height + 1 /\ file'.data = <<>>
      BY <2>6, EmptyData, Zenon DEF InfoAt
    <3>2. ReadTo(<<>>, height + 1, height)
      BY <1>0, EmptyData
    <3>3. ReadTo(file.data, local.start, height)'
      BY <2>1, <3>1, <3>2, Zenon DEF ReadTo, Within
    <3> QED
      BY <2>1, <2>6, <3>3, Zenon DEF ReadInv, Handling, Booting
  <2>7. CASE pc' = "idle" /\ closed /\ UNCHANGED file
    BY <2>1, <2>7, ReadReturn, Zenon DEF Booting
  <2> QED
    BY <1>9, <2>4, <2>5, <2>6, <2>7, Zenon DEF prepareBatch, NextStart
<1>10. CASE handleBatch
  BY <1>10, ReadHandle, Zenon
<1>11. CASE measureBatch
  BY <1>11, ReadMeasure, Zenon
<1>12. CASE writeCommit
  BY <1>12, ReadCommit, Zenon
<1>13. CASE createBatchMsgs
  <2>1. pc = "final" /\ UNCHANGED <<saved, file, synced, height, closed>>
    BY <1>13, Zenon DEF createBatchMsgs, Return, disk
  <2>2. CASE closed
    <3>1. pc' = "idle"
      BY <1>13, <2>2, Zenon DEF createBatchMsgs, Return
    <3> QED
      BY <2>1, <2>2, <3>1, ReadReturn, Zenon DEF Booting
  <2>3. CASE ~closed
    <3>1. pc' = "staged" /\ local' = [local EXCEPT !.size = Len(file.data)]
      BY <1>13, <2>3, Zenon DEF createBatchMsgs
    <3>2. local \in LocalInfos /\ Len(file.data) \in Nat
      BY FileTypes, SeqFacts, Zenon DEF TypeInv
    <3>3. local'.start = local.start /\ local'.end = local.end
      BY <3>1, <3>2, SizedFacts, Zenon
    <3>4. local.end # 0
      BY <1>0, <2>1 DEF PlaceInv
    <3>5. /\ Full(file.data, local.start, height + 1)
          /\ file.data # <<>> /\ file.data[Len(file.data)] = CommitItem(height + 1)
          /\ saved.end = 0 => height + 1 - saved.start <= Room
      BY <2>1, Zenon DEF ReadInv, Handling
    <3>6. Full(file.data, local.start, height + 1)'
      BY <2>1, <3>3, <3>5, Zenon DEF Full, Within
    <3> QED
      BY <2>1, <2>3, <3>1, <3>3, <3>4, <3>5, <3>6, Zenon DEF ReadInv, Handling, Booting, CommitItem
  <2> QED
    BY <2>2, <2>3, Zenon
<1>14. CASE Commit
  <2>1. /\ pc = "staged" /\ synced' = height + 1 /\ height' = height + 1 /\ saved' = local
        /\ pc' \in {"block", "idle"} /\ (closed => pc' = "idle") /\ UNCHANGED <<file, closed>>
    BY <1>0, <1>14, Zenon DEF Commit
  <2>2. Full(file.data, local.start, height + 1) /\ (local.end = 0 => height + 2 - local.start <= Room)
    BY <2>1, Zenon DEF ReadInv
  <2>3. ReadTo(file.data, local.start, height + 1)
    <3>1. local.start \in Int /\ height \in Int
      BY <1>0
    <3> QED
      BY <2>2, <3>1, FullReads, Zenon
  <2>5. Reached' /\ Survives'
    <3>1. saved'.end = 0 => height' + 1 - saved'.start <= Room /\ synced' + 1 - saved'.start <= Room
      <4>1. /\ height' = height + 1 /\ synced' = height + 1
            /\ saved'.start = local.start /\ saved'.end = local.end
        BY <2>1, Zenon
      <4> QED
        BY <1>0, <2>2, <4>1
    <3>2. ReadTo(file'.data, saved'.start, height') /\ height' = synced'
      BY <2>1, <2>3, Zenon
    <3>3. ReadTo(file.data, saved.start, height)' /\ ReadTo(file.data, saved.start, synced)'
      BY <3>2, Zenon DEF ReadTo, Within
    <3> QED
      BY <3>1, <3>3, Zenon DEF Reached, Survives
  <2> QED
    BY <2>1, <2>5, Zenon DEF ReadInv, Handling, Booting
<1>15. CASE switchWait \/ switchEmpty
  <2>1. /\ pc \in {"switch", "switchEmpty"} /\ UNCHANGED <<saved, synced, height, closed>>
        /\ \/ closed /\ pc' = "idle" /\ UNCHANGED file
           \/ ~closed /\ pc' \in {"switchEmpty", "switchSave"}
    BY <1>15, Zenon DEF switchWait, switchEmpty, Return, memory
  <2>2. CASE closed
    BY <2>1, <2>2, ReadReturn, Zenon DEF Booting
  <2>3. CASE ~closed
    <3>1. saved.end = 0 => height + 1 - saved.start <= Room
      BY <2>1, Zenon DEF ReadInv
    <3> QED
      BY <2>1, <2>3, <3>1, Zenon DEF ReadInv, Handling, Booting
  <2> QED
    BY <2>2, <2>3, Zenon
<1>16. CASE switchSave
  <2>1. pc = "switchSave" /\ pc' = "switchSynced" /\ UNCHANGED <<closed, batchInfos>>
    BY <1>16, Zenon DEF switchSave
  <2>2. ~closed
    <3>1. Len(batchInfos) > 1 /\ ~(1 > 1)
      BY <2>1 DEF TypeInv, Switching
    <3> QED
      BY <2>1, <3>1, Zenon DEF FlagInv, Booting
  <2> QED
    BY <2>1, <2>2, Zenon DEF ReadInv, Handling, Booting
<1>17. CASE switchSynced
  <2>1. /\ pc = "switchSynced" /\ pc' = "idle" /\ closed' /\ synced' = batchInfos[2].l2
        /\ UNCHANGED <<saved, file>>
    BY <1>17, Zenon DEF switchSynced
  <2>2. batchInfos[2].l2 \in Nat
    <3>1. Len(batchInfos) > 1 /\ Len(batchInfos) \in Nat
      BY <2>1, TypeFacts, Zenon DEF TypeInv, Switching
    <3>2. 2 \in 1..Len(batchInfos)
      BY <3>1
    <3> QED
      BY <3>2, TypeFacts, Zenon
  <2>3. saved.start = synced' + 1 /\ synced' + 1 - saved.start <= Room
    BY <1>0, <2>1, <2>2, SMTT(30) DEF PlaceInv
  <2>4. file.data = <<>> /\ ReadTo(<<>>, synced' + 1, synced')
    BY <2>1, <2>2, EmptyData DEF FlagInv
  <2>5. Survives'
    BY <2>1, <2>3, <2>4, Zenon DEF Survives, ReadTo, Within
  <2> QED
    BY <2>1, <2>5, Zenon DEF ReadInv, Handling, Booting
<1>18. CASE Close
  <2>1. /\ Running /\ Settled /\ ~Exposed /\ closed' /\ file' = [file EXCEPT !.torn = FALSE]
        /\ UNCHANGED <<pc, saved, synced, height, local>>
    BY <1>18, Zenon DEF Close, MayStop
  <2>2. pc \notin Booting \cup Switching /\ ~closed
    <3>1. Len(batchInfos) = 1 /\ ~(1 > 1) /\ pc \notin Booting /\ ~closed
      BY <2>1 DEF Settled, Running, Booting
    <3> QED
      BY <3>1, Zenon DEF TypeInv
  <2>4. file'.data = file.data
    BY <2>1, FileTypes, Zenon DEF TypeInv
  <2>5. Survives'
    <3>1. synced # 0 /\ saved.end = 0 =>
            ReadTo(file.data, saved.start, synced) /\ synced + 1 - saved.start <= Room
      BY <2>1, <2>2, StopReads, Zenon
    <3> QED
      BY <2>1, <2>4, <3>1, Zenon DEF Survives, ReadTo, Within
  <2>6. /\ pc = "block" => Reached'
        /\ pc = "prepared" => ReadTo(file.data, local.start, height)'
        /\ pc \in {"written", "finalize", "final", "staged"} =>
             Full(file.data, local.start, height + 1)'
    BY <2>1, <2>4, Zenon DEF ReadInv, Reached, ReadTo, Full, Within
  <2> QED
    BY <2>1, <2>2, <2>4, <2>5, <2>6, Zenon DEF ReadInv, Handling, Booting, Switching, CommitItem
<1>19. CASE Exit
  <2>1. pc = "idle" /\ closed /\ pc' = "down" /\ UNCHANGED <<saved, file, synced>>
    BY <1>19, Zenon DEF Exit, disk
  <2>2. Survives'
    BY <2>1, ReadSame, Zenon DEF ReadInv, Booting
  <2> QED
    BY <2>1, <2>2, Zenon DEF ReadInv, Handling, Booting
<1>20. CASE ResetHeight
  <2>1. pc' = "down" /\ synced' = 0
    BY <1>20, Zenon DEF ResetHeight
  <2> QED
    BY <2>1, Zenon DEF ReadInv, Survives, Handling, Booting
<1> QED
  BY Zenon, <1>2, <1>3, <1>4, <1>5, <1>6, <1>7, <1>8, <1>9, <1>10, <1>11, <1>12, <1>13, <1>14, <1>15,
     <1>16, <1>17, <1>18, <1>19, <1>20 DEF Next, Start, Handler

(* A step keeps the order of the items and each commit's block.            *)
LEMMA DataStep ==
  ASSUME TypeInv, PlaceInv, ReadInv, DataInv, [Next]_vars
  PROVE  DataInv'
<1>0. /\ local.start \in Int /\ height \in Nat /\ height + 1 \in Int /\ file \in Files
      /\ file.data \in Seq(Items)
  <2>1. local.start \in Nat /\ height \in Nat /\ file \in Files /\ file.data \in Seq(Items)
    BY TypeFacts, FileTypes, Zenon DEF TypeInv
  <2>2. local.start \in Int /\ height + 1 \in Int
    BY <2>1
  <2> QED
    BY <2>1, <2>2, Zenon
<1>1. ASSUME NEW x \in Items, x.height = height + 1, Within(file.data, local.start, height + 1),
             x.commit => \E k \in DOMAIN file.data : file.data[k] = BlockItem(height + 1),
             file'.data = Append(file.data, x)
      PROVE  DataInv'
  <2>1. Ordered(file'.data) /\ Committed(file'.data)
    BY <1>0, <1>1, AppendData, Zenon DEF DataInv
  <2> QED
    BY <2>1, Zenon DEF DataInv, Ordered, Committed
<1>2. CASE file'.data = file.data
  BY <1>2, Zenon DEF DataInv, Ordered, Committed, BlockItem
<1>3. CASE file' = EmptyFile
  <2>1. file'.data = <<>> /\ DOMAIN <<>> = {}
    BY <1>3, EmptyData
  <2> QED
    BY <2>1, Zenon DEF DataInv, Ordered, Committed
<1>4. CASE handleBatch /\ writer = "open"
  <2>1. pc = "prepared" /\ file' = Appended(BlockItem(height + 1))
    BY <1>4, Zenon DEF handleBatch
  <2>2. /\ BlockItem(height + 1) \in Items /\ BlockItem(height + 1).height = height + 1
        /\ ~BlockItem(height + 1).commit
    BY <2>1, BlockHandled, ItemTypes, Zenon DEF Handling
  <2>3. file'.data = Append(file.data, BlockItem(height + 1))
    BY <1>0, <2>1, <2>2, FileTypes, Zenon
  <2>4. Within(file.data, local.start, height + 1)
    BY <2>1, Zenon DEF ReadInv, ReadTo
  <2> QED
    BY <1>1, <2>2, <2>3, <2>4, Zenon
<1>5. CASE writeCommit /\ writer = "open"
  <2>1. pc = "finalize" /\ file' = [Appended(CommitItem(height + 1)) EXCEPT !.torn = FALSE]
    BY <1>5, Zenon DEF writeCommit
  <2>2. /\ CommitItem(height + 1) \in Items /\ CommitItem(height + 1).height = height + 1
    BY <2>1, BlockHandled, ItemTypes, Zenon DEF Handling
  <2>3. file'.data = Append(file.data, CommitItem(height + 1))
    <3>1. /\ Appended(CommitItem(height + 1)) \in Files
          /\ Appended(CommitItem(height + 1)).data = Append(file.data, CommitItem(height + 1))
      BY <1>0, <2>2, FileTypes, Zenon
    <3> QED
      BY <2>1, <3>1, FileTypes, Zenon
  <2>4. /\ Within(file.data, local.start, height + 1)
        /\ local.start..(height + 1) \subseteq HeightsOf(file.data)
    BY <2>1, Zenon DEF ReadInv, Full
  <2>5. \E k \in DOMAIN file.data : file.data[k] = BlockItem(height + 1)
    <3>1. height + 1 \in local.start..(height + 1)
      <4>1. local.start <= height + 1
        BY <1>0, <2>1, TypeFacts, SMTT(30) DEF PlaceInv, Handling
      <4> QED
        BY <1>0, <4>1
    <3>2. PICK k \in DOMAIN file.data : file.data[k].height = height + 1
      BY <2>4, <3>1, Zenon DEF HeightsOf
    <3>3. file.data[k] \in Items
      BY <1>0
    <3>4. CASE file.data[k].commit
      BY <3>2, <3>4, Zenon DEF DataInv, Committed
    <3>5. CASE ~file.data[k].commit
      BY <3>2, <3>3, <3>5, ItemTypes, Zenon
    <3> QED
      BY <3>4, <3>5, Zenon
  <2> QED
    BY <1>1, <2>2, <2>3, <2>4, <2>5, Zenon
<1>6. \/ file'.data = file.data \/ file' = EmptyFile
      \/ handleBatch /\ writer = "open"
      \/ writeCommit /\ writer = "open"
  <2>1. [file EXCEPT !.torn = FALSE].data = file.data
    BY <1>0, FileTypes, Zenon
  <2>2. CASE Handler
    BY <2>1, <2>2, Zenon DEF Handler, prepareBatch, handleBatch, measureBatch, writeCommit,
                      createBatchMsgs, Commit, switchWait, switchEmpty, switchSave, switchSynced,
                      disk
  <2>3. CASE ~Handler
    BY <2>1, <2>3, Zenon DEF Next, vars, L2Block, Post, HostEvent, L1UpdateBatchInfo, Start, Open,
                      EmptyAtStart, InitializeNode, InitializeFails, Status, HandlerFails, Close,
                      Exit, Kill, ResetHeight, disk
  <2> QED
    BY <2>2, <2>3, Zenon
<1> QED
  BY <1>2, <1>3, <1>4, <1>5, <1>6, Zenon

(* The file holds the batch, when the process stops neither while a new    *)
(* info waits nor while the file lacks a synced block.                     *)
LEMMA FileInvariant ==
  ASSUME ~StopDuringUpdate, ~StopWhileExposed
  PROVE  Spec => [](FlagInv /\ ReadInv /\ DataInv)
<1>1. Init => FlagInv /\ ReadInv /\ DataInv
  <2> SUFFICES ASSUME Init PROVE FlagInv /\ ReadInv /\ DataInv
    BY Zenon
  <2>1. file.data = <<>> /\ ~file.torn /\ pc = "down" /\ synced = 0
    BY EmptyData, Zenon DEF Init
  <2> QED
    BY <2>1, EmptyData, Zenon DEF FlagInv, ReadInv, DataInv, Survives, Booting, Handling
<1>2. TypeInv /\ PlaceInv /\ FlagInv /\ [Next]_vars => FlagInv'
  BY FlagStep, Zenon
<1>3. TypeInv /\ PlaceInv /\ FlagInv /\ ReadInv /\ DataInv /\ [Next]_vars => ReadInv'
  BY ReadStep, Zenon
<1>4. TypeInv /\ PlaceInv /\ ReadInv /\ DataInv /\ [Next]_vars => DataInv'
  BY DataStep, Zenon
<1> QED
  BY <1>1, <1>2, <1>3, <1>4, TypeInvariant, PlaceInvariant, PTL DEF Spec

-----------------------------------------------------------------------------
(* Headers and their chunks.                                               *)

(* A header and its chunks stay together when messages are appended.       *)
LEMMA AnnouncedKept ==
  ASSUME NEW s \in Seq(Messages), NEW t \in Seq(Messages), NEW i, NEW d \in Seq(Items), NEW range
  PROVE  /\ i \in 1..Len(s) /\ Announced(s, i, d, range) => Announced(s \o t, i, d, range)
         /\ i \in 1..Len(t) /\ Announced(t, i, d, range) => Announced(s \o t, Len(s) + i, d, range)
<1> DEFINE u == s \o t
           c == FileChunks(d, MaxChunkSize)
           Chunk(j) == [type |-> "chunk", range |-> range, index |-> j - 1, length |-> Len(c),
                        chunk |-> c[j]]
           head == [type |-> "header", range |-> range,
                    checksums |-> [j \in DOMAIN c |-> Checksum(c[j])]]
<1>1. /\ Len(s) \in Nat /\ Len(t) \in Nat /\ DOMAIN s = 1..Len(s) /\ DOMAIN t = 1..Len(t)
      /\ DOMAIN u = 1..(Len(s) + Len(t))
      /\ \A k \in 1..Len(s) : u[k] = s[k]
      /\ \A k \in 1..Len(t) : u[Len(s) + k] = t[k]
  BY ConcatFacts, SeqFacts
<1>2. DOMAIN c \subseteq Nat
  <2>1. MaxChunkSize \in Nat \ {0}
    BY BatchAssumption
  <2>2. c \in Seq(Seq(Items))
    BY <2>1, ChunkFacts, Zenon
  <2> QED
    BY <2>2
<1>3. \A r, k : Announced(r, k, d, range) <=>
        r[k] = head /\ \A j \in DOMAIN c : k + j \in DOMAIN r /\ r[k + j] = Chunk(j)
  BY Zenon DEF Announced
<1> HIDE DEF u, c, Chunk, head
<1>4. ASSUME i \in 1..Len(s), Announced(s, i, d, range) PROVE Announced(u, i, d, range)
  <2>1. u[i] = head
    BY <1>1, <1>3, <1>4, Zenon
  <2>2. ASSUME NEW j \in DOMAIN c PROVE i + j \in DOMAIN u /\ u[i + j] = Chunk(j)
    <3>1. i + j \in 1..Len(s) /\ s[i + j] = Chunk(j)
      BY <1>1, <1>3, <1>4
    <3>2. i + j \in 1..(Len(s) + Len(t))
      BY <1>1, <3>1
    <3> QED
      BY <1>1, <3>1, <3>2, Zenon
  <2> QED
    BY <1>3, <2>1, <2>2, Zenon
<1>5. ASSUME i \in 1..Len(t), Announced(t, i, d, range) PROVE Announced(u, Len(s) + i, d, range)
  <2>1. u[Len(s) + i] = head
    BY <1>1, <1>3, <1>5, Zenon
  <2>2. ASSUME NEW j \in DOMAIN c PROVE Len(s) + i + j \in DOMAIN u /\ u[Len(s) + i + j] = Chunk(j)
    <3>1. i + j \in 1..Len(t) /\ t[i + j] = Chunk(j)
      BY <1>1, <1>3, <1>5
    <3>2. Len(s) + i + j \in 1..(Len(s) + Len(t)) /\ Len(s) + i + j = Len(s) + (i + j)
      BY <1>1, <1>2, <1>5, <3>1
    <3> QED
      BY <1>1, <3>1, <3>2, Zenon
  <2> QED
    BY <1>3, <2>1, <2>2, Zenon
<1> QED
  BY <1>4, <1>5, Zenon DEF u

(* A step keeps the headers to commit and their chunks together.           *)
LEMMA MsgStep ==
  ASSUME TypeInv, PlaceInv, HeaderInv, MsgInv, [Next]_vars
  PROVE  MsgInv'
<1>0. /\ msgs \in Seq(Messages) /\ file \in Files /\ file.data \in Seq(Items)
      /\ local \in LocalInfos /\ batchInfos \in Seq(Infos)
  BY FileTypes, ZenonT(40) DEF TypeInv
<1>1. ASSUME UNCHANGED <<pc, msgs, local>>, file'.data = file.data, batchInfos'[1] = batchInfos[1]
      PROVE  MsgInv'
  BY <1>1, SMTT(30) DEF MsgInv, Announced
<1>2. CASE pc' # "staged"
  BY <1>2, Zenon DEF MsgInv
<1>3. CASE UNCHANGED vars \/ L2Block \/ Post \/ \E info \in NewInfos : L1UpdateBatchInfo(info)
  <2>1. UNCHANGED <<pc, msgs, local, file, batchInfos>>
    BY <1>3, Zenon DEF vars, L2Block, Post, L1UpdateBatchInfo, disk, memory
  <2> QED
    BY <1>1, <2>1, Zenon
<1>4. CASE HostEvent
  <2>1. UNCHANGED <<pc, msgs, local, file>>
    BY <1>4, Zenon DEF HostEvent, disk
  <2>2. batchInfos' = UpdateBatchInfo(batchInfos, hostInfos[seen + 1]) /\ seen < Len(hostInfos)
    BY <1>4, Zenon DEF HostEvent
  <2>3. Len(batchInfos) > 0
    BY <1>4, ZenonT(40) DEF HostEvent, Running, TypeInv, Booting
  <2>4. seen + 1 \in 1..Len(hostInfos) /\ hostInfos \in Seq(Infos)
    BY <2>2, TypeFacts, SMTT(30) DEF TypeInv
  <2>5. hostInfos[seen + 1] \in Infos
    BY <2>4
  <2>6. batchInfos'[1] = batchInfos[1]
    <3>1. Append(batchInfos, hostInfos[seen + 1])[1] = batchInfos[1]
      BY <1>0, <2>3, <2>5, AppendFacts
    <3> QED
      BY <2>2, <3>1, Zenon DEF UpdateBatchInfo
  <2> QED
    BY <1>1, <2>1, <2>6, Zenon
<1>5. CASE Close
  <2>1. UNCHANGED <<pc, msgs, local, batchInfos>> /\ file'.data = file.data
    BY <1>0, <1>5, FileTypes, Zenon DEF Close
  <2> QED
    BY <1>1, <2>1, Zenon
<1>6. CASE measureBatch /\ pc' = "staged"
  <2>1. pc = "written" /\ msgs' \in {GenesisMsgs, <<>>}
    BY <1>6, Zenon DEF measureBatch, Return
  <2>2. Len(batchInfos) > 0
    BY <2>1, Zenon DEF TypeInv, Booting
  <2>3. \A i \in DOMAIN msgs' : msgs'[i].type # "header"
    <3>1. \A i \in DOMAIN GenesisMsgs : GenesisMsgs[i].type # "header"
      BY <1>0, <2>2, GenesisTypes, Zenon
    <3>2. DOMAIN <<>> = {}
      OBVIOUS
    <3> QED
      BY <2>1, <3>1, <3>2, Zenon
  <2> QED
    BY <2>3, Zenon DEF MsgInv
<1>7. CASE createBatchMsgs /\ pc' = "staged"
  <2>1. /\ pc = "final" /\ msgs' = msgs \o BatchMsgs /\ UNCHANGED <<batchInfos, file>>
        /\ local' = [local EXCEPT !.size = Len(file.data)]
    BY <1>7, Zenon DEF createBatchMsgs, Return, disk
  <2>2. Len(batchInfos) > 0
    BY <2>1, Zenon DEF TypeInv, Booting
  <2>3. local'.start = local.start /\ local'.end = local.end
    <3>1. Len(file.data) \in Nat
      BY <1>0, SeqFacts, Zenon
    <3> QED
      BY <1>0, <2>1, <3>1, SizedFacts, Zenon
  <2> DEFINE range == [da |-> batchInfos[1], start |-> local.start, end |-> local.end]
             b == BatchMsgs
  <2>4. /\ b \in Seq(Messages) /\ Len(b) > 0
        /\ \A i \in 1..Len(b) : b[i].type = "header" <=> i = 1
        /\ Announced(b, 1, file.data, range)
    BY <1>0, <2>2, BatchMsgsFacts, Zenon
  <2>5. msgs' = msgs \o b
    BY <2>1, Zenon
  <2> HIDE DEF b, range
  <2>6. /\ Len(b) \in Nat /\ Len(msgs) \in Nat
        /\ DOMAIN msgs' = 1..(Len(msgs) + Len(b))
        /\ \A i \in 1..Len(msgs) : msgs'[i] = msgs[i]
        /\ \A i \in 1..Len(b) : msgs'[Len(msgs) + i] = b[i]
    BY <1>0, <2>4, <2>5, ConcatFacts, SeqFacts
  <2>7. ASSUME NEW i \in DOMAIN msgs', msgs'[i].type = "header" PROVE i = Len(msgs) + 1
    <3>1. i \in 1..(Len(msgs) + Len(b)) /\ i \notin 1..Len(msgs)
      BY <2>1, <2>6, <2>7, Zenon DEF HeaderInv
    <3>2. i - Len(msgs) \in 1..Len(b) /\ i = Len(msgs) + (i - Len(msgs))
      BY <2>6, <3>1
    <3>3. b[i - Len(msgs)].type = "header"
      BY <2>6, <2>7, <3>2, Zenon
    <3>4. i - Len(msgs) = 1
      BY <2>4, <3>2, <3>3, Zenon
    <3> QED
      BY <2>6, <3>2, <3>4, Zenon
  <2>8. Announced(msgs', Len(msgs) + 1, file.data, range)
    <3>1. 1 \in 1..Len(b)
      BY <2>4, <2>6
    <3> QED
      BY <1>0, <2>4, <2>5, <3>1, AnnouncedKept, Zenon
  <2>9. ASSUME NEW i \in DOMAIN msgs', msgs'[i].type = "header"
        PROVE  Announced(msgs, i, file.data,
                         [da |-> batchInfos[1], start |-> local.start, end |-> local.end])'
    BY <2>1, <2>3, <2>7, <2>8, <2>9, Zenon DEF Announced, range
  <2> QED
    BY <2>9, Zenon DEF MsgInv
<1>8. \/ pc' # "staged"
      \/ UNCHANGED vars \/ L2Block \/ Post \/ \E info \in NewInfos : L1UpdateBatchInfo(info)
      \/ HostEvent \/ Close \/ (measureBatch /\ pc' = "staged")
      \/ (createBatchMsgs /\ pc' = "staged")
  BY Zenon DEF Next, Start, Handler, Open, ResetBatchFile, EmptyAtStart, InitializeNode, InitializeFails,
         Status, prepareBatch, handleBatch, writeCommit, Commit, switchWait, switchEmpty,
         switchSave, switchSynced, HandlerFails, Return, Exit, Kill, ResetHeight
<1> QED
  BY <1>2, <1>3, <1>4, <1>5, <1>6, <1>7, <1>8, Zenon

(* A step keeps the saved headers, their chunks and what they hold.        *)
LEMMA OutStep ==
  ASSUME TypeInv, PlaceInv, HeaderInv, ReadInv, DataInv, MsgInv, OutInv, [Next]_vars
  PROVE  OutInv'
<1>1. CASE UNCHANGED outbox
  <2>1. Headers' = Headers
    BY <1>1, Zenon DEF Headers
  <2> QED
    BY <1>1, <2>1, Zenon DEF OutInv
<1>2. CASE Commit /\ outbox' # outbox
  <2> SUFFICES ASSUME NEW i \in Headers'
               PROVE  \E d \in Seq(Items) : (Announced(outbox, i, d, outbox[i].range)
                                              /\ Complete(d, outbox[i].range))'
    BY Zenon DEF OutInv
  <2>0. /\ outbox \in Seq(Messages) /\ msgs \in Seq(Messages) /\ file.data \in Seq(Items)
        /\ saved.start \in Nat /\ local.start \in Nat /\ height \in Nat /\ Room \in Nat
        /\ local.end \in Nat
    BY TypeFacts, FileTypes, RoomFacts, Zenon DEF TypeInv
  <2>1. pc = "staged" /\ outbox' = outbox \o msgs
    BY <1>2, Zenon DEF Commit
  <2> DEFINE n == Len(outbox)
  <2>2. /\ n \in Nat /\ Len(msgs) \in Nat /\ DOMAIN outbox' = 1..(n + Len(msgs))
        /\ DOMAIN outbox = 1..n /\ DOMAIN msgs = 1..Len(msgs)
        /\ \A k \in 1..n : outbox'[k] = outbox[k]
        /\ \A k \in 1..Len(msgs) : outbox'[n + k] = msgs[k]
    BY <2>0, <2>1, ConcatFacts, SeqFacts
  <2>3. i \in 1..(n + Len(msgs)) /\ outbox'[i].type = "header"
    BY <2>2, Zenon DEF Headers
  <2> HIDE DEF n
  <2>4. CASE i \in 1..n
    <3>1. i \in Headers /\ outbox'[i] = outbox[i]
      BY <2>2, <2>3, <2>4, Zenon DEF Headers
    <3>2. PICK d \in Seq(Items) : Announced(outbox, i, d, outbox[i].range) /\ Complete(d, outbox[i].range)
      BY <3>1, Zenon DEF OutInv
    <3>3. Announced(outbox', i, d, outbox'[i].range) /\ Complete(d, outbox'[i].range)
      BY <2>0, <2>1, <2>4, <3>1, <3>2, AnnouncedKept, Zenon DEF n
    <3> QED
      BY <3>3, Zenon DEF Announced, Complete, Ordered, Committed, Full, Within
  <2>5. CASE i \notin 1..n
    <3>1. i - n \in 1..Len(msgs) /\ i = n + (i - n)
      BY <2>2, <2>3, <2>5
    <3> DEFINE k == i - n
               range == [da |-> batchInfos[1], start |-> local.start, end |-> local.end]
    <3>2. k \in 1..Len(msgs) /\ i = n + k
      BY <3>1, Zenon
    <3> HIDE DEF k
    <3>3. outbox'[i] = msgs[k] /\ msgs[k].type = "header"
      BY <2>2, <2>3, <3>2, Zenon
    <3>4. msgs[k].range = range /\ local.end # 0
      BY <2>1, <3>2, <3>3, Zenon DEF HeaderInv
    <3>5. Announced(msgs, k, file.data, range)
      BY <2>1, <2>2, <3>2, <3>3, Zenon DEF MsgInv
    <3>6. Announced(outbox', i, file.data, range)
      BY <2>0, <2>1, <3>2, <3>5, AnnouncedKept, Zenon DEF n
    <3>7. Complete(file.data, range)
      <4>1. local.end = height + 1 /\ pc \in Handling
        BY <2>1, <3>4, Zenon DEF PlaceInv, Handling
      <4>2. /\ Full(file.data, local.start, local.end) /\ file.data # <<>>
            /\ file.data[Len(file.data)] = CommitItem(local.end)
        BY <2>1, <3>4, <4>1, Zenon DEF ReadInv
      <4>3. local.end - local.start <= Room
        <5>1. CASE saved.end = 0
          <6>1. height + 1 - saved.start <= Room /\ local.start = saved.start
            BY <4>1, <5>1, Zenon DEF ReadInv, PlaceInv
          <6> QED
            BY <2>0, <4>1, <6>1
        <5>2. CASE saved.end # 0
          <6>1. local.start = height + 1
            BY <4>1, <5>2, Zenon DEF PlaceInv
          <6> QED
            BY <2>0, <4>1, <6>1
        <5> QED
          BY <5>1, <5>2, Zenon
      <4>4. Ordered(file.data) /\ Committed(file.data)
        BY Zenon DEF DataInv
      <4> QED
        BY <4>2, <4>3, <4>4, Zenon DEF Complete, range
    <3>8. outbox'[i].range = range
      BY <3>3, <3>4, Zenon
    <3> HIDE DEF range
    <3>9. Announced(outbox', i, file.data, outbox'[i].range) /\ Complete(file.data, outbox'[i].range)
      BY <3>6, <3>7, <3>8, Zenon
    <3>10. PICK d \in Seq(Items) : d = file.data
      BY <2>0, Zenon
    <3>11. Announced(outbox', i, d, outbox'[i].range) /\ Complete(d, outbox'[i].range)
      BY <3>9, <3>10, Zenon
    <3> QED
      BY <3>11, Zenon DEF Announced, Complete, Ordered, Committed, Full, Within
  <2> QED
    BY <2>4, <2>5, Zenon
<1>3. outbox' = outbox \/ Commit
  BY Zenon DEF Next, vars, L2Block, Post, HostEvent, L1UpdateBatchInfo, Start, Handler, Open,
         EmptyAtStart, InitializeNode, InitializeFails, Status, prepareBatch, handleBatch,
         measureBatch, writeCommit, createBatchMsgs, switchWait, switchEmpty, switchSave,
         switchSynced, HandlerFails, Close, Exit, Kill, ResetHeight, disk
<1> QED
  BY <1>1, <1>2, <1>3, Zenon

(* What is saved, from the invariants of all steps.                        *)
LEMMA OutInvariant ==
  ASSUME ~StopDuringUpdate, ~StopWhileExposed
  PROVE  Spec => [](TypeInv /\ OutInv)
<1>1. Init => HeaderInv /\ MsgInv /\ OutInv
  BY DEF Init, HeaderInv, MsgInv, OutInv, Headers
<1>2. TypeInv /\ PlaceInv /\ HeaderInv /\ [Next]_vars => HeaderInv'
  BY HeaderStep, Zenon
<1>3. TypeInv /\ PlaceInv /\ HeaderInv /\ MsgInv /\ [Next]_vars => MsgInv'
  BY MsgStep, Zenon
<1>4. TypeInv /\ PlaceInv /\ HeaderInv /\ ReadInv /\ DataInv /\ MsgInv /\ OutInv /\ [Next]_vars =>
        OutInv'
  BY OutStep, Zenon
<1> QED
  BY <1>1, <1>2, <1>3, <1>4, TypeInvariant, PlaceInvariant, FileInvariant, PTL DEF Spec

(* The chunks that follow a header are those of the data of its batch.     *)
LEMMA HeaderFacts ==
  ASSUME TypeInv, NEW i \in Headers, NEW d \in Seq(Items), Announced(outbox, i, d, outbox[i].range)
  PROVE  LET c == FileChunks(d, MaxChunkSize)
         IN  /\ Len(outbox[i].checksums) = Len(c) /\ DataOf(i) = d
             /\ \A j \in 1..Len(c) :
                  /\ i + j \in DOMAIN outbox
                  /\ outbox[i + j] = [type |-> "chunk", range |-> outbox[i].range, index |-> j - 1,
                                      length |-> Len(c), chunk |-> c[j]]
                  /\ outbox[i + j].chunk = c[j]
                  /\ outbox[i].checksums[j] = Checksum(c[j])
<1> DEFINE c == FileChunks(d, MaxChunkSize)
<1>1. c \in Seq(Seq(Items)) /\ Joined(c) = d
  <2>1. MaxChunkSize \in Nat \ {0}
    BY BatchAssumption
  <2> QED
    BY <2>1, ChunkFacts, ChunksFlatten, Zenon
<1>2. Len(c) \in Nat /\ DOMAIN c = 1..Len(c)
  BY <1>1, SMTT(30)
<1>3. /\ outbox[i].checksums = [j \in DOMAIN c |-> Checksum(c[j])]
      /\ \A j \in DOMAIN c :
           /\ i + j \in DOMAIN outbox
           /\ outbox[i + j] = [type |-> "chunk", range |-> outbox[i].range, index |-> j - 1,
                               length |-> Len(c), chunk |-> c[j]]
  BY SMTT(30) DEF Announced
<1> HIDE DEF c
<1>4. Len(outbox[i].checksums) = Len(c) /\ \A j \in 1..Len(c) : outbox[i].checksums[j] = Checksum(c[j])
  BY <1>2, <1>3
<1>5. ChunksOf(i) = c /\ \A j \in 1..Len(c) : outbox[i + j].chunk = c[j]
  <2>1. ChunksOf(i) = [j \in 1..Len(c) |-> outbox[i + j].chunk]
    BY <1>4, Zenon DEF ChunksOf
  <2>2. ASSUME NEW j \in 1..Len(c) PROVE outbox[i + j].chunk = c[j]
    <3>1. outbox[i + j] = [type |-> "chunk", range |-> outbox[i].range, index |-> j - 1,
                           length |-> Len(c), chunk |-> c[j]]
      BY <1>2, <1>3, Zenon
    <3> QED
      BY <3>1
  <2> QED
    BY <1>1, <1>2, <2>1, <2>2
<1>6. DataOf(i) = d
  BY <1>1, <1>5, Zenon DEF DataOf
<1> QED
  BY <1>2, <1>3, <1>4, <1>5, <1>6, Zenon DEF c

(* Every saved header is followed by the chunks that it announces, not     *)
(* more than MaxChunks of them (HeaderAnnouncesChunks), when the process   *)
(* stops neither while a new info waits nor while the file lacks a synced  *)
(* block.                                                                  *)
THEOREM ChunksAnnounced ==
  ASSUME ~StopDuringUpdate, ~StopWhileExposed
  PROVE  Spec => []HeaderAnnouncesChunks
<1>1. ASSUME TypeInv, OutInv PROVE HeaderAnnouncesChunks
  <2> SUFFICES ASSUME NEW i \in Headers
               PROVE  LET h == outbox[i]
                          n == Len(h.checksums)
                      IN  /\ \A j \in 1..n :
                               /\ i + j \in DOMAIN outbox
                               /\ outbox[i + j] = [type |-> "chunk", range |-> h.range,
                                                   index |-> j - 1, length |-> n,
                                                   chunk |-> outbox[i + j].chunk]
                               /\ h.checksums[j] = Checksum(outbox[i + j].chunk)
                          /\ Len(DataOf(i)) = h.range.end - h.range.start + 2 => n <= MaxChunks
    BY Zenon DEF HeaderAnnouncesChunks
  <2>1. PICK d \in Seq(Items) : Announced(outbox, i, d, outbox[i].range) /\ Complete(d, outbox[i].range)
    BY <1>1, Zenon DEF OutInv
  <2> DEFINE c == FileChunks(d, MaxChunkSize)
             range == outbox[i].range
  <2>2. /\ Len(outbox[i].checksums) = Len(c) /\ DataOf(i) = d
        /\ \A j \in 1..Len(c) :
             /\ i + j \in DOMAIN outbox
             /\ outbox[i + j] = [type |-> "chunk", range |-> range, index |-> j - 1,
                                 length |-> Len(c), chunk |-> c[j]]
             /\ outbox[i + j].chunk = c[j]
             /\ outbox[i].checksums[j] = Checksum(c[j])
    BY <1>1, <2>1, HeaderFacts, Zenon
  <2>3. ASSUME Len(d) = range.end - range.start + 2 PROVE Len(c) <= MaxChunks
    <3>1. range.start \in Nat /\ range.end \in Nat
      <4>1. outbox[i] \in Messages /\ outbox[i].type = "header"
        BY <1>1 DEF TypeInv, Headers
      <4> QED
        BY <4>1, Zenon DEF Messages, Ranges
    <3>2. range.end - range.start <= Room
      BY <2>1, Zenon DEF Complete
    <3> HIDE DEF range
    <3>3. MaxChunkSize \in Nat \ {0} /\ MaxChunkSize >= 2 /\ MaxChunks \in Nat
      BY BatchAssumption
    <3>4. Len(d) <= MaxChunks * MaxChunkSize
      <4>1. Room \in Nat /\ Room + MaxChunkSize = MaxChunks * MaxChunkSize
        BY RoomFacts, Zenon
      <4>2. Len(d) <= Room + MaxChunkSize
        BY <2>3, <3>1, <3>2, <3>3, <4>1, SMTT(30)
      <4> QED
        BY <4>1, <4>2, Zenon
    <3>5. /\ Len(c) \in Nat /\ Len(d) \in Nat
          /\ \A k \in 1..Len(c) : (k - 1) * MaxChunkSize < Len(d)
      <4>1. c \in Seq(Seq(Items)) /\ \A k \in 1..Len(c) : (k - 1) * MaxChunkSize < Len(d)
        BY <3>3, ChunkFacts, Zenon
      <4> QED
        BY <4>1
    <3> HIDE DEF c
    <3> SUFFICES ASSUME Len(c) > MaxChunks PROVE FALSE
      BY <3>3, <3>5
    <3>6. MaxChunks + 1 \in 1..Len(c) /\ (MaxChunks + 1) - 1 = MaxChunks
      BY <3>3, <3>5
    <3>7. ((MaxChunks + 1) - 1) * MaxChunkSize < Len(d)
      BY <3>5, <3>6, Zenon
    <3>8. MaxChunks * MaxChunkSize < Len(d)
      BY <3>6, <3>7, Zenon
    <3>9. MaxChunks * MaxChunkSize \in Nat
      BY <3>3
    <3> QED
      BY <3>4, <3>5, <3>8, <3>9
  <2> HIDE DEF c, range
  <2> QED
    BY <2>2, <2>3, Zenon DEF range
<1> QED
  BY <1>1, OutInvariant, PTL

-----------------------------------------------------------------------------
(* A batch gives L2's blocks back.                                         *)

(* A field is set and set again.                                           *)
LEMMA FieldFacts ==
  ASSUME NEW f, NEW a, a \in DOMAIN f, f = [x \in DOMAIN f |-> f[x]], NEW u, NEW v
  PROVE  /\ [f EXCEPT ![a] = u][a] = u /\ DOMAIN [f EXCEPT ![a] = u] = DOMAIN f
         /\ \A b \in DOMAIN f \ {a} : [f EXCEPT ![a] = u][b] = f[b]
         /\ [[f EXCEPT ![a] = u] EXCEPT ![a] = v] = [f EXCEPT ![a] = v]
         /\ [f EXCEPT ![a] = f[a]] = f
<1>1. /\ [f EXCEPT ![a] = u][a] = u /\ DOMAIN [f EXCEPT ![a] = u] = DOMAIN f
      /\ \A b \in DOMAIN f \ {a} : [f EXCEPT ![a] = u][b] = f[b]
  BY Zenon
<1>2. [[f EXCEPT ![a] = u] EXCEPT ![a] = v] = [f EXCEPT ![a] = v]
  BY Zenon
<1>3. [f EXCEPT ![a] = f[a]] = f
  BY Zenon
<1> QED
  BY <1>1, <1>2, <1>3, Zenon

(* The payload of an oracle message that was emptied comes back from L1.   *)
LEMMA PayloadBack ==
  ASSUME NEW m, FromL1(m), m.type \in OracleTypes
  PROVE  /\ RestorePayload(m) = m /\ RestorePayload([m EXCEPT !.data = Blank]) = m
         /\ [m EXCEPT !.data = Blank].type = m.type
         /\ [[m EXCEPT !.data = Blank] EXCEPT !.data = Blank] = [m EXCEPT !.data = Blank]
<1>1. /\ "type" \in DOMAIN m /\ "data" \in DOMAIN m /\ m = [x \in DOMAIN m |-> m[x]]
      /\ m.data = L1Payload /\ "type" # "data"
  BY Zenon DEF FromL1, HasFields
<1> DEFINE e == [m EXCEPT !.data = Blank]
<1>2. e.type = m.type /\ e.data = Blank
  BY <1>1, Zenon
<1>3. [e EXCEPT !.data = Blank] = e
  BY <1>1, Zenon
<1>4. RestorePayload(m) = [m EXCEPT !.data = L1Payload]
  BY <1>1, Zenon DEF RestorePayload
<1>5. RestorePayload(e) = [e EXCEPT !.data = L1Payload]
  <2> HIDE DEF e
  <2> QED
  BY <1>2, Zenon DEF RestorePayload
<1>6. [m EXCEPT !.data = L1Payload] = m
  BY <1>1, Zenon
<1>7. [e EXCEPT !.data = L1Payload] = m
  BY <1>1, Zenon
<1> QED
  BY <1>2, <1>3, <1>4, <1>5, <1>6, <1>7, Zenon

(* A payload or the payload in an Exec may have been emptied.              *)
Blanked(e, m) ==
  \/ e = m
  \/ m.type \in OracleTypes /\ e = [m EXCEPT !.data = Blank]
  \/ /\ m.type = "Exec" /\ 1 \in DOMAIN m.msgs /\ m.msgs[1].type \in OracleTypes
     /\ e = [m EXCEPT !.msgs = [m.msgs EXCEPT ![1] = [m.msgs[1] EXCEPT !.data = Blank]]]

(* emptyOracleData and emptyRelayOracleData may both empty a message.      *)
LEMMA BlankedAgain ==
  ASSUME NEW m, MsgFromL1(m), NEW e, Blanked(e, m), NEW type \in OracleTypes
  PROVE  Blanked(EmptyPayload(e, type), m) /\ e.type = m.type
<1> USE DEF IsMsg, IsExecOf
<1>0. type # "Exec" /\ "Exec" \notin OracleTypes
  BY Zenon DEF OracleTypes
<1>1. FromL1(m) /\ "type" \in DOMAIN m /\ m = [x \in DOMAIN m |-> m[x]]
  BY Zenon DEF MsgFromL1, FromL1, HasFields
<1>2. CASE m.type \in OracleTypes
  <2>1. [m EXCEPT !.data = Blank].type = m.type
    BY <1>1, <1>2, PayloadBack, Zenon
  <2>2. e = m \/ e = [m EXCEPT !.data = Blank]
    BY <1>0, <1>2, Zenon DEF Blanked
  <2>3. e.type = m.type
    BY <2>1, <2>2, Zenon
  <2>4. EmptyPayload(e, type) = e \/ EmptyPayload(e, type) = [e EXCEPT !.data = Blank]
    BY <1>0, <1>2, <2>3, Zenon DEF EmptyPayload
  <2>5. [[m EXCEPT !.data = Blank] EXCEPT !.data = Blank] = [m EXCEPT !.data = Blank]
    BY <1>1, <1>2, PayloadBack, Zenon
  <2>6. EmptyPayload(e, type) = m \/ EmptyPayload(e, type) = [m EXCEPT !.data = Blank]
    BY <2>2, <2>4, <2>5, Zenon
  <2> QED
    BY <1>2, <2>3, <2>6, Zenon DEF Blanked
<1>3. CASE m.type = "Exec"
  <2> DEFINE x == m.msgs[1]
             y == [x EXCEPT !.data = Blank]
             b == [m EXCEPT !.msgs = [m.msgs EXCEPT ![1] = y]]
  <2>1. /\ "msgs" \in DOMAIN m /\ m.msgs = [k \in DOMAIN m.msgs |-> m.msgs[k]]
        /\ \A k \in DOMAIN m.msgs : FromL1(m.msgs[k])
    BY <1>3, Zenon DEF MsgFromL1, HasFields
  <2>2. e = m \/ (1 \in DOMAIN m.msgs /\ x.type \in OracleTypes /\ e = b)
    BY <1>0, <1>3, Zenon DEF Blanked
  <2>3. b.type = m.type /\ b.msgs = [m.msgs EXCEPT ![1] = y]
    BY <1>1, <2>1, Zenon
  <2>4. ASSUME 1 \in DOMAIN m.msgs, x.type \in OracleTypes
        PROVE  y.type = x.type /\ [y EXCEPT !.data = Blank] = y /\ b.msgs[1] = y
    <3>1. FromL1(x)
      BY <2>1, <2>4, Zenon
    <3>2. y.type = x.type /\ [y EXCEPT !.data = Blank] = y
      BY <2>4, <3>1, PayloadBack, Zenon
    <3>3. b.msgs[1] = y
      BY <2>3, <2>4, Zenon
    <3> QED
      BY <3>2, <3>3, Zenon
  <2>5. e.type = m.type
    BY <2>2, <2>3, Zenon
  <2> DEFINE again == [e EXCEPT !.msgs = [e.msgs EXCEPT ![1] = [e.msgs[1] EXCEPT !.data = Blank]]]
  <2>6. \/ EmptyPayload(e, type) = e
        \/ Len(e.msgs) = 1 /\ e.msgs[1].type = type /\ EmptyPayload(e, type) = again
    BY <1>0, <1>3, <2>5, Zenon DEF EmptyPayload
  <2>7. CASE EmptyPayload(e, type) = e
    BY <2>5, <2>7, Zenon
  <2>8. CASE e = m /\ Len(e.msgs) = 1 /\ e.msgs[1].type = type /\ EmptyPayload(e, type) = again
    <3>1. CASE 1 \in DOMAIN m.msgs
      BY <1>3, <2>5, <2>8, <3>1, Zenon DEF Blanked
    <3>2. CASE 1 \notin DOMAIN m.msgs
      <4>1. [m.msgs EXCEPT ![1] = [m.msgs[1] EXCEPT !.data = Blank]] = m.msgs
        BY <2>1, <3>2, Zenon
      <4>2. again = m
        BY <1>1, <2>1, <2>8, <4>1, Zenon
      <4> QED
        BY <2>5, <2>8, <4>2, Zenon DEF Blanked
    <3> QED
      BY <3>1, <3>2, Zenon
  <2>9. CASE e = b /\ 1 \in DOMAIN m.msgs /\ x.type \in OracleTypes /\ EmptyPayload(e, type) = again
    <3>1. e.msgs[1] = y /\ [y EXCEPT !.data = Blank] = y /\ e.msgs = [m.msgs EXCEPT ![1] = y]
      BY <2>3, <2>4, <2>9, Zenon
    <3>2. again = [e EXCEPT !.msgs = [e.msgs EXCEPT ![1] = y]]
      BY <3>1, Zenon
    <3>3. [[m.msgs EXCEPT ![1] = y] EXCEPT ![1] = y] = [m.msgs EXCEPT ![1] = y]
      BY <2>1, Zenon
    <3> HIDE DEF x, y
    <3>4. [b EXCEPT !.msgs = [m.msgs EXCEPT ![1] = y]] = b
      BY <1>1, <2>1, Zenon
    <3>5. again = b
      BY <2>9, <3>1, <3>2, <3>3, <3>4, Zenon
    <3> QED
      BY <1>3, <2>5, <2>9, <3>5, Zenon DEF Blanked, x, y
  <2> QED
    BY <2>2, <2>6, <2>7, <2>8, <2>9, Zenon
<1>4. CASE m.type \notin OracleTypes /\ m.type # "Exec"
  BY <1>4 DEF Blanked, EmptyPayload
<1> QED
  BY <1>2, <1>3, <1>4, Zenon

(* The first index of a signature.                                         *)
LEMMA IndexFacts ==
  ASSUME NEW sigs, Len(sigs) \in Nat, DOMAIN sigs = 1..Len(sigs), NEW s
  PROVE  \/ IndexFunc(sigs, s) = -1
         \/ IndexFunc(sigs, s) \in Nat /\ sigs[IndexFunc(sigs, s) + 1] = s
<1> DEFINE found == {i \in DOMAIN sigs : sigs[i] = s}
<1>1. CASE s = Absent \/ found = {}
  BY <1>1, Zenon DEF IndexFunc
<1>2. CASE ~(s = Absent \/ found = {})
  <2>1. IndexFunc(sigs, s) = Min(found) - 1
    BY <1>2, Zenon DEF IndexFunc
  <2>2. found # {} /\ found \in SUBSET Nat
    BY <1>2
  <2>3. PICK k \in found : \A i \in found : k <= i
    BY <2>2, LeastElement, Zenon
  <2>4. Min(found) \in found
    BY <2>3, Zenon DEF Min
  <2>5. Min(found) \in 1..Len(sigs) /\ sigs[Min(found)] = s
    BY <2>4, Zenon
  <2> HIDE DEF found
  <2>6. Min(found) - 1 \in Nat /\ (Min(found) - 1) + 1 = Min(found)
    BY <2>5
  <2> QED
    BY <2>1, <2>5, <2>6, Zenon
<1> QED
  BY <1>1, <1>2, Zenon

(* An index is restored from its two digits.                               *)
LEMMA RefBack ==
  ASSUME NEW n \in Nat
  PROVE  SigRef(n)[1] + Byte * SigRef(n)[2] + 1 = n + 1 /\ SigRef(n) # <<>>
<1>1. Byte \in Nat /\ Byte > 1
  BY SizesAssumption, Zenon
<1>2. (n % Byte) + Byte * (n \div Byte) = n /\ n % Byte \in Nat /\ n \div Byte \in Nat
  BY <1>1
<1>3. SigRef(n)[1] = n % Byte /\ SigRef(n)[2] = n \div Byte /\ SigRef(n) # <<>>
  BY Zenon DEF SigRef
<1> QED
  BY <1>1, <1>2, <1>3, Zenon

(* A compacted signature is restored from the next L1 block.               *)
LEMMA SigsBack ==
  ASSUME NEW sigs, sigs = [i \in DOMAIN sigs |-> sigs[i]],
         NEW commit, Len(commit) \in Nat, DOMAIN commit = 1..Len(commit)
  PROVE  LET c == CompactSigs(sigs, commit)
         IN  [i \in DOMAIN c |-> RestoreSig(c[i], commit)] = sigs
<1> DEFINE c == CompactSigs(sigs, commit)
<1>1. DOMAIN c = DOMAIN sigs
  BY Zenon DEF CompactSigs
<1>2. ASSUME NEW i \in DOMAIN sigs PROVE RestoreSig(c[i], commit) = sigs[i]
  <2> DEFINE at == IndexFunc(commit, sigs[i])
  <2>1. c[i] = IF at = -1 THEN [ref |-> <<>>, sig |-> sigs[i]]
               ELSE [ref |-> SigRef(at), sig |-> Absent]
    BY <1>2, Zenon DEF CompactSigs
  <2>2. at = -1 \/ (at \in Nat /\ commit[at + 1] = sigs[i])
    BY IndexFacts, Zenon
  <2> HIDE DEF at, c
  <2>3. CASE at = -1
    BY <2>1, <2>3 DEF RestoreSig
  <2>4. CASE at # -1
    <3>1. c[i] = [ref |-> SigRef(at), sig |-> Absent]
      BY <2>1, <2>4, Zenon
    <3>2. SigRef(at)[1] + Byte * SigRef(at)[2] + 1 = at + 1 /\ SigRef(at) # <<>>
      BY <2>2, <2>4, RefBack, Zenon
    <3>3. c[i].ref = SigRef(at)
      BY <3>1
    <3>4. RestoreSig(c[i], commit) = commit[SigRef(at)[1] + Byte * SigRef(at)[2] + 1]
      BY <3>2, <3>3, Zenon DEF RestoreSig
    <3> QED
      BY <2>2, <2>4, <3>2, <3>4, Zenon
  <2> QED
    BY <2>3, <2>4, Zenon
<1> HIDE DEF c
<1>3. [i \in DOMAIN c |-> RestoreSig(c[i], commit)] = [i \in DOMAIN sigs |-> sigs[i]]
  BY <1>1, <1>2, Zenon
<1> QED
  BY <1>3, Zenon DEF c

(* A message is restored from its conversion.                              *)
LEMMA MsgBack ==
  ASSUME NEW m, MsgFromL1(m), NEW e, Blanked(e, m)
  PROVE  RestoreMsg(CompactMsg(e, HostChain, LastCommit)) = m
<1>0. /\ FromL1(m) /\ "type" \in DOMAIN m /\ m = [x \in DOMAIN m |-> m[x]]
      /\ "Exec" \notin OracleTypes /\ "UpdateClient" \notin OracleTypes
  BY Zenon DEF MsgFromL1, FromL1, HasFields, OracleTypes
<1>1. e.type = m.type
  BY BlankedAgain, Zenon DEF OracleTypes
<1>2. CASE m.type \in OracleTypes
  <2>1. CompactMsg(e, HostChain, LastCommit) = e
    BY <1>0, <1>1, <1>2, Zenon DEF CompactMsg
  <2>2. RestoreMsg(e) = RestorePayload(e)
    BY <1>0, <1>1, <1>2, Zenon DEF RestoreMsg
  <2>3. e = m \/ e = [m EXCEPT !.data = Blank]
    BY <1>0, <1>2, Zenon DEF Blanked
  <2>4. RestorePayload(e) = m
    BY <1>0, <1>2, <2>3, PayloadBack, Zenon
  <2> QED
    BY <2>1, <2>2, <2>4, Zenon
<1>3. CASE m.type = "Exec"
  <2>1. CompactMsg(e, HostChain, LastCommit) = e
    BY <1>1, <1>3, Zenon DEF CompactMsg
  <2>2. RestoreMsg(e) = [e EXCEPT !.msgs = [k \in DOMAIN e.msgs |-> RestorePayload(e.msgs[k])]]
    BY <1>1, <1>3, Zenon DEF RestoreMsg
  <2>3. /\ "msgs" \in DOMAIN m /\ m.msgs = [k \in DOMAIN m.msgs |-> m.msgs[k]]
        /\ \A k \in DOMAIN m.msgs : FromL1(m.msgs[k])
    BY <1>3, Zenon DEF MsgFromL1, HasFields
  <2>4. \A k \in DOMAIN m.msgs : RestorePayload(m.msgs[k]) = m.msgs[k]
    <3> TAKE k \in DOMAIN m.msgs
    <3>1. CASE m.msgs[k].type \in OracleTypes
      BY <2>3, <3>1, PayloadBack, Zenon
    <3>2. CASE m.msgs[k].type \notin OracleTypes
      BY <3>2, Zenon DEF RestorePayload
    <3> QED
      BY <3>1, <3>2, Zenon
  <2>5. CASE e = m
    <3>1. [k \in DOMAIN e.msgs |-> RestorePayload(e.msgs[k])] = m.msgs
      BY <2>3, <2>4, <2>5, Zenon
    <3>2. [e EXCEPT !.msgs = m.msgs] = m
      BY <1>0, <2>3, <2>5, Zenon
    <3> QED
      BY <2>1, <2>2, <3>1, <3>2, Zenon
  <2>6. CASE e # m
    <3> DEFINE x == m.msgs[1]
               y == [x EXCEPT !.data = Blank]
               ms == [m.msgs EXCEPT ![1] = y]
    <3>1. 1 \in DOMAIN m.msgs /\ x.type \in OracleTypes /\ e = [m EXCEPT !.msgs = ms]
      BY <1>0, <1>3, <2>6, Zenon DEF Blanked
    <3>2. RestorePayload(y) = x
      BY <2>3, <3>1, PayloadBack, Zenon
    <3> HIDE DEF y
    <3>3. /\ DOMAIN ms = DOMAIN m.msgs /\ ms[1] = y
          /\ \A k \in DOMAIN m.msgs : k # 1 => ms[k] = m.msgs[k]
      BY <3>1, Zenon
    <3>4. \A k \in DOMAIN m.msgs : RestorePayload(ms[k]) = m.msgs[k]
      BY <2>4, <3>2, <3>3, Zenon
    <3> HIDE DEF ms
    <3>5. [k \in DOMAIN ms |-> RestorePayload(ms[k])] = m.msgs
      BY <2>3, <3>3, <3>4, Zenon
    <3>6. e.msgs = ms
      BY <2>3, <3>1, Zenon
    <3>7. [e EXCEPT !.msgs = m.msgs] = m
      BY <1>0, <2>3, <3>1, Zenon
    <3> QED
      BY <2>1, <2>2, <3>5, <3>6, <3>7, Zenon
  <2> QED
    BY <2>5, <2>6, Zenon
<1>4. CASE m.type = "UpdateClient" /\ m.chain = HostChain
  <2>1. e = m
    BY <1>0, <1>4, Zenon DEF Blanked
  <2> DEFINE commit == LastCommit[m.height + 1]
             s == CompactSigs(m.sigs, commit)
             c == [m EXCEPT !.sigs = s, !.vals = Blank]
  <2>2. /\ {"chain", "height", "sigs", "vals"} \subseteq DOMAIN m /\ m.vals = L1Payload
        /\ m.sigs = [i \in DOMAIN m.sigs |-> m.sigs[i]]
        /\ Len(commit) \in Nat /\ DOMAIN commit = 1..Len(commit)
    BY <1>4, Zenon DEF MsgFromL1, HasFields
  <2>3. CompactMsg(e, HostChain, LastCommit) = c
    BY <1>4, <2>1, Zenon DEF CompactMsg
  <2>4. [i \in DOMAIN s |-> RestoreSig(s[i], commit)] = m.sigs
    BY <2>2, SigsBack, Zenon
  <2> HIDE DEF s
  <2>5. /\ c.type = m.type /\ c.chain = m.chain /\ c.height = m.height /\ c.sigs = s
    BY <1>0, <2>2, Zenon
  <2>6. [c EXCEPT !.vals = L1Payload, !.sigs = m.sigs] = m
    BY <1>0, <2>2, Zenon
  <2>7. RestoreMsg(c) = [c EXCEPT !.vals = L1Payload,
                                  !.sigs = [i \in DOMAIN c.sigs |->
                                    RestoreSig(c.sigs[i], LastCommit[c.height + 1])]]
    <3> HIDE DEF c
    <3> QED
      BY <1>4, <2>5, Zenon DEF RestoreMsg
  <2> HIDE DEF c
  <2>8. [i \in DOMAIN c.sigs |-> RestoreSig(c.sigs[i], LastCommit[c.height + 1])] = m.sigs
    BY <2>4, <2>5, Zenon
  <2> QED
    BY <2>3, <2>6, <2>7, <2>8, Zenon
<1>5. CASE m.type \notin OracleTypes /\ m.type # "Exec" /\ ~(m.type = "UpdateClient" /\ m.chain = HostChain)
  BY <1>5, Zenon DEF Blanked, CompactMsg, RestoreMsg, RestorePayload
<1> QED
  BY <1>2, <1>3, <1>4, <1>5, Zenon

(* A transaction, and a block, of which payloads may have been emptied.    *)
TxBlanked(c, tx) ==
  /\ c.known = tx.known
  /\ ~tx.known => c = tx
  /\ tx.known =>
       /\ c = [tx EXCEPT !.msgs = c.msgs] /\ DOMAIN c.msgs = DOMAIN tx.msgs
       /\ \A i \in DOMAIN tx.msgs : Blanked(c.msgs[i], tx.msgs[i])
TxsBlanked(cs, txs) == DOMAIN cs = DOMAIN txs /\ \A t \in DOMAIN txs : TxBlanked(cs[t], txs[t])

(* Emptying more payloads of a transaction leaves one that can be restored.*)
LEMMA TxEmptied ==
  ASSUME NEW tx, TxFromL1(tx), tx.known, NEW c, TxBlanked(c, tx), NEW type \in OracleTypes,
         NEW ms, DOMAIN ms = DOMAIN c.msgs,
         \A i \in DOMAIN ms : ms[i] = c.msgs[i] \/ ms[i] = EmptyPayload(c.msgs[i], type)
  PROVE  TxBlanked([c EXCEPT !.msgs = ms], tx)
<1> DEFINE e == [c EXCEPT !.msgs = ms]
<1>1. /\ tx = [x \in DOMAIN tx |-> tx[x]] /\ "known" \in DOMAIN tx /\ "msgs" \in DOMAIN tx
      /\ \A i \in DOMAIN tx.msgs : MsgFromL1(tx.msgs[i])
  BY Zenon DEF TxFromL1, HasFields
<1>2. /\ c = [tx EXCEPT !.msgs = c.msgs] /\ DOMAIN c.msgs = DOMAIN tx.msgs
      /\ \A i \in DOMAIN tx.msgs : Blanked(c.msgs[i], tx.msgs[i])
  BY Zenon DEF TxBlanked
<1>3. DOMAIN c = DOMAIN tx /\ c = [x \in DOMAIN c |-> c[x]] /\ c.known = tx.known
  <2>1. PICK ns : c = [tx EXCEPT !.msgs = ns]
    BY <1>2, Zenon
  <2> QED
    BY <1>1, <2>1, Zenon
<1>4. e.msgs = ms /\ e.known = tx.known
  BY <1>1, <1>3, Zenon
<1>5. e = [tx EXCEPT !.msgs = ms]
  <2>1. PICK ns : c = [tx EXCEPT !.msgs = ns]
    BY <1>2, Zenon
  <2>2. [[tx EXCEPT !.msgs = ns] EXCEPT !.msgs = ms] = [tx EXCEPT !.msgs = ms]
    BY <1>1, Zenon
  <2> QED
    BY <2>1, <2>2, Zenon
<1>6. \A i \in DOMAIN tx.msgs : Blanked(ms[i], tx.msgs[i])
  <2> TAKE i \in DOMAIN tx.msgs
  <2>1. Blanked(EmptyPayload(c.msgs[i], type), tx.msgs[i])
    BY <1>1, <1>2, BlankedAgain, Zenon
  <2> QED
    BY <1>2, <2>1, Zenon
<1> HIDE DEF e
<1>7. TxBlanked(e, tx)
  BY <1>2, <1>4, <1>5, <1>6, Zenon DEF TxBlanked
<1> QED
  BY <1>7, Zenon DEF e

CompactTx(c) == [c EXCEPT !.msgs = [i \in DOMAIN @ |-> CompactMsg(@[i], HostChain, LastCommit)]]
RestoreTx(e) == [e EXCEPT !.msgs = [i \in DOMAIN @ |-> RestoreMsg(@[i])]]

(* A transaction is restored from its conversion.                          *)
LEMMA TxBack ==
  ASSUME NEW tx, TxFromL1(tx), tx.known, NEW c, TxBlanked(c, tx), NEW e, e = CompactTx(c)
  PROVE  e.known /\ RestoreTx(e) = tx
<1> DEFINE ms == [i \in DOMAIN c.msgs |-> CompactMsg(c.msgs[i], HostChain, LastCommit)]
           back == [i \in DOMAIN ms |-> RestoreMsg(ms[i])]
<1>1. /\ tx = [x \in DOMAIN tx |-> tx[x]] /\ "known" \in DOMAIN tx /\ "msgs" \in DOMAIN tx
      /\ tx.msgs = [i \in DOMAIN tx.msgs |-> tx.msgs[i]]
      /\ \A i \in DOMAIN tx.msgs : MsgFromL1(tx.msgs[i])
  BY Zenon DEF TxFromL1, HasFields
<1>2. /\ c = [tx EXCEPT !.msgs = c.msgs] /\ DOMAIN c.msgs = DOMAIN tx.msgs
      /\ \A i \in DOMAIN tx.msgs : Blanked(c.msgs[i], tx.msgs[i])
  BY Zenon DEF TxBlanked
<1>3. \A i \in DOMAIN tx.msgs : RestoreMsg(ms[i]) = tx.msgs[i]
  <2> TAKE i \in DOMAIN tx.msgs
  <2>1. RestoreMsg(CompactMsg(c.msgs[i], HostChain, LastCommit)) = tx.msgs[i]
    BY <1>1, <1>2, MsgBack
  <2>2. ms[i] = CompactMsg(c.msgs[i], HostChain, LastCommit)
    BY <1>2, Zenon
  <2> QED
    BY <2>1, <2>2, Zenon
<1>4. DOMAIN ms = DOMAIN tx.msgs
  BY <1>2, Zenon
<1>0. e = [c EXCEPT !.msgs = ms]
  BY Zenon DEF CompactTx
<1> HIDE DEF ms
<1>5. back = tx.msgs
  BY <1>1, <1>3, <1>4, Zenon
<1>6. PICK ns : c = [tx EXCEPT !.msgs = ns]
  BY <1>2, Zenon
<1>7. e = [tx EXCEPT !.msgs = ms]
  <2>1. [[tx EXCEPT !.msgs = ns] EXCEPT !.msgs = ms] = [tx EXCEPT !.msgs = ms]
    BY <1>1, Zenon
  <2> QED
    BY <1>0, <1>6, <2>1, Zenon
<1>8. e.known = tx.known /\ e.msgs = ms
  BY <1>1, <1>7, Zenon
<1>9. [e EXCEPT !.msgs = tx.msgs] = tx
  BY <1>1, <1>7, Zenon
<1>10. RestoreTx(e) = tx
  BY <1>5, <1>8, <1>9, Zenon DEF RestoreTx
<1> QED
  BY <1>8, <1>10, Zenon

(* es is cs with payloads of a type emptied in the first transaction.      *)
FirstEmptied(es, cs, ms, type) ==
  /\ cs[1].known /\ es = [cs EXCEPT ![1] = [cs[1] EXCEPT !.msgs = ms]]
  /\ DOMAIN ms = DOMAIN cs[1].msgs
  /\ \A i \in DOMAIN ms : ms[i] = cs[1].msgs[i] \/ ms[i] = EmptyPayload(cs[1].msgs[i], type)

(* Such a step leaves a block that can be restored.                        *)
LEMMA FirstTxEmptied ==
  ASSUME NEW txs, \A t \in DOMAIN txs : TxFromL1(txs[t]), NEW cs, TxsBlanked(cs, txs),
         NEW type \in OracleTypes, NEW es, NEW ms, FirstEmptied(es, cs, ms, type)
  PROVE  TxsBlanked(es, txs)
<1>1. /\ cs[1].known /\ es = [cs EXCEPT ![1] = [cs[1] EXCEPT !.msgs = ms]]
      /\ DOMAIN ms = DOMAIN cs[1].msgs
      /\ \A i \in DOMAIN ms : ms[i] = cs[1].msgs[i] \/ ms[i] = EmptyPayload(cs[1].msgs[i], type)
  BY Zenon DEF FirstEmptied
<1>2. DOMAIN es = DOMAIN txs
  BY <1>1, Zenon DEF TxsBlanked
<1>3. ASSUME NEW t \in DOMAIN txs PROVE TxBlanked(es[t], txs[t])
  <2>1. TxBlanked(cs[t], txs[t]) /\ t \in DOMAIN cs
    BY <1>3, Zenon DEF TxsBlanked
  <2>2. CASE t # 1
    <3>1. es[t] = cs[t]
      BY <1>1, <2>1, <2>2, Zenon
    <3> QED
      BY <2>1, <3>1, Zenon
  <2>3. CASE t = 1
    <3>1. es[t] = [cs[t] EXCEPT !.msgs = ms]
      BY <1>1, <2>1, <2>3, Zenon
    <3>2. txs[t].known
      BY <1>1, <2>1, <2>3, Zenon DEF TxBlanked
    <3>3. TxBlanked([cs[t] EXCEPT !.msgs = ms], txs[t])
      BY <1>1, <1>3, <2>1, <2>3, <3>2, TxEmptied, Zenon
    <3> QED
      BY <3>1, <3>3, Zenon
  <2> QED
    BY <2>2, <2>3, Zenon
<1> QED
  BY <1>2, <1>3, Zenon DEF TxsBlanked

(* The payloads that the two conversions empty can be restored.            *)
LEMMA TxsEmptied ==
  ASSUME NEW txs, HasFields(txs, {}), \A t \in DOMAIN txs : TxFromL1(txs[t])
  PROVE  TxsBlanked(emptyRelayOracleData(emptyOracleData(txs)), txs)
<1>1. TxsBlanked(txs, txs)
  <2> SUFFICES ASSUME NEW t \in DOMAIN txs PROVE TxBlanked(txs[t], txs[t])
    BY Zenon DEF TxsBlanked
  <2>1. txs[t] = [txs[t] EXCEPT !.msgs = txs[t].msgs]
    <3>1. txs[t] = [x \in DOMAIN txs[t] |-> txs[t][x]] /\ "msgs" \in DOMAIN txs[t]
      BY Zenon DEF TxFromL1, HasFields
    <3> QED
      BY <3>1, Zenon
  <2>2. \A i \in DOMAIN txs[t].msgs : Blanked(txs[t].msgs[i], txs[t].msgs[i])
    BY Zenon DEF Blanked
  <2> QED
    BY <2>1, <2>2, Zenon DEF TxBlanked
<1> DEFINE cs == emptyOracleData(txs)
<1>3. TxsBlanked(cs, txs)
  <2>1. CASE txs = <<>> \/ ~txs[1].known \/ Len(txs[1].msgs) # 1
    BY <1>1, <2>1, Zenon DEF emptyOracleData
  <2>2. CASE ~(txs = <<>> \/ ~txs[1].known \/ Len(txs[1].msgs) # 1)
    <3> DEFINE old == txs[1].msgs
               ms == [old EXCEPT ![1] = EmptyPayload(old[1], "UpdateOracle")]
    <3>1. cs = [txs EXCEPT ![1] = [txs[1] EXCEPT !.msgs = ms]]
      BY <2>2, Zenon DEF emptyOracleData
    <3>2. DOMAIN ms = DOMAIN old
      BY Zenon
    <3>3. \A i \in DOMAIN ms : ms[i] = old[i] \/ ms[i] = EmptyPayload(old[i], "UpdateOracle")
      BY Zenon
    <3> HIDE DEF ms, cs
    <3>4. "UpdateOracle" \in OracleTypes
      BY Zenon DEF OracleTypes
    <3>5. FirstEmptied(cs, txs, ms, "UpdateOracle")
      BY <2>2, <3>1, <3>2, <3>3, Zenon DEF FirstEmptied
    <3> QED
      BY <1>1, <3>4, <3>5, FirstTxEmptied, Zenon
  <2> QED
    BY <2>1, <2>2, Zenon
<1> HIDE DEF cs
<1>4. TxsBlanked(emptyRelayOracleData(cs), txs)
  <2>1. CASE cs = <<>> \/ ~cs[1].known
    BY <1>3, <2>1, Zenon DEF emptyRelayOracleData
  <2>2. CASE ~(cs = <<>> \/ ~cs[1].known)
    <3> DEFINE old == cs[1].msgs
               ms == [i \in DOMAIN old |-> EmptyPayload(old[i], "RelayOracleData")]
               es == emptyRelayOracleData(cs)
    <3>1. es = [cs EXCEPT ![1] = [cs[1] EXCEPT !.msgs = ms]]
      BY <2>2, Zenon DEF emptyRelayOracleData
    <3>2. DOMAIN ms = DOMAIN old
      BY Zenon
    <3>3. \A i \in DOMAIN ms : ms[i] = old[i] \/ ms[i] = EmptyPayload(old[i], "RelayOracleData")
      BY Zenon
    <3> HIDE DEF ms, es
    <3>4. "RelayOracleData" \in OracleTypes
      BY Zenon DEF OracleTypes
    <3>5. FirstEmptied(es, cs, ms, "RelayOracleData")
      BY <2>2, <3>1, <3>2, <3>3, Zenon DEF FirstEmptied
    <3>6. TxsBlanked(es, txs)
      BY <1>3, <3>4, <3>5, FirstTxEmptied, Zenon
    <3> QED
      BY <3>6, Zenon DEF es
  <2> QED
    BY <2>1, <2>2, Zenon
<1> QED
  BY <1>4, Zenon DEF cs

(* A block is restored from its conversion.                                *)
LEMMA BlockBack ==
  ASSUME NEW txs, HasFields(txs, {}), \A t \in DOMAIN txs : TxFromL1(txs[t])
  PROVE  Restore(ConvertBlock(txs, HostChain, LastCommit)) = txs
<1> DEFINE cs == emptyRelayOracleData(emptyOracleData(txs))
           es == emptyUpdateClientData(cs, HostChain, LastCommit)
<1>1. TxsBlanked(cs, txs)
  BY TxsEmptied, Zenon
<1> HIDE DEF cs
<1>2. DOMAIN es = DOMAIN txs
  BY <1>1, Zenon DEF emptyUpdateClientData, TxsBlanked
<1>3. ASSUME NEW t \in DOMAIN txs
      PROVE  (IF ~es[t].known THEN es[t] ELSE RestoreTx(es[t])) = txs[t]
  <2>1. TxBlanked(cs[t], txs[t]) /\ t \in DOMAIN cs
    BY <1>1, <1>3, Zenon DEF TxsBlanked
  <2>2. cs[t].known = txs[t].known
    BY <2>1, Zenon DEF TxBlanked
  <2>3. CASE ~txs[t].known
    <3>1. es[t] = cs[t]
      BY <2>1, <2>2, <2>3, Zenon DEF emptyUpdateClientData
    <3>2. cs[t] = txs[t]
      BY <2>1, <2>3, Zenon DEF TxBlanked
    <3> QED
      BY <2>3, <3>1, <3>2, Zenon
  <2>4. CASE txs[t].known
    <3>1. es[t] = CompactTx(cs[t])
      BY <2>1, <2>2, <2>4, Zenon DEF emptyUpdateClientData, CompactTx
    <3> HIDE DEF es
    <3>2. es[t].known /\ RestoreTx(es[t]) = txs[t]
      BY <1>3, <2>1, <2>4, <3>1, TxBack, Zenon
    <3> QED
      BY <3>2, Zenon
  <2> QED
    BY <2>3, <2>4, Zenon
<1> HIDE DEF es
<1>4. Restore(es) = [t \in DOMAIN txs |-> txs[t]]
  BY <1>2, <1>3, Zenon DEF Restore, RestoreTx
<1>5. txs = [t \in DOMAIN txs |-> txs[t]]
  BY Zenon DEF HasFields
<1>6. ConvertBlock(txs, HostChain, LastCommit) = es
  BY Zenon DEF ConvertBlock, es, cs
<1> QED
  BY <1>4, <1>5, <1>6, Zenon

(* Every batch saved for the DA chain holds the blocks of its range, each  *)
(* of them, in order and such that L2's own block can be restored from it  *)
(* and from L1, and ends with the raw commit of its last block             *)
(* (BatchHoldsItsBlocks), when the process stops neither while a new info  *)
(* waits nor while the file lacks a synced block.                          *)
THEOREM BatchesHoldBlocks ==
  ASSUME ~StopDuringUpdate, ~StopWhileExposed
  PROVE  Spec => []BatchHoldsItsBlocks
<1>1. ASSUME TypeInv, OutInv PROVE BatchHoldsItsBlocks
  <2> SUFFICES ASSUME NEW i \in Headers
               PROVE  LET data == DataOf(i)
                          blocks == {k \in DOMAIN data : ~data[k].commit}
                          range == outbox[i].range
                      IN  /\ {data[k].height : k \in blocks} = range.start..range.end
                          /\ \A j, k \in blocks : j < k => data[j].height <= data[k].height
                          /\ \A k \in blocks : Restore(data[k].txs) = Blocks[data[k].height].txs
                          /\ Last(data) = CommitItem(range.end)
    BY Zenon DEF BatchHoldsItsBlocks
  <2> DEFINE range == outbox[i].range
  <2>1. PICK d \in Seq(Items) : Announced(outbox, i, d, range) /\ Complete(d, range)
    BY <1>1, Zenon DEF OutInv
  <2>2. DataOf(i) = d
    BY <1>1, <2>1, HeaderFacts, Zenon
  <2> DEFINE blocks == {k \in DOMAIN d : ~d[k].commit}
  <2>3. /\ Ordered(d) /\ Committed(d) /\ Full(d, range.start, range.end)
        /\ d # <<>> /\ d[Len(d)] = CommitItem(range.end)
    BY <2>1, Zenon DEF Complete
  <2>4. \A k \in DOMAIN d : d[k] \in Items
    BY SMTT(30)
  <2> HIDE DEF range
  <2>5. {d[k].height : k \in blocks} = range.start..range.end
    <3>1. \A k \in blocks : d[k].height \in range.start..range.end
      BY <2>3, Zenon DEF Full, Within
    <3>2. ASSUME NEW h \in range.start..range.end PROVE \E k \in blocks : d[k].height = h
      <4>1. PICK k \in DOMAIN d : d[k].height = h
        BY <2>3, Zenon DEF Full, HeightsOf
      <4>2. CASE d[k].commit
        <5>1. PICK n \in DOMAIN d : d[n] = BlockItem(h)
          BY <2>3, <4>1, <4>2, Zenon DEF Committed
        <5> QED
          BY <5>1, ItemTypes
      <4> QED
        BY <4>1, <4>2, Zenon
    <3> QED
      BY <3>1, <3>2, SMTT(30)
  <2>6. \A j, k \in blocks : j < k => d[j].height <= d[k].height
    BY <2>3, Zenon DEF Ordered
  <2>7. ASSUME NEW k \in blocks PROVE Restore(d[k].txs) = Blocks[d[k].height].txs
    <3>1. PICK h \in 1..Len(Blocks) : h = d[k].height /\ d[k] = BlockItem(h)
      BY <2>4, ItemTypes, Zenon
    <3>2. d[k].txs = ConvertBlock(Blocks[h].txs, HostChain, LastCommit)
      BY <3>1 DEF BlockItem
    <3>3. Restore(ConvertBlock(Blocks[h].txs, HostChain, LastCommit)) = Blocks[h].txs
      BY PayloadsAssumption, BlockBack, Zenon
    <3> QED
      BY <3>1, <3>2, <3>3, Zenon
  <2>8. Last(d) = CommitItem(range.end)
    BY <2>3, Zenon DEF Last
  <2> QED
    BY <2>2, <2>5, <2>6, <2>7, <2>8, Zenon DEF range
<1> QED
  BY <1>1, OutInvariant, PTL
=============================================================================
