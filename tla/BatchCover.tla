----------------------------- MODULE BatchCover -----------------------------
(***************************************************************************)
(* The batch submitter skips no block.  Two more inductive invariants:     *)
(*   - InfoInv: the infos on L1 rise, and the queue in memory is a segment *)
(*     of them;                                                            *)
(*   - CoverInv: the saved batches cover what the info in force needs up   *)
(*     to where the current batch starts, while the process works and, for *)
(*     the info that the next start will take, while it is down.           *)
(***************************************************************************)
EXTENDS BatchTypes

(* No two batch infos name the same output.  Of two that do,               *)
(* UpdateBatchInfo keeps the first and a start takes the last.             *)
OneInfoPerOutput == \A a, b \in Infos : a.l2 = b.l2 => a = b

(* The blocks that must be in batches under an info, and those that are.   *)
FirstBlock(info) == IF info.l2 < BatchStartHeight THEN BatchStartHeight ELSE info.l2 + 1
Covers(i, info, b) ==
  /\ i \in Headers /\ outbox[i].range.da = info
  /\ b \in outbox[i].range.start..outbox[i].range.end
Covered(info, last) == Disabled \/ \A b \in FirstBlock(info)..last : \E i \in Headers : Covers(i, info, b)

(* The batch infos on L1 name later and later outputs.                     *)
Rising == \A i, k \in 1..Len(hostInfos) : i < k => hostInfos[i].l2 < hostInfos[k].l2

(* The queue is a segment of L1's batch infos that ends where the host     *)
(* loop is, or later.                                                      *)
Segment(j) ==
  /\ j \in 1..Len(hostInfos)
  /\ j + Len(batchInfos) - 1 \in seen..Len(hostInfos)
  /\ \A k \in 1..Len(batchInfos) : batchInfos[k] = hostInfos[j + k - 1]

(* The info of the batch in the database is covered up to that batch.      *)
CoveredBy(info) ==
  /\ info.l2 < saved.start
  /\ Covered(info, saved.start - 1)
  /\ saved.end # 0 => Covered(info, saved.end)

(* The info that a start will take is covered up to where it will begin.   *)
Resumes(j) ==
  /\ \A k \in 1..Len(hostInfos) : k > j => hostInfos[k].l2 > synced
  /\ CoveredBy(hostInfos[j])

(* The queue of batch infos in memory; a process that ends in the middle   *)
(* of a block is not changing its info.                                    *)
InfoInv ==
  /\ Rising
  /\ pc \notin Booting => \E j \in 1..Len(hostInfos) : Segment(j)
  /\ closed /\ pc \notin Booting \cup {"idle"} =>
       Len(batchInfos) = 1 /\ batchInfos[1] = hostInfos[Len(hostInfos)]

Resting == pc \in Booting \/ Stopped
Working == ~Resting /\ pc # "switchSynced"

(* The batches cover what the info in force, or the one a start will take, *)
(* needs up to where the current batch starts.                             *)
CoverInv ==
  /\ Resting /\ synced # 0 => \E j \in 1..Len(hostInfos) : Resumes(j)
  /\ Working => CoveredBy(batchInfos[1])
  /\ NoBlockSkipped

-----------------------------------------------------------------------------
(* Batch infos.                                                            *)

(* A step that leaves the infos alone.                                     *)
LEMMA InfoQuiet ==
  ASSUME InfoInv, UNCHANGED <<hostInfos, seen, batchInfos>>,
         pc' \in Booting \/ pc \notin Booting,
         closed' /\ pc' \notin Booting \cup {"idle"} => closed /\ pc \notin Booting \cup {"idle"}
  PROVE  InfoInv'
<1>1. Rising'
  BY Zenon DEF InfoInv, Rising
<1>2. \A j : Segment(j)' <=> Segment(j)
  BY Zenon DEF Segment
<1> QED
  BY <1>1, <1>2, Zenon DEF InfoInv

(* The infos of a running process are a segment of those on L1.            *)
LEMMA InfoStep ==
  ASSUME OneInfoPerOutput, ~StopDuringUpdate, TypeInv, InfoInv, [Next]_vars
  PROVE  InfoInv'
<1>0. /\ Len(hostInfos) \in Nat /\ Len(hostInfos) > 0 /\ seen \in Nat
      /\ \A i \in 1..Len(hostInfos) : hostInfos[i] \in Infos /\ hostInfos[i].l2 \in Nat
      /\ Len(batchInfos) \in Nat
      /\ \A i \in 1..Len(batchInfos) : batchInfos[i].l2 \in Nat
  BY TypeFacts, Zenon
<1>1. CASE UNCHANGED vars
  BY <1>1, InfoQuiet, Zenon DEF vars, chain, memory
<1>2. CASE L2Block \/ Post
  BY <1>2, InfoQuiet DEF L2Block, Post, chain, memory
<1>3. ASSUME NEW info \in NewInfos, L1UpdateBatchInfo(info) PROVE InfoInv'
  <2> DEFINE n == Len(hostInfos)
  <2>1. /\ Running /\ info \notin Range(hostInfos) /\ hostInfos[n].l2 <= info.l2
        /\ hostInfos' = Append(hostInfos, info)
        /\ UNCHANGED <<seen, batchInfos, pc, closed>>
    BY <1>3, Zenon DEF L1UpdateBatchInfo, Last, memory
  <2>2. info \in Infos /\ info.l2 \in Nat /\ hostInfos \in Seq(Infos)
    BY BatchAssumption, Zenon DEF Infos, TypeInv
  <2>3. /\ hostInfos' \in Seq(Infos) /\ Len(hostInfos') = n + 1 /\ hostInfos'[n + 1] = info
        /\ \A i \in 1..n : hostInfos'[i] = hostInfos[i]
    BY <2>1, <2>2, AppendFacts
  <2>4. hostInfos[n].l2 < info.l2
    <3>1. hostInfos[n] # info
      BY <1>0, <2>1, <2>2 DEF Range
    <3>2. hostInfos[n].l2 # info.l2
      BY <1>0, <2>2, <3>1 DEF OneInfoPerOutput
    <3> QED
      BY <1>0, <2>1, <2>2, <3>2, SMTT(30)
  <2>5. \A i \in 1..n : hostInfos[i].l2 < info.l2
    BY <1>0, <2>2, <2>4 DEF InfoInv, Rising
  <2>6. Rising'
    <3> SUFFICES ASSUME NEW i \in 1..(n + 1), NEW k \in 1..(n + 1), i < k
                 PROVE  hostInfos'[i].l2 < hostInfos'[k].l2
      BY <2>3, Zenon DEF Rising
    <3>1. i \in 1..n /\ (k \in 1..n \/ k = n + 1)
      BY <1>0
    <3> QED
      BY <2>3, <2>5, <3>1, Zenon DEF InfoInv, Rising
  <2>7. ASSUME pc \notin Booting PROVE \E j \in 1..(n + 1) : Segment(j)'
    <3>1. PICK j \in 1..n : Segment(j)
      BY <2>7, Zenon DEF InfoInv
    <3>2. j \in 1..(n + 1) /\ j + Len(batchInfos) - 1 \in seen..(n + 1)
      BY <1>0, <3>1 DEF Segment
    <3>3. ASSUME NEW k \in 1..Len(batchInfos) PROVE batchInfos[k] = hostInfos'[j + k - 1]
      <4>1. j + k - 1 \in 1..n
        BY <1>0, <3>1 DEF Segment
      <4> QED
        BY <2>3, <3>1, <4>1, Zenon DEF Segment
    <3>4. Segment(j)'
      BY <2>1, <2>3, <3>2, <3>3, Zenon DEF Segment
    <3> QED
      BY <3>2, <3>4, Zenon
  <2>8. closed' = FALSE
    BY <2>1, Zenon DEF Running, TypeInv
  <2> QED
    BY <2>1, <2>3, <2>6, <2>7, <2>8, Zenon DEF InfoInv
<1>4. CASE HostEvent
  <2>1. /\ Running /\ seen < Len(hostInfos) /\ seen' = seen + 1
        /\ batchInfos' = UpdateBatchInfo(batchInfos, hostInfos[seen + 1])
        /\ UNCHANGED <<hostInfos, pc, closed>>
    BY <1>4, Zenon DEF HostEvent
  <2>2. PICK j \in 1..Len(hostInfos) : Segment(j)
    BY <2>1, Zenon DEF Running, InfoInv, Booting
  <2> DEFINE n == Len(batchInfos)
             m == j + n - 1
             x == hostInfos[seen + 1]
  <2>3. n > 0 /\ batchInfos \in Seq(Infos)
    BY <2>1, Zenon DEF TypeInv, Running, Booting
  <2>4. /\ m \in seen..Len(hostInfos) /\ m \in 1..Len(hostInfos)
        /\ batchInfos[n] = hostInfos[m] /\ seen + 1 \in 1..Len(hostInfos)
    BY <1>0, <2>1, <2>2, <2>3 DEF Segment
  <2>5. x \in Infos /\ x.l2 \in Nat /\ hostInfos[m].l2 \in Nat
    BY <1>0, <2>4, Zenon
  <2>6. Segment(j)'
    <3>1. CASE m >= seen + 1
      <4>1. hostInfos[m].l2 >= x.l2
        <5>1. CASE m = seen + 1
          BY <2>5, <5>1
        <5>2. CASE m > seen + 1
          BY <1>0, <2>4, <2>5, <5>2, SMTT(30) DEF InfoInv, Rising
        <5> QED
          BY <1>0, <2>4, <3>1, <5>1, <5>2
      <4>2. batchInfos' = batchInfos
        BY <2>1, <2>4, <4>1, Zenon DEF UpdateBatchInfo, Last
      <4> QED
        BY <1>0, <2>1, <2>2, <2>4, <3>1, <4>2 DEF Segment
    <3>2. CASE m = seen
      <4>1. hostInfos[m].l2 < x.l2
        BY <1>0, <2>4, <2>5, <3>2 DEF InfoInv, Rising
      <4>2. batchInfos' = Append(batchInfos, x)
        BY <2>1, <2>4, <2>5, <4>1, SMTT(30) DEF UpdateBatchInfo, Last
      <4>3. /\ Len(batchInfos') = n + 1 /\ batchInfos'[n + 1] = x
            /\ \A k \in 1..n : batchInfos'[k] = batchInfos[k]
        BY <2>3, <2>5, <4>2, AppendFacts
      <4>4. j + (n + 1) - 1 = seen + 1
        BY <1>0, <2>2, <3>2
      <4>5. ASSUME NEW k \in 1..(n + 1) PROVE batchInfos'[k] = hostInfos[j + k - 1]
        <5>1. CASE k = n + 1
          BY <4>3, <4>4, <5>1, Zenon
        <5>2. CASE k # n + 1
          <6>1. k \in 1..n
            BY <1>0, <5>2
          <6> QED
            BY <2>2, <4>3, <6>1, Zenon DEF Segment
        <5> QED
          BY <5>1, <5>2, Zenon
      <4> QED
        BY <1>0, <2>1, <2>2, <2>4, <4>3, <4>4, <4>5, SMTT(30) DEF Segment
    <3> QED
      BY <1>0, <2>4, <3>1, <3>2
  <2>7. Rising' /\ closed' = FALSE
    BY <2>1, Zenon DEF InfoInv, Rising, Running, TypeInv
  <2> QED
    BY <2>1, <2>2, <2>6, <2>7, Zenon DEF InfoInv
<1>5. CASE Open \/ EmptyAtStart \/ InitializeFails \/ Exit \/ Kill \/ ResetHeight
  BY <1>5, InfoQuiet, Zenon DEF Open, ResetBatchFile, EmptyAtStart, InitializeFails, Exit, Kill,
                         ResetHeight, chain, memory, Booting
<1>6. CASE InitializeNode
  <2>1. /\ hostInfos \in Seq(Infos) /\ hostInfos[1] = FirstInfo /\ height + 1 \in Nat
    BY TypeFacts DEF TypeInv
  <2>2. batchInfos' = DequeuePassed(hostInfos, height + 1)
    BY <1>6, Zenon DEF InitializeNode
  <2>3. PICK j \in 1..Len(hostInfos) : batchInfos' = SubSeq(hostInfos, j, Len(hostInfos))
    BY <1>0, <2>1, <2>2, Dequeued, Zenon
  <2>4. /\ Len(batchInfos') = Len(hostInfos) - j + 1
        /\ \A i \in 1..(Len(hostInfos) - j + 1) : batchInfos'[i] = hostInfos[j + i - 1]
    <3>1. \A i \in j..Len(hostInfos) : hostInfos[i] \in Infos
      BY <1>0
    <3>2. j \in Int /\ Len(hostInfos) \in Int /\ j <= Len(hostInfos)
      BY <1>0
    <3> QED
      BY <2>3, <3>1, <3>2, SubSeqFacts
  <2>5. UNCHANGED <<hostInfos, seen>> /\ pc' = "idle" /\ seen \in 1..Len(hostInfos)
    BY <1>6, Zenon DEF InitializeNode, chain, TypeInv
  <2>6. Segment(j)'
    BY <1>0, <2>4, <2>5 DEF Segment
  <2> QED
    BY <2>5, <2>6, Zenon DEF InfoInv, Rising
<1>7. CASE Status
  BY <1>7, InfoQuiet, Zenon DEF Status, chain, Booting
<1>8. CASE Handler
  <2>1. UNCHANGED <<hostInfos, seen, batchInfos>> /\ pc \notin Booting
    BY <1>8, Zenon DEF Handler, prepareBatch, handleBatch, measureBatch, writeCommit, createBatchMsgs,
                Commit, switchWait, switchEmpty, switchSave, switchSynced, Return, chain, memory,
                Booting
  <2>2. closed' /\ pc' \notin Booting \cup {"idle"} => closed /\ pc \notin Booting \cup {"idle"}
    BY <1>8, Zenon DEF Handler, prepareBatch, handleBatch, measureBatch, writeCommit, createBatchMsgs,
                Commit, switchWait, switchEmpty, switchSave, switchSynced, Return, memory, Booting
  <2> QED
    BY <2>1, <2>2, InfoQuiet, Zenon
<1>9. CASE HandlerFails
  BY <1>9, InfoQuiet, Zenon DEF HandlerFails, Return, chain, Booting
<1>10. CASE Close
  <2>1. /\ Running /\ Settled /\ UNCHANGED <<hostInfos, seen, batchInfos, pc>>
    BY <1>10, Zenon DEF Close, MayStop, chain
  <2>2. Len(batchInfos) = 1 /\ seen = Len(hostInfos) /\ pc \notin Booting
    BY <2>1, Zenon DEF Settled, Running, Booting
  <2>3. PICK j \in 1..Len(hostInfos) : Segment(j)
    BY <2>2, Zenon DEF InfoInv
  <2>4. j = Len(hostInfos) /\ batchInfos[1] = hostInfos[j]
    BY <1>0, <2>2, <2>3 DEF Segment
  <2>5. Segment(j)' /\ Rising'
    BY <2>1, <2>3, Zenon DEF Segment, InfoInv, Rising
  <2> QED
    BY <2>1, <2>2, <2>3, <2>4, <2>5, Zenon DEF InfoInv
<1> QED
  BY <1>1, <1>2, <1>3, <1>4, <1>5, <1>6, <1>7, <1>8, <1>9, <1>10, Zenon DEF Next, Start

(* The infos hold, when no two are of one output and no stop meets an      *)
(* update.                                                                 *)
LEMMA InfoInvariant ==
  ASSUME OneInfoPerOutput, ~StopDuringUpdate
  PROVE  Spec => []InfoInv
<1>1. Init => InfoInv
  BY DEF Init, InfoInv, Rising, Booting
<1>2. TypeInv /\ InfoInv /\ [Next]_vars => InfoInv'
  BY InfoStep, Zenon
<1> QED
  BY <1>1, <1>2, TypeInvariant, PTL DEF Spec

-----------------------------------------------------------------------------
(* Coverage.                                                               *)

(* What a step that saves no message leaves covered.                       *)
LEMMA CoverSame ==
  ASSUME UNCHANGED outbox
  PROVE  /\ \A info, n : Covered(info, n)' <=> Covered(info, n)
         /\ NoBlockSkipped' <=> NoBlockSkipped
         /\ saved' = saved => \A info : CoveredBy(info)' <=> CoveredBy(info)
<1>1. Headers' = Headers
  BY Zenon DEF Headers
<1>2. \A info, n : Covered(info, n)' <=> Covered(info, n)
  BY <1>1, Zenon DEF Covered, Covers
<1>3. NoBlockSkipped' <=> NoBlockSkipped
  BY <1>1 DEF NoBlockSkipped
<1> HIDE DEF Covered
<1> QED
  BY <1>2, <1>3, Zenon DEF CoveredBy

(* Nothing is to be covered before the first block of an info.             *)
LEMMA CoverNothing ==
  ASSUME NEW info, info.l2 \in Nat, NEW n, n \in Nat, n < BatchStartHeight \/ n <= info.l2
  PROVE  Covered(info, n)
<1>1. BatchStartHeight \in Nat
  BY BatchAssumption
<1>2. FirstBlock(info)..n = {}
  BY <1>1 DEF FirstBlock
<1> QED
  BY <1>2, Zenon DEF Covered

(* The steps that change no coverage, by what the process does before and  *)
(* after them.                                                             *)
LEMMA CoverQuiet ==
  ASSUME TypeInv, CoverInv, UNCHANGED <<saved, outbox>>,
         \/ /\ Resting /\ Resting' /\ UNCHANGED <<hostInfos, synced>>
         \/ Working /\ Working' /\ batchInfos'[1] = batchInfos[1]
         \/ pc' = "switchSynced"
         \/ /\ Working /\ Resting' /\ UNCHANGED <<hostInfos, synced>>
            /\ batchInfos[1] = hostInfos[Len(hostInfos)]
  PROVE  CoverInv'
<1> USE CoverSame
<1>0. Len(hostInfos) \in Nat /\ Len(hostInfos) > 0
  BY TypeFacts, Zenon
<1>1. CASE Resting /\ Resting' /\ UNCHANGED <<hostInfos, synced>>
  <2>1. \A j : Resumes(j)' <=> Resumes(j)
    BY <1>1, Zenon DEF Resumes
  <2>2. ~Working'
    BY <1>1, Zenon DEF Working
  <2> QED
    BY <1>1, <2>1, <2>2, Zenon DEF CoverInv
<1>2. CASE Working /\ Working' /\ batchInfos'[1] = batchInfos[1]
  BY <1>2, Zenon DEF CoverInv, Working
<1>3. CASE pc' = "switchSynced"
  <2>1. ~Resting' /\ ~Working'
    BY <1>3, Zenon DEF Resting, Working, Booting, Stopped
  <2> QED
    BY <2>1, Zenon DEF CoverInv
<1>4. CASE /\ Working /\ Resting' /\ UNCHANGED <<hostInfos, synced>>
           /\ batchInfos[1] = hostInfos[Len(hostInfos)]
  <2>1. CoveredBy(hostInfos[Len(hostInfos)])
    BY <1>4, Zenon DEF CoverInv
  <2>2. Resumes(Len(hostInfos))'
    <3>1. \A k \in 1..Len(hostInfos) : ~(k > Len(hostInfos))
      BY <1>0
    <3> QED
      BY <1>4, <2>1, <3>1, Zenon DEF Resumes
  <2>3. Len(hostInfos) \in 1..Len(hostInfos) /\ ~Working'
    BY <1>0, <1>4 DEF Working
  <2> QED
    BY <1>4, <2>2, <2>3, Zenon DEF CoverInv
<1> QED
  BY <1>1, <1>2, <1>3, <1>4, Zenon

(* A process that stops in the queue's settled state has the last info.    *)
LEMMA SettledInfo ==
  ASSUME TypeInv, InfoInv, pc \notin Booting, ~Stopped, Settled
  PROVE  Len(batchInfos) = 1 /\ batchInfos[1] = hostInfos[Len(hostInfos)]
<1>0. Len(hostInfos) \in Nat /\ Len(hostInfos) > 0 /\ closed \in BOOLEAN /\ seen \in Nat
  BY TypeFacts, Zenon DEF TypeInv
<1>1. CASE closed
  BY <1>1, Zenon DEF InfoInv, Stopped
<1>2. CASE ~closed
  <2>1. Len(batchInfos) = 1 /\ seen = Len(hostInfos)
    BY <1>2, Zenon DEF Settled, Running, Booting
  <2>2. PICK j \in 1..Len(hostInfos) : Segment(j)
    BY Zenon DEF InfoInv
  <2> QED
    BY <1>0, <2>1, <2>2 DEF Segment
<1> QED
  BY <1>1, <1>2, Zenon

(* A start takes up the info that was in force.                            *)
LEMMA CoverInitialize ==
  ASSUME TypeInv, PlaceInv, InfoInv, CoverInv, InitializeNode
  PROVE  CoverInv'
<1>0. /\ Len(hostInfos) \in Nat /\ Len(hostInfos) > 0 /\ height \in Nat /\ synced \in Nat
      /\ \A i \in 1..Len(hostInfos) : hostInfos[i].l2 \in Nat
      /\ saved.start \in Nat /\ saved.end \in Nat
      /\ hostInfos \in Seq(Infos) /\ hostInfos[1] = FirstInfo /\ height + 1 \in Nat
  BY TypeFacts, SMTT(30) DEF TypeInv
<1>1. /\ pc = "opened" /\ pc' = "idle" /\ batchInfos' = DequeuePassed(hostInfos, height + 1)
      /\ UNCHANGED <<hostInfos, synced, saved, outbox>>
  BY Zenon DEF InitializeNode, chain, disk
<1>2. PICK j \in 1..Len(hostInfos) :
        /\ batchInfos' = SubSeq(hostInfos, j, Len(hostInfos))
        /\ \A i \in 1..j : Passed(hostInfos[i], height + 1)
        /\ j < Len(hostInfos) => ~Passed(hostInfos[j + 1], height + 1)
  BY <1>0, <1>1, Dequeued, Zenon
<1>3. batchInfos'[1] = hostInfos[j]
  <2>1. \A i \in j..Len(hostInfos) : hostInfos[i] \in Infos
    BY <1>0
  <2>2. j \in Int /\ Len(hostInfos) \in Int /\ 1 \in 1..(Len(hostInfos) - j + 1) /\ j + 1 - 1 = j
    BY <1>0
  <2> QED
    BY <1>2, <2>1, <2>2, SubSeqFacts
<1>4. hostInfos[j].l2 = 0 \/ hostInfos[j].l2 <= height
  BY <1>0, <1>2 DEF Passed
<1>5. CoveredBy(hostInfos[j])
  <2>1. CASE synced = 0
    <3>1. saved.start = BatchStartHeight /\ saved.end = 0 /\ height + 1 = saved.start
      BY <1>1, <2>1, Zenon DEF PlaceInv, Stopped
    <3>0. hostInfos[j].l2 \in Nat /\ height \in Nat
      BY <1>0
    <3>2. hostInfos[j].l2 < saved.start /\ saved.start - 1 = height /\ height < BatchStartHeight
      BY ONLY <1>4, <3>0, <3>1
    <3>3. Covered(hostInfos[j], height)
      BY <1>0, <3>2, CoverNothing, Zenon
    <3> QED
      BY <3>1, <3>2, <3>3, Zenon DEF CoveredBy
  <2>2. CASE synced # 0
    <3>1. PICK m \in 1..Len(hostInfos) : Resumes(m)
      BY <1>1, <2>2, Zenon DEF CoverInv, Resting, Booting
    <3>2. /\ saved.start <= height + 1 /\ saved.start <= synced + 1
          /\ height = synced \/ height + 1 = saved.start
      BY <1>1, <2>2, Zenon DEF PlaceInv, Stopped
    <3>3. hostInfos[m].l2 < saved.start
      BY <3>1, Zenon DEF Resumes, CoveredBy
    <3>4. ~(j > m)
      <4> SUFFICES ASSUME j > m PROVE FALSE
        BY Zenon
      <4>1. hostInfos[j].l2 > synced
        BY <3>1, Zenon DEF Resumes
      <4> QED
        BY <1>0, <1>4, <2>2, <3>2, <4>1
    <3>5. ~(j < m)
      <4> SUFFICES ASSUME j < m PROVE FALSE
        BY Zenon
      <4>1. j + 1 \in 1..Len(hostInfos) /\ j < Len(hostInfos) /\ (j + 1 = m \/ j + 1 < m)
        BY <1>0
      <4>2. hostInfos[j + 1].l2 <= hostInfos[m].l2
        BY <1>0, <4>1 DEF InfoInv, Rising
      <4>3. Passed(hostInfos[j + 1], height + 1)
        BY <1>0, <3>2, <3>3, <4>1, <4>2, SMTT(30) DEF Passed
      <4> QED
        BY <1>2, <4>1, <4>3, Zenon
    <3>6. j = m
      BY <1>0, <3>4, <3>5
    <3> QED
      BY <3>1, <3>6, Zenon DEF Resumes
  <2> QED
    BY <2>1, <2>2, Zenon
<1>6. CoveredBy(batchInfos[1])' /\ NoBlockSkipped'
  BY <1>1, <1>3, <1>5, CoverSame, Zenon DEF CoverInv
<1>7. CASE closed'
  <2>1. PICK m \in 1..Len(hostInfos) : synced # 0 => Resumes(m)
    BY <1>0, <1>1, Zenon DEF CoverInv, Resting, Booting
  <2>2. synced # 0 => Resumes(m)'
    BY <1>1, <2>1, CoverSame, Zenon DEF Resumes
  <2>3. ~Working'
    BY <1>1, <1>7, Zenon DEF Working, Resting, Stopped
  <2> QED
    BY <1>1, <1>6, <2>2, <2>3, Zenon DEF CoverInv
<1>8. CASE ~closed'
  <2>1. ~Resting'
    BY <1>1, <1>8, Zenon DEF Resting, Stopped, Booting
  <2> QED
    BY <1>6, <2>1, Zenon DEF CoverInv
<1> QED
  BY <1>7, <1>8, Zenon

(* A commit covers the blocks of the batch that it saves.                  *)
LEMMA CoverCommit ==
  ASSUME TypeInv, PlaceInv, InfoInv, HeaderInv, CoverInv, Commit
  PROVE  CoverInv'
<1> SUFFICES ASSUME NEW c, c = batchInfos[1], NEW lo, lo = local.start, NEW hi, hi = local.end
             PROVE  CoverInv'
  BY Zenon
<1> DEFINE n == Len(outbox)
<1>0. /\ Len(hostInfos) \in Nat /\ Len(hostInfos) > 0 /\ height \in Nat /\ synced \in Nat
      /\ saved.start \in Nat /\ saved.end \in Nat
      /\ lo = local.start /\ hi = local.end /\ lo \in Nat /\ hi \in Nat
      /\ outbox \in Seq(Messages) /\ msgs \in Seq(Messages) /\ closed \in BOOLEAN
  BY TypeFacts, Zenon DEF TypeInv
<1>1. /\ pc = "staged" /\ synced' = height + 1 /\ saved' = local
      /\ saved'.start = lo /\ saved'.end = hi
      /\ pc' \in {"block", "idle"} /\ (closed => pc' = "idle")
      /\ UNCHANGED <<hostInfos, batchInfos, closed>>
  BY <1>0, Zenon DEF Commit, chain
<1>2. c \in Infos /\ c.l2 \in Nat
  <2>1. Len(batchInfos) > 0 /\ Len(batchInfos) \in Nat
    BY <1>1, TypeFacts, Zenon DEF TypeInv, Booting
  <2>2. 1 \in 1..Len(batchInfos)
    BY <2>1
  <2> QED
    BY <2>2, TypeFacts, Zenon
<1>3. Disabled \/ outbox' = outbox \o msgs
  BY <1>2, BatchAssumption, Zenon DEF Commit, DANode
<1>4. /\ Len(outbox') >= n /\ n \in Nat /\ Len(outbox') \in Nat
      /\ DOMAIN outbox = 1..n /\ DOMAIN outbox' = 1..Len(outbox')
      /\ \A i \in 1..n : outbox'[i] = outbox[i]
  <2>1. /\ Len(outbox \o msgs) = n + Len(msgs) /\ (outbox \o msgs) \in Seq(Messages)
        /\ \A i \in 1..n : (outbox \o msgs)[i] = outbox[i]
    BY <1>0, ConcatFacts, Zenon
  <2>2. outbox' \in {outbox, outbox \o msgs}
    BY Zenon DEF Commit
  <2>3. Len(msgs) \in Nat /\ n \in Nat
    BY <1>0
  <2>4. outbox' \in Seq(Messages)
    BY <1>0, <2>1, <2>2, Zenon
  <2>5. DOMAIN outbox = 1..n /\ DOMAIN outbox' = 1..Len(outbox')
    BY <1>0, <2>4, SeqFacts, Zenon
  <2> HIDE DEF n
  <2>6. Len(outbox') >= n /\ Len(outbox') \in Nat
    BY <2>1, <2>2, <2>3 DEF n
  <2>7. \A i \in 1..n : outbox'[i] = outbox[i]
    BY <2>1, <2>2, Zenon
  <2> QED
    BY <2>3, <2>5, <2>6, <2>7, Zenon
<1>5. ASSUME NEW i \in Headers PROVE i \in Headers' /\ i \in 1..n /\ outbox'[i] = outbox[i]
  BY <1>4 DEF Headers
<1>6. ASSUME NEW i \in Headers', i \notin Headers, ~Disabled
      PROVE  /\ i > n /\ hi # 0
             /\ outbox'[i].range = [da |-> c, start |-> lo, end |-> hi]
  <2>1. i \in 1..Len(outbox') /\ outbox'[i].type = "header"
    BY <1>4, <1>6, Zenon DEF Headers
  <2>2. i > n
    BY <1>4, <1>6, <2>1 DEF Headers
  <2>3. /\ Len(outbox') = n + Len(msgs) /\ Len(msgs) \in Nat
        /\ \A k \in 1..Len(msgs) : outbox'[n + k] = msgs[k]
    BY <1>0, <1>3, <1>6, ConcatFacts
  <2>4. i - n \in 1..Len(msgs) /\ i = n + (i - n)
    BY <1>4, <2>1, <2>2, <2>3
  <2>5. outbox'[i] = msgs[i - n]
    BY <2>3, <2>4, Zenon
  <2> QED
    BY <1>1, <2>1, <2>2, <2>4, <2>5, Zenon DEF HeaderInv
<1>7. ASSUME NEW info, NEW m, Covered(info, m) PROVE Covered(info, m)'
  BY <1>5, <1>7, Zenon DEF Covered, Covers
<1>8. CoveredBy(c)
  BY <1>1, Zenon DEF CoverInv, Working, Resting, Stopped, Booting
<1>9. /\ c.l2 < lo /\ Covered(c, lo - 1)
      /\ lo \in 1..(height + 1) /\ hi \in {0, height + 1}
  <2>1. /\ lo = IF saved.end = 0 THEN saved.start ELSE height + 1
        /\ saved.start <= height + 1
        /\ saved.end # 0 => saved.end = synced /\ height = synced
        /\ hi \in {0, height + 1}
    BY <1>1, Zenon DEF PlaceInv, Handling
  <2>2. /\ c.l2 < saved.start /\ Covered(c, saved.start - 1)
        /\ saved.end # 0 => Covered(c, saved.end)
    BY <1>8, Zenon DEF CoveredBy
  <2>3. CASE saved.end = 0
    BY <1>0, <1>2, <2>1, <2>2, <2>3, SMTT(30)
  <2>4. CASE saved.end # 0
    <3>1. lo - 1 = saved.end
      BY <1>0, <2>1, <2>4
    <3> QED
      BY <1>0, <1>2, <2>1, <2>2, <2>4, <3>1, SMTT(30)
  <2> QED
    BY <2>3, <2>4, Zenon
<1>10. ASSUME ~Disabled, NEW b \in FirstBlock(c)..(lo - 1)
       PROVE  \E k \in Headers : Covers(k, c, b)
  BY <1>9, <1>10, Zenon DEF Covered
<1>11. ASSUME hi # 0 PROVE Covered(c, hi)'
  <2> SUFFICES ASSUME ~Disabled, NEW b \in FirstBlock(c)..hi
               PROVE  \E k \in Headers' : Covers(k, c, b)'
    BY <1>1, Zenon DEF Covered
  <2>0. FirstBlock(c) \in Int
    BY <1>2, BatchAssumption DEF FirstBlock
  <2>1. CASE b < lo
    <3>1. b \in FirstBlock(c)..(lo - 1)
      BY <1>0, <2>0, <2>1
    <3>2. PICK k \in Headers : Covers(k, c, b)
      BY <1>10, <3>1, Zenon
    <3> QED
      BY <1>5, <3>2, Zenon DEF Covers
  <2>2. CASE b >= lo
    <3>1. PICK k \in 1..Len(msgs) : msgs[k].type = "header"
      BY <1>1, <1>11, Zenon DEF HeaderInv
    <3>2. msgs[k].range = [da |-> c, start |-> lo, end |-> hi]
      BY <1>1, <3>1, Zenon DEF HeaderInv
    <3>3. /\ Len(outbox') = n + Len(msgs) /\ Len(msgs) \in Nat /\ outbox'[n + k] = msgs[k]
      BY <1>0, <1>3, ConcatFacts, SMTT(30)
    <3>4. n + k \in 1..Len(outbox')
      BY <1>4, <3>3
    <3>5. n + k \in Headers'
      BY <1>4, <3>1, <3>3, <3>4, Zenon DEF Headers
    <3>6. b \in lo..hi
      BY <1>0, <2>0, <2>2
    <3> QED
      BY <3>2, <3>3, <3>5, <3>6 DEF Covers
  <2> QED
    BY <1>0, <2>0, <2>1, <2>2, SMTT(30)
<1>12. CoveredBy(c)'
  BY <1>1, <1>7, <1>9, <1>11, Zenon DEF CoveredBy
<1>13. NoBlockSkipped'
  <2> SUFFICES ASSUME NEW i \in Headers', NEW b \in FirstBlock(outbox'[i].range.da)..outbox'[i].range.end
               PROVE  \E k \in Headers' : /\ k <= i /\ outbox'[k].range.da = outbox'[i].range.da
                                          /\ b \in outbox'[k].range.start..outbox'[k].range.end
    BY Zenon DEF NoBlockSkipped, FirstBlock
  <2>1. CASE i \in Headers
    <3>1. \E k \in Headers : /\ k <= i /\ outbox[k].range.da = outbox[i].range.da
                             /\ b \in outbox[k].range.start..outbox[k].range.end
      BY <1>5, <2>1, Zenon DEF CoverInv, NoBlockSkipped, FirstBlock
    <3> QED
      BY <1>5, <2>1, <3>1, Zenon
  <2>2. CASE i \notin Headers
    <3>1. ~Disabled
      <4>1. Disabled => outbox' = outbox
        BY Zenon DEF Commit, DANode
      <4>2. outbox' = outbox => Headers' = Headers
        BY Zenon DEF Headers
      <4> QED
        BY <2>2, <4>1, <4>2, Zenon
    <3>2. /\ i > n /\ outbox'[i].range = [da |-> c, start |-> lo, end |-> hi]
      BY <1>6, <2>2, <3>1, Zenon
    <3>3. i \in Nat /\ FirstBlock(c) \in Int
      BY <1>2, <1>4, BatchAssumption, SMTT(30) DEF FirstBlock, Headers
    <3>4. b \in FirstBlock(c)..hi
      BY <3>2, SMTT(30)
    <3>5. CASE b < lo
      <4>1. b \in FirstBlock(c)..(lo - 1)
        BY <1>0, <3>3, <3>4, <3>5, SMTT(30)
      <4>2. PICK k \in Headers : Covers(k, c, b)
        BY <1>10, <3>1, <4>1, Zenon
      <4>3. k <= i
        BY <1>4, <1>5, <3>2, <3>3, SMTT(30)
      <4> QED
        BY <1>5, <3>2, <4>2, <4>3, SMTT(30) DEF Covers
    <3>6. CASE b >= lo
      BY <1>0, <3>2, <3>3, <3>4, <3>6, SMTT(30)
    <3> QED
      BY <1>0, <3>3, <3>4, <3>5, <3>6, SMTT(30)
  <2> QED
    BY <2>1, <2>2, Zenon
<1>14. CASE Resting'
  <2>1. closed /\ c = hostInfos[Len(hostInfos)]
    BY <1>1, <1>14, Zenon DEF Resting, Stopped, Booting, InfoInv
  <2>2. Len(hostInfos) \in 1..Len(hostInfos) /\ \A k \in 1..Len(hostInfos) : ~(k > Len(hostInfos))
    BY <1>0
  <2>3. Resumes(Len(hostInfos))'
    BY <1>1, <1>12, <2>1, <2>2, Zenon DEF Resumes
  <2> QED
    BY <1>1, <1>13, <1>14, <2>2, <2>3, Zenon DEF CoverInv, Working
<1>15. CASE ~Resting'
  BY <1>1, <1>12, <1>13, <1>15, Zenon DEF CoverInv
<1> QED
  BY <1>14, <1>15, Zenon

(* A step keeps what is covered.                                           *)
LEMMA CoverStep ==
  ASSUME ~StopDuringUpdate, TypeInv, PlaceInv, InfoInv, HeaderInv, CoverInv, [Next]_vars
  PROVE  CoverInv'
<1>0. /\ Len(hostInfos) \in Nat /\ Len(hostInfos) > 0 /\ height \in Nat /\ synced \in Nat
      /\ \A i \in 1..Len(hostInfos) : hostInfos[i].l2 \in Nat
      /\ saved.start \in Nat /\ saved.end \in Nat /\ closed \in BOOLEAN
      /\ pc \in Steps
  BY TypeFacts, Zenon DEF TypeInv
<1>1. CASE UNCHANGED vars
  <2>1. UNCHANGED <<saved, outbox, hostInfos, synced, batchInfos, pc, closed>>
    BY <1>1, Zenon DEF vars, chain, disk, memory
  <2>2. (Resting' <=> Resting) /\ (Working' <=> Working)
    BY <2>1, Zenon DEF Resting, Working, Stopped
  <2>3. Resting \/ Working \/ pc = "switchSynced"
    BY Zenon DEF Working
  <2> QED
    BY <2>1, <2>2, <2>3, CoverQuiet, Zenon
<1>2. CASE L2Block \/ Post
  <2>1. UNCHANGED <<saved, outbox, hostInfos, synced, batchInfos, pc, closed>>
    BY <1>2, Zenon DEF L2Block, Post, chain, disk, memory
  <2>2. (Resting' <=> Resting) /\ (Working' <=> Working)
    BY <2>1, Zenon DEF Resting, Working, Stopped
  <2>3. Resting \/ Working \/ pc = "switchSynced"
    BY Zenon DEF Working
  <2> QED
    BY <2>1, <2>2, <2>3, CoverQuiet, Zenon
<1>3. CASE HostEvent \/ \E info \in NewInfos : L1UpdateBatchInfo(info)
  <2>1. UNCHANGED <<saved, outbox, synced, pc, closed>> /\ Running
    BY <1>3, Zenon DEF HostEvent, L1UpdateBatchInfo, disk, memory
  <2>2. batchInfos'[1] = batchInfos[1]
    <3>1. CASE \E info \in NewInfos : L1UpdateBatchInfo(info)
      BY <3>1, Zenon DEF L1UpdateBatchInfo, memory
    <3>2. CASE HostEvent
      <4>1. batchInfos' = UpdateBatchInfo(batchInfos, hostInfos[seen + 1]) /\ seen < Len(hostInfos)
        BY <3>2, Zenon DEF HostEvent
      <4>2. batchInfos \in Seq(Infos) /\ Len(batchInfos) > 0
        BY <2>1, Zenon DEF Running, TypeInv, Booting
      <4>3. seen + 1 \in 1..Len(hostInfos) /\ hostInfos \in Seq(Infos)
        BY <4>1, TypeFacts DEF TypeInv
      <4>4. hostInfos[seen + 1] \in Infos
        BY <4>3
      <4>5. Append(batchInfos, hostInfos[seen + 1])[1] = batchInfos[1]
        BY <4>2, <4>4, AppendFacts
      <4> QED
        BY <4>1, <4>5, Zenon DEF UpdateBatchInfo
    <3> QED
      BY <1>3, <3>1, <3>2, Zenon
  <2>3. ~Resting /\ (Working' <=> Working) /\ pc' = pc
    BY <2>1, Zenon DEF Resting, Working, Stopped, Running, Booting
  <2>4. Working \/ pc = "switchSynced"
    BY <2>3, Zenon DEF Working
  <2> QED
    BY <2>1, <2>2, <2>3, <2>4, CoverQuiet, Zenon
<1>4. CASE Open
  <2>1. pc = "down" /\ pc' \in {"emptying", "opened"} /\ UNCHANGED <<hostInfos, synced, outbox>>
    BY <1>4, Zenon DEF Open, ResetBatchFile, chain
  <2>2. Resting /\ Resting' /\ ~Working'
    BY <2>1, Zenon DEF Resting, Working, Booting
  <2>3. ASSUME synced # 0 PROVE \E j \in 1..Len(hostInfos) : Resumes(j)'
    <3>1. PICK j \in 1..Len(hostInfos) : Resumes(j)
      BY <2>2, <2>3, Zenon DEF CoverInv
    <3>2. CASE saved' = saved
      BY <2>1, <3>1, <3>2, CoverSame, Zenon DEF Resumes
    <3>3. CASE saved' # saved
      <4>1. saved' = InfoAt(saved.start, saved.last)
        BY <1>4, <2>3, <3>3, Zenon DEF Open, ResetBatchFile
      <4>2. saved'.start = saved.start /\ saved'.end = 0
        BY <4>1, Zenon DEF InfoAt
      <4>3. CoveredBy(hostInfos[j])'
        BY <2>1, <3>1, <4>2, CoverSame, Zenon DEF Resumes, CoveredBy
      <4> QED
        BY <2>1, <3>1, <4>3, Zenon DEF Resumes
    <3> QED
      BY <3>2, <3>3, Zenon
  <2>4. NoBlockSkipped'
    BY <2>1, CoverSame, Zenon DEF CoverInv
  <2> QED
    BY <2>1, <2>2, <2>3, <2>4, Zenon DEF CoverInv
<1>5. CASE EmptyAtStart \/ InitializeFails \/ Exit
  <2>1. /\ UNCHANGED <<saved, outbox, hostInfos, synced>> /\ pc' \in {"opened", "down"}
        /\ pc \in {"emptying", "opened"} \/ Stopped
    BY <1>5, Zenon DEF EmptyAtStart, InitializeFails, Exit, chain, disk, Stopped
  <2>2. Resting /\ Resting'
    BY <2>1, Zenon DEF Resting, Booting
  <2> QED
    BY <2>1, <2>2, CoverQuiet, Zenon
<1>6. CASE InitializeNode
  BY <1>6, CoverInitialize, Zenon
<1>7. CASE Status
  <2>1. /\ UNCHANGED <<saved, outbox, batchInfos>> /\ pc' = "block" /\ pc = "idle" /\ ~closed
    BY <1>7, Zenon DEF Status, disk
  <2>2. Working /\ Working'
    BY <2>1, Zenon DEF Working, Resting, Stopped, Booting
  <2> QED
    BY <2>1, <2>2, CoverQuiet, Zenon
<1>8. CASE \/ prepareBatch \/ handleBatch \/ measureBatch \/ writeCommit \/ createBatchMsgs
           \/ switchWait \/ switchEmpty \/ HandlerFails
  <2>1. /\ UNCHANGED <<saved, outbox, hostInfos, synced, batchInfos, closed>>
        /\ pc \notin Booting \cup {"idle", "switchSynced"}
        /\ pc' \notin Booting \cup {"switchSynced"}
    BY <1>8, Zenon DEF prepareBatch, handleBatch, measureBatch, writeCommit, createBatchMsgs,
                switchWait, switchEmpty, HandlerFails, Return, chain, disk, memory, Booting
  <2>2. Working
    BY <2>1, Zenon DEF Working, Resting, Stopped
  <2>3. CASE Resting'
    <3>1. closed
      BY <2>1, <2>3, Zenon DEF Resting, Stopped
    <3>2. batchInfos[1] = hostInfos[Len(hostInfos)]
      BY <2>1, <3>1, Zenon DEF InfoInv
    <3> QED
      BY <2>1, <2>2, <2>3, <3>2, CoverQuiet, Zenon
  <2>4. CASE ~Resting'
    <3>1. Working'
      BY <2>1, <2>4, Zenon DEF Working
    <3> QED
      BY <2>1, <2>2, <3>1, CoverQuiet, Zenon
  <2> QED
    BY <2>3, <2>4, Zenon
<1>9. CASE Commit
  BY <1>9, CoverCommit, Zenon
<1>10. CASE switchSave
  <2>1. pc' = "switchSynced" /\ outbox' = outbox
    BY <1>10, Zenon DEF switchSave
  <2>2. ~Resting' /\ ~Working'
    BY <2>1, Zenon DEF Resting, Working, Booting, Stopped
  <2> QED
    BY <2>1, <2>2, CoverSame, Zenon DEF CoverInv
<1>11. CASE switchSynced
  <2>1. /\ pc = "switchSynced" /\ synced' = batchInfos[2].l2 /\ closed' /\ pc' = "idle"
        /\ UNCHANGED <<hostInfos, saved, outbox>>
    BY <1>11, Zenon DEF switchSynced, chain
  <2>2. PICK j \in 1..Len(hostInfos) : Segment(j)
    BY <2>1, Zenon DEF InfoInv, Booting
  <2>3. Len(batchInfos) > 1 /\ Len(batchInfos) \in Nat /\ seen \in Nat
    BY <2>1, TypeFacts, Zenon DEF TypeInv, Switching
  <2>4. 2 \in 1..Len(batchInfos) /\ j + 2 - 1 = j + 1
    BY <1>0, <2>3
  <2>5. j + 1 \in 1..Len(hostInfos) /\ batchInfos[2] = hostInfos[j + 1]
    <3>1. batchInfos[2] = hostInfos[j + 2 - 1]
      BY <2>2, <2>4, Zenon DEF Segment
    <3>2. j + 1 \in 1..Len(hostInfos)
      BY <1>0, <2>2, <2>3 DEF Segment
    <3> QED
      BY <2>4, <3>1, <3>2, Zenon
  <2> DEFINE c == hostInfos[j + 1]
  <2>6. saved.start = c.l2 + 1 /\ saved.end = 0 /\ c.l2 \in Nat
    BY <1>0, <2>1, <2>5, Zenon DEF PlaceInv
  <2>7. CoveredBy(c)
    <3>1. Covered(c, c.l2)
      BY <2>6, CoverNothing
    <3>2. saved.start - 1 = c.l2 /\ c.l2 < saved.start
      BY <2>6
    <3> QED
      BY <2>6, <3>1, <3>2, Zenon DEF CoveredBy
  <2>8. \A k \in 1..Len(hostInfos) : k > j + 1 => hostInfos[k].l2 > c.l2
    BY <1>0, <2>5, <2>6, Zenon DEF InfoInv, Rising
  <2>9. Resumes(j + 1)'
    BY <2>1, <2>5, <2>7, <2>8, CoverSame, Zenon DEF Resumes
  <2>10. ~Working' /\ NoBlockSkipped'
    BY <2>1, CoverSame, Zenon DEF Working, Resting, Stopped, CoverInv
  <2> QED
    BY <2>1, <2>5, <2>9, <2>10, Zenon DEF CoverInv
<1>12. CASE Close
  <2>1. /\ UNCHANGED <<saved, outbox, hostInfos, synced, batchInfos, pc>> /\ closed'
        /\ Running /\ Settled
    BY <1>12, Zenon DEF Close, MayStop, chain
  <2>2. /\ pc \notin Booting /\ ~Stopped
    BY <2>1, Zenon DEF Running, Booting, Stopped
  <2>3. Len(batchInfos) = 1 /\ batchInfos[1] = hostInfos[Len(hostInfos)]
    BY <2>1, <2>2, SettledInfo, Zenon
  <2>4. CASE pc = "switchSynced"
    BY <2>1, <2>4, CoverQuiet, Zenon
  <2>5. CASE pc # "switchSynced"
    <3>1. Working /\ (Resting' \/ Working')
      BY <2>1, <2>2, <2>5, Zenon DEF Working, Resting
    <3> QED
      BY <2>1, <2>3, <3>1, CoverQuiet, Zenon
  <2> QED
    BY <2>4, <2>5, Zenon
<1>13. CASE Kill
  <2>1. UNCHANGED <<saved, outbox, hostInfos, synced>> /\ pc' = "down" /\ Settled
    BY <1>13, Zenon DEF Kill, MayKill, chain, disk
  <2>2. Resting'
    BY <2>1, Zenon DEF Resting, Booting
  <2>3. CASE Resting
    BY <2>1, <2>2, <2>3, CoverQuiet, Zenon
  <2>4. CASE ~Resting
    <3>1. Len(batchInfos) = 1 /\ batchInfos[1] = hostInfos[Len(hostInfos)]
      BY <2>1, <2>4, SettledInfo, Zenon DEF Resting
    <3>2. pc # "switchSynced"
      BY <3>1, <1>0 DEF TypeInv, Switching
    <3>3. Working
      BY <2>4, <3>2, Zenon DEF Working
    <3> QED
      BY <2>1, <2>2, <3>1, <3>3, CoverQuiet, Zenon
  <2> QED
    BY <2>3, <2>4, Zenon
<1>14. CASE ResetHeight
  <2>1. /\ synced' = 0 /\ pc' = "down" /\ outbox' = outbox
    BY <1>14, Zenon DEF ResetHeight
  <2>2. ~Working'
    BY <2>1, Zenon DEF Working, Resting, Booting
  <2> QED
    BY <2>1, <2>2, CoverSame, Zenon DEF CoverInv
<1> QED
  BY <1>1, <1>2, <1>3, <1>4, <1>5, <1>6, <1>7, <1>8, <1>9, <1>10, <1>11, <1>12, <1>13, <1>14, Zenon
     DEF Next, Start, Handler

(* No block is left out of the batches of an info (NoBlockSkipped), when   *)
(* no two infos are of the same output and the process does not stop while *)
(* a new info waits.                                                       *)
THEOREM BlocksCovered ==
  ASSUME OneInfoPerOutput, ~StopDuringUpdate
  PROVE  Spec => []NoBlockSkipped
<1>1. Init => HeaderInv /\ CoverInv
  BY DEF Init, HeaderInv, CoverInv, NoBlockSkipped, Headers, Working, Resting, Booting
<1>2. TypeInv /\ PlaceInv /\ HeaderInv /\ [Next]_vars => HeaderInv'
  BY HeaderStep, Zenon
<1>3. TypeInv /\ PlaceInv /\ InfoInv /\ HeaderInv /\ CoverInv /\ [Next]_vars => CoverInv'
  BY CoverStep, Zenon
<1>4. CoverInv => NoBlockSkipped
  BY Zenon DEF CoverInv
<1> QED
  BY <1>1, <1>2, <1>3, <1>4, TypeInvariant, PlaceInvariant, InfoInvariant, PTL DEF Spec
=============================================================================
