------------------------- MODULE BroadcasterRefines --------------------------
(***************************************************************************)
(* Where a saved message is, and what follows from it: the database        *)
(* matches the memory, and the broadcaster implements the outbox.          *)
(*                                                                         *)
(* A saved message is in one place: still to be handed over and recorded   *)
(* as unsent, in the loop, or pending in memory and database alike.  That  *)
(* invariant needs no assumption on accounts or faults.                    *)
(***************************************************************************)
EXTENDS BroadcasterProofs

(* What is to be handed over was accepted and is recorded, once.           *)
FeedInv ==
  /\ \A f \in Feeders : \A i \in 1..Len(feed[f]) :
       feed[f][i] \in accepted /\ (feed[f][i] \in Saved => feed[f][i] \in processedDB)
  /\ \A f, g \in Feeders : \A i \in 1..Len(feed[f]), j \in 1..Len(feed[g]) :
       feed[f][i] \in Saved /\ feed[f][i] = feed[g][j] => f = g /\ i = j

(* So is the message in the loop, and no feeder has it any more.           *)
CurInv ==
  phase # "idle" =>
    /\ cur \in accepted
    /\ cur \in Saved =>
         /\ cur \in processedDB
         /\ \A f \in Feeders : \A i \in 1..Len(feed[f]) : feed[f][i] # cur

(* Only accepted messages are anywhere.                                    *)
AcceptInv ==
  /\ processedDB \subseteq accepted
  /\ \A t \in mempool \cup pendingDB \cup Elems(local) : t.msg \in accepted
  /\ \A r \in blocks : r.tx.msg \in accepted

(* Pending transactions are the saved ones in memory, one per message.     *)
PendInv ==
  /\ \A t \in pendingDB : t.msg \notin processedDB
  /\ up = "run" => pendingDB = {t \in Elems(local) : t.msg \in Saved}
  /\ \A i, j \in 1..Len(local) :
       local[i].msg \in Saved /\ local[i].msg = local[j].msg => i = j

(* Without a running loop nothing is in memory.                            *)
DownInv ==
  up # "run" => phase = "idle" /\ local = <<>> /\ \A f \in Feeders : feed[f] = <<>>

(* While the start goes through the pending transactions, each message is  *)
(* at most once among those to check and those to send again.              *)
LoadInv ==
  up = "boot" =>
    /\ Elems(boot.todo) \subseteq pendingDB
    /\ Elems(boot.redo) \subseteq MsgsOf(pendingDB)
    /\ \A i, j \in 1..Len(boot.todo) : boot.todo[i].msg = boot.todo[j].msg => i = j
    /\ \A i, j \in 1..Len(boot.redo) : boot.redo[i] = boot.redo[j] => i = j
    /\ \A i \in 1..Len(boot.todo), j \in 1..Len(boot.redo) : boot.todo[i].msg # boot.redo[j]

PlaceInv == FeedInv /\ CurInv /\ AcceptInv /\ PendInv /\ DownInv /\ LoadInv
-----------------------------------------------------------------------------
(* A step that leaves the unsent messages, the feeders and the loop alone. *)
LEMMA HandoverFrame ==
  ASSUME FeedInv, CurInv, UNCHANGED <<processedDB, phase, cur, feed, accepted>>
  PROVE  FeedInv' /\ CurInv'
BY DEF FeedInv, CurInv

(* A step that leaves the database, the feeders, the loop and the list of  *)
(* pending transactions alone keeps everything in its place.               *)
LEMMA PlaceFrame ==
  ASSUME PlaceInv,
         UNCHANGED <<processedDB, pendingDB, up, local, phase, cur, feed, boot, accepted>>,
         \A t \in mempool' : t.msg \in accepted,
         \A r \in blocks' : r.tx.msg \in accepted
  PROVE  PlaceInv'
<1>1. FeedInv' /\ CurInv'
  BY HandoverFrame, Zenon DEF PlaceInv
<1>2. AcceptInv'
  BY Zenon DEF PlaceInv, AcceptInv, Elems
<1>3. PendInv' /\ DownInv'
  BY ZenonT(40) DEF PlaceInv, PendInv, DownInv, Elems
<1>4. LoadInv'
  BY Zenon DEF PlaceInv, LoadInv, Elems, MsgsOf
<1> QED
  BY <1>1, <1>2, <1>3, <1>4, Zenon DEF PlaceInv

(* A block takes an accepted message from the mempool; evictions only      *)
(* remove.                                                                 *)
LEMMA ChainPlace ==
  ASSUME PlaceInv, ChainNext
  PROVE  PlaceInv'
<1> USE DEF chain, db, memory, loop, handover, checkerVars
<1>1. ASSUME NEW t \in mempool, NEW code \in Codes, Include(t, code) PROVE PlaceInv'
  <2>1. /\ mempool' \subseteq mempool /\ blocks' = blocks \cup {[tx |-> t, code |-> code]}
        /\ UNCHANGED <<processedDB, pendingDB, up, local, phase, cur, feed, boot, accepted>>
    BY <1>1, Zenon DEF Include
  <2>2. \A r \in blocks' : r.tx.msg \in accepted
    BY <2>1 DEF PlaceInv, AcceptInv
  <2>3. \A u \in mempool' : u.msg \in accepted
    BY <2>1, Zenon DEF PlaceInv, AcceptInv
  <2> QED
    BY <2>1, <2>2, <2>3, PlaceFrame, Zenon
<1>2. ASSUME /\ mempool' \subseteq mempool /\ UNCHANGED blocks
             /\ UNCHANGED <<processedDB, pendingDB, up, local, phase, cur, feed, boot, accepted>>
      PROVE  PlaceInv'
  <2>1. /\ \A t \in mempool' : t.msg \in accepted
        /\ \A r \in blocks' : r.tx.msg \in accepted
    BY <1>2, Zenon DEF PlaceInv, AcceptInv
  <2> QED
    BY <1>2, <2>1, PlaceFrame, Zenon
<1>3. ASSUME EmptyBlock PROVE PlaceInv'
  BY <1>2, <1>3, Zenon DEF EmptyBlock
<1>4. ASSUME NEW r \in blocks, IndexTx(r.tx) PROVE PlaceInv'
  BY <1>2, <1>4, Zenon DEF IndexTx
<1>5. ASSUME NEW t \in mempool, Evict(t) PROVE PlaceInv'
  BY <1>2, <1>5, Zenon DEF Evict
<1> QED
  BY <1>1, <1>3, <1>4, <1>5, Zenon DEF ChainNext

(* A block handler records what it is going to hand over; handing over     *)
(* moves the first message of a feeder into the loop.                      *)
LEMMA FeedPlace ==
  ASSUME TypeInv, PlaceInv, FeedNext
  PROVE  PlaceInv'
<1> USE DEF chain, db, memory, loop, handover, checkerVars
<1>1. ASSUME NEW h \in Handlers, NEW ms \in Batches, CommitBlock(h, ms) PROVE PlaceInv'
  <2>1. /\ up = "run" /\ ms \in Seq(Msgs \ accepted) /\ h \in Feeders
        /\ \A i, j \in 1..Len(ms) : i # j => ms[i] # ms[j]
        /\ processedDB' = processedDB \cup (Elems(ms) \cap Saved)
        /\ feed' = [feed EXCEPT ![h] = ms] /\ feed \in [Feeders -> Seq(Msgs)]
        /\ accepted' = accepted \cup Elems(ms)
        /\ UNCHANGED <<chain, pendingDB, up, local, phase, cur, boot>>
    BY <1>1, BatchType, Zenon DEF CommitBlock, TypeInv, TypeOK, Feeders
  <2>2. /\ \A i \in 1..Len(ms) : ms[i] \notin accepted /\ ms[i] \in Elems(ms)
        /\ feed'[h] = ms /\ \A f \in Feeders : f # h => feed'[f] = feed[f]
    BY <2>1 DEF Elems
  <2>3. FeedInv'
    <3>1. ASSUME NEW f \in Feeders, NEW i \in 1..Len(feed'[f])
          PROVE  feed'[f][i] \in accepted' /\ (feed'[f][i] \in Saved => feed'[f][i] \in processedDB')
      BY <2>1, <2>2, Zenon DEF PlaceInv, FeedInv
    <3>2. ASSUME NEW f \in Feeders, NEW g \in Feeders, NEW i \in 1..Len(feed'[f]),
                 NEW j \in 1..Len(feed'[g]), feed'[f][i] \in Saved, feed'[f][i] = feed'[g][j]
          PROVE  f = g /\ i = j
      <4>1. CASE f = h /\ g = h
        BY <2>1, <2>2, <3>2, <4>1, Zenon
      <4>2. CASE f # h /\ g # h
        BY <2>2, <3>2, <4>2 DEF PlaceInv, FeedInv
      <4>3. CASE f = h /\ g # h
        BY <2>2, <3>2, <4>3 DEF PlaceInv, FeedInv
      <4>4. CASE f # h /\ g = h
        BY <2>2, <3>2, <4>4 DEF PlaceInv, FeedInv
      <4> QED
        BY <4>1, <4>2, <4>3, <4>4, Zenon
    <3> QED
      BY <3>1, <3>2, Zenon DEF FeedInv
  <2>4. CurInv'
    <3>1. ASSUME phase # "idle", cur \in Saved, NEW f \in Feeders, NEW i \in 1..Len(feed'[f])
          PROVE  feed'[f][i] # cur
      BY <2>2, <3>1, Zenon DEF PlaceInv, CurInv
    <3> QED
      BY <2>1, <3>1, Zenon DEF PlaceInv, CurInv
  <2>5. AcceptInv'
    BY <2>1, Zenon DEF PlaceInv, AcceptInv, Elems
  <2>6. PendInv'
    <3>1. \A t \in pendingDB : t.msg \notin Elems(ms)
      BY <2>2 DEF PlaceInv, AcceptInv, Elems
    <3> QED
      BY <2>1, <3>1, Zenon DEF PlaceInv, PendInv, Elems
  <2>7. DownInv' /\ LoadInv'
    BY <2>1, Zenon DEF DownInv, LoadInv
  <2> QED
    BY <2>3, <2>4, <2>5, <2>6, <2>7, Zenon DEF PlaceInv
<1>2. ASSUME NEW f \in Feeders, Lock(f) PROVE PlaceInv'
  <2>1. /\ \A t \in mempool' : t.msg \in accepted
        /\ \A r \in blocks' : r.tx.msg \in accepted
    BY <1>2, Zenon DEF PlaceInv, AcceptInv, Lock
  <2> QED
    BY <1>2, <2>1, PlaceFrame, Zenon DEF Lock
<1>3. ASSUME NEW f \in Feeders, Send(f) PROVE PlaceInv'
  <2>1. /\ up = "run" /\ phase' = "handle" /\ cur' = Head(feed[f]) /\ feed[f] # <<>>
        /\ feed' = [feed EXCEPT ![f] = Tail(feed[f])] /\ feed \in [Feeders -> Seq(Msgs)]
        /\ UNCHANGED <<chain, processedDB, pendingDB, up, local, boot, accepted>>
    BY <1>3, Zenon DEF Send, TypeInv, TypeOK
  <2>0. \A g, k \in Feeders : \A i \in 1..Len(feed[g]), j \in 1..Len(feed[k]) :
          feed[g][i] \in Saved /\ feed[g][i] = feed[k][j] => g = k /\ i = j
    BY Zenon DEF PlaceInv, FeedInv
  <2>2. /\ feed'[f] = Tail(feed[f]) /\ \A g \in Feeders : g # f => feed'[g] = feed[g]
        /\ feed[f] \in Seq(Msgs)
    BY <2>1, Zenon
  <2>3. /\ Len(feed[f]) \in Nat /\ 1 \in 1..Len(feed[f]) /\ cur' = feed[f][1]
        /\ \A i \in 1..Len(feed'[f]) : i + 1 \in 1..Len(feed[f]) /\ feed'[f][i] = feed[f][i + 1]
    BY <2>1, <2>2
  <2>4. FeedInv'
    <3>1. ASSUME NEW g \in Feeders, NEW i \in 1..Len(feed'[g])
          PROVE  feed'[g][i] \in accepted' /\ (feed'[g][i] \in Saved => feed'[g][i] \in processedDB')
      <4>1. CASE g = f
        BY <2>1, <2>3, <4>1 DEF PlaceInv, FeedInv
      <4>2. CASE g # f
        BY <2>1, <2>2, <4>2, Zenon DEF PlaceInv, FeedInv
      <4> QED
        BY <4>1, <4>2, Zenon
    <3>2. ASSUME NEW g \in Feeders, NEW k \in Feeders, NEW i \in 1..Len(feed'[g]),
                 NEW j \in 1..Len(feed'[k]), feed'[g][i] \in Saved, feed'[g][i] = feed'[k][j]
          PROVE  g = k /\ i = j
      <4>1. CASE g = f /\ k = f
        <5>1. /\ i + 1 \in 1..Len(feed[f]) /\ feed'[g][i] = feed[f][i + 1]
              /\ j + 1 \in 1..Len(feed[f]) /\ feed'[k][j] = feed[f][j + 1]
          BY <2>3, <4>1, Zenon
        <5>2. PICK x, y \in 1..Len(feed[f]) :
                x = i + 1 /\ y = j + 1 /\ feed'[g][i] = feed[f][x] /\ feed'[k][j] = feed[f][y]
          BY <5>1, Zenon
        <5>3. feed[f][x] \in Saved /\ feed[f][x] = feed[f][y]
          BY <3>2, <5>2, Zenon
        <5>4. x = y
          BY <2>0, <5>3, Zenon
        <5> QED
          BY <4>1, <5>2, <5>4
      <4>2. CASE g # f /\ k # f
        BY <2>0, <2>2, <3>2, <4>2, SMTT(30)
      <4>3. CASE g = f /\ k # f
        <5>1. i + 1 \in 1..Len(feed[f]) /\ feed'[g][i] = feed[f][i + 1]
          BY <2>3, <4>3, Zenon
        <5> QED
          BY <2>0, <2>2, <3>2, <4>3, <5>1
      <4>4. CASE g # f /\ k = f
        <5>1. j + 1 \in 1..Len(feed[f]) /\ feed'[k][j] = feed[f][j + 1]
          BY <2>3, <4>4, Zenon
        <5> QED
          BY <2>0, <2>2, <3>2, <4>4, <5>1, Zenon
      <4> QED
        BY <4>1, <4>2, <4>3, <4>4, Zenon
    <3> QED
      BY <3>1, <3>2, Zenon DEF FeedInv
  <2>5. CurInv'
    <3>1. cur' \in accepted' /\ (cur' \in Saved => cur' \in processedDB')
      BY <2>1, <2>3, Zenon DEF PlaceInv, FeedInv
    <3>2. ASSUME cur' \in Saved, NEW g \in Feeders, NEW i \in 1..Len(feed'[g])
          PROVE  feed'[g][i] # cur'
      <4>1. CASE g = f
        <5>1. i + 1 # 1
          OBVIOUS
        <5> QED
          BY <2>3, <3>2, <4>1, <5>1, SMTT(30) DEF PlaceInv, FeedInv
      <4>2. CASE g # f
        BY <2>2, <2>3, <3>2, <4>2, Zenon DEF PlaceInv, FeedInv
      <4> QED
        BY <4>1, <4>2, Zenon
    <3> QED
      BY <3>1, <3>2, Zenon DEF CurInv
  <2>6. AcceptInv' /\ PendInv'
    BY <2>1, Zenon DEF PlaceInv, AcceptInv, PendInv, Elems
  <2>7. DownInv' /\ LoadInv'
    BY <2>1, Zenon DEF DownInv, LoadInv
  <2> QED
    BY <2>4, <2>5, <2>6, <2>7, Zenon DEF PlaceInv
<1> QED
  BY <1>1, <1>2, <1>3, Zenon DEF FeedNext
(* The loop moves its message from the unsent to the pending ones, or      *)
(* drops it.                                                               *)
LEMMA LoopPlace ==
  ASSUME TypeInv, PlaceInv, LoopNext
  PROVE  PlaceInv'
<1> USE DEF chain, db, memory, loop, handover, checkerVars
<1>0. phase # "idle" => Built(cur) \in Tx /\ Built(cur).msg = cur /\ cur \in accepted
  BY BuiltType, Zenon DEF TypeInv, PlaceInv, CurInv
<1>1. ASSUME Broadcast PROVE PlaceInv'
  <2>1. /\ mempool' = mempool \cup {Built(cur)} /\ phase = "handle" /\ phase' = "sent"
        /\ UNCHANGED <<blocks, processedDB, pendingDB, up, local, cur, feed, boot, accepted>>
    BY <1>1, Zenon DEF Broadcast, Handling, CheckTx
  <2>2. FeedInv' /\ CurInv' /\ PendInv' /\ DownInv' /\ LoadInv'
    <3>1. FeedInv'
      BY <2>1 DEF PlaceInv, FeedInv
    <3>2. PendInv'
      BY <2>1, Zenon DEF PlaceInv, PendInv, Elems
    <3>3. LoadInv'
      BY <2>1, Zenon DEF PlaceInv, LoadInv, Elems, MsgsOf
    <3>4. CurInv'
      BY <2>1, Zenon DEF PlaceInv, CurInv, Elems
    <3>5. DownInv'
      BY <1>1, <2>1, Zenon DEF PlaceInv, DownInv, Broadcast, Handling
    <3> QED
      BY <3>1, <3>2, <3>3, <3>4, <3>5, Zenon
  <2>3. AcceptInv'
    BY <1>0, <2>1, Zenon DEF PlaceInv, AcceptInv, Elems
  <2> QED
    BY <2>2, <2>3, Zenon DEF PlaceInv
<1>2. ASSUME BroadcastAckLost PROVE PlaceInv'
  <2>1. /\ mempool' = mempool \cup {Built(cur)} /\ phase = "handle" /\ UNCHANGED blocks
        /\ UNCHANGED <<processedDB, pendingDB, up, local, phase, cur, feed, boot, accepted>>
    BY <1>2, Zenon DEF BroadcastAckLost, Handling, CheckTx
  <2>2. /\ \A t \in mempool' : t.msg \in accepted
        /\ \A r \in blocks' : r.tx.msg \in accepted
    BY <1>0, <2>1, Zenon DEF PlaceInv, AcceptInv
  <2> QED
    BY <2>1, <2>2, PlaceFrame, Zenon
<1>3. ASSUME SequenceMismatch PROVE PlaceInv'
  <2>1. /\ \A t \in mempool' : t.msg \in accepted
        /\ \A r \in blocks' : r.tx.msg \in accepted
    BY <1>3, Zenon DEF PlaceInv, AcceptInv, SequenceMismatch
  <2> QED
    BY <1>3, <2>1, PlaceFrame, Zenon DEF SequenceMismatch
<1>4. ASSUME phase # "idle", phase' = "idle", processedDB' = processedDB \ {cur}, UNCHANGED feed,
             UNCHANGED accepted
      PROVE  FeedInv' /\ CurInv'
  <2>1. \A f \in Feeders : \A i \in 1..Len(feed[f]) : feed[f][i] \in Saved => feed[f][i] # cur
    BY <1>4, Zenon DEF PlaceInv, CurInv
  <2> QED
    BY <1>4, <2>1 DEF PlaceInv, FeedInv, CurInv
<1>5. ASSUME IgnoredError PROVE PlaceInv'
  <2>1. /\ up = "run" /\ phase # "idle" /\ phase' = "idle" /\ processedDB' = processedDB \ {cur}
        /\ UNCHANGED <<mempool, blocks, pendingDB, up, local, feed, boot, accepted>>
    BY <1>5, Zenon DEF IgnoredError, Handling, Done
  <2>2. AcceptInv' /\ PendInv' /\ DownInv' /\ LoadInv'
    BY <2>1, SMTT(30) DEF PlaceInv, AcceptInv, PendInv, DownInv, LoadInv, Elems
  <2> QED
    BY <1>4, <2>1, <2>2, Zenon DEF PlaceInv
<1>6. ASSUME CommitPending PROVE PlaceInv'
  <2> DEFINE b == Built(cur)
  <2>1. /\ up = "run" /\ phase # "idle" /\ phase' = "idle" /\ processedDB' = processedDB \ {cur}
        /\ pendingDB' = pendingDB \cup {t \in {b} : t.msg \in Saved} /\ local' = Append(local, b)
        /\ UNCHANGED <<mempool, blocks, up, feed, boot, accepted>>
    BY <1>6, Zenon DEF CommitPending, Done
  <2>2. b \in Tx /\ b.msg = cur /\ cur \in accepted /\ local \in Seq(Tx)
    BY <1>0, <2>1, Zenon DEF TypeInv, TypeOK
  <2> HIDE DEF b
  <2>3. /\ Len(local) \in Nat /\ Len(local') = Len(local) + 1 /\ local'[Len(local) + 1] = b
        /\ \A i \in 1..Len(local) : local'[i] = local[i]
    BY <2>1, <2>2, AppendFacts
  <2>4. Elems(local') = Elems(local) \cup {b}
    BY <2>3 DEF Elems
  <2>5. AcceptInv'
    BY <2>1, <2>2, <2>4, Zenon DEF PlaceInv, AcceptInv
  <2>6. PendInv'
    <3>1. \A t \in pendingDB' : t.msg \notin processedDB'
      BY <2>1, <2>2, Zenon DEF PlaceInv, PendInv
    <3>2. pendingDB' = {t \in Elems(local') : t.msg \in Saved}
      BY <2>1, <2>4, Zenon DEF PlaceInv, PendInv
    <3>3. \A i \in 1..Len(local) : local[i].msg \in Saved => local[i].msg # cur
      <4> SUFFICES ASSUME NEW i \in 1..Len(local), local[i].msg \in Saved, local[i].msg = cur
                   PROVE  FALSE
        BY Zenon
      <4>1. local[i] \in pendingDB
        BY <2>1, Zenon DEF PlaceInv, PendInv, Elems
      <4> QED
        BY <2>1, <4>1, Zenon DEF PlaceInv, PendInv, CurInv
    <3>4. ASSUME NEW i \in 1..Len(local'), NEW j \in 1..Len(local'),
                 local'[i].msg \in Saved, local'[i].msg = local'[j].msg
          PROVE  i = j
      <4>1. \A k \in 1..Len(local') : k \in 1..Len(local) \/ k = Len(local) + 1
        BY <2>3
      <4>2. CASE i \in 1..Len(local) /\ j \in 1..Len(local)
        BY <2>3, <3>4, <4>2, Zenon DEF PlaceInv, PendInv
      <4>3. CASE i = Len(local) + 1 /\ j \in 1..Len(local)
        BY <2>2, <2>3, <3>3, <3>4, <4>3, Zenon
      <4>4. CASE j = Len(local) + 1 /\ i \in 1..Len(local)
        BY <2>2, <2>3, <3>3, <3>4, <4>4, Zenon
      <4> QED
        BY <4>1, <4>2, <4>3, <4>4, Zenon
    <3> QED
      BY <3>1, <3>2, <3>4, Zenon DEF PendInv
  <2>7. DownInv' /\ LoadInv'
    BY <2>1, Zenon DEF DownInv, LoadInv
  <2> QED
    BY <1>4, <2>1, <2>5, <2>6, <2>7, Zenon DEF PlaceInv
<1>7. ASSUME CommitFails PROVE PlaceInv'
  <2>1. /\ up = "run" /\ phase # "idle"
        /\ UNCHANGED <<mempool, blocks, processedDB, pendingDB, up, local, feed, boot, accepted>>
        /\ phase' = "idle" \/ UNCHANGED cur
    BY <1>7, Zenon DEF CommitFails, Done
  <2>2. FeedInv' /\ CurInv' /\ DownInv' /\ LoadInv'
    <3>1. FeedInv'
      BY <2>1 DEF PlaceInv, FeedInv
    <3>2. CurInv'
      BY <2>1, Zenon DEF PlaceInv, CurInv
    <3> QED
      BY <2>1, <3>1, <3>2, Zenon DEF DownInv, LoadInv
  <2>3. AcceptInv' /\ PendInv'
    BY <2>1, Zenon DEF PlaceInv, AcceptInv, PendInv, Elems
  <2> QED
    BY <2>2, <2>3, Zenon DEF PlaceInv
<1> QED
  BY <1>1, <1>2, <1>3, <1>5, <1>6, <1>7, Zenon DEF LoopNext

(* Dropping the oldest records from memory drops them from the database.   *)
LEMMA DropPlace ==
  ASSUME TypeOK, PlaceInv, up = "run", NEW n \in 0..Len(local), DropPending(n),
         UNCHANGED <<mempool, blocks, processedDB, up, phase, cur, feed, boot, accepted>>
  PROVE  PlaceInv'
<1> DEFINE gone == {local[i].msg : i \in 1..n}
<1>1. /\ pendingDB' = {t \in pendingDB : t.msg \notin gone}
      /\ local' = SubSeq(local, n + 1, Len(local))
  BY Zenon DEF DropPending
<1>2. local \in Seq(Tx) /\ Len(local) \in Nat /\ n \in Nat /\ n <= Len(local)
  BY DEF TypeOK
<1>3. /\ Len(local') = Len(local) - n
      /\ \A i \in 1..Len(local') : n + i \in 1..Len(local) /\ local'[i] = local[n + i]
  <2>1. n + 1 \in 1..(Len(local) + 1)
    BY <1>2
  <2>2. \A i \in (n + 1)..Len(local) : local[i] \in Tx
    BY <1>2
  <2> QED
    BY <1>1, <1>2, <2>1, <2>2, SubSeqFacts
<1>4. \A k \in 1..Len(local) : k > n => k - n \in 1..Len(local') /\ local'[k - n] = local[k]
  BY <1>2, <1>3
<1>5. /\ pendingDB = {t \in Elems(local) : t.msg \in Saved}
      /\ \A i, j \in 1..Len(local) : local[i].msg \in Saved /\ local[i].msg = local[j].msg => i = j
  BY Zenon DEF PlaceInv, PendInv
<1>6. pendingDB' \subseteq {t \in Elems(local') : t.msg \in Saved}
  <2> SUFFICES ASSUME NEW t \in pendingDB' PROVE t \in Elems(local') /\ t.msg \in Saved
    BY Zenon
  <2>1. PICK k \in 1..Len(local) : t = local[k] /\ t.msg \in Saved
    BY <1>1, <1>5, Zenon DEF Elems
  <2>2. k > n
    BY <1>1, <1>2, <2>1
  <2>3. k - n \in 1..Len(local') /\ local'[k - n] = t
    BY <1>4, <2>1, <2>2, Zenon
  <2> QED
    BY <2>1, <2>3, Zenon DEF Elems
<1>7. {t \in Elems(local') : t.msg \in Saved} \subseteq pendingDB'
  <2> SUFFICES ASSUME NEW i \in 1..Len(local'), local'[i].msg \in Saved PROVE local'[i] \in pendingDB'
    BY Zenon DEF Elems
  <2>1. PICK k \in 1..Len(local) : k = n + i /\ local'[i] = local[k]
    BY <1>3, Zenon
  <2>2. local[k] \in pendingDB
    BY <1>5, <2>1, Zenon DEF Elems
  <2>3. \A j \in 1..n : local[j].msg # local[k].msg
    <3> SUFFICES ASSUME NEW j \in 1..n, local[j].msg = local[k].msg PROVE FALSE
      BY Zenon
    <3>1. j \in 1..Len(local) /\ j # k
      BY <1>2, <2>1
    <3> QED
      BY <1>5, <2>1, <3>1, Zenon
  <2> QED
    BY <1>1, <2>1, <2>2, <2>3, Zenon
<1>8. PendInv'
  <2>1. ASSUME NEW i \in 1..Len(local'), NEW j \in 1..Len(local'),
               local'[i].msg \in Saved, local'[i].msg = local'[j].msg
        PROVE  i = j
    <3>1. PICK x, y \in 1..Len(local) :
            x = n + i /\ y = n + j /\ local'[i] = local[x] /\ local'[j] = local[y]
      BY <1>3, Zenon
    <3>2. x = y
      BY <1>5, <2>1, <3>1, Zenon
    <3> QED
      BY <1>2, <3>1, <3>2
  <2>2. pendingDB' = {t \in Elems(local') : t.msg \in Saved} /\ pendingDB' \subseteq pendingDB
    BY <1>1, <1>6, <1>7, Zenon
  <2> QED
    BY <2>1, <2>2, Zenon DEF PlaceInv, PendInv
<1>9. AcceptInv'
  BY <1>1, <1>3 DEF PlaceInv, AcceptInv, Elems
<1>10. FeedInv' /\ CurInv'
  BY HandoverFrame, Zenon DEF PlaceInv
<1>11. DownInv' /\ LoadInv'
  BY Zenon DEF DownInv, LoadInv
<1> QED
  BY <1>8, <1>9, <1>10, <1>11, Zenon DEF PlaceInv

(* A stopped process has only its database.                                *)
LEMMA StopPlace ==
  ASSUME TypeOK, PlaceInv, Stop, UNCHANGED <<processedDB, pendingDB, accepted, blocks>>,
         \A t \in mempool' : t.msg \in accepted
  PROVE  PlaceInv'
<1>1. /\ up' = "down" /\ phase' = "idle" /\ local' = <<>> /\ feed' = [f \in Feeders |-> <<>>]
  BY Zenon DEF Stop, Done
<1>2. \A f \in Feeders : feed'[f] = <<>> /\ Len(feed'[f]) = 0 /\ 1..Len(feed'[f]) = {}
  BY <1>1
<1>3. Elems(local') = {} /\ 1..Len(local') = {}
  BY <1>1 DEF Elems
<1>4. FeedInv' /\ CurInv' /\ DownInv' /\ LoadInv'
  BY <1>1, <1>2, Zenon DEF FeedInv, CurInv, DownInv, LoadInv
<1>5. AcceptInv' /\ PendInv'
  BY <1>1, <1>3, Zenon DEF PlaceInv, AcceptInv, PendInv
<1> QED
  BY <1>4, <1>5, Zenon DEF PlaceInv
(* A rebuilt transaction carries the message of the one it replaces.       *)
LEMMA RebuildPlace ==
  ASSUME TypeOK, PlaceInv, RebuildPendingTxs
  PROVE  PlaceInv'
<1> USE DEF chain, loop, handover
<1>1. /\ up = "run"
      /\ UNCHANGED <<mempool, blocks, processedDB, up, phase, cur, feed, boot, accepted>>
  BY Zenon DEF RebuildPendingTxs
<1>2. FeedInv' /\ CurInv' /\ DownInv' /\ LoadInv'
  <2>1. FeedInv' /\ CurInv'
    BY <1>1, HandoverFrame, Zenon DEF PlaceInv
  <2> QED
    BY <1>1, <2>1, Zenon DEF DownInv, LoadInv
<1>3. pendingDB = {t \in Elems(local) : t.msg \in Saved} /\ Len(local) \in Nat
  <2>1. Len(local) \in Nat
    BY DEF TypeOK
  <2> QED
    BY <1>1, <2>1, Zenon DEF PlaceInv, PendInv
<1>4. CASE UNCHANGED <<local, pendingDB>>
  <2>1. AcceptInv'
    BY <1>1, <1>4, Zenon DEF PlaceInv, AcceptInv, Elems
  <2>2. PendInv'
    BY <1>1, <1>4, Zenon DEF PlaceInv, PendInv, Elems
  <2> QED
    BY <1>2, <2>1, <2>2, Zenon DEF PlaceInv
<1>5. CASE /\ local' = [i \in 1..Len(local) |-> Rebuilt(local[i])]
           /\ pendingDB' = {t \in pendingDB : t.msg \notin MsgsOf(Elems(local))}
                             \cup {t \in Elems(local') : t.msg \in Saved}
  <2>1. /\ Len(local') = Len(local)
        /\ \A i \in 1..Len(local) : local'[i].msg = local[i].msg
    <3>1. \A i \in 1..Len(local) : Rebuilt(local[i]).msg = local[i].msg
      BY Zenon DEF Rebuilt
    <3> QED
      BY <1>3, <1>5, <3>1
  <2>2. {t \in pendingDB : t.msg \notin MsgsOf(Elems(local))} = {}
    BY <1>3, Zenon DEF MsgsOf
  <2>3. pendingDB' = {t \in Elems(local') : t.msg \in Saved}
    BY <1>5, <2>2, Zenon
  <2>4. \A t \in Elems(local') : \E u \in Elems(local) : u.msg = t.msg
    BY <2>1, Zenon DEF Elems
  <2>5. AcceptInv'
    BY <1>1, <2>3, <2>4, Zenon DEF PlaceInv, AcceptInv
  <2>6. \A t \in pendingDB' : t.msg \notin processedDB'
    <3> SUFFICES ASSUME NEW t \in pendingDB' PROVE t.msg \notin processedDB
      BY <1>1, Zenon
    <3>1. PICK u \in Elems(local) : u.msg = t.msg /\ t.msg \in Saved
      BY <2>3, <2>4, Zenon
    <3>2. u \in pendingDB
      BY <1>3, <3>1, Zenon
    <3> QED
      BY <3>1, <3>2, Zenon DEF PlaceInv, PendInv
  <2>7. PendInv'
    BY <2>1, <2>3, <2>6, Zenon DEF PlaceInv, PendInv
  <2> QED
    BY <1>2, <2>5, <2>7, Zenon DEF PlaceInv
<1> QED
  BY <1>4, <1>5, Zenon DEF RebuildPendingTxs

(* The checker watches, drops or rebuilds what memory and database share.  *)
LEMMA CheckerPlace ==
  ASSUME TypeInv, PlaceInv, CheckerNext
  PROVE  PlaceInv'
<1> USE DEF chain, db, loop, handover
<1>0. TypeOK
  BY Zenon DEF TypeInv
<1>1. ASSUME CheckLater \/ CheckNotFound PROVE PlaceInv'
  <2>1. UNCHANGED <<mempool, blocks, processedDB, pendingDB, up, local, phase, cur, feed, boot, accepted>>
    BY <1>1, Zenon DEF CheckLater, CheckNotFound
  <2>2. /\ \A t \in mempool' : t.msg \in accepted
        /\ \A r \in blocks' : r.tx.msg \in accepted
    BY <2>1, Zenon DEF PlaceInv, AcceptInv
  <2> QED
    BY <2>1, <2>2, PlaceFrame, Zenon
<1>2. ASSUME CheckDiscards \/ CheckFound PROVE PlaceInv'
  <2>1. /\ up = "run" /\ local # <<>> /\ DropPending(1)
        /\ UNCHANGED <<mempool, blocks, processedDB, up, phase, cur, feed, boot, accepted>>
    BY <1>2, Zenon DEF CheckDiscards, CheckFound, Polling
  <2>2. 1 \in 0..Len(local)
    BY <1>0, <2>1, EmptyFacts DEF TypeOK
  <2> QED
    BY <1>0, <2>1, <2>2, DropPlace, Zenon
<1>3. ASSUME CheckPanics PROVE PlaceInv'
  <2>1. \A t \in mempool' : t.msg \in accepted
    BY <1>3, Zenon DEF CheckPanics, PlaceInv, AcceptInv
  <2> QED
    BY <1>0, <1>3, <2>1, StopPlace, Zenon DEF CheckPanics
<1>4. ASSUME Rebroadcast PROVE PlaceInv'
  <2>1. Head(local).msg \in accepted
    <3>1. local \in Seq(Tx) /\ local # <<>>
      BY <1>4, Zenon DEF TypeInv, TypeOK, Rebroadcast
    <3>2. Head(local) \in Elems(local)
      BY <3>1, ElemsTail, Zenon
    <3> QED
      BY <3>2, Zenon DEF PlaceInv, AcceptInv
  <2>2. /\ mempool' \subseteq mempool \cup {Head(local)} /\ UNCHANGED blocks
        /\ UNCHANGED <<processedDB, pendingDB, up, local, phase, cur, feed, boot, accepted>>
    BY <1>4, Zenon DEF Rebroadcast, CheckTx
  <2>3. /\ \A t \in mempool' : t.msg \in accepted
        /\ \A r \in blocks' : r.tx.msg \in accepted
    BY <2>1, <2>2, Zenon DEF PlaceInv, AcceptInv
  <2> QED
    BY <2>2, <2>3, PlaceFrame, Zenon
<1>5. ASSUME RemovePendingTxsUntil PROVE PlaceInv'
  <2>1. /\ up = "run"
        /\ UNCHANGED <<mempool, blocks, processedDB, up, phase, cur, feed, boot, accepted>>
        /\ (\E n \in 0..Len(local) : DropPending(n)) \/ UNCHANGED <<pendingDB, local>>
    BY <1>5, Zenon DEF RemovePendingTxsUntil
  <2>2. CASE \E n \in 0..Len(local) : DropPending(n)
    BY <1>0, <2>1, <2>2, DropPlace, Zenon
  <2>3. CASE UNCHANGED <<pendingDB, local>>
    <3>1. /\ \A t \in mempool' : t.msg \in accepted
          /\ \A r \in blocks' : r.tx.msg \in accepted
      BY <2>1, Zenon DEF PlaceInv, AcceptInv
    <3> QED
      BY <2>1, <2>3, <3>1, PlaceFrame, Zenon
  <2> QED
    BY <2>1, <2>2, <2>3, Zenon
<1> QED
  BY <1>0, <1>1, <1>2, <1>3, <1>4, <1>5, RebuildPlace, Zenon DEF CheckerNext

-----------------------------------------------------------------------------
(* The database matches the memory, for any accounts and faults: crash,    *)
(* restart and reload keep every message in its place, and so do all other *)
(* steps.                                                                  *)

(* The messages of a sequence of transactions, one by one.                 *)
LEMMA MsgSeqItems ==
  ASSUME NEW s, Len(s) \in Nat
  PROVE  Len(MsgSeq(s)) = Len(s) /\ \A i \in 1..Len(s) : MsgSeq(s)[i] = s[i].msg
BY DEF MsgSeq

(* Going through the pending transactions concerns only the loading.       *)
LEMMA LoadFrame ==
  ASSUME PlaceInv, up = "boot", LoadInv',
         UNCHANGED <<processedDB, pendingDB, up, local, phase, cur, feed, accepted, blocks>>,
         \A t \in mempool' : t.msg \in accepted
  PROVE  PlaceInv'
<1>1. FeedInv' /\ CurInv' /\ DownInv'
  BY DEF PlaceInv, FeedInv, CurInv, DownInv
<1>2. AcceptInv' /\ PendInv'
  BY Zenon DEF PlaceInv, AcceptInv, PendInv, Elems
<1> QED
  BY <1>1, <1>2, Zenon DEF PlaceInv

(* The reload hands over what was unsent or is to be sent again, once.     *)
LEMMA FinishPlace ==
  ASSUME TypeOK, PlaceInv, NEW unsent \in Listings(processedDB), BootFinish(unsent)
  PROVE  PlaceInv'
<1> USE DEF chain, loop
<1> DEFINE redo == boot.redo
           ms == redo \o unsent
<1>1. /\ up = "boot" /\ unsent \in Seq(processedDB) /\ InKeyOrder(unsent, processedDB)
      /\ pendingDB' = {} /\ processedDB' = processedDB \cup Elems(redo) /\ up' = "run"
      /\ feed' = [feed EXCEPT !["reload"] = ms]
      /\ UNCHANGED <<mempool, blocks, local, phase, cur, accepted>>
  BY Zenon DEF BootFinish
<1>2. /\ unsent \in Seq(Msgs) /\ redo \in Seq(Msgs) /\ redo \in Seq(Saved)
      /\ feed \in [Feeders -> Seq(Msgs)] /\ "reload" \in Feeders
  BY <1>1, ConstantsAssumption, SeqWiden, Zenon DEF TypeOK, Feeders
<1>3. /\ Elems(unsent) = processedDB /\ Elems(redo) \subseteq MsgsOf(pendingDB)
      /\ \A i, j \in 1..Len(redo) : redo[i] = redo[j] => i = j
      /\ phase = "idle" /\ local = <<>> /\ \A f \in Feeders : feed[f] = <<>>
  BY <1>1, Zenon DEF InKeyOrder, PlaceInv, LoadInv, DownInv
<1>4. ASSUME NEW i \in 1..Len(unsent), NEW j \in 1..Len(unsent), unsent[i] = unsent[j] PROVE i = j
  <2>1. i \in Nat /\ j \in Nat /\ ~(i < j) /\ ~(j < i)
    BY <1>1, <1>2, <1>4 DEF InKeyOrder
  <2> QED
    BY <2>1
<1>5. Elems(redo) \cap processedDB = {} /\ Elems(redo) \subseteq accepted /\ processedDB \subseteq accepted
  BY <1>3 DEF PlaceInv, PendInv, AcceptInv, MsgsOf
<1>6. /\ Len(redo) \in Nat /\ Len(unsent) \in Nat /\ Len(ms) = Len(redo) + Len(unsent)
      /\ \A i \in 1..Len(ms) : ms[i] = IF i <= Len(redo) THEN redo[i] ELSE unsent[i - Len(redo)]
  BY <1>2, ConcatFacts
<1>7. Elems(ms) = Elems(redo) \cup processedDB
  BY <1>2, <1>3, ElemsConcat
<1>8. ASSUME NEW i \in 1..Len(ms), NEW j \in 1..Len(ms), ms[i] = ms[j] PROVE i = j
  <2>1. \A k \in 1..Len(ms) :
          \/ k \in 1..Len(redo) /\ ms[k] = redo[k] /\ ms[k] \in Elems(redo)
          \/ /\ k > Len(redo) /\ k - Len(redo) \in 1..Len(unsent)
             /\ ms[k] = unsent[k - Len(redo)] /\ ms[k] \in Elems(unsent)
    BY <1>6, SMTT(30) DEF Elems
  <2> HIDE DEF ms, redo
  <2>2. CASE i \in 1..Len(redo) /\ j \in 1..Len(redo)
    BY <1>3, <1>6, <1>8, <2>1, <2>2
  <2>3. CASE ~(i \in 1..Len(redo)) /\ ~(j \in 1..Len(redo))
    <3>0. /\ i - Len(redo) \in 1..Len(unsent) /\ ms[i] = unsent[i - Len(redo)]
          /\ j - Len(redo) \in 1..Len(unsent) /\ ms[j] = unsent[j - Len(redo)]
      BY <2>1, <2>3, Zenon
    <3>1. PICK x, y \in 1..Len(unsent) :
            x = i - Len(redo) /\ y = j - Len(redo) /\ unsent[x] = unsent[y]
      BY <1>8, <3>0, Zenon
    <3>2. x = y
      BY <1>4, <3>1, Zenon
    <3> QED
      BY <1>6, <3>1, <3>2
  <2>4. CASE i \in 1..Len(redo) /\ ~(j \in 1..Len(redo))
    BY <1>3, <1>5, <1>6, <1>8, <2>1, <2>4
  <2>5. CASE ~(i \in 1..Len(redo)) /\ j \in 1..Len(redo)
    BY <1>3, <1>5, <1>6, <1>8, <2>1, <2>5
  <2> QED
    BY <2>2, <2>3, <2>4, <2>5, Zenon
<1>9. /\ feed'["reload"] = ms
      /\ \A f \in Feeders : f # "reload" => feed'[f] = <<>> /\ 1..Len(feed'[f]) = {}
  BY <1>1, <1>2, <1>3
<1> HIDE DEF ms, redo
<1>10. FeedInv'
  <2>1. \A i \in 1..Len(ms) : ms[i] \in accepted' /\ ms[i] \in processedDB'
    BY <1>1, <1>5, <1>7, Zenon DEF Elems
  <2> QED
    BY <1>8, <1>9, <2>1, Zenon DEF FeedInv
<1>11. CurInv' /\ DownInv' /\ LoadInv'
  BY <1>1, <1>3, Zenon DEF CurInv, DownInv, LoadInv
<1>12. Elems(local') = {} /\ 1..Len(local') = {}
  BY <1>1, <1>3 DEF Elems
<1>13. AcceptInv' /\ PendInv'
  BY <1>1, <1>5, <1>12, Zenon DEF PlaceInv, AcceptInv, PendInv
<1> QED
  BY <1>10, <1>11, <1>13, Zenon DEF PlaceInv

(* Crash, restart and reload keep every message in its place.              *)
LEMMA BootPlace ==
  ASSUME TypeInv, PlaceInv, BootNext
  PROVE  PlaceInv'
<1> USE DEF chain, db, loop, handover
<1>0. TypeOK /\ \A t \in mempool : t.msg \in accepted
  BY Zenon DEF TypeInv, PlaceInv, AcceptInv
<1>1. ASSUME Crash PROVE PlaceInv'
  BY <1>0, <1>1, StopPlace, Zenon DEF Crash
<1>2. ASSUME NEW todo \in Listings(pendingDB), Initialize(todo) PROVE PlaceInv'
  <2>1. /\ up = "down" /\ up' = "boot" /\ boot'.todo = todo /\ boot'.redo = <<>>
        /\ todo \in Seq(pendingDB) /\ InKeyOrder(MsgSeq(todo), MsgsOf(pendingDB))
        /\ UNCHANGED <<mempool, blocks, processedDB, pendingDB, local, phase, cur, feed, accepted>>
    BY <1>2, Zenon DEF Initialize
  <2>2. Len(todo) \in Nat /\ Len(MsgSeq(todo)) = Len(todo) /\ Elems(todo) \subseteq pendingDB
    BY <2>1, ElemsType, MsgSeqItems
  <2>3. \A i \in 1..Len(todo) : MsgSeq(todo)[i] = todo[i].msg
    BY <2>2, MsgSeqItems, Zenon
  <2>4. ASSUME NEW i \in 1..Len(todo), NEW j \in 1..Len(todo), todo[i].msg = todo[j].msg PROVE i = j
    <3>1. ~(i < j) /\ ~(j < i)
      BY <2>1, <2>2, <2>3, <2>4 DEF InKeyOrder
    <3> QED
      BY <2>2, <3>1
  <2>5. LoadInv'
    BY <2>1, <2>2, <2>4, SMTT(30) DEF LoadInv, Elems
  <2>6. FeedInv' /\ CurInv' /\ DownInv'
    BY <2>1 DEF PlaceInv, FeedInv, CurInv, DownInv
  <2>7. AcceptInv' /\ PendInv'
    BY <2>1, Zenon DEF PlaceInv, AcceptInv, PendInv, Elems
  <2> QED
    BY <2>5, <2>6, <2>7, Zenon DEF PlaceInv
<1>3. Loading =>
        /\ boot.todo \in Seq(SavedTx) /\ boot.redo \in Seq(Saved) /\ boot.todo # <<>>
        /\ Elems(boot.todo) \subseteq pendingDB /\ Elems(boot.redo) \subseteq MsgsOf(pendingDB)
        /\ \A i, j \in 1..Len(boot.todo) : boot.todo[i].msg = boot.todo[j].msg => i = j
        /\ \A i, j \in 1..Len(boot.redo) : boot.redo[i] = boot.redo[j] => i = j
        /\ \A i \in 1..Len(boot.todo), j \in 1..Len(boot.redo) : boot.todo[i].msg # boot.redo[j]
  BY <1>0, Zenon DEF Loading, TypeOK, PlaceInv, LoadInv
<1>4. ASSUME BootFound PROVE PlaceInv'
  <2> DEFINE todo == boot.todo
             redo == boot.redo
             m == Head(todo).msg
  <2>1. /\ Loading /\ boot'.todo = Tail(todo)
        /\ boot'.redo = redo \/ boot'.redo = Append(redo, m)
        /\ UNCHANGED <<mempool, blocks, processedDB, pendingDB, up, local, phase, cur, feed, accepted>>
    BY <1>4, Zenon DEF BootFound
  <2>2. /\ Len(todo) \in Nat /\ 1 \in 1..Len(todo) /\ m = todo[1].msg
        /\ Len(Tail(todo)) = Len(todo) - 1
        /\ \A i \in 1..Len(Tail(todo)) :
             i + 1 \in 1..Len(todo) /\ i + 1 # 1 /\ Tail(todo)[i] = todo[i + 1]
    BY <1>3, <2>1, HeadTailFacts
  <2>3. m \in MsgsOf(pendingDB) /\ m \in Saved /\ Elems(Tail(todo)) \subseteq pendingDB
    <3>1. Head(todo) \in SavedTx /\ Elems(todo) = {Head(todo)} \cup Elems(Tail(todo))
      BY <1>3, <2>1, ElemsTail, HeadTailFacts, Zenon
    <3> QED
      BY <1>3, <2>1, <3>1, Zenon DEF MsgsOf, SavedTx
  <2>4. /\ \A i, j \in 1..Len(todo) : todo[i].msg = todo[j].msg => i = j
        /\ \A i, j \in 1..Len(redo) : redo[i] = redo[j] => i = j
        /\ \A i \in 1..Len(todo), j \in 1..Len(redo) : todo[i].msg # redo[j]
        /\ Elems(redo) \subseteq MsgsOf(pendingDB) /\ redo \in Seq(Saved)
    BY <1>3, <2>1, Zenon
  <2> HIDE DEF todo, redo, m
  <2>5. ASSUME NEW i \in 1..Len(Tail(todo)), NEW j \in 1..Len(Tail(todo)),
               Tail(todo)[i].msg = Tail(todo)[j].msg
        PROVE  i = j
    <3>1. PICK x, y \in 1..Len(todo) :
            x = i + 1 /\ y = j + 1 /\ Tail(todo)[i] = todo[x] /\ Tail(todo)[j] = todo[y]
      BY <2>2, Zenon
    <3>2. x = y
      BY <2>4, <2>5, <3>1, Zenon
    <3> QED
      BY <3>1, <3>2
  <2>6. \A i \in 1..Len(Tail(todo)) : Tail(todo)[i].msg # m
    BY <2>2, <2>4, Zenon
  <2>7. \A i \in 1..Len(Tail(todo)), j \in 1..Len(redo) : Tail(todo)[i].msg # redo[j]
    BY <2>2, <2>4
  <2>8. CASE boot'.redo = redo
    <3> DEFINE rest == Tail(todo)
    <3>1. /\ Elems(rest) \subseteq pendingDB /\ Elems(redo) \subseteq MsgsOf(pendingDB)
          /\ \A i, j \in 1..Len(rest) : rest[i].msg = rest[j].msg => i = j
          /\ \A i, j \in 1..Len(redo) : redo[i] = redo[j] => i = j
          /\ \A i \in 1..Len(rest), j \in 1..Len(redo) : rest[i].msg # redo[j]
      BY <2>3, <2>4, <2>5, <2>7, Zenon
    <3>2. boot'.todo = rest /\ boot'.redo = redo /\ pendingDB' = pendingDB
      BY <2>1, <2>8, Zenon
    <3> HIDE DEF rest
    <3>3. LoadInv'
      BY ONLY <3>1, <3>2 DEF LoadInv
    <3> QED
      BY <1>0, <2>1, <3>3, LoadFrame, Zenon DEF Loading
  <2>9. CASE boot'.redo = Append(redo, m)
    <3> DEFINE r == Append(redo, m)
    <3>1. /\ Len(redo) \in Nat /\ Len(r) = Len(redo) + 1 /\ r[Len(redo) + 1] = m
          /\ \A i \in 1..Len(redo) : r[i] = redo[i]
      BY <2>3, <2>4, AppendFacts
    <3> HIDE DEF r
    <3>2. \A i \in 1..Len(r) : i \in 1..Len(redo) \/ i = Len(redo) + 1
      BY <3>1
    <3>3. \A j \in 1..Len(redo) : redo[j] # m
      BY <2>2, <2>4, Zenon
    <3>4. Elems(r) \subseteq MsgsOf(pendingDB)
      BY <2>3, <2>4, <3>1, <3>2 DEF Elems
    <3>5. \A i, j \in 1..Len(r) : r[i] = r[j] => i = j
      BY <2>4, <3>1, <3>2, <3>3
    <3>6. \A i \in 1..Len(Tail(todo)), j \in 1..Len(r) : Tail(todo)[i].msg # r[j]
      BY <2>6, <2>7, <3>1, <3>2, Zenon
    <3>7. LoadInv'
      BY <2>1, <2>3, <2>5, <2>9, <3>4, <3>5, <3>6, Zenon DEF LoadInv, r
    <3> QED
      BY <1>0, <2>1, <3>7, LoadFrame, Zenon DEF Loading
  <2> QED
    BY <2>1, <2>8, <2>9, Zenon
<1>5. ASSUME BootTimeout PROVE PlaceInv'
  <2> DEFINE redo == boot.redo
             rest == MsgSeq(boot.todo)
             r == redo \o rest
  <2>1. /\ Loading /\ boot'.todo = <<>> /\ boot'.redo = r
        /\ UNCHANGED <<mempool, blocks, processedDB, pendingDB, up, local, phase, cur, feed, accepted>>
    BY <1>5, Zenon DEF BootTimeout
  <2>2. /\ redo \in Seq(Saved) /\ rest \in Seq(Saved) /\ Elems(rest) = MsgsOf(Elems(boot.todo))
    BY <1>3, <2>1, MsgSeqType, Zenon
  <2>3. Elems(r) \subseteq MsgsOf(pendingDB)
    <3>1. Elems(r) = Elems(redo) \cup Elems(rest)
      BY <2>2, ElemsConcat
    <3> QED
      BY <1>3, <2>1, <2>2, <3>1, Zenon DEF MsgsOf
  <2>4. Len(rest) = Len(boot.todo) /\ \A i \in 1..Len(rest) : rest[i] = boot.todo[i].msg
    <3>1. Len(boot.todo) \in Nat
      BY <1>3, <2>1
    <3> QED
      BY <3>1, MsgSeqItems, Zenon
  <2>5. /\ \A i, j \in 1..Len(redo) : redo[i] = redo[j] => i = j
        /\ \A i, j \in 1..Len(rest) : rest[i] = rest[j] => i = j
        /\ \A i \in 1..Len(rest), j \in 1..Len(redo) : rest[i] # redo[j]
    BY <1>3, <2>1, <2>4
  <2> HIDE DEF redo, rest
  <2>6. /\ Len(redo) \in Nat /\ Len(rest) \in Nat /\ Len(r) = Len(redo) + Len(rest)
        /\ \A i \in 1..Len(r) : r[i] = IF i <= Len(redo) THEN redo[i] ELSE rest[i - Len(redo)]
    BY <2>2, ConcatFacts
  <2> HIDE DEF r
  <2>7. \A k \in 1..Len(r) :
          \/ k \in 1..Len(redo) /\ r[k] = redo[k]
          \/ k > Len(redo) /\ k - Len(redo) \in 1..Len(rest) /\ r[k] = rest[k - Len(redo)]
    BY <2>6
  <2>8. ASSUME NEW i \in 1..Len(r), NEW j \in 1..Len(r), r[i] = r[j] PROVE i = j
    <3>1. CASE i \in 1..Len(redo) /\ j \in 1..Len(redo)
      BY <2>5, <2>6, <2>7, <2>8, <3>1
    <3>2. CASE ~(i \in 1..Len(redo)) /\ ~(j \in 1..Len(redo))
      <4>1. PICK x, y \in 1..Len(rest) :
              x = i - Len(redo) /\ y = j - Len(redo) /\ rest[x] = rest[y]
        BY <2>7, <2>8, <3>2
      <4>2. x = y
        BY <2>5, <4>1, Zenon
      <4> QED
        BY <2>6, <4>1, <4>2
    <3>3. CASE i \in 1..Len(redo) /\ ~(j \in 1..Len(redo))
      BY <2>5, <2>6, <2>7, <2>8, <3>3
    <3>4. CASE ~(i \in 1..Len(redo)) /\ j \in 1..Len(redo)
      BY <2>5, <2>6, <2>7, <2>8, <3>4
    <3> QED
      BY <3>1, <3>2, <3>3, <3>4, Zenon
  <2>9. LoadInv'
    <3>1. Elems(boot'.todo) = {} /\ 1..Len(boot'.todo) = {}
      BY <2>1 DEF Elems
    <3> QED
      BY <2>1, <2>3, <2>8, <3>1, Zenon DEF LoadInv
  <2> QED
    BY <1>0, <2>1, <2>9, LoadFrame, Zenon DEF Loading
<1>6. ASSUME NEW upto \in [Accounts -> Ends], BootRetry(upto) PROVE PlaceInv'
  <2>1. /\ Loading /\ mempool' \subseteq mempool \cup Elems(boot.todo)
        /\ UNCHANGED <<blocks, processedDB, pendingDB, accepted>>
        /\ \/ Stop
           \/ /\ boot' = [boot EXCEPT !.retry = @ + 1]
              /\ UNCHANGED <<up, local, phase, cur, feed>>
    BY <1>6, Zenon DEF BootRetry
  <2>2. \A t \in mempool' : t.msg \in accepted
    BY <1>0, <1>3, <2>1, Zenon DEF PlaceInv, AcceptInv
  <2>3. CASE Stop
    BY <1>0, <2>1, <2>2, <2>3, StopPlace, Zenon
  <2>4. CASE boot' = [boot EXCEPT !.retry = @ + 1] /\ UNCHANGED <<up, local, phase, cur, feed>>
    <3>1. boot'.todo = boot.todo /\ boot'.redo = boot.redo
      BY <1>0, <2>4, Zenon DEF TypeOK
    <3>2. LoadInv'
      BY <2>1, <2>4, <3>1 DEF PlaceInv, LoadInv
    <3> QED
      BY <2>1, <2>2, <2>4, <3>2, LoadFrame, Zenon DEF Loading
  <2> QED
    BY <2>1, <2>3, <2>4, Zenon
<1> QED
  BY <1>0, <1>1, <1>2, <1>4, <1>5, <1>6, FinishPlace, Zenon DEF BootNext

(* Nothing is anywhere at the start.                                       *)
LEMMA InitPlace == Init => PlaceInv
<1> SUFFICES ASSUME Init PROVE PlaceInv
  BY Zenon
<1>1. /\ processedDB = {} /\ pendingDB = {} /\ mempool = {} /\ blocks = {}
      /\ up = "run" /\ local = <<>> /\ phase = "idle"
      /\ \A f \in Feeders : feed[f] = <<>> /\ 1..Len(feed[f]) = {}
  BY DEF Init
<1>2. Elems(local) = {} /\ 1..Len(local) = {}
  BY <1>1 DEF Elems
<1> QED
  BY <1>1, <1>2, Zenon DEF PlaceInv, FeedInv, CurInv, AcceptInv, PendInv, DownInv, LoadInv

(* Every step keeps every message in its place.                            *)
LEMMA PlacesInductive == TypeInv /\ PlaceInv /\ [Next]_vars => PlaceInv'
<1> SUFFICES ASSUME TypeInv, PlaceInv, [Next]_vars PROVE PlaceInv'
  BY Zenon
<1>1. CASE UNCHANGED vars
  <2>1. UNCHANGED <<mempool, blocks, processedDB, pendingDB, up, local, phase, cur, feed, boot, accepted>>
    BY <1>1, Zenon DEF vars, chain, db, memory, loop, handover
  <2>2. /\ \A t \in mempool' : t.msg \in accepted
        /\ \A r \in blocks' : r.tx.msg \in accepted
    BY <2>1, Zenon DEF PlaceInv, AcceptInv
  <2> QED
    BY <2>1, <2>2, PlaceFrame, Zenon
<1> QED
  BY <1>1, ChainPlace, FeedPlace, LoopPlace, CheckerPlace, BootPlace, Zenon DEF Next

(* The type invariant and the places hold in every reachable state.        *)
THEOREM MessagesInPlace == Spec => [](TypeInv /\ PlaceInv)
<1>1. Init => TypeInv /\ PlaceInv
  BY InitTypeInv, InitPlace, Zenon
<1>2. TypeInv /\ [Next]_vars => TypeInv'
  <2>1. TypeInv /\ UNCHANGED vars => TypeInv'
    BY Zenon DEF TypeInv, TypeOK, vars, chain, db, memory, loop, handover, checkerVars
  <2> QED
    BY <2>1, ChainTypeInv, FeedTypeInv, LoopTypeInv, CheckerTypeInv, BootTypeInv, Zenon DEF Next
<1> QED
  BY <1>1, <1>2, PlacesInductive, PTL DEF Spec

(* While the bot runs, the pending transactions in the database are the    *)
(* saved ones in memory and no message is recorded both as unsent and as   *)
(* pending: CommitPending, RemovePendingTx and RebuildPendingTxs keep the  *)
(* two in step, with any accounts and any faults, failed transactions and  *)
(* failed commits included.                                                *)
THEOREM DatabaseMatchesMemory == Spec => []DBMatchesMemory
<1>1. TypeInv /\ PlaceInv => DBMatchesMemory
  BY Zenon DEF PlaceInv, PendInv, DBMatchesMemory, MsgsOf
<1> QED
  BY <1>1, MessagesInPlace, PTL

-----------------------------------------------------------------------------
(* The broadcaster implements the outbox: every step accepts messages,     *)
(* delivers one, forgets delivered ones, or changes neither the messages   *)
(* the database holds nor those the chain executed.                        *)
(*                                                                         *)
(* That a step never forgets too much is NoSavedMsgLost after the step;    *)
(* that nothing else comes back is where PlaceInv puts the messages.       *)

Held == processedDB \cup MsgsOf(pendingDB)

Implemented == [Promise!Next]_(Promise!vars)

(* What the database holds was accepted with Save = true.                  *)
LEMMA HeldAccepted ==
  ASSUME TypeOK, PlaceInv
  PROVE  Held \subseteq accepted \cap Saved
<1>1. \A t \in pendingDB : t.msg \in Saved
  BY Zenon DEF TypeOK, SavedTx
<1> QED
  BY <1>1, Zenon DEF Held, MsgsOf, TypeOK, PlaceInv, AcceptInv

(* A step that only removes from the database forgets delivered messages.  *)
LEMMA Shrinks ==
  ASSUME TypeOK, PlaceInv, NoSavedMsgLost', UNCHANGED <<blocks, accepted>>,
         Held' \subseteq Held
  PROVE  Implemented
<1> DEFINE S == Held \ Held'
<1>1. Executed' = Executed
  BY ExecutedSame, Zenon
<1>2. S \subseteq Executed \cap Saved
  BY <1>1, HeldAccepted, Zenon DEF NoSavedMsgLost, Held
<1>3. S \in SUBSET Saved /\ Held' = Held \ S
  BY <1>2, Zenon
<1> HIDE DEF S
<1>4. Promise!Forget(S)
  BY <1>1, <1>2, <1>3, Zenon DEF Promise!Forget, Held
<1> QED
  BY <1>3, <1>4, Zenon DEF Implemented, Promise!Next

(* A block delivers the message of the transaction it executes: the        *)
(* database still holds it.                                                *)
LEMMA ChainImplements ==
  ASSUME TypeOK, PlaceInv, NoSavedMsgLost, ChainNext
  PROVE  Implemented
<1> USE DEF db, memory
<1>1. UNCHANGED <<processedDB, pendingDB, accepted>> /\ Held' = Held
  BY Zenon DEF ChainNext, Include, EmptyBlock, IndexTx, Evict, Held, MsgsOf
<1>2. ASSUME Executed' \cap Saved = Executed \cap Saved PROVE Implemented
  BY <1>1, <1>2, Zenon DEF Implemented, Promise!vars, Held
<1>3. ASSUME NEW t \in mempool, NEW code \in Codes, Include(t, code) PROVE Implemented
  <2>1. blocks' = blocks \cup {[tx |-> t, code |-> code]} /\ (code = "ignored" <=> t.msg \in Executed)
    BY <1>3, Zenon DEF Include
  <2>2. Executed' = Executed \cup (IF code = "ok" THEN {t.msg} ELSE {})
    <3> DEFINE r == [tx |-> t, code |-> code]
    <3>1. r.tx.msg = t.msg /\ r.code = code
      BY Zenon
    <3>2. blocks' = blocks \cup {r}
      BY <2>1, Zenon
    <3> HIDE DEF r
    <3>3. ASSUME NEW m PROVE m \in Executed' <=> m \in Executed \/ (code = "ok" /\ m = t.msg)
      BY <3>1, <3>2, Zenon DEF Executed
    <3> QED
      BY <3>3, Zenon
  <2>3. CASE code # "ok" \/ t.msg \notin Saved
    BY <1>2, <2>2, <2>3, Zenon
  <2>4. CASE code = "ok" /\ t.msg \in Saved
    <3>1. t.msg \in accepted /\ t.msg \notin Executed
      BY <2>1, <2>4, Zenon DEF PlaceInv, AcceptInv
    <3>2. t.msg \in Held
      BY <2>4, <3>1, Zenon DEF NoSavedMsgLost, Held
    <3>3. Promise!Deliver(t.msg)
      BY <1>1, <2>2, <2>4, <3>1, <3>2, Zenon DEF Promise!Deliver, Held
    <3> QED
      BY <2>4, <3>3, Zenon DEF Implemented, Promise!Next
  <2> QED
    BY <2>3, <2>4, Zenon
<1>4. ASSUME UNCHANGED blocks PROVE Implemented
  BY <1>2, <1>4, ExecutedSame, Zenon
<1> QED
  BY <1>3, <1>4, Zenon DEF ChainNext, EmptyBlock, IndexTx, Evict, chain

(* A handler accepts messages the chain has not executed.                  *)
LEMMA FeedImplements ==
  ASSUME TypeOK, PlaceInv, NoSavedMsgLost', FeedNext
  PROVE  Implemented
<1> USE DEF chain, db
<1>1. ASSUME NEW h \in Handlers, NEW ms \in Batches, CommitBlock(h, ms) PROVE Implemented
  <2> DEFINE S == Elems(ms) \cap Saved
  <2>1. /\ processedDB' = processedDB \cup S /\ UNCHANGED <<pendingDB, blocks>>
        /\ Elems(ms) \subseteq Msgs \ accepted
    BY <1>1, BatchType, ElemsType, Zenon DEF CommitBlock
  <2>2. Executed' = Executed /\ Executed \subseteq accepted
    BY <2>1, ExecutedSame, Zenon DEF Executed, PlaceInv, AcceptInv
  <2>3. Held' = Held \cup S /\ S \cap Executed = {} /\ S \in SUBSET Saved
    BY <2>1, <2>2, Zenon DEF Held, MsgsOf
  <2> HIDE DEF S
  <2>4. Promise!Accept(S)
    BY <2>2, <2>3, Zenon DEF Promise!Accept, Held
  <2> QED
    BY <2>3, <2>4, Zenon DEF Implemented, Promise!Next
<1>2. ASSUME NEW f \in Feeders, Lock(f) \/ Send(f) PROVE Implemented
  <2>1. UNCHANGED <<blocks, accepted>> /\ Held' \subseteq Held
    BY <1>2, Zenon DEF Lock, Send, Held, MsgsOf
  <2> QED
    BY <2>1, Shrinks, Zenon
<1> QED
  BY <1>1, <1>2, Zenon DEF FeedNext

(* The loop turns an unsent message into a pending one, or drops it.       *)
LEMMA LoopImplements ==
  ASSUME TypeOK, PlaceInv, NoSavedMsgLost', LoopNext
  PROVE  Implemented
<1> USE DEF chain, db
<1>1. UNCHANGED <<blocks, accepted>>
  BY Zenon DEF LoopNext, Broadcast, BroadcastAckLost, SequenceMismatch, IgnoredError,
         CommitPending, CommitFails, CheckTx
<1>2. ASSUME ~CommitPending PROVE Held' \subseteq Held
  <2>1. processedDB' \subseteq processedDB /\ UNCHANGED pendingDB
    BY <1>2, Zenon DEF LoopNext, Broadcast, BroadcastAckLost, SequenceMismatch, IgnoredError, CommitFails
  <2> QED
    BY <2>1, Zenon DEF Held, MsgsOf
<1>3. ASSUME CommitPending PROVE Held' \subseteq Held
  <2>1. /\ phase # "idle" /\ processedDB' = processedDB \ {cur}
        /\ pendingDB' = pendingDB \cup {t \in {Built(cur)} : t.msg \in Saved}
    BY <1>3, Zenon DEF CommitPending
  <2>2. Built(cur).msg = cur /\ (cur \in Saved => cur \in processedDB)
    BY <2>1, BuiltType, Zenon DEF PlaceInv, CurInv
  <2> QED
    BY <2>1, <2>2, Zenon DEF Held, MsgsOf
<1> QED
  BY <1>1, <1>2, <1>3, Shrinks, Zenon

(* The checker forgets; a rebuilt transaction has the old message.         *)
LEMMA CheckerImplements ==
  ASSUME TypeOK, PlaceInv, NoSavedMsgLost', CheckerNext
  PROVE  Implemented
<1> USE DEF chain, db
<1>1. UNCHANGED <<blocks, accepted, processedDB>>
  BY Zenon DEF CheckerNext, CheckLater, CheckDiscards, CheckFound, CheckPanics, CheckNotFound,
         RebuildPendingTxs, Rebroadcast, RemovePendingTxsUntil, CheckTx
<1>2. ASSUME ~RebuildPendingTxs PROVE Held' \subseteq Held
  <2>1. pendingDB' \subseteq pendingDB
    BY <1>2, Zenon DEF CheckerNext, CheckLater, CheckDiscards, CheckFound, CheckPanics, CheckNotFound,
                Rebroadcast, RemovePendingTxsUntil, DropPending
  <2> QED
    BY <1>1, <2>1, Zenon DEF Held, MsgsOf
<1>3. ASSUME RebuildPendingTxs PROVE Held' \subseteq Held
  <2>1. CASE UNCHANGED <<local, pendingDB>>
    BY <1>1, <2>1, Zenon DEF Held, MsgsOf
  <2>2. CASE /\ local' = [i \in 1..Len(local) |-> Rebuilt(local[i])]
             /\ pendingDB' = {t \in pendingDB : t.msg \notin MsgsOf(Elems(local))}
                               \cup {t \in Elems(local') : t.msg \in Saved}
    <3>1. pendingDB = {t \in Elems(local) : t.msg \in Saved} /\ Len(local) \in Nat
      BY <1>3 DEF RebuildPendingTxs, PlaceInv, PendInv, TypeOK
    <3>2. \A i \in 1..Len(local) : Rebuilt(local[i]).msg = local[i].msg
      BY Zenon DEF Rebuilt
    <3>3. \A i \in 1..Len(local') : i \in 1..Len(local) /\ local'[i].msg = local[i].msg
      BY <2>2, <3>1, <3>2
    <3>4. \A t \in Elems(local') : t.msg \in Saved => t.msg \in MsgsOf(pendingDB)
      BY <3>1, <3>3, Zenon DEF Elems, MsgsOf
    <3> QED
      BY <1>1, <2>2, <3>4 DEF Held, MsgsOf
  <2> QED
    BY <1>3, <2>1, <2>2, Zenon DEF RebuildPendingTxs
<1> QED
  BY <1>1, <1>2, <1>3, Shrinks, Zenon

(* A reload puts back pending messages only.                               *)
LEMMA BootImplements ==
  ASSUME TypeOK, PlaceInv, NoSavedMsgLost', BootNext
  PROVE  Implemented
<1> USE DEF chain, db
<1>1. UNCHANGED <<blocks, accepted>>
  BY Zenon DEF BootNext, Crash, Initialize, BootFound, BootTimeout, BootRetry, BootFinish
<1>2. CASE UNCHANGED <<processedDB, pendingDB>>
  BY <1>1, <1>2, Shrinks, Zenon DEF Held, MsgsOf
<1>3. ASSUME NEW unsent \in Listings(processedDB), BootFinish(unsent) PROVE Implemented
  <2>1. /\ pendingDB' = {} /\ processedDB' = processedDB \cup Elems(boot.redo) /\ up = "boot"
    BY <1>3, Zenon DEF BootFinish
  <2>2. Held' \subseteq Held
    BY <2>1, Zenon DEF PlaceInv, LoadInv, Held, MsgsOf
  <2> QED
    BY <1>1, <2>2, Shrinks, Zenon
<1> QED
  BY <1>2, <1>3, Zenon DEF BootNext, Crash, Initialize, BootFound, BootTimeout, BootRetry

(* With one signing account and no transaction failing in its block, the   *)
(* broadcaster implements the outbox: what a handler committed stays in    *)
(* the database until the chain executed it, the chain executes only what  *)
(* the database holds, and nothing that was dropped comes back.            *)
THEOREM OutboxImplemented ==
  ASSUME SingleAccount, NoFailures
  PROVE  Spec => ImplementsOutbox
<1>1. Init => Promise!Init
  BY Zenon DEF Init, Promise!Init, MsgsOf, Executed
<1>2. /\ IInv /\ IInv' /\ TypeInv /\ PlaceInv /\ [Next]_vars
      => [Promise!Next]_(Promise!vars)
  <2> SUFFICES ASSUME TypeOK, PlaceInv, NoSavedMsgLost, NoSavedMsgLost', [Next]_vars
               PROVE  Implemented
    BY Zenon DEF IInv, LossInv, TypeInv, Implemented
  <2>1. CASE UNCHANGED vars
    <3>1. UNCHANGED <<blocks, accepted>> /\ Held' \subseteq Held
      BY <2>1, Zenon DEF vars, chain, db, Held, MsgsOf
    <3> QED
      BY <3>1, Shrinks, Zenon
  <2> QED
    BY Zenon, <2>1, ChainImplements, FeedImplements, LoopImplements, CheckerImplements,
       BootImplements DEF Next
<1> QED
  BY <1>1, <1>2, InductiveInvariant, MessagesInPlace, PTL
     DEF Spec, ImplementsOutbox, Promise!Spec
=============================================================================
