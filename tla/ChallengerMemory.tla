-------------------------- MODULE ChallengerMemory --------------------------
(***************************************************************************)
(* The marks, the memory and the types of the challenger, for any number   *)
(* of stops, resets and failing commits.                                   *)
(*                                                                         *)
(* First, an event that the child's database marks as timed out has a      *)
(* challenge.                                                              *)
(*                                                                         *)
(* Second, the pending events in memory are those in the database.  Each   *)
(* loop commits first and updates the memory in a later step, and both     *)
(* work on the child's events.  Between the two steps the database is      *)
(* ahead by the new events of the host's block and without the settled     *)
(* events of the child's block, and these are never the same: the settled  *)
(* ones were in memory when the child staged its block.                    *)
(*                                                                         *)
(* Third, the types, where the challenges come from, and the marks in      *)
(* memory.                                                                 *)
(***************************************************************************)
EXTENDS Challenger, TLAPS

Ids(S) == {c.id : c \in S}

(* The mark is committed with the challenge.  Only a start can delete a    *)
(* challenge, and only while a loop has no synced height: the child waits  *)
(* for an output, so it is then the child that has none, and nothing in    *)
(* its database is marked.                                                 *)
TimeoutInv ==
  /\ hostSynced \in Nat /\ childSynced \in Nat
  /\ \A id \in DOMAIN childPending :
       childPending[id].timeout => id \in Challenged /\ childSynced > 0
  /\ childSynced > 0 => hostSynced > 0
  /\ \A id \in DOMAIN hostWork.queue : ~hostWork.queue[id].timeout
  /\ childPC = "staged" =>
       up = "run" /\ hostSynced > 0 /\ DOMAIN childWork.late \subseteq Ids(childWork.out)

(* The keys and values of a merged map.                                    *)
LEMMA MergeFacts ==
  ASSUME NEW f, NEW g
  PROVE  /\ DOMAIN Merge(f, g) = DOMAIN f \cup DOMAIN g
         /\ \A x \in DOMAIN g : Merge(f, g)[x] = g[x]
         /\ \A x \in DOMAIN f \ DOMAIN g : Merge(f, g)[x] = f[x]
BY Zenon DEF Merge

(* The keys and values of a map after a deletion.                          *)
LEMMA WithoutFacts ==
  ASSUME NEW f, NEW S
  PROVE  /\ DOMAIN Without(f, S) = DOMAIN f \ S
         /\ \A x \in DOMAIN f \ S : Without(f, S)[x] = f[x]
BY Zenon DEF Without, Restrict

(* Committing challenges adds a pending one for each of their events.      *)
LEMMA SavedIds ==
  ASSUME NEW f, NEW out
  PROVE  DOMAIN SavePendingChallenges(f, out) = DOMAIN f \cup Ids(out)
BY MergeFacts, Zenon DEF SavePendingChallenges, Ids

(* What the host stages: what is late is in memory, past due and followed  *)
(* by no output of the block.                                              *)
LEMMA HostStaged ==
  ASSUME HostStage
  PROVE  LET b == L1[hostSynced + 1]
             queue == HostEvents(b)
             outputs == {id \in DOMAIN queue : id[1] = "Output"}
             prev == PrevPendingEvent(hostMem, outputs)
         IN  \E late \in SUBSET (DOMAIN hostMem \ prev) :
               /\ \A id \in late : PastDue(hostMem[id], b.time)
               /\ hostWork' = [queue |-> queue,
                               last |-> {o \in outputs : \A p \in outputs : p[2] <= o[2]},
                               done |-> late \cup prev, out |-> Timeouts(late, b.time)]
               /\ hostMem' = Flag(hostMem, late)
               /\ childMem' = Flag(childMem, late \cap shared)
<1> DEFINE b == L1[hostSynced + 1]
           queue == HostEvents(b)
           outputs == {id \in DOMAIN queue : id[1] = "Output"}
           prev == PrevPendingEvent(hostMem, outputs)
           racing == IF childPC = "staged" THEN shared \cap DOMAIN childWork.late ELSE {}
           work(late) ==
             [queue |-> queue, last |-> {o \in outputs : \A p \in outputs : p[2] <= o[2]},
              done |-> late \cup prev, out |-> Timeouts(late, b.time)]
<1>1. \E late \in CheckTimeout(hostMem, prev, b.time, racing) :
        /\ hostWork' = work(late)
        /\ hostMem' = Flag(hostMem, late)
        /\ childMem' = Flag(childMem, late \cap shared)
  BY ZenonT(60) DEF HostStage
<1>2. PICK late \in CheckTimeout(hostMem, prev, b.time, racing) :
        /\ hostWork' = work(late)
        /\ hostMem' = Flag(hostMem, late)
        /\ childMem' = Flag(childMem, late \cap shared)
  BY <1>1, Zenon
<1>3. late \in SUBSET (DOMAIN hostMem \ prev) /\ \A id \in late : PastDue(hostMem[id], b.time)
  BY <1>2, Zenon DEF CheckTimeout, Unprocessed
<1> QED
  BY <1>2, <1>3, Zenon

(* What the child stages: an output it knows decides about the tree, and   *)
(* what is late is past due and not settled.                               *)
LEMMA ChildStaged ==
  ASSUME ChildStage
  PROVE  \E o \in Outputs(treeIndex, HostHeight) :
           LET n == childSynced + 1
               check == CheckValue(childMem, ChildEvents(n, treeIndex, o[1]))
           IN  /\ o[1] >= n /\ check.ok
               /\ \E late \in SUBSET Unprocessed(childMem, check.done) :
                    /\ \A id \in late : PastDue(childMem[id], L2[n].time)
                    /\ childWork' = [done |-> check.done,
                                     late |-> Restrict(Flag(childMem, late), late),
                                     out |-> Timeouts(late, L2[n].time) \cup
                                       {Challenge(id, L2[n].time, "mismatch") : id \in check.wrong},
                                     tree |-> IF o[1] = n THEN treeIndex + 1 ELSE treeIndex]
                    /\ childMem' = Flag(childMem, late)
                    /\ hostMem' = Flag(hostMem, late \cap shared)
<1> DEFINE n == childSynced + 1
           time == L2[n].time
           check(o) == CheckValue(childMem, ChildEvents(n, treeIndex, o[1]))
           racing == IF hostPC = "staged" THEN shared \cap hostWork.done ELSE {}
           work(o, late) ==
             [done |-> check(o).done, late |-> Restrict(Flag(childMem, late), late),
              out |-> Timeouts(late, time) \cup
                        {Challenge(id, time, "mismatch") : id \in check(o).wrong},
              tree |-> IF o[1] = n THEN treeIndex + 1 ELSE treeIndex]
<1>1. \E o \in Outputs(treeIndex, HostHeight) :
        /\ o[1] >= n /\ check(o).ok
        /\ \E late \in CheckTimeout(childMem, check(o).done, time, racing) :
             /\ childWork' = work(o, late)
             /\ childMem' = Flag(childMem, late)
             /\ hostMem' = Flag(hostMem, late \cap shared)
  BY ZenonT(60) DEF ChildStage
<1>2. PICK o \in Outputs(treeIndex, HostHeight) :
        /\ o[1] >= n /\ check(o).ok
        /\ \E late \in CheckTimeout(childMem, check(o).done, time, racing) :
             /\ childWork' = work(o, late)
             /\ childMem' = Flag(childMem, late)
             /\ hostMem' = Flag(hostMem, late \cap shared)
  BY <1>1, Zenon
<1>3. PICK late \in CheckTimeout(childMem, check(o).done, time, racing) :
             /\ childWork' = work(o, late)
             /\ childMem' = Flag(childMem, late)
             /\ hostMem' = Flag(hostMem, late \cap shared)
  BY <1>2, Zenon
<1>4. /\ late \in SUBSET Unprocessed(childMem, check(o).done)
      /\ \A id \in late : PastDue(childMem[id], time)
  BY <1>3, Zenon DEF CheckTimeout
<1> QED
  BY <1>2, <1>3, <1>4, Zenon

(* A step that leaves the database and the work of the blocks alone.       *)
LEMMA TimeoutFrame ==
  ASSUME TimeoutInv,
         UNCHANGED <<hostSynced, childSynced, childPending, pendingChallenges, challenges>>,
         hostWork'.queue = hostWork.queue,
         childPC' = "staged" => childPC = "staged" /\ UNCHANGED <<up, childWork>>
  PROVE  TimeoutInv'
BY Zenon DEF TimeoutInv, Challenged, Ids

(* Nothing is marked at the start.                                         *)
LEMMA InitTimeout == Init => TimeoutInv
BY DEF Init, TimeoutInv, Empty, HostNoWork

(* The steps of the host.  What a block adds is not marked.                *)
LEMMA HostTimeout ==
  ASSUME TimeoutInv,
         HostStage \/ HostCommit \/ HostCommitFails \/ HostUpdate \/ HostSends \/ HostDone
  PROVE  TimeoutInv'
<1> USE DEF db, synced, pending, stored, process, child
<1>1. ASSUME HostStage PROVE TimeoutInv'
  <2> DEFINE queue == HostEvents(L1[hostSynced + 1])
  <2>1. UNCHANGED <<db, up, child>>
    BY <1>1, Zenon DEF HostStage
  <2>2. \E last, done, out :
          hostWork' = [queue |-> queue, last |-> last, done |-> done, out |-> out]
    BY <1>1, HostStaged, ZenonT(60)
  <2>3. \A id \in DOMAIN queue : ~queue[id].timeout
    BY Zenon DEF HostEvents
  <2> HIDE DEF queue
  <2>4. hostWork'.queue = queue
    BY <2>2
  <2> QED
    BY <2>1, <2>3, <2>4, Zenon DEF TimeoutInv, Challenged
<1>2. ASSUME HostCommit PROVE TimeoutInv'
  <2>1. /\ hostSynced' = hostSynced + 1 /\ childPending' = Merge(childPending, hostWork.queue)
        /\ pendingChallenges' = SavePendingChallenges(pendingChallenges, hostWork.out)
        /\ UNCHANGED <<childSynced, challenges, up, hostWork, child>>
    BY <1>2, Zenon DEF HostCommit
  <2>2. Challenged \subseteq Challenged'
    <3>1. DOMAIN pendingChallenges' = DOMAIN pendingChallenges \cup Ids(hostWork.out)
      BY <2>1, SavedIds, Zenon
    <3> QED
      BY <2>1, <3>1, Zenon DEF Challenged
  <2>3. ASSUME NEW id \in DOMAIN childPending', childPending'[id].timeout
        PROVE  id \in DOMAIN childPending /\ childPending[id].timeout
    <3> DEFINE q == hostWork.queue
    <3>1. /\ DOMAIN childPending' = DOMAIN childPending \cup DOMAIN q
          /\ \A x \in DOMAIN q : childPending'[x] = q[x]
          /\ \A x \in DOMAIN childPending \ DOMAIN q : childPending'[x] = childPending[x]
      BY <2>1, Zenon DEF Merge
    <3>2. id \notin DOMAIN q
      BY <2>3, <3>1, Zenon DEF TimeoutInv
    <3> QED
      BY <2>3, <3>1, <3>2, Zenon
  <2> QED
    BY <2>1, <2>2, <2>3 DEF TimeoutInv
<1>3. ASSUME HostCommitFails \/ HostDone PROVE TimeoutInv'
  <2>1. hostWork'.queue = Empty /\ UNCHANGED <<db, up, child>>
    BY <1>3 DEF HostCommitFails, HostDone, HostNoWork
  <2> QED
    BY <2>1, Zenon DEF TimeoutInv, Challenged, Empty
<1>4. ASSUME HostUpdate PROVE TimeoutInv'
  BY <1>4, TimeoutFrame, Zenon DEF HostUpdate
<1>5. ASSUME NEW c, HostSend(c) PROVE TimeoutInv'
  <2>1. hostWork' = [hostWork EXCEPT !.out = hostWork.out \ {c}] /\ UNCHANGED <<db, up, child>>
    BY <1>5, Zenon DEF HostSend
  <2>2. hostWork'.queue = hostWork.queue
    BY <2>1
  <2> QED
    BY <2>1, <2>2, TimeoutFrame, Zenon
<1> QED
  BY <1>1, <1>2, <1>3, <1>4, <1>5, Zenon DEF HostSends

(* The steps of the child.  It marks only with an output at hand, and      *)
(* raises a challenge for everything it marks.                             *)
LEMMA ChildTimeout ==
  ASSUME TimeoutInv,
         ChildStage \/ ChildCommit \/ ChildCommitFails \/ ChildUpdate \/ ChildSends \/ ChildDone
  PROVE  TimeoutInv'
<1> USE DEF db, synced, pending, stored, process, host
<1>1. ASSUME ChildStage PROVE TimeoutInv'
  <2> DEFINE time == L2[childSynced + 1].time
  <2>1. UNCHANGED <<db, up, host>> /\ up = "run"
    BY <1>1, Zenon DEF ChildStage
  <2> DEFINE work(o, late, wrong, tree) ==
        [done |-> CheckValue(childMem, ChildEvents(childSynced + 1, treeIndex, o[1])).done,
         late |-> Restrict(Flag(childMem, late), late),
         out |-> Timeouts(late, time) \cup
                   {Challenge(id, time, "mismatch") : id \in wrong},
         tree |-> tree]
  <2>2. PICK o \in Outputs(treeIndex, HostHeight) :
          \E late, wrong, tree : childWork' = work(o, late, wrong, tree)
    BY <1>1, ChildStaged, ZenonT(60)
  <2>3. PICK late, wrong, tree : childWork' = work(o, late, wrong, tree)
    BY <2>2, Zenon
  <2>4. hostSynced > 0
    <3>1. PICK k \in 1..HostHeight : TRUE
      BY <2>2, Zenon DEF Outputs
    <3> QED
      BY <3>1 DEF HostHeight, TimeoutInv
  <2>5. DOMAIN childWork'.late \subseteq Ids(childWork'.out)
    <3>1. DOMAIN childWork'.late = late
      BY <2>3, Zenon DEF Restrict
    <3>2. \A id \in late : Challenge(id, time, "timeout") \in childWork'.out
      BY <2>3, Zenon DEF Timeouts
    <3>3. \A id \in late : Challenge(id, time, "timeout").id = id
      BY Zenon DEF Challenge
    <3> QED
      BY <3>1, <3>2, <3>3, Zenon DEF Ids
  <2> QED
    BY <2>1, <2>4, <2>5, Zenon DEF TimeoutInv, Challenged
<1>2. ASSUME ChildCommit PROVE TimeoutInv'
  <2>1. /\ childPC = "staged" /\ childPC' = "committed" /\ childSynced' = childSynced + 1
        /\ childPending' = Without(Merge(childPending, childWork.late), childWork.done)
        /\ pendingChallenges' = SavePendingChallenges(pendingChallenges, childWork.out)
        /\ UNCHANGED <<hostSynced, challenges, hostWork>>
    BY <1>2, Zenon DEF ChildCommit
  <2>2. Challenged' = Challenged \cup Ids(childWork.out)
    <3>1. DOMAIN pendingChallenges' = DOMAIN pendingChallenges \cup Ids(childWork.out)
      BY <2>1, SavedIds, Zenon
    <3> QED
      BY <2>1, <3>1, Zenon DEF Challenged
  <2>3. ASSUME NEW id \in DOMAIN childPending', childPending'[id].timeout
        PROVE  id \in Challenged'
    <3> DEFINE late == childWork.late
               m == Merge(childPending, late)
    <3>0. /\ DOMAIN m = DOMAIN childPending \cup DOMAIN late
          /\ \A x \in DOMAIN childPending \ DOMAIN late : m[x] = childPending[x]
      BY MergeFacts, Zenon
    <3> HIDE DEF m
    <3>1. id \in DOMAIN m /\ childPending'[id] = m[id]
      BY <2>1, Zenon DEF Without, Restrict, m
    <3>2. CASE id \in DOMAIN late
      BY <2>1, <2>2, <3>2, Zenon DEF TimeoutInv
    <3>3. CASE id \notin DOMAIN late
      BY <2>2, <2>3, <3>0, <3>1, <3>3, Zenon DEF TimeoutInv
    <3> QED
      BY <3>2, <3>3, Zenon
  <2> QED
    BY <2>1, <2>3 DEF TimeoutInv
<1>3. ASSUME ChildCommitFails \/ ChildDone \/ ChildUpdate PROVE TimeoutInv'
  <2>1. childPC' # "staged" /\ UNCHANGED <<db, host>>
    BY <1>3, Zenon DEF ChildCommitFails, ChildDone, ChildUpdate
  <2> QED
    BY <2>1, TimeoutFrame, Zenon
<1>4. ASSUME NEW c, ChildSend(c) PROVE TimeoutInv'
  <2>1. childPC' # "staged" /\ UNCHANGED <<db, host>>
    BY <1>4, Zenon DEF ChildSend
  <2> QED
    BY <2>1, TimeoutFrame, Zenon
<1> QED
  BY <1>1, <1>2, <1>3, <1>4, Zenon DEF ChildSends

(* The handler records under the id it takes from the pending ones.  A     *)
(* start deletes only when nothing is marked.                              *)
LEMMA ProcessTimeout ==
  ASSUME TimeoutInv, SendsLoaded \/ HandleChallenge \/ Start \/ Crash \/ ResetHeights
  PROVE  TimeoutInv'
<1> USE DEF db, synced, pending, stored, process, host, child
<1>1. ASSUME SendsLoaded PROVE TimeoutInv'
  BY <1>1, TimeoutFrame, Zenon DEF SendsLoaded, SendLoaded
<1>2. ASSUME HandleChallenge PROVE TimeoutInv'
  <2>1. /\ pendingChallenges' = Without(pendingChallenges, {handling.id})
        /\ challenges' = {c \in challenges : <<c.time, c.id>> # <<handling.time, handling.id>>}
                           \cup {handling}
        /\ UNCHANGED <<synced, pending, up, host, child>>
    BY <1>2, Zenon DEF HandleChallenge
  <2>2. DOMAIN pendingChallenges' = DOMAIN pendingChallenges \ {handling.id}
    BY <2>1, WithoutFacts, Zenon
  <2>3. \A c \in challenges : c.id # handling.id => c \in challenges'
    BY <2>1, Zenon
  <2>4. handling \in challenges'
    BY <2>1, Zenon
  <2>5. Challenged \subseteq Challenged'
    BY <2>2, <2>3, <2>4, Zenon DEF Challenged
  <2> QED
    BY <2>1, <2>5, Zenon DEF TimeoutInv
<1>3. ASSUME Start PROVE TimeoutInv'
  <2>1. /\ challenges' = DeleteFutureChallenges /\ childPC' # "staged"
        /\ UNCHANGED <<synced, pending, pendingChallenges, host, child>>
    BY <1>3, Zenon DEF Start, TimeoutInv
  <2>2. CASE childSynced > 0
    <3>1. HostInitialTime \cup ChildInitialTime = {}
      BY <2>2 DEF HostInitialTime, ChildInitialTime, TimeoutInv
    <3>2. challenges' = challenges
      BY <2>1, <3>1, Zenon DEF DeleteFutureChallenges
    <3> QED
      BY <2>1, <3>2, TimeoutFrame, Zenon
  <2>3. CASE ~(childSynced > 0)
    BY <2>1, <2>3, Zenon DEF TimeoutInv
  <2> QED
    BY <2>2, <2>3, Zenon
<1>4. ASSUME Crash PROVE TimeoutInv'
  <2>1. hostWork'.queue = Empty /\ childPC' = "ready" /\ UNCHANGED db
    BY <1>4, Zenon DEF Crash, HostNoWork
  <2> QED
    BY <2>1, Zenon DEF TimeoutInv, Challenged, Empty
<1>5. ASSUME ResetHeights PROVE TimeoutInv'
  <2>1. /\ hostSynced' = 0 /\ childSynced' = 0 /\ childPending' = Empty
        /\ up = "down" /\ UNCHANGED <<host, child>>
    BY <1>5, Zenon DEF ResetHeights
  <2>2. childPC' # "staged"
    BY <2>1, Zenon DEF TimeoutInv
  <2> QED
    BY <2>1, <2>2, Zenon DEF TimeoutInv, Empty
<1> QED
  BY <1>1, <1>2, <1>3, <1>4, <1>5, Zenon

(* The invariant holds of every state.                                     *)
LEMMA TimeoutInvariant == Spec => []TimeoutInv
<1>1. Init => TimeoutInv
  BY InitTimeout, Zenon
<1>2. TimeoutInv /\ [Next]_vars => TimeoutInv'
  <2> SUFFICES ASSUME TimeoutInv, [Next]_vars PROVE TimeoutInv'
    BY Zenon
  <2>1. CASE UNCHANGED vars
    BY <2>1, TimeoutFrame, Zenon DEF vars, db, synced, pending, stored, process, host, child
  <2> QED
    BY <2>1, HostTimeout, ChildTimeout, ProcessTimeout, Zenon DEF Next
<1> QED
  BY <1>1, <1>2, PTL DEF Spec

(* An event marked as timed out in the database is challenged, whatever    *)
(* the chains hold and wherever the process stops, fails to commit or is   *)
(* reset.                                                                  *)
THEOREM TimeoutsChallenged == Spec => []TimeoutChallenged
<1>1. TimeoutInv => TimeoutChallenged
  BY Zenon DEF TimeoutInv, TimeoutChallenged
<1> QED
  BY <1>1, TimeoutInvariant, PTL

-----------------------------------------------------------------------------
(* The memory and the database.                                            *)

Entries(f) == \A id \in DOMAIN f : DOMAIN f[id] = {"val", "time", "timeout"}
Alike(e, g) == e.val = g.val /\ e.time = g.time

(* The map p of the database is the map m of the memory with what is ahead *)
(* of it and without what is gone, up to the marks.                        *)
Match(p, m, ahead, gone) ==
  /\ DOMAIN p = DOMAIN Merge(m, ahead) \ gone
  /\ \A id \in DOMAIN p : Alike(p[id], Merge(m, ahead)[id])

(* What the blocks add and remove, while the database has it and the       *)
(* memory does not.                                                        *)
Added == IF hostPC = "committed" THEN hostWork.queue ELSE Empty
AddedLast ==
  IF hostPC = "committed" THEN Restrict(hostWork.queue, hostWork.last) ELSE Empty
Removed == IF childPC = "committed" THEN childWork.done ELSE {}
RemovedLast == IF hostPC = "committed" THEN hostWork.done ELSE {}

(* A stopped process has no events in memory.                              *)
ShapeInv ==
  /\ chains \in Histories /\ hostSynced \in Nat
  /\ up \in {"run", "down"}
  /\ up = "down" => /\ hostPC = "ready" /\ childPC = "ready"
                    /\ hostMem = Empty /\ childMem = Empty
  /\ Entries(hostPending) /\ Entries(childPending) /\ Entries(hostMem) /\ Entries(childMem)

(* Every pending event comes from a synced block.                          *)
KnownInv ==
  /\ DOMAIN hostPending \subseteq L1Events(hostSynced)
  /\ DOMAIN childPending \subseteq L1Events(hostSynced)
  /\ DOMAIN hostMem \subseteq L1Events(hostSynced)
  /\ DOMAIN childMem \subseteq L1Events(hostSynced)

(* The host's block adds events that neither handler knows.                *)
HostInv ==
  hostPC \in {"staged", "committed"} =>
    /\ Entries(hostWork.queue) /\ hostWork.last \subseteq DOMAIN hostWork.queue
    /\ hostWork.done \subseteq DOMAIN hostMem
    /\ DOMAIN hostWork.queue \cap DOMAIN hostMem = {}
    /\ DOMAIN hostWork.queue \cap DOMAIN childMem = {}
    /\ DOMAIN hostWork.queue \subseteq
         L1Events(IF hostPC = "staged" THEN hostSynced + 1 ELSE hostSynced)

(* The child's block settles and marks events that are in memory.          *)
ChildInv ==
  childPC \in {"staged", "committed"} =>
    /\ childWork.done \subseteq DOMAIN childMem
    /\ DOMAIN childWork.late \subseteq DOMAIN childMem \ childWork.done
    /\ Entries(childWork.late)
    /\ \A id \in DOMAIN childWork.late : Alike(childWork.late[id], childMem[id])

(* Database and memory differ by what the committed blocks add and remove. *)
MatchInv ==
  up = "run" => /\ Match(childPending, childMem, Added, Removed)
                /\ Match(hostPending, hostMem, AddedLast, RemovedLast)

MemInv == ShapeInv /\ KnownInv /\ HostInv /\ ChildInv /\ MatchInv

-----------------------------------------------------------------------------
(* Lemmas on maps.                                                         *)

(* Flagging changes neither the keys nor the values.                       *)
LEMMA FlagFacts ==
  ASSUME NEW f, NEW S, Entries(f)
  PROVE  /\ DOMAIN Flag(f, S) = DOMAIN f /\ Entries(Flag(f, S))
         /\ \A id \in DOMAIN f : Alike(Flag(f, S)[id], f[id])
BY Zenon DEF Flag, Entries, Alike

(* Merging and deleting keep the shape of the entries.                     *)
LEMMA EntriesKept ==
  ASSUME NEW f, NEW g, NEW S, Entries(f)
  PROVE  /\ Entries(Without(f, S))
         /\ S \subseteq DOMAIN f => Entries(Restrict(f, S))
         /\ Entries(g) => Entries(Merge(f, g))
<1>1. Entries(Without(f, S))
  BY Zenon DEF Entries, Without, Restrict
<1>2. S \subseteq DOMAIN f => Entries(Restrict(f, S))
  BY Zenon DEF Entries, Restrict
<1>3. Entries(g) => Entries(Merge(f, g))
  BY Zenon DEF Entries, Merge
<1> QED
  BY <1>1, <1>2, <1>3, Zenon

(* A flag in memory does not count.                                        *)
LEMMA MatchFlag ==
  ASSUME NEW p, NEW m, NEW a, NEW g, NEW S, Entries(m), Match(p, m, a, g)
  PROVE  Match(p, Flag(m, S), a, g)
<1>1. DOMAIN Merge(Flag(m, S), a) = DOMAIN Merge(m, a)
  BY FlagFacts, Zenon DEF Merge
<1>2. ASSUME NEW id \in DOMAIN Merge(m, a)
      PROVE  Alike(Merge(Flag(m, S), a)[id], Merge(m, a)[id])
  <2>1. CASE id \in DOMAIN a
    BY <2>1, Zenon DEF Merge, Alike
  <2>2. CASE id \notin DOMAIN a
    <3>1. id \in DOMAIN m
      BY <2>2, Zenon DEF Merge
    <3>2. /\ Merge(Flag(m, S), a)[id] = Flag(m, S)[id]
          /\ Merge(m, a)[id] = m[id]
      BY <2>2, <3>1, FlagFacts, Zenon DEF Merge
    <3> QED
      BY <3>1, <3>2, FlagFacts, Zenon
  <2> QED
    BY <2>1, <2>2, Zenon
<1> QED
  BY <1>1, <1>2, Zenon DEF Match, Alike

(* A deletion that the memory has not made.                                *)
LEMMA MatchDrop ==
  ASSUME NEW p, NEW m, NEW a, NEW d, Match(p, m, a, {})
  PROVE  Match(Without(p, d), m, a, d)
BY Zenon DEF Match, Without, Restrict

(* New events that the memory does not have.                               *)
LEMMA MatchAdd ==
  ASSUME NEW p, NEW m, NEW q, NEW g, Match(p, m, Empty, g), DOMAIN q \cap g = {}
  PROVE  Match(Merge(p, q), m, q, g)
<1>1. DOMAIN p = DOMAIN m \ g /\ \A id \in DOMAIN p : Alike(p[id], m[id])
  BY Zenon DEF Match, Merge, Empty
<1>2. DOMAIN Merge(p, q) = DOMAIN Merge(m, q) \ g
  BY <1>1, Zenon DEF Merge
<1>3. ASSUME NEW id \in DOMAIN Merge(p, q)
      PROVE  Alike(Merge(p, q)[id], Merge(m, q)[id])
  BY <1>1, Zenon DEF Merge, Alike
<1> QED
  BY <1>2, <1>3, Zenon DEF Match

(* The memory gets the new events.                                         *)
LEMMA MatchAdded ==
  ASSUME NEW p, NEW m, NEW q, NEW g, Match(p, m, q, g)
  PROVE  Match(p, Merge(m, q), Empty, g)
<1>1. Merge(Merge(m, q), Empty) = Merge(m, q)
  BY Zenon DEF Merge, Empty
<1> QED
  BY <1>1, Zenon DEF Match

(* The memory drops what is gone and then gets the new events.             *)
LEMMA MatchMoved ==
  ASSUME NEW p, NEW m, NEW q, NEW g, Match(p, m, q, g), DOMAIN q \cap g = {}
  PROVE  Match(p, Merge(Without(m, g), q), Empty, {})
<1> DEFINE w == Without(m, g)
<1>1. DOMAIN w = DOMAIN m \ g /\ \A id \in DOMAIN w : w[id] = m[id]
  BY Zenon DEF Without, Restrict
<1> HIDE DEF w
<1>2. Merge(Merge(w, q), Empty) = Merge(w, q)
  BY Zenon DEF Merge, Empty
<1>3. DOMAIN p = DOMAIN Merge(w, q)
  BY <1>1, Zenon DEF Match, Merge
<1>4. ASSUME NEW id \in DOMAIN p PROVE Alike(p[id], Merge(w, q)[id])
  <2>1. id \in DOMAIN Merge(w, q) /\ Alike(p[id], Merge(m, q)[id])
    BY <1>3, Zenon DEF Match
  <2>2. Merge(m, q)[id] = Merge(w, q)[id]
    BY <1>1, <2>1, Zenon DEF Merge
  <2> QED
    BY <2>1, <2>2, Zenon
<1>5. Match(p, Merge(w, q), Empty, {})
  BY <1>2, <1>3, <1>4, Zenon DEF Match
<1> QED
  BY <1>5, Zenon DEF w

(* Writing marked events again changes no value.                           *)
LEMMA MatchMarked ==
  ASSUME NEW p, NEW m, NEW a, NEW l, Match(p, m, a, {}),
         DOMAIN l \subseteq DOMAIN m, DOMAIN l \cap DOMAIN a = {},
         \A id \in DOMAIN l : Alike(l[id], m[id])
  PROVE  Match(Merge(p, l), m, a, {})
<1>1. DOMAIN l \subseteq DOMAIN p
  BY Zenon DEF Match, Merge
<1>2. DOMAIN Merge(p, l) = DOMAIN Merge(m, a)
  BY <1>1, Zenon DEF Match, Merge
<1>3. ASSUME NEW id \in DOMAIN Merge(p, l)
      PROVE  Alike(Merge(p, l)[id], Merge(m, a)[id])
  <2>1. CASE id \in DOMAIN l
    BY <2>1, Zenon DEF Merge
  <2>2. CASE id \notin DOMAIN l
    <3>1. id \in DOMAIN p /\ Merge(p, l)[id] = p[id]
      BY <1>3, <2>2, Zenon DEF Merge
    <3> QED
      BY <3>1, Zenon DEF Match
  <2> QED
    BY <2>1, <2>2, Zenon
<1> QED
  BY <1>2, <1>3, Zenon DEF Match

(* The memory drops what is gone and writes the marked events again.       *)
LEMMA MatchSettled ==
  ASSUME NEW p, NEW m, NEW a, NEW l, NEW g, Match(p, m, a, g),
         DOMAIN l \subseteq DOMAIN m \ g, DOMAIN l \cap DOMAIN a = {}, DOMAIN a \cap g = {},
         \A id \in DOMAIN l : Alike(l[id], m[id])
  PROVE  Match(p, Merge(Without(m, g), l), a, {})
<1> DEFINE w == Merge(Without(m, g), l)
<1>1. DOMAIN w = DOMAIN m \ g
  BY Zenon DEF Merge, Without, Restrict
<1>2. \A id \in DOMAIN w : Alike(m[id], w[id])
  <2> TAKE id \in DOMAIN w
  <2>1. CASE id \in DOMAIN l
    BY <2>1, Zenon DEF Merge, Alike
  <2>2. CASE id \notin DOMAIN l
    BY <1>1, <2>2, Zenon DEF Merge, Without, Restrict, Alike
  <2> QED
    BY <2>1, <2>2, Zenon
<1> HIDE DEF w
<1>3. DOMAIN p = DOMAIN Merge(w, a)
  BY <1>1, Zenon DEF Match, Merge
<1>4. ASSUME NEW id \in DOMAIN p PROVE Alike(p[id], Merge(w, a)[id])
  <2>1. id \in DOMAIN Merge(w, a) /\ Alike(p[id], Merge(m, a)[id])
    BY <1>3, Zenon DEF Match
  <2>2. CASE id \in DOMAIN a
    BY <2>1, <2>2, Zenon DEF Merge
  <2>3. CASE id \notin DOMAIN a
    <3>1. id \in DOMAIN w /\ Merge(w, a)[id] = w[id] /\ Merge(m, a)[id] = m[id]
      BY <1>1, <2>1, <2>3, Zenon DEF Merge
    <3> QED
      BY <1>2, <2>1, <3>1, Zenon DEF Alike
  <2> QED
    BY <2>2, <2>3, Zenon
<1>5. Match(p, w, a, {})
  BY <1>3, <1>4, Zenon DEF Match
<1> QED
  BY <1>5, Zenon DEF w

-----------------------------------------------------------------------------
(* The steps.                                                              *)

(* The variables the invariant is about.                                   *)
memory == <<chains, hostSynced, hostPending, childPending, up, hostMem, childMem,
            hostPC, hostWork, childPC, childWork>>

(* A step that changes none of them.                                       *)
LEMMA MemoryFrame ==
  ASSUME MemInv, UNCHANGED memory
  PROVE  MemInv'
<1> USE DEF memory
<1>1. ShapeInv' /\ KnownInv'
  BY Zenon DEF MemInv, ShapeInv, KnownInv, L1Events, L1
<1>2. HostInv'
  BY Zenon DEF MemInv, HostInv, L1Events, L1
<1>3. ChildInv'
  BY Zenon DEF MemInv, ChildInv
<1>4. MatchInv'
  BY Zenon DEF MemInv, MatchInv, Added, AddedLast, Removed, RemovedLast
<1> QED
  BY <1>1, <1>2, <1>3, <1>4, Zenon DEF MemInv

(* The next L1 block has new events.                                       *)
LEMMA NextBlock ==
  ASSUME chains \in Histories, hostSynced \in Nat
  PROVE  /\ L1Events(hostSynced) \subseteq L1Events(hostSynced + 1)
         /\ hostSynced < Len(L1) =>
              /\ DOMAIN L1[hostSynced + 1].events \subseteq L1Events(hostSynced + 1)
              /\ DOMAIN L1[hostSynced + 1].events \cap L1Events(hostSynced) = {}
<1>1. L1Events(hostSynced) \subseteq L1Events(hostSynced + 1)
  BY DEF L1Events
<1>2. DOMAIN L1[hostSynced + 1].events \subseteq L1Events(hostSynced + 1)
  BY DEF L1Events
<1>3. ASSUME hostSynced < Len(L1), NEW id \in DOMAIN L1[hostSynced + 1].events,
             id \in L1Events(hostSynced)
      PROVE  FALSE
  <2>1. PICK k \in 1..hostSynced : id \in DOMAIN L1[k].events
    BY <1>3, Zenon DEF L1Events
  <2>2. Len(L1) \in Nat /\ DOMAIN L1 = 1..Len(L1) /\ UniqueEvents(L1)
    BY ConstantsAssumption, ChainsAssumption, Zenon DEF IsChain, L1
  <2>3. k \in DOMAIN L1 /\ hostSynced + 1 \in DOMAIN L1 /\ k # hostSynced + 1
    BY <1>3, <2>1, <2>2
  <2> QED
    BY <1>3, <2>1, <2>2, <2>3, Zenon DEF UniqueEvents
<1> QED
  BY <1>1, <1>2, <1>3, Zenon

(* Flagging events in memory keeps everything that the invariant says.     *)
LEMMA FlagMemory ==
  ASSUME MemInv, NEW S, NEW T, up = "run",
         hostMem' = Flag(hostMem, S), childMem' = Flag(childMem, T),
         UNCHANGED <<chains, hostSynced, hostPending, childPending, up>>
  PROVE  /\ ShapeInv' /\ KnownInv'
         /\ UNCHANGED <<hostPC, hostWork>> => HostInv'
         /\ UNCHANGED <<childPC, childWork>> => ChildInv'
         /\ Match(childPending', childMem', Added, Removed)
         /\ Match(hostPending', hostMem', AddedLast, RemovedLast)
<1>1. /\ DOMAIN hostMem' = DOMAIN hostMem /\ Entries(hostMem')
      /\ DOMAIN childMem' = DOMAIN childMem /\ Entries(childMem')
      /\ \A id \in DOMAIN childMem : Alike(childMem'[id], childMem[id])
  BY FlagFacts, Zenon DEF MemInv, ShapeInv
<1>2. ShapeInv'
  BY <1>1, Zenon DEF MemInv, ShapeInv
<1>3. KnownInv'
  BY <1>1 DEF MemInv, KnownInv, L1Events, L1
<1>4. UNCHANGED <<hostPC, hostWork>> => HostInv'
  BY <1>1, Zenon DEF MemInv, HostInv, L1Events, L1
<1>5. ASSUME UNCHANGED <<childPC, childWork>> PROVE ChildInv'
  BY <1>1, <1>5, Zenon DEF MemInv, ChildInv, Alike
<1>6. Match(childPending', childMem', Added, Removed)
  BY MatchFlag, Zenon DEF MemInv, ShapeInv, MatchInv
<1>7. Match(hostPending', hostMem', AddedLast, RemovedLast)
  BY MatchFlag, Zenon DEF MemInv, ShapeInv, MatchInv
<1> QED
  BY <1>2, <1>3, <1>4, <1>5, <1>6, <1>7, Zenon

(* The host stages a block: its events are new to both handlers.           *)
LEMMA HostStageMemory ==
  ASSUME MemInv, HostStage
  PROVE  MemInv'
<1> DEFINE queue == HostEvents(L1[hostSynced + 1])
           outputs == {id \in DOMAIN queue : id[1] = "Output"}
           prev == PrevPendingEvent(hostMem, outputs)
<1>1. /\ up = "run" /\ hostPC = "ready" /\ hostSynced < Len(L1) /\ hostPC' = "staged"
      /\ UNCHANGED <<chains, hostSynced, hostPending, childPending, up, childPC, childWork>>
  BY Zenon DEF HostStage, db, synced, pending, process, child
<1>2. PICK late, out :
        /\ late \subseteq DOMAIN hostMem
        /\ hostWork' = [queue |-> queue,
                        last |-> {o \in outputs : \A p \in outputs : p[2] <= o[2]},
                        done |-> late \cup prev, out |-> out]
        /\ hostMem' = Flag(hostMem, late)
        /\ childMem' = Flag(childMem, late \cap shared)
  BY HostStaged, ZenonT(60)
<1>3. /\ ShapeInv' /\ KnownInv' /\ ChildInv'
      /\ Match(childPending', childMem', Added, Removed)
      /\ Match(hostPending', hostMem', AddedLast, RemovedLast)
  BY <1>1, <1>2, FlagMemory, Zenon
<1>4. /\ Added' = Added /\ Removed' = Removed
      /\ AddedLast' = AddedLast /\ RemovedLast' = RemovedLast
  BY <1>1, Zenon DEF Added, Removed, AddedLast, RemovedLast
<1>5. MatchInv'
  BY <1>3, <1>4, Zenon DEF MatchInv
<1>6. HostInv'
  <2>1. Entries(queue) /\ DOMAIN queue \subseteq DOMAIN L1[hostSynced + 1].events
    BY Zenon DEF HostEvents, Entries
  <2>2. prev \subseteq DOMAIN hostMem
    BY Zenon DEF PrevPendingEvent
  <2>3. /\ hostWork'.queue = queue /\ hostWork'.done = late \cup prev
        /\ hostWork'.last \subseteq DOMAIN queue
    <3>1. hostWork'.last = {o \in outputs : \A p \in outputs : p[2] <= o[2]}
      BY <1>2, Zenon
    <3> QED
      BY <1>2, <3>1, Zenon
  <2>4. DOMAIN hostMem' = DOMAIN hostMem /\ DOMAIN childMem' = DOMAIN childMem
    BY <1>2, Zenon DEF Flag
  <2>5. /\ DOMAIN queue \subseteq L1Events(hostSynced + 1)
        /\ DOMAIN queue \cap L1Events(hostSynced) = {}
    BY <1>1, <2>1, NextBlock, Zenon DEF MemInv, ShapeInv
  <2>6. DOMAIN queue \cap DOMAIN hostMem = {} /\ DOMAIN queue \cap DOMAIN childMem = {}
    BY <2>5, Zenon DEF MemInv, KnownInv
  <2>7. L1Events(hostSynced + 1)' = L1Events(hostSynced + 1)
    BY <1>1, Zenon DEF L1Events, L1
  <2>8. hostWork'.done \subseteq DOMAIN hostMem'
    BY <1>2, <2>2, <2>3, <2>4, Zenon
  <2> HIDE DEF queue, prev
  <2> QED
    BY <1>1, <2>1, <2>3, <2>4, <2>5, <2>6, <2>7, <2>8 DEF HostInv
<1> QED
  BY <1>3, <1>5, <1>6, Zenon DEF MemInv

(* The host commits a block.  What the child is about to drop from memory  *)
(* was there before, so it is not among the new events.                    *)
LEMMA HostCommitMemory ==
  ASSUME MemInv, HostCommit
  PROVE  MemInv'
<1> DEFINE queue == hostWork.queue
           last == Restrict(queue, hostWork.last)
<1>1. /\ hostPC = "staged" /\ hostPC' = "committed" /\ hostSynced' = hostSynced + 1
      /\ childPending' = Merge(childPending, queue)
      /\ hostPending' = Without(Merge(hostPending, last), hostWork.done)
      /\ UNCHANGED <<chains, up, hostMem, childMem, hostWork, childPC, childWork>>
  BY Zenon DEF HostCommit, process, events, child
<1>2. /\ Entries(queue) /\ hostWork.last \subseteq DOMAIN queue
      /\ hostWork.done \subseteq DOMAIN hostMem
      /\ DOMAIN queue \cap DOMAIN hostMem = {} /\ DOMAIN queue \cap DOMAIN childMem = {}
      /\ DOMAIN queue \subseteq L1Events(hostSynced + 1)
  BY <1>1, Zenon DEF MemInv, HostInv
<1>3. up = "run"
  BY <1>1, Zenon DEF MemInv, ShapeInv
<1>4. DOMAIN last = hostWork.last /\ Entries(last)
  BY <1>2, Zenon DEF Restrict, Entries
<1>5. Removed \subseteq DOMAIN childMem
  BY Zenon DEF MemInv, ChildInv, Removed
<1> HIDE DEF queue, last
<1>6. ShapeInv'
  <2>1. Entries(childPending')
    BY <1>1, <1>2, EntriesKept, Zenon DEF MemInv, ShapeInv
  <2>2. Entries(Merge(hostPending, last))
    BY <1>4, EntriesKept, Zenon DEF MemInv, ShapeInv
  <2>3. Entries(hostPending')
    BY <1>1, <2>2, EntriesKept, Zenon
  <2> QED
    BY <1>1, <2>1, <2>3, <1>3 DEF MemInv, ShapeInv
<1>7. KnownInv'
  <2>1. L1Events(hostSynced) \subseteq L1Events(hostSynced + 1)
    BY NextBlock, Zenon DEF MemInv, ShapeInv
  <2>2. L1Events(hostSynced)' = L1Events(hostSynced + 1)
    BY <1>1, Zenon DEF L1Events, L1
  <2>3. DOMAIN childPending' = DOMAIN childPending \cup DOMAIN queue
    BY <1>1, Zenon DEF Merge
  <2>4. DOMAIN hostPending' \subseteq DOMAIN hostPending \cup DOMAIN queue
    BY <1>1, <1>2, <1>4, Zenon DEF Merge, Without, Restrict
  <2> QED
    BY <1>1, <1>2, <2>1, <2>2, <2>3, <2>4, Zenon DEF MemInv, KnownInv
<1>8. HostInv'
  <2>1. L1Events(hostSynced)' = L1Events(hostSynced + 1)
    BY <1>1, Zenon DEF L1Events, L1
  <2> QED
    BY <1>1, <1>2, <2>1, Zenon DEF HostInv, queue
<1>9. ChildInv'
  BY <1>1, Zenon DEF MemInv, ChildInv
<1>10. MatchInv'
  <2>1. /\ Added = Empty /\ AddedLast = Empty /\ RemovedLast = {}
        /\ Added' = queue /\ AddedLast' = last /\ RemovedLast' = hostWork.done
        /\ Removed' = Removed
    BY <1>1, Zenon DEF Added, AddedLast, Removed, RemovedLast, queue, last
  <2>2. /\ Match(childPending, childMem, Empty, Removed)
        /\ Match(hostPending, hostMem, Empty, {})
    BY <1>3, <2>1, Zenon DEF MemInv, MatchInv
  <2>3. DOMAIN queue \cap Removed = {}
    BY <1>2, <1>5, Zenon
  <2>4. Match(childPending', childMem, queue, Removed)
    BY <1>1, <2>2, <2>3, MatchAdd, Zenon
  <2>5. Match(Merge(hostPending, last), hostMem, last, {})
    BY <2>2, MatchAdd, Zenon
  <2>6. Match(hostPending', hostMem, last, hostWork.done)
    BY <1>1, <2>5, MatchDrop, Zenon
  <2> QED
    BY <1>1, <2>1, <2>4, <2>6, Zenon DEF MatchInv
<1> QED
  BY <1>6, <1>7, <1>8, <1>9, <1>10, Zenon DEF MemInv

(* The host updates both handlers.                                         *)
LEMMA HostUpdateMemory ==
  ASSUME MemInv, HostUpdate
  PROVE  MemInv'
<1> DEFINE queue == hostWork.queue
           last == Restrict(queue, hostWork.last)
<1>1. /\ hostPC = "committed" /\ hostPC' = "sending"
      /\ childMem' = Merge(childMem, queue)
      /\ hostMem' = Merge(Without(hostMem, hostWork.done), last)
      /\ UNCHANGED <<chains, hostSynced, hostPending, childPending, up, childPC, childWork>>
  BY Zenon DEF HostUpdate, db, synced, pending, process, child
<1>2. /\ Entries(queue) /\ hostWork.last \subseteq DOMAIN queue
      /\ hostWork.done \subseteq DOMAIN hostMem
      /\ DOMAIN queue \cap DOMAIN hostMem = {} /\ DOMAIN queue \cap DOMAIN childMem = {}
      /\ DOMAIN queue \subseteq L1Events(hostSynced)
  BY <1>1, Zenon DEF MemInv, HostInv
<1>3. up = "run"
  BY <1>1, Zenon DEF MemInv, ShapeInv
<1>4. DOMAIN last = hostWork.last /\ Entries(last)
  BY <1>2, Zenon DEF Restrict, Entries
<1>5. /\ Added = queue /\ AddedLast = last /\ RemovedLast = hostWork.done
      /\ Added' = Empty /\ AddedLast' = Empty /\ RemovedLast' = {}
      /\ Removed' = Removed
  BY <1>1, Zenon DEF Added, AddedLast, Removed, RemovedLast
<1> HIDE DEF queue, last
<1>6. ShapeInv'
  <2>1. Entries(childMem')
    BY <1>1, <1>2, EntriesKept, Zenon DEF MemInv, ShapeInv
  <2>2. Entries(Without(hostMem, hostWork.done))
    BY EntriesKept, Zenon DEF MemInv, ShapeInv
  <2>3. Entries(hostMem')
    BY <1>1, <1>4, <2>2, EntriesKept, Zenon
  <2> QED
    BY <1>1, <2>1, <2>3, <1>3, Zenon DEF MemInv, ShapeInv
<1>7. KnownInv'
  <2>1. L1Events(hostSynced)' = L1Events(hostSynced)
    BY <1>1, Zenon DEF L1Events, L1
  <2>2. DOMAIN childMem' = DOMAIN childMem \cup DOMAIN queue
    BY <1>1, Zenon DEF Merge
  <2>3. DOMAIN hostMem' \subseteq DOMAIN hostMem \cup DOMAIN queue
    BY <1>1, <1>2, <1>4, Zenon DEF Merge, Without, Restrict
  <2> QED
    BY <1>1, <1>2, <2>1, <2>2, <2>3, Zenon DEF MemInv, KnownInv
<1>8. HostInv'
  BY <1>1, Zenon DEF HostInv
<1>9. ChildInv'
  <2>1. /\ DOMAIN childMem \subseteq DOMAIN childMem'
        /\ \A id \in DOMAIN childMem : childMem'[id] = childMem[id]
    BY <1>1, <1>2, Zenon DEF Merge
  <2> QED
    BY <1>1, <2>1, Zenon DEF MemInv, ChildInv
<1>10. MatchInv'
  <2>1. /\ Match(childPending, childMem, queue, Removed)
        /\ Match(hostPending, hostMem, last, hostWork.done)
    BY <1>3, <1>5, Zenon DEF MemInv, MatchInv
  <2>2. Match(childPending, childMem', Empty, Removed)
    BY <1>1, <2>1, MatchAdded, Zenon
  <2>3. DOMAIN last \cap hostWork.done = {}
    BY <1>2, <1>4, Zenon
  <2>4. Match(hostPending, hostMem', Empty, {})
    BY <1>1, <2>1, <2>3, MatchMoved, Zenon
  <2> QED
    BY <1>1, <1>5, <2>2, <2>4, Zenon DEF MatchInv
<1> QED
  BY <1>6, <1>7, <1>8, <1>9, <1>10, Zenon DEF MemInv

(* The child stages a block: what it settles or marks is in memory.        *)
LEMMA ChildStageMemory ==
  ASSUME MemInv, ChildStage
  PROVE  MemInv'
<1> DEFINE found(o) == ChildEvents(childSynced + 1, treeIndex, o[1])
           check(o) == CheckValue(childMem, found(o))
<1>1. /\ up = "run" /\ childPC = "ready" /\ childPC' = "staged"
      /\ UNCHANGED <<chains, hostSynced, hostPending, childPending, up, hostPC, hostWork>>
  BY Zenon DEF ChildStage, db, synced, pending, process, host
<1>2. PICK o \in Outputs(treeIndex, HostHeight) : \E late, wrong, tree :
        LET time == L2[childSynced + 1].time
        IN  /\ check(o).ok
            /\ late \subseteq Unprocessed(childMem, check(o).done)
            /\ childWork' = [done |-> check(o).done,
                             late |-> Restrict(Flag(childMem, late), late),
                             out |-> Timeouts(late, time) \cup
                               {Challenge(id, time, "mismatch") : id \in wrong},
                             tree |-> tree]
            /\ childMem' = Flag(childMem, late)
            /\ hostMem' = Flag(hostMem, late \cap shared)
  BY ChildStaged, ZenonT(60)
<1>3. PICK late :
        /\ check(o).ok
        /\ late \subseteq Unprocessed(childMem, check(o).done)
        /\ childWork'.done = check(o).done
        /\ childWork'.late = Restrict(Flag(childMem, late), late)
        /\ childMem' = Flag(childMem, late)
        /\ hostMem' = Flag(hostMem, late \cap shared)
  <2> DEFINE time == L2[childSynced + 1].time
             out(l, w) == Timeouts(l, time) \cup {Challenge(id, time, "mismatch") : id \in w}
  <2> HIDE DEF check
  <2>1. PICK late, wrong, tree :
          /\ check(o).ok
          /\ late \subseteq Unprocessed(childMem, check(o).done)
          /\ childWork' = [done |-> check(o).done,
                           late |-> Restrict(Flag(childMem, late), late),
                           out |-> out(late, wrong), tree |-> tree]
          /\ childMem' = Flag(childMem, late)
          /\ hostMem' = Flag(hostMem, late \cap shared)
    BY <1>2, ZenonT(60)
  <2> HIDE DEF out
  <2>2. /\ childWork'.done = check(o).done
        /\ childWork'.late = Restrict(Flag(childMem, late), late)
    BY <2>1, Zenon
  <2> QED
    BY <2>1, <2>2, Zenon
<1>4. /\ ShapeInv' /\ KnownInv' /\ HostInv'
      /\ Match(childPending', childMem', Added, Removed)
      /\ Match(hostPending', hostMem', AddedLast, RemovedLast)
  BY <1>1, <1>3, FlagMemory, Zenon
<1>5. /\ Added' = Added /\ Removed' = Removed
      /\ AddedLast' = AddedLast /\ RemovedLast' = RemovedLast
  BY <1>1, Zenon DEF Added, Removed, AddedLast, RemovedLast
<1>6. MatchInv'
  BY <1>4, <1>5, Zenon DEF MatchInv
<1>7. ChildInv'
  <2>1. check(o).done \subseteq DOMAIN childMem
    <3> HIDE DEF found
    <3> QED
      BY <1>3, Zenon DEF CheckValue
  <2>2. late \subseteq DOMAIN childMem \ check(o).done
    BY <1>3, Zenon DEF Unprocessed
  <2>3. DOMAIN childMem' = DOMAIN childMem /\ Entries(childMem')
    BY <1>3, FlagFacts, Zenon DEF MemInv, ShapeInv
  <2>4. /\ DOMAIN childWork'.late = late
        /\ \A id \in late : childWork'.late[id] = childMem'[id]
    BY <1>3, Zenon DEF Restrict
  <2> HIDE DEF check
  <2> QED
    BY <1>3, <2>1, <2>2, <2>3, <2>4, ZenonT(40) DEF ChildInv, Entries, Alike
<1> QED
  BY <1>4, <1>6, <1>7, Zenon DEF MemInv

(* The child commits a block, and then updates its memory.  The new events *)
(* of a host block between commit and update are not touched.              *)
LEMMA ChildBlockMemory ==
  ASSUME MemInv, ChildCommit \/ ChildUpdate
  PROVE  MemInv'
<1> DEFINE late == childWork.late
           done == childWork.done
<1>1. /\ childPC \in {"staged", "committed"} /\ childPC' \in {"committed", "sending"}
      /\ UNCHANGED <<chains, hostSynced, up, hostPending, hostMem, hostPC, hostWork, childWork>>
  BY Zenon DEF ChildCommit, ChildUpdate, db, synced, pending, process, events, host
<1>2. /\ done \subseteq DOMAIN childMem /\ DOMAIN late \subseteq DOMAIN childMem \ done
      /\ Entries(late) /\ \A id \in DOMAIN late : Alike(late[id], childMem[id])
  BY <1>1, Zenon DEF MemInv, ChildInv
<1>3. up = "run"
  BY <1>1, Zenon DEF MemInv, ShapeInv
<1>4. DOMAIN Added \cap DOMAIN childMem = {}
  BY Zenon DEF MemInv, HostInv, Added, Empty
<1>5. Added' = Added /\ AddedLast' = AddedLast /\ RemovedLast' = RemovedLast
  BY <1>1, Zenon DEF Added, AddedLast, RemovedLast
<1>6. L1Events(hostSynced)' = L1Events(hostSynced)
  BY <1>1, Zenon DEF L1Events, L1
<1>7. L1Events(hostSynced + 1)' = L1Events(hostSynced + 1)
  BY <1>1, Zenon DEF L1Events, L1
<1> HIDE DEF late, done
<1>8. ASSUME ChildCommit PROVE MemInv'
  <2>1. /\ childPC = "staged" /\ childPC' = "committed" /\ UNCHANGED childMem
        /\ childPending' = Without(Merge(childPending, late), done)
    BY <1>8, Zenon DEF ChildCommit, events, late, done
  <2>2. Entries(Merge(childPending, late))
    BY <1>2, EntriesKept, Zenon DEF MemInv, ShapeInv
  <2>3. Entries(childPending')
    BY <2>1, <2>2, EntriesKept, Zenon
  <2>4. ShapeInv'
    BY <1>1, <1>3, <2>1, <2>3, Zenon DEF MemInv, ShapeInv
  <2>5. DOMAIN childPending' \subseteq DOMAIN childPending \cup DOMAIN childMem
    BY <1>2, <2>1, Zenon DEF Merge, Without, Restrict
  <2>6. KnownInv'
    BY <1>1, <1>6, <2>1, <2>5, Zenon DEF MemInv, KnownInv
  <2>7. HostInv'
    BY <1>1, <1>6, <1>7, <2>1, Zenon DEF MemInv, HostInv
  <2>8. ChildInv'
    BY <1>1, <1>2, <2>1, Zenon DEF ChildInv, late, done
  <2>9. Match(childPending, childMem, Added, {})
    BY <1>3, <2>1, Zenon DEF MemInv, MatchInv, Removed
  <2>10. Match(Merge(childPending, late), childMem, Added, {})
    BY <1>2, <1>4, <2>9, MatchMarked, Zenon
  <2>11. Match(childPending', childMem, Added, done)
    BY <2>1, <2>10, MatchDrop, Zenon
  <2>12. Removed' = done
    BY <1>1, <2>1, Zenon DEF Removed, done
  <2>13. MatchInv'
    BY <1>1, <1>3, <1>5, <2>1, <2>11, <2>12, Zenon DEF MemInv, MatchInv
  <2> QED
    BY <2>4, <2>6, <2>7, <2>8, <2>13, Zenon DEF MemInv
<1>9. ASSUME ChildUpdate PROVE MemInv'
  <2>1. /\ childPC = "committed" /\ childPC' = "sending" /\ UNCHANGED childPending
        /\ childMem' = Merge(Without(childMem, done), late)
    BY <1>9, Zenon DEF ChildUpdate, db, pending, late, done
  <2>2. Entries(Without(childMem, done))
    BY EntriesKept, Zenon DEF MemInv, ShapeInv
  <2>3. Entries(childMem')
    BY <1>2, <2>1, <2>2, EntriesKept, Zenon
  <2>4. ShapeInv'
    BY <1>1, <1>3, <2>1, <2>3, Zenon DEF MemInv, ShapeInv
  <2>5. DOMAIN childMem' \subseteq DOMAIN childMem
    BY <1>2, <2>1, Zenon DEF Merge, Without, Restrict
  <2>6. KnownInv'
    BY <1>1, <1>6, <2>1, <2>5, Zenon DEF MemInv, KnownInv
  <2>7. HostInv'
    BY <1>1, <1>6, <1>7, <2>5, Zenon DEF MemInv, HostInv
  <2>8. ChildInv'
    BY <2>1, Zenon DEF ChildInv
  <2>9. Match(childPending, childMem, Added, done)
    BY <1>3, <2>1, Zenon DEF MemInv, MatchInv, Removed, done
  <2>10. Match(childPending, childMem', Added, {})
    BY <1>2, <1>4, <2>1, <2>9, MatchSettled, Zenon
  <2>11. Removed' = {}
    BY <2>1, Zenon DEF Removed
  <2>12. MatchInv'
    BY <1>1, <1>3, <1>5, <2>1, <2>10, <2>11, Zenon DEF MemInv, MatchInv
  <2> QED
    BY <2>4, <2>6, <2>7, <2>8, <2>12, Zenon DEF MemInv
<1> QED
  BY <1>8, <1>9, Zenon

(* A block that fails to commit, hands over challenges or is finished.     *)
LEMMA BlockEndMemory ==
  ASSUME MemInv,
         \/ HostCommitFails \/ HostSends \/ HostDone
         \/ ChildCommitFails \/ ChildSends \/ ChildDone
  PROVE  MemInv'
<1>1. UNCHANGED <<chains, hostSynced, hostPending, childPending, up, hostMem, childMem>>
  BY Zenon DEF HostCommitFails, HostSends, HostSend, HostDone, ChildCommitFails, ChildSends,
         ChildSend, ChildDone, db, synced, pending, process, events
<1>2. \/ UNCHANGED <<childPC, childWork>> /\ hostPC \in {"staged", "sending"}
           /\ hostPC' \in {"ready", "sending"} /\ up = "run"
      \/ UNCHANGED <<hostPC, hostWork>> /\ childPC \in {"staged", "sending"}
           /\ childPC' \in {"ready", "sending"} /\ up = "run"
  BY Zenon DEF HostCommitFails, HostSends, HostSend, HostDone, ChildCommitFails, ChildSends,
         ChildSend, ChildDone, host, child, MemInv, ShapeInv
<1>3. ShapeInv' /\ KnownInv'
  BY <1>1, <1>2, Zenon DEF MemInv, ShapeInv, KnownInv, L1Events, L1
<1>4. HostInv'
  BY <1>1, <1>2, Zenon DEF MemInv, HostInv, L1Events, L1
<1>5. ChildInv'
  BY <1>1, <1>2, Zenon DEF MemInv, ChildInv
<1>6. /\ Added' = Added /\ Removed' = Removed
      /\ AddedLast' = AddedLast /\ RemovedLast' = RemovedLast
  BY <1>2, Zenon DEF Added, Removed, AddedLast, RemovedLast
<1>7. MatchInv'
  BY <1>1, <1>6, Zenon DEF MemInv, MatchInv
<1> QED
  BY <1>3, <1>4, <1>5, <1>7, Zenon DEF MemInv

(* A start loads the memory, a stop clears it, a reset clears the          *)
(* database.                                                               *)
LEMMA ProcessMemory ==
  ASSUME MemInv, Start \/ Crash \/ ResetHeights
  PROVE  MemInv'
<1>1. ASSUME Start PROVE MemInv'
  <2>1. /\ up = "down" /\ up' = "run" /\ hostMem' = hostPending /\ childMem' = childPending
        /\ UNCHANGED <<chains, hostSynced, hostPending, childPending, hostPC, childPC>>
    BY <1>1, Zenon DEF Start, synced, pending, host, child
  <2>2. hostPC = "ready" /\ childPC = "ready"
    BY <2>1, Zenon DEF MemInv, ShapeInv
  <2>3. ShapeInv' /\ HostInv' /\ ChildInv'
    BY <2>1, <2>2, Zenon DEF MemInv, ShapeInv, HostInv, ChildInv
  <2>4. KnownInv'
    BY <2>1, Zenon DEF MemInv, KnownInv, L1Events, L1
  <2>5. Added' = Empty /\ Removed' = {} /\ AddedLast' = Empty /\ RemovedLast' = {}
    BY <2>1, <2>2, Zenon DEF Added, Removed, AddedLast, RemovedLast
  <2>6. \A f : Match(f, f, Empty, {})
    BY Zenon DEF Match, Merge, Empty, Alike
  <2> QED
    BY <2>1, <2>3, <2>4, <2>5, <2>6, Zenon DEF MemInv, MatchInv
<1>2. ASSUME Crash PROVE MemInv'
  <2>1. /\ up' = "down" /\ hostMem' = Empty /\ childMem' = Empty
        /\ hostPC' = "ready" /\ childPC' = "ready"
        /\ UNCHANGED <<chains, hostSynced, hostPending, childPending>>
    BY <1>2, Zenon DEF Crash, db, synced, pending
  <2>2. ShapeInv'
    BY <2>1, Zenon DEF MemInv, ShapeInv, Entries, Empty
  <2>3. KnownInv'
    BY <2>1, Zenon DEF MemInv, KnownInv, Empty, L1Events, L1
  <2>4. HostInv' /\ ChildInv' /\ MatchInv'
    BY <2>1, Zenon DEF HostInv, ChildInv, MatchInv
  <2> QED
    BY <2>2, <2>3, <2>4, Zenon DEF MemInv
<1>3. ASSUME ResetHeights PROVE MemInv'
  <2>1. /\ up = "down" /\ hostSynced' = 0 /\ hostPending' = Empty /\ childPending' = Empty
        /\ UNCHANGED <<chains, up, hostMem, childMem, hostPC, childPC>>
    BY <1>3, Zenon DEF ResetHeights, process, events, host, child
  <2>2. ShapeInv'
    BY <2>1, Zenon DEF MemInv, ShapeInv, Entries, Empty
  <2>3. KnownInv'
    BY <2>1, <2>2, Zenon DEF MemInv, ShapeInv, KnownInv, Empty
  <2>4. HostInv' /\ ChildInv' /\ MatchInv'
    BY <2>1, Zenon DEF MemInv, ShapeInv, HostInv, ChildInv, MatchInv
  <2> QED
    BY <2>2, <2>3, <2>4, Zenon DEF MemInv
<1> QED
  BY <1>1, <1>2, <1>3, Zenon

(* The invariant holds of every state.                                     *)
LEMMA MemoryInvariant == Spec => []MemInv
<1>1. Init => MemInv
  <2> SUFFICES ASSUME Init PROVE MemInv
    BY Zenon
  <2>1. ShapeInv
    BY Zenon DEF Init, ShapeInv, Entries, Empty
  <2>2. KnownInv
    BY Zenon DEF Init, KnownInv, Empty
  <2>3. HostInv /\ ChildInv /\ MatchInv
    BY Zenon DEF Init, HostInv, ChildInv, MatchInv
  <2> QED
    BY <2>1, <2>2, <2>3, Zenon DEF MemInv
<1>2. MemInv /\ [Next]_vars => MemInv'
  <2> SUFFICES ASSUME MemInv, [Next]_vars PROVE MemInv'
    BY Zenon
  <2> USE DEF memory, db, synced, pending, process, events, host, child
  <2>1. CASE UNCHANGED vars
    BY <2>1, MemoryFrame, Zenon DEF vars
  <2>2. CASE SendsLoaded
    BY <2>2, MemoryFrame, Zenon DEF SendsLoaded, SendLoaded
  <2>3. CASE HandleChallenge
    BY <2>3, MemoryFrame, Zenon DEF HandleChallenge
  <2> QED
    BY Zenon, <2>1, <2>2, <2>3, HostStageMemory, HostCommitMemory, HostUpdateMemory,
       ChildStageMemory, ChildBlockMemory, BlockEndMemory, ProcessMemory DEF Next
<1> QED
  BY <1>1, <1>2, PTL DEF Spec

(* Whatever the two loops interleave, and wherever the process stops: when *)
(* neither is between its commit and its update of the memory, the pending *)
(* events in memory are those in the database.                             *)
THEOREM MemoryFollowsDatabase == Spec => []MemoryMatchesDB
<1>1. MemInv => MemoryMatchesDB
  <2> SUFFICES ASSUME MemInv, up = "run", hostPC \in {"ready", "staged"},
                      childPC \in {"ready", "staged"}
               PROVE  /\ [id \in DOMAIN childMem |-> <<childMem[id].val, childMem[id].time>>]
                         = [id \in DOMAIN childPending |->
                              <<childPending[id].val, childPending[id].time>>]
                      /\ [id \in DOMAIN hostMem |-> <<hostMem[id].val, hostMem[id].time>>]
                         = [id \in DOMAIN hostPending |->
                              <<hostPending[id].val, hostPending[id].time>>]
    BY Zenon DEF MemoryMatchesDB
  <2>1. Match(childPending, childMem, Empty, {}) /\ Match(hostPending, hostMem, Empty, {})
    BY Zenon DEF MemInv, MatchInv, Added, Removed, AddedLast, RemovedLast
  <2>2. \A p, m : Match(p, m, Empty, {}) =>
          DOMAIN p = DOMAIN m /\ \A id \in DOMAIN m : Alike(p[id], m[id])
    BY Zenon DEF Match, Merge, Empty
  <2>3. /\ DOMAIN childPending = DOMAIN childMem
        /\ \A id \in DOMAIN childMem : Alike(childPending[id], childMem[id])
    BY <2>1, <2>2, Zenon
  <2>4. /\ DOMAIN hostPending = DOMAIN hostMem
        /\ \A id \in DOMAIN hostMem : Alike(hostPending[id], hostMem[id])
    BY <2>1, <2>2, Zenon
  <2> QED
    BY <2>3, <2>4, Zenon DEF Alike
<1> QED
  BY <1>1, MemoryInvariant, PTL

-----------------------------------------------------------------------------
(* Types and marks.                                                        *)

(* Types, and where a staged block is in its chain.                        *)
PlaceInv ==
  /\ chains \in Histories
  /\ hostSynced \in 0..Len(L1) /\ childSynced \in 0..Len(L2)
  /\ treeIndex \in Nat \ {0}
  /\ up \in {"run", "down"} /\ hostPC \in Steps /\ childPC \in Steps
  /\ up = "down" => hostPC = "ready" /\ childPC = "ready" /\ handling = NoChallenge
  /\ up = "down" => starting = {}
  /\ hostPC = "staged" => hostSynced < Len(L1)
  /\ childPC = "staged" => childSynced < Len(L2) /\ childWork.tree \in Nat \ {0}
  /\ crashes \in 0..MaxCrashes /\ fails \in 0..MaxFails

(* A map of events of chain c, with their values and times.                *)
EventsOf(c, f) ==
  /\ EventMap(f)
  /\ \A id \in DOMAIN f : \E n \in DOMAIN c :
       /\ id \in DOMAIN c[n].events
       /\ f[id].val = c[n].events[id] /\ f[id].time = c[n].time

(* The pending events, wherever they are, are events of L1.                *)
MapInv ==
  /\ \A f \in {hostPending, childPending, hostMem, childMem, hostWork.queue,
               childWork.late} : EventsOf(L1, f)
  /\ shared \cup hostWork.last \cup hostWork.done \cup childWork.done \subseteq EventIds

(* Every challenge, wherever it is.                                        *)
AllChallenges ==
  Range(pendingChallenges) \cup challenges \cup raised \cup starting
    \cup hostWork.out \cup childWork.out \cup ({handling} \ {NoChallenge})

(* A pending challenge is stored under its own event.                      *)
KeyInv ==
  /\ \A id \in DOMAIN pendingChallenges : pendingChallenges[id].id = id
  /\ "out" \in DOMAIN hostWork /\ "out" \in DOMAIN childWork

ChallengeInv == KeyInv /\ \A c \in AllChallenges : IsChallenge(c)

TypeInv == PlaceInv /\ MapInv /\ ChallengeInv

(* A mark in memory has a challenge, or one that the staged block commits. *)
SilentInv ==
  /\ fails = 0 =>
       \A id \in DOMAIN childMem : childMem[id].timeout =>
         \/ id \in Challenged
         \/ hostPC = "staged" /\ id \in Ids(hostWork.out)
         \/ childPC = "staged" /\ id \in Ids(childWork.out)
  /\ childPC = "committed" => DOMAIN childWork.late \subseteq Challenged

-----------------------------------------------------------------------------
(* Facts about the chains.                                                 *)

(* The assumptions, for the chains of the behaviour.                       *)
LEMMA ChainFacts ==
  ASSUME chains \in Histories
  PROVE  /\ Len(L1) \in Nat /\ DOMAIN L1 = 1..Len(L1) /\ \A n \in DOMAIN L1 : IsBlock(L1[n])
         /\ Len(L2) \in Nat /\ DOMAIN L2 = 1..Len(L2) /\ \A n \in DOMAIN L2 : IsBlock(L2[n])
         /\ UniqueEvents(L1) /\ NumbersInOrder(L1) /\ OutputsRise(L1) /\ DepositsInOrder(L2)
BY ConstantsAssumption, ChainsAssumption, Zenon DEF IsChain, L1, L2

(* No step changes the chains.                                             *)
LEMMA ChainsKept == [Next]_vars => chains' = chains
BY Zenon DEF Next, HostStage, HostCommit, HostCommitFails, HostUpdate, HostSends, HostSend,
       HostDone, ChildStage, ChildCommit, ChildCommitFails, ChildUpdate, ChildSends,
       ChildSend, ChildDone, SendsLoaded, SendLoaded, HandleChallenge, Start, Crash,
       ResetHeights, vars

(* The value and the time of an event are those of the block that has it.  *)
LEMMA ValueOf ==
  ASSUME chains \in Histories, NEW n \in DOMAIN L1, NEW id \in DOMAIN L1[n].events
  PROVE  L1Value(id) = L1[n].events[id] /\ L1Time(id) = L1[n].time
<1> DEFINE m == CHOOSE k \in DOMAIN L1 : id \in DOMAIN L1[k].events
<1>1. m \in DOMAIN L1 /\ id \in DOMAIN L1[m].events
  BY Zenon
<1>2. m = n
  BY <1>1, ChainFacts, Zenon DEF UniqueEvents
<1> QED
  BY <1>2, Zenon DEF L1Value, L1Time

-----------------------------------------------------------------------------
(* Where challenges go.                                                    *)

(* What is pending after a commit was pending before or is raised by it.   *)
LEMMA SavedChallenges ==
  ASSUME NEW f, NEW out, \A id \in DOMAIN f : f[id].id = id
  PROVE  LET g == SavePendingChallenges(f, out)
         IN  /\ \A id \in DOMAIN g : g[id].id = id
             /\ Range(g) \subseteq Range(f) \cup out
<1> DEFINE ids == {c.id : c \in out}
           new == [id \in ids |-> CHOOSE c \in out : c.id = id]
           g == SavePendingChallenges(f, out)
<1>1. ASSUME NEW id \in ids PROVE new[id] \in out /\ new[id].id = id
  <2>1. \E c \in out : c.id = id
    BY Zenon
  <2>2. new[id] = CHOOSE c \in out : c.id = id
    BY Zenon
  <2> QED
    BY <2>1, <2>2, Zenon
<1>2. g = Merge(f, new)
  BY Zenon DEF SavePendingChallenges
<1>3. DOMAIN new = ids
  BY Zenon
<1> HIDE DEF new, ids, g
<1>4. /\ DOMAIN g = DOMAIN f \cup ids
      /\ \A id \in DOMAIN g : g[id] = IF id \in ids THEN new[id] ELSE f[id]
  BY <1>2, <1>3, Zenon DEF Merge
<1>5. ASSUME NEW id \in DOMAIN g PROVE g[id].id = id /\ g[id] \in Range(f) \cup out
  <2>1. CASE id \in ids
    BY <1>1, <1>4, <2>1, Zenon
  <2>2. CASE id \notin ids
    BY <1>4, <2>2, Zenon DEF Range
  <2> QED
    BY <2>1, <2>2, Zenon
<1>6. (\A id \in DOMAIN g : g[id].id = id) /\ Range(g) \subseteq Range(f) \cup out
  BY <1>5, Zenon DEF Range
<1> QED
  BY <1>6, Zenon DEF g

(* Only a staged block has new challenges.                                 *)
LEMMA ChallengeFlow ==
  ASSUME KeyInv, [Next]_vars
  PROVE  /\ KeyInv'
         /\ \/ HostStage /\ AllChallenges' \subseteq AllChallenges \cup hostWork'.out
            \/ ChildStage /\ AllChallenges' \subseteq AllChallenges \cup childWork'.out
            \/ AllChallenges' \subseteq AllChallenges
<1> USE DEF db, stored, process, host, child, handover, history
<1>1. CASE HostStage
  <2>1. \E queue, last, done, out :
          hostWork' = [queue |-> queue, last |-> last, done |-> done, out |-> out]
    BY <1>1, HostStaged, ZenonT(60)
  <2>2. "out" \in DOMAIN hostWork'
    BY <2>1
  <2> QED
    BY <1>1, <2>2, Zenon DEF HostStage, AllChallenges, KeyInv
<1>2. CASE ChildStage
  <2>1. \E done, late, out, tree :
          childWork' = [done |-> done, late |-> late, out |-> out, tree |-> tree]
    BY <1>2, ChildStaged, ZenonT(60)
  <2>2. "out" \in DOMAIN childWork'
    BY <2>1
  <2> QED
    BY <1>2, <2>2, Zenon DEF ChildStage, AllChallenges, KeyInv
<1>3. CASE HostCommit
  <2>1. /\ pendingChallenges' = SavePendingChallenges(pendingChallenges, hostWork.out)
        /\ raised' = raised \cup hostWork.out
        /\ UNCHANGED <<challenges, starting, handling, hostWork, childWork>>
    BY <1>3, Zenon DEF HostCommit
  <2>2. KeyInv' /\ Range(pendingChallenges') \subseteq Range(pendingChallenges) \cup hostWork.out
    BY <2>1, SavedChallenges, Zenon DEF KeyInv
  <2> QED
    BY <2>1, <2>2 DEF AllChallenges
<1>4. CASE ChildCommit
  <2>1. /\ pendingChallenges' = SavePendingChallenges(pendingChallenges, childWork.out)
        /\ raised' = raised \cup childWork.out
        /\ UNCHANGED <<challenges, starting, handling, hostWork, childWork>>
    BY <1>4, Zenon DEF ChildCommit
  <2>2. KeyInv' /\ Range(pendingChallenges') \subseteq Range(pendingChallenges) \cup childWork.out
    BY <2>1, SavedChallenges, Zenon DEF KeyInv
  <2> QED
    BY <2>1, <2>2 DEF AllChallenges
<1>5. CASE \/ HostCommitFails \/ HostDone \/ ChildCommitFails \/ ChildDone \/ Crash
           \/ HostUpdate \/ ChildUpdate \/ ResetHeights \/ UNCHANGED vars
  <2>1. /\ hostWork'.out \subseteq hostWork.out /\ childWork'.out \subseteq childWork.out
        /\ starting' \subseteq starting /\ handling' \in {handling, NoChallenge}
        /\ "out" \in DOMAIN hostWork' /\ "out" \in DOMAIN childWork'
        /\ UNCHANGED <<pendingChallenges, challenges, raised>>
    <3>1. CASE HostCommitFails \/ HostDone
      BY <3>1 DEF HostCommitFails, HostDone, HostNoWork, KeyInv
    <3>2. CASE ChildCommitFails \/ ChildDone
      BY <3>2 DEF ChildCommitFails, ChildDone, ChildNoWork, KeyInv
    <3>3. CASE Crash
      BY <3>3 DEF Crash, HostNoWork, ChildNoWork
    <3>4. CASE HostUpdate \/ ChildUpdate
      BY <3>4 DEF HostUpdate, ChildUpdate, KeyInv
    <3>5. CASE ResetHeights
      BY <3>5 DEF ResetHeights, KeyInv
    <3>6. CASE UNCHANGED vars
      BY <3>6 DEF vars, KeyInv
    <3> QED
      BY <1>5, <3>1, <3>2, <3>3, <3>4, <3>5, <3>6
  <2> QED
    BY <2>1 DEF AllChallenges, KeyInv
<1>6. CASE HostSends \/ ChildSends \/ SendsLoaded
  <2>1. /\ hostWork'.out \subseteq hostWork.out /\ childWork'.out \subseteq childWork.out
        /\ DOMAIN hostWork' = DOMAIN hostWork /\ DOMAIN childWork' = DOMAIN childWork
        /\ starting' \subseteq starting
        /\ handling' \in hostWork.out \cup childWork.out \cup starting
        /\ UNCHANGED <<pendingChallenges, challenges, raised>>
    BY <1>6, Zenon DEF HostSends, HostSend, ChildSends, ChildSend, SendsLoaded, SendLoaded,
                KeyInv
  <2> QED
    BY <2>1 DEF AllChallenges, KeyInv
<1>7. CASE HandleChallenge
  <2>1. /\ challenges' \subseteq challenges \cup {handling} /\ handling # NoChallenge
        /\ handling' = NoChallenge
        /\ pendingChallenges' = Without(pendingChallenges, {handling.id})
        /\ UNCHANGED <<starting, hostWork, childWork, raised>>
    BY <1>7, Zenon DEF HandleChallenge
  <2>2. KeyInv' /\ Range(pendingChallenges') \subseteq Range(pendingChallenges)
    BY <2>1, Zenon DEF KeyInv, Range, Without, Restrict
  <2> QED
    BY <2>1, <2>2 DEF AllChallenges
<1>8. CASE Start
  <2>1. /\ challenges' \subseteq challenges /\ starting' = Range(pendingChallenges)
        /\ UNCHANGED <<pendingChallenges, handling, hostWork, childWork, raised>>
    BY <1>8, Zenon DEF Start, DeleteFutureChallenges
  <2> QED
    BY <2>1 DEF AllChallenges, KeyInv
<1> QED
  BY <1>1, <1>2, <1>3, <1>4, <1>5, <1>6, <1>7, <1>8, Zenon DEF Next

-----------------------------------------------------------------------------
(* The work of a block, field by field.                                    *)

(* The outputs of an L1 block, and the pending one that they follow.       *)
BlockOutputs(b) == {id \in DOMAIN HostEvents(b) : id[1] = "Output"}
Followed(b) == PrevPendingEvent(hostMem, BlockOutputs(b))

(* What the host stages.                                                   *)
LEMMA HostWork ==
  ASSUME HostStage
  PROVE  LET b == L1[hostSynced + 1]
         IN  \E late \in SUBSET (DOMAIN hostMem \ Followed(b)) :
               /\ \A id \in late : PastDue(hostMem[id], b.time)
               /\ hostWork'.queue = HostEvents(b)
               /\ hostWork'.last = {o \in BlockOutputs(b) : \A p \in BlockOutputs(b) : p[2] <= o[2]}
               /\ hostWork'.done = late \cup Followed(b)
               /\ hostWork'.out = Timeouts(late, b.time)
               /\ hostMem' = Flag(hostMem, late)
               /\ childMem' = Flag(childMem, late \cap shared)
<1> DEFINE b == L1[hostSynced + 1]
           last == {o \in BlockOutputs(b) : \A p \in BlockOutputs(b) : p[2] <= o[2]}
<1>1. PICK late \in SUBSET (DOMAIN hostMem \ Followed(b)) :
               /\ \A id \in late : PastDue(hostMem[id], b.time)
               /\ hostWork' = [queue |-> HostEvents(b), last |-> last,
                               done |-> late \cup Followed(b), out |-> Timeouts(late, b.time)]
               /\ hostMem' = Flag(hostMem, late)
               /\ childMem' = Flag(childMem, late \cap shared)
  BY HostStaged, ZenonT(60) DEF BlockOutputs, Followed
<1> HIDE DEF last
<1>2. /\ hostWork'.queue = HostEvents(b) /\ hostWork'.last = last
      /\ hostWork'.done = late \cup Followed(b) /\ hostWork'.out = Timeouts(late, b.time)
  BY <1>1, Zenon
<1> QED
  BY <1>1, <1>2, Zenon DEF last

(* What the child compares in its next block.                              *)
Check(o) == CheckValue(childMem, ChildEvents(childSynced + 1, treeIndex, o[1]))
Mismatches(o) == {Challenge(id, L2[childSynced + 1].time, "mismatch") : id \in Check(o).wrong}

(* What the child stages.                                                  *)
LEMMA ChildWork ==
  ASSUME ChildStage
  PROVE  LET n == childSynced + 1
         IN  \E o \in Outputs(treeIndex, HostHeight) : \E late \in SUBSET DOMAIN childMem :
               /\ o[1] >= n /\ Check(o).ok
               /\ late \cap Check(o).done = {}
               /\ \A id \in late : PastDue(childMem[id], L2[n].time)
               /\ childWork'.done = Check(o).done
               /\ childWork'.late = Restrict(Flag(childMem, late), late)
               /\ childWork'.out = Timeouts(late, L2[n].time) \cup Mismatches(o)
               /\ childWork'.tree = IF o[1] = n THEN treeIndex + 1 ELSE treeIndex
               /\ childMem' = Flag(childMem, late)
               /\ hostMem' = Flag(hostMem, late \cap shared)
<1> DEFINE n == childSynced + 1
           tree(o) == IF o[1] = n THEN treeIndex + 1 ELSE treeIndex
           work(o, late) ==
             [done |-> Check(o).done, late |-> Restrict(Flag(childMem, late), late),
              out |-> Timeouts(late, L2[n].time) \cup Mismatches(o), tree |-> tree(o)]
<1>1. PICK o \in Outputs(treeIndex, HostHeight) :
        /\ o[1] >= n /\ Check(o).ok
        /\ \E late \in SUBSET Unprocessed(childMem, Check(o).done) :
             /\ \A id \in late : PastDue(childMem[id], L2[n].time)
             /\ childWork' = work(o, late)
             /\ childMem' = Flag(childMem, late)
             /\ hostMem' = Flag(hostMem, late \cap shared)
  BY ChildStaged, ZenonT(60) DEF Check, Mismatches
<1>2. PICK late \in SUBSET Unprocessed(childMem, Check(o).done) :
             /\ \A id \in late : PastDue(childMem[id], L2[n].time)
             /\ childWork' = work(o, late)
             /\ childMem' = Flag(childMem, late)
             /\ hostMem' = Flag(hostMem, late \cap shared)
  BY <1>1, Zenon
<1>3. late \in SUBSET DOMAIN childMem /\ late \cap Check(o).done = {}
  BY <1>2, Zenon DEF Unprocessed
<1> HIDE DEF tree
<1>4. /\ childWork'.done = Check(o).done
      /\ childWork'.late = Restrict(Flag(childMem, late), late)
      /\ childWork'.out = Timeouts(late, L2[n].time) \cup Mismatches(o)
      /\ childWork'.tree = tree(o)
  BY <1>2, Zenon
<1> QED
  BY <1>1, <1>2, <1>3, <1>4, Zenon DEF tree

(* Handing over a challenge leaves the rest of the work alone.             *)
LEMMA SendsFrame ==
  ASSUME HostSends \/ ChildSends
  PROVE  /\ hostWork'.queue = hostWork.queue /\ hostWork'.last = hostWork.last
         /\ hostWork'.done = hostWork.done
         /\ childWork'.late = childWork.late /\ childWork'.done = childWork.done
         /\ childWork'.tree = childWork.tree
<1>1. ASSUME NEW c, HostSend(c)
      PROVE  /\ hostWork'.queue = hostWork.queue /\ hostWork'.last = hostWork.last
             /\ hostWork'.done = hostWork.done /\ childWork' = childWork
  <2>1. hostWork' = [hostWork EXCEPT !.out = hostWork.out \ {c}] /\ childWork' = childWork
    BY <1>1, Zenon DEF HostSend, child
  <2> QED
    BY <2>1
<1>2. ASSUME NEW c, ChildSend(c)
      PROVE  /\ childWork'.late = childWork.late /\ childWork'.done = childWork.done
             /\ childWork'.tree = childWork.tree /\ hostWork' = hostWork
  <2>1. childWork' = [childWork EXCEPT !.out = childWork.out \ {c}] /\ hostWork' = hostWork
    BY <1>2, Zenon DEF ChildSend, host
  <2> QED
    BY <2>1
<1> QED
  BY <1>1, <1>2, Zenon DEF HostSends, ChildSends

-----------------------------------------------------------------------------
(* Types.                                                                  *)

(* Maps of events stay maps of events.                                     *)
LEMMA EventMaps ==
  ASSUME NEW c, NEW f, NEW g, NEW S, EventsOf(c, f)
  PROVE  /\ EventsOf(c, Without(f, S)) /\ EventsOf(c, Flag(f, S))
         /\ S \subseteq DOMAIN f => EventsOf(c, Restrict(f, S))
         /\ EventsOf(c, g) => EventsOf(c, Merge(f, g))
<1>1. ASSUME NEW h, DOMAIN h \subseteq DOMAIN f, EventMap(h),
             \A id \in DOMAIN h : h[id].val = f[id].val /\ h[id].time = f[id].time
      PROVE  EventsOf(c, h)
  BY <1>1, ZenonT(40) DEF EventsOf
<1>2. EventMap(f) /\ (EventsOf(c, g) => EventMap(g))
  BY Zenon DEF EventsOf
<1>3. EventsOf(c, Without(f, S))
  <2>1. /\ DOMAIN Without(f, S) \subseteq DOMAIN f
        /\ \A id \in DOMAIN Without(f, S) : Without(f, S)[id] = f[id]
    BY Zenon DEF Without, Restrict
  <2> QED
    BY <1>1, <1>2, <2>1, Zenon DEF EventMap
<1>4. EventsOf(c, Flag(f, S))
  <2>1. /\ DOMAIN Flag(f, S) = DOMAIN f /\ EventMap(Flag(f, S))
        /\ \A id \in DOMAIN f : Flag(f, S)[id].val = f[id].val /\ Flag(f, S)[id].time = f[id].time
    BY <1>2, Zenon DEF Flag, EventMap
  <2> QED
    BY <1>1, <2>1, Zenon
<1>5. ASSUME S \subseteq DOMAIN f PROVE EventsOf(c, Restrict(f, S))
  <2>1. DOMAIN Restrict(f, S) = S /\ \A id \in S : Restrict(f, S)[id] = f[id]
    BY Zenon DEF Restrict
  <2> QED
    BY <1>1, <1>2, <1>5, <2>1 DEF EventMap
<1>6. ASSUME EventsOf(c, g) PROVE EventsOf(c, Merge(f, g))
  <2>1. /\ DOMAIN Merge(f, g) = DOMAIN f \cup DOMAIN g
        /\ \A id \in DOMAIN Merge(f, g) :
             \/ id \in DOMAIN g /\ Merge(f, g)[id] = g[id]
             \/ id \in DOMAIN f /\ Merge(f, g)[id] = f[id]
    BY Zenon DEF Merge
  <2>2. EventMap(Merge(f, g))
    BY <1>2, <1>6, <2>1, Zenon DEF EventMap
  <2> DEFINE P(id, e) == \E n \in DOMAIN c :
                /\ id \in DOMAIN c[n].events /\ e.val = c[n].events[id] /\ e.time = c[n].time
  <2>3. (\A id \in DOMAIN f : P(id, f[id])) /\ (\A id \in DOMAIN g : P(id, g[id]))
    BY <1>6, Zenon DEF EventsOf
  <2> HIDE DEF P
  <2>4. \A id \in DOMAIN Merge(f, g) : P(id, Merge(f, g)[id])
    BY <2>1, <2>3, Zenon
  <2> QED
    BY <2>2, <2>4, Zenon DEF EventsOf, P
<1> QED
  BY <1>3, <1>4, <1>5, <1>6, Zenon

(* So does what a block adds.                                              *)
LEMMA NewEventMap ==
  ASSUME chains \in Histories, NEW n \in DOMAIN L1
  PROVE  EventsOf(L1, HostEvents(L1[n]))
<1>1. IsBlock(L1[n])
  BY ChainFacts, Zenon
<1> DEFINE h == HostEvents(L1[n])
<1>2. /\ DOMAIN h \subseteq DOMAIN L1[n].events
      /\ \A id \in DOMAIN h : h[id] = [val |-> L1[n].events[id], time |-> L1[n].time, timeout |-> FALSE]
  BY Zenon DEF HostEvents
<1> HIDE DEF h
<1>3. EventMap(h)
  <2>1. DOMAIN h \subseteq EventIds /\ L1[n].time \in Nat
    BY <1>1, <1>2, Zenon DEF IsBlock
  <2>2. ASSUME NEW id \in DOMAIN h
        PROVE  /\ DOMAIN h[id] = {"val", "time", "timeout"}
               /\ h[id].time \in Nat /\ h[id].timeout \in BOOLEAN
    <3>1. h[id] = [val |-> L1[n].events[id], time |-> L1[n].time, timeout |-> FALSE]
      BY <1>2, Zenon
    <3>2. DOMAIN h[id] = {"val", "time", "timeout"} /\ h[id].time = L1[n].time
      BY <3>1
    <3>3. h[id].timeout = FALSE
      BY <3>1
    <3> QED
      BY <2>1, <3>2, <3>3, Zenon
  <2> QED
    BY <2>1, <2>2, Zenon DEF EventMap
<1>4. \A id \in DOMAIN h : h[id].val = L1[n].events[id] /\ h[id].time = L1[n].time
  BY <1>2
<1> QED
  BY <1>2, <1>3, <1>4, Zenon DEF EventsOf, h

(* The next blocks of the chains.                                          *)
LEMMA NextBlocks ==
  ASSUME PlaceInv
  PROVE  /\ hostSynced \in Nat /\ childSynced \in Nat
         /\ hostSynced < Len(L1) => hostSynced + 1 \in DOMAIN L1 /\ L1[hostSynced + 1].time \in Nat
         /\ childSynced < Len(L2) => childSynced + 1 \in DOMAIN L2 /\ L2[childSynced + 1].time \in Nat
<1>1. /\ Len(L1) \in Nat /\ DOMAIN L1 = 1..Len(L1) /\ \A n \in DOMAIN L1 : IsBlock(L1[n])
      /\ Len(L2) \in Nat /\ DOMAIN L2 = 1..Len(L2) /\ \A n \in DOMAIN L2 : IsBlock(L2[n])
  BY ChainFacts, Zenon DEF PlaceInv
<1>2. hostSynced \in 0..Len(L1) /\ childSynced \in 0..Len(L2)
  BY Zenon DEF PlaceInv
<1>3. /\ hostSynced < Len(L1) => hostSynced + 1 \in DOMAIN L1
      /\ childSynced < Len(L2) => childSynced + 1 \in DOMAIN L2
  BY <1>1, <1>2
<1> QED
  BY <1>1, <1>2, <1>3 DEF IsBlock

(* Heights, positions and counters.                                        *)
LEMMA PlaceStep ==
  ASSUME PlaceInv, [Next]_vars
  PROVE  PlaceInv'
<1> USE DEF db, synced, process, host, child, handover, history, Steps
<1>0. Len(L1) \in Nat /\ Len(L2) \in Nat
  BY ChainFacts, Zenon DEF PlaceInv
<1>1. CASE HostStage
  BY <1>0, <1>1, Zenon DEF HostStage, PlaceInv, L1, L2
<1>2. CASE HostCommit
  BY <1>0, <1>2 DEF HostCommit, PlaceInv, L1, L2
<1>3. CASE HostCommitFails \/ HostUpdate \/ HostSends \/ HostDone
  <2>1. /\ hostPC # "ready" /\ hostPC' \in {"ready", "sending"} /\ fails' \in 0..MaxFails
        /\ UNCHANGED <<chains, synced, process, child, crashes>>
    BY <1>3, ConstantsAssumption, SMTT(30)
    DEF HostCommitFails, HostUpdate, HostSends, HostSend, HostDone, CommitFails, PlaceInv
  <2> QED
    BY <2>1, Zenon DEF PlaceInv, L1, L2
<1>4. CASE ChildStage
  <2>1. childWork'.tree \in Nat \ {0}
    <3>1. childWork'.tree \in {treeIndex, treeIndex + 1}
      BY <1>4, ChildWork, Zenon
    <3> QED
      BY <3>1 DEF PlaceInv
  <2>2. /\ up = "run" /\ childPC' = "staged" /\ childSynced < Len(L2)
        /\ UNCHANGED <<chains, synced, process, host, crashes, fails>>
    BY <1>4, Zenon DEF ChildStage
  <2> QED
    BY <2>1, <2>2, Zenon DEF PlaceInv, L1, L2
<1>5. CASE ChildCommit
  BY <1>0, <1>5 DEF ChildCommit, PlaceInv, L1, L2
<1>6. CASE ChildCommitFails \/ ChildUpdate \/ ChildSends \/ ChildDone
  <2>1. /\ childPC # "ready" /\ childPC' \in {"ready", "sending"} /\ fails' \in 0..MaxFails
        /\ UNCHANGED <<chains, synced, process, host, crashes>>
    BY <1>6, ConstantsAssumption, SMTT(30)
    DEF ChildCommitFails, ChildUpdate, ChildSends, ChildSend, ChildDone, CommitFails, PlaceInv
  <2> QED
    BY <2>1, Zenon DEF PlaceInv, L1, L2
<1>7. CASE SendsLoaded \/ HandleChallenge \/ UNCHANGED vars
  <2>1. UNCHANGED <<chains, synced, process, host, child, crashes, fails>>
    BY <1>7, Zenon DEF SendsLoaded, SendLoaded, HandleChallenge, vars
  <2>2. up = "down" => handling' = NoChallenge /\ starting' = {}
    BY <1>7, Zenon DEF SendsLoaded, SendLoaded, HandleChallenge, vars, PlaceInv
  <2> QED
    BY <2>1, <2>2, Zenon DEF PlaceInv, L1, L2
<1>8. CASE Start
  BY <1>8, Zenon DEF Start, PlaceInv, L1, L2
<1>9. CASE Crash
  BY <1>9, ConstantsAssumption DEF Crash, PlaceInv, L1, L2
<1>10. CASE ResetHeights
  BY <1>0, <1>10, ConstantsAssumption DEF ResetHeights, PlaceInv, L1, L2
<1> QED
  BY <1>1, <1>2, <1>3, <1>4, <1>5, <1>6, <1>7, <1>8, <1>9, <1>10, Zenon DEF Next

(* The pending events.                                                     *)
LEMMA MapStep ==
  ASSUME PlaceInv, MapInv, MemInv, [Next]_vars
  PROVE  MapInv'
<1> USE DEF db, pending, events, host, child
<1>0. EventsOf(L1, Empty) /\ L1' = L1
  <2>1. EventsOf(L1, Empty)
    BY Zenon DEF EventsOf, EventMap, Empty
  <2> QED
    BY <2>1, ChainsKept, Zenon DEF L1
<1>1. CASE HostStage
  <2> DEFINE b == L1[hostSynced + 1]
  <2>1. PICK late \in SUBSET (DOMAIN hostMem \ Followed(b)) :
          /\ hostWork'.queue = HostEvents(b)
          /\ hostWork'.last = {o \in BlockOutputs(b) : \A p \in BlockOutputs(b) : p[2] <= o[2]}
          /\ hostWork'.done = late \cup Followed(b)
          /\ hostMem' = Flag(hostMem, late)
          /\ childMem' = Flag(childMem, late \cap shared)
    BY <1>1, HostWork, Zenon
  <2>2. hostSynced + 1 \in DOMAIN L1
    BY <1>1, NextBlocks, Zenon DEF HostStage
  <2>3. EventsOf(L1, hostWork'.queue)
    BY <2>1, <2>2, NewEventMap, Zenon DEF PlaceInv
  <2>4. EventsOf(L1, hostMem') /\ EventsOf(L1, childMem')
    BY <2>1, EventMaps, Zenon DEF MapInv
  <2>5. hostWork'.last \subseteq EventIds
    <3>1. hostWork'.last \subseteq DOMAIN hostWork'.queue
      BY <2>1, Zenon DEF BlockOutputs
    <3> QED
      BY <2>3, <3>1, Zenon DEF EventsOf, EventMap
  <2>6. hostWork'.done \subseteq EventIds
    <3>1. Followed(b) \subseteq DOMAIN hostMem
      BY Zenon DEF Followed, PrevPendingEvent
    <3>2. EventsOf(L1, hostMem)
      BY Zenon DEF MapInv
    <3> QED
      BY <2>1, <3>1, <3>2, Zenon DEF EventsOf, EventMap
  <2>7. UNCHANGED <<hostPending, childPending, shared, childWork>>
    BY <1>1, Zenon DEF HostStage
  <2> QED
    BY <1>0, <2>3, <2>4, <2>5, <2>6, <2>7, Zenon DEF MapInv
<1>2. CASE HostCommit
  <2>1. /\ childPending' = Merge(childPending, hostWork.queue)
        /\ hostPending' = Without(Merge(hostPending, Restrict(hostWork.queue, hostWork.last)),
                                  hostWork.done)
        /\ hostPC = "staged" /\ UNCHANGED <<hostMem, childMem, shared, hostWork, childWork>>
    BY <1>2, Zenon DEF HostCommit
  <2>2. hostWork.last \subseteq DOMAIN hostWork.queue
    BY <2>1, Zenon DEF MemInv, HostInv
  <2>3. EventsOf(L1, childPending')
    BY <2>1, EventMaps, Zenon DEF MapInv
  <2>4. EventsOf(L1, Restrict(hostWork.queue, hostWork.last))
    BY <2>2, EventMaps, Zenon DEF MapInv
  <2>5. EventsOf(L1, Merge(hostPending, Restrict(hostWork.queue, hostWork.last)))
    BY <2>4, EventMaps, Zenon DEF MapInv
  <2>6. EventsOf(L1, hostPending')
    BY <2>1, <2>5, EventMaps, Zenon
  <2> QED
    BY <1>0, <2>1, <2>3, <2>6, Zenon DEF MapInv
<1>3. CASE HostUpdate
  <2>1. /\ childMem' = Merge(childMem, hostWork.queue)
        /\ hostMem' = Merge(Without(hostMem, hostWork.done),
                            Restrict(hostWork.queue, hostWork.last))
        /\ shared' = shared \cup hostWork.last
        /\ hostPC = "committed" /\ UNCHANGED <<hostPending, childPending, hostWork, childWork>>
    BY <1>3, Zenon DEF HostUpdate
  <2>2. hostWork.last \subseteq DOMAIN hostWork.queue
    BY <2>1, Zenon DEF MemInv, HostInv
  <2>3. EventsOf(L1, childMem')
    BY <2>1, EventMaps, Zenon DEF MapInv
  <2>4. EventsOf(L1, Restrict(hostWork.queue, hostWork.last))
    BY <2>2, EventMaps, Zenon DEF MapInv
  <2>5. EventsOf(L1, Without(hostMem, hostWork.done))
    BY EventMaps, Zenon DEF MapInv
  <2>6. EventsOf(L1, hostMem')
    BY <2>1, <2>4, <2>5, EventMaps, Zenon
  <2> QED
    BY <1>0, <2>1, <2>3, <2>6, Zenon DEF MapInv
<1>4. CASE ChildStage
  <2>1. PICK o \in Outputs(treeIndex, HostHeight) : \E late \in SUBSET DOMAIN childMem :
          /\ Check(o).ok
          /\ childWork'.done = Check(o).done
          /\ childWork'.late = Restrict(Flag(childMem, late), late)
          /\ childMem' = Flag(childMem, late)
          /\ hostMem' = Flag(hostMem, late \cap shared)
    BY <1>4, ChildWork, Zenon
  <2>2. PICK late \in SUBSET DOMAIN childMem :
          /\ childWork'.late = Restrict(Flag(childMem, late), late)
          /\ childMem' = Flag(childMem, late)
          /\ hostMem' = Flag(hostMem, late \cap shared)
    BY <2>1, Zenon
  <2>3. EventsOf(L1, hostMem') /\ EventsOf(L1, childMem')
    BY <2>2, EventMaps, Zenon DEF MapInv
  <2>4. EventsOf(L1, childWork'.late)
    <3>1. late \subseteq DOMAIN Flag(childMem, late)
      BY Zenon DEF Flag
    <3> QED
      BY <2>2, <2>3, <3>1, EventMaps, Zenon
  <2>5. childWork'.done \subseteq EventIds
    <3>1. Check(o).done \subseteq DOMAIN childMem
      BY <2>1, Zenon DEF Check, CheckValue
    <3>2. EventsOf(L1, childMem)
      BY Zenon DEF MapInv
    <3> QED
      BY <2>1, <3>1, <3>2, Zenon DEF EventsOf, EventMap
  <2>6. UNCHANGED <<hostPending, childPending, shared, hostWork>>
    BY <1>4, Zenon DEF ChildStage
  <2> QED
    BY <1>0, <2>3, <2>4, <2>5, <2>6, Zenon DEF MapInv
<1>5. CASE ChildCommit
  <2>1. /\ childPending' = Without(Merge(childPending, childWork.late), childWork.done)
        /\ UNCHANGED <<hostPending, hostMem, childMem, shared, hostWork, childWork>>
    BY <1>5, Zenon DEF ChildCommit
  <2>2. EventsOf(L1, Merge(childPending, childWork.late))
    BY EventMaps, Zenon DEF MapInv
  <2>3. EventsOf(L1, childPending')
    BY <2>1, <2>2, EventMaps, Zenon
  <2> QED
    BY <1>0, <2>1, <2>3, Zenon DEF MapInv
<1>6. CASE ChildUpdate
  <2>1. /\ childMem' = Merge(Without(childMem, childWork.done), childWork.late)
        /\ UNCHANGED <<hostPending, childPending, hostMem, shared, hostWork, childWork>>
    BY <1>6, Zenon DEF ChildUpdate
  <2>2. EventsOf(L1, Without(childMem, childWork.done))
    BY EventMaps, Zenon DEF MapInv
  <2>3. EventsOf(L1, childMem')
    BY <2>1, <2>2, EventMaps, Zenon DEF MapInv
  <2> QED
    BY <1>0, <2>1, <2>3, Zenon DEF MapInv
<1>7. CASE HostCommitFails \/ HostDone \/ ChildCommitFails \/ ChildDone \/ HandleChallenge
           \/ SendsLoaded \/ UNCHANGED vars
  <2>1. /\ UNCHANGED hostWork \/ hostWork' = HostNoWork
        /\ UNCHANGED childWork \/ childWork' = ChildNoWork
        /\ UNCHANGED <<hostPending, childPending, hostMem, childMem, shared>>
    BY <1>7, Zenon DEF HostCommitFails, HostDone, ChildCommitFails, ChildDone, HandleChallenge,
                SendsLoaded, SendLoaded, vars
  <2> QED
    BY <1>0, <2>1 DEF MapInv, HostNoWork, ChildNoWork
<1>8. CASE HostSends \/ ChildSends
  <2>1. UNCHANGED <<hostPending, childPending, hostMem, childMem, shared>>
    BY <1>8, Zenon DEF HostSends, HostSend, ChildSends, ChildSend
  <2> QED
    BY <1>0, <1>8, <2>1, SendsFrame, Zenon DEF MapInv
<1>9. CASE Start
  BY <1>0, <1>9, Zenon DEF Start, MapInv
<1>10. CASE Crash
  <2>1. /\ hostWork' = HostNoWork /\ childWork' = ChildNoWork /\ shared' = {}
        /\ hostMem' = Empty /\ childMem' = Empty /\ UNCHANGED <<hostPending, childPending>>
    BY <1>10, Zenon DEF Crash
  <2> QED
    BY <1>0, <2>1, Zenon DEF MapInv, HostNoWork, ChildNoWork
<1>11. CASE ResetHeights
  BY <1>0, <1>11, Zenon DEF ResetHeights, MapInv
<1> QED
  BY <1>1, <1>2, <1>3, <1>4, <1>5, <1>6, <1>7, <1>8, <1>9, <1>10, <1>11, Zenon DEF Next

(* The challenges of a staged block.                                       *)
LEMMA StagedChallenges ==
  ASSUME PlaceInv, MapInv
  PROVE  /\ HostStage => \A c \in hostWork'.out : IsChallenge(c)
         /\ ChildStage => \A c \in childWork'.out : IsChallenge(c)
<1>0. DOMAIN hostMem \subseteq EventIds /\ DOMAIN childMem \subseteq EventIds
  BY Zenon DEF MapInv, EventsOf, EventMap
<1>1. ASSUME NEW id \in EventIds, NEW t \in Nat, NEW k \in {"mismatch", "timeout"}
      PROVE  IsChallenge(Challenge(id, t, k))
  BY Zenon DEF IsChallenge, Challenge
<1>2. ASSUME HostStage PROVE \A c \in hostWork'.out : IsChallenge(c)
  <2> DEFINE time == L1[hostSynced + 1].time
  <2>1. PICK late \in SUBSET DOMAIN hostMem : hostWork'.out = Timeouts(late, time)
    BY <1>2, HostWork, Zenon
  <2>2. time \in Nat
    BY <1>2, NextBlocks, Zenon DEF HostStage
  <2> QED
    BY <1>0, <1>1, <2>1, <2>2, Zenon DEF Timeouts
<1>3. ASSUME ChildStage PROVE \A c \in childWork'.out : IsChallenge(c)
  <2> DEFINE time == L2[childSynced + 1].time
  <2>1. PICK o \in Outputs(treeIndex, HostHeight), late \in SUBSET DOMAIN childMem :
          childWork'.out = Timeouts(late, time) \cup Mismatches(o)
    BY <1>3, ChildWork, Zenon
  <2>2. time \in Nat
    BY <1>3, NextBlocks, Zenon DEF ChildStage
  <2>3. Check(o).wrong \subseteq DOMAIN childMem
    BY Zenon DEF Check, CheckValue
  <2> QED
    BY <1>0, <1>1, <2>1, <2>2, <2>3, Zenon DEF Timeouts, Mismatches
<1> QED
  BY <1>2, <1>3, Zenon

(* The types hold of every state.                                          *)
LEMMA TypeInvariant == Spec => []TypeInv
<1>1. Init => TypeInv
  <2> SUFFICES ASSUME Init PROVE TypeInv
    BY Zenon
  <2> USE DEF Init
  <2>1. PlaceInv
    BY ChainFacts, ConstantsAssumption DEF PlaceInv, Steps, HostNoWork, ChildNoWork
  <2>2. MapInv
    BY Zenon DEF MapInv, EventsOf, EventMap, Empty, HostNoWork, ChildNoWork
  <2>3. ChallengeInv
    BY Zenon DEF ChallengeInv, KeyInv, AllChallenges, Range, Empty, HostNoWork, ChildNoWork
  <2> QED
    BY <2>1, <2>2, <2>3, Zenon DEF TypeInv
<1>2. TypeInv /\ MemInv /\ [Next]_vars => TypeInv'
  <2> SUFFICES ASSUME TypeInv, MemInv, [Next]_vars PROVE TypeInv'
    BY Zenon
  <2>1. PlaceInv' /\ MapInv'
    BY PlaceStep, MapStep, Zenon DEF TypeInv
  <2>2. ChallengeInv'
    BY ChallengeFlow, StagedChallenges, Zenon DEF TypeInv, ChallengeInv
  <2> QED
    BY <2>1, <2>2, Zenon DEF TypeInv
<1> QED
  BY <1>1, <1>2, MemoryInvariant, PTL DEF Spec

-----------------------------------------------------------------------------
(* Marks in memory.                                                        *)

(* A commit adds its challenges, and only a start that finds a loop        *)
(* without a synced height deletes some.                                   *)
LEMMA ChallengedGrows ==
  ASSUME TimeoutInv, [Next]_vars
  PROVE  /\ ~Start \/ childSynced > 0 => Challenged \subseteq Challenged'
         /\ HostCommit => Ids(hostWork.out) \subseteq Challenged'
         /\ ChildCommit => Ids(childWork.out) \subseteq Challenged'
<1> USE DEF db, stored
<1>1. ASSUME HostCommit PROVE Challenged' = Challenged \cup Ids(hostWork.out)
  <2>1. /\ pendingChallenges' = SavePendingChallenges(pendingChallenges, hostWork.out)
        /\ challenges' = challenges
    BY <1>1, Zenon DEF HostCommit
  <2>2. DOMAIN pendingChallenges' = DOMAIN pendingChallenges \cup Ids(hostWork.out)
    BY <2>1, SavedIds, Zenon
  <2> QED
    BY <2>1, <2>2, Zenon DEF Challenged
<1>2. ASSUME ChildCommit PROVE Challenged' = Challenged \cup Ids(childWork.out)
  <2>1. /\ pendingChallenges' = SavePendingChallenges(pendingChallenges, childWork.out)
        /\ challenges' = challenges
    BY <1>2, Zenon DEF ChildCommit
  <2>2. DOMAIN pendingChallenges' = DOMAIN pendingChallenges \cup Ids(childWork.out)
    BY <2>1, SavedIds, Zenon
  <2> QED
    BY <2>1, <2>2, Zenon DEF Challenged
<1>3. ASSUME HandleChallenge PROVE Challenged \subseteq Challenged'
  <2>1. /\ pendingChallenges' = Without(pendingChallenges, {handling.id})
        /\ challenges' = {c \in challenges : <<c.time, c.id>> # <<handling.time, handling.id>>}
                           \cup {handling}
    BY <1>3, Zenon DEF HandleChallenge
  <2>2. DOMAIN pendingChallenges' = DOMAIN pendingChallenges \ {handling.id}
    BY <2>1, WithoutFacts, Zenon
  <2>3. (\A c \in challenges : c.id # handling.id => c \in challenges') /\ handling \in challenges'
    BY <2>1, Zenon
  <2> QED
    BY <2>2, <2>3, Zenon DEF Challenged
<1>4. ASSUME Start, childSynced > 0 PROVE Challenged \subseteq Challenged'
  <2>1. HostInitialTime \cup ChildInitialTime = {}
    BY <1>4 DEF HostInitialTime, ChildInitialTime, TimeoutInv
  <2>2. challenges' = challenges /\ pendingChallenges' = pendingChallenges
    BY <1>4, <2>1, Zenon DEF Start, DeleteFutureChallenges
  <2> QED
    BY <2>2, Zenon DEF Challenged
<1>5. ASSUME ~HostCommit, ~ChildCommit, ~HandleChallenge, ~Start
      PROVE  UNCHANGED <<pendingChallenges, challenges>>
  BY <1>5, Zenon DEF Next, HostStage, HostCommitFails, HostUpdate, HostSends, HostSend, HostDone,
              ChildStage, ChildCommitFails, ChildUpdate, ChildSends, ChildSend, ChildDone,
              SendsLoaded, SendLoaded, Crash, ResetHeights, vars
<1> QED
  BY <1>1, <1>2, <1>3, <1>4, <1>5, Zenon DEF Challenged

(* Marking adds marks only for the marked ids.                             *)
LEMMA FlagMarks ==
  ASSUME NEW f, NEW S, NEW id \in DOMAIN Flag(f, S), Flag(f, S)[id].timeout
  PROVE  id \in DOMAIN f /\ (f[id].timeout \/ id \in S)
BY Zenon DEF Flag

(* What is late is challenged.                                             *)
LEMMA TimeoutIds ==
  ASSUME NEW S, NEW t, NEW C
  PROVE  S \subseteq Ids(Timeouts(S, t)) /\ S \subseteq Ids(Timeouts(S, t) \cup C)
<1>1. ASSUME NEW id \in S
      PROVE  Challenge(id, t, "timeout") \in Timeouts(S, t) /\ Challenge(id, t, "timeout").id = id
  BY Zenon DEF Timeouts, Challenge
<1> QED
  BY <1>1, Zenon DEF Ids

(* Every mark in memory is accounted for after every step.                 *)
LEMMA SilentStep ==
  ASSUME TypeInv, MemInv, TimeoutInv, SilentInv, TypeInv', TimeoutInv', [Next]_vars
  PROVE  SilentInv'
<1> DEFINE Marked == {id \in DOMAIN childMem : childMem[id].timeout}
           Answered == Challenged \cup
             (IF hostPC = "staged" THEN Ids(hostWork.out) ELSE {}) \cup
             (IF childPC = "staged" THEN Ids(childWork.out) ELSE {})
           Late == IF childPC = "committed" THEN DOMAIN childWork.late ELSE {}
<1> USE DEF db, events, host, child, history
<1>1. SUFFICES (fails' = 0 => Marked' \subseteq Answered') /\ Late' \subseteq Challenged'
  BY Zenon DEF SilentInv
<1>2. (fails = 0 => Marked \subseteq Answered) /\ Late \subseteq Challenged
  BY Zenon DEF SilentInv
<1>3. fails \in Nat /\ (fails' = 0 => fails = 0)
  <2>1. fails \in Nat
    BY DEF TypeInv, PlaceInv
  <2>2. fails' \in {fails, fails + 1}
    BY Zenon DEF Next, HostStage, HostCommit, HostCommitFails, HostUpdate, HostSends, HostSend,
           HostDone, ChildStage, ChildCommit, ChildCommitFails, ChildUpdate, ChildSends,
           ChildSend, ChildDone, SendsLoaded, SendLoaded, HandleChallenge, Start, Crash,
           ResetHeights, CommitFails, vars
  <2> QED
    BY <2>1, <2>2
<1>4. ~Start => Challenged \subseteq Challenged'
  BY ChallengedGrows, Zenon
<1>5. CASE HostStage
  <2>1. PICK late \in SUBSET DOMAIN hostMem :
          /\ hostWork'.out = Timeouts(late, L1[hostSynced + 1].time)
          /\ childMem' = Flag(childMem, late \cap shared)
    BY <1>5, HostWork, Zenon
  <2>2. late \subseteq Ids(hostWork'.out)
    BY <2>1, TimeoutIds, Zenon
  <2>3. /\ hostPC = "ready" /\ hostPC' = "staged"
        /\ UNCHANGED <<childPC, childWork, pendingChallenges, challenges>>
    BY <1>5, Zenon DEF HostStage, stored
  <2>4. Marked' \subseteq Marked \cup late
    BY <2>1, FlagMarks
  <2>5. Answered' = Answered \cup Ids(hostWork'.out) /\ Late' = Late /\ Challenged' = Challenged
    BY <2>3, Zenon DEF Challenged
  <2> HIDE DEF Marked, Answered, Late
  <2> QED
    BY <1>2, <1>3, <2>2, <2>4, <2>5, Zenon
<1>6. CASE ChildStage
  <2>1. PICK o \in Outputs(treeIndex, HostHeight), late \in SUBSET DOMAIN childMem :
          /\ childWork'.out = Timeouts(late, L2[childSynced + 1].time) \cup Mismatches(o)
          /\ childMem' = Flag(childMem, late)
    BY <1>6, ChildWork, Zenon
  <2>2. late \subseteq Ids(childWork'.out)
    BY <2>1, TimeoutIds, Zenon
  <2>3. /\ childPC = "ready" /\ childPC' = "staged"
        /\ UNCHANGED <<hostPC, hostWork, pendingChallenges, challenges>>
    BY <1>6, Zenon DEF ChildStage, stored
  <2>4. Marked' \subseteq Marked \cup late
    BY <2>1, FlagMarks, Zenon
  <2>5. Answered' = Answered \cup Ids(childWork'.out) /\ Late' = {}
    BY <2>3, Zenon DEF Challenged
  <2> HIDE DEF Marked, Answered, Late
  <2> QED
    BY <1>2, <1>3, <2>2, <2>4, <2>5, Zenon
<1>7. CASE HostCommit \/ ChildCommit
  <2>1. Answered \subseteq Answered'
    <3>1. CASE HostCommit
      <4>1. hostPC' = "committed" /\ UNCHANGED <<childPC, childWork>>
        BY <3>1, Zenon DEF HostCommit
      <4> QED
        BY <1>4, <3>1, <4>1, ChallengedGrows, Zenon DEF HostCommit, Start
    <3>2. CASE ChildCommit
      <4>1. childPC' = "committed" /\ UNCHANGED <<hostPC, hostWork>>
        BY <3>2, Zenon DEF ChildCommit
      <4> QED
        BY <1>4, <3>2, <4>1, ChallengedGrows, Zenon DEF ChildCommit, Start
    <3> QED
      BY <1>7, <3>1, <3>2, Zenon
  <2>2. Marked' = Marked
    BY <1>7, Zenon DEF HostCommit, ChildCommit
  <2>3. Late' \subseteq Challenged'
    <3>1. CASE HostCommit
      BY <1>2, <1>4, <3>1, Zenon DEF HostCommit, Start
    <3>2. CASE ChildCommit
      <4>1. childPC = "staged" /\ UNCHANGED childWork /\ Ids(childWork.out) \subseteq Challenged'
        BY <3>2, ChallengedGrows, Zenon DEF ChildCommit
      <4> QED
        BY <4>1, Zenon DEF TimeoutInv
    <3> QED
      BY <1>7, <3>1, <3>2, Zenon
  <2> HIDE DEF Marked, Answered, Late
  <2> QED
    BY <1>2, <1>3, <2>1, <2>2, <2>3, Zenon
<1>8. CASE HostUpdate
  <2>1. childMem' = Merge(childMem, hostWork.queue)
    BY <1>8, Zenon DEF HostUpdate
  <2>2. Marked' \subseteq Marked
    BY <2>1, Zenon DEF Merge, TimeoutInv
  <2>3. Answered \subseteq Answered' /\ Late' = Late /\ Challenged' = Challenged
    BY <1>8, Zenon DEF HostUpdate, Challenged, stored
  <2> HIDE DEF Marked, Answered, Late
  <2> QED
    BY <1>2, <1>3, <2>2, <2>3, Zenon
<1>9. CASE ChildUpdate
  <2>1. /\ childMem' = Merge(Without(childMem, childWork.done), childWork.late)
        /\ childPC = "committed" /\ childPC' = "sending"
        /\ UNCHANGED <<hostPC, hostWork, childWork, pendingChallenges, challenges>>
    BY <1>9, Zenon DEF ChildUpdate, stored
  <2>2. Marked' \subseteq Marked \cup Late
    BY <2>1, Zenon DEF Merge, Without, Restrict
  <2>3. Answered' = Answered /\ Late' = {} /\ Challenged \subseteq Answered
    BY <2>1, Zenon DEF Challenged
  <2> HIDE DEF Marked, Answered, Late
  <2> QED
    BY <1>2, <1>3, <2>2, <2>3, Zenon
<1>10. CASE HostCommitFails \/ ChildCommitFails
  <2>1. fails' # 0
    BY <1>3, <1>10 DEF HostCommitFails, ChildCommitFails, CommitFails
  <2>2. Late' \subseteq Late /\ Challenged' = Challenged
    BY <1>10, Zenon DEF HostCommitFails, ChildCommitFails, Challenged, stored
  <2> QED
    BY <1>2, <2>1, <2>2, Zenon
<1>11. CASE \/ HostSends \/ HostDone \/ ChildSends \/ ChildDone \/ SendsLoaded
            \/ HandleChallenge \/ UNCHANGED vars
  <2>1. /\ hostPC = "staged" => hostPC' = "staged" /\ UNCHANGED hostWork
        /\ childPC = "staged" => childPC' = "staged" /\ UNCHANGED childWork
        /\ childPC' = "committed" => childPC = "committed" /\ UNCHANGED childWork
        /\ childMem' = childMem
    BY <1>11, Zenon DEF HostSends, HostSend, HostDone, ChildSends, ChildSend, ChildDone, SendsLoaded,
                 SendLoaded, HandleChallenge, vars
  <2>2. Challenged \subseteq Challenged'
    BY <1>11, ChallengedGrows, Zenon
    DEF Start, HostSends, HostSend, HostDone, ChildSends, ChildSend, ChildDone, SendsLoaded,
        SendLoaded, HandleChallenge, vars, process, Challenged, stored
  <2>3. Marked' = Marked /\ Answered \subseteq Answered' /\ Late' \subseteq Late
    BY <2>1, <2>2, Zenon
  <2> HIDE DEF Marked, Answered, Late
  <2> QED
    BY <1>2, <1>3, <2>2, <2>3, Zenon
<1>12. CASE Start
  <2>1. childMem' = childPending' /\ childPC' # "committed"
    BY <1>12, Zenon DEF Start, pending, TypeInv, PlaceInv
  <2> QED
    BY <2>1, Zenon DEF TimeoutInv
<1>13. CASE Crash \/ ResetHeights
  <2>1. childMem' = Empty /\ childPC' = "ready"
    BY <1>13, Zenon DEF Crash, ResetHeights, MemInv, ShapeInv
  <2> QED
    BY <2>1, Zenon DEF Empty
<1> QED
  BY <1>5, <1>6, <1>7, <1>8, <1>9, <1>10, <1>11, <1>12, <1>13, Zenon DEF Next

(* The marks that the two loops share never silence a timeout, as long as  *)
(* every commit succeeds: between two blocks a marked event in memory has  *)
(* a challenge, pending or recorded.                                       *)
THEOREM MarksAnswered == Spec => []NoSilentTimeout
<1>1. Init => SilentInv
  BY Zenon DEF Init, SilentInv, Empty
<1>2. TypeInv /\ MemInv /\ TimeoutInv /\ SilentInv /\ TypeInv' /\ TimeoutInv' /\ [Next]_vars
        => SilentInv'
  BY SilentStep, Zenon
<1>3. SilentInv => NoSilentTimeout
  BY Zenon DEF SilentInv, NoSilentTimeout
<1> QED
  BY <1>1, <1>2, <1>3, TypeInvariant, MemoryInvariant, TimeoutInvariant, PTL DEF Spec
=============================================================================
