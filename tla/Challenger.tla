----------------------------- MODULE Challenger -----------------------------
(***************************************************************************)
(* The challenger (challenger/): two block loops and one challenge handler *)
(* over one database.                                                      *)
(*                                                                         *)
(* The host loop reads L1 blocks and saves what L2 has to repeat (deposits *)
(* and oracle updates) or what the bot has to replay (outputs) as pending  *)
(* events of the child.  The child loop reads L2 blocks, compares what it  *)
(* finds with the pending events and raises a challenge for a difference   *)
(* or for an event that is too late.  The host loop itself raises one when *)
(* no new output follows the last one in time.  A challenge is committed   *)
(* as pending with the block that raised it, handed over an unbuffered     *)
(* channel, and recorded by the challenge handler.                         *)
(*                                                                         *)
(* Each block has four steps: its events are checked and staged, the stage *)
(* is committed, the pending events in memory are updated, and the         *)
(* challenges are handed over.  Steps of the two loops, of the handler and *)
(* of the goroutine that hands over the challenges of an earlier run       *)
(* interleave.  Both chains are fixed at the start: a block that the bot   *)
(* has not read is the same to it as a block that does not exist yet.      *)
(*                                                                         *)
(* An event is a pair <<type, number>> with a value; every field that      *)
(* Equal compares is part of the value.  The value of an output is the     *)
(* pair <<L2 block, root>>, and Right is the root that replaying L2 gives. *)
(* Height 0 stands for the height before the first one to process.         *)
(***************************************************************************)
EXTENDS Integers, Sequences, FiniteSets, Functions

CONSTANTS
  Histories,       \* the pairs of chains to consider
  Right,           \* the root that replaying L2 gives
  Interval,        \* SubmissionInterval, the time an event may take
  MaxCrashes,      \* bound: stops of the process and resets
  MaxFails         \* bound: failing commits

EventTypes == {"Deposit", "Output", "Oracle", "OracleRelay"}
OracleTypes == {"Oracle", "OracleRelay"}
EventIds == EventTypes \X (Nat \ {0})

IsBlock(b) ==
  /\ DOMAIN b = {"time", "events"}
  /\ b.time \in Nat
  /\ DOMAIN b.events \subseteq EventIds /\ IsFiniteSet(DOMAIN b.events)

IsChain(c) ==
  /\ Len(c) \in Nat /\ DOMAIN c = 1..Len(c)
  /\ \A n \in DOMAIN c : IsBlock(c[n])

ASSUME ConstantsAssumption ==
  /\ \A h \in Histories : IsChain(h.l1) /\ IsChain(h.l2)
  /\ Interval \in Nat /\ MaxCrashes \in Nat /\ MaxFails \in Nat

(* What the chains see to.  An event id occurs in one L1 block: the        *)
(* sequence of deposits only grows, the number of an oracle update is the  *)
(* height of its block, no output is deleted and proposed again, and no    *)
(* price hash stays for several blocks.                                    *)
UniqueEvents(c) ==
  \A m, n \in DOMAIN c : \A id \in DOMAIN c[m].events \cap DOMAIN c[n].events : m = n

(* Of two outputs or two oracle updates of one type, the one with the      *)
(* lower number is not in a later block.                                   *)
NumbersInOrder(c) ==
  \A m, n \in DOMAIN c : \A i \in DOMAIN c[m].events, j \in DOMAIN c[n].events :
    i[1] = j[1] /\ i[1] # "Deposit" /\ i[2] < j[2] => m <= n

(* A later output covers more L2 blocks.                                   *)
OutputsRise(c) ==
  \A m, n \in DOMAIN c : \A i \in DOMAIN c[m].events, j \in DOMAIN c[n].events :
    i[1] = "Output" /\ j[1] = "Output" =>
      /\ c[m].events[i][1] \in Nat \ {0}
      /\ i[2] < j[2] => c[m].events[i][1] < c[n].events[j][1]

(* L2 finalizes the deposits one after the other.                          *)
DepositsInOrder(c) ==
  \A n \in DOMAIN c : \A id \in DOMAIN c[n].events : id[1] = "Deposit" =>
    \A s \in 1..id[2] : \E m \in 1..n : <<"Deposit", s>> \in DOMAIN c[m].events

ASSUME ChainsAssumption ==
  \A h \in Histories :
    UniqueEvents(h.l1) /\ NumbersInOrder(h.l1) /\ OutputsRise(h.l1) /\ DepositsInOrder(h.l2)

VARIABLES
  chains,            \* L1 and L2
  (* the database *)
  hostSynced,        \* synced height of the host
  childSynced,       \* synced height of the child
  treeIndex,         \* index of the working tree of the next L2 block
  hostPending,       \* pending_event/ of the host: the last output
  childPending,      \* pending_event/ of the child
  pendingChallenges, \* pending_challenge/, one per event id
  challenges,        \* challenge/, one per time and event id
  (* memory *)
  up,                \* "run" or "down"
  initialL1Sequence, \* the host passes older deposits
  hostMem,           \* pendingEvents of the host's event handler
  childMem,          \* pendingEvents of the child's event handler
  shared,            \* outputs that both handlers hold as one object
  hostPC, hostWork,  \* the host's step and what its block computed
  childPC, childWork,\* the child's step and what its block computed
  starting,          \* loaded challenges still to hand over
  handling,          \* the challenge in the handler
  (* history *)
  raised,            \* every challenge a block committed
  crashes, fails     \* what the bounds count

synced == <<hostSynced, childSynced, treeIndex>>
pending == <<hostPending, childPending>>
stored == <<pendingChallenges, challenges>>
db == <<synced, pending, stored>>
host == <<hostPC, hostWork>>
child == <<childPC, childWork>>
events == <<hostMem, childMem, shared>>
process == <<up, initialL1Sequence>>
handover == <<starting, handling>>
history == <<raised, crashes, fails>>
vars == <<chains, db, process, events, host, child, handover, history>>

L1 == chains.l1
L2 == chains.l2
Steps == {"ready", "staged", "committed", "sending"}
Challenge(id, time, kind) == [id |-> id, time |-> time, kind |-> kind]
NoChallenge == Challenge(<<"Deposit", 0>>, 0, "none")

Merge(f, g) ==
  [x \in DOMAIN f \cup DOMAIN g |-> IF x \in DOMAIN g THEN g[x] ELSE f[x]]
Without(f, S) == Restrict(f, DOMAIN f \ S)
Empty == [x \in {} |-> x]

-----------------------------------------------------------------------------
(* Pending events and challenges.                                          *)

PastDueEarly(e, time) == time >= e.time + Interval
PastDue(e, time) == time > e.time + Interval
Flag(mem, ids) ==
  [id \in DOMAIN mem |-> IF id \in ids THEN [mem[id] EXCEPT !.timeout = TRUE]
                                       ELSE mem[id]]

Unprocessed(mem, done) == DOMAIN mem \ done

(* The events that CheckTimeout flags.  It reads and sets the flag without *)
(* a lock, so a flag that the other loop is just setting (`racing') may    *)
(* still read false.                                                       *)
CheckTimeout(mem, done, time, racing) ==
  LET due == {id \in Unprocessed(mem, done) : PastDue(mem[id], time)}
      unset == {id \in due : ~mem[id].timeout}
  IN  {unset \cup r : r \in SUBSET (due \cap racing)}

TimeoutsOfOutputs(ids, time) ==
  {Challenge(id, time, "timeout") : id \in {i \in ids : i[1] = "Output"}}
Timeouts(ids, time) == {Challenge(id, time, "timeout") : id \in ids}

SavePendingChallenges(f, out) ==
  Merge(f, [id \in {c.id : c \in out} |-> CHOOSE c \in out : c.id = id])

CommitFails ==
  /\ fails < MaxFails
  /\ fails' = fails + 1

-----------------------------------------------------------------------------
(* The host.                                                               *)

HostNoWork == [queue |-> Empty, last |-> {}, done |-> {}, out |-> {}]

HostEventsSkipNext(b) ==
  [id \in {i \in DOMAIN b.events : i[1] = "Deposit" => i[2] > initialL1Sequence}
     |-> [val |-> b.events[id], time |-> b.time, timeout |-> FALSE]]

(* The events a block adds: a deposit that L2 had finalized when the bot   *)
(* started is passed.                                                      *)
HostEvents(b) ==
  [id \in {i \in DOMAIN b.events : i[1] = "Deposit" => i[2] >= initialL1Sequence}
     |-> [val |-> b.events[id], time |-> b.time, timeout |-> FALSE]]

(* The pending output before the proposed ones.                            *)
PrevPendingEvent(mem, outputs) ==
  {id \in DOMAIN mem : /\ \E o \in outputs : id = <<"Output", o[2] - 1>>
                       /\ \A o \in outputs : id[2] < o[2]}

HostStage ==
  /\ up = "run" /\ hostPC = "ready"
  /\ hostSynced < Len(L1)
  /\ LET b == L1[hostSynced + 1]
         queue == HostEvents(b)
         outputs == {id \in DOMAIN queue : id[1] = "Output"}
         prev == PrevPendingEvent(hostMem, outputs)
         racing == IF childPC = "staged" THEN shared \cap DOMAIN childWork.late ELSE {}
     IN  \E late \in CheckTimeout(hostMem, prev, b.time, racing) :
           /\ hostWork' = [queue |-> queue,
                           last |-> {o \in outputs : \A p \in outputs : p[2] <= o[2]},
                           done |-> late \cup prev,
                           out |-> Timeouts(late, b.time)]
           /\ hostMem' = Flag(hostMem, late)
           /\ childMem' = Flag(childMem, late \cap shared)
  /\ hostPC' = "staged"
  /\ UNCHANGED <<chains, db, process, shared, child, handover, history>>

HostCommitNoChallenge ==
  /\ hostPC = "staged"
  /\ hostSynced' = hostSynced + 1
  /\ childPending' = Merge(childPending, hostWork.queue)
  /\ hostPending' = Without(Merge(hostPending, Restrict(hostWork.queue, hostWork.last)),
                            hostWork.done)
  /\ hostPC' = "committed"
  /\ UNCHANGED <<chains, childSynced, treeIndex, stored, process, events,
                 hostWork, child, handover, history>>

(* The last output is saved first and the processed events are deleted     *)
(* afterwards.                                                             *)
HostCommit ==
  /\ hostPC = "staged"
  /\ hostSynced' = hostSynced + 1
  /\ childPending' = Merge(childPending, hostWork.queue)
  /\ hostPending' = Without(Merge(hostPending, Restrict(hostWork.queue, hostWork.last)),
                            hostWork.done)
  /\ pendingChallenges' = SavePendingChallenges(pendingChallenges, hostWork.out)
  /\ raised' = raised \cup hostWork.out
  /\ hostPC' = "committed"
  /\ UNCHANGED <<chains, childSynced, treeIndex, challenges, process, events,
                 hostWork, child, handover, crashes, fails>>

(* The block is tried again; what was flagged stays flagged.               *)
HostCommitFails ==
  /\ hostPC = "staged"
  /\ CommitFails
  /\ hostPC' = "ready"
  /\ hostWork' = HostNoWork
  /\ UNCHANGED <<chains, db, process, events, child, handover, raised, crashes>>

HostUpdate ==
  /\ hostPC = "committed"
  /\ childMem' = Merge(childMem, hostWork.queue)
  /\ hostMem' = Merge(Without(hostMem, hostWork.done),
                      Restrict(hostWork.queue, hostWork.last))
  /\ shared' = shared \cup hostWork.last
  /\ hostPC' = "sending"
  /\ UNCHANGED <<chains, db, process, hostWork, child, handover, history>>

HostSend(c) ==
  /\ hostPC = "sending" /\ c \in hostWork.out
  /\ handling = NoChallenge
  /\ handling' = c
  /\ hostWork' = [hostWork EXCEPT !.out = @ \ {c}]
  /\ UNCHANGED <<chains, db, process, events, hostPC, child, starting, history>>

(* UpdateSyncedHeight: the loop moves on.                                  *)
HostDone ==
  /\ hostPC = "sending" /\ hostWork.out = {}
  /\ hostPC' = "ready"
  /\ hostWork' = HostNoWork
  /\ UNCHANGED <<chains, db, process, events, child, handover, history>>

(* h.Height() - 1                                                          *)
HostHeight == IF hostPC \in {"committed", "sending"} THEN hostSynced - 1 ELSE hostSynced

-----------------------------------------------------------------------------
(* The child.                                                              *)

ChildNoWork == [done |-> {}, late |-> Empty, out |-> {}, tree |-> 0]

(* The proposals of output i in the L1 state at some height.               *)
Outputs(i, height) ==
  {L1[n].events[<<"Output", i>>] : n \in {k \in 1..height :
                                            <<"Output", i>> \in DOMAIN L1[k].events}}

(* What block n of L2 has to say about events: its own deposits and oracle *)
(* updates, and the replayed output when it is the last one of its tree.   *)
ChildEvents(n, i, final) ==
  IF final = n THEN Merge(L2[n].events, [id \in {<<"Output", i>>} |-> <<n, Right>>])
               ELSE L2[n].events

(* An oracle update settles all older ones of its type.                    *)
Clears(j, id) == j[1] = id[1] /\ j[1] \in OracleTypes /\ id[2] < j[2]

(* Compares what was found with the pending events: the ids that differ    *)
(* and those that are settled.  It fails while a pending event is missing. *)
CheckValue(mem, found) ==
  [ok |-> DOMAIN found \subseteq DOMAIN mem,
   wrong |-> {id \in DOMAIN found \cap DOMAIN mem : mem[id].val # found[id]},
   done |-> DOMAIN found \cup {id \in DOMAIN mem : \E j \in DOMAIN found : Clears(j, id)}]

(* The child waits for the output its tree belongs to, and for the events  *)
(* that its block mentions.  It panics on a tree it should have closed.    *)
ChildStage ==
  /\ up = "run" /\ childPC = "ready"
  /\ childSynced < Len(L2)
  /\ LET n == childSynced + 1
         time == L2[n].time
     IN  \E o \in Outputs(treeIndex, HostHeight) :
           LET found == ChildEvents(n, treeIndex, o[1])
               check == CheckValue(childMem, found)
               racing == IF hostPC = "staged" THEN shared \cap hostWork.done ELSE {}
           IN  /\ o[1] >= n
               /\ check.ok
               /\ \E late \in CheckTimeout(childMem, check.done, time, racing) :
                    /\ childWork' = [done |-> check.done,
                                     late |-> Restrict(Flag(childMem, late), late),
                                     out |-> Timeouts(late, time) \cup
                                       {Challenge(id, time, "mismatch") : id \in check.wrong},
                                     tree |-> IF o[1] = n THEN treeIndex + 1 ELSE treeIndex]
                    /\ childMem' = Flag(childMem, late)
                    /\ hostMem' = Flag(hostMem, late \cap shared)
  /\ childPC' = "staged"
  /\ UNCHANGED <<chains, db, process, shared, host, handover, history>>

ChildCommitNoChallenge ==
  /\ childPC = "staged"
  /\ childSynced' = childSynced + 1
  /\ treeIndex' = childWork.tree
  /\ childPending' = Without(Merge(childPending, childWork.late), childWork.done)
  /\ childPC' = "committed"
  /\ UNCHANGED <<chains, hostSynced, hostPending, stored, process, events, host,
                 childWork, handover, history>>

ChildCommitOldTree ==
  /\ childPC = "staged"
  /\ childSynced' = childSynced + 1
  /\ childPending' = Without(Merge(childPending, childWork.late), childWork.done)
  /\ pendingChallenges' = SavePendingChallenges(pendingChallenges, childWork.out)
  /\ raised' = raised \cup childWork.out
  /\ childPC' = "committed"
  /\ UNCHANGED <<chains, hostSynced, treeIndex, hostPending, challenges, process,
                 events, host, childWork, handover, crashes, fails>>

ChildCommit ==
  /\ childPC = "staged"
  /\ childSynced' = childSynced + 1
  /\ treeIndex' = childWork.tree
  /\ childPending' = Without(Merge(childPending, childWork.late), childWork.done)
  /\ pendingChallenges' = SavePendingChallenges(pendingChallenges, childWork.out)
  /\ raised' = raised \cup childWork.out
  /\ childPC' = "committed"
  /\ UNCHANGED <<chains, hostSynced, hostPending, challenges, process, events,
                 host, childWork, handover, crashes, fails>>

ChildCommitFails ==
  /\ childPC = "staged"
  /\ CommitFails
  /\ childPC' = "ready"
  /\ childWork' = ChildNoWork
  /\ UNCHANGED <<chains, db, process, events, host, handover, raised, crashes>>

ChildUpdateKeepsDone ==
  /\ childPC = "committed"
  /\ childMem' = Merge(childMem, childWork.late)
  /\ childPC' = "sending"
  /\ UNCHANGED <<chains, db, process, hostMem, shared, host, childWork, handover,
                 history>>

ChildUpdate ==
  /\ childPC = "committed"
  /\ childMem' = Merge(Without(childMem, childWork.done), childWork.late)
  /\ childPC' = "sending"
  /\ UNCHANGED <<chains, db, process, hostMem, shared, host, childWork, handover,
                 history>>

ChildSend(c) ==
  /\ childPC = "sending" /\ c \in childWork.out
  /\ handling = NoChallenge
  /\ handling' = c
  /\ childWork' = [childWork EXCEPT !.out = @ \ {c}]
  /\ UNCHANGED <<chains, db, process, events, host, childPC, starting, history>>

ChildDone ==
  /\ childPC = "sending" /\ childWork.out = {}
  /\ childPC' = "ready"
  /\ childWork' = ChildNoWork
  /\ UNCHANGED <<chains, db, process, events, host, handover, history>>

-----------------------------------------------------------------------------
(* The challenger.                                                         *)

(* The goroutine that hands over what an earlier run left pending.         *)
SendLoaded(c) ==
  /\ c \in starting
  /\ handling = NoChallenge
  /\ handling' = c
  /\ starting' = starting \ {c}
  /\ UNCHANGED <<chains, db, process, events, host, child, history>>

HandleChallengeOnce ==
  /\ handling # NoChallenge
  /\ pendingChallenges' = Without(pendingChallenges, {handling.id})
  /\ challenges' = challenges \cup {handling}
  /\ UNCHANGED <<chains, synced, pending, process, events, host, child, handover,
                 history>>

(* The handler removes the pending challenge of the same event id and      *)
(* records the challenge under its time and event id.                      *)
HandleChallenge ==
  /\ handling # NoChallenge
  /\ pendingChallenges' = Without(pendingChallenges, {handling.id})
  /\ challenges' = {c \in challenges : <<c.time, c.id>> # <<handling.time, handling.id>>}
                     \cup {handling}
  /\ handling' = NoChallenge
  /\ UNCHANGED <<chains, synced, pending, process, events, host, child, starting,
                 history>>

LastL1Sequence(height) ==
  LET final == UNION {{id[2] : id \in {i \in DOMAIN L2[n].events : i[1] = "Deposit"}}
                        : n \in {k \in 1..Len(L2) : k <= height}}
  IN  CHOOSE s \in {0} \cup final : \A f \in final : f <= s

(* next_l1_sequence in the L2 state at some height                         *)
NextL1Sequence(height) ==
  LET final == UNION {{id[2] : id \in {i \in DOMAIN L2[n].events : i[1] = "Deposit"}}
                        : n \in {k \in 1..Len(L2) : k <= height}}
  IN  CHOOSE s \in {1} \cup {f + 1 : f \in final} : \A f \in final : f < s

(* The times of the first blocks of the loops without a synced height.     *)
HostInitialTime == {L1[n].time : n \in {k \in DOMAIN L1 : k = 1 /\ hostSynced = 0}}
ChildInitialTime == {L2[n].time : n \in {k \in DOMAIN L2 : k = 1 /\ childSynced = 0}}

(* Challenges that are not before such a block are deleted.                *)
DeleteFutureChallenges ==
  LET first == HostInitialTime \cup ChildInitialTime
  IN  {c \in challenges : first = {} \/ \E t \in first : c.time < t}

StartAfresh ==
  /\ up = "down"
  /\ up' = "run"
  /\ initialL1Sequence' = NextL1Sequence(childSynced + 1)
  /\ hostMem' = hostPending
  /\ childMem' = childPending
  /\ shared' = {}
  /\ challenges' = DeleteFutureChallenges
  /\ UNCHANGED <<chains, synced, pending, pendingChallenges, host, child, handover,
                 history>>

(* Initialize and Start.  The L2 state is the one at the height that the   *)
(* child processes next.                                                   *)
Start ==
  /\ up = "down"
  /\ up' = "run"
  /\ initialL1Sequence' = NextL1Sequence(childSynced + 1)
  /\ hostMem' = hostPending
  /\ childMem' = childPending
  /\ shared' = {}
  /\ challenges' = DeleteFutureChallenges
  /\ starting' = Range(pendingChallenges)
  /\ UNCHANGED <<chains, synced, pending, pendingChallenges, host, child, handling,
                 history>>

(* The process stops: killed, shut down, or because the handler could not  *)
(* commit.                                                                 *)
Crash ==
  /\ up = "run" /\ crashes < MaxCrashes
  /\ crashes' = crashes + 1
  /\ up' = "down"
  /\ hostMem' = Empty /\ childMem' = Empty /\ shared' = {}
  /\ hostPC' = "ready" /\ hostWork' = HostNoWork
  /\ childPC' = "ready" /\ childWork' = ChildNoWork
  /\ starting' = {} /\ handling' = NoChallenge
  /\ UNCHANGED <<chains, db, initialL1Sequence, raised, fails>>

(* reset-heights: synced heights and pending events go, and the next start *)
(* begins with the first tree.  Pending challenges are looked for under    *)
(* the prefixes of the nodes, where there are none, and stay.              *)
ResetHeights ==
  /\ up = "down" /\ crashes < MaxCrashes
  /\ crashes' = crashes + 1
  /\ hostSynced' = 0 /\ childSynced' = 0 /\ treeIndex' = 1
  /\ hostPending' = Empty /\ childPending' = Empty
  /\ UNCHANGED <<chains, stored, process, events, host, child, handover, raised, fails>>

-----------------------------------------------------------------------------
Init ==
  /\ chains \in Histories
  /\ hostSynced = 0 /\ childSynced = 0 /\ treeIndex = 1
  /\ hostPending = Empty /\ childPending = Empty
  /\ pendingChallenges = Empty /\ challenges = {}
  /\ up = "down" /\ initialL1Sequence = 1
  /\ hostMem = Empty /\ childMem = Empty /\ shared = {}
  /\ hostPC = "ready" /\ hostWork = HostNoWork
  /\ childPC = "ready" /\ childWork = ChildNoWork
  /\ starting = {} /\ handling = NoChallenge
  /\ raised = {} /\ crashes = 0 /\ fails = 0

HostSends == \E c \in hostWork.out : HostSend(c)
ChildSends == \E c \in childWork.out : ChildSend(c)
SendsLoaded == \E c \in starting : SendLoaded(c)

Next ==
  \/ HostStage \/ HostCommit \/ HostCommitFails \/ HostUpdate \/ HostSends \/ HostDone
  \/ ChildStage \/ ChildCommit \/ ChildCommitFails \/ ChildUpdate \/ ChildSends \/ ChildDone
  \/ SendsLoaded \/ HandleChallenge \/ Start \/ Crash \/ ResetHeights

Spec == Init /\ [][Next]_vars

(* Both loops retry, the handler and the senders wait only for each other, *)
(* and the process is started again after a stop.                          *)
Fairness ==
  /\ WF_vars(HostStage) /\ WF_vars(HostCommit) /\ WF_vars(HostUpdate)
  /\ SF_vars(HostSends) /\ WF_vars(HostDone)
  /\ WF_vars(ChildStage) /\ WF_vars(ChildCommit) /\ WF_vars(ChildUpdate)
  /\ SF_vars(ChildSends) /\ WF_vars(ChildDone)
  /\ SF_vars(SendsLoaded) /\ WF_vars(HandleChallenge) /\ WF_vars(Start)

FairSpec == Spec /\ Fairness

-----------------------------------------------------------------------------
(* Properties.                                                             *)

EventMap(f) ==
  /\ DOMAIN f \subseteq EventIds
  /\ \A id \in DOMAIN f :
       /\ DOMAIN f[id] = {"val", "time", "timeout"}
       /\ f[id].time \in Nat /\ f[id].timeout \in BOOLEAN

IsChallenge(c) ==
  c.id \in EventIds /\ c.time \in Nat /\ c.kind \in {"mismatch", "timeout"}

(* Types.  A pending challenge is stored under its own event id, a loop    *)
(* that is not ready belongs to a running process, and the work of a block *)
(* is about events of the types the code knows.                            *)
TypeOK ==
  /\ chains \in Histories
  /\ hostSynced \in 0..Len(L1) /\ childSynced \in 0..Len(L2)
  /\ treeIndex \in Nat \ {0} /\ initialL1Sequence \in Nat \ {0}
  /\ up \in {"run", "down"} /\ hostPC \in Steps /\ childPC \in Steps
  /\ up = "down" => hostPC = "ready" /\ childPC = "ready" /\ handling = NoChallenge
  /\ \A f \in {hostPending, childPending, hostMem, childMem, hostWork.queue,
               childWork.late} : EventMap(f)
  /\ shared \cup hostWork.last \cup hostWork.done \cup childWork.done \subseteq EventIds
  /\ DOMAIN pendingChallenges \subseteq EventIds
  /\ \A id \in DOMAIN pendingChallenges : pendingChallenges[id].id = id
  /\ \A c \in Range(pendingChallenges) \cup challenges \cup raised \cup starting
              \cup hostWork.out \cup childWork.out : IsChallenge(c)
  /\ handling = NoChallenge \/ IsChallenge(handling)
  /\ crashes \in 0..MaxCrashes /\ fails \in 0..MaxFails

L1Events(n) == UNION {DOMAIN L1[k].events : k \in 1..n}
L1Value(id) ==
  L1[CHOOSE k \in DOMAIN L1 : id \in DOMAIN L1[k].events].events[id]
L1Time(id) == L1[CHOOSE k \in DOMAIN L1 : id \in DOMAIN L1[k].events].time

(* What replaying block n of L2 says about events, outputs included.       *)
Replayed(n) ==
  Merge(L2[n].events,
        [id \in {o \in L1Events(Len(L1)) : o[1] = "Output" /\ L1Value(o)[1] = n}
           |-> <<n, Right>>])

Settled(id, n) ==
  \E k \in {m \in DOMAIN L2 : m <= n} :
    \E j \in DOMAIN Replayed(k) : j = id \/ Clears(j, id)
Wrong(id, n) == id \in DOMAIN Replayed(n) /\ Replayed(n)[id] # L1Value(id)
Challenged == DOMAIN pendingChallenges \cup {c.id : c \in challenges}

(* Nothing the host has synced is forgotten: an event of an L1 block is    *)
(* pending in the child's database until an L2 block that the child has    *)
(* synced settles it.  Only a deposit that L2 finalizes in the very next   *)
(* block may be missing: the host passes it after a restart.  The host     *)
(* writes the child's database, the child deletes from it, and the process *)
(* may stop between any two steps.                                         *)
EventsKept ==
  \A id \in L1Events(hostSynced) :
    \/ id \in DOMAIN childPending
    \/ Settled(id, childSynced)
    \/ id[1] = "Deposit" /\ Settled(id, childSynced + 1)

(* The same without the exception.  "we don't need to process previous l1  *)
(* sequences because they are already processed by the challenger"         *)
NoEventDropped ==
  \A id \in L1Events(hostSynced) :
    id \in DOMAIN childPending \/ Settled(id, childSynced)

(* A wrong value in a synced L2 block, or a wrong output, is challenged:   *)
(* from the commit of the block on, whatever stops in between, there is a  *)
(* challenge for the event, pending or recorded.                           *)
WrongChallenged ==
  \A n \in 1..childSynced : \A id \in DOMAIN Replayed(n) :
    Wrong(id, n) => id \in Challenged

(* An event that the database marks as timed out has a challenge: the mark *)
(* and the challenge are committed together and the mark would keep a      *)
(* later run from raising it again.                                        *)
TimeoutChallenged ==
  \A id \in DOMAIN childPending :
    childPending[id].timeout => id \in Challenged

(* As long as no commit fails this also holds of the marks in memory, some *)
(* of which the two loops share: a mark without a challenge would silence  *)
(* the timeout for the rest of the run.                                    *)
NoSilentTimeout ==
  fails = 0 /\ hostPC # "staged" /\ childPC # "staged" =>
    \A id \in DOMAIN childMem : childMem[id].timeout => id \in Challenged

(* A challenge is never unfounded.  A mismatch is one between the chains.  *)
(* A timeout was found in a block later than the interval allows, and at   *)
(* that block the child had not settled the event, or the host had seen no *)
(* next output.  The blocks are those of the chains: a challenge that was  *)
(* pending at a reset is still there when the loops begin again.           *)
ChallengesFounded ==
  \A c \in Range(pendingChallenges) \cup challenges :
    \/ c.kind = "mismatch" /\ \E n \in DOMAIN L2 : Wrong(c.id, n)
    \/ /\ c.kind = "timeout"
       /\ c.time > L1Time(c.id) + Interval
       /\ \/ \E n \in DOMAIN L2 : L2[n].time = c.time /\ ~Settled(c.id, n)
          \/ \E n \in DOMAIN L1 :
               /\ L1[n].time = c.time
               /\ c.id[1] = "Output" /\ <<"Output", c.id[2] + 1>> \notin L1Events(n)

(* Between two blocks the pending events in memory are those in the        *)
(* database, up to the marks: the loops update both in different steps and *)
(* the host's steps on the child's events interleave with the child's.     *)
MemoryMatchesDB ==
  LET Plain(f) == [id \in DOMAIN f |-> <<f[id].val, f[id].time>>]
      between == {"ready", "staged"}
  IN  up = "run" /\ hostPC \in between /\ childPC \in between =>
        /\ Plain(childMem) = Plain(childPending)
        /\ Plain(hostMem) = Plain(hostPending)

(* The panic of handleTree is not reached: when the output of the working  *)
(* tree is known, the child has not passed the block that closes the tree. *)
NoTreePassed ==
  up = "run" /\ childPC = "ready" /\ childSynced < Len(L2) =>
    \A o \in Outputs(treeIndex, HostHeight) : o[1] > childSynced

(* "a `Challenge` is created and stored in the DB": when nothing is being  *)
(* handed over, every mismatch that a block committed is recorded.         *)
MismatchesRecorded ==
  up = "run" /\ hostPC = "ready" /\ childPC = "ready" /\ starting = {}
      /\ handling = NoChallenge =>
    \A c \in raised : c.kind = "mismatch" => c \in challenges

(* A challenge does not stay pending: this run or a later one hands it to  *)
(* the handler.  (WrongChallenged says that it is then recorded.)          *)
PendingHandled == []<>(DOMAIN pendingChallenges = {})

(* Unless the process stops, the child gets to the last block of L2 that   *)
(* an output covers: the loops and the handler never wait for each other   *)
(* in a circle, and a failed commit is made up for.                        *)
AllBlocksSynced ==
  <>(\/ crashes > 0
     \/ \A o \in L1Events(Len(L1)) : o[1] = "Output" => childSynced >= L1Value(o)[1])
=============================================================================
