-------------------------- MODULE ChallengerEvents ---------------------------
(***************************************************************************)
(* What the challenger keeps, settles and challenges, for any chains of    *)
(* the kind that Challenger assumes and any number of stops, resets and    *)
(* failing commits.                                                        *)
(*                                                                         *)
(* The child replays block n of L2 with the working tree of the output it  *)
(* waits for.  TreeInv says that this tree closes with the block that the  *)
(* output names, so that what the child compares is what the chains say    *)
(* (Replayed).  The other invariants follow an event from the L1 block     *)
(* that has it to the L2 block that settles it, and a challenge from the   *)
(* block that raises it.                                                   *)
(***************************************************************************)
EXTENDS ChallengerMemory, Induction, FiniteSetTheorems

(* The host passes a deposit only when the child's next block, or one      *)
(* before it, settles it.                                                  *)
SequenceInv ==
  /\ initialL1Sequence \in Nat \ {0}
  /\ up = "run" => \A s \in 1..(initialL1Sequence - 1) :
       Settled(<<"Deposit", s>>, childSynced + 1)

(* The host queues the events of its block, without the deposits it        *)
(* passes.                                                                 *)
QueueInv ==
  hostPC \in {"staged", "committed"} =>
    LET n == IF hostPC = "staged" THEN hostSynced + 1 ELSE hostSynced
    IN  /\ n \in DOMAIN L1
        /\ DOMAIN hostWork.queue \subseteq DOMAIN L1[n].events
        /\ \A id \in DOMAIN L1[n].events \ DOMAIN hostWork.queue :
             id[1] = "Deposit" /\ id[2] < initialL1Sequence

(* After block n the outputs before i are replayed and the others not.     *)
TreeAt(i, n) ==
  \A m \in DOMAIN L1 : \A o \in DOMAIN L1[m].events : o[1] = "Output" =>
    (o[2] >= i <=> L1[m].events[o][1] > n)

(* The child's tree fits the block it is at, and a staged one the next.    *)
TreeInv ==
  /\ TreeAt(treeIndex, childSynced)
  /\ childPC = "staged" => TreeAt(childWork.tree, childSynced + 1)

(* The host has seen what the child has compared.                          *)
Seen(n) == \A k \in DOMAIN L2 : k <= n => DOMAIN Replayed(k) \subseteq L1Events(hostSynced)

(* What is pending is not settled.                                         *)
PendingInv ==
  /\ Seen(childSynced)
  /\ \A id \in DOMAIN childPending : ~Settled(id, childSynced)
  /\ childPC = "staged" =>
       /\ Seen(childSynced + 1)
       /\ \A id \in DOMAIN childPending \ childWork.done : ~Settled(id, childSynced + 1)

(* What is synced and not pending is settled.                              *)
KeptInv ==
  /\ EventsKept
  /\ childPC = "staged" => \A id \in childWork.done : Settled(id, childSynced + 1)

(* An output that no other follows.                                        *)
IsLast(id, n) == id[1] = "Output" /\ <<"Output", id[2] + 1>> \notin L1Events(n)

(* The output that the host has pending is the last one.                   *)
LastInv ==
  /\ \A id \in DOMAIN hostPending : IsLast(id, hostSynced)
  /\ hostPC = "staged" =>
       \A id \in (DOMAIN hostPending \ hostWork.done) \cup hostWork.last :
         IsLast(id, hostSynced + 1)

(* A difference in a block is challenged by the commit of the block.       *)
WrongInv ==
  /\ WrongChallenged
  /\ childPC = "staged" => \A id \in DOMAIN Replayed(childSynced + 1) :
       Wrong(id, childSynced + 1) => id \in Ids(childWork.out)

(* A challenge is founded from the moment a block raises it.               *)
Founded(c) ==
  \/ c.kind = "mismatch" /\ \E n \in DOMAIN L2 : Wrong(c.id, n)
  \/ /\ c.kind = "timeout"
     /\ c.time > L1Time(c.id) + Interval
     /\ \/ \E n \in DOMAIN L2 : L2[n].time = c.time /\ ~Settled(c.id, n)
        \/ \E n \in DOMAIN L1 :
             /\ L1[n].time = c.time
             /\ c.id[1] = "Output" /\ <<"Output", c.id[2] + 1>> \notin L1Events(n)

FoundedInv == \A c \in AllChallenges : Founded(c)

-----------------------------------------------------------------------------
(* Facts about the chains.                                                 *)

(* A finite set of naturals has a bound.                                   *)
LEMMA FiniteBounded ==
  ASSUME NEW S \in SUBSET Nat, IsFiniteSet(S)
  PROVE  \E b \in Nat : \A s \in S : s <= b
<1> DEFINE n == Cardinality(S)
<1>1. n \in Nat /\ ExistsBijection(1..n, S)
  BY FS_CardinalityType, Zenon
<1>2. PICK f \in [1..n -> S] : \A s \in S : \E i \in 1..n : f[i] = s
  BY <1>1, Zenon DEF ExistsBijection, Bijection, Surjection, Injection, IsInjective
<1> HIDE DEF n
<1> DEFINE T == {m \in Nat : \E b \in Nat : \A i \in 1..n : i <= m => f[i] <= b}
<1>3. 0 \in T
  OBVIOUS
<1>4. ASSUME NEW m \in T PROVE m + 1 \in T
  <2>1. PICK b \in Nat : \A i \in 1..n : i <= m => f[i] <= b
    BY Zenon
  <2>2. CASE m + 1 \in 1..n
    <3> DEFINE c == IF b <= f[m + 1] THEN f[m + 1] ELSE b
    <3>1. f[m + 1] \in Nat
      BY <2>2, Zenon
    <3>2. c \in Nat /\ b <= c /\ f[m + 1] <= c
      BY <3>1
    <3> HIDE DEF c
    <3>3. ASSUME NEW i \in 1..n, i <= m + 1 PROVE f[i] <= c
      <4>1. f[i] \in Nat
        BY Zenon
      <4>2. i <= m \/ i = m + 1
        BY <1>1, <3>3
      <4> QED
        BY <2>1, <3>2, <4>1, <4>2, SMTT(30)
    <3> QED
      BY <3>2, <3>3
  <2>3. CASE m + 1 \notin 1..n
    <3>1. \A i \in 1..n : i <= m + 1 => i <= m
      BY <1>1, <2>3
    <3> QED
      BY <2>1, <3>1
  <2> QED
    BY <2>2, <2>3, Zenon
<1>5. T = Nat
  <2>1. T \in SUBSET Nat
    BY Zenon
  <2> HIDE DEF T
  <2> QED
    BY <1>3, <1>4, <2>1, SetInduction, Zenon
<1>6. n \in T
  BY <1>1, <1>5, Zenon
<1>7. PICK b \in Nat : \A i \in 1..n : i <= n => f[i] <= b
  BY <1>6, Zenon
<1>8. \A i \in 1..n : f[i] <= b
  BY <1>1, <1>7
<1> QED
  BY <1>2, <1>8, Zenon

(* The values of a function on a finite set are finite.                    *)
LEMMA FiniteImage ==
  ASSUME NEW S, IsFiniteSet(S), NEW T, NEW f \in [S -> T],
         \A t \in T : \E x \in S : f[x] = t
  PROVE  IsFiniteSet(T)
<1>1. f \in Surjection(S, T)
  BY Zenon DEF Surjection
<1> QED
  BY <1>1, FS_Surjection, Zenon

(* What the chains say does not change with a step.                        *)
LEMMA ChainsFixed ==
  ASSUME chains' = chains
  PROVE  /\ L1' = L1 /\ L2' = L2
         /\ \A n : L1Events(n)' = L1Events(n)
         /\ \A id : L1Value(id)' = L1Value(id) /\ L1Time(id)' = L1Time(id)
         /\ \A n : Replayed(n)' = Replayed(n)
         /\ \A id, n : Settled(id, n)' = Settled(id, n) /\ Wrong(id, n)' = Wrong(id, n)
<1>1. L1' = L1 /\ L2' = L2
  BY Zenon DEF L1, L2
<1>2. \A n : L1Events(n)' = L1Events(n)
  BY <1>1, Zenon DEF L1Events
<1>3. \A id : L1Value(id)' = L1Value(id) /\ L1Time(id)' = L1Time(id)
  BY <1>1, Zenon DEF L1Value, L1Time
<1>4. \A n : Replayed(n)' = Replayed(n)
  BY <1>1, <1>2, <1>3, Zenon DEF Replayed
<1>5. \A id, n : Settled(id, n)' = Settled(id, n)
  BY <1>1, <1>4, Zenon DEF Settled
<1>6. \A id, n : Wrong(id, n)' = Wrong(id, n)
  BY <1>3, <1>4, Zenon DEF Wrong
<1> QED
  BY <1>1, <1>2, <1>3, <1>4, <1>5, <1>6, Zenon

(* The events that replaying a block finds.                                *)
LEMMA ReplayedIds ==
  ASSUME NEW n
  PROVE  DOMAIN Replayed(n) = DOMAIN L2[n].events \cup
           {o \in L1Events(Len(L1)) : o[1] = "Output" /\ L1Value(o)[1] = n}
BY Zenon DEF Replayed, Merge

(* A settled event stays settled.                                          *)
LEMMA SettledStays ==
  ASSUME NEW id, NEW m \in Nat, NEW n \in Nat, m <= n, chains \in Histories,
         Settled(id, m)
  PROVE  Settled(id, n)
<1>1. PICK k \in {k \in DOMAIN L2 : k <= m} :
        \E j \in DOMAIN Replayed(k) : j = id \/ Clears(j, id)
  BY Zenon DEF Settled
<1>2. k \in DOMAIN L2 /\ k <= n
  BY ChainFacts
<1> QED
  BY <1>1, <1>2, Zenon DEF Settled

(* What a later block says settles nothing earlier.                        *)
LEMMA SettledNext ==
  ASSUME NEW id, NEW n \in Nat, chains \in Histories, Settled(id, n + 1)
  PROVE  \/ Settled(id, n)
         \/ n + 1 \in DOMAIN L2 /\ \E j \in DOMAIN Replayed(n + 1) : j = id \/ Clears(j, id)
<1>1. PICK k \in {k \in DOMAIN L2 : k <= n + 1} :
        \E j \in DOMAIN Replayed(k) : j = id \/ Clears(j, id)
  BY Zenon DEF Settled
<1>2. CASE k = n + 1
  BY <1>1, <1>2, Zenon
<1>3. CASE k # n + 1
  <2>1. k \in DOMAIN L2 /\ k <= n
    BY <1>3, ChainFacts
  <2> QED
    BY <1>1, <2>1, Zenon DEF Settled
<1> QED
  BY <1>2, <1>3, Zenon

(* The events of the next L1 block, and those of the blocks up to it.      *)
LEMMA EventsNext ==
  ASSUME NEW n \in Nat
  PROVE  L1Events(n + 1) = L1Events(n) \cup DOMAIN L1[n + 1].events
<1>1. 1..(n + 1) = (1..n) \cup {n + 1}
  OBVIOUS
<1> QED
  BY <1>1, Zenon DEF L1Events

(* An event is in no other block than the one that adds it.                *)
LEMMA NewEvent ==
  ASSUME chains \in Histories, NEW n \in Nat, n < Len(L1),
         NEW i \in DOMAIN L1[n + 1].events, NEW j \in L1Events(n)
  PROVE  i # j /\ (i[1] = j[1] /\ i[1] # "Deposit" => i[2] > j[2])
<1>1. PICK m \in 1..n : j \in DOMAIN L1[m].events
  BY Zenon DEF L1Events
<1>2. n + 1 \in DOMAIN L1 /\ m \in DOMAIN L1 /\ ~(n + 1 <= m)
  BY ChainFacts
<1>3. i # j
  <2>1. UniqueEvents(L1) /\ n + 1 # m
    BY <1>2, ChainFacts
  <2> QED
    BY <1>1, <1>2, <2>1, Zenon DEF UniqueEvents
<1>4. ASSUME i[1] = j[1], i[1] # "Deposit" PROVE i[2] > j[2]
  <2>1. ~(i[2] < j[2])
    BY <1>1, <1>2, <1>4, ChainFacts, Zenon DEF NumbersInOrder
  <2>2. i \in EventIds /\ j \in EventIds
    BY <1>1, <1>2, ChainFacts, Zenon DEF IsBlock
  <2>3. i[2] # j[2]
    BY <1>3, <1>4, <2>2, SMTT(30) DEF EventIds
  <2> QED
    BY <2>1, <2>2, <2>3 DEF EventIds
<1> QED
  BY <1>3, <1>4, Zenon

(* What a finite chain has finalized has a greatest number.                *)
LEMMA NextSequence ==
  ASSUME chains \in Histories, NEW h \in Nat
  PROVE  LET s == NextL1Sequence(h)
         IN  /\ s \in Nat \ {0}
             /\ s = 1 \/ \E n \in DOMAIN L2 : n <= h /\ <<"Deposit", s - 1>> \in DOMAIN L2[n].events
<1> DEFINE deposits(n) == {i \in DOMAIN L2[n].events : i[1] = "Deposit"}
           numbers(n) == {id[2] : id \in deposits(n)}
           blocks == {k \in 1..Len(L2) : k <= h}
           final == UNION {numbers(n) : n \in blocks}
           next == {1} \cup {f + 1 : f \in final}
<1>1. /\ Len(L2) \in Nat /\ DOMAIN L2 = 1..Len(L2)
      /\ \A n \in DOMAIN L2 : IsBlock(L2[n])
  BY ChainFacts, Zenon
<1>2. \A n \in blocks : numbers(n) \subseteq Nat /\ IsFiniteSet(numbers(n))
  <2> TAKE n \in blocks
  <2>1. DOMAIN L2[n].events \subseteq EventIds /\ IsFiniteSet(DOMAIN L2[n].events)
    BY <1>1, Zenon DEF IsBlock
  <2>2. IsFiniteSet(deposits(n))
    BY <2>1, FS_Subset, Zenon
  <2>3. IsFiniteSet(numbers(n))
    <3> DEFINE f == [id \in deposits(n) |-> id[2]]
    <3> HIDE DEF deposits
    <3>1. f \in [deposits(n) -> numbers(n)] /\ \A t \in numbers(n) : \E x \in deposits(n) : f[x] = t
      BY Zenon
    <3> HIDE DEF numbers, f
    <3> QED
      BY <2>2, <3>1, FiniteImage, Zenon
  <2> QED
    BY <2>1, <2>3, Zenon DEF EventIds
<1>3. IsFiniteSet(final) /\ final \subseteq Nat
  <2>1. IsFiniteSet(blocks)
    <3>1. IsFiniteSet(1..Len(L2))
      BY <1>1, FS_Interval
    <3> QED
      BY <3>1, FS_Subset, Zenon
  <2>2. IsFiniteSet({numbers(n) : n \in blocks})
    <3> HIDE DEF blocks, numbers
    <3> DEFINE T == {numbers(n) : n \in blocks}
               f == [n \in blocks |-> numbers(n)]
    <3>1. f \in [blocks -> T] /\ \A t \in T : \E x \in blocks : f[x] = t
      BY Zenon
    <3> QED
      BY <2>1, <3>1, FiniteImage, Zenon
  <2> QED
    BY <1>2, <2>2, FS_UNION, Zenon
<1>4. \E s \in next : \A f \in final : f < s
  <2>1. CASE final = {}
    BY <2>1, Zenon
  <2>2. CASE final # {}
    <3>1. PICK b \in Nat : \A f \in final : f <= b
      BY <1>3, FiniteBounded, Zenon
    <3>2. PICK x \in final : \A y \in final : y <= x
      BY <1>3, <2>2, <3>1, GreatestElement, Zenon
    <3>3. x \in Nat /\ x + 1 \in next /\ \A y \in final : y \in Nat
      BY <1>3, <3>2, Zenon
    <3>4. \A y \in final : y < x + 1
      <4> HIDE DEF final
      <4> QED
        BY <3>2, <3>3, SMTT(30)
    <3> QED
      BY <3>3, <3>4, Zenon
  <2> QED
    BY <2>1, <2>2, Zenon
<1>5. NextL1Sequence(h) \in next
  BY <1>4, Zenon DEF NextL1Sequence
<1>6. CASE NextL1Sequence(h) = 1
  BY <1>6
<1>7. CASE NextL1Sequence(h) # 1
  <2>1. PICK f \in final : NextL1Sequence(h) = f + 1
    BY <1>5, <1>7, Zenon
  <2>2. PICK n \in blocks : f \in numbers(n)
    BY <2>1, Zenon
  <2>3. PICK id \in DOMAIN L2[n].events : id[1] = "Deposit" /\ id[2] = f
    BY <2>2, Zenon
  <2>4. n \in DOMAIN L2 /\ n <= h /\ id \in EventIds
    BY <1>1, <2>2, <2>3, Zenon DEF IsBlock
  <2>5. id = <<"Deposit", f>> /\ f \in Nat
    BY <2>3, <2>4, SMTT(30) DEF EventIds
  <2>6. NextL1Sequence(h) - 1 = f /\ NextL1Sequence(h) \in Nat \ {0}
    BY <2>1, <2>5, SMTT(30)
  <2> QED
    BY <2>3, <2>4, <2>5, <2>6, Zenon
<1> QED
  BY <1>6, <1>7, Zenon

-----------------------------------------------------------------------------
(* Steps that the invariants hardly notice.                                *)

(* The steps that neither stage nor commit a block.                        *)
LEMMA QuietStep ==
  ASSUME [Next]_vars, ~HostStage, ~HostCommit, ~ChildStage, ~ChildCommit, ~Start, ~ResetHeights
  PROVE  /\ UNCHANGED <<hostSynced, childSynced, treeIndex, hostPending, childPending,
                        initialL1Sequence>>
         /\ up' = "run" => up = "run"
         /\ hostPC' = "staged" => hostPC = "staged" /\ UNCHANGED hostWork
         /\ hostPC' = "committed" => hostPC = "committed" /\ UNCHANGED hostWork
         /\ childPC' = "staged" => childPC = "staged" /\ UNCHANGED childWork
<1> USE DEF db, synced, pending, process, host, child
<1>1. CASE HostCommitFails \/ HostUpdate \/ HostSends \/ HostDone
  BY <1>1, Zenon DEF HostCommitFails, HostUpdate, HostSends, HostSend, HostDone
<1>2. CASE ChildCommitFails \/ ChildUpdate \/ ChildSends \/ ChildDone
  BY <1>2, Zenon DEF ChildCommitFails, ChildUpdate, ChildSends, ChildSend, ChildDone
<1>3. CASE SendsLoaded \/ HandleChallenge \/ Crash \/ UNCHANGED vars
  BY <1>3, Zenon DEF SendsLoaded, SendLoaded, HandleChallenge, Crash, vars
<1> QED
  BY <1>1, <1>2, <1>3, Zenon DEF Next

(* The steps of the host leave the child's work alone, the steps of the    *)
(* child the host's.                                                       *)
LEMMA OtherLoop ==
  /\ HostStage => UNCHANGED <<hostSynced, childSynced, treeIndex, hostPending, childPending, up,
                              initialL1Sequence, childPC, childWork>>
  /\ HostCommit => UNCHANGED <<childSynced, treeIndex, up, initialL1Sequence, hostWork, childPC,
                               childWork>>
  /\ ChildStage => UNCHANGED <<hostSynced, childSynced, treeIndex, hostPending, childPending, up,
                               initialL1Sequence, hostPC, hostWork>>
  /\ ChildCommit => UNCHANGED <<hostSynced, hostPending, up, initialL1Sequence, hostPC, hostWork>>
<1> USE DEF db, synced, pending, process, host, child
<1>1. ASSUME HostStage
      PROVE  UNCHANGED <<hostSynced, childSynced, treeIndex, hostPending, childPending, up,
                         initialL1Sequence, childPC, childWork>>
  BY <1>1, Zenon DEF HostStage
<1>2. ASSUME HostCommit
      PROVE  UNCHANGED <<childSynced, treeIndex, up, initialL1Sequence, hostWork, childPC,
                         childWork>>
  BY <1>2, Zenon DEF HostCommit
<1>3. ASSUME ChildStage
      PROVE  UNCHANGED <<hostSynced, childSynced, treeIndex, hostPending, childPending, up,
                         initialL1Sequence, hostPC, hostWork>>
  BY <1>3, Zenon DEF ChildStage
<1>4. ASSUME ChildCommit
      PROVE  UNCHANGED <<hostSynced, hostPending, up, initialL1Sequence, hostPC, hostWork>>
  BY <1>4, Zenon DEF ChildCommit
<1> QED
  BY <1>1, <1>2, <1>3, <1>4, Zenon

(* A start and a reset find both loops ready.                              *)
LEMMA LoopsReady ==
  ASSUME PlaceInv, Start \/ ResetHeights
  PROVE  /\ hostPC' = "ready" /\ childPC' = "ready"
         /\ Start => UNCHANGED <<hostSynced, childSynced, treeIndex, hostPending, childPending>>
         /\ ResetHeights => /\ hostSynced' = 0 /\ childSynced' = 0 /\ treeIndex' = 1
                            /\ hostPending' = Empty /\ childPending' = Empty
                            /\ up' = "down" /\ UNCHANGED initialL1Sequence
<1>1. up = "down" /\ UNCHANGED <<hostPC, childPC>>
  BY Zenon DEF Start, ResetHeights, host, child
<1>2. Start => UNCHANGED <<hostSynced, childSynced, treeIndex, hostPending, childPending>>
  BY Zenon DEF Start, synced, pending
<1>3. ResetHeights => /\ hostSynced' = 0 /\ childSynced' = 0 /\ treeIndex' = 1
                      /\ hostPending' = Empty /\ childPending' = Empty
                      /\ up' = "down" /\ UNCHANGED initialL1Sequence
  BY Zenon DEF ResetHeights, process
<1> QED
  BY <1>1, <1>2, <1>3, Zenon DEF PlaceInv

-----------------------------------------------------------------------------
(* Types.                                                                  *)

(* A start learns the sequence from the L2 state of the child's next       *)
(* block, and every deposit before it is finalized there.                  *)
LEMMA SequenceStep ==
  ASSUME TypeInv, SequenceInv, [Next]_vars
  PROVE  SequenceInv'
<1>1. chains \in Histories /\ chains' = chains /\ childSynced \in Nat /\ PlaceInv
  BY ChainsKept, NextBlocks, Zenon DEF TypeInv, PlaceInv
<1>2. CASE Start
  <2> DEFINE s == NextL1Sequence(childSynced + 1)
  <2>1. initialL1Sequence' = s /\ childSynced' = childSynced
    BY <1>2, Zenon DEF Start, synced
  <2>2. s \in Nat \ {0} /\ (s = 1 \/ \E n \in DOMAIN L2 :
          n <= childSynced + 1 /\ <<"Deposit", s - 1>> \in DOMAIN L2[n].events)
    BY <1>1, NextSequence
  <2> HIDE DEF s
  <2>3. ASSUME NEW r \in 1..(s - 1) PROVE Settled(<<"Deposit", r>>, childSynced + 1)
    <3>1. PICK n \in DOMAIN L2 :
            n <= childSynced + 1 /\ <<"Deposit", s - 1>> \in DOMAIN L2[n].events
      BY <2>2, <2>3
    <3>2. PICK m \in 1..n : <<"Deposit", r>> \in DOMAIN L2[m].events
      <4>1. DepositsInOrder(L2)
        BY <1>1, ChainFacts, Zenon
      <4>2. <<"Deposit", s - 1>>[1] = "Deposit" /\ r \in 1..<<"Deposit", s - 1>>[2]
        BY <2>2, <2>3, Zenon
      <4> QED
        BY <3>1, <4>1, <4>2, Zenon DEF DepositsInOrder
    <3>3. m \in DOMAIN L2 /\ m <= childSynced + 1
      BY <1>1, <3>1, ChainFacts, SMTT(30)
    <3>4. <<"Deposit", r>> \in DOMAIN Replayed(m)
      BY <3>2, ReplayedIds, Zenon
    <3> QED
      BY <3>3, <3>4, ZenonT(40) DEF Settled
  <2> QED
    BY <1>1, <2>1, <2>2, <2>3, ChainsFixed, Zenon DEF SequenceInv
<1>3. CASE ResetHeights
  BY <1>1, <1>3, LoopsReady, Zenon DEF SequenceInv
<1>4. CASE ChildCommit
  <2>1. childSynced' = childSynced + 1 /\ UNCHANGED <<up, initialL1Sequence>>
    BY <1>4, OtherLoop, Zenon DEF ChildCommit
  <2>2. ASSUME NEW id, Settled(id, childSynced + 1) PROVE Settled(id, childSynced + 2)
    BY <1>1, <2>2, SettledStays, SMTT(30)
  <2> QED
    BY <1>1, <2>1, <2>2, ChainsFixed, SMTT(30) DEF SequenceInv
<1>5. CASE HostStage \/ HostCommit \/ ChildStage
  <2>1. UNCHANGED <<up, initialL1Sequence, childSynced>>
    BY <1>5, OtherLoop, Zenon
  <2> QED
    BY <1>1, <2>1, ChainsFixed, Zenon DEF SequenceInv
<1>6. CASE ~HostStage /\ ~HostCommit /\ ~ChildStage /\ ~ChildCommit /\ ~Start /\ ~ResetHeights
  <2>1. UNCHANGED <<initialL1Sequence, childSynced>> /\ (up' = "run" => up = "run")
    BY <1>6, QuietStep, Zenon
  <2> QED
    BY <1>1, <2>1, ChainsFixed, Zenon DEF SequenceInv
<1> QED
  BY <1>2, <1>3, <1>4, <1>5, <1>6, Zenon

(* The sequence holds of every state.                                      *)
LEMMA SequenceInvariant == Spec => []SequenceInv
<1>1. Init => SequenceInv
  BY DEF Init, SequenceInv
<1>2. TypeInv /\ SequenceInv /\ [Next]_vars => SequenceInv'
  BY SequenceStep, Zenon
<1> QED
  BY <1>1, <1>2, TypeInvariant, PTL DEF Spec

(* Types, in every state of the challenger: a pending challenge is stored  *)
(* under its own event id, a loop that is not ready belongs to a running   *)
(* process, and the work of a block is about events the code knows.        *)
THEOREM ChallengerTyped == Spec => []TypeOK
<1>1. TypeInv /\ SequenceInv => TypeOK
  <2> SUFFICES ASSUME TypeInv, SequenceInv PROVE TypeOK
    BY Zenon
  <2>1. \A id \in DOMAIN pendingChallenges : pendingChallenges[id] \in AllChallenges
    BY Zenon DEF AllChallenges, Range
  <2>2. DOMAIN pendingChallenges \subseteq EventIds
    BY <2>1, Zenon DEF TypeInv, ChallengeInv, KeyInv, IsChallenge
  <2>3. /\ \A c \in Range(pendingChallenges) \cup challenges \cup raised \cup starting
                     \cup hostWork.out \cup childWork.out : IsChallenge(c)
        /\ handling = NoChallenge \/ IsChallenge(handling)
    BY Zenon DEF TypeInv, ChallengeInv, AllChallenges
  <2>4. \A f \in {hostPending, childPending, hostMem, childMem, hostWork.queue,
                  childWork.late} : EventMap(f)
    BY Zenon DEF TypeInv, MapInv, EventsOf
  <2> QED
    BY <2>2, <2>3, <2>4, Zenon DEF TypeInv, PlaceInv, MapInv, ChallengeInv, KeyInv, SequenceInv,
                                   TypeOK
<1> QED
  BY <1>1, TypeInvariant, SequenceInvariant, PTL

-----------------------------------------------------------------------------
(* The working tree.                                                       *)

(* An output that the child finds is in a block that the host has synced.  *)
LEMMA OutputFound ==
  ASSUME PlaceInv, NEW o \in Outputs(treeIndex, HostHeight)
  PROVE  \E m \in DOMAIN L1 :
           /\ <<"Output", treeIndex>> \in DOMAIN L1[m].events
           /\ o = L1[m].events[<<"Output", treeIndex>>]
           /\ o[1] \in Nat \ {0}
<1> DEFINE out == <<"Output", treeIndex>>
<1>1. PICK m \in 1..HostHeight : out \in DOMAIN L1[m].events /\ o = L1[m].events[out]
  BY Zenon DEF Outputs
<1>2. m \in DOMAIN L1
  <2>1. hostSynced \in 0..Len(L1) /\ Len(L1) \in Nat /\ DOMAIN L1 = 1..Len(L1)
    BY ChainFacts, Zenon DEF PlaceInv
  <2> QED
    BY <2>1 DEF HostHeight
<1>3. o[1] \in Nat \ {0}
  <2>1. OutputsRise(L1) /\ out[1] = "Output"
    BY ChainFacts, Zenon DEF PlaceInv
  <2> QED
    BY <1>1, <1>2, <2>1, Zenon DEF OutputsRise
<1> QED
  BY <1>1, <1>2, <1>3, Zenon

(* Where the outputs of L1 are relative to the one of the working tree.    *)
LEMMA OutputOrder ==
  ASSUME PlaceInv, TreeAt(treeIndex, childSynced),
         NEW o \in Outputs(treeIndex, HostHeight), o[1] >= childSynced + 1,
         NEW m \in DOMAIN L1, NEW p \in DOMAIN L1[m].events, p[1] = "Output"
  PROVE  LET v == L1[m].events[p]
         IN  /\ p[2] \in Nat /\ v[1] \in Nat
             /\ p[2] < treeIndex => v[1] <= childSynced
             /\ p[2] = treeIndex => p = <<"Output", treeIndex>> /\ v = o
             /\ p[2] > treeIndex => v[1] > o[1]
<1> DEFINE v == L1[m].events[p]
           out == <<"Output", treeIndex>>
<1>1. PICK k \in DOMAIN L1 : out \in DOMAIN L1[k].events /\ o = L1[k].events[out]
  BY OutputFound, Zenon
<1>2. out[1] = "Output" /\ out[2] = treeIndex
  BY Zenon
<1>3. p \in EventIds
  BY ChainFacts, Zenon DEF PlaceInv, IsBlock
<1>4. p[2] \in Nat /\ (p[2] = treeIndex => p = out)
  BY <1>3, SMTT(30) DEF EventIds
<1>5. OutputsRise(L1) /\ UniqueEvents(L1) /\ treeIndex \in Nat /\ childSynced \in Nat
  BY ChainFacts DEF PlaceInv
<1>6. v[1] \in Nat \ {0}
  BY <1>5, Zenon DEF OutputsRise
<1>7. p[2] > treeIndex => v[1] > o[1]
  <2>1. treeIndex < p[2] => o[1] < v[1]
    BY <1>1, <1>2, <1>5, Zenon DEF OutputsRise
  <2>2. o[1] \in Nat
    BY OutputFound, Zenon
  <2> QED
    BY <1>4, <1>5, <1>6, <2>1, <2>2, Zenon
<1>8. p[2] = treeIndex => v = o
  BY <1>1, <1>4, <1>5, Zenon DEF UniqueEvents
<1>9. p[2] < treeIndex => v[1] <= childSynced
  <2>1. p[2] >= treeIndex <=> v[1] > childSynced
    BY Zenon DEF TreeAt
  <2> QED
    BY <1>4, <1>5, <1>6, <2>1, SMTT(30)
<1> QED
  BY <1>4, <1>6, <1>7, <1>8, <1>9, Zenon

(* The child replays what the chains say, and moves on to the right tree.  *)
LEMMA Replays ==
  ASSUME PlaceInv, TreeAt(treeIndex, childSynced), childSynced < Len(L2),
         NEW o \in Outputs(treeIndex, HostHeight), o[1] >= childSynced + 1
  PROVE  LET n == childSynced + 1
             found == ChildEvents(n, treeIndex, o[1])
         IN  /\ DOMAIN found = DOMAIN Replayed(n)
             /\ \A id \in DOMAIN found : found[id] = Replayed(n)[id]
             /\ TreeAt(IF o[1] = n THEN treeIndex + 1 ELSE treeIndex, n)
<1> DEFINE n == childSynced + 1
           out == <<"Output", treeIndex>>
           found == ChildEvents(n, treeIndex, o[1])
           closed == {i \in L1Events(Len(L1)) : i[1] = "Output" /\ L1Value(i)[1] = n}
<1>1. /\ chains \in Histories /\ treeIndex \in Nat /\ childSynced \in Nat
      /\ Len(L1) \in Nat /\ DOMAIN L1 = 1..Len(L1)
  BY ChainFacts DEF PlaceInv
<1>2. PICK k \in DOMAIN L1 :
        out \in DOMAIN L1[k].events /\ o = L1[k].events[out] /\ o[1] \in Nat
  BY OutputFound, Zenon
<1>3. closed = IF o[1] = n THEN {out} ELSE {}
  <2>1. ASSUME NEW p \in closed PROVE p = out /\ o[1] = n
    <3>1. PICK m \in DOMAIN L1 : p \in DOMAIN L1[m].events
      BY <1>1, Zenon DEF L1Events
    <3>2. p[1] = "Output" /\ L1[m].events[p][1] = n
      BY <1>1, <3>1, ValueOf, Zenon
    <3>3. /\ p[2] \in Nat
          /\ p[2] < treeIndex => n <= childSynced
          /\ p[2] = treeIndex => p = out /\ n = o[1]
          /\ p[2] > treeIndex => n > o[1]
      BY <3>1, <3>2, OutputOrder, SMTT(30)
    <3> QED
      BY <1>1, <1>2, <3>3, SMTT(30)
  <2>2. ASSUME o[1] = n PROVE out \in closed
    <3>1. out \in L1Events(Len(L1))
      BY <1>1, <1>2, Zenon DEF L1Events
    <3>2. L1Value(out) = o
      BY <1>1, <1>2, ValueOf, Zenon
    <3> QED
      BY <2>2, <3>1, <3>2, Zenon
  <2> QED
    BY <2>1, <2>2, Zenon
<1>4. /\ DOMAIN found = DOMAIN Replayed(n)
      /\ \A id \in DOMAIN found : found[id] = Replayed(n)[id]
  <2>1. Replayed(n) = Merge(L2[n].events, [id \in closed |-> <<n, Right>>])
    BY Zenon DEF Replayed
  <2> HIDE DEF closed
  <2>2. CASE o[1] = n
    BY <1>3, <2>1, <2>2, Zenon DEF ChildEvents
  <2>3. CASE o[1] # n
    BY <1>3, <2>1, <2>3, Zenon DEF ChildEvents, Merge
  <2> QED
    BY <2>2, <2>3, Zenon
<1>5. TreeAt(IF o[1] = n THEN treeIndex + 1 ELSE treeIndex, n)
  <2> SUFFICES ASSUME NEW m \in DOMAIN L1, NEW p \in DOMAIN L1[m].events, p[1] = "Output"
               PROVE  p[2] >= (IF o[1] = n THEN treeIndex + 1 ELSE treeIndex)
                        <=> L1[m].events[p][1] > n
    BY Zenon DEF TreeAt
  <2> DEFINE v == L1[m].events[p]
  <2>1. /\ p[2] \in Nat /\ v[1] \in Nat
        /\ p[2] < treeIndex => v[1] <= childSynced
        /\ p[2] = treeIndex => v = o
        /\ p[2] > treeIndex => v[1] > o[1]
    BY OutputOrder, Zenon
  <2>2. p[2] = treeIndex => v[1] = o[1]
    BY <2>1, Zenon
  <2> HIDE DEF v
  <2> QED
    BY <1>1, <1>2, <2>1, <2>2, SMTT(30) DEF v
<1> QED
  BY <1>4, <1>5, Zenon

(* What a staged block of the child is about, in terms of the chains.      *)
LEMMA ChildCompares ==
  ASSUME TypeInv, TreeInv, ChildStage
  PROVE  LET n == childSynced + 1
             said == DOMAIN Replayed(n)
         IN  /\ n \in DOMAIN L2 /\ said \subseteq DOMAIN childMem
             /\ childWork'.done = said \cup
                  {id \in DOMAIN childMem : \E j \in said : Clears(j, id)}
             /\ TreeAt(childWork'.tree, n)
             /\ \E late \in SUBSET (DOMAIN childMem \ childWork'.done) :
                  /\ \A id \in late : L2[n].time > L1Time(id) + Interval
                  /\ childWork'.out = Timeouts(late, L2[n].time) \cup
                       {Challenge(id, L2[n].time, "mismatch") : id \in {i \in said : Wrong(i, n)}}
<1> DEFINE n == childSynced + 1
           said == DOMAIN Replayed(n)
           found(o) == ChildEvents(n, treeIndex, o[1])
<1>1. PlaceInv /\ n \in DOMAIN L2 /\ childSynced < Len(L2) /\ chains \in Histories
  BY NextBlocks, Zenon DEF TypeInv, ChildStage, PlaceInv
<1>2. PICK o \in Outputs(treeIndex, HostHeight) : \E late \in SUBSET DOMAIN childMem :
        /\ o[1] >= n /\ Check(o).ok
        /\ late \cap Check(o).done = {}
        /\ \A id \in late : PastDue(childMem[id], L2[n].time)
        /\ childWork'.done = Check(o).done
        /\ childWork'.out = Timeouts(late, L2[n].time) \cup Mismatches(o)
        /\ childWork'.tree = IF o[1] = n THEN treeIndex + 1 ELSE treeIndex
  BY ChildWork, Zenon
<1>3. PICK late \in SUBSET DOMAIN childMem :
        /\ o[1] >= n /\ Check(o).ok
        /\ late \cap Check(o).done = {}
        /\ \A id \in late : PastDue(childMem[id], L2[n].time)
        /\ childWork'.done = Check(o).done
        /\ childWork'.out = Timeouts(late, L2[n].time) \cup Mismatches(o)
        /\ childWork'.tree = IF o[1] = n THEN treeIndex + 1 ELSE treeIndex
  BY <1>2, Zenon
<1>4. /\ DOMAIN found(o) = said /\ \A id \in said : found(o)[id] = Replayed(n)[id]
      /\ TreeAt(IF o[1] = n THEN treeIndex + 1 ELSE treeIndex, n)
  BY <1>1, <1>3, Replays, Zenon DEF TreeInv
<1> HIDE DEF found
<1>5. /\ Check(o).ok = (DOMAIN found(o) \subseteq DOMAIN childMem)
      /\ Check(o).wrong = {id \in DOMAIN found(o) \cap DOMAIN childMem : childMem[id].val # found(o)[id]}
      /\ Check(o).done = DOMAIN found(o) \cup
           {id \in DOMAIN childMem : \E j \in DOMAIN found(o) : Clears(j, id)}
  BY Zenon DEF Check, CheckValue, found
<1>6. said \subseteq DOMAIN childMem
  BY <1>3, <1>4, <1>5, Zenon
<1>7. ASSUME NEW id \in DOMAIN childMem
      PROVE  childMem[id].val = L1Value(id) /\ childMem[id].time = L1Time(id)
  <2>1. PICK m \in DOMAIN L1 : id \in DOMAIN L1[m].events
          /\ childMem[id].val = L1[m].events[id] /\ childMem[id].time = L1[m].time
    BY ZenonT(40) DEF TypeInv, MapInv, EventsOf
  <2> QED
    BY <1>1, <2>1, ValueOf, Zenon
<1>8. Check(o).wrong = {i \in said : Wrong(i, n)}
  BY <1>4, <1>5, <1>6, <1>7, Zenon DEF Wrong
<1>9. \A id \in late : L2[n].time > L1Time(id) + Interval
  BY <1>3, <1>7, Zenon DEF PastDue
<1>10. /\ childWork'.done = said \cup {id \in DOMAIN childMem : \E j \in said : Clears(j, id)}
       /\ late \in SUBSET (DOMAIN childMem \ childWork'.done)
       /\ TreeAt(childWork'.tree, n)
  BY <1>3, <1>4, <1>5, Zenon
<1>11. childWork'.out = Timeouts(late, L2[n].time) \cup
         {Challenge(id, L2[n].time, "mismatch") : id \in {i \in said : Wrong(i, n)}}
  BY <1>3, <1>8, Zenon DEF Mismatches
<1> QED
  BY <1>1, <1>6, <1>9, <1>10, <1>11, Zenon

(* Before the first block no output is replayed.                           *)
LEMMA FirstTree == chains \in Histories => TreeAt(1, 0)
<1> SUFFICES ASSUME chains \in Histories, NEW m \in DOMAIN L1, NEW p \in DOMAIN L1[m].events,
                    p[1] = "Output"
             PROVE  p[2] >= 1 <=> L1[m].events[p][1] > 0
  BY Zenon DEF TreeAt
<1>1. p \in EventIds /\ OutputsRise(L1)
  BY ChainFacts, Zenon DEF IsBlock
<1>2. L1[m].events[p][1] \in Nat \ {0}
  BY <1>1, Zenon DEF OutputsRise
<1>3. p[2] \in Nat \ {0}
  BY <1>1, Zenon DEF EventIds
<1> QED
  BY <1>2, <1>3, SMTT(30)

(* The tree moves with the child.                                          *)
LEMMA TreeStep ==
  ASSUME TypeInv, TreeInv, [Next]_vars
  PROVE  TreeInv'
<1>1. PlaceInv /\ chains \in Histories /\ chains' = chains /\ L1' = L1
  BY ChainsKept, ChainsFixed, Zenon DEF TypeInv, PlaceInv
<1>2. CASE ChildStage
  <2>1. TreeAt(childWork'.tree, childSynced + 1) /\ UNCHANGED <<treeIndex, childSynced>>
    BY <1>2, ChildCompares, OtherLoop, Zenon
  <2> QED
    BY <1>1, <2>1, Zenon DEF TreeInv, TreeAt
<1>3. CASE ChildCommit
  <2>1. /\ childPC = "staged" /\ childPC' = "committed"
        /\ childSynced' = childSynced + 1 /\ treeIndex' = childWork.tree
    BY <1>3, Zenon DEF ChildCommit
  <2> QED
    BY <1>1, <2>1, Zenon DEF TreeInv, TreeAt
<1>4. CASE ResetHeights
  <2>1. treeIndex' = 1 /\ childSynced' = 0 /\ childPC' = "ready"
    BY <1>1, <1>4, LoopsReady, Zenon
  <2> QED
    BY <1>1, <2>1, FirstTree, Zenon DEF TreeInv, TreeAt
<1>5. CASE Start
  <2>1. UNCHANGED <<treeIndex, childSynced>> /\ childPC' = "ready"
    BY <1>1, <1>5, LoopsReady, Zenon
  <2> QED
    BY <1>1, <2>1, Zenon DEF TreeInv, TreeAt
<1>6. CASE HostStage \/ HostCommit
  <2>1. UNCHANGED <<treeIndex, childSynced, childPC, childWork>>
    BY <1>6, OtherLoop, Zenon
  <2> QED
    BY <1>1, <2>1, Zenon DEF TreeInv, TreeAt
<1>7. CASE ~HostStage /\ ~HostCommit /\ ~ChildStage /\ ~ChildCommit /\ ~Start /\ ~ResetHeights
  <2>1. /\ UNCHANGED <<treeIndex, childSynced>>
        /\ childPC' = "staged" => childPC = "staged" /\ UNCHANGED childWork
    BY <1>7, QuietStep, Zenon
  <2> QED
    BY <1>1, <2>1, Zenon DEF TreeInv, TreeAt
<1> QED
  BY <1>2, <1>3, <1>4, <1>5, <1>6, <1>7, Zenon

(* The tree holds of every state.                                          *)
LEMMA TreeInvariant == Spec => []TreeInv
<1>1. Init => TreeInv
  BY FirstTree, Zenon DEF Init, TreeInv
<1>2. TypeInv /\ TreeInv /\ [Next]_vars => TreeInv'
  BY TreeStep, Zenon
<1> QED
  BY <1>1, <1>2, TypeInvariant, PTL DEF Spec

(* The panic of handleTree is never reached: a known output of the working *)
(* tree is for a block that the child has still to read, after any stops,  *)
(* resets and failing commits.                                             *)
THEOREM TreesInTime == Spec => []NoTreePassed
<1>1. TypeInv /\ TreeInv => NoTreePassed
  <2> SUFFICES ASSUME TypeInv, TreeInv, NEW o \in Outputs(treeIndex, HostHeight)
               PROVE  o[1] > childSynced
    BY Zenon DEF NoTreePassed
  <2> DEFINE out == <<"Output", treeIndex>>
  <2>1. PICK m \in DOMAIN L1 : out \in DOMAIN L1[m].events /\ o = L1[m].events[out]
    BY OutputFound, Zenon DEF TypeInv
  <2>2. out[1] = "Output" /\ out[2] >= treeIndex
    BY DEF TypeInv, PlaceInv
  <2> QED
    BY <2>1, <2>2, Zenon DEF TreeInv, TreeAt
<1> QED
  BY <1>1, TypeInvariant, TreeInvariant, PTL

-----------------------------------------------------------------------------
(* Pending events.                                                         *)

(* What the host queues follows from its block.                            *)
LEMMA QueueStep ==
  ASSUME TypeInv, SequenceInv, QueueInv, [Next]_vars
  PROVE  QueueInv'
<1>1. PlaceInv /\ chains \in Histories /\ chains' = chains /\ L1' = L1
  BY ChainsKept, ChainsFixed, Zenon DEF TypeInv, PlaceInv
<1>2. CASE HostStage
  <2> DEFINE b == L1[hostSynced + 1]
  <2>1. hostSynced + 1 \in DOMAIN L1 /\ hostPC' = "staged"
    BY <1>1, <1>2, NextBlocks, Zenon DEF HostStage
  <2>2. hostWork'.queue = HostEvents(b)
    BY <1>2, HostWork, Zenon
  <2>3. DOMAIN HostEvents(b) = {i \in DOMAIN b.events : i[1] = "Deposit" => i[2] >= initialL1Sequence}
    BY Zenon DEF HostEvents
  <2>4. DOMAIN b.events \subseteq EventIds
    BY <1>1, <2>1, ChainFacts, Zenon DEF IsBlock
  <2>5. \A id \in DOMAIN b.events \ DOMAIN HostEvents(b) :
          id[1] = "Deposit" /\ id[2] < initialL1Sequence
    <3> TAKE id \in DOMAIN b.events \ DOMAIN HostEvents(b)
    <3>1. id[1] = "Deposit" /\ ~(id[2] >= initialL1Sequence)
      BY <2>3, Zenon
    <3>2. id[2] \in Nat /\ initialL1Sequence \in Nat
      BY <2>4, Zenon DEF EventIds, SequenceInv
    <3> QED
      BY <3>1, <3>2
  <2>6. UNCHANGED <<hostSynced, initialL1Sequence>>
    BY <1>2, OtherLoop, Zenon
  <2> HIDE DEF b
  <2>7. DOMAIN hostWork'.queue \subseteq DOMAIN b.events
    BY <2>2, <2>3, Zenon
  <2> QED
    BY <1>1, <2>1, <2>2, <2>5, <2>6, <2>7, Zenon DEF QueueInv, b
<1>3. CASE HostCommit
  <2>1. /\ hostPC = "staged" /\ hostPC' = "committed" /\ hostSynced' = hostSynced + 1
        /\ UNCHANGED <<hostWork, initialL1Sequence>>
    BY <1>3, OtherLoop, Zenon DEF HostCommit
  <2> QED
    BY <1>1, <2>1, Zenon DEF QueueInv
<1>4. CASE Start \/ ResetHeights
  BY <1>1, <1>4, LoopsReady, Zenon DEF QueueInv
<1>5. CASE ChildStage \/ ChildCommit
  <2>1. UNCHANGED <<hostSynced, initialL1Sequence, hostPC, hostWork>>
    BY <1>5, OtherLoop, Zenon
  <2> QED
    BY <1>1, <2>1, Zenon DEF QueueInv
<1>6. CASE ~HostStage /\ ~HostCommit /\ ~ChildStage /\ ~ChildCommit /\ ~Start /\ ~ResetHeights
  <2>1. /\ UNCHANGED <<hostSynced, initialL1Sequence>>
        /\ hostPC' = "staged" => hostPC = "staged" /\ UNCHANGED hostWork
        /\ hostPC' = "committed" => hostPC = "committed" /\ UNCHANGED hostWork
    BY <1>6, QuietStep, Zenon
  <2> QED
    BY <1>1, <2>1, Zenon DEF QueueInv
<1> QED
  BY <1>2, <1>3, <1>4, <1>5, <1>6, Zenon

(* The queue holds of every state.                                         *)
LEMMA QueueInvariant == Spec => []QueueInv
<1>1. Init => QueueInv
  BY Zenon DEF Init, QueueInv
<1>2. TypeInv /\ SequenceInv /\ QueueInv /\ [Next]_vars => QueueInv'
  BY QueueStep, Zenon
<1> QED
  BY <1>1, <1>2, TypeInvariant, SequenceInvariant, PTL DEF Spec

(* A new event of L1 is not settled by what the child has compared.        *)
LEMMA NewUnsettled ==
  ASSUME TypeInv, hostSynced < Len(L1), NEW id \in DOMAIN L1[hostSynced + 1].events,
         NEW n, Seen(n)
  PROVE  ~Settled(id, n)
<1> SUFFICES ASSUME Settled(id, n) PROVE FALSE
  BY Zenon
<1>1. PICK k \in DOMAIN L2 : k <= n /\ \E j \in DOMAIN Replayed(k) : j = id \/ Clears(j, id)
  BY Zenon DEF Settled
<1>2. PICK j \in DOMAIN Replayed(k) : j = id \/ Clears(j, id)
  BY <1>1, Zenon
<1>3. j \in L1Events(hostSynced)
  BY <1>1, Zenon DEF Seen
<1>4. chains \in Histories /\ hostSynced \in Nat
  BY NextBlocks, Zenon DEF TypeInv, PlaceInv
<1>5. id # j /\ (id[1] = j[1] /\ id[1] # "Deposit" => id[2] > j[2])
  BY <1>3, <1>4, NewEvent, Zenon
<1>6. j[1] = id[1] /\ id[1] # "Deposit" /\ id[2] < j[2]
  BY <1>2, <1>5, Zenon DEF Clears, OracleTypes
<1>7. id \in EventIds /\ j \in EventIds
  <2>1. hostSynced + 1 \in DOMAIN L1 /\ 1..hostSynced \subseteq DOMAIN L1
    BY <1>4, ChainFacts
  <2> QED
    BY <1>3, <1>4, <2>1, ChainFacts, Zenon DEF IsBlock, L1Events
<1> QED
  BY <1>5, <1>6, <1>7, SMTT(30) DEF EventIds

(* What is in the child's memory is in the database, unless the child's    *)
(* own commit has just removed it, and the rest of the database is the     *)
(* host's last block.                                                      *)
LEMMA ChildMemory ==
  ASSUME MemInv, up = "run", childPC # "committed"
  PROVE  /\ DOMAIN childMem \subseteq DOMAIN childPending
         /\ \A id \in DOMAIN childPending \ DOMAIN childMem :
              hostPC = "committed" /\ id \in DOMAIN hostWork.queue
<1>1. DOMAIN childPending = DOMAIN Merge(childMem, Added) \ Removed /\ Removed = {}
  BY Zenon DEF MemInv, MatchInv, Match, Removed
<1>2. DOMAIN childPending = DOMAIN childMem \cup DOMAIN Added
  BY <1>1, Zenon DEF Merge
<1>3. DOMAIN Added \subseteq IF hostPC = "committed" THEN DOMAIN hostWork.queue ELSE {}
  BY Zenon DEF Added, Empty
<1> QED
  BY <1>2, <1>3, Zenon

(* A block of the child settles nothing that is pending but what it says.  *)
LEMMA StagedUnsettled ==
  ASSUME TypeInv, MemInv, QueueInv, TreeInv, PendingInv, ChildStage,
         NEW id \in DOMAIN childPending \ childWork'.done
  PROVE  ~Settled(id, childSynced + 1)
<1> DEFINE n == childSynced + 1
<1>1. /\ DOMAIN Replayed(n) \subseteq DOMAIN childMem
      /\ childWork'.done = DOMAIN Replayed(n) \cup
           {i \in DOMAIN childMem : \E j \in DOMAIN Replayed(n) : Clears(j, i)}
  BY ChildCompares, Zenon
<1>2. ~Settled(id, childSynced)
  BY Zenon DEF PendingInv
<1>3. chains \in Histories /\ childSynced \in Nat /\ hostSynced \in Nat
  BY NextBlocks, Zenon DEF TypeInv, PlaceInv
<1>4. ASSUME NEW j \in DOMAIN Replayed(n), j = id \/ Clears(j, id) PROVE FALSE
  <2>1. id \notin DOMAIN childMem /\ Clears(j, id)
    BY <1>1, <1>4, Zenon
  <2>2. hostPC = "committed" /\ id \in DOMAIN hostWork.queue
    BY <2>1, ChildMemory, Zenon DEF ChildStage
  <2>3. /\ hostSynced \in DOMAIN L1 /\ id \in DOMAIN L1[hostSynced].events
        /\ \A i \in DOMAIN L1[hostSynced].events \ DOMAIN hostWork.queue : i[1] = "Deposit"
    BY <2>2, Zenon DEF QueueInv
  <2>4. j \in L1Events(hostSynced) /\ j \notin DOMAIN hostWork.queue
    BY <1>1, <2>2, Zenon DEF MemInv, KnownInv, HostInv
  <2>5. j[1] # "Deposit" /\ j[1] = id[1] /\ id[2] < j[2]
    BY <2>1, Zenon DEF Clears, OracleTypes
  <2>6. j \notin DOMAIN L1[hostSynced].events
    BY <2>3, <2>4, <2>5, Zenon
  <2>7. hostSynced - 1 \in Nat /\ hostSynced - 1 < Len(L1) /\ (hostSynced - 1) + 1 = hostSynced
    BY <1>3, <2>3, ChainFacts
  <2>8. j \in L1Events(hostSynced - 1)
    BY <2>4, <2>6, <2>7, EventsNext, Zenon
  <2>9. id[2] > j[2]
    BY <1>3, <2>3, <2>5, <2>7, <2>8, NewEvent, Zenon
  <2>10. id[2] \in Nat /\ j[2] \in Nat
    <3>1. DOMAIN childMem \subseteq EventIds /\ DOMAIN childPending \subseteq EventIds
      BY Zenon DEF TypeInv, MapInv, EventsOf, EventMap
    <3> QED
      BY <1>1, <3>1, Zenon DEF EventIds
  <2> QED
    BY <2>5, <2>9, <2>10, SMTT(30)
<1> QED
  BY <1>2, <1>3, <1>4, SettledNext, Zenon

(* Settled and pending events.                                             *)
LEMMA PendingStep ==
  ASSUME TypeInv, MemInv, QueueInv, TreeInv, PendingInv, [Next]_vars
  PROVE  PendingInv'
<1>1. /\ PlaceInv /\ chains \in Histories /\ chains' = chains /\ L2' = L2
      /\ hostSynced \in Nat /\ childSynced \in Nat
  BY ChainsKept, ChainsFixed, NextBlocks, Zenon DEF TypeInv, PlaceInv
<1>2. ASSUME UNCHANGED <<hostSynced, childSynced, childPending>>,
             childPC' = "staged" => childPC = "staged" /\ UNCHANGED childWork
      PROVE  PendingInv'
  <2>1. \A n : Seen(n)' <=> Seen(n)
    BY <1>1, <1>2, ChainsFixed, Zenon DEF Seen
  <2> QED
    BY <1>1, <1>2, <2>1, ChainsFixed, Zenon DEF PendingInv
<1>3. CASE HostCommit
  <2>1. /\ hostPC = "staged" /\ hostSynced' = hostSynced + 1
        /\ childPending' = Merge(childPending, hostWork.queue)
        /\ UNCHANGED <<childSynced, childPC, childWork>>
    BY <1>3, OtherLoop, Zenon DEF HostCommit
  <2>2. \A n : Seen(n) => Seen(n)'
    <3>1. L1Events(hostSynced) \subseteq L1Events(hostSynced)'
      BY <1>1, <2>1, EventsNext, ChainsFixed, Zenon
    <3> QED
      BY <1>1, <3>1, ChainsFixed, Zenon DEF Seen
  <2>3. DOMAIN childPending' = DOMAIN childPending \cup DOMAIN hostWork.queue
    BY <2>1, Zenon DEF Merge
  <2>4. \A id \in DOMAIN hostWork.queue : \A n : Seen(n) => ~Settled(id, n)
    <3>1. DOMAIN hostWork.queue \subseteq DOMAIN L1[hostSynced + 1].events
      BY <2>1, Zenon DEF QueueInv
    <3>2. hostSynced < Len(L1)
      BY <1>1, <2>1, Zenon DEF PlaceInv
    <3> QED
      BY <3>1, <3>2, NewUnsettled, Zenon
  <2> QED
    BY <1>1, <2>1, <2>2, <2>3, <2>4, ChainsFixed, Zenon DEF PendingInv
<1>4. CASE ChildStage
  <2>1. UNCHANGED <<hostSynced, childSynced, childPending>>
    BY <1>4, OtherLoop, Zenon
  <2>2. Seen(childSynced + 1)
    <3>1. DOMAIN Replayed(childSynced + 1) \subseteq L1Events(hostSynced)
      BY <1>4, ChildCompares, Zenon DEF MemInv, KnownInv
    <3>2. \A k \in DOMAIN L2 : k <= childSynced + 1 => k <= childSynced \/ k = childSynced + 1
      BY <1>1, ChainFacts, SMTT(30)
    <3>3. Seen(childSynced)
      BY Zenon DEF PendingInv
    <3> QED
      BY <3>1, <3>2, <3>3, Zenon DEF Seen
  <2>3. \A id \in DOMAIN childPending \ childWork'.done : ~Settled(id, childSynced + 1)
    BY <1>4, StagedUnsettled, Zenon
  <2>4. \A n : Seen(n)' <=> Seen(n)
    BY <1>1, <2>1, ChainsFixed, Zenon DEF Seen
  <2> QED
    BY <1>1, <2>1, <2>2, <2>3, <2>4, ChainsFixed, Zenon DEF PendingInv
<1>5. CASE ChildCommit
  <2>1. /\ childPC = "staged" /\ childPC' = "committed" /\ childSynced' = childSynced + 1
        /\ childPending' = Without(Merge(childPending, childWork.late), childWork.done)
        /\ hostSynced' = hostSynced
    BY <1>5, OtherLoop, Zenon DEF ChildCommit
  <2>2. up = "run"
    BY <1>1, <2>1, Zenon DEF PlaceInv
  <2>3. DOMAIN childWork.late \subseteq DOMAIN childPending
    <3>1. DOMAIN childWork.late \subseteq DOMAIN childMem
      BY <2>1, Zenon DEF MemInv, ChildInv
    <3> QED
      BY <2>1, <2>2, <3>1, ChildMemory, Zenon
  <2>4. DOMAIN childPending' \subseteq DOMAIN childPending \ childWork.done
    BY <2>1, <2>3, Zenon DEF Without, Restrict, Merge
  <2>5. \A n : Seen(n)' <=> Seen(n)
    BY <1>1, <2>1, ChainsFixed, Zenon DEF Seen
  <2> QED
    BY <1>1, <2>1, <2>4, <2>5, ChainsFixed, Zenon DEF PendingInv
<1>6. CASE ResetHeights
  <2>1. childSynced' = 0 /\ childPending' = Empty /\ childPC' = "ready"
    BY <1>1, <1>6, LoopsReady, Zenon
  <2>2. \A k \in DOMAIN L2 : ~(k <= 0)
    BY <1>1, ChainFacts
  <2> QED
    BY <1>1, <2>1, <2>2, Zenon DEF PendingInv, Seen, Empty
<1>7. CASE HostStage
  BY <1>2, <1>7, OtherLoop, Zenon
<1>8. CASE Start
  BY <1>1, <1>2, <1>8, LoopsReady, Zenon
<1>9. CASE ~HostStage /\ ~HostCommit /\ ~ChildStage /\ ~ChildCommit /\ ~Start /\ ~ResetHeights
  BY <1>2, <1>9, QuietStep, Zenon
<1> QED
  BY <1>3, <1>4, <1>5, <1>6, <1>7, <1>8, <1>9, Zenon

(* Nothing pending is settled, in every state.                             *)
LEMMA PendingInvariant == Spec => []PendingInv
<1>1. Init => PendingInv
  <2> SUFFICES ASSUME Init PROVE PendingInv
    BY Zenon
  <2>1. \A k \in DOMAIN L2 : ~(k <= 0)
    BY ChainFacts DEF Init
  <2> QED
    BY <2>1, Zenon DEF Init, PendingInv, Seen, Empty
<1>2. TypeInv /\ MemInv /\ QueueInv /\ TreeInv /\ PendingInv /\ [Next]_vars => PendingInv'
  BY PendingStep, Zenon
<1> QED
  BY <1>1, <1>2, TypeInvariant, MemoryInvariant, QueueInvariant, TreeInvariant, PTL DEF Spec

(* What leaves the database is settled, and what does not get into it.     *)
LEMMA KeptStep ==
  ASSUME TypeInv, SequenceInv, QueueInv, TreeInv, KeptInv, [Next]_vars
  PROVE  KeptInv'
<1>1. /\ PlaceInv /\ chains \in Histories /\ chains' = chains
      /\ hostSynced \in Nat /\ childSynced \in Nat
  BY ChainsKept, NextBlocks, Zenon DEF TypeInv, PlaceInv
<1>2. ASSUME UNCHANGED <<hostSynced, childSynced, childPending>>,
             childPC' = "staged" => childPC = "staged" /\ UNCHANGED childWork
      PROVE  KeptInv'
  BY <1>1, <1>2, ChainsFixed, Zenon DEF KeptInv, EventsKept
<1>3. CASE HostCommit
  <2>1. /\ hostPC = "staged" /\ hostSynced' = hostSynced + 1
        /\ childPending' = Merge(childPending, hostWork.queue)
        /\ UNCHANGED <<childSynced, childPC, childWork>>
    BY <1>3, OtherLoop, Zenon DEF HostCommit
  <2>2. up = "run"
    BY <1>1, <2>1, Zenon DEF PlaceInv
  <2>3. DOMAIN childPending' = DOMAIN childPending \cup DOMAIN hostWork.queue
    BY <2>1, Zenon DEF Merge
  <2>4. L1Events(hostSynced)' = L1Events(hostSynced) \cup DOMAIN L1[hostSynced + 1].events
    BY <1>1, <2>1, EventsNext, ChainsFixed, Zenon
  <2>5. ASSUME NEW id \in DOMAIN L1[hostSynced + 1].events, id \notin DOMAIN hostWork.queue
        PROVE  id[1] = "Deposit" /\ Settled(id, childSynced + 1)
    <3>1. hostSynced + 1 \in DOMAIN L1 /\ id[1] = "Deposit" /\ id[2] < initialL1Sequence
      BY <2>1, <2>5, Zenon DEF QueueInv
    <3>2. id \in EventIds
      BY <1>1, <3>1, ChainFacts, Zenon DEF IsBlock
    <3>3. id = <<"Deposit", id[2]>> /\ id[2] \in 1..(initialL1Sequence - 1)
      BY <3>1, <3>2, SMTT(30) DEF EventIds, SequenceInv
    <3> QED
      BY <2>2, <3>1, <3>3, Zenon DEF SequenceInv
  <2> QED
    BY <1>1, <2>1, <2>3, <2>4, <2>5, ChainsFixed, Zenon DEF KeptInv, EventsKept
<1>4. CASE ChildStage
  <2> DEFINE n == childSynced + 1
  <2>1. /\ n \in DOMAIN L2
        /\ childWork'.done = DOMAIN Replayed(n) \cup
             {id \in DOMAIN childMem : \E j \in DOMAIN Replayed(n) : Clears(j, id)}
    BY <1>4, ChildCompares, Zenon
  <2>2. \A id \in childWork'.done : \E j \in DOMAIN Replayed(n) : j = id \/ Clears(j, id)
    BY <2>1, Zenon
  <2>3. n <= n
    BY <1>1
  <2>4. \A id \in childWork'.done : Settled(id, n)
    BY <2>1, <2>2, <2>3, Zenon DEF Settled
  <2>5. UNCHANGED <<hostSynced, childSynced, childPending>>
    BY <1>4, OtherLoop, Zenon
  <2> QED
    BY <1>1, <2>4, <2>5, ChainsFixed, Zenon DEF KeptInv, EventsKept
<1>5. CASE ChildCommit
  <2>1. /\ childPC = "staged" /\ childPC' = "committed" /\ childSynced' = childSynced + 1
        /\ childPending' = Without(Merge(childPending, childWork.late), childWork.done)
        /\ hostSynced' = hostSynced
    BY <1>5, OtherLoop, Zenon DEF ChildCommit
  <2>2. DOMAIN childPending \ childWork.done \subseteq DOMAIN childPending'
    BY <2>1, Zenon DEF Without, Restrict, Merge
  <2>3. \A id : Settled(id, childSynced) => Settled(id, childSynced + 1)
    BY <1>1, SettledStays
  <2>4. \A id \in L1Events(hostSynced) : id \in DOMAIN childPending' \/ Settled(id, childSynced + 1)
    BY <2>1, <2>2, <2>3, Zenon DEF KeptInv, EventsKept
  <2> QED
    BY <1>1, <2>1, <2>4, ChainsFixed, Zenon DEF KeptInv, EventsKept
<1>6. CASE ResetHeights
  <2>1. hostSynced' = 0 /\ childPC' = "ready"
    BY <1>1, <1>6, LoopsReady, Zenon
  <2>2. L1Events(0) = {}
    BY DEF L1Events
  <2> QED
    BY <1>1, <2>1, <2>2, ChainsFixed, Zenon DEF KeptInv, EventsKept
<1>7. CASE HostStage
  BY <1>2, <1>7, OtherLoop, Zenon
<1>8. CASE Start
  BY <1>1, <1>2, <1>8, LoopsReady, Zenon
<1>9. CASE ~HostStage /\ ~HostCommit /\ ~ChildStage /\ ~ChildCommit /\ ~Start /\ ~ResetHeights
  BY <1>2, <1>9, QuietStep, Zenon
<1> QED
  BY <1>3, <1>4, <1>5, <1>6, <1>7, <1>8, <1>9, Zenon

(* Nothing the host has synced is forgotten, whatever stops, resets and    *)
(* failing commits: an event is pending in the child's database until an   *)
(* L2 block that the child has synced settles it, or the next one does in  *)
(* the case of a deposit.                                                  *)
THEOREM NothingForgotten == Spec => []EventsKept
<1>1. Init => KeptInv
  <2>1. L1Events(0) = {}
    BY DEF L1Events
  <2> QED
    BY <2>1, Zenon DEF Init, KeptInv, EventsKept
<1>2. TypeInv /\ SequenceInv /\ QueueInv /\ TreeInv /\ KeptInv /\ [Next]_vars => KeptInv'
  BY KeptStep, Zenon
<1>3. KeptInv => EventsKept
  BY Zenon DEF KeptInv
<1> QED
  BY <1>1, <1>2, <1>3, TypeInvariant, SequenceInvariant, QueueInvariant, TreeInvariant, PTL
  DEF Spec

-----------------------------------------------------------------------------
(* Challenges.                                                             *)

(* Differences get challenged with the commit of the block.                *)
LEMMA WrongStep ==
  ASSUME TypeInv, TimeoutInv, TreeInv, WrongInv, [Next]_vars
  PROVE  WrongInv'
<1>1. PlaceInv /\ chains \in Histories /\ chains' = chains /\ childSynced \in Nat
  BY ChainsKept, NextBlocks, Zenon DEF TypeInv, PlaceInv
<1>2. ASSUME Challenged \subseteq Challenged', childSynced' = childSynced,
             childPC' = "staged" => childPC = "staged" /\ UNCHANGED childWork
      PROVE  WrongInv'
  BY <1>1, <1>2, ChainsFixed, Zenon DEF WrongInv, WrongChallenged
<1>3. ~Start => Challenged \subseteq Challenged'
  BY ChallengedGrows, Zenon
<1>4. CASE ChildStage
  <2> DEFINE n == childSynced + 1
             time == L2[n].time
             wrong == {i \in DOMAIN Replayed(n) : Wrong(i, n)}
  <2>1. UNCHANGED <<childSynced, up>> /\ up = "run"
    BY <1>4, OtherLoop, Zenon DEF ChildStage
  <2>2. PICK late : childWork'.out = Timeouts(late, time) \cup
                      {Challenge(id, time, "mismatch") : id \in wrong}
    BY <1>4, ChildCompares, Zenon
  <2>3. ASSUME NEW id \in wrong PROVE id \in Ids(childWork'.out)
    <3> HIDE DEF wrong
    <3>1. Challenge(id, time, "mismatch") \in childWork'.out
      BY <2>2, Zenon
    <3>2. Challenge(id, time, "mismatch").id = id
      BY Zenon DEF Challenge
    <3> QED
      BY <3>1, <3>2, Zenon DEF Ids
  <2>4. Challenged \subseteq Challenged'
    BY <1>3, <2>1, Zenon DEF Start
  <2> QED
    BY <1>1, <2>1, <2>3, <2>4, ChainsFixed, Zenon DEF WrongInv, WrongChallenged
<1>5. CASE ChildCommit
  <2>1. childPC = "staged" /\ childPC' = "committed" /\ childSynced' = childSynced + 1
    BY <1>5, Zenon DEF ChildCommit
  <2>2. Challenged \cup Ids(childWork.out) \subseteq Challenged'
    <3>1. ~Start
      BY <1>1, <2>1, Zenon DEF Start, PlaceInv
    <3> QED
      BY <1>3, <1>5, <3>1, ChallengedGrows, Zenon
  <2>3. \A n \in 1..(childSynced + 1) : n \in 1..childSynced \/ n = childSynced + 1
    BY <1>1
  <2>4. \A n \in 1..(childSynced + 1) : \A id \in DOMAIN Replayed(n) :
          Wrong(id, n) => id \in Challenged'
    BY <2>1, <2>2, <2>3, Zenon DEF WrongInv, WrongChallenged
  <2> QED
    BY <1>1, <2>1, <2>4, ChainsFixed, Zenon DEF WrongInv, WrongChallenged
<1>6. CASE ResetHeights
  <2>1. childSynced' = 0 /\ childPC' = "ready"
    BY <1>1, <1>6, LoopsReady, Zenon
  <2> QED
    BY <2>1 DEF WrongInv, WrongChallenged
<1>7. CASE Start
  <2>1. childSynced' = childSynced /\ childPC' = "ready"
    BY <1>1, <1>7, LoopsReady, Zenon
  <2>2. CASE childSynced = 0
    BY <2>1, <2>2 DEF WrongInv, WrongChallenged
  <2>3. CASE childSynced > 0
    BY <1>2, <1>7, <2>1, <2>3, ChallengedGrows, Zenon
  <2> QED
    BY <1>1, <2>2, <2>3, SMTT(30)
<1>8. CASE (HostStage \/ HostCommit) /\ ~Start
  <2>1. UNCHANGED <<childSynced, childPC, childWork>>
    BY <1>8, OtherLoop, Zenon
  <2> QED
    BY <1>2, <1>3, <1>8, <2>1, Zenon
<1>9. CASE ~HostStage /\ ~HostCommit /\ ~ChildStage /\ ~ChildCommit /\ ~Start /\ ~ResetHeights
  <2>1. /\ childSynced' = childSynced
        /\ childPC' = "staged" => childPC = "staged" /\ UNCHANGED childWork
    BY <1>9, QuietStep, Zenon
  <2> QED
    BY <1>2, <1>3, <1>9, <2>1, Zenon
<1> QED
  BY <1>4, <1>5, <1>6, <1>7, <1>8, <1>9, Zenon

(* A wrong value in a synced L2 block, or a wrong output, has a challenge  *)
(* from the commit of the block on, whatever stops in between.             *)
THEOREM DifferencesChallenged == Spec => []WrongChallenged
<1>1. Init => WrongInv
  BY DEF Init, WrongInv, WrongChallenged
<1>2. TypeInv /\ TimeoutInv /\ TreeInv /\ WrongInv /\ [Next]_vars => WrongInv'
  BY WrongStep, Zenon
<1>3. WrongInv => WrongChallenged
  BY Zenon DEF WrongInv
<1> QED
  BY <1>1, <1>2, <1>3, TypeInvariant, TimeoutInvariant, TreeInvariant, PTL DEF Spec

(* What the host has pending and no output of the next block follows is    *)
(* still the last output after that block.                                 *)
LEMMA StillLast ==
  ASSUME TypeInv, MemInv, LastInv, HostStage,
         NEW id \in DOMAIN hostMem \ Followed(L1[hostSynced + 1])
  PROVE  IsLast(id, hostSynced + 1)
<1> DEFINE b == L1[hostSynced + 1]
           next == <<"Output", id[2] + 1>>
<1>1. /\ chains \in Histories /\ hostSynced \in Nat /\ hostSynced < Len(L1)
      /\ hostPC = "ready" /\ up = "run"
  BY NextBlocks, Zenon DEF TypeInv, PlaceInv, HostStage
<1>2. id \in DOMAIN hostPending
  <2>1. DOMAIN hostPending = DOMAIN Merge(hostMem, AddedLast) \ RemovedLast /\ RemovedLast = {}
    BY <1>1, Zenon DEF MemInv, MatchInv, Match, RemovedLast
  <2> QED
    BY <2>1, Zenon DEF Merge
<1>3. IsLast(id, hostSynced) /\ id \in L1Events(hostSynced) /\ id \in EventIds
  BY <1>2, Zenon DEF LastInv, MemInv, KnownInv, TypeInv, MapInv, EventsOf, EventMap
<1>4. ASSUME next \in DOMAIN b.events PROVE FALSE
  <2>1. \A o \in BlockOutputs(b) : o \in DOMAIN b.events /\ o[1] = "Output"
    BY Zenon DEF BlockOutputs, HostEvents
  <2>2. next \in BlockOutputs(b)
    BY <1>4, Zenon DEF BlockOutputs, HostEvents
  <2>3. id[1] = "Output"
    BY <1>3, Zenon DEF IsLast
  <2>4. \A o \in BlockOutputs(b) : id[2] < o[2]
    <3> TAKE o \in BlockOutputs(b)
    <3>1. o[2] > id[2]
      BY <1>1, <1>3, <2>1, <2>3, NewEvent, Zenon
    <3>2. o[2] \in Nat /\ id[2] \in Nat
      <4>1. o \in EventIds
        BY <1>1, <2>1, ChainFacts, NextBlocks, Zenon DEF IsBlock, TypeInv
      <4> QED
        BY <1>3, <4>1, Zenon DEF EventIds
    <3> QED
      BY <3>1, <3>2, Zenon
  <2>5. id = <<"Output", next[2] - 1>>
    BY <1>3, <2>3 DEF EventIds
  <2> QED
    BY <2>2, <2>4, <2>5, Zenon DEF Followed, PrevPendingEvent
<1>5. next \notin L1Events(hostSynced + 1)
  BY <1>1, <1>3, <1>4, EventsNext, Zenon DEF IsLast
<1> QED
  BY <1>3, <1>5, Zenon DEF IsLast

(* The host keeps the last output pending.                                 *)
LEMMA LastStep ==
  ASSUME TypeInv, MemInv, LastInv, [Next]_vars
  PROVE  LastInv'
<1>1. PlaceInv /\ chains \in Histories /\ chains' = chains /\ hostSynced \in Nat
  BY ChainsKept, NextBlocks, Zenon DEF TypeInv, PlaceInv
<1>2. \A id, n : IsLast(id, n)' <=> IsLast(id, n)
  BY <1>1, ChainsFixed, Zenon DEF IsLast
<1>3. CASE HostStage
  <2> DEFINE b == L1[hostSynced + 1]
  <2>1. PICK late \in SUBSET (DOMAIN hostMem \ Followed(b)) :
          /\ hostWork'.last = {o \in BlockOutputs(b) : \A p \in BlockOutputs(b) : p[2] <= o[2]}
          /\ hostWork'.done = late \cup Followed(b)
    BY <1>3, HostWork, Zenon
  <2>2. /\ up = "run" /\ hostPC = "ready" /\ hostSynced < Len(L1)
        /\ UNCHANGED <<hostSynced, hostPending>>
    BY <1>3, OtherLoop, Zenon DEF HostStage
  <2>3. ASSUME NEW id \in hostWork'.last PROVE IsLast(id, hostSynced + 1)
    <3>1. /\ id \in DOMAIN b.events /\ id[1] = "Output"
          /\ \A p \in DOMAIN b.events : p[1] = "Output" => p[2] <= id[2]
      BY <2>1, Zenon DEF BlockOutputs, HostEvents
    <3>2. id \in EventIds
      BY <1>1, <2>2, <3>1, ChainFacts, NextBlocks, Zenon DEF IsBlock
    <3> DEFINE next == <<"Output", id[2] + 1>>
    <3>3. next[1] = "Output" /\ next[2] = id[2] + 1 /\ id[2] \in Nat
      BY <3>2, Zenon DEF EventIds
    <3>4. next \notin DOMAIN b.events
      <4>1. ~(next[2] <= id[2])
        BY <3>3
      <4> QED
        BY <3>1, <3>3, <4>1, Zenon
    <3>5. next \notin L1Events(hostSynced)
      <4> SUFFICES ASSUME next \in L1Events(hostSynced) PROVE FALSE
        BY Zenon
      <4>1. id[2] > next[2]
        BY <1>1, <2>2, <3>1, <3>3, NewEvent, Zenon
      <4> QED
        BY <3>3, <4>1, SMTT(30)
    <3> QED
      BY <1>1, <3>1, <3>4, <3>5, EventsNext, Zenon DEF IsLast
  <2>4. ASSUME NEW id \in DOMAIN hostPending \ hostWork'.done PROVE IsLast(id, hostSynced + 1)
    <3>1. DOMAIN hostPending \subseteq DOMAIN hostMem
      <4>1. DOMAIN hostPending \subseteq DOMAIN Merge(hostMem, AddedLast) /\ AddedLast = Empty
        BY <2>2, Zenon DEF MemInv, MatchInv, Match, AddedLast
      <4> QED
        BY <4>1, Zenon DEF Merge, Empty
    <3> QED
      BY <1>3, <2>1, <3>1, StillLast, Zenon
  <2> QED
    BY <1>1, <1>2, <2>2, <2>3, <2>4, Zenon DEF LastInv
<1>4. CASE HostCommit
  <2>1. /\ hostPC = "staged" /\ hostPC' = "committed" /\ hostSynced' = hostSynced + 1
        /\ hostPending' = Without(Merge(hostPending, Restrict(hostWork.queue, hostWork.last)),
                                  hostWork.done)
    BY <1>4, Zenon DEF HostCommit
  <2>2. DOMAIN hostPending' \subseteq (DOMAIN hostPending \ hostWork.done) \cup hostWork.last
    BY <2>1, Zenon DEF Without, Restrict, Merge
  <2> QED
    BY <1>2, <2>1, <2>2, Zenon DEF LastInv
<1>5. CASE ChildStage \/ ChildCommit
  <2>1. UNCHANGED <<hostSynced, hostPending, hostPC, hostWork>>
    BY <1>5, OtherLoop, Zenon
  <2> QED
    BY <1>2, <2>1, Zenon DEF LastInv
<1>6. CASE Start
  <2>1. UNCHANGED <<hostSynced, hostPending>> /\ hostPC' = "ready"
    BY <1>1, <1>6, LoopsReady, Zenon
  <2> QED
    BY <1>2, <2>1, Zenon DEF LastInv
<1>7. CASE ResetHeights
  <2>1. hostPending' = Empty /\ hostPC' = "ready"
    BY <1>1, <1>7, LoopsReady, Zenon
  <2> QED
    BY <2>1, Zenon DEF LastInv, Empty
<1>8. CASE ~HostStage /\ ~HostCommit /\ ~ChildStage /\ ~ChildCommit /\ ~Start /\ ~ResetHeights
  <2>1. /\ UNCHANGED <<hostSynced, hostPending>>
        /\ hostPC' = "staged" => hostPC = "staged" /\ UNCHANGED hostWork
    BY <1>8, QuietStep, Zenon
  <2> QED
    BY <1>2, <2>1, Zenon DEF LastInv
<1> QED
  BY <1>3, <1>4, <1>5, <1>6, <1>7, <1>8, Zenon

(* The host's pending output is the last one, in every state.              *)
LEMMA LastInvariant == Spec => []LastInv
<1>1. Init => LastInv
  BY Zenon DEF Init, LastInv, Empty
<1>2. TypeInv /\ MemInv /\ LastInv /\ [Next]_vars => LastInv'
  BY LastStep, Zenon
<1> QED
  BY <1>1, <1>2, TypeInvariant, MemoryInvariant, PTL DEF Spec

(* The host challenges an output that no other has followed.               *)
LEMMA HostFounded ==
  ASSUME TypeInv, MemInv, LastInv, HostStage, NEW c \in hostWork'.out
  PROVE  Founded(c)
<1> DEFINE n == hostSynced + 1
<1>1. chains \in Histories /\ n \in DOMAIN L1
  BY NextBlocks, Zenon DEF TypeInv, PlaceInv, HostStage
<1>2. PICK late \in SUBSET (DOMAIN hostMem \ Followed(L1[n])) :
        /\ \A id \in late : PastDue(hostMem[id], L1[n].time)
        /\ hostWork'.out = Timeouts(late, L1[n].time)
  BY HostWork, Zenon
<1>3. PICK id \in late : c = Challenge(id, L1[n].time, "timeout")
  BY <1>2, Zenon DEF Timeouts
<1>4. c.id = id /\ c.time = L1[n].time /\ c.kind = "timeout"
  BY <1>3, Zenon DEF Challenge
<1>5. L1[n].time > L1Time(id) + Interval
  <2>1. PICK m \in DOMAIN L1 : id \in DOMAIN L1[m].events /\ hostMem[id].time = L1[m].time
    BY ZenonT(40) DEF TypeInv, MapInv, EventsOf
  <2>2. hostMem[id].time = L1Time(id)
    BY <1>1, <2>1, ValueOf, Zenon
  <2> QED
    BY <1>2, <2>2, Zenon DEF PastDue
<1>6. IsLast(id, n)
  BY StillLast, Zenon
<1> QED
  BY <1>1, <1>4, <1>5, <1>6, Zenon DEF Founded, IsLast

(* The child challenges a difference, or an event that it has not settled. *)
LEMMA ChildFounded ==
  ASSUME TypeInv, MemInv, QueueInv, TreeInv, PendingInv, ChildStage, NEW c \in childWork'.out
  PROVE  Founded(c)
<1> DEFINE n == childSynced + 1
           wrong == {i \in DOMAIN Replayed(n) : Wrong(i, n)}
<1>1. n \in DOMAIN L2 /\ up = "run" /\ childPC = "ready"
  BY ChildCompares, Zenon DEF ChildStage
<1>2. PICK late \in SUBSET (DOMAIN childMem \ childWork'.done) :
        /\ \A id \in late : L2[n].time > L1Time(id) + Interval
        /\ childWork'.out = Timeouts(late, L2[n].time) \cup
             {Challenge(id, L2[n].time, "mismatch") : id \in wrong}
  BY ChildCompares, Zenon
<1>3. ASSUME NEW id \in late, c = Challenge(id, L2[n].time, "timeout") PROVE Founded(c)
  <2>1. c.id = id /\ c.time = L2[n].time /\ c.kind = "timeout"
    BY <1>3, Zenon DEF Challenge
  <2>2. id \in DOMAIN childPending
    BY <1>1, ChildMemory, Zenon
  <2>3. ~Settled(id, n)
    BY <2>2, StagedUnsettled, Zenon
  <2> QED
    BY <1>1, <1>2, <2>1, <2>3, Zenon DEF Founded
<1>4. ASSUME NEW id \in wrong, c = Challenge(id, L2[n].time, "mismatch") PROVE Founded(c)
  <2>1. c.id = id /\ c.kind = "mismatch"
    BY <1>4, Zenon DEF Challenge
  <2> QED
    BY <1>1, <2>1, ZenonT(40) DEF Founded
<1> HIDE DEF wrong
<1> QED
  BY <1>2, <1>3, <1>4, Zenon DEF Timeouts

(* A challenge is never unfounded, whatever stops, resets and failing      *)
(* commits: a mismatch is one between the chains, and a timeout was found  *)
(* in a block later than the interval allows, where the child had not      *)
(* settled the event or the host had seen no next output.                  *)
THEOREM NoUnfoundedChallenge == Spec => []ChallengesFounded
<1>1. Init => FoundedInv
  BY DEF Init, FoundedInv, AllChallenges, Range, Empty, HostNoWork, ChildNoWork
<1>2. TypeInv /\ MemInv /\ QueueInv /\ TreeInv /\ PendingInv /\ LastInv /\ FoundedInv
        /\ [Next]_vars => FoundedInv'
  <2> SUFFICES ASSUME TypeInv, MemInv, QueueInv, TreeInv, PendingInv, LastInv, FoundedInv,
                      [Next]_vars, NEW c \in AllChallenges'
               PROVE  Founded(c)'
    BY Zenon DEF FoundedInv
  <2>1. \/ c \in AllChallenges
        \/ HostStage /\ c \in hostWork'.out
        \/ ChildStage /\ c \in childWork'.out
    BY ChallengeFlow, Zenon DEF TypeInv, ChallengeInv
  <2>2. Founded(c)
    BY <2>1, HostFounded, ChildFounded, Zenon DEF FoundedInv
  <2>3. chains' = chains
    BY ChainsKept, Zenon
  <2> QED
    BY <2>2, <2>3, ChainsFixed, Zenon DEF Founded
<1>3. FoundedInv => ChallengesFounded
  BY Zenon DEF FoundedInv, ChallengesFounded, Founded, AllChallenges
<1> QED
  BY <1>1, <1>2, <1>3, TypeInvariant, MemoryInvariant, QueueInvariant, TreeInvariant,
     PendingInvariant, LastInvariant, PTL DEF Spec
=============================================================================
