------------------------- MODULE BroadcasterProofs --------------------------
(***************************************************************************)
(* Broadcaster is type correct, for any accounts, messages and faults.     *)
(* The inductive invariant behind NoSavedMsgLost, that every step keeps    *)
(* it, and the theorems about saved messages and sequences.                *)
(*                                                                         *)
(* The theorems about lost messages assume what the code needs: the node   *)
(* signs with one account, and no transaction fails in its block.          *)
(***************************************************************************)
EXTENDS Broadcaster, TLAPS

(* What the checker sends again is the oldest pending transaction, so      *)
(* there is one as long as it is at it.                                    *)
TypeInv == TypeOK /\ (checker # "poll" => local # <<>>)

(* Facts about sequences.  They are those of the library, without the      *)
(* others that it has.                                                     *)
LEMMA SeqWiden ==
  ASSUME NEW S, NEW T, S \subseteq T, NEW s \in Seq(S)
  PROVE  s \in Seq(T)
OBVIOUS

(* A function on 1..n is a sequence.                                       *)
LEMMA SeqFunction ==
  ASSUME NEW S, NEW n \in Nat, NEW s \in [1..n -> S]
  PROVE  s \in Seq(S)
OBVIOUS

(* The empty sequence and the others.                                      *)
LEMMA EmptyFacts ==
  ASSUME NEW S
  PROVE  /\ <<>> \in Seq(S) /\ Len(<<>>) = 0
         /\ \A s \in Seq(S) : s # <<>> => Len(s) \in Nat \ {0}
OBVIOUS

(* Two sequences in a row.                                                 *)
LEMMA ConcatFacts ==
  ASSUME NEW S, NEW s \in Seq(S), NEW t \in Seq(S)
  PROVE  /\ s \o t \in Seq(S) /\ Len(s \o t) = Len(s) + Len(t)
         /\ \A i \in 1..(Len(s) + Len(t)) :
              (s \o t)[i] = IF i <= Len(s) THEN s[i] ELSE t[i - Len(s)]
OBVIOUS

(* A part of a sequence.                                                   *)
LEMMA SubSeqFacts ==
  ASSUME NEW S, NEW s, NEW m \in Int, NEW n \in Int, \A i \in m..n : s[i] \in S
  PROVE  /\ SubSeq(s, m, n) \in Seq(S)
         /\ Len(SubSeq(s, m, n)) = IF m <= n THEN n - m + 1 ELSE 0
         /\ \A i \in 1..(n - m + 1) : SubSeq(s, m, n)[i] = s[m + i - 1]
OBVIOUS

(* The first element and the others.                                       *)
LEMMA HeadTailFacts ==
  ASSUME NEW S, NEW s \in Seq(S), s # <<>>
  PROVE  /\ Head(s) \in S /\ Tail(s) \in Seq(S) /\ Len(Tail(s)) = Len(s) - 1
         /\ \A i \in 1..Len(Tail(s)) : Tail(s)[i] = s[i + 1]
OBVIOUS

(* One more element.                                                       *)
LEMMA AppendFacts ==
  ASSUME NEW S, NEW s \in Seq(S), NEW e \in S
  PROVE  /\ Append(s, e) \in Seq(S) /\ Append(s, e) # <<>>
         /\ Len(Append(s, e)) = Len(s) + 1 /\ Append(s, e)[Len(s) + 1] = e
         /\ \A i \in 1..Len(s) : Append(s, e)[i] = s[i]
OBVIOUS

(* The elements of a sequence over S are in S.                             *)
LEMMA ElemsType ==
  ASSUME NEW S, NEW s \in Seq(S)
  PROVE  Elems(s) \subseteq S
BY DEF Elems

(* The elements of a sequence are its head and those of its tail.          *)
LEMMA ElemsTail ==
  ASSUME NEW S, NEW s \in Seq(S), s # <<>>
  PROVE  Elems(s) = {Head(s)} \cup Elems(Tail(s))
<1>1. /\ Len(s) \in Nat /\ Len(s) >= 1 /\ Head(s) = s[1] /\ Len(Tail(s)) = Len(s) - 1
      /\ \A i \in 1..Len(Tail(s)) : Tail(s)[i] = s[i + 1]
  BY HeadTailFacts
<1>2. \A i \in 1..Len(s) : i = 1 \/ (i - 1 \in 1..Len(Tail(s)) /\ s[i] = Tail(s)[i - 1])
  BY <1>1
<1>3. \A i \in 1..Len(Tail(s)) : i + 1 \in 1..Len(s)
  BY <1>1
<1>4. Elems(s) \subseteq {Head(s)} \cup Elems(Tail(s))
  BY <1>1, <1>2 DEF Elems
<1>5. {Head(s)} \cup Elems(Tail(s)) \subseteq Elems(s)
  BY <1>1, <1>3 DEF Elems
<1> QED
  BY <1>4, <1>5, Zenon

(* The elements of two sequences in a row.                                 *)
LEMMA ElemsConcat ==
  ASSUME NEW S, NEW s \in Seq(S), NEW t \in Seq(S)
  PROVE  Elems(s \o t) = Elems(s) \cup Elems(t)
<1> DEFINE c == s \o t
<1>1. /\ Len(s) \in Nat /\ Len(t) \in Nat /\ Len(c) = Len(s) + Len(t)
      /\ \A i \in 1..(Len(s) + Len(t)) :
           c[i] = IF i <= Len(s) THEN s[i] ELSE t[i - Len(s)]
  BY ConcatFacts
<1> HIDE DEF c
<1>2. \A i \in 1..Len(s) : i \in 1..Len(c) /\ c[i] = s[i]
  BY <1>1
<1>3. ASSUME NEW i \in 1..Len(t) PROVE Len(s) + i \in 1..Len(c) /\ c[Len(s) + i] = t[i]
  <2> DEFINE j == Len(s) + i
  <2>1. j \in 1..(Len(s) + Len(t)) /\ ~(j <= Len(s)) /\ j - Len(s) = i
    BY <1>1
  <2> HIDE DEF j
  <2>2. c[j] = t[j - Len(s)]
    BY <1>1, <2>1, Zenon
  <2> QED
    BY <1>1, <2>1, <2>2, Zenon DEF j
<1>4. \A i \in 1..Len(c) : \/ i \in 1..Len(s) /\ c[i] = s[i]
                           \/ i - Len(s) \in 1..Len(t) /\ c[i] = t[i - Len(s)]
  BY <1>1
<1>5. Elems(c) \subseteq Elems(s) \cup Elems(t)
  BY <1>4, Zenon DEF Elems
<1>6. Elems(s) \subseteq Elems(c) /\ Elems(t) \subseteq Elems(c)
  BY <1>2, <1>3, Zenon DEF Elems
<1> QED
  BY <1>5, <1>6, Zenon DEF c

(* The elements of a sequence with one more element.                       *)
LEMMA ElemsAppend ==
  ASSUME NEW S, NEW s \in Seq(S), NEW e \in S
  PROVE  Elems(s) \subseteq Elems(Append(s, e))
BY AppendFacts DEF Elems

(* What a block commits is a sequence of messages not committed before.    *)
LEMMA BatchType ==
  ASSUME NEW ms \in Batches
  PROVE  ms \in Seq(Msgs \ accepted)
<1>1. PICK n \in 1..MaxBatch : ms \in [1..n -> Msgs \ accepted]
  BY Zenon DEF Batches
<1>2. n \in Nat
  BY ConstantsAssumption
<1> QED
  BY <1>1, <1>2, SeqFunction, Zenon

(* A transaction of a saved message is a transaction.                      *)
LEMMA SavedTxType ==
  /\ SavedTx \subseteq Tx
  /\ \A t \in Tx : t.msg \in Saved => t \in SavedTx
BY ConstantsAssumption, Zenon DEF SavedTx, Tx

(* A sequence goes up by one.                                              *)
LEMMA BumpType ==
  ASSUME NEW f \in [Accounts -> Nat], NEW a \in Accounts
  PROVE  [f EXCEPT ![a] = f[a] + 1] \in [Accounts -> Nat]
OBVIOUS

(* Faults stay within their bound.                                         *)
LEMMA FaultType ==
  ASSUME TypeOK, NEW kind, Fault(kind)
  PROVE  faults' \in 0..MaxFaults
<1>1. faults \in 0..MaxFaults /\ MaxFaults \in Nat
  BY ConstantsAssumption, Zenon DEF TypeOK
<1>2. faults < MaxFaults /\ faults' = faults + 1
  BY Zenon DEF Fault
<1> QED
  BY ONLY <1>1, <1>2

(* A transaction the chain accepts.                                        *)
LEMMA CheckTxType ==
  ASSUME TypeOK, NEW t \in Tx, CheckTx(t)
  PROVE  /\ mempool' \subseteq Tx /\ checkSeq' \in [Accounts -> Nat]
         /\ UNCHANGED <<chainSeq, blocks, indexed>>
<1>1. From(t) \in Accounts
  BY ConstantsAssumption, Zenon DEF From, Tx
<1>2. mempool \subseteq Tx /\ checkSeq \in [Accounts -> Nat]
  BY Zenon DEF TypeOK
<1>3. /\ mempool' = mempool \cup {t}
      /\ checkSeq' = [checkSeq EXCEPT ![From(t)] = checkSeq[From(t)] + 1]
      /\ UNCHANGED <<chainSeq, blocks, indexed>>
  BY Zenon DEF CheckTx
<1>4. checkSeq' \in [Accounts -> Nat]
  BY ONLY <1>1, <1>2, <1>3, BumpType, Zenon
<1> QED
  BY <1>2, <1>3, <1>4, Zenon

(* The transaction the loop builds for its current message.                *)
LEMMA BuiltType ==
  ASSUME TypeOK, phase # "idle"
  PROVE  /\ cur \in Msgs /\ Sender[cur] \in Accounts
         /\ Built(cur) \in Tx /\ From(Built(cur)) = Sender[cur]
         /\ Built(cur).msg = cur /\ Built(cur).seq = accSeq[Sender[cur]]
BY ConstantsAssumption, Zenon DEF TypeOK, Built, Tx, From

(* The initial state is well typed.                                        *)
LEMMA InitTypeInv == Init => TypeInv
BY ConstantsAssumption DEF Init, TypeInv, TypeOK, Feeders, NoBoot, FaultKinds

(* The steps of the chain keep the types.                                  *)
LEMMA ChainTypeInv == TypeInv /\ ChainNext => TypeInv'
<1> SUFFICES ASSUME TypeInv, ChainNext PROVE TypeInv'
  BY Zenon
<1> USE ConstantsAssumption DEF TypeInv, TypeOK, chain, db, memory, loop, handover, checkerVars
<1>1. ASSUME NEW t \in mempool, NEW code \in Codes, Include(t, code) PROVE TypeInv'
  <2>1. From(t) \in Accounts /\ t \in Tx
    BY Zenon DEF From, Tx
  <2>2. mempool' \subseteq Tx /\ blocks' \subseteq [tx : Tx, code : Codes] /\ indexed' \subseteq Tx
    <3>1. mempool' \subseteq Tx
      BY <1>1, Zenon DEF Include
    <3>2. blocks' \subseteq [tx : Tx, code : Codes]
      <4>1. blocks' = blocks \cup {[tx |-> t, code |-> code]}
        BY <1>1, Zenon DEF Include
      <4>2. [tx |-> t, code |-> code] \in [tx : Tx, code : Codes]
        BY <2>1, Zenon
      <4> QED
        BY <4>1, <4>2, Zenon
    <3>3. indexed' \subseteq Tx
      BY <1>1, <2>1, Zenon DEF Include
    <3> QED
      BY <3>1, <3>2, <3>3, Zenon
  <2>3. chainSeq' \in [Accounts -> Nat]
    <3>1. chainSeq' = [chainSeq EXCEPT ![From(t)] = @ + 1]
      BY <1>1, Zenon DEF Include
    <3>2. chainSeq \in [Accounts -> Nat]
      BY Zenon
    <3> HIDE ConstantsAssumption DEF TypeInv, TypeOK
    <3> QED
      BY <2>1, <3>1, <3>2
  <2>4. faults' \in 0..MaxFaults
    BY <1>1, SMTT(30) DEF Include, Fault
  <2> QED
    BY <1>1, <2>2, <2>3, <2>4, Zenon DEF Include
<1>2. CASE EmptyBlock
  BY <1>2, Zenon DEF EmptyBlock
<1>3. ASSUME NEW r \in blocks, IndexTx(r.tx) PROVE TypeInv'
  BY <1>3, Zenon DEF IndexTx
<1>4. ASSUME NEW t \in mempool, Evict(t) PROVE TypeInv'
  <2>1. From(t) \in Accounts /\ t.seq \in Nat
    BY Zenon DEF From, Tx
  <2>2. mempool' \subseteq Tx /\ checkSeq' \in [Accounts -> Nat]
    BY <1>4, <2>1, Zenon DEF Evict
  <2>3. faults' \in 0..MaxFaults
    BY <1>4 DEF Evict, Fault
  <2> QED
    BY <1>4, <2>2, <2>3, Zenon DEF Evict
<1> QED
  BY <1>1, <1>2, <1>3, <1>4, Zenon DEF ChainNext

(* Committing and handing over messages keeps the types.                   *)
LEMMA FeedTypeInv == TypeInv /\ FeedNext => TypeInv'
<1> SUFFICES ASSUME TypeInv, FeedNext PROVE TypeInv'
  BY Zenon
<1> USE ConstantsAssumption DEF TypeInv, TypeOK, chain, db, memory, loop, handover, checkerVars
<1>1. ASSUME NEW h \in Handlers, NEW ms \in Batches, CommitBlock(h, ms) PROVE TypeInv'
  <2>1. ms \in Seq(Msgs) /\ Elems(ms) \subseteq Msgs
    BY BatchType, ElemsType, SeqWiden, Zenon
  <2>2. order' \in Seq(Msgs) /\ feed' \in [Feeders -> Seq(Msgs)]
    BY <1>1, <2>1 DEF CommitBlock, Feeders
  <2>3. processedDB' \subseteq Saved /\ accepted' \subseteq Msgs
    BY <1>1, <2>1, Zenon DEF CommitBlock
  <2> QED
    BY <1>1, <2>2, <2>3, Zenon DEF CommitBlock
<1>2. ASSUME NEW f \in Feeders, Lock(f) PROVE TypeInv'
  BY <1>2, Zenon DEF Lock
<1>3. ASSUME NEW f \in Feeders, Send(f) PROVE TypeInv'
  <2>1. cur' \in Msgs /\ feed' \in [Feeders -> Seq(Msgs)]
    <3>1. feed[f] \in Seq(Msgs) /\ feed[f] # <<>>
      BY <1>3, Zenon DEF Send
    <3>2. Head(feed[f]) \in Msgs /\ Tail(feed[f]) \in Seq(Msgs)
      BY <3>1
    <3>3. cur' \in Msgs
      BY <1>3, <3>2, Zenon DEF Send
    <3>4. feed' \in [Feeders -> Seq(Msgs)]
      BY <1>3, <3>2, Zenon DEF Send
    <3> QED
      BY <3>3, <3>4, Zenon
  <2> QED
    BY <1>3, <2>1, Zenon DEF Send
<1> QED
  BY <1>1, <1>2, <1>3, Zenon DEF FeedNext

(* The steps of the broadcasting loop keep the types.                      *)
LEMMA LoopTypeInv == TypeInv /\ LoopNext => TypeInv'
<1> SUFFICES ASSUME TypeInv, LoopNext PROVE TypeInv'
  BY Zenon
<1> USE ConstantsAssumption DEF TypeInv, chain, db, memory, loop, handover, checkerVars
<1>0. phase # "idle" => /\ Built(cur) \in Tx /\ From(Built(cur)) = Sender[cur]
                        /\ Sender[cur] \in Accounts /\ cur \in Msgs
  BY BuiltType, Zenon
<1> USE DEF TypeOK
<1>1. CASE Broadcast
  <2>1. mempool' \subseteq Tx /\ checkSeq' \in [Accounts -> Nat]
    BY <1>0, <1>1, CheckTxType, Zenon DEF Broadcast, Handling
  <2> QED
    BY <1>0, <1>1, <2>1, Zenon DEF Broadcast, Handling, CheckTx
<1>2. CASE BroadcastAckLost
  <2>1. mempool' \subseteq Tx /\ checkSeq' \in [Accounts -> Nat]
    BY <1>0, <1>2, CheckTxType, Zenon DEF BroadcastAckLost, Handling
  <2>2. faults' \in 0..MaxFaults
    BY <1>2, FaultType, Zenon DEF BroadcastAckLost
  <2> QED
    BY <1>0, <1>2, <2>1, <2>2, Zenon DEF BroadcastAckLost, Handling, CheckTx
<1>3. CASE SequenceMismatch
  BY <1>0, <1>3, Zenon DEF SequenceMismatch, Handling, UpdatedSequence
<1>4. CASE IgnoredError
  BY <1>0, <1>4, Zenon DEF IgnoredError, Handling, Done
<1>5. CASE CommitPending
  <2>1. phase # "idle" /\ Built(cur) \in Tx /\ local' \in Seq(Tx) /\ local' # <<>>
    <3>1. phase # "idle" /\ local' = Append(local, Built(cur))
      BY <1>5, Zenon DEF CommitPending
    <3>2. Built(cur) \in Tx /\ local \in Seq(Tx)
      BY <1>0, <3>1, Zenon
    <3>3. Append(local, Built(cur)) \in Seq(Tx) /\ Append(local, Built(cur)) # <<>>
      BY ONLY <3>2, AppendFacts, ZenonT(40)
    <3> QED
      BY <3>1, <3>2, <3>3, Zenon
  <2>2. pendingDB' \subseteq SavedTx /\ processedDB' \subseteq Saved
    <3>1. {t \in {Built(cur)} : t.msg \in Saved} \subseteq SavedTx
      BY <2>1, SavedTxType, Zenon
    <3> QED
      BY <1>5, <3>1, Zenon DEF CommitPending
  <2>3. accSeq' \in [Accounts -> Nat]
    <3>1. accSeq \in [Accounts -> Nat] /\ Sender[cur] \in Accounts
      BY <1>0, <2>1, Zenon
    <3>2. accSeq' = [accSeq EXCEPT ![Sender[cur]] = accSeq[Sender[cur]] + 1]
      BY <1>5, Zenon DEF CommitPending
    <3> QED
      BY ONLY <3>1, <3>2, BumpType, Zenon
  <2> QED
    BY <2>1, <2>2, <2>3, <1>5, Zenon DEF CommitPending, Done
<1>6. CASE CommitFails
  <2>1. accSeq' \in [Accounts -> Nat] /\ faults' \in 0..MaxFaults
    <3>1. accSeq \in [Accounts -> Nat] /\ Sender[cur] \in Accounts
      BY <1>0, <1>6, Zenon DEF CommitFails
    <3>2. accSeq' = [accSeq EXCEPT ![Sender[cur]] = accSeq[Sender[cur]] + 1]
      BY <1>6, Zenon DEF CommitFails
    <3>3. accSeq' \in [Accounts -> Nat]
      BY ONLY <3>1, <3>2, BumpType, Zenon
    <3>4. faults' \in 0..MaxFaults
      BY <1>6, FaultType, Zenon DEF CommitFails
    <3> QED
      BY <3>3, <3>4, Zenon
  <2> QED
    BY <1>0, <1>6, <2>1, Zenon DEF CommitFails, Done
<1> QED
  BY <1>1, <1>2, <1>3, <1>4, <1>5, <1>6, Zenon DEF LoopNext

(* Removing the first n pending transactions.                              *)
LEMMA DropType ==
  ASSUME TypeOK, NEW n \in 0..Len(local), DropPending(n)
  PROVE  pendingDB' \subseteq SavedTx /\ local' \in Seq(Tx)
<1>1. \A i \in (n + 1)..Len(local) : local[i] \in Tx
  BY DEF TypeOK
<1>2. SubSeq(local, n + 1, Len(local)) \in Seq(Tx)
  BY <1>1, SubSeqFacts DEF TypeOK
<1> QED
  BY <1>2, Zenon DEF DropPending, TypeOK

(* The steps of the checker keep the types.                                *)
LEMMA CheckerTypeInv == TypeInv /\ CheckerNext => TypeInv'
<1> SUFFICES ASSUME TypeInv, CheckerNext PROVE TypeInv'
  BY Zenon
<1> USE ConstantsAssumption DEF TypeInv, chain, db, memory, loop, handover, checkerVars
<1>0. MoreErrors \in 0..(MaxErrors + 1)
  BY DEF MoreErrors, TypeOK
<1>1. CASE CheckLater
  BY <1>0, <1>1, Zenon DEF CheckLater, Polling, TypeOK
<1>2. local # <<>> => /\ 1 \in 0..Len(local) /\ Head(local) \in Tx
                      /\ From(Head(local)) \in Accounts
  <2> SUFFICES ASSUME local # <<>> PROVE Len(local) \in Nat \ {0} /\ Head(local) \in Tx
    BY DEF From, Tx
  <2> QED
    BY HeadTailFacts, EmptyFacts, Zenon DEF TypeOK
<1>3. ASSUME CheckDiscards \/ CheckFound PROVE TypeInv'
  <2>1. pendingDB' \subseteq SavedTx /\ local' \in Seq(Tx) /\ errors' \in 0..(MaxErrors + 1)
    BY <1>2, <1>3, DropType DEF CheckDiscards, CheckFound, Polling
  <2>2. UNCHANGED <<chain, processedDB, order, up, accSeq, loop, handover, checker,
                    lastBlock, boot, accepted, faults>> /\ checker = "poll"
    BY <1>3, Zenon DEF CheckDiscards, CheckFound, Polling
  <2> QED
    BY <2>1, <2>2, Zenon DEF TypeOK
<1>4. CASE CheckPanics
  BY <1>4, SMTT(30) DEF CheckPanics, Stop, Done, NoBoot, TypeOK
<1>5. CASE CheckNotFound
  BY <1>0, <1>5, Zenon DEF CheckNotFound, Polling, TypeOK
<1>6. CASE RebuildPendingTxs
  <2>1. local # <<>>
    BY <1>6, Zenon DEF RebuildPendingTxs
  <2>2. pendingDB' \subseteq SavedTx /\ local' \in Seq(Tx) /\ local' # <<>>
    <3>1. CASE UNCHANGED <<local, pendingDB>>
      BY <2>1, <3>1, Zenon DEF TypeOK
    <3>2. CASE local' = [i \in 1..Len(local) |-> Rebuilt(local[i])]
      <4>1. Len(local) \in Nat \ {0}
        BY <2>1, EmptyFacts, Zenon DEF TypeOK
      <4>2. \A i \in 1..Len(local) : Rebuilt(local[i]) \in Tx
        <5> SUFFICES ASSUME NEW i \in 1..Len(local) PROVE Rebuilt(local[i]) \in Tx
          BY Zenon
        <5>1. local[i] \in Tx
          BY DEF TypeOK
        <5> QED
          BY <5>1 DEF Rebuilt, Tx
      <4>3. local' \in [1..Len(local) -> Tx]
        BY <3>2, <4>2, Zenon
      <4>4. local' \in Seq(Tx) /\ Len(local') = Len(local)
        BY <4>1, <4>3, SeqFunction
      <4> QED
        <5>1. Elems(local') \subseteq Tx /\ local' # <<>>
          BY <4>1, <4>4, ElemsType, Zenon
        <5>2. {t \in Elems(local') : t.msg \in Saved} \subseteq SavedTx
          BY <5>1, SavedTxType, Zenon
        <5> QED
          BY <1>6, <4>4, <5>1, <5>2, Zenon DEF RebuildPendingTxs, TypeOK
    <3> QED
      BY <1>6, <3>1, <3>2, Zenon DEF RebuildPendingTxs
  <2> QED
    BY <1>6, <2>1, <2>2, Zenon DEF RebuildPendingTxs, TypeOK
<1>7. CASE Rebroadcast
  <2>1. mempool' \subseteq Tx /\ checkSeq' \in [Accounts -> Nat]
        /\ UNCHANGED <<chainSeq, blocks, indexed>>
    <3>1. local # <<>> /\ Head(local) \in Tx
      BY <1>2, <1>7, Zenon DEF Rebroadcast
    <3>2. CASE CheckTx(Head(local))
      BY <3>1, <3>2, CheckTxType, Zenon
    <3>3. CASE UNCHANGED chain
      BY <3>3, Zenon DEF TypeOK
    <3> QED
      BY <1>7, <3>2, <3>3, Zenon DEF Rebroadcast
  <2> QED
    BY <1>2, <1>7, <2>1, Zenon DEF Rebroadcast, TypeOK
<1>8. CASE RemovePendingTxsUntil
  <2> DEFINE Typed == /\ pendingDB' \subseteq SavedTx /\ local' \in Seq(Tx)
                      /\ errors' \in 0..(MaxErrors + 1)
  <2>1. Typed
    <3>1. ASSUME UNCHANGED <<pendingDB, local, errors>> PROVE Typed
      BY <3>1, Zenon DEF TypeOK
    <3>2. ASSUME NEW n \in 0..Len(local), DropPending(n), errors' = 0 PROVE Typed
      BY <3>2, DropType
    <3> QED
      BY <1>8, <3>1, <3>2, Zenon DEF RemovePendingTxsUntil
  <2> QED
    BY <1>8, <2>1, Zenon DEF RemovePendingTxsUntil, TypeOK
<1> QED
  BY <1>1, <1>3, <1>4, <1>5, <1>6, <1>7, <1>8, Zenon DEF CheckerNext

(* Everything in memory is reset when the process stops.                   *)
LEMMA StopType ==
  ASSUME TypeOK, Stop
  PROVE  /\ up' = "down" /\ local' = <<>> /\ phase' = "idle" /\ cur' = NoMsg
         /\ accSeq' \in [Accounts -> Nat] /\ local' \in Seq(Tx)
         /\ feed' \in [Feeders -> Seq(Msgs)] /\ mutex' = "free"
         /\ checker' = "poll" /\ errors' \in 0..(MaxErrors + 1) /\ lastBlock' = "new"
         /\ boot' \in [todo : Seq(SavedTx), redo : Seq(Saved), retry : 0..MaxRetryCount]
BY ConstantsAssumption DEF Stop, Done, NoBoot, TypeOK

(* The messages of a sequence of transactions.                             *)
LEMMA MsgSeqType ==
  ASSUME NEW s \in Seq(SavedTx)
  PROVE  MsgSeq(s) \in Seq(Saved) /\ Elems(MsgSeq(s)) = MsgsOf(Elems(s))
<1>0. \A t \in SavedTx : t.msg \in Saved
  BY Zenon DEF SavedTx
<1>1. \A i \in 1..Len(s) : s[i] \in SavedTx /\ s[i].msg \in Saved
  BY <1>0
<1>2. MsgSeq(s) \in [1..Len(s) -> Saved] /\ Len(s) \in Nat
  BY <1>1 DEF MsgSeq
<1>3. MsgSeq(s) \in Seq(Saved) /\ Len(MsgSeq(s)) = Len(s)
  BY <1>2, SeqFunction
<1>4. \A i \in 1..Len(s) : MsgSeq(s)[i] = s[i].msg
  BY Zenon DEF MsgSeq
<1>5. Elems(MsgSeq(s)) = {s[i].msg : i \in 1..Len(s)}
  BY <1>3, <1>4, Zenon DEF Elems
<1>6. MsgsOf(Elems(s)) = {s[i].msg : i \in 1..Len(s)}
  BY Zenon DEF MsgsOf, Elems
<1> QED
  BY <1>3, <1>5, <1>6, Zenon

(* Crash, restart and reload keep the types.                               *)
LEMMA BootTypeInv == TypeInv /\ BootNext => TypeInv'
<1> SUFFICES ASSUME TypeInv, BootNext PROVE TypeInv'
  BY Zenon
<1> USE ConstantsAssumption DEF TypeInv, chain, db, memory, loop, handover, checkerVars
<1>1. CASE Crash
  <2>1. faults' \in 0..MaxFaults
    BY <1>1 DEF Crash, Fault, TypeOK
  <2>2. Stop /\ UNCHANGED <<chain, db, accepted>>
    BY <1>1, Zenon DEF Crash
  <2> QED
    BY <2>1, <2>2, StopType, Zenon DEF TypeOK
<1>2. ASSUME NEW todo \in Listings(pendingDB), Initialize(todo) PROVE TypeInv'
  <2>1. todo \in Seq(SavedTx)
    BY <1>2, SeqWiden, Zenon DEF Initialize, TypeOK
  <2>2. boot' \in [todo : Seq(SavedTx), redo : Seq(Saved), retry : 0..MaxRetryCount]
    BY <1>2, <2>1 DEF Initialize
  <2> QED
    BY <1>2, <2>2, Zenon DEF Initialize, TypeOK
<1>0. Loading => /\ boot.todo \in Seq(SavedTx) /\ boot.redo \in Seq(Saved)
                 /\ Head(boot.todo) \in SavedTx /\ Tail(boot.todo) \in Seq(SavedTx)
  BY HeadTailFacts, Zenon DEF Loading, TypeOK
<1>3. CASE BootFound
  <2>1. Head(boot.todo).msg \in Saved /\ Loading
    BY <1>0, <1>3, Zenon DEF BootFound, SavedTx
  <2>2. Append(boot.redo, Head(boot.todo).msg) \in Seq(Saved)
    BY <1>0, <2>1, AppendFacts, Zenon
  <2>3. boot' \in [todo : Seq(SavedTx), redo : Seq(Saved), retry : 0..MaxRetryCount]
    BY <1>0, <1>3, <2>1, <2>2 DEF BootFound
  <2> QED
    BY <1>3, <2>3, ZenonT(40) DEF BootFound, TypeOK
<1>4. CASE BootTimeout
  <2>1. boot.redo \o MsgSeq(boot.todo) \in Seq(Saved)
    BY <1>0, <1>4, MsgSeqType, ConcatFacts, Zenon DEF BootTimeout
  <2>2. boot' \in [todo : Seq(SavedTx), redo : Seq(Saved), retry : 0..MaxRetryCount]
    BY <1>4, <2>1 DEF BootTimeout, TypeOK
  <2> QED
    BY <1>4, <2>2, ZenonT(40) DEF BootTimeout, TypeOK
<1>5. ASSUME NEW upto \in [Accounts -> Ends], BootRetry(upto) PROVE TypeInv'
  <2>1. mempool' \subseteq Tx
    <3>1. Elems(boot.todo) \subseteq Tx
      BY <1>0, <1>5, ElemsType, SavedTxType, Zenon DEF BootRetry
    <3> QED
      BY <1>5, <3>1, Zenon DEF BootRetry, TypeOK
  <2>2. checkSeq' \in [Accounts -> Nat]
    <3>1. \A t \in pendingDB : t.seq + 1 \in Nat
      <4>1. pendingDB \subseteq SavedTx
        BY Zenon DEF TypeOK
      <4>2. \A t \in SavedTx : t.seq \in Nat
        BY Zenon DEF SavedTx
      <4> QED
        BY <4>1, <4>2
    <3>2. \A a \in Accounts : checkSeq[a] \in Nat
      BY Zenon DEF TypeOK
    <3>3. Ends \subseteq Nat
      BY <3>1, <3>2 DEF Ends
    <3> QED
      BY <1>5, <3>3, Zenon DEF BootRetry
  <2>3. CASE Stop
    BY <1>5, <2>1, <2>2, <2>3, StopType, Zenon DEF BootRetry, TypeOK
  <2>4. CASE boot.retry < MaxRetryCount
    <3>0. boot.retry \in 0..MaxRetryCount /\ boot.retry + 1 \in 0..MaxRetryCount
      BY <2>4 DEF TypeOK
    <3>1. boot' \in [todo : Seq(SavedTx), redo : Seq(Saved), retry : 0..MaxRetryCount]
      BY <1>5, <2>4, <3>0, Zenon DEF BootRetry, TypeOK
    <3> QED
      BY <1>5, <2>1, <2>2, <2>4, <3>1, Zenon DEF BootRetry, TypeOK
  <2> QED
    BY <1>5, <2>3, <2>4, Zenon DEF BootRetry
<1>6. ASSUME NEW unsent \in Listings(processedDB), BootFinish(unsent) PROVE TypeInv'
  <2>1. unsent \in Seq(Msgs) /\ boot.redo \in Seq(Msgs) /\ boot.redo \in Seq(Saved)
    BY <1>6, SeqWiden, Zenon DEF BootFinish, TypeOK
  <2>2. boot.redo \o unsent \in Seq(Msgs)
    BY <2>1, ConcatFacts, Zenon
  <2>3. processedDB' \subseteq Saved
    BY <1>6, <2>1, ElemsType, Zenon DEF BootFinish, TypeOK
  <2>4. feed' \in [Feeders -> Seq(Msgs)] /\ order' \in Seq(Msgs)
    BY <1>6, <2>2, Zenon DEF BootFinish, TypeOK, Feeders
  <2>5. boot' \in [todo : Seq(SavedTx), redo : Seq(Saved), retry : 0..MaxRetryCount]
    <3>1. boot' = NoBoot
      BY <1>6, Zenon DEF BootFinish
    <3> QED
      BY <3>1, ConstantsAssumption DEF NoBoot
  <2> QED
    BY <1>6, <2>3, <2>4, <2>5, Zenon DEF BootFinish, TypeOK
<1> QED
  BY <1>1, <1>2, <1>3, <1>4, <1>5, <1>6, Zenon DEF BootNext

(* The type invariant holds for any accounts and any faults; that the      *)
(* checker holds on to the oldest pending transaction between its steps is *)
(* needed to type what it sends again.                                     *)
THEOREM TypeCorrect == Spec => []TypeOK
<1>1. Init => TypeInv
  BY InitTypeInv, Zenon
<1>2. TypeInv /\ [Next]_vars => TypeInv'
  <2>1. TypeInv /\ UNCHANGED vars => TypeInv'
    BY Zenon DEF TypeInv, TypeOK, vars, chain, db, memory, loop, handover, checkerVars
  <2> QED
    BY <2>1, ChainTypeInv, FeedTypeInv, LoopTypeInv, CheckerTypeInv, BootTypeInv, Zenon DEF Next
<1>3. TypeInv => TypeOK
  BY Zenon DEF TypeInv
<1> QED
  BY <1>1, <1>2, <1>3, PTL DEF Spec

-----------------------------------------------------------------------------
(* The node signs with one account, and no transaction fails in a block.   *)
SingleAccount == \A a, b \in Accounts : a = b
NoFailures == "fail" \notin Faults

SameSlot(t, u) == From(t) = From(u) /\ t.seq = u.seq

(* What the database, the memory and the sending loop hold as sent.        *)
Tracked ==
  Elems(local) \cup pendingDB \cup (IF phase = "sent" THEN {Built(cur)} ELSE {})

(* The mempool lies between the sequences of the chain and of the check    *)
(* state, with one transaction for a slot.                                 *)
PoolInv ==
  /\ \A a \in Accounts : chainSeq[a] <= checkSeq[a]
  /\ \A t \in mempool : chainSeq[From(t)] <= t.seq /\ t.seq < checkSeq[From(t)]
  /\ \A t, u \in mempool : SameSlot(t, u) => t = u

(* A tracked transaction owns its slot: nothing else of the mempool can    *)
(* consume it, and once it is consumed the message was executed.           *)
TrackInv ==
  /\ \A t \in Tracked : t.seq < chainSeq[From(t)] => t.msg \in Executed
  /\ \A t \in Tracked, u \in mempool : SameSlot(t, u) => t.msg = u.msg
  /\ \A t, u \in pendingDB : SameSlot(t, u) => t = u

(* The pending list has what the database has, and a process that does not *)
(* run has no list.                                                        *)
PhaseInv ==
  /\ up = "run" => pendingDB \subseteq Elems(local)
  /\ up # "run" => phase = "idle" /\ local = <<>> /\ checker = "poll"

(* A restart accounts for every pending record: still to be looked up, to  *)
(* be sent again, or executed.                                             *)
BootInv ==
  up = "boot" =>
    /\ Elems(boot.todo) \subseteq pendingDB
    /\ \A t \in pendingDB :
         t.msg \in MsgsOf(Elems(boot.todo)) \cup Elems(boot.redo) \cup Executed

(* Without failures, every message in a block was executed.                *)
IndexInv ==
  /\ \A r \in blocks : r.tx.msg \in Executed
  /\ \A t \in indexed : t.msg \in Executed

(* Together these are inductive.                                           *)
LossInv ==
  /\ PoolInv
  /\ TrackInv
  /\ IndexInv
  /\ SequencesAscend
  /\ PhaseInv
  /\ BootInv
  /\ NoSavedMsgLost

IInv == TypeInv /\ LossInv

-----------------------------------------------------------------------------
(* A transaction has an account that signed it and a sequence.             *)
LEMMA FromType == ASSUME NEW t \in Tx PROVE From(t) \in Accounts /\ t.seq \in Nat
BY ConstantsAssumption, Zenon DEF From, Tx

(* What memory or the reload tracks are transactions.                      *)
LEMMA TrackedType == ASSUME TypeOK PROVE Tracked \subseteq Tx
<1>1. Elems(local) \subseteq Tx
  BY ElemsType, Zenon DEF TypeOK
<1>2. pendingDB \subseteq Tx
  BY SavedTxType, Zenon DEF TypeOK
<1>3. phase = "sent" => Built(cur) \in Tx
  BY BuiltType, Zenon
<1> QED
  BY <1>1, <1>2, <1>3, Zenon DEF Tracked

(* Blocks are never undone: executed messages stay executed.               *)
LEMMA ExecutedGrows ==
  ASSUME blocks \subseteq blocks'
  PROVE  Executed \subseteq Executed'
BY Zenon DEF Executed

(* Executed messages depend on the blocks only.                            *)
LEMMA ExecutedSame ==
  ASSUME UNCHANGED blocks
  PROVE  Executed' = Executed
BY Zenon DEF Executed

(* More transactions carry more messages.                                  *)
LEMMA MsgsOfGrows ==
  ASSUME NEW S, NEW T, S \subseteq T
  PROVE  MsgsOf(S) \subseteq MsgsOf(T)
BY Zenon DEF MsgsOf

(* The mempool's invariant depends on the chain only.                      *)
LEMMA PoolFrame ==
  ASSUME PoolInv, UNCHANGED <<chainSeq, checkSeq, mempool>>
  PROVE  PoolInv'
BY Zenon DEF PoolInv, SameSlot, From

(* The indexer's invariant depends on blocks and index only.               *)
LEMMA IndexFrame ==
  ASSUME IndexInv, UNCHANGED <<blocks, indexed>>
  PROVE  IndexInv'
BY ExecutedSame, Zenon DEF IndexInv

(* The mempool stays consistent when the chain accepts a transaction.      *)
LEMMA PoolCheckTx ==
  ASSUME TypeOK, PoolInv, NEW t \in Tx, CheckTx(t)
  PROVE  PoolInv'
<1>1. From(t) \in Accounts /\ \A u \in mempool : From(u) \in Accounts /\ u.seq \in Nat
  BY FromType, Zenon DEF TypeOK
<1>2. \A a \in Accounts : chainSeq[a] \in Nat /\ checkSeq[a] \in Nat
  BY Zenon DEF TypeOK
<1>3. /\ t.seq = checkSeq[From(t)] /\ mempool' = mempool \cup {t} /\ chainSeq' = chainSeq
      /\ checkSeq' = [checkSeq EXCEPT ![From(t)] = checkSeq[From(t)] + 1]
  BY Zenon DEF CheckTx
<1>4. \A a \in Accounts : checkSeq'[a] >= checkSeq[a] /\ checkSeq'[a] \in Nat
  BY <1>1, <1>2, <1>3, SMTT(30) DEF TypeOK
<1>5. checkSeq'[From(t)] = t.seq + 1
  BY <1>1, <1>3, Zenon DEF TypeOK
<1>6. \A a \in Accounts : chainSeq'[a] <= checkSeq'[a]
  BY <1>2, <1>3, <1>4 DEF PoolInv
<1>7. \A u \in mempool' : chainSeq'[From(u)] <= u.seq /\ u.seq < checkSeq'[From(u)]
  BY <1>1, <1>2, <1>3, <1>4, <1>5 DEF PoolInv
<1>8. \A u, v \in mempool' : SameSlot(u, v) => u = v
  BY <1>1, <1>2, <1>3 DEF PoolInv, SameSlot
<1> QED
  BY <1>6, <1>7, <1>8, Zenon DEF PoolInv, SameSlot, From

(* Tracking survives a step that only stops tracking or empties the pool.  *)
LEMMA TrackFrame ==
  ASSUME TrackInv, UNCHANGED <<chainSeq, blocks>>, mempool' \subseteq mempool,
         Tracked' \subseteq Tracked,
         \A t, u \in pendingDB' : SameSlot(t, u) => t = u
  PROVE  TrackInv'
BY ExecutedSame, Zenon DEF TrackInv, SameSlot, From

(* Tracking survives an accepted transaction that owns its slot.           *)
LEMMA TrackCheckTx ==
  ASSUME TypeOK, PoolInv, TrackInv, NEW t \in Tx, CheckTx(t),
         Tracked' \subseteq Tracked \cup {t}, UNCHANGED pendingDB,
         \A x \in Tracked : SameSlot(x, t) => x.msg = t.msg
  PROVE  TrackInv'
<1>1. From(t) \in Accounts /\ \A u \in mempool : From(u) \in Accounts /\ u.seq \in Nat
  BY FromType, Zenon DEF TypeOK
<1>2. \A a \in Accounts : chainSeq[a] \in Nat /\ checkSeq[a] \in Nat
  BY Zenon DEF TypeOK
<1>3. /\ t.seq = checkSeq[From(t)] /\ mempool' = mempool \cup {t} /\ chainSeq' = chainSeq
      /\ Executed' = Executed
  BY ExecutedSame, Zenon DEF CheckTx
<1>4. \A x \in Tracked' : x.seq < chainSeq'[From(x)] => x.msg \in Executed'
  BY <1>1, <1>2, <1>3 DEF TrackInv, PoolInv
<1>5. \A x \in Tracked', u \in mempool' : SameSlot(x, u) => x.msg = u.msg
  BY <1>1, <1>2, <1>3 DEF TrackInv, PoolInv, SameSlot
<1> QED
  BY <1>4, <1>5, Zenon DEF TrackInv, SameSlot, From

(* The parts of the invariant that an unchanged database and memory keep.  *)
LEMMA DataFrame ==
  ASSUME LossInv, blocks \subseteq blocks',
         UNCHANGED <<db, up, accSeq, local, loop, checker, boot, accepted>>
  PROVE  SequencesAscend' /\ PhaseInv' /\ BootInv' /\ NoSavedMsgLost'
<1> USE DEF LossInv, db, loop
<1>1. SequencesAscend'
  BY Zenon DEF SequencesAscend, From
<1>2. PhaseInv'
  BY Zenon DEF PhaseInv, Elems
<1>3. Executed \subseteq Executed'
  BY ExecutedGrows, Zenon
<1>4. BootInv'
  BY <1>3, Zenon DEF BootInv, Elems, MsgsOf
<1>5. NoSavedMsgLost'
  BY <1>3, Zenon DEF NoSavedMsgLost, MsgsOf
<1> QED
  BY <1>1, <1>2, <1>4, <1>5, Zenon

(* What is tracked depends on memory and reload only.                      *)
LEMMA TrackedSame ==
  ASSUME UNCHANGED <<pendingDB, local, accSeq, loop>>
  PROVE  Tracked' = Tracked
BY Zenon DEF Tracked, Elems, Built, loop

(* A block that takes a transaction consumes a slot; whoever was tracked   *)
(* there has the same message, which is now executed.                      *)
LEMMA IncludeLoss ==
  ASSUME NoFailures, TypeInv, LossInv, NEW t \in mempool, NEW code \in Codes,
         Include(t, code)
  PROVE  LossInv'
<1>1. /\ mempool' = mempool \ {t} /\ checkSeq' = checkSeq /\ t.seq = chainSeq[From(t)]
      /\ chainSeq' = [chainSeq EXCEPT ![From(t)] = chainSeq[From(t)] + 1]
      /\ blocks' = blocks \cup {[tx |-> t, code |-> code]}
      /\ indexed' \subseteq indexed \cup {t}
      /\ UNCHANGED <<db, up, accSeq, local, loop, checker, boot, accepted>>
  BY Zenon DEF Include
<1>2. /\ t \in Tx /\ From(t) \in Accounts /\ t.seq \in Nat
      /\ \A u \in mempool : u \in Tx /\ From(u) \in Accounts /\ u.seq \in Nat
      /\ \A a \in Accounts : chainSeq[a] \in Nat /\ checkSeq[a] \in Nat
  BY FromType, Zenon DEF TypeInv, TypeOK
<1>3. /\ chainSeq'[From(t)] = t.seq + 1
      /\ \A a \in Accounts : a # From(t) => chainSeq'[a] = chainSeq[a]
  BY <1>1, <1>2, Zenon DEF TypeInv, TypeOK
<1>4. t.msg \in Executed' /\ Executed \subseteq Executed'
  <2>1. Executed \subseteq Executed'
    BY <1>1, ExecutedGrows, Zenon
  <2>2. code \in {"ok", "ignored"} /\ (code = "ignored" => t.msg \in Executed)
    BY Zenon DEF Include, Fault, NoFailures, Codes
  <2>3. code = "ok" => t.msg \in Executed'
    <3> DEFINE r == [tx |-> t, code |-> code]
    <3>1. r \in blocks' /\ r.code = code /\ r.tx = t
      BY <1>1, Zenon
    <3> HIDE DEF r
    <3> QED
      BY <3>1, Zenon DEF Executed
  <2> QED
    BY <2>1, <2>2, <2>3, Zenon
<1>5. PoolInv'
  <2>1. \A u \in mempool' : u \in mempool /\ ~SameSlot(u, t)
    BY <1>1, Zenon DEF LossInv, PoolInv
  <2>2. \A u \in mempool' : chainSeq'[From(u)] <= u.seq /\ u.seq < checkSeq'[From(u)]
    BY <1>1, <1>2, <1>3, <2>1 DEF LossInv, PoolInv, SameSlot
  <2>3. \A a \in Accounts : chainSeq'[a] <= checkSeq'[a]
    BY <1>1, <1>2, <1>3 DEF LossInv, PoolInv
  <2> QED
    BY <1>1, <2>2, <2>3, Zenon DEF LossInv, PoolInv, SameSlot, From
<1>6. TrackInv'
  <2>1. Tracked' = Tracked /\ Tracked \subseteq Tx
    BY <1>1, TrackedSame, TrackedType, Zenon DEF TypeInv, db
  <2>2. ASSUME NEW x \in Tracked', x.seq < chainSeq'[From(x)] PROVE x.msg \in Executed'
    <3>1. x \in Tx /\ From(x) \in Accounts /\ x.seq \in Nat
      BY <2>1, FromType, Zenon
    <3>2. CASE SameSlot(x, t)
      BY <1>4, <2>1, <3>2, Zenon DEF LossInv, TrackInv
    <3>3. CASE ~SameSlot(x, t)
      <4>1. x.seq < chainSeq[From(x)]
        BY <1>1, <1>2, <1>3, <2>2, <3>1, <3>3 DEF SameSlot
      <4> QED
        BY <1>4, <2>1, <4>1, Zenon DEF LossInv, TrackInv
    <3> QED
      BY <3>2, <3>3, Zenon
  <2>3. pendingDB' = pendingDB
    BY <1>1, Zenon DEF db
  <2> QED
    BY <1>1, <2>1, <2>2, <2>3, Zenon DEF LossInv, TrackInv, SameSlot, From
<1>7. IndexInv'
  BY <1>1, <1>4 DEF LossInv, IndexInv
<1> QED
  BY <1>1, <1>5, <1>6, <1>7, DataFrame, Zenon DEF LossInv

(* No step of the chain breaks the invariant.                              *)
LEMMA ChainLoss ==
  ASSUME NoFailures, TypeInv, LossInv, ChainNext
  PROVE  LossInv'
<1> USE DEF memory, chain, db
<1>1. ASSUME NEW t \in mempool, NEW code \in Codes, Include(t, code) PROVE LossInv'
  BY <1>1, IncludeLoss, Zenon
<1>2. ASSUME EmptyBlock \/ \E r \in blocks : IndexTx(r.tx) PROVE LossInv'
  <2>1. /\ UNCHANGED <<chainSeq, checkSeq, mempool, blocks, db, up, accSeq, local, loop>>
        /\ UNCHANGED <<checker, boot, accepted>>
    <3>1. CASE EmptyBlock
      BY <3>1, Zenon DEF EmptyBlock
    <3>2. CASE \E r \in blocks : IndexTx(r.tx)
      BY <3>2, Zenon DEF IndexTx, checkerVars
    <3> QED
      BY <1>2, <3>1, <3>2, Zenon
  <2>2. Tracked' = Tracked
    BY <2>1, TrackedSame, Zenon
  <2>3. PoolInv' /\ TrackInv'
    BY <2>1, <2>2, PoolFrame, TrackFrame, Zenon DEF LossInv, TrackInv
  <2>4. IndexInv'
    <3>1. \A t \in indexed' : t \in indexed \/ \E r \in blocks : t = r.tx
      BY <1>2, Zenon DEF EmptyBlock, IndexTx
    <3> QED
      BY <2>1, <3>1, ExecutedSame, Zenon DEF LossInv, IndexInv
  <2> QED
    BY <2>1, <2>3, <2>4, DataFrame, Zenon DEF LossInv
<1>3. ASSUME NEW t \in mempool, Evict(t) PROVE LossInv'
  <2>1. /\ UNCHANGED <<chainSeq, blocks, indexed, db, up, accSeq, local, loop, checker, boot, accepted>>
        /\ mempool' \subseteq mempool
        /\ \A u \in mempool' : From(u) = From(t) => u.seq < t.seq
        /\ checkSeq' = [checkSeq EXCEPT ![From(t)] = t.seq]
    BY <1>3, Zenon DEF Evict, checkerVars
  <2>2. Tracked' = Tracked
    BY <2>1, TrackedSame, Zenon
  <2>3. TrackInv'
    BY <2>1, <2>2, TrackFrame, Zenon DEF LossInv, TrackInv
  <2>4. PoolInv'
    <3>1. /\ t \in Tx /\ From(t) \in Accounts
          /\ \A u \in mempool : From(u) \in Accounts /\ u.seq \in Nat
          /\ \A a \in Accounts : chainSeq[a] \in Nat /\ checkSeq[a] \in Nat
      BY FromType, Zenon DEF TypeInv, TypeOK
    <3>2. /\ checkSeq'[From(t)] = t.seq
          /\ \A a \in Accounts : a # From(t) => checkSeq'[a] = checkSeq[a]
      BY <2>1, <3>1, Zenon DEF TypeInv, TypeOK
    <3> QED
      BY <2>1, <3>1, <3>2, Zenon DEF LossInv, PoolInv, SameSlot, From
  <2> QED
    BY <2>1, <2>3, <2>4, DataFrame, IndexFrame, Zenon DEF LossInv
<1> QED
  BY <1>1, <1>2, <1>3, Zenon DEF ChainNext

-----------------------------------------------------------------------------

(* A step of the handlers: only the database grows.                        *)
LEMMA FeedLoss ==
  ASSUME TypeInv, LossInv, FeedNext
  PROVE  LossInv'
<1>1. ASSUME NEW h \in Handlers, NEW ms \in Batches, CommitBlock(h, ms) PROVE LossInv'
  <2>1. /\ UNCHANGED <<chain, pendingDB, up, accSeq, local, loop, checkerVars, boot>>
        /\ processedDB' = processedDB \cup (Elems(ms) \cap Saved)
        /\ accepted' = accepted \cup Elems(ms)
    BY <1>1, Zenon DEF CommitBlock
  <2>2. Tracked' = Tracked /\ Executed' = Executed
    BY <2>1, TrackedSame, ExecutedSame, Zenon DEF chain
  <2>3. PoolInv' /\ TrackInv' /\ IndexInv'
    BY <2>1, <2>2, PoolFrame, TrackFrame, IndexFrame, Zenon DEF LossInv, TrackInv, chain
  <2>4. SequencesAscend' /\ PhaseInv' /\ BootInv'
    <3>1. SequencesAscend'
      BY <2>1, Zenon DEF LossInv, SequencesAscend, From
    <3>2. PhaseInv'
      BY <2>1, <2>2, Zenon DEF LossInv, PhaseInv, Elems, loop, checkerVars
    <3>3. BootInv'
      BY <2>1, <2>2 DEF LossInv, BootInv, Elems, MsgsOf
    <3> QED
      BY <3>1, <3>2, <3>3, Zenon
  <2>5. NoSavedMsgLost'
    BY <2>1, <2>2, Zenon DEF LossInv, NoSavedMsgLost, MsgsOf
  <2> QED
    BY <2>3, <2>4, <2>5, Zenon DEF LossInv
<1>2. ASSUME NEW f \in Feeders, Lock(f) \/ Send(f) PROVE LossInv'
  <2>1. /\ UNCHANGED <<chain, db, up, accSeq, local, checkerVars, boot, accepted>>
        /\ up = "run" /\ (phase' # "sent" \/ UNCHANGED loop)
    BY <1>2, Zenon DEF Lock, Send
  <2>2. Tracked' \subseteq Tracked /\ Executed' = Executed
    BY <2>1, ExecutedSame, Zenon DEF Tracked, Elems, Built, loop, chain, db
  <2>3. PoolInv' /\ TrackInv' /\ IndexInv'
    BY <2>1, <2>2, PoolFrame, TrackFrame, IndexFrame, Zenon DEF LossInv, TrackInv, chain, db
  <2>4. SequencesAscend' /\ BootInv' /\ NoSavedMsgLost'
    BY <2>1, <2>2, Zenon DEF LossInv, SequencesAscend, BootInv, NoSavedMsgLost, From, Elems, MsgsOf, db
  <2>5. PhaseInv'
    BY <2>1, Zenon DEF LossInv, PhaseInv, Elems, db, loop, checkerVars
  <2> QED
    BY <2>3, <2>4, <2>5, Zenon DEF LossInv
<1> QED
  BY <1>1, <1>2, Zenon DEF FeedNext

(* A running loop: the database holds nothing that memory does not, and    *)
(* the next sequence is above those of all pending transactions.           *)
LEMMA RunningFacts ==
  ASSUME TypeInv, LossInv, up = "run"
  PROVE  /\ \A t \in Elems(local) \cup pendingDB : t.seq < accSeq[From(t)]
         /\ phase # "sent" => \A t \in Tracked : t.seq < accSeq[From(t)]
<1>1. \A t \in Elems(local) : t.seq < accSeq[From(t)]
  BY Zenon DEF LossInv, SequencesAscend, Elems
<1> QED
  BY <1>1, Zenon DEF LossInv, PhaseInv, Tracked

(* The sequence an account is moved to stays above its pending             *)
(* transactions: with one account, the last of them is the highest.        *)
LEMMA UpdateAbove ==
  ASSUME SingleAccount, TypeInv, LossInv, NEW a \in Accounts, NEW e \in Nat,
         NEW t \in Elems(local)
  PROVE  t.seq < UpdatedSequence(a, e)[From(t)]
<1>1. PICK i \in 1..Len(local) : t = local[i]
  BY Zenon DEF Elems
<1>2. \A j \in 1..Len(local) : local[j] \in Tx /\ From(local[j]) = a /\ local[j].seq \in Nat
  BY FromType, SMTT(30) DEF SingleAccount, TypeInv, TypeOK
<1>3. t.seq < accSeq[a] /\ From(t) = a /\ accSeq[a] \in Nat /\ t.seq \in Nat
  BY <1>1, <1>2, Zenon DEF LossInv, SequencesAscend, TypeInv, TypeOK
<1>4. LastLocalSeq(a) = local[Len(local)].seq
  <2> DEFINE S == {j \in 1..Len(local) : From(local[j]) = a}
  <2>1. S = 1..Len(local) /\ Len(local) \in S
    BY <1>1, <1>2, SMTT(30) DEF TypeInv, TypeOK
  <2>2. \A k \in S : (\A j \in S : j <= k) => k = Len(local)
    BY <2>1
  <2>3. \A j \in S : j <= Len(local)
    BY <2>1
  <2>4. (CHOOSE k \in S : \A j \in S : j <= k) = Len(local)
    BY <2>1, <2>2, <2>3, Zenon
  <2> QED
    BY <2>1, <2>4, Zenon DEF LastLocalSeq
<1>5. t.seq <= local[Len(local)].seq
  <2>1. Len(local) \in 1..Len(local) /\ (i < Len(local) \/ i = Len(local))
    BY <1>1, SMTT(30) DEF TypeInv, TypeOK
  <2>2. From(local[i]) = From(local[Len(local)]) /\ local[i].seq \in Nat
    BY <1>2, <2>1, Zenon
  <2>3. i < Len(local) => local[i].seq < local[Len(local)].seq
    BY <2>1, <2>2, Zenon DEF LossInv, SequencesAscend
  <2> QED
    BY <1>1, <1>2, <2>1, <2>2, <2>3
<1>6. local[Len(local)].seq \in Nat
  BY <1>1, <1>2
<1>7. CASE e > accSeq[a] \/ e > LastLocalSeq(a)
  <2>1. UpdatedSequence(a, e)[a] = e
    BY <1>7, Zenon DEF UpdatedSequence, TypeInv, TypeOK
  <2> QED
    BY <1>3, <1>4, <1>5, <1>6, <1>7, <2>1
<1>8. CASE ~(e > accSeq[a] \/ e > LastLocalSeq(a))
  BY <1>3, <1>8, Zenon DEF UpdatedSequence
<1> QED
  BY <1>7, <1>8, Zenon

(* No step of the broadcasting loop breaks the invariant.                  *)
LEMMA LoopLoss ==
  ASSUME SingleAccount, TypeInv, LossInv, LoopNext
  PROVE  LossInv'
<1> USE DEF chain, db, loop, handover, checkerVars, memory
<1>0. phase # "idle" => /\ Built(cur) \in Tx /\ From(Built(cur)) = Sender[cur]
                        /\ Built(cur).msg = cur /\ Built(cur).seq = accSeq[Sender[cur]]
                        /\ Sender[cur] \in Accounts /\ cur \in Msgs
  BY BuiltType, Zenon DEF TypeInv
<1>1. \A a \in Accounts : accSeq[a] \in Nat
  BY Zenon DEF TypeInv, TypeOK
<1>2. ASSUME Broadcast \/ BroadcastAckLost PROVE LossInv'
  <2>1. /\ up = "run" /\ phase = "handle" /\ CheckTx(Built(cur))
        /\ UNCHANGED <<db, up, accSeq, local, cur, checkerVars, boot, accepted>>
    BY <1>2, Zenon DEF Broadcast, BroadcastAckLost, Handling
  <2>2. \A x \in Tracked : x \in Tx /\ x.seq < accSeq[From(x)]
    BY <2>1, RunningFacts, TrackedType, Zenon DEF TypeInv
  <2>3. \A x \in Tracked : ~SameSlot(x, Built(cur))
    <3>1. ASSUME NEW x \in Tracked, SameSlot(x, Built(cur)) PROVE FALSE
      <4>1. From(x) = Sender[cur] /\ x.seq = accSeq[Sender[cur]]
        BY <1>0, <2>1, <3>1, Zenon DEF SameSlot
      <4>2. x.seq < accSeq[Sender[cur]]
        BY <2>2, <4>1, Zenon
      <4>3. accSeq[Sender[cur]] \in Nat
        BY <1>0, <1>1, <2>1, Zenon
      <4>4. \A n \in Nat : ~(n < n)
        OBVIOUS
      <4> QED
        BY <4>1, <4>2, <4>3, <4>4, Zenon
    <3> QED
      BY <3>1, Zenon
  <2>4. Tracked' \subseteq Tracked \cup {Built(cur)}
    BY <2>1, Zenon DEF Tracked, Elems, Built
  <2>5. PoolInv' /\ TrackInv' /\ IndexInv'
    BY <1>0, <2>1, <2>3, <2>4, PoolCheckTx, TrackCheckTx, IndexFrame, Zenon
       DEF LossInv, TypeInv, CheckTx
  <2>6. Executed' = Executed
    BY <2>1, ExecutedSame, Zenon DEF CheckTx
  <2>7. SequencesAscend' /\ PhaseInv' /\ BootInv' /\ NoSavedMsgLost'
    BY <2>1, <2>6, Zenon DEF LossInv, SequencesAscend, PhaseInv, BootInv, NoSavedMsgLost,
                      From, Elems, MsgsOf
  <2> QED
    BY <2>5, <2>7, Zenon DEF LossInv
<1>3. ASSUME SequenceMismatch PROVE LossInv'
  <2>1. /\ up = "run" /\ phase = "handle"
        /\ accSeq' = UpdatedSequence(Sender[cur], checkSeq[Sender[cur]])
        /\ UNCHANGED <<chain, db, up, local, loop, checkerVars, boot, accepted>>
    BY <1>3, Zenon DEF SequenceMismatch, Handling
  <2>2. Tracked' \subseteq Tracked /\ Executed' = Executed
    BY <2>1, ExecutedSame, Zenon DEF Tracked, Elems
  <2>3. PoolInv' /\ TrackInv' /\ IndexInv'
    BY <2>1, <2>2, PoolFrame, TrackFrame, IndexFrame, Zenon DEF LossInv, TrackInv
  <2>4. \A t \in Elems(local) : t.seq < accSeq'[From(t)]
    BY <1>0, <2>1, UpdateAbove, Zenon DEF TypeInv, TypeOK
  <2>5. SequencesAscend'
    BY <2>1, <2>4, Zenon DEF LossInv, SequencesAscend, From, Elems
  <2>6. PhaseInv' /\ BootInv' /\ NoSavedMsgLost'
    BY <2>1, <2>2, Zenon DEF LossInv, PhaseInv, BootInv, NoSavedMsgLost, Elems, MsgsOf
  <2> QED
    BY <2>3, <2>5, <2>6, Zenon DEF LossInv
<1>4. ASSUME IgnoredError PROVE LossInv'
  <2>1. /\ up = "run" /\ phase = "handle" /\ phase' = "idle"
        /\ processedDB' = processedDB \ {cur} /\ (cur \in Executed \/ cur \notin Saved)
        /\ UNCHANGED <<chain, pendingDB, up, accSeq, local, checkerVars, boot, accepted>>
    BY <1>4, Zenon DEF IgnoredError, Handling, Done
  <2>2. Tracked' \subseteq Tracked /\ Executed' = Executed
    BY <2>1, ExecutedSame, Zenon DEF Tracked, Elems
  <2>3. PoolInv' /\ TrackInv' /\ IndexInv'
    BY <2>1, <2>2, PoolFrame, TrackFrame, IndexFrame, Zenon DEF LossInv, TrackInv
  <2>4. SequencesAscend' /\ PhaseInv' /\ BootInv'
    BY <2>1, <2>2, Zenon DEF LossInv, SequencesAscend, PhaseInv, BootInv, From, Elems, MsgsOf
  <2>5. NoSavedMsgLost'
    BY <2>1, <2>2, Zenon DEF LossInv, NoSavedMsgLost, MsgsOf
  <2> QED
    BY <2>3, <2>4, <2>5, Zenon DEF LossInv
<1>5. ASSUME CommitPending PROVE LossInv'
  <2> DEFINE b == Built(cur)
  <2>1. /\ up = "run" /\ phase = "sent" /\ phase' = "idle"
        /\ processedDB' = processedDB \ {cur}
        /\ pendingDB' = pendingDB \cup {t \in {b} : t.msg \in Saved}
        /\ accSeq' = [accSeq EXCEPT ![Sender[cur]] = accSeq[Sender[cur]] + 1]
        /\ local' = Append(local, b)
        /\ UNCHANGED <<chain, up, checkerVars, boot, accepted>>
    BY <1>5, Zenon DEF CommitPending, Done
  <2>2. /\ b \in Tx /\ From(b) \in Accounts /\ b.msg = cur /\ b.seq = accSeq[From(b)]
        /\ From(b) = Sender[cur] /\ b \in Tracked
    BY <1>0, <2>1, Zenon DEF Tracked
  <2> HIDE DEF b
  <2>3. Elems(local') = Elems(local) \cup {b}
    <3>1. local \in Seq(Tx)
      BY Zenon DEF TypeInv, TypeOK
    <3> QED
      BY <2>1, <2>2, <3>1 DEF Elems
  <2>4. Tracked' \subseteq Tracked /\ Executed' = Executed
    BY <2>1, <2>2, <2>3, ExecutedSame, Zenon DEF Tracked
  <2>5. \A t \in Elems(local) \cup pendingDB : ~SameSlot(t, b) /\ t.seq < accSeq[From(t)]
    <3>1. \A t \in Elems(local) \cup pendingDB : t.seq < accSeq[From(t)] /\ t \in Tx
      BY <2>1, RunningFacts, TrackedType, Zenon DEF TypeInv, Tracked
    <3>2. ASSUME NEW t \in Elems(local) \cup pendingDB, SameSlot(t, b) PROVE FALSE
      <4>1. From(t) = From(b) /\ t.seq = accSeq[From(b)]
        BY <2>2, <3>2, Zenon DEF SameSlot
      <4>2. t.seq < accSeq[From(b)] /\ accSeq[From(b)] \in Nat
        BY <1>1, <2>2, <3>1, <4>1, Zenon
      <4> QED
        BY <4>1, <4>2
    <3> QED
      BY <3>1, <3>2, Zenon
  <2>6. \A t, u \in pendingDB' : SameSlot(t, u) => t = u
    BY <2>1, <2>5, Zenon DEF LossInv, TrackInv, SameSlot
  <2>7. PoolInv' /\ TrackInv' /\ IndexInv'
    BY <2>1, <2>4, <2>6, PoolFrame, TrackFrame, IndexFrame, Zenon DEF LossInv
  <2>8. PhaseInv' /\ BootInv'
    BY <2>1, <2>3, Zenon DEF LossInv, PhaseInv, BootInv
  <2>9. SequencesAscend'
    <3>1. /\ Len(local') = Len(local) + 1 /\ Len(local) \in Nat
          /\ \A i \in 1..Len(local) : local'[i] = local[i] /\ local[i] \in Elems(local)
                                      /\ local[i] \in Tx
          /\ local'[Len(local) + 1] = b
      <4>1. local \in Seq(Tx)
        BY Zenon DEF TypeInv, TypeOK
      <4>2. Len(local') = Len(local) + 1 /\ Len(local) \in Nat
        BY <2>1, <2>2, <4>1
      <4>3. \A i \in 1..Len(local) : local'[i] = local[i]
        BY <2>1, <2>2, <4>1
      <4>4. \A i \in 1..Len(local) : local[i] \in Elems(local) /\ local[i] \in Tx
        BY <4>1 DEF Elems
      <4>5. local'[Len(local) + 1] = b
        BY <2>1, <2>2, <4>1
      <4> QED
        BY <4>2, <4>3, <4>4, <4>5, Zenon
    <3>2. accSeq'[From(b)] = b.seq + 1 /\ b.seq \in Nat
          /\ \A a \in Accounts : accSeq'[a] >= accSeq[a] /\ accSeq'[a] \in Nat
      <4>1. accSeq \in [Accounts -> Nat]
        BY Zenon DEF TypeInv, TypeOK
      <4>2. accSeq' = [accSeq EXCEPT ![From(b)] = accSeq[From(b)] + 1]
        BY <2>1, <2>2, Zenon
      <4> QED
        BY <2>2, <4>1, <4>2
    <3>3. \A i \in 1..Len(local) :
            /\ local[i].seq \in Nat /\ From(local[i]) \in Accounts
            /\ local[i].seq < accSeq[From(local[i])]
      BY <2>5, <3>1, FromType, Zenon
    <3>4. \A i \in 1..Len(local') : local'[i].seq < accSeq'[From(local'[i])]
      <4>1. \A i \in 1..Len(local) : local'[i].seq < accSeq'[From(local'[i])]
        <5> TAKE i \in 1..Len(local)
        <5> DEFINE a == From(local[i])
        <5>1. a \in Accounts /\ local[i].seq \in Nat /\ local[i].seq < accSeq[a]
          BY <3>3, Zenon
        <5>2. accSeq[a] \in Nat /\ accSeq'[a] \in Nat /\ accSeq'[a] >= accSeq[a]
          BY <1>1, <3>2, <5>1, Zenon
        <5>3. local'[i] = local[i]
          BY <3>1, Zenon
        <5> HIDE DEF a
        <5>4. local[i].seq < accSeq'[a]
          BY <5>1, <5>2
        <5> QED
          BY <5>3, <5>4, Zenon DEF a
      <4>2. b.seq < accSeq'[From(b)]
        BY <3>2
      <4> QED
        BY <3>1, <4>1, <4>2
    <3>5. \A i, j \in 1..Len(local') :
            i < j /\ From(local'[i]) = From(local'[j]) => local'[i].seq < local'[j].seq
      BY <2>2, <3>1, <3>3 DEF LossInv, SequencesAscend
    <3> QED
      BY <3>4, <3>5, Zenon DEF SequencesAscend, From
  <2>10. NoSavedMsgLost'
    BY <2>1, <2>2, <2>4, Zenon DEF LossInv, NoSavedMsgLost, MsgsOf
  <2> QED
    BY <2>7, <2>8, <2>9, <2>10, Zenon DEF LossInv
<1>6. ASSUME CommitFails PROVE LossInv'
  <2>1. /\ up = "run" /\ phase = "sent" /\ phase' \in {"idle", "handle"}
        /\ accSeq' = [accSeq EXCEPT ![Sender[cur]] = accSeq[Sender[cur]] + 1]
        /\ UNCHANGED <<chain, db, up, local, checkerVars, boot, accepted>>
    BY <1>6, Zenon DEF CommitFails, Done
  <2>2. Tracked' \subseteq Tracked /\ Executed' = Executed
    BY <2>1, ExecutedSame, Zenon DEF Tracked, Elems
  <2>3. PoolInv' /\ TrackInv' /\ IndexInv'
    BY <2>1, <2>2, PoolFrame, TrackFrame, IndexFrame, Zenon DEF LossInv, TrackInv
  <2>4. \A a \in Accounts : accSeq'[a] >= accSeq[a] /\ accSeq'[a] \in Nat
    <3>1. accSeq \in [Accounts -> Nat] /\ Sender[cur] \in Accounts
      BY <1>0, <2>1, Zenon DEF TypeInv, TypeOK
    <3>2. accSeq' = [accSeq EXCEPT ![Sender[cur]] = accSeq[Sender[cur]] + 1]
      BY <2>1, Zenon
    <3> QED
      BY <3>1, <3>2
  <2>5. \A i \in 1..Len(local) : local[i].seq \in Nat /\ From(local[i]) \in Accounts
    <3>1. local \in Seq(Tx)
      BY Zenon DEF TypeInv, TypeOK
    <3>2. \A i \in 1..Len(local) : local[i] \in Tx
      BY <3>1
    <3> QED
      BY <3>2, FromType, Zenon
  <2>6. \A i \in 1..Len(local) : local[i].seq < accSeq'[From(local[i])]
    <3>1. \A i \in 1..Len(local) : local[i].seq < accSeq[From(local[i])]
      BY <2>1, Zenon DEF LossInv, SequencesAscend
    <3> TAKE i \in 1..Len(local)
    <3> DEFINE a == From(local[i])
    <3>2. a \in Accounts /\ local[i].seq \in Nat /\ local[i].seq < accSeq[a]
      BY <2>5, <3>1, Zenon
    <3>3. accSeq[a] \in Nat /\ accSeq'[a] \in Nat /\ accSeq'[a] >= accSeq[a]
      BY <1>1, <2>4, <3>2, Zenon
    <3> HIDE DEF a
    <3>4. local[i].seq < accSeq'[a]
      BY <3>2, <3>3
    <3> QED
      BY <3>4, Zenon DEF a
  <2>7. SequencesAscend'
    BY <2>1, <2>6, Zenon DEF LossInv, SequencesAscend, From
  <2>8. PhaseInv' /\ BootInv' /\ NoSavedMsgLost'
    BY <2>1, <2>2, Zenon DEF LossInv, PhaseInv, BootInv, NoSavedMsgLost, Elems, MsgsOf
  <2> QED
    BY <2>3, <2>7, <2>8, Zenon DEF LossInv
<1> QED
  BY <1>2, <1>3, <1>4, <1>5, <1>6, Zenon DEF LoopNext

-----------------------------------------------------------------------------
(* The steps of the checker and of a restart, and the theorems.            *)

(* Removing the first records loses nothing when their messages were       *)
(* executed, or were never saved.                                          *)
LEMMA DropLoss ==
  ASSUME TypeInv, LossInv, up = "run", NEW n \in 0..Len(local), DropPending(n),
         \A t \in pendingDB : t.msg \in {local[i].msg : i \in 1..n} => t.msg \in Executed,
         checker' = "poll",
         UNCHANGED <<chain, processedDB, order, up, accSeq, loop, boot, accepted>>
  PROVE  LossInv'
<1> DEFINE gone == {local[i].msg : i \in 1..n}
<1>1. /\ pendingDB' = {t \in pendingDB : t.msg \notin gone}
      /\ local' = SubSeq(local, n + 1, Len(local))
      /\ local \in Seq(Tx) /\ n \in Nat /\ n <= Len(local) /\ Len(local) \in Nat
  BY DEF DropPending, TypeInv, TypeOK
<1>2. /\ Len(local') = Len(local) - n
      /\ \A i \in 1..(Len(local) - n) : local'[i] = local[n + i]
  BY <1>1
<1>3. Elems(local') \subseteq Elems(local)
  BY <1>1, <1>2 DEF Elems
<1>4. Tracked' \subseteq Tracked /\ Executed' = Executed
  BY <1>1, <1>3, ExecutedSame, Zenon DEF Tracked, Built, loop, chain
<1>5. PoolInv' /\ TrackInv' /\ IndexInv'
  BY <1>1, <1>4, PoolFrame, TrackFrame, IndexFrame, Zenon DEF LossInv, TrackInv, chain
<1>6. SequencesAscend'
  <2>1. \A i \in 1..Len(local') : n + i \in 1..Len(local) /\ local'[i] = local[n + i]
    BY <1>1, <1>2
  <2>2. \A i, j \in 1..Len(local') : i < j => n + i < n + j
    BY <1>1, <1>2
  <2> QED
    BY <2>1, <2>2, Zenon DEF LossInv, SequencesAscend, From
<1>7. PhaseInv'
  <2>1. ASSUME NEW t \in pendingDB' PROVE t \in Elems(local')
    <3>1. PICK j \in 1..Len(local) : t = local[j]
      BY <1>1, Zenon DEF LossInv, PhaseInv, Elems
    <3>2. j \notin 1..n
      BY <1>1, <3>1, Zenon
    <3>3. j - n \in 1..Len(local') /\ local'[j - n] = t
      BY <1>1, <1>2, <3>1, <3>2
    <3> QED
      BY <3>3, Zenon DEF Elems
  <2> QED
    BY <2>1, Zenon DEF PhaseInv
<1>8. BootInv' /\ NoSavedMsgLost'
  BY <1>1, <1>4, Zenon DEF LossInv, BootInv, NoSavedMsgLost, MsgsOf
<1> QED
  BY <1>5, <1>6, <1>7, <1>8, Zenon DEF LossInv

(* Stopping loses what is in memory only.                                  *)
LEMMA StopLoss ==
  ASSUME LossInv, Stop, UNCHANGED <<chain, db, accepted>>
  PROVE  LossInv'
<1> USE DEF chain, db
<1>1. /\ up' = "down" /\ local' = <<>> /\ phase' = "idle" /\ checker' = "poll"
  BY Zenon DEF Stop, Done
<1>2. Tracked' \subseteq Tracked /\ Executed' = Executed
  BY <1>1, ExecutedSame DEF Tracked, Elems
<1>3. PoolInv' /\ TrackInv' /\ IndexInv'
  BY <1>2, PoolFrame, TrackFrame, IndexFrame, Zenon DEF LossInv, TrackInv
<1>4. SequencesAscend' /\ PhaseInv' /\ BootInv' /\ NoSavedMsgLost'
  BY <1>1, <1>2 DEF LossInv, SequencesAscend, PhaseInv, BootInv, NoSavedMsgLost, MsgsOf
<1> QED
  BY <1>3, <1>4, Zenon DEF LossInv

(* A rebuilt transaction keeps its message and its slot.                   *)
LEMMA RebuildLoss ==
  ASSUME TypeInv, LossInv, RebuildPendingTxs
  PROVE  LossInv'
<1> USE DEF chain, loop
<1>1. /\ up = "run" /\ checker' = "rebroadcast"
      /\ UNCHANGED <<chain, processedDB, order, up, accSeq, loop, boot, accepted>>
  BY Zenon DEF RebuildPendingTxs
<1>2. Executed' = Executed
  BY <1>1, ExecutedSame, Zenon
<1>3. ASSUME UNCHANGED <<local, pendingDB>> PROVE LossInv'
  <2>1. Tracked' \subseteq Tracked
    BY <1>1, <1>3, TrackedSame, Zenon
  <2>2. PoolInv' /\ TrackInv' /\ IndexInv'
    BY <1>1, <1>3, <2>1, PoolFrame, TrackFrame, IndexFrame, ZenonT(40) DEF LossInv, TrackInv
  <2>3. SequencesAscend' /\ PhaseInv' /\ BootInv' /\ NoSavedMsgLost'
    BY <1>1, <1>2, <1>3 DEF LossInv, SequencesAscend, PhaseInv, BootInv, NoSavedMsgLost,
                            From, Elems, MsgsOf
  <2> QED
    BY <2>2, <2>3, Zenon DEF LossInv
<1>4. ASSUME /\ local' = [i \in 1..Len(local) |-> Rebuilt(local[i])]
             /\ pendingDB' = {t \in pendingDB : t.msg \notin MsgsOf(Elems(local))}
                               \cup {t \in Elems(local') : t.msg \in Saved}
      PROVE  LossInv'
  <2>1. /\ Len(local') = Len(local)
        /\ \A i \in 1..Len(local) : /\ local'[i].msg = local[i].msg
                                    /\ local'[i].seq = local[i].seq
                                    /\ From(local'[i]) = From(local[i])
    BY <1>4, SMTT(30) DEF Rebuilt, TypeInv, TypeOK, From
  <2>2. pendingDB' = {t \in Elems(local') : t.msg \in Saved}
    <3>1. \A t \in pendingDB : t.msg \in MsgsOf(Elems(local))
      BY <1>1, Zenon DEF LossInv, PhaseInv, MsgsOf
    <3> QED
      BY <1>4, <3>1, Zenon
  <2>3. ASSUME NEW t \in Tracked'
        PROVE  \E u \in Tracked : t.msg = u.msg /\ SameSlot(t, u)
    <3>1. CASE t \in Elems(local')
      <4>1. PICK i \in 1..Len(local) : t = local'[i]
        BY <2>1, <3>1, Zenon DEF Elems
      <4>2. local[i] \in Tracked
        BY Zenon DEF Tracked, Elems
      <4> QED
        BY <2>1, <4>1, <4>2, Zenon DEF SameSlot
    <3>2. CASE t \notin Elems(local')
      <4>1. t \in Tracked
        BY <1>1, <2>2, <2>3, <3>2, Zenon DEF Tracked, Built
      <4> QED
        BY <4>1, Zenon DEF SameSlot
    <3> QED
      BY <3>1, <3>2, Zenon
  <2>4. SequencesAscend'
    BY <1>1, <2>1, Zenon DEF LossInv, SequencesAscend, From
  <2>5. ASSUME NEW t \in pendingDB', NEW u \in pendingDB', SameSlot(t, u) PROVE t = u
    <3>1. PICK i \in 1..Len(local'), j \in 1..Len(local') : t = local'[i] /\ u = local'[j]
      BY <2>2, Zenon DEF Elems
    <3>2. From(local'[i]) = From(local'[j]) /\ local'[i].seq = local'[j].seq
      BY <2>5, <3>1, Zenon DEF SameSlot
    <3>3. local'[i].seq \in Nat /\ local'[j].seq \in Nat /\ Len(local) \in Nat
      <4>1. local[i] \in Tx /\ local[j] \in Tx /\ Len(local) \in Nat
        BY <2>1, <3>1 DEF TypeInv, TypeOK
      <4> QED
        BY <2>1, <4>1, FromType, Zenon
    <3>4. ~(i < j) /\ ~(j < i)
      BY <2>1, <2>4, <3>2, <3>3 DEF SequencesAscend, From
    <3> QED
      BY <2>1, <3>1, <3>3, <3>4
  <2>6. TrackInv'
    <3>1. \A t \in Tracked' : t.seq < chainSeq'[From(t)] => t.msg \in Executed'
      BY <1>1, <1>2, <2>3, Zenon DEF LossInv, TrackInv, SameSlot
    <3>2. \A t \in Tracked', u \in mempool' : SameSlot(t, u) => t.msg = u.msg
      BY <1>1, <2>3 DEF LossInv, TrackInv, SameSlot
    <3> QED
      BY <2>5, <3>1, <3>2, Zenon DEF TrackInv, SameSlot, From
  <2>7. PoolInv' /\ IndexInv'
    BY <1>1, PoolFrame, IndexFrame, Zenon DEF LossInv
  <2>8. PhaseInv' /\ BootInv'
    BY <1>1, <2>2, Zenon DEF PhaseInv, BootInv
  <2>9. NoSavedMsgLost'
    <3>1. ASSUME NEW t \in pendingDB PROVE t.msg \in MsgsOf(pendingDB')
      <4>1. PICK i \in 1..Len(local) : t = local[i]
        BY <1>1, Zenon DEF LossInv, PhaseInv, Elems
      <4>2. local'[i] \in Elems(local') /\ local'[i].msg = t.msg /\ t.msg \in Saved
        BY <2>1, <4>1, Zenon DEF Elems, TypeInv, TypeOK, SavedTx
      <4> QED
        BY <2>2, <4>2, Zenon DEF MsgsOf
    <3> QED
      BY <1>1, <1>2, <3>1, Zenon DEF LossInv, NoSavedMsgLost, MsgsOf
  <2> QED
    BY <2>4, <2>6, <2>7, <2>8, <2>9, Zenon DEF LossInv
<1> QED
  BY <1>3, <1>4, Zenon DEF RebuildPendingTxs

(* The checker removes a record only when its message was executed: found  *)
(* in a block, or below the sequence of its account.                       *)
LEMMA CheckerLoss ==
  ASSUME SingleAccount, TypeInv, LossInv, CheckerNext
  PROVE  LossInv'
<1> USE DEF chain, db, loop, checkerVars
<1>1. ASSUME CheckLater \/ CheckNotFound PROVE LossInv'
  <2>1. /\ UNCHANGED <<chain, db, up, accSeq, local, loop, boot, accepted>>
        /\ up = "run"
    BY <1>1, Zenon DEF CheckLater, CheckNotFound, Polling
  <2>2. Tracked' \subseteq Tracked /\ Executed' = Executed
    BY <2>1, TrackedSame, ExecutedSame, Zenon
  <2>3. PoolInv' /\ TrackInv' /\ IndexInv'
    BY <2>1, <2>2, PoolFrame, TrackFrame, IndexFrame, Zenon DEF LossInv, TrackInv
  <2>4. SequencesAscend' /\ PhaseInv' /\ BootInv' /\ NoSavedMsgLost'
    <3>1. SequencesAscend'
      BY <2>1, Zenon DEF LossInv, SequencesAscend, From
    <3>2. PhaseInv'
      BY <2>1, <2>2, Zenon DEF LossInv, PhaseInv, Elems
    <3>3. BootInv' /\ NoSavedMsgLost'
      BY <2>1, <2>2, Zenon DEF LossInv, BootInv, NoSavedMsgLost, Elems, MsgsOf
    <3> QED
      BY <3>1, <3>2, <3>3, Zenon
  <2> QED
    BY <2>3, <2>4, Zenon DEF LossInv
<1>2. ASSUME CheckDiscards \/ CheckFound PROVE LossInv'
  <2>1. /\ up = "run" /\ local # <<>> /\ DropPending(1) /\ checker' = "poll"
        /\ UNCHANGED <<chain, processedDB, order, up, accSeq, loop, boot, accepted>>
        /\ (Head(local).msg \notin Saved \/ Head(local) \in indexed)
    BY <1>2, Zenon DEF CheckDiscards, CheckFound, Polling
  <2>2. Head(local) = local[1] /\ 1 \in 0..Len(local)
    BY <2>1 DEF TypeInv, TypeOK
  <2>3. \A t \in pendingDB : t.msg \in {local[i].msg : i \in 1..1} => t.msg \in Executed
    BY <2>1, <2>2 DEF LossInv, IndexInv, TypeInv, TypeOK, SavedTx
  <2> QED
    BY <2>1, <2>2, <2>3, DropLoss, Zenon
<1>3. ASSUME CheckPanics PROVE LossInv'
  BY <1>3, StopLoss, Zenon DEF CheckPanics
<1>4. ASSUME RebuildPendingTxs PROVE LossInv'
  BY <1>4, RebuildLoss, Zenon
<1>5. ASSUME Rebroadcast PROVE LossInv'
  <2>1. /\ up = "run" /\ checker = "rebroadcast"
        /\ CheckTx(Head(local)) \/ UNCHANGED chain
        /\ UNCHANGED <<db, up, accSeq, local, loop, boot, accepted>>
    BY <1>5, Zenon DEF Rebroadcast
  <2>2. Tracked' = Tracked /\ Executed' = Executed /\ IndexInv'
    BY <2>1, TrackedSame, ExecutedSame, IndexFrame, Zenon DEF CheckTx, LossInv
  <2>3. Head(local) = local[1] /\ 1 \in 1..Len(local) /\ Head(local) \in Tx
    BY <2>1 DEF TypeInv, TypeOK
  <2>4. \A x \in Tracked : SameSlot(x, Head(local)) => x.msg = Head(local).msg
    <3>1. \A i \in 1..Len(local) : SameSlot(local[i], local[1]) => i = 1
      <4>1. \A i \in 1..Len(local) : local[i].seq \in Nat
        BY FromType DEF TypeInv, TypeOK
      <4> QED
        BY <2>3, <4>1 DEF LossInv, SequencesAscend, SameSlot
    <3>2. phase = "sent" => ~SameSlot(Built(cur), local[1])
      <4>1. local[1].seq < accSeq[From(local[1])] /\ local[1].seq \in Nat
        BY <2>3, FromType, Zenon DEF LossInv, SequencesAscend
      <4> QED
        BY <4>1, BuiltType DEF SameSlot, TypeInv
    <3> QED
      BY <2>1, <2>3, <3>1, <3>2, Zenon DEF Tracked, Elems, LossInv, PhaseInv
  <2>5. PoolInv' /\ TrackInv'
    <3>1. ASSUME CheckTx(Head(local)) PROVE PoolInv' /\ TrackInv'
      BY <2>1, <2>2, <2>3, <2>4, <3>1, PoolCheckTx, TrackCheckTx, Zenon DEF LossInv, TypeInv
    <3>2. ASSUME UNCHANGED chain PROVE PoolInv' /\ TrackInv'
      BY <2>1, <2>2, <3>2, PoolFrame, TrackFrame, Zenon DEF LossInv, TrackInv
    <3> QED
      BY <2>1, <3>1, <3>2, Zenon
  <2>6. SequencesAscend' /\ PhaseInv' /\ BootInv' /\ NoSavedMsgLost'
    <3>1. SequencesAscend'
      BY <2>1, Zenon DEF LossInv, SequencesAscend, From
    <3>2. PhaseInv'
      BY <2>1, <2>2, Zenon DEF LossInv, PhaseInv, Elems
    <3>3. BootInv' /\ NoSavedMsgLost'
      BY <2>1, <2>2, Zenon DEF LossInv, BootInv, NoSavedMsgLost, Elems, MsgsOf
    <3> QED
      BY <3>1, <3>2, <3>3, Zenon
  <2> QED
    BY <2>2, <2>5, <2>6, Zenon DEF LossInv
<1>6. ASSUME RemovePendingTxsUntil PROVE LossInv'
  <2>1. /\ up = "run" /\ checker = "mismatch" /\ checker' = "poll"
        /\ UNCHANGED <<chain, processedDB, order, up, accSeq, loop, boot, accepted>>
    BY <1>6, Zenon DEF RemovePendingTxsUntil
  <2>2. Head(local) = local[1] /\ 1 \in 1..Len(local) /\ Head(local) \in Tx
    BY <2>1 DEF TypeInv, TypeOK
  <2> DEFINE onChain == chainSeq[From(Head(local))]
  <2>3. ASSUME onChain > Head(local).seq PROVE LossInv'
    <3>1. PICK n \in 0..Len(local) : PrefixUntil(n, onChain - 1) /\ DropPending(n)
      BY <1>6, <2>3, Zenon DEF RemovePendingTxsUntil
    <3>2. n \in Nat /\ n <= Len(local) /\ Len(local) \in Nat
      BY DEF TypeInv, TypeOK
    <3>3. ASSUME NEW i \in 1..n PROVE local[i].msg \in Executed
      <4>1. local[i] \in Tx /\ i \in 1..Len(local)
        BY <3>2 DEF TypeInv, TypeOK
      <4>2. local[i].seq <= onChain - 1
        BY <3>1, Zenon DEF PrefixUntil
      <4>3. From(local[i]) = From(Head(local)) /\ local[i].seq \in Nat /\ onChain \in Nat
        BY <2>2, <4>1, FromType, Zenon DEF SingleAccount, TypeInv, TypeOK
      <4>4. local[i].seq < chainSeq[From(local[i])]
        BY <4>2, <4>3
      <4> QED
        BY <4>1, <4>4, Zenon DEF LossInv, TrackInv, Tracked, Elems
    <3> QED
      BY <2>1, <3>1, <3>3, DropLoss, Zenon
  <2>4. ASSUME ~(onChain > Head(local).seq) PROVE LossInv'
    <3>1. UNCHANGED <<pendingDB, local>>
      BY <1>6, <2>4, Zenon DEF RemovePendingTxsUntil
    <3>2. Tracked' \subseteq Tracked /\ Executed' = Executed
      BY <2>1, <3>1, TrackedSame, ExecutedSame, Zenon
    <3>3. PoolInv' /\ TrackInv' /\ IndexInv'
      BY <2>1, <3>1, <3>2, PoolFrame, TrackFrame, IndexFrame, Zenon DEF LossInv, TrackInv
    <3>4. SequencesAscend' /\ PhaseInv' /\ BootInv' /\ NoSavedMsgLost'
      BY <2>1, <3>1, <3>2, Zenon DEF LossInv, SequencesAscend, PhaseInv, BootInv,
                              NoSavedMsgLost, From, Elems, MsgsOf
    <3> QED
      BY <3>3, <3>4, Zenon DEF LossInv
  <2> QED
    BY <2>3, <2>4, Zenon
<1> QED
  BY <1>1, <1>2, <1>3, <1>4, <1>5, <1>6, Zenon DEF CheckerNext

-----------------------------------------------------------------------------

(* The transactions sent again while loading are pending ones, each in its *)
(* own slot, above everything the mempool holds.                           *)
LEMMA RetryPool ==
  ASSUME TypeInv, LossInv, up = "boot", NEW upto \in [Accounts -> Ends], BootRetry(upto)
  PROVE  PoolInv' /\ TrackInv' /\ IndexInv'
<1> DEFINE new == {t \in Elems(boot.todo) : t.seq \in checkSeq[From(t)]..(upto[From(t)] - 1)}
<1>1. /\ mempool' = mempool \cup new /\ checkSeq' = upto
      /\ \A a \in Accounts : upto[a] >= checkSeq[a]
      /\ UNCHANGED <<chainSeq, blocks, indexed, db>>
  BY Zenon DEF BootRetry, Rejoins
<1>2. \A a \in Accounts : chainSeq[a] \in Nat /\ checkSeq[a] \in Nat /\ upto[a] \in Nat
  <2>1. checkSeq' \in [Accounts -> Nat]
    <3>1. Ends \subseteq Nat
      BY SavedTxType DEF Ends, TypeInv, TypeOK, SavedTx
    <3> QED
      BY <1>1, <3>1, Zenon
  <2> QED
    BY <1>1, <2>1, Zenon DEF TypeInv, TypeOK
<1>3. new \subseteq pendingDB
  BY Zenon DEF LossInv, BootInv
<1>4. \A t \in mempool \cup new : t \in Tx /\ From(t) \in Accounts /\ t.seq \in Nat
  BY <1>3, FromType, SavedTxType, Zenon DEF TypeInv, TypeOK
<1>5. \A t \in new : checkSeq[From(t)] <= t.seq /\ t.seq < upto[From(t)]
  <2> TAKE t \in new
  <2>1. t.seq \in checkSeq[From(t)]..(upto[From(t)] - 1)
    BY Zenon
  <2>2. t.seq \in Nat /\ checkSeq[From(t)] \in Nat /\ upto[From(t)] \in Nat
    BY <1>2, <1>4, Zenon
  <2> HIDE DEF new
  <2> QED
    BY <2>1, <2>2
<1> HIDE DEF new
<1>6. PoolInv'
  <2>1. \A a \in Accounts : chainSeq'[a] <= checkSeq'[a]
    BY <1>1, <1>2 DEF LossInv, PoolInv
  <2>2. \A t \in mempool' : chainSeq'[From(t)] <= t.seq /\ t.seq < checkSeq'[From(t)]
    BY <1>1, <1>2, <1>4, <1>5 DEF LossInv, PoolInv
  <2>3. \A t \in mempool, u \in new : ~SameSlot(t, u)
    BY <1>2, <1>4, <1>5 DEF LossInv, PoolInv, SameSlot
  <2>4. \A t, u \in new : SameSlot(t, u) => t = u
    BY <1>3, Zenon DEF LossInv, TrackInv
  <2>5. \A t, u \in mempool' : SameSlot(t, u) => t = u
    BY <1>1, <2>3, <2>4, Zenon DEF LossInv, PoolInv, SameSlot
  <2> QED
    BY <2>1, <2>2, <2>5, Zenon DEF PoolInv, SameSlot, From
<1>7. Tracked = pendingDB /\ Tracked' = pendingDB
  <2>1. phase = "idle" /\ local = <<>>
    BY Zenon DEF LossInv, PhaseInv
  <2>2. phase' = "idle" /\ local' = <<>>
    BY <2>1, Zenon DEF BootRetry, Stop, Done, loop
  <2> QED
    BY <1>1, <2>1, <2>2 DEF Tracked, Elems, db
<1>8. TrackInv'
  <2>1. \A t \in pendingDB, u \in mempool' : SameSlot(t, u) => t.msg = u.msg
    BY <1>1, <1>3, <1>7, Zenon DEF LossInv, TrackInv
  <2>2. Executed' = Executed /\ pendingDB' = pendingDB
    BY <1>1, ExecutedSame, Zenon DEF db
  <2> QED
    BY <1>1, <1>7, <2>1, <2>2, Zenon DEF LossInv, TrackInv, SameSlot, From
<1>9. IndexInv'
  BY <1>1, IndexFrame, Zenon DEF LossInv
<1> QED
  BY <1>6, <1>8, <1>9, Zenon

(* Restarting: every pending transaction is found executed or its message  *)
(* is written back to be sent again.                                       *)
LEMMA BootLoss ==
  ASSUME TypeInv, LossInv, BootNext
  PROVE  LossInv'
<1> USE DEF chain, db, loop, handover, checkerVars, memory
<1>1. ASSUME Crash PROVE LossInv'
  BY <1>1, StopLoss, Zenon DEF Crash
<1>2. ASSUME NEW todo \in Listings(pendingDB), Initialize(todo) PROVE LossInv'
  <2>1. /\ up = "down" /\ up' = "boot" /\ boot'.todo = todo /\ boot'.redo = <<>>
        /\ todo \in Seq(pendingDB) /\ Elems(MsgSeq(todo)) = MsgsOf(pendingDB)
        /\ UNCHANGED <<chain, db, local, loop, checkerVars, accepted>>
    BY <1>2, Zenon DEF Initialize, InKeyOrder
  <2>2. phase = "idle" /\ local = <<>> /\ checker = "poll"
    BY <2>1, Zenon DEF LossInv, PhaseInv
  <2>3. Tracked' \subseteq Tracked /\ Executed' = Executed
    BY <2>1, <2>2, ExecutedSame, Zenon DEF Tracked, Elems
  <2>4. PoolInv' /\ TrackInv' /\ IndexInv'
    BY <2>1, <2>3, PoolFrame, TrackFrame, IndexFrame, Zenon DEF LossInv, TrackInv
  <2>5. BootInv'
    <3>1. Elems(todo) \subseteq pendingDB
      BY <2>1, ElemsType, Zenon
    <3>2. Elems(MsgSeq(todo)) \subseteq MsgsOf(Elems(todo))
      <4>1. todo \in Seq(SavedTx)
        BY <2>1, SeqWiden, Zenon DEF TypeInv, TypeOK
      <4> QED
        BY <4>1, MsgSeqType, Zenon
    <3>3. \A t \in pendingDB : t.msg \in MsgsOf(Elems(todo))
      BY <2>1, <3>2, Zenon DEF MsgsOf
    <3> QED
      BY <2>1, <3>1, <3>3, Zenon DEF BootInv
  <2>6. SequencesAscend' /\ PhaseInv' /\ NoSavedMsgLost'
    <3>1. SequencesAscend'
      <4>0. local' = <<>>
        BY <2>1, <2>2, Zenon
      <4>1. 1..Len(local') = {}
        BY <4>0
      <4> QED
        BY <4>1, Zenon DEF SequencesAscend
    <3>2. PhaseInv'
      BY <2>1, <2>2, <2>3, Zenon DEF LossInv, PhaseInv
    <3>3. NoSavedMsgLost'
      BY <2>1, <2>3, Zenon DEF LossInv, NoSavedMsgLost, MsgsOf
    <3> QED
      BY <3>1, <3>2, <3>3, Zenon
  <2> QED
    BY <2>4, <2>5, <2>6, Zenon DEF LossInv
<1>3. ASSUME up = "boot",
             UNCHANGED <<chain, db, up, accSeq, local, loop, checkerVars, accepted>>,
             BootInv'
      PROVE  LossInv'
  <2>1. Tracked' \subseteq Tracked /\ Executed' = Executed
    BY <1>3, TrackedSame, ExecutedSame, Zenon
  <2>2. PoolInv' /\ TrackInv' /\ IndexInv'
    BY <1>3, <2>1, PoolFrame, TrackFrame, IndexFrame, Zenon DEF LossInv, TrackInv
  <2>3. SequencesAscend' /\ PhaseInv' /\ NoSavedMsgLost'
    BY <1>3, <2>1 DEF LossInv, SequencesAscend, PhaseInv, NoSavedMsgLost, From, Elems, MsgsOf
  <2> QED
    BY <1>3, <2>2, <2>3, Zenon DEF LossInv
<1>4. ASSUME Loading PROVE /\ boot.todo \in Seq(SavedTx) /\ boot.todo # <<>>
                           /\ boot.redo \in Seq(Saved)
                           /\ boot.todo[1] = Head(boot.todo)
                           /\ Head(boot.todo) \in Elems(boot.todo)
                           /\ up = "boot"
  BY <1>4 DEF Loading, TypeInv, TypeOK, Elems
<1>5. ASSUME BootFound PROVE LossInv'
  <2> DEFINE t == Head(boot.todo)
  <2>1. /\ Loading /\ t \in indexed /\ boot'.todo = Tail(boot.todo)
        /\ boot'.redo \in {boot.redo, Append(boot.redo, t.msg)}
        /\ UNCHANGED <<chain, db, up, accSeq, local, loop, checkerVars, accepted>>
    BY <1>5, Zenon DEF BootFound
  <2>2. Elems(boot.todo) = {t} \cup Elems(Tail(boot.todo))
    BY <1>4, <2>1, ElemsTail, Zenon
  <2>3. Elems(boot.redo) \subseteq Elems(boot'.redo)
    <3>1. t \in SavedTx
      BY <1>4, <2>1, ElemsType, Zenon
    <3>2. t.msg \in Saved
      BY <3>1, Zenon DEF SavedTx
    <3> QED
      BY <1>4, <2>1, <3>2, ElemsAppend, Zenon
  <2>4. t.msg \in Executed /\ Executed' = Executed
    BY <2>1, ExecutedSame, Zenon DEF LossInv, IndexInv
  <2> HIDE DEF t
  <2>5. BootInv'
    BY <1>4, <2>1, <2>2, <2>3, <2>4, Zenon DEF LossInv, BootInv, MsgsOf
  <2> QED
    BY <1>3, <1>4, <2>1, <2>5, Zenon
<1>6. ASSUME BootTimeout PROVE LossInv'
  <2>1. /\ Loading /\ boot'.todo = <<>>
        /\ boot'.redo = boot.redo \o MsgSeq(boot.todo)
        /\ UNCHANGED <<chain, db, up, accSeq, local, loop, checkerVars, accepted>>
    BY <1>6, Zenon DEF BootTimeout
  <2>2. MsgSeq(boot.todo) \in Seq(Saved)
    BY <1>4, <2>1, MsgSeqType, Zenon
  <2>3. Elems(boot'.redo) = Elems(boot.redo) \cup Elems(MsgSeq(boot.todo))
    BY <1>4, <2>1, <2>2, ElemsConcat, SMTT(30)
  <2>4. MsgsOf(Elems(boot.todo)) \subseteq Elems(MsgSeq(boot.todo))
    BY <1>4, <2>1, MsgSeqType, Zenon
  <2>5. Elems(boot'.todo) = {} /\ Executed' = Executed
    BY <2>1, ExecutedSame DEF Elems
  <2>6. BootInv'
    BY <1>4, <2>1, <2>3, <2>4, <2>5, Zenon DEF LossInv, BootInv
  <2> QED
    BY <1>3, <1>4, <2>1, <2>6, Zenon
<1>7. ASSUME NEW upto \in [Accounts -> Ends], BootRetry(upto) PROVE LossInv'
  <2>1. /\ up = "boot" /\ UNCHANGED <<blocks, db, accepted>>
    BY <1>7, Zenon DEF BootRetry, Loading
  <2>2. Executed' = Executed
    BY <2>1, ExecutedSame, Zenon
  <2>3. phase = "idle" /\ local = <<>> /\ checker = "poll"
    BY <2>1, Zenon DEF LossInv, PhaseInv
  <2>4. /\ phase' = "idle" /\ local' = <<>> /\ checker' = "poll"
        /\ up' = "down" \/ (up' = "boot" /\ boot'.todo = boot.todo /\ boot'.redo = boot.redo)
    <3>1. CASE boot.retry < MaxRetryCount
      BY <1>7, <2>1, <2>3, <3>1, Zenon DEF BootRetry, TypeInv, TypeOK
    <3>2. CASE ~(boot.retry < MaxRetryCount)
      BY <1>7, <3>2, Zenon DEF BootRetry, Stop, Done
    <3> QED
      BY <3>1, <3>2, Zenon
  <2>5. BootInv'
    BY <2>1, <2>2, <2>4, Zenon DEF LossInv, BootInv
  <2>6. SequencesAscend' /\ PhaseInv' /\ NoSavedMsgLost'
    <3>1. 1..Len(local') = {}
      BY <2>4
    <3>2. SequencesAscend'
      BY <3>1, Zenon DEF SequencesAscend
    <3>3. PhaseInv'
      BY <2>4, Zenon DEF PhaseInv
    <3>4. NoSavedMsgLost'
      BY <2>1, <2>2, Zenon DEF LossInv, NoSavedMsgLost, MsgsOf
    <3> QED
      BY <3>2, <3>3, <3>4, Zenon
  <2> QED
    BY <1>7, <2>1, <2>5, <2>6, RetryPool, Zenon DEF LossInv
<1>8. ASSUME NEW unsent \in Listings(processedDB), BootFinish(unsent) PROVE LossInv'
  <2>1. /\ up = "boot" /\ boot.todo = <<>> /\ up' = "run"
        /\ pendingDB' = {} /\ processedDB' = processedDB \cup Elems(boot.redo)
        /\ UNCHANGED <<chain, accSeq, local, loop, checkerVars, accepted>>
    BY <1>8, Zenon DEF BootFinish
  <2>2. phase = "idle" /\ local = <<>>
    BY <2>1, Zenon DEF LossInv, PhaseInv
  <2>3. Tracked' \subseteq Tracked /\ Executed' = Executed
    BY <2>1, <2>2, ExecutedSame, Zenon DEF Tracked, Elems
  <2>4. PoolInv' /\ TrackInv' /\ IndexInv'
    BY <2>1, <2>3, PoolFrame, TrackFrame, IndexFrame, Zenon DEF LossInv, TrackInv
  <2>5. SequencesAscend' /\ PhaseInv' /\ BootInv'
    <3>1. 1..Len(local') = {}
      BY <2>1, <2>2
    <3>2. SequencesAscend'
      BY <3>1, Zenon DEF SequencesAscend
    <3>3. PhaseInv' /\ BootInv'
      BY <2>1, <2>2, Zenon DEF PhaseInv, BootInv
    <3> QED
      BY <3>2, <3>3, Zenon
  <2>6. \A t \in pendingDB : t.msg \in Elems(boot.redo) \cup Executed
    <3>1. MsgsOf(Elems(boot.todo)) = {}
      <4>1. 1..Len(boot.todo) = {}
        BY <2>1
      <4> QED
        BY <4>1, Zenon DEF MsgsOf, Elems
    <3> QED
      BY <2>1, <3>1, Zenon DEF LossInv, BootInv
  <2>7. NoSavedMsgLost'
    BY <2>1, <2>3, <2>6 DEF LossInv, NoSavedMsgLost, MsgsOf
  <2> QED
    BY <2>4, <2>5, <2>7, Zenon DEF LossInv
<1> QED
  BY <1>1, <1>2, <1>5, <1>6, <1>7, <1>8, Zenon DEF BootNext

(* The invariant holds at the start.                                       *)
LEMMA InitLoss == Init => LossInv
<1> SUFFICES ASSUME Init PROVE LossInv
  BY Zenon
<1> USE ConstantsAssumption DEF Init
<1>1. Tracked = {} /\ Elems(local) = {}
  BY DEF Tracked, Elems
<1>2. PoolInv
  BY DEF PoolInv
<1> QED
  <2>1. SequencesAscend /\ PhaseInv /\ BootInv
    BY <1>1 DEF SequencesAscend, PhaseInv, BootInv
  <2>2. TrackInv /\ IndexInv /\ NoSavedMsgLost
    BY <1>1, Zenon DEF TrackInv, IndexInv, NoSavedMsgLost
  <2> QED
    BY <1>2, <2>1, <2>2, Zenon DEF LossInv

(* The strengthened invariant is inductive.                                *)
LEMMA InductiveInvariant ==
  ASSUME SingleAccount, NoFailures
  PROVE  Spec => []IInv
<1>1. Init => IInv
  BY InitTypeInv, InitLoss, Zenon DEF IInv
<1>2. IInv /\ [Next]_vars => IInv'
  <2> SUFFICES ASSUME TypeInv, LossInv, [Next]_vars PROVE TypeInv' /\ LossInv'
    BY Zenon DEF IInv
  <2>1. ASSUME UNCHANGED vars PROVE TypeInv' /\ LossInv'
    <3> USE <2>1 DEF vars, chain, db, memory, loop, handover, checkerVars
    <3>1. TypeInv'
      BY Zenon DEF TypeInv, TypeOK
    <3>2. Tracked' = Tracked /\ Executed' = Executed
      BY TrackedSame, ExecutedSame, Zenon
    <3>3. PoolInv' /\ TrackInv' /\ IndexInv'
      BY <3>2, PoolFrame, TrackFrame, IndexFrame, Zenon DEF LossInv, TrackInv
    <3>4. SequencesAscend' /\ PhaseInv' /\ BootInv' /\ NoSavedMsgLost'
      BY DataFrame, Zenon
    <3> QED
      BY <3>1, <3>3, <3>4, Zenon DEF LossInv
  <2>2. ASSUME Next PROVE TypeInv' /\ LossInv'
    <3>1. TypeInv'
      BY <2>2, ChainTypeInv, FeedTypeInv, LoopTypeInv, CheckerTypeInv, BootTypeInv, Zenon DEF Next
    <3>2. LossInv'
      BY <2>2, ChainLoss, FeedLoss, LoopLoss, CheckerLoss, BootLoss, Zenon DEF Next
    <3> QED
      BY <3>1, <3>2, Zenon
  <2> QED
    BY <2>1, <2>2, Zenon
<1> QED
  BY <1>1, <1>2, PTL DEF Spec

(* With one signing account and no transaction failing in its block, no    *)
(* order of handlers, loop, checker, evictions, lost answers, failed       *)
(* commits, crashes and restarts loses a saved message, whatever the       *)
(* messages and however many faults.                                       *)
THEOREM SavedMsgsKept ==
  ASSUME SingleAccount, NoFailures
  PROVE  Spec => []NoSavedMsgLost
<1>1. IInv => NoSavedMsgLost
  BY Zenon DEF IInv, LossInv
<1> QED
  BY <1>1, InductiveInvariant, PTL

(* Under the same assumptions handleMsgError never moves the account back  *)
(* onto a sequence that a pending transaction still claims.                *)
THEOREM SequencesNeverReused ==
  ASSUME SingleAccount, NoFailures
  PROVE  Spec => []SequencesAscend
<1>1. IInv => SequencesAscend
  BY Zenon DEF IInv, LossInv
<1> QED
  BY <1>1, InductiveInvariant, PTL
=============================================================================
