----------------------------- MODULE BatchTypes -----------------------------
(***************************************************************************)
(* The batch submitter: lemmas about its operators, and the inductive      *)
(* invariants that the proofs of BatchCover and BatchContents start from.  *)
(*   - TypeInv: the types, and what keeps them (heights within the bulk).  *)
(*   - PlaceInv: how the heights in memory, in the database and in the     *)
(*     local batch info relate at each step of the handler.                *)
(*   - HeaderInv: a header is staged with the range of the local info, and *)
(*     one is staged exactly when the batch ends.                          *)
(***************************************************************************)
EXTENDS BatchSubmitter, Induction

Booting == {"down", "emptying", "opened"}
Handling == {"prepared", "written", "finalize", "final", "staged"}
Switching == {"switch", "switchEmpty", "switchSave", "switchSynced"}
Stopped == pc = "idle" /\ closed

Items == {BlockItem(h) : h \in 1..Len(Blocks)} \cup {CommitItem(h) : h \in 1..Len(Blocks)}
Files == [data : Seq(Items), torn : BOOLEAN]
Ranges == [da : Infos, start : Nat, end : Nat]
Messages ==
  [type : {"header"}, range : Ranges, checksums : Seq({"sha256"} \X Seq(Items))]
    \cup [type : {"chunk"}, range : Ranges, index : Nat, length : Nat, chunk : Seq(Items)]
    \cup [type : {"genesis"}, da : Infos, index : Nat, length : Nat,
          chunk : Seq(0..(Byte - 1))]

(* The types, with what an indexing step relies on: a running process has  *)
(* a batch info, a change of the info has a next one, and a block that is  *)
(* handled is within the bulk.                                             *)
TypeInv ==
  /\ top \in 1..Len(Blocks)
  /\ hostInfos \in Seq(Infos) /\ seen \in 1..Len(hostInfos) /\ hostInfos[1] = FirstInfo
  /\ \A i \in 1..Len(hostInfos) : hostInfos[i].l2 <= top
  /\ synced \in 0..top
  /\ saved \in LocalInfos /\ saved.start <= Len(Blocks) + 1
  /\ local \in LocalInfos /\ local.start <= Len(Blocks) + 1
  /\ file \in Files
  /\ outbox \in Seq(Messages) /\ posted \in 0..Len(outbox) /\ msgs \in Seq(Messages)
  /\ pc \in Steps /\ closed \in BOOLEAN /\ writer \in {"open", "closed"}
  /\ height \in 0..Len(Blocks) /\ latest \in 0..top /\ bulkEnd \in 0..latest
  /\ batchInfos \in Seq(Infos)
  /\ \A i \in 1..Len(batchInfos) : batchInfos[i].l2 <= top
  /\ pc \notin Booting => Len(batchInfos) > 0
  /\ pc \in Switching => Len(batchInfos) > 1
  /\ pc \in Handling \cup {"block"} => height < bulkEnd
  /\ pc \in Handling => local.start > 0
  /\ pc # "down" \/ synced # 0 => saved.start > 0

(* How the heights in memory and in the database and the local batch info  *)
(* relate: the batch in the database starts at most one block after what   *)
(* is synced, a finished one ends there, and the handler works on the      *)
(* block after it.                                                         *)
PlaceInv ==
  /\ pc # "down" => saved.start <= height + 1
  /\ synced # 0 => saved.start <= synced + 1
  /\ synced # 0 /\ saved.end # 0 => saved.end = synced
  /\ pc # "down" /\ saved.end # 0 => synced # 0 /\ height = synced
  /\ pc \notin {"down", "switchSynced"} /\ ~Stopped =>
       (synced # 0 /\ height = synced) \/ height + 1 = saved.start
  /\ pc \in {"emptying", "opened"} =>
       /\ synced = 0 => saved.start = BatchStartHeight
       /\ pc = "emptying" => saved.end = 0 /\ height + 1 = saved.start
  /\ pc \in {"switch", "switchEmpty", "switchSave"} => batchInfos[2].l2 < saved.start
  /\ pc = "switchSynced" => saved.start = batchInfos[2].l2 + 1 /\ saved.end = 0
  /\ pc \in Handling => local.start = IF saved.end = 0 THEN saved.start ELSE height + 1
  /\ pc \in {"prepared", "written"} => local.end = 0
  /\ pc \in {"finalize", "final"} => local.end = height + 1
  /\ pc = "staged" => local.end \in {0, height + 1}

(* The header at i of s announces the chunks of d, which follow it.        *)
Announced(s, i, d, range) ==
  LET chunks == FileChunks(d, MaxChunkSize)
  IN  /\ s[i] = [type |-> "header", range |-> range,
                 checksums |-> [j \in DOMAIN chunks |-> Checksum(chunks[j])]]
      /\ \A j \in DOMAIN chunks :
           /\ i + j \in DOMAIN s
           /\ s[i + j] = [type |-> "chunk", range |-> range, index |-> j - 1,
                          length |-> Len(chunks), chunk |-> chunks[j]]

(* The headers that a commit is about to save.                             *)
HeaderInv ==
  /\ pc \in {"finalize", "final"} => \A i \in 1..Len(msgs) : msgs[i].type # "header"
  /\ pc = "staged" =>
       /\ \A i \in 1..Len(msgs) : msgs[i].type = "header" =>
            /\ msgs[i].range = [da |-> batchInfos[1], start |-> local.start, end |-> local.end]
            /\ local.end # 0
       /\ local.end # 0 => \E i \in 1..Len(msgs) : msgs[i].type = "header"
  /\ Disabled => outbox = <<>>

-----------------------------------------------------------------------------
(* Sequences.                                                              *)

(* A sequence and its elements.                                            *)
LEMMA SeqFacts ==
  ASSUME NEW S, NEW s \in Seq(S)
  PROVE  /\ Len(s) \in Nat /\ DOMAIN s = 1..Len(s) /\ \A i \in 1..Len(s) : s[i] \in S
         /\ s = <<>> <=> Len(s) = 0
OBVIOUS

(* A function on 1..n is a sequence.                                       *)
LEMMA SeqFunction ==
  ASSUME NEW S, NEW n \in Nat, NEW s \in [1..n -> S]
  PROVE  s \in Seq(S) /\ Len(s) = n
OBVIOUS

(* Two sequences in a row.                                                 *)
LEMMA ConcatFacts ==
  ASSUME NEW S, NEW s \in Seq(S), NEW t \in Seq(S)
  PROVE  /\ s \o t \in Seq(S) /\ Len(s \o t) = Len(s) + Len(t)
         /\ \A i \in 1..Len(s) : (s \o t)[i] = s[i]
         /\ \A i \in 1..Len(t) : (s \o t)[Len(s) + i] = t[i]
OBVIOUS

(* A part of a sequence.                                                   *)
LEMMA SubSeqFacts ==
  ASSUME NEW S, NEW s, NEW m \in Int, NEW n \in Int, \A i \in m..n : s[i] \in S
  PROVE  /\ SubSeq(s, m, n) \in Seq(S)
         /\ Len(SubSeq(s, m, n)) = IF m <= n THEN n - m + 1 ELSE 0
         /\ \A i \in 1..(n - m + 1) : SubSeq(s, m, n)[i] = s[m + i - 1]
OBVIOUS

(* One more element.                                                       *)
LEMMA AppendFacts ==
  ASSUME NEW S, NEW s \in Seq(S), NEW e \in S
  PROVE  /\ Append(s, e) \in Seq(S) /\ Append(s, e) # <<>>
         /\ Len(Append(s, e)) = Len(s) + 1 /\ Append(s, e)[Len(s) + 1] = e
         /\ \A i \in 1..Len(s) : Append(s, e)[i] = s[i]
OBVIOUS

(* Sequences of the same length with the same elements are equal.          *)
LEMMA SeqEqual ==
  ASSUME NEW S, NEW s \in Seq(S), NEW t \in Seq(S), Len(s) = Len(t),
         \A i \in 1..Len(s) : s[i] = t[i]
  PROVE  s = t
OBVIOUS

(* Division rounds down.                                                   *)
LEMMA DivFacts ==
  ASSUME NEW a \in Nat, NEW b \in Nat \ {0}
  PROVE  /\ a \div b \in Nat
         /\ (a \div b) * b <= a /\ a < (a \div b) * b + b
OBVIOUS

-----------------------------------------------------------------------------
(* Chunks and batch infos.                                                 *)

(* Where the first i chunks of d end.                                      *)
Cut(d, size, i) == IF i * size < Len(d) THEN i * size ELSE Len(d)

(* A chunk is a part of the file.                                          *)
LEMMA ReadFacts ==
  ASSUME NEW S, NEW d \in Seq(S), NEW size \in Nat \ {0}, NEW k \in Nat
  PROVE  /\ ReadAt(d, size, k) = SubSeq(d, k * size + 1, Cut(d, size, k + 1))
         /\ ReadAt(d, size, k) \in Seq(S)
         /\ k * size <= Len(d) => Len(ReadAt(d, size, k)) = Cut(d, size, k + 1) - k * size
<1> DEFINE a == k * size
           b == (k + 1) * size
<1>1. a \in Nat /\ b \in Nat /\ b = a + size /\ Len(d) \in Nat
  OBVIOUS
<1>2. Cut(d, size, k + 1) = IF b < Len(d) THEN b ELSE Len(d)
  BY Zenon DEF Cut
<1>3. ReadAt(d, size, k) = SubSeq(d, a + 1, Cut(d, size, k + 1))
  BY <1>2, Zenon DEF ReadAt
<1> HIDE DEF a, b
<1> DEFINE e == Cut(d, size, k + 1)
<1>4. e \in Nat /\ e <= Len(d) /\ (a <= Len(d) => a <= e)
  BY <1>1, <1>2
<1> HIDE DEF e
<1>5. \A i \in (a + 1)..e : d[i] \in S
  BY <1>1, <1>4
<1>6. /\ SubSeq(d, a + 1, e) \in Seq(S)
      /\ Len(SubSeq(d, a + 1, e)) = IF a + 1 <= e THEN e - (a + 1) + 1 ELSE 0
  BY <1>1, <1>4, <1>5, SubSeqFacts
<1>7. a <= Len(d) => Len(SubSeq(d, a + 1, e)) = e - a
  BY <1>1, <1>4, <1>6
<1> QED
  BY <1>3, <1>6, <1>7, Zenon DEF a, e

(* The chunks divide the file: none is missing at the end, none is empty.  *)
LEMMA ChunkFacts ==
  ASSUME NEW S, NEW d \in Seq(S), NEW size \in Nat \ {0}
  PROVE  /\ FileChunks(d, size) \in Seq(Seq(S))
         /\ Len(d) <= Len(FileChunks(d, size)) * size
         /\ \A i \in 1..Len(FileChunks(d, size)) :
              /\ (i - 1) * size < Len(d)
              /\ FileChunks(d, size)[i] = SubSeq(d, (i - 1) * size + 1, Cut(d, size, i))
<1> DEFINE n == Len(d) \div size
           short == ReadAt(d, size, n)
           full == [i \in 1..n |-> ReadAt(d, size, i - 1)]
           c == FileChunks(d, size)
<1>1. n \in Nat /\ n * size <= Len(d) /\ Len(d) < n * size + size /\ Len(d) \in Nat
  BY DivFacts
<1>2. c = IF short = <<>> THEN full ELSE Append(full, short)
  BY Zenon DEF FileChunks
<1> HIDE DEF n
<1>3. \A i \in 1..n : ReadAt(d, size, i - 1) \in Seq(S)
  BY <1>1, ReadFacts
<1>4. full \in Seq(Seq(S)) /\ Len(full) = n
  BY <1>1, <1>3, SeqFunction
<1>5. ASSUME NEW i \in 1..n
      PROVE  /\ (i - 1) * size < Len(d)
             /\ full[i] = SubSeq(d, (i - 1) * size + 1, Cut(d, size, i))
  <2>1. i - 1 \in Nat /\ (i - 1) + 1 = i
    BY <1>1
  <2>2. full[i] = ReadAt(d, size, i - 1)
    BY Zenon
  <2>3. (i - 1) * size + size <= n * size
    <3>1. i * size <= n * size
      BY <1>1
    <3>2. i * size = (i - 1) * size + size
      BY <1>1
    <3> QED
      BY <3>1, <3>2, Zenon
  <2>4. (i - 1) * size \in Nat /\ n * size \in Nat
    BY <1>1
  <2>5. (i - 1) * size < Len(d)
    BY <1>1, <2>3, <2>4
  <2> QED
    BY <2>1, <2>2, <2>5, ReadFacts, ZenonT(40)
<1>6. short \in Seq(S) /\ Len(short) = Cut(d, size, n + 1) - n * size
  BY <1>1, ReadFacts, Zenon
<1>7. Cut(d, size, n + 1) = Len(d)
  <2>1. (n + 1) * size = n * size + size
    BY <1>1
  <2> QED
    BY <1>1, <2>1 DEF Cut
<1>8. short = SubSeq(d, n * size + 1, Cut(d, size, n + 1))
  BY <1>1, ReadFacts, Zenon
<1>9. short = <<>> <=> Len(d) = n * size
  BY <1>1, <1>6, <1>7, SMTT(30)
<1> HIDE DEF full, short, c
<1>10. CASE short = <<>>
  <2>1. c = full
    BY <1>2, <1>10, Zenon
  <2> QED
    BY <1>1, <1>4, <1>5, <1>9, <1>10, <2>1, Zenon DEF c
<1>11. CASE short # <<>>
  <2>1. c = Append(full, short)
    BY <1>2, <1>11, Zenon
  <2>2. /\ c \in Seq(Seq(S)) /\ Len(c) = n + 1 /\ c[n + 1] = short
        /\ \A i \in 1..n : c[i] = full[i]
    <3>1. /\ c \in Seq(Seq(S)) /\ Len(c) = Len(full) + 1 /\ c[Len(full) + 1] = short
          /\ \A i \in 1..Len(full) : c[i] = full[i]
      <4> DEFINE Q == Seq(S)
      <4>1. full \in Seq(Q) /\ short \in Q
        BY <1>4, <1>6, Zenon
      <4> HIDE DEF Q
      <4>2. /\ Append(full, short) \in Seq(Q) /\ Len(Append(full, short)) = Len(full) + 1
            /\ Append(full, short)[Len(full) + 1] = short
            /\ \A i \in 1..Len(full) : Append(full, short)[i] = full[i]
        BY ONLY <4>1, AppendFacts
      <4> QED
        BY <2>1, <4>2, Zenon DEF Q
    <3> QED
      BY <1>4, <3>1, Zenon
  <2>3. n * size < Len(d)
    BY <1>1, <1>9, <1>11
  <2>4. (n + 1) * size = n * size + size
    BY <1>1
  <2>5. \A i \in 1..(n + 1) : i \in 1..n \/ (i = n + 1 /\ i - 1 = n)
    BY <1>1
  <2>6. ASSUME NEW i \in 1..(n + 1)
        PROVE  /\ (i - 1) * size < Len(d)
               /\ c[i] = SubSeq(d, (i - 1) * size + 1, Cut(d, size, i))
    <3>1. CASE i \in 1..n
      BY <1>5, <2>2, <3>1, Zenon
    <3>2. CASE i = n + 1 /\ i - 1 = n
      BY <1>8, <2>2, <2>3, <3>2, Zenon
    <3> QED
      BY <2>5, <3>1, <3>2, Zenon
  <2> QED
    BY <1>1, <2>2, <2>4, <2>6 DEF c
<1> QED
  BY <1>10, <1>11, Zenon

(* Reading the chunks one after the other gives the file back.             *)
LEMMA ChunksFlatten ==
  ASSUME NEW S, NEW d \in Seq(S), NEW size \in Nat \ {0}
  PROVE  Joined(FileChunks(d, size)) = d
<1> DEFINE c == FileChunks(d, size)
           m == Len(c)
<1>1. /\ c \in Seq(Seq(S)) /\ Len(d) <= m * size
      /\ \A i \in 1..m : /\ (i - 1) * size < Len(d)
                         /\ c[i] = SubSeq(d, (i - 1) * size + 1, Cut(d, size, i))
  BY ChunkFacts, Zenon
<1>2. m \in Nat /\ Len(d) \in Nat
  BY <1>1
<1> DEFINE Rec(f) == f = [i \in 0..m |-> IF i = 0 THEN <<>> ELSE f[i - 1] \o c[i]]
           P == [i \in 0..m |-> SubSeq(d, 1, Cut(d, size, i))]
<1>3. Joined(c) = (CHOOSE f : Rec(f))[m]
  BY Zenon DEF Joined
<1> HIDE DEF c
<1>4. ASSUME NEW i \in 1..m
      PROVE  SubSeq(d, 1, Cut(d, size, i)) = SubSeq(d, 1, Cut(d, size, i - 1)) \o c[i]
  <2> DEFINE a == (i - 1) * size
             b == Cut(d, size, i)
             s == SubSeq(d, 1, a)
             t == SubSeq(d, a + 1, b)
  <2>1. a \in Nat /\ a < Len(d)
    BY <1>1, <1>2
  <2>2. i * size = a + size
    BY <1>2
  <2>3. b \in Nat /\ a <= b /\ b <= Len(d)
    BY <1>2, <2>1, <2>2 DEF Cut
  <2>4. Cut(d, size, i - 1) = a
    BY <2>1, Zenon DEF Cut
  <2>5. c[i] = t
    BY <1>1, Zenon
  <2> HIDE DEF a, b
  <2>6. s \in Seq(S) /\ Len(s) = a /\ \A k \in 1..a : s[k] = d[k]
    <3>1. \A k \in 1..a : d[k] \in S
      BY <1>2, <2>1
    <3> QED
      BY <2>1, <3>1, SubSeqFacts
  <2>7. t \in Seq(S) /\ Len(t) = b - a /\ \A k \in 1..(b - a) : t[k] = d[a + k]
    <3>1. \A k \in (a + 1)..b : d[k] \in S
      BY <1>2, <2>1, <2>3
    <3>2. /\ t \in Seq(S)
          /\ Len(t) = IF a + 1 <= b THEN b - (a + 1) + 1 ELSE 0
          /\ \A k \in 1..(b - (a + 1) + 1) : t[k] = d[(a + 1) + k - 1]
      BY <2>1, <2>3, <3>1, SubSeqFacts
    <3> QED
      BY <2>1, <2>3, <3>2
  <2>8. /\ SubSeq(d, 1, b) \in Seq(S) /\ Len(SubSeq(d, 1, b)) = b
        /\ \A k \in 1..b : SubSeq(d, 1, b)[k] = d[k]
    <3>1. \A k \in 1..b : d[k] \in S
      BY <1>2, <2>3
    <3> QED
      BY <2>3, <3>1, SubSeqFacts
  <2> HIDE DEF s, t
  <2> DEFINE st == s \o t
  <2>9. /\ st \in Seq(S) /\ Len(st) = Len(s) + Len(t)
        /\ \A k \in 1..Len(s) : st[k] = s[k]
        /\ \A k \in 1..Len(t) : st[Len(s) + k] = t[k]
    <3>1. s \in Seq(S) /\ t \in Seq(S)
      BY <2>6, <2>7, Zenon
    <3> QED
      BY ONLY <3>1, ConcatFacts
  <2> HIDE DEF st
  <2>10. ASSUME NEW k \in 1..b PROVE st[k] = d[k]
    <3>1. CASE k <= a
      BY <2>1, <2>6, <2>9, <3>1
    <3>2. CASE ~(k <= a)
      <4>1. k - a \in 1..(b - a) /\ a + (k - a) = k
        BY <2>1, <2>3, <3>2
      <4>2. st[a + (k - a)] = t[k - a] /\ t[k - a] = d[a + (k - a)]
        BY <2>6, <2>7, <2>9, <4>1, Zenon
      <4> QED
        BY <4>1, <4>2, Zenon
    <3> QED
      BY <3>1, <3>2, Zenon
  <2>11. SubSeq(d, 1, b) = st
    BY <2>1, <2>3, <2>6, <2>7, <2>8, <2>9, <2>10, SeqEqual
  <2> QED
    BY <2>4, <2>5, <2>11, Zenon DEF b, s, st
<1>5. Rec(P)
  <2>1. Cut(d, size, 0) = 0 /\ SubSeq(d, 1, 0) = <<>>
    BY <1>2 DEF Cut
  <2>2. ASSUME NEW i \in 0..m
        PROVE  SubSeq(d, 1, Cut(d, size, i)) = IF i = 0 THEN <<>> ELSE P[i - 1] \o c[i]
    <3>1. i # 0 => i \in 1..m /\ i - 1 \in 0..m
      BY <1>2
    <3> QED
      BY <1>4, <2>1, <3>1, Zenon
  <2> QED
    BY <2>2, Zenon
<1> HIDE DEF P
<1>6. PICK f : f = (CHOOSE g : Rec(g)) /\ Rec(f)
  BY <1>5, Zenon
<1>7. f[m] = P[m]
  <2> DEFINE T == {i \in Nat : i \in 0..m => f[i] = P[i]}
  <2>1. 0 \in T
    <3>1. 0 \in 0..m
      BY <1>2
    <3>2. f[0] = <<>> /\ P[0] = <<>>
      BY <1>5, <1>6, <3>1, Zenon
    <3> QED
      BY <3>2, Zenon
  <2>2. ASSUME NEW i \in T PROVE i + 1 \in T
    <3> SUFFICES ASSUME i + 1 \in 0..m PROVE f[i + 1] = P[i + 1]
      OBVIOUS
    <3> DEFINE k == i + 1
    <3>1. k \in 0..m /\ k # 0 /\ k - 1 = i /\ i \in 0..m
      BY <1>2
    <3> HIDE DEF k
    <3>2. f[k] = f[k - 1] \o c[k] /\ P[k] = P[k - 1] \o c[k]
      BY <1>5, <1>6, <3>1, Zenon
    <3>3. f[i] = P[i]
      BY <3>1, Zenon
    <3> QED
      BY <3>1, <3>2, <3>3, Zenon DEF k
  <2> HIDE DEF T
  <2>3. T = Nat
    <3>1. T \in SUBSET Nat
      BY Zenon DEF T
    <3> QED
      BY <2>1, <2>2, <3>1, SetInduction, Zenon
  <2>4. m \in Nat /\ m \in 0..m
    BY <1>2
  <2> QED
    BY <2>3, <2>4, Zenon DEF T
<1>8. P[m] = SubSeq(d, 1, Cut(d, size, m)) /\ Cut(d, size, m) = Len(d)
  <2>1. m \in 0..m /\ m * size \in Nat
    BY <1>2
  <2> QED
    BY <1>1, <1>2, <2>1 DEF P, Cut
<1>9. SubSeq(d, 1, Len(d)) = d
  BY SubSeqFacts, SeqEqual
<1> QED
  BY <1>3, <1>6, <1>7, <1>8, <1>9, Zenon DEF c

(* A start drops the infos before the last one that is passed.             *)
LEMMA Dequeued ==
  ASSUME NEW infos \in Seq(Infos), Len(infos) > 0, infos[1] = FirstInfo, NEW next \in Nat
  PROVE  \E j \in 1..Len(infos) :
           /\ DequeuePassed(infos, next) = SubSeq(infos, j, Len(infos))
           /\ \A i \in 1..j : Passed(infos[i], next)
           /\ j < Len(infos) => ~Passed(infos[j + 1], next)
<1> DEFINE run == {n \in 1..Len(infos) : \A i \in 1..n : Passed(infos[i], next)}
<1>1. Len(infos) \in Nat
  OBVIOUS
<1>2. 1 \in run
  BY <1>1, BatchAssumption DEF Passed
<1>3. run \in SUBSET Nat /\ \A n \in run : n <= Len(infos)
  BY <1>1
<1>4. DequeuePassed(infos, next) = SubSeq(infos, Max(run), Len(infos))
  BY <1>2, Zenon DEF DequeuePassed
<1> HIDE DEF run
<1>5. \E x \in run : \A y \in run : x >= y
  <2>1. PICK x \in run : \A y \in run : y <= x
    BY <1>1, <1>2, <1>3, GreatestElement, Zenon
  <2> QED
    BY <1>3, <2>1, Zenon
<1>6. PICK j : j = Max(run) /\ j \in run /\ \A y \in run : j >= y
  BY <1>5, Zenon DEF Max
<1>7. j \in 1..Len(infos) /\ \A i \in 1..j : Passed(infos[i], next)
  BY <1>6, Zenon DEF run
<1>8. ASSUME j < Len(infos), Passed(infos[j + 1], next) PROVE FALSE
  <2>1. j + 1 \in 1..Len(infos) /\ \A i \in 1..(j + 1) : i \in 1..j \/ i = j + 1
    BY <1>1, <1>7, <1>8
  <2>2. j + 1 \in run
    BY <1>7, <1>8, <2>1, Zenon DEF run
  <2> QED
    BY <1>6, <1>7, <2>2
<1> QED
  BY <1>4, <1>6, <1>7, <1>8, Zenon

-----------------------------------------------------------------------------
(* Types.                                                                  *)

(* The fields of a local batch info.                                       *)
LEMMA LocalFacts ==
  ASSUME NEW i \in LocalInfos
  PROVE  i.start \in Nat /\ i.end \in Nat /\ i.last \in Nat /\ i.size \in Nat
BY Zenon DEF LocalInfos

(* The info of a batch that starts.                                        *)
LEMMA NewFacts ==
  ASSUME NEW s \in Nat, NEW l \in Nat
  PROVE  /\ InfoAt(s, l) \in LocalInfos /\ InfoAt(s, l).start = s
         /\ InfoAt(s, l).end = 0 /\ InfoAt(s, l).last = l
BY Zenon DEF InfoAt, LocalInfos

(* The info of a batch once measured.                                      *)
LEMMA SizedFacts ==
  ASSUME NEW i \in LocalInfos, NEW n \in Nat
  PROVE  /\ [i EXCEPT !.size = n] \in LocalInfos
         /\ [i EXCEPT !.size = n].start = i.start /\ [i EXCEPT !.size = n].end = i.end
BY Zenon DEF LocalInfos

(* The info of a batch that ends.                                          *)
Ended(i, size, h, time) == [[i EXCEPT !.size = size] EXCEPT !.end = h, !.last = time]

(* Its fields.                                                             *)
LEMMA EndedFacts ==
  ASSUME NEW i, NEW n, NEW h, NEW t, i \in LocalInfos, n \in Nat, h \in Nat, t \in Nat
  PROVE  /\ Ended(i, n, h, t) \in LocalInfos /\ Ended(i, n, h, t).start = i.start
         /\ Ended(i, n, h, t).end = h
<1> DEFINE j == [i EXCEPT !.size = n]
<1>1. j \in LocalInfos /\ j.start = i.start
  BY SizedFacts, Zenon
<1>2. Ended(i, n, h, t) = [j EXCEPT !.end = h, !.last = t]
  BY Zenon DEF Ended
<1> HIDE DEF j
<1>3. /\ [j EXCEPT !.end = h, !.last = t] \in LocalInfos
      /\ [j EXCEPT !.end = h, !.last = t].start = j.start
      /\ [j EXCEPT !.end = h, !.last = t].end = h
  BY <1>1, Zenon DEF LocalInfos
<1> QED
  BY <1>1, <1>2, <1>3, Zenon

(* A block and a commit are items of the file.                             *)
LEMMA ItemTypes ==
  /\ \A h \in 1..Len(Blocks) : BlockItem(h) \in Items /\ CommitItem(h) \in Items
  /\ \A h : /\ BlockItem(h).height = h /\ ~BlockItem(h).commit
            /\ CommitItem(h).height = h /\ CommitItem(h).commit
  /\ \A x \in Items : /\ x.height \in 1..Len(Blocks) /\ x.commit \in BOOLEAN
                      /\ ~x.commit => x = BlockItem(x.height)
<1>1. \A h \in 1..Len(Blocks) : BlockItem(h) \in Items /\ CommitItem(h) \in Items
  BY Zenon DEF Items
<1>2. \A h : /\ BlockItem(h).height = h /\ BlockItem(h).commit = FALSE
             /\ CommitItem(h).height = h /\ CommitItem(h).commit = TRUE
  BY Zenon DEF BlockItem, CommitItem
<1>3. ASSUME NEW x \in Items
      PROVE  /\ x.height \in 1..Len(Blocks) /\ x.commit \in BOOLEAN
             /\ ~x.commit => x = BlockItem(x.height)
  <2>1. PICK h \in 1..Len(Blocks) : x = BlockItem(h) \/ x = CommitItem(h)
    BY Zenon DEF Items
  <2> QED
    BY <1>2, <2>1, Zenon
<1> QED
  BY <1>1, <1>2, <1>3, Zenon

(* The file after a write, a Close and a removal.                          *)
LEMMA FileTypes ==
  /\ EmptyFile \in Files
  /\ \A f \in Files : /\ f.data \in Seq(Items) /\ f.torn \in BOOLEAN
                      /\ [f EXCEPT !.torn = FALSE] \in Files
                      /\ [f EXCEPT !.torn = FALSE].data = f.data
                      /\ ~[f EXCEPT !.torn = FALSE].torn
  /\ \A x \in Items : file \in Files =>
       /\ Appended(x) \in Files /\ Appended(x).data = Append(file.data, x)
       /\ Appended(x).torn
<1>1. EmptyFile \in Files
  BY DEF EmptyFile, Files
<1>2. \A f \in Files : /\ f.data \in Seq(Items) /\ f.torn \in BOOLEAN
                       /\ [f EXCEPT !.torn = FALSE] \in Files
                       /\ [f EXCEPT !.torn = FALSE].data = f.data
                       /\ [f EXCEPT !.torn = FALSE].torn = FALSE
  BY Zenon DEF Files
<1>3. ASSUME NEW x \in Items, file \in Files
      PROVE  /\ Appended(x) \in Files /\ Appended(x).data = Append(file.data, x)
             /\ Appended(x).torn = TRUE
  <2>1. Append(file.data, x) \in Seq(Items)
    BY <1>2, <1>3, AppendFacts, Zenon
  <2> QED
    BY <1>3, <2>1, Zenon DEF Appended, Files
<1> QED
  BY <1>1, <1>2, <1>3, Zenon

(* The chunks of the genesis file are messages, and none is a header.      *)
LEMMA GenesisTypes ==
  ASSUME Len(batchInfos) > 0, batchInfos \in Seq(Infos)
  PROVE  /\ GenesisMsgs \in Seq(Messages)
         /\ \A i \in DOMAIN GenesisMsgs : GenesisMsgs[i].type # "header"
<1> DEFINE chunks == GenesisChunks(Genesis, MaxChunkSize)
           n == (Len(Genesis) + MaxChunkSize - 1) \div MaxChunkSize
           End(i) == IF i * MaxChunkSize > Len(Genesis) THEN Len(Genesis) ELSE i * MaxChunkSize
           B == 0..(Byte - 1)
           Msg(i) == [type |-> "genesis", da |-> batchInfos[1], index |-> i - 1,
                      length |-> Len(chunks), chunk |-> chunks[i]]
<1>1. /\ Len(Genesis) \in Nat /\ \A i \in 1..Len(Genesis) : Genesis[i] \in B
      /\ MaxChunkSize \in Nat \ {0} /\ Len(Genesis) + MaxChunkSize - 1 \in Nat
  <2>1. Genesis \in Seq(B)
    BY BatchAssumption, Zenon
  <2> HIDE DEF B
  <2>2. Len(Genesis) \in Nat /\ \A i \in 1..Len(Genesis) : Genesis[i] \in B
    BY <2>1, SeqFacts, Zenon
  <2> QED
    BY <2>2, BatchAssumption
<1>2. n \in Nat
  BY <1>1, DivFacts, Zenon
<1>3. chunks = [i \in 1..n |-> SubSeq(Genesis, (i - 1) * MaxChunkSize + 1, End(i))]
  BY Zenon DEF GenesisChunks
<1> HIDE DEF n, chunks
<1>4. ASSUME NEW i \in 1..n
      PROVE  SubSeq(Genesis, (i - 1) * MaxChunkSize + 1, End(i)) \in Seq(B)
  <2>1. i - 1 \in Nat /\ i \in Nat
    BY <1>2
  <2>2. (i - 1) * MaxChunkSize \in Nat /\ i * MaxChunkSize \in Nat
    BY <1>1, <2>1
  <2>3. End(i) \in Nat /\ End(i) <= Len(Genesis)
    BY <1>1, <2>2
  <2> HIDE DEF End
  <2>4. \A k \in ((i - 1) * MaxChunkSize + 1)..End(i) : Genesis[k] \in B
    BY <1>1, <2>2, <2>3, SMTT(30)
  <2> QED
    BY <2>2, <2>3, <2>4, SubSeqFacts
<1>5. /\ chunks \in [1..n -> Seq(B)] /\ DOMAIN chunks = 1..n /\ Len(chunks) = n
  BY <1>2, <1>3, <1>4
<1>6. ASSUME NEW i \in 1..n PROVE Msg(i) \in Messages /\ Msg(i).type = "genesis"
  <2>1. i - 1 \in Nat /\ chunks[i] \in Seq(B) /\ batchInfos[1] \in Infos
    BY <1>2, <1>5
  <2> QED
    BY <1>2, <1>5, <2>1, Zenon DEF Messages
<1>7. GenesisMsgs = [i \in 1..n |-> Msg(i)]
  BY <1>5, Zenon DEF GenesisMsgs, chunks
<1> HIDE DEF Msg
<1>8. GenesisMsgs \in [1..n -> Messages] /\ \A i \in 1..n : GenesisMsgs[i].type = "genesis"
  BY <1>6, <1>7, Zenon
<1> QED
  BY <1>2, <1>8, SeqFunction, Zenon

(* The messages of a batch are a header and the chunks it announces.       *)
LEMMA BatchMsgsFacts ==
  ASSUME batchInfos \in Seq(Infos), Len(batchInfos) > 0, file \in Files, local \in LocalInfos
  PROVE  /\ BatchMsgs \in Seq(Messages) /\ Len(BatchMsgs) > 0
         /\ \A i \in 1..Len(BatchMsgs) : BatchMsgs[i].type = "header" <=> i = 1
         /\ Announced(BatchMsgs, 1, file.data,
                      [da |-> batchInfos[1], start |-> local.start, end |-> local.end])
<1> DEFINE chunks == FileChunks(file.data, MaxChunkSize)
           n == Len(chunks)
           range == [da |-> batchInfos[1], start |-> local.start, end |-> local.end]
           sums == [i \in DOMAIN chunks |-> Checksum(chunks[i])]
           header == [type |-> "header", range |-> range, checksums |-> sums]
           Msg(i) == [type |-> "chunk", range |-> range, index |-> i - 1,
                      length |-> n, chunk |-> chunks[i]]
           rest == [i \in DOMAIN chunks |-> Msg(i)]
<1>1. chunks \in Seq(Seq(Items))
  <2>1. MaxChunkSize \in Nat \ {0}
    BY BatchAssumption
  <2>2. file.data \in Seq(Items)
    BY FileTypes, Zenon
  <2> QED
    BY <2>1, <2>2, ChunkFacts, Zenon
<1>2. BatchMsgs = <<header>> \o rest
  BY Zenon DEF BatchMsgs
<1> HIDE DEF chunks
<1>3. n \in Nat /\ DOMAIN chunks = 1..n /\ \A i \in 1..n : chunks[i] \in Seq(Items)
  BY <1>1, SeqFacts, Zenon
<1>4. range \in Ranges
  <2>1. local.start \in Nat /\ local.end \in Nat /\ batchInfos[1] \in Infos
    BY DEF LocalInfos
  <2> QED
    BY <2>1, Zenon DEF Ranges
<1> HIDE DEF range
<1>5. sums \in Seq({"sha256"} \X Seq(Items))
  <2>1. \A i \in 1..n : Checksum(chunks[i]) \in {"sha256"} \X Seq(Items)
    BY <1>3, Zenon DEF Checksum
  <2> QED
    BY <1>3, <2>1, SeqFunction, Zenon
<1> HIDE DEF sums
<1>6. header \in Messages /\ header.type = "header"
  BY <1>4, <1>5, Zenon DEF Messages
<1>7. ASSUME NEW i \in 1..n PROVE Msg(i) \in Messages /\ Msg(i).type = "chunk"
  <2>1. i - 1 \in Nat /\ chunks[i] \in Seq(Items)
    BY <1>3
  <2> QED
    BY <1>3, <1>4, <2>1, Zenon DEF Messages
<1> HIDE DEF header, Msg
<1>8. /\ rest \in Seq(Messages) /\ Len(rest) = n /\ \A i \in 1..n : rest[i] = Msg(i)
  <2>1. rest \in [1..n -> Messages]
    BY <1>3, <1>7, Zenon
  <2>2. \A i \in 1..n : rest[i] = Msg(i)
    BY <1>3, Zenon
  <2> QED
    BY <1>3, <2>1, <2>2, SeqFunction, Zenon
<1>9. <<header>> \in Seq(Messages) /\ Len(<<header>>) = 1 /\ <<header>>[1] = header
  BY <1>6
<1> HIDE DEF rest
<1>10. /\ BatchMsgs \in Seq(Messages) /\ Len(BatchMsgs) = 1 + n /\ BatchMsgs[1] = header
       /\ \A i \in 1..n : BatchMsgs[1 + i] = Msg(i)
  <2> DEFINE one == <<header>>
  <2>1. one \in Seq(Messages) /\ Len(one) = 1 /\ one[1] = header
    BY <1>9, Zenon
  <2> HIDE DEF one
  <2>2. /\ one \o rest \in Seq(Messages) /\ Len(one \o rest) = Len(one) + Len(rest)
        /\ \A i \in 1..Len(one) : (one \o rest)[i] = one[i]
        /\ \A i \in 1..Len(rest) : (one \o rest)[Len(one) + i] = rest[i]
    <3>1. one \in Seq(Messages) /\ rest \in Seq(Messages)
      BY <1>8, <2>1, Zenon
    <3> QED
      BY ONLY <3>1, ConcatFacts
  <2>3. BatchMsgs = one \o rest
    BY <1>2, Zenon DEF one
  <2> QED
    BY <1>3, <1>8, <2>1, <2>2, <2>3, SMTT(30)
<1>11. ASSUME NEW i \in 1..Len(BatchMsgs) PROVE BatchMsgs[i].type = "header" <=> i = 1
  <2>1. CASE i = 1
    BY <1>6, <1>10, <2>1, Zenon
  <2>2. CASE i # 1
    <3>1. i - 1 \in 1..n /\ 1 + (i - 1) = i
      BY <1>3, <1>10, <2>2
    <3>2. BatchMsgs[i] = Msg(i - 1)
      BY <1>10, <3>1, Zenon
    <3> QED
      BY <1>7, <2>2, <3>1, <3>2, Zenon
  <2> QED
    BY <2>1, <2>2, Zenon
<1>12. \A j \in 1..n : 1 + j \in 1..Len(BatchMsgs)
  BY <1>3, <1>10
<1>13. DOMAIN BatchMsgs = 1..Len(BatchMsgs)
  BY <1>10, SeqFacts, Zenon
<1>14. Announced(BatchMsgs, 1, file.data, range)
  BY <1>3, <1>10, <1>12, <1>13, Zenon DEF Announced, header, Msg, sums, chunks
<1> QED
  BY <1>3, <1>10, <1>11, <1>14 DEF range

(* A batch info at the end of a queue leaves the others as they are.       *)
LEMMA QueueFacts ==
  ASSUME NEW q \in Seq(Infos), NEW info \in Infos, NEW t, info.l2 <= t,
         \A i \in 1..Len(q) : q[i].l2 <= t
  PROVE  /\ Append(q, info) \in Seq(Infos) /\ Len(Append(q, info)) = Len(q) + 1
         /\ \A i \in 1..Len(Append(q, info)) : Append(q, info)[i].l2 <= t
         /\ Len(q) > 0 => Append(q, info)[1] = q[1]
         /\ Len(q) > 1 => Append(q, info)[2] = q[2]
<1> DEFINE r == Append(q, info)
<1>1. /\ r \in Seq(Infos) /\ Len(r) = Len(q) + 1 /\ r[Len(q) + 1] = info
      /\ \A i \in 1..Len(q) : r[i] = q[i]
  BY AppendFacts
<1> HIDE DEF r
<1>2. /\ Len(q) > 0 => 1 \in 1..Len(q)
      /\ Len(q) > 1 => 2 \in 1..Len(q)
      /\ \A i \in 1..(Len(q) + 1) : i \in 1..Len(q) \/ i = Len(q) + 1
  OBVIOUS
<1> QED
  BY <1>1, <1>2, Zenon DEF r

(* Batch infos are of L2 blocks, heights are numbers.                      *)
LEMMA TypeFacts ==
  ASSUME TypeInv
  PROVE  /\ Len(Blocks) \in Nat /\ top \in Nat /\ top <= Len(Blocks)
         /\ Len(hostInfos) \in Nat /\ Len(hostInfos) > 0 /\ seen \in Nat
         /\ \A i \in 1..Len(hostInfos) : hostInfos[i] \in Infos /\ hostInfos[i].l2 \in Nat
         /\ Len(batchInfos) \in Nat
         /\ \A i \in 1..Len(batchInfos) : batchInfos[i] \in Infos /\ batchInfos[i].l2 \in Nat
         /\ synced \in Nat /\ height \in Nat /\ latest \in Nat /\ bulkEnd \in Nat
         /\ saved.start \in Nat /\ saved.end \in Nat /\ saved.last \in Nat
         /\ local.start \in Nat /\ local.end \in Nat /\ local.last \in Nat
<1>1. Len(Blocks) \in Nat /\ top \in Nat /\ top <= Len(Blocks)
  BY BatchAssumption DEF TypeInv
<1>2. hostInfos \in Seq(Infos) /\ batchInfos \in Seq(Infos) /\ seen \in 1..Len(hostInfos)
  BY Zenon DEF TypeInv
<1>3. \A i \in Infos : i.l2 \in Nat
  BY BatchAssumption, Zenon
<1>4. Len(hostInfos) \in Nat /\ Len(hostInfos) > 0 /\ seen \in Nat
  BY <1>2
<1>5. /\ \A i \in 1..Len(hostInfos) : hostInfos[i] \in Infos /\ hostInfos[i].l2 \in Nat
      /\ Len(batchInfos) \in Nat
      /\ \A i \in 1..Len(batchInfos) : batchInfos[i] \in Infos /\ batchInfos[i].l2 \in Nat
  BY <1>2, <1>3
<1>6. synced \in Nat /\ height \in Nat /\ latest \in Nat /\ bulkEnd \in Nat
  BY <1>1 DEF TypeInv
<1>7. saved \in LocalInfos /\ local \in LocalInfos
  BY Zenon DEF TypeInv
<1> QED
  BY <1>1, <1>4, <1>5, <1>6, <1>7, LocalFacts, Zenon

(* The batch submitter starts type correct.                                *)
LEMMA TypeInit == Init => TypeInv
<1> SUFFICES ASSUME Init PROVE TypeInv
  BY Zenon
<1>1. FirstInfo \in Infos /\ FirstInfo.l2 = 0 /\ Len(Blocks) \in Nat /\ 1 \in 1..Len(Blocks)
  BY BatchAssumption DEF Infos
<1>2. InfoAt(0, 0) \in LocalInfos /\ InfoAt(0, 0).start = 0
  BY NewFacts, Zenon
<1>3. EmptyFile \in Files
  BY FileTypes, Zenon
<1> QED
  <2>1. hostInfos \in Seq(Infos) /\ Len(hostInfos) = 1 /\ hostInfos[1] = FirstInfo
    BY <1>1 DEF Init
  <2>2. outbox \in Seq(Messages) /\ msgs \in Seq(Messages) /\ Len(outbox) = 0
    BY DEF Init
  <2>3. batchInfos \in Seq(Infos) /\ Len(batchInfos) = 0
    BY DEF Init
  <2>4. /\ top = 1 /\ seen = 1 /\ synced = 0 /\ saved = InfoAt(0, 0) /\ local = InfoAt(0, 0)
        /\ file = EmptyFile /\ posted = 0 /\ pc = "down" /\ closed = FALSE
        /\ writer = "closed" /\ height = 0 /\ latest = 0 /\ bulkEnd = 0
    BY Zenon DEF Init
  <2>5. \A i \in 1..Len(hostInfos) : hostInfos[i].l2 <= top
    BY <1>1, <2>1, <2>4
  <2>6. \A i \in 1..Len(batchInfos) : batchInfos[i].l2 <= top
    BY <2>3
  <2>7. /\ top \in 1..Len(Blocks) /\ seen \in 1..Len(hostInfos) /\ synced \in 0..top
        /\ posted \in 0..Len(outbox) /\ height \in 0..Len(Blocks) /\ latest \in 0..top
        /\ bulkEnd \in 0..latest /\ 0 <= Len(Blocks) + 1
    BY <1>1, <2>1, <2>2, <2>4
  <2>8. /\ pc \in Steps /\ closed \in BOOLEAN /\ writer \in {"open", "closed"}
        /\ pc \in Booting /\ pc \notin Switching /\ pc \notin Handling \cup {"block"}
        /\ ~(pc # "down" \/ synced # 0)
    BY <2>4, Zenon DEF Steps, Booting, Handling, Switching
  <2> QED
    BY <1>2, <1>3, <2>1, <2>2, <2>3, <2>4, <2>5, <2>6, <2>7, <2>8, Zenon DEF TypeInv

(* Every step of the chains and of the host loop keeps the types.          *)
LEMMA TypeChains ==
  ASSUME TypeInv,
         \/ L2Block \/ Post \/ HostEvent
         \/ \E info \in NewInfos : L1UpdateBatchInfo(info)
  PROVE  TypeInv'
<1>0. /\ Len(Blocks) \in Nat /\ top \in Nat /\ top <= Len(Blocks)
      /\ Len(hostInfos) \in Nat /\ Len(hostInfos) > 0 /\ seen \in Nat
      /\ \A i \in 1..Len(hostInfos) : hostInfos[i] \in Infos /\ hostInfos[i].l2 \in Nat
      /\ Len(batchInfos) \in Nat
      /\ \A i \in 1..Len(batchInfos) : batchInfos[i] \in Infos /\ batchInfos[i].l2 \in Nat
  BY TypeFacts, Zenon
<1>1. CASE L2Block
  <2>1. top' = top + 1 /\ top < Len(Blocks) /\ UNCHANGED <<hostInfos, seen, disk, pc, memory>>
    BY <1>1, Zenon DEF L2Block
  <2>2. /\ synced \in 0..top /\ latest \in 0..top
        /\ \A i \in 1..Len(hostInfos) : hostInfos[i].l2 <= top
        /\ \A i \in 1..Len(batchInfos) : batchInfos[i].l2 <= top
    BY Zenon DEF TypeInv
  <2>3. /\ top' \in 1..Len(Blocks) /\ synced \in 0..top' /\ latest \in 0..top'
        /\ \A n \in Nat : n <= top => n <= top'
    BY <1>0, <2>1, <2>2
  <2>4. /\ \A i \in 1..Len(hostInfos) : hostInfos[i].l2 <= top'
        /\ \A i \in 1..Len(batchInfos) : batchInfos[i].l2 <= top'
    BY <1>0, <2>2, <2>3, Zenon
  <2> QED
    BY <2>1, <2>3, <2>4, Zenon DEF TypeInv, disk, memory, loop
<1>2. CASE Post
  <2>1. Len(outbox) \in Nat
    BY SeqFacts, Zenon DEF TypeInv
  <2>2. /\ posted < Len(outbox) /\ posted' = posted + 1
        /\ UNCHANGED <<chain, synced, saved, file, outbox, pc, memory>>
    BY <1>2, Zenon DEF Post
  <2>3. posted \in 0..Len(outbox)
    BY Zenon DEF TypeInv
  <2>4. posted' \in 0..Len(outbox)
    BY <2>1, <2>2, <2>3
  <2> QED
    BY <2>2, <2>4, Zenon DEF TypeInv, chain, memory, loop
<1>3. CASE HostEvent
  <2>0. /\ Running /\ seen < Len(hostInfos) /\ seen' = seen + 1
        /\ UNCHANGED <<top, hostInfos, disk, pc, closed, writer, height, loop, local, msgs>>
    BY <1>3, Zenon DEF HostEvent
  <2>1. seen + 1 \in 1..Len(hostInfos)
    BY <1>0, <2>0
  <2>2. hostInfos[seen + 1] \in Infos /\ hostInfos[seen + 1].l2 <= top
    BY <1>0, <2>1, Zenon DEF TypeInv
  <2>3. /\ batchInfos' \in Seq(Infos) /\ Len(batchInfos') >= Len(batchInfos)
        /\ \A i \in 1..Len(batchInfos') : batchInfos'[i].l2 <= top
    <3>1. batchInfos' = batchInfos \/ batchInfos' = Append(batchInfos, hostInfos[seen + 1])
      BY <1>3, Zenon DEF HostEvent, UpdateBatchInfo
    <3>0. Len(batchInfos) \in Nat
      BY <1>0, Zenon
    <3>00. Len(batchInfos) >= Len(batchInfos) /\ Len(batchInfos) + 1 >= Len(batchInfos)
      BY <3>0
    <3>2. CASE batchInfos' = batchInfos
      BY <3>00, <3>2, Zenon DEF TypeInv
    <3>3. CASE batchInfos' = Append(batchInfos, hostInfos[seen + 1])
      <4>1. batchInfos \in Seq(Infos) /\ \A i \in 1..Len(batchInfos) : batchInfos[i].l2 <= top
        BY Zenon DEF TypeInv
      <4> QED
        BY <2>2, <3>00, <3>3, <4>1, QueueFacts, Zenon
    <3> QED
      BY <3>1, <3>2, <3>3, Zenon
  <2>4. Len(batchInfos') \in Nat
    BY <2>3, SeqFacts, Zenon
  <2>5. /\ Len(batchInfos) > 0 => Len(batchInfos') > 0
        /\ Len(batchInfos) > 1 => Len(batchInfos') > 1
    BY <1>0, <2>3, <2>4
  <2> QED
    BY <2>0, <2>1, <2>3, <2>5, Zenon DEF TypeInv, disk, loop
<1>4. ASSUME NEW info \in NewInfos, L1UpdateBatchInfo(info) PROVE TypeInv'
  <2>1. info \in Infos /\ info.l2 <= top /\ hostInfos' = Append(hostInfos, info)
    BY <1>4, Zenon DEF L1UpdateBatchInfo, Infos
  <2>2. hostInfos \in Seq(Infos) /\ \A i \in 1..Len(hostInfos) : hostInfos[i].l2 <= top
    BY Zenon DEF TypeInv
  <2>3. /\ hostInfos' \in Seq(Infos) /\ Len(hostInfos') = Len(hostInfos) + 1
        /\ hostInfos'[1] = hostInfos[1]
        /\ \A i \in 1..Len(hostInfos') : hostInfos'[i].l2 <= top
    BY <1>0, <2>1, <2>2, QueueFacts, Zenon
  <2>4. UNCHANGED <<top, seen, disk, pc, memory>>
    BY <1>4, Zenon DEF L1UpdateBatchInfo
  <2>5. seen \in 1..Len(hostInfos)
    BY Zenon DEF TypeInv
  <2>6. seen \in 1..Len(hostInfos')
    BY <1>0, <2>3, <2>5
  <2> QED
    BY <2>3, <2>4, <2>6, Zenon DEF TypeInv, disk, memory, loop
<1> QED
  BY <1>1, <1>2, <1>3, <1>4, Zenon

(* Every step of a start and every stop keeps the types.                   *)
LEMMA TypeStarts ==
  ASSUME TypeInv, Start \/ InitializeFails \/ Close \/ Exit \/ Kill \/ ResetHeight
  PROVE  TypeInv'
<1>0. /\ Len(Blocks) \in Nat /\ top \in Nat /\ top <= Len(Blocks)
      /\ Len(hostInfos) \in Nat /\ Len(hostInfos) > 0
      /\ synced \in Nat /\ height \in Nat
      /\ saved.start \in Nat /\ saved.end \in Nat /\ saved.last \in Nat
  BY TypeFacts, Zenon
<1>1. CASE Open
  <2>1. BatchStartHeight \in Nat /\ BatchStartHeight > 0 /\ BatchStartHeight <= Len(Blocks)
    BY BatchAssumption
  <2>2. synced # 0 => saved.start > 0
    BY Zenon DEF TypeInv
  <2>3. ASSUME NEW s \in Nat, s > 0, s <= Len(Blocks) + 1, ResetBatchFile(s)
        PROVE  /\ local' \in LocalInfos /\ local'.start = s /\ saved' = local'
               /\ height' \in 0..Len(Blocks) /\ pc' = "emptying"
    <3>1. InfoAt(s, saved.last) \in LocalInfos /\ InfoAt(s, saved.last).start = s
      BY <1>0, NewFacts, Zenon
    <3> QED
      BY <1>0, <2>3, <3>1 DEF ResetBatchFile
  <2>4. /\ local' \in LocalInfos /\ local'.start > 0 /\ local'.start <= Len(Blocks) + 1
        /\ saved' = local' /\ height' \in 0..Len(Blocks) /\ pc' \in {"emptying", "opened"}
    <3>1. CASE synced = 0 /\ ResetBatchFile(BatchStartHeight)
      BY <1>0, <2>1, <2>3, <3>1
    <3>2. CASE synced # 0 /\ ResetBatchFile(saved.start)
      <4>1. saved.start <= Len(Blocks) + 1
        BY Zenon DEF TypeInv
      <4> QED
        BY <1>0, <2>2, <2>3, <3>2, <4>1, Zenon
    <3>3. CASE synced # 0 /\ local' = saved /\ height' = synced /\ pc' = "opened" /\ saved' = saved
      BY <1>0, <2>2, <3>3 DEF TypeInv
    <3> QED
      BY <1>1, <3>1, <3>2, <3>3, Zenon DEF Open
  <2>5. closed' = FALSE /\ UNCHANGED <<chain, synced, file, outbox, posted, writer, loop,
                                      batchInfos, msgs>>
    BY <1>1, Zenon DEF Open
  <2>6. /\ pc' \in Steps /\ pc' \in Booting /\ pc' \notin Switching
        /\ pc' \notin Handling \cup {"block"}
    BY <2>4, Zenon DEF Steps, Booting, Handling, Switching
  <2> QED
    BY <1>0, <2>4, <2>5, <2>6, Zenon DEF TypeInv, chain, loop
<1>2. CASE EmptyAtStart
  <2>1. EmptyFile \in Files
    BY FileTypes, Zenon
  <2> QED
    BY <1>2, <2>1, Zenon DEF EmptyAtStart, TypeInv, chain, memory, loop, Steps, Booting, Handling,
                      Switching
<1>3. CASE InitializeNode
  <2>1. /\ hostInfos \in Seq(Infos) /\ hostInfos[1] = FirstInfo
        /\ \A i \in 1..Len(hostInfos) : hostInfos[i].l2 <= top
    BY Zenon DEF TypeInv
  <2>2. PICK j \in 1..Len(hostInfos) : batchInfos' = SubSeq(hostInfos, j, Len(hostInfos))
    <3>1. height + 1 \in Nat
      BY <1>0
    <3>2. batchInfos' = DequeuePassed(hostInfos, height + 1)
      BY <1>3, Zenon DEF InitializeNode
    <3> QED
      BY <1>0, <2>1, <3>1, <3>2, Dequeued, Zenon
  <2>3. /\ batchInfos' \in Seq(Infos) /\ Len(batchInfos') = Len(hostInfos) - j + 1
        /\ \A i \in 1..(Len(hostInfos) - j + 1) : batchInfos'[i] = hostInfos[j + i - 1]
    <3>1. \A i \in j..Len(hostInfos) : hostInfos[i] \in Infos
      BY <1>0, <2>1
    <3>2. j \in Int /\ Len(hostInfos) \in Int /\ j <= Len(hostInfos)
      BY <1>0
    <3> QED
      BY <2>2, <3>1, <3>2, SubSeqFacts, SMTT(30)
  <2>4. Len(batchInfos') > 0 /\ \A i \in 1..Len(batchInfos') : batchInfos'[i].l2 <= top
    <3>1. ASSUME NEW i \in 1..(Len(hostInfos) - j + 1) PROVE batchInfos'[i].l2 <= top
      <4>1. j + i - 1 \in 1..Len(hostInfos)
        BY <1>0
      <4> QED
        BY <2>1, <2>3, <4>1, Zenon
    <3> QED
      BY <1>0, <2>3, <3>1
  <2> QED
    <3>1. /\ latest' = 0 /\ bulkEnd' = 0 /\ msgs' = <<>> /\ pc' = "idle" /\ writer' = "open"
          /\ pc = "opened" /\ UNCHANGED <<chain, disk, closed, height, local>>
      BY <1>3, Zenon DEF InitializeNode
    <3>2. 0 \in 0..top /\ 0 \in 0..0
      BY <1>0
    <3>3. <<>> \in Seq(Messages)
      OBVIOUS
    <3> QED
      BY <2>3, <2>4, <3>1, <3>2, <3>3, Zenon DEF TypeInv, chain, disk, loop, Steps, Booting,
                                  Handling, Switching
<1>4. CASE InitializeFails \/ Exit \/ Kill
  <2>1. pc # "down" /\ pc' = "down" /\ UNCHANGED <<chain, disk, memory>>
    BY <1>4, Zenon DEF InitializeFails, Exit, Kill
  <2> QED
    BY <2>1, Zenon DEF TypeInv, chain, disk, memory, loop, Steps, Booting, Handling, Switching
<1>5. CASE Close
  <2>1. file' \in Files
    BY <1>5, FileTypes, Zenon DEF Close, TypeInv
  <2> QED
    BY <1>5, <2>1, Zenon DEF Close, TypeInv, chain, loop
<1>6. CASE ResetHeight
  <2>1. 0 \in 0..top
    BY <1>0
  <2> QED
    BY <1>6, <2>1, Zenon DEF ResetHeight, TypeInv, chain, memory, loop, Steps, Booting, Handling,
                             Switching
<1> QED
  BY <1>1, <1>2, <1>3, <1>4, <1>5, <1>6, Zenon DEF Start

(* Every step of the loop and of the handler of a block keeps the types.   *)
LEMMA TypeHandler ==
  ASSUME TypeInv, Status \/ Handler \/ HandlerFails
  PROVE  TypeInv'
<1>0. /\ Len(Blocks) \in Nat /\ top \in Nat /\ top <= Len(Blocks)
      /\ synced \in Nat /\ height \in Nat /\ latest \in Nat /\ bulkEnd \in Nat
      /\ Len(batchInfos) \in Nat
      /\ \A i \in 1..Len(batchInfos) : batchInfos[i] \in Infos /\ batchInfos[i].l2 \in Nat
      /\ saved.start \in Nat /\ saved.last \in Nat /\ local.start \in Nat /\ local.last \in Nat
  BY TypeFacts, Zenon
<1>1. /\ saved \in LocalInfos /\ local \in LocalInfos /\ file \in Files
      /\ msgs \in Seq(Messages) /\ outbox \in Seq(Messages) /\ batchInfos \in Seq(Infos)
      /\ latest <= top /\ bulkEnd <= latest /\ pc \in Steps
      /\ pc \notin Booting => Len(batchInfos) > 0
      /\ pc \in Switching => Len(batchInfos) > 1
      /\ pc \in Handling \cup {"block"} => height < bulkEnd
      /\ pc \in Handling => local.start > 0
      /\ pc # "down" => saved.start > 0
  <2>1. latest \in 0..top /\ bulkEnd \in 0..latest
    BY Zenon DEF TypeInv
  <2>2. latest <= top /\ bulkEnd <= latest
    BY <1>0, <2>1
  <2> QED
    BY <2>2, Zenon DEF TypeInv
<1>2. <<>> \in Seq(Messages) /\ EmptyFile \in Files
  BY FileTypes
<1>3. height < bulkEnd => height + 1 \in 1..Len(Blocks) /\ height + 1 <= top
  BY <1>0, <1>1
<1>4. ASSUME UNCHANGED <<chain, disk, memory>>, pc' = "idle", pc \notin Booting PROVE TypeInv'
  BY <1>4, Zenon DEF TypeInv, chain, disk, memory, loop, Steps, Booting, Handling, Switching
<1>5. CASE Status
  <2>1. /\ latest' = top /\ pc = "idle" /\ pc' = "block" /\ height < top
        /\ bulkEnd' = IF height + QueryMax > top THEN top ELSE height + QueryMax
    BY <1>5, Zenon DEF Status, Behind
  <2>2. UNCHANGED <<chain, disk, closed, writer, height, local, batchInfos, msgs>>
    BY <1>5, Zenon DEF Status
  <2>3. bulkEnd' \in 0..top /\ height < bulkEnd' /\ top \in 0..top
    <3>1. QueryMax \in Nat /\ QueryMax > 0 /\ top \in Nat /\ height \in Nat
      BY <1>0, BatchAssumption
    <3> QED
      BY <2>1, <3>1
  <2> QED
    BY <2>1, <2>2, <2>3, Zenon DEF TypeInv, chain, disk, Steps, Booting, Handling, Switching
<1>6. CASE prepareBatch
  <2>1. /\ pc = "block" /\ msgs' = <<>> /\ pc' \in {"switch", "prepared", "idle"}
        /\ UNCHANGED <<chain, synced, saved, outbox, posted, closed, height, loop, batchInfos>>
        /\ pc' = "switch" => Len(batchInfos) > 1
        /\ file' \in {file, EmptyFile} /\ writer' \in {writer, "open"}
        /\ local' = saved \/ local' = InfoAt(NextStart, saved.last)
    BY <1>6, Zenon DEF prepareBatch, NextIsReached
  <2>2. InfoAt(NextStart, saved.last) \in LocalInfos /\ InfoAt(NextStart, saved.last).start = height + 1
    <3>1. NextStart \in Nat /\ NextStart = height + 1
      BY <1>0 DEF NextStart
    <3> QED
      BY <1>0, <3>1, NewFacts, Zenon
  <2>3. /\ local' \in LocalInfos /\ local'.start > 0 /\ local'.start <= Len(Blocks) + 1
        /\ height < bulkEnd
    <3>1. height < bulkEnd /\ saved.start > 0 /\ saved.start <= Len(Blocks) + 1
      BY <2>1, Zenon DEF TypeInv
    <3>2. height + 1 > 0 /\ height + 1 <= Len(Blocks) + 1
      BY <1>0, <1>3, <3>1, SMTT(30)
    <3> QED
      BY <1>1, <2>1, <2>2, <3>1, <3>2, Zenon
  <2>4. file' \in Files /\ writer' \in {"open", "closed"}
    BY <1>1, <1>2, <2>1, Zenon DEF TypeInv
  <2>5. pc' \in Steps /\ pc' \notin Booting /\ (pc' \in Switching => pc' = "switch")
    BY <2>1, Zenon DEF Steps, Booting, Switching
  <2> QED
    BY <1>0, <1>1, <1>2, <2>1, <2>3, <2>4, <2>5, Zenon DEF TypeInv, chain, loop, Booting
<1>7. CASE handleBatch
  <2>1. CASE writer = "open" /\ file' = Appended(BlockItem(height + 1)) /\ pc' = "written"
    <3>1. pc = "prepared" /\ UNCHANGED <<chain, synced, saved, outbox, posted, memory>>
      BY <1>7, <2>1, Zenon DEF handleBatch, Return, memory
    <3>2. height + 1 \in 1..Len(Blocks)
      BY <1>1, <1>3, <3>1, Zenon DEF Handling
    <3>3. file' \in Files
      BY <1>1, <2>1, <3>2, ItemTypes, FileTypes, Zenon
    <3> QED
      BY <2>1, <3>1, <3>3, Zenon DEF TypeInv, chain, memory, loop, Steps, Booting, Handling, Switching
  <2>2. CASE Return /\ UNCHANGED file
    BY <1>4, <1>7, <2>2, Zenon DEF handleBatch, Return, memory, loop, disk, Booting
  <2> QED
    BY <1>7, <2>1, <2>2, Zenon DEF handleBatch
<1>8. CASE measureBatch
  <2>1. CASE closed /\ Return
    BY <1>4, <1>8, <2>1, Zenon DEF measureBatch, Return, memory, loop, Booting
  <2>2. CASE ~closed
    <3>1. /\ pc = "written" /\ UNCHANGED <<chain, disk, closed, writer, height, loop, batchInfos>>
          /\ msgs' \in {GenesisMsgs, <<>>}
      BY <1>8, <2>2, Zenon DEF measureBatch
    <3>2. Len(batchInfos) > 0 /\ height < bulkEnd /\ local.start > 0
      BY <1>1, <3>1, Zenon DEF Booting, Handling
    <3>3. msgs' \in Seq(Messages)
      BY <1>1, <1>2, <3>1, <3>2, GenesisTypes, Zenon
    <3>4. Len(file.data) \in Nat
      BY <1>1, FileTypes, SeqFacts, Zenon
    <3>5. Blocks[height + 1].time \in Nat
      BY <1>3, <3>2, BatchAssumption, Zenon
    <3>6. /\ local' \in LocalInfos /\ local'.start = local.start
          /\ pc' \in {"finalize", "staged"}
      <4>1. \/ /\ local' = Ended(local, Len(file.data), height + 1, Blocks[height + 1].time)
               /\ pc' = "finalize"
            \/ local' = [local EXCEPT !.size = Len(file.data)] /\ pc' = "staged"
        BY <1>8, <2>2, Zenon DEF measureBatch, Ended
      <4>2. CASE local' = [local EXCEPT !.size = Len(file.data)] /\ pc' = "staged"
        BY <1>1, <3>4, <4>2, SizedFacts, Zenon
      <4>3. CASE /\ local' = Ended(local, Len(file.data), height + 1, Blocks[height + 1].time)
                 /\ pc' = "finalize"
        <5> DEFINE n == Len(file.data)
                   h == height + 1
                   t == Blocks[height + 1].time
        <5>1. n \in Nat /\ h \in Nat /\ t \in Nat /\ local \in LocalInfos
          BY <1>0, <1>1, <3>4, <3>5
        <5>2. local' = Ended(local, n, h, t) /\ pc' = "finalize"
          BY <4>3, Zenon
        <5> HIDE DEF n, h, t
        <5> QED
          BY <5>1, <5>2, EndedFacts, SMTT(30)
      <4> QED
        BY <4>1, <4>2, <4>3, Zenon
    <3> QED
      BY <1>0, <1>1, <3>1, <3>2, <3>3, <3>6, Zenon
         DEF TypeInv, chain, disk, loop, Steps, Booting, Handling, Switching
  <2> QED
    BY <1>8, <2>1, <2>2, Zenon DEF measureBatch
<1>9. CASE writeCommit
  <2>1. CASE writer = "open"
    <3>1. /\ pc = "finalize" /\ pc' = "final" /\ writer' = "closed"
          /\ file' = [Appended(CommitItem(height + 1)) EXCEPT !.torn = FALSE]
          /\ UNCHANGED <<chain, synced, saved, outbox, posted, closed, height, loop, local,
                         batchInfos, msgs>>
      BY <1>9, <2>1, Zenon DEF writeCommit
    <3>2. height + 1 \in 1..Len(Blocks)
      BY <1>1, <1>3, <3>1, Zenon DEF Handling
    <3>3. Appended(CommitItem(height + 1)) \in Files
      BY <1>1, <3>2, ItemTypes, FileTypes, Zenon
    <3>4. file' \in Files
      BY <3>1, <3>3, FileTypes, Zenon
    <3> QED
      BY <1>1, <3>1, <3>4, Zenon DEF TypeInv, chain, loop, Steps, Booting, Handling, Switching
  <2>2. CASE Return /\ UNCHANGED file
    BY <1>4, <1>9, <2>2, Zenon DEF writeCommit, Return, memory, loop, disk, Booting
  <2> QED
    BY <1>9, <2>1, <2>2, Zenon DEF writeCommit
<1>10. CASE createBatchMsgs
  <2>1. CASE closed /\ Return
    BY <1>4, <1>10, <2>1, Zenon DEF createBatchMsgs, Return, memory, loop, Booting
  <2>2. CASE ~closed
    <3>1. /\ pc = "final" /\ pc' = "staged" /\ msgs' = msgs \o BatchMsgs
          /\ local' = [local EXCEPT !.size = Len(file.data)]
          /\ UNCHANGED <<chain, disk, closed, writer, height, loop, batchInfos>>
      BY <1>10, <2>2, Zenon DEF createBatchMsgs
    <3>2. Len(batchInfos) > 0 /\ height < bulkEnd /\ local.start > 0
      BY <1>1, <3>1, Zenon DEF Booting, Handling
    <3>3. msgs' \in Seq(Messages)
      <4>1. BatchMsgs \in Seq(Messages)
        BY <1>1, <3>2, BatchMsgsFacts, Zenon
      <4> QED
        BY <1>1, <3>1, <4>1, ConcatFacts, Zenon
    <3>4. Len(file.data) \in Nat
      BY <1>1, FileTypes, SeqFacts, Zenon
    <3>5. local' \in LocalInfos /\ local'.start = local.start
      BY <1>1, <3>1, <3>4, SizedFacts, Zenon
    <3> QED
      BY <1>0, <1>1, <3>1, <3>2, <3>3, <3>5, Zenon
         DEF TypeInv, chain, disk, loop, Steps, Booting, Handling, Switching
  <2> QED
    BY <1>10, <2>1, <2>2, Zenon DEF createBatchMsgs
<1>11. CASE Commit
  <2>1. /\ pc = "staged" /\ synced' = height + 1 /\ saved' = local /\ height' = height + 1
        /\ outbox' \in {outbox, outbox \o msgs}
        /\ pc' = IF height' < bulkEnd /\ ~closed THEN "block" ELSE "idle"
        /\ UNCHANGED <<chain, file, posted, closed, writer, loop, local, batchInfos, msgs>>
    BY <1>11, Zenon DEF Commit
  <2>2. /\ height < bulkEnd /\ Len(batchInfos) > 0 /\ local.start > 0
        /\ height + 1 \in 1..Len(Blocks) /\ height + 1 <= top
    BY <1>1, <1>3, <2>1, Zenon DEF Booting, Handling
  <2>3. outbox' \in Seq(Messages) /\ Len(outbox') >= Len(outbox) /\ Len(outbox') \in Nat
    <3>1. /\ outbox \o msgs \in Seq(Messages)
          /\ Len(outbox \o msgs) = Len(outbox) + Len(msgs)
      BY <1>1, ConcatFacts, Zenon
    <3>2. Len(outbox) \in Nat /\ Len(msgs) \in Nat
      BY <1>1, SeqFacts, Zenon
    <3> QED
      <4>1. CASE outbox' = outbox
        BY <1>1, <3>2, <4>1, SMTT(30)
      <4>2. CASE outbox' = outbox \o msgs
        BY <3>1, <3>2, <4>2
      <4> QED
        BY <2>1, <4>1, <4>2, Zenon
  <2>4. posted' \in 0..Len(outbox')
    <3>1. Len(outbox) \in Nat /\ posted \in 0..Len(outbox)
      BY <1>1, SeqFacts, Zenon DEF TypeInv
    <3> QED
      BY <2>1, <2>3, <3>1
  <2>5. /\ pc' \in Steps /\ pc' \notin Booting /\ pc' \notin Switching
        /\ pc' \notin Handling /\ (pc' = "block" => height' < bulkEnd)
    BY <2>1, Zenon DEF Steps, Booting, Handling, Switching
  <2>6. height + 1 \in 0..top /\ height + 1 \in 0..Len(Blocks)
    BY <1>0, <2>2
  <2>7. local.start <= Len(Blocks) + 1
    BY Zenon DEF TypeInv
  <2> QED
    BY <1>1, <2>1, <2>2, <2>3, <2>4, <2>5, <2>6, <2>7, Zenon DEF TypeInv, chain, loop
<1>12. CASE switchWait
  <2>1. CASE closed /\ Return /\ UNCHANGED file
    BY <1>4, <1>12, <2>1, Zenon DEF switchWait, Return, memory, loop, disk, Booting
  <2>2. CASE ~closed
    <3>1. /\ pc = "switch" /\ pc' = "switchEmpty" /\ writer' = "closed"
          /\ file' = [file EXCEPT !.torn = FALSE]
          /\ UNCHANGED <<chain, synced, saved, outbox, posted, closed, height, loop, local,
                         batchInfos, msgs>>
      BY <1>12, <2>2, Zenon DEF switchWait
    <3>2. file' \in Files
      BY <1>1, <3>1, FileTypes, Zenon
    <3> QED
      BY <1>1, <3>1, <3>2, Zenon DEF TypeInv, chain, loop, Steps, Booting, Handling, Switching
  <2> QED
    BY <1>12, <2>1, <2>2, Zenon DEF switchWait
<1>13. CASE switchEmpty
  <2>1. CASE closed /\ Return /\ UNCHANGED file
    BY <1>4, <1>13, <2>1, Zenon DEF switchEmpty, Return, memory, loop, disk, Booting
  <2>2. CASE ~closed
    <3>1. /\ pc = "switchEmpty" /\ pc' = "switchSave" /\ file' = EmptyFile
          /\ UNCHANGED <<chain, synced, saved, outbox, posted, memory>>
      BY <1>13, <2>2, Zenon DEF switchEmpty
    <3> QED
      BY <1>1, <1>2, <3>1, Zenon DEF TypeInv, chain, memory, loop, Steps, Booting, Handling, Switching
  <2> QED
    BY <1>13, <2>1, <2>2, Zenon DEF switchEmpty
<1>14. CASE switchSave
  <2>1. /\ pc = "switchSave" /\ pc' = "switchSynced"
        /\ local' = InfoAt(batchInfos[2].l2 + 1, local.last) /\ saved' = local'
        /\ UNCHANGED <<chain, synced, file, outbox, posted, closed, writer, height, loop,
                       batchInfos, msgs>>
    BY <1>14, Zenon DEF switchSave
  <2>2. Len(batchInfos) > 1
    BY <1>1, <2>1, Zenon DEF Switching
  <2>3. batchInfos[2].l2 \in Nat /\ batchInfos[2].l2 <= top
    <3>1. 2 \in 1..Len(batchInfos)
      BY <1>0, <2>2
    <3> QED
      BY <1>0, <3>1, Zenon DEF TypeInv
  <2>4. local' \in LocalInfos /\ local'.start = batchInfos[2].l2 + 1
    <3>1. batchInfos[2].l2 + 1 \in Nat /\ local.last \in Nat
      BY <1>0, <2>3
    <3> QED
      BY <2>1, <3>1, NewFacts, Zenon
  <2>5. local'.start > 0 /\ local'.start <= Len(Blocks) + 1
    BY <1>0, <2>3, <2>4, SMTT(30)
  <2>6. /\ pc' \in Steps /\ pc' \notin Booting /\ pc' \in Switching
        /\ pc' \notin Handling \cup {"block"} /\ Len(batchInfos) > 0
    BY <1>1, <2>1, Zenon DEF Steps, Booting, Handling, Switching
  <2> QED
    BY <1>1, <2>1, <2>2, <2>4, <2>5, <2>6, Zenon DEF TypeInv, chain, loop
<1>15. CASE switchSynced
  <2>1. /\ pc = "switchSynced" /\ pc' = "idle" /\ closed' = TRUE /\ synced' = batchInfos[2].l2
        /\ UNCHANGED <<chain, saved, file, outbox, posted, writer, height, loop, local,
                       batchInfos, msgs>>
    BY <1>15, Zenon DEF switchSynced
  <2>2. Len(batchInfos) > 1
    BY <1>1, <2>1, Zenon DEF Switching
  <2>3. batchInfos[2].l2 \in Nat /\ batchInfos[2].l2 <= top
    <3>1. 2 \in 1..Len(batchInfos)
      BY <1>0, <2>2
    <3> QED
      BY <1>0, <3>1, Zenon DEF TypeInv
  <2>4. batchInfos[2].l2 \in 0..top
    BY <1>0, <2>3
  <2> QED
    BY <1>1, <2>1, <2>2, <2>4, Zenon DEF TypeInv, chain, loop, Steps, Booting, Handling, Switching
<1>16. CASE HandlerFails
  <2>1. pc \notin Booting /\ Return /\ UNCHANGED <<chain, disk>>
    BY <1>16, Zenon DEF HandlerFails, Booting
  <2> QED
    BY <1>4, <2>1, Zenon DEF Return, memory, loop
<1> QED
  BY <1>5, <1>6, <1>7, <1>8, <1>9, <1>10, <1>11, <1>12, <1>13, <1>14, <1>15, <1>16, Zenon DEF Handler

(* The types hold.                                                         *)
LEMMA TypeInvariant == Spec => []TypeInv
<1>1. TypeInv /\ [Next]_vars => TypeInv'
  <2> SUFFICES ASSUME TypeInv, [Next]_vars PROVE TypeInv'
    BY Zenon
  <2>1. CASE UNCHANGED vars
    BY <2>1, Zenon DEF vars, chain, disk, memory, loop, TypeInv
  <2> QED
    BY <2>1, TypeChains, TypeStarts, TypeHandler, Zenon DEF Next
<1> QED
  BY <1>1, TypeInit, PTL DEF Spec

(* The batch submitter is type correct, for any blocks, batch infos,       *)
(* limits and faults.                                                      *)
THEOREM BatchTyped == Spec => []TypeOK
<1>1. TypeInv => TypeOK
  BY DEF TypeInv, TypeOK, Running, Booting, Files
<1> QED
  BY <1>1, TypeInvariant, PTL

-----------------------------------------------------------------------------
(* Heights and the local batch info.                                       *)

(* Where the handler ends without a commit, the heights are as they were.  *)
LEMMA PlaceReturn ==
  ASSUME TypeInv, PlaceInv, pc \notin {"down", "idle", "switchSynced"}, pc' = "idle",
         UNCHANGED <<synced, saved, height>>
  PROVE  PlaceInv'
<1>1. /\ saved.start <= height + 1
      /\ synced # 0 => saved.start <= synced + 1
      /\ synced # 0 /\ saved.end # 0 => saved.end = synced
      /\ saved.end # 0 => synced # 0 /\ height = synced
      /\ (synced # 0 /\ height = synced) \/ height + 1 = saved.start
  BY Zenon DEF PlaceInv, Stopped
<1> QED
  BY <1>1, Zenon DEF PlaceInv, Stopped, Handling

(* Every step keeps the heights in their places.                           *)
LEMMA PlaceStep ==
  ASSUME TypeInv, PlaceInv, [Next]_vars
  PROVE  PlaceInv'
<1>0. /\ synced \in Nat /\ height \in Nat /\ saved.start \in Nat /\ saved.end \in Nat
      /\ local.start \in Nat /\ local.end \in Nat /\ saved.last \in Nat /\ local.last \in Nat
      /\ Len(batchInfos) \in Nat
      /\ \A i \in 1..Len(batchInfos) : batchInfos[i].l2 \in Nat
  BY TypeFacts, Zenon
<1>00. ASSUME UNCHANGED <<synced, saved, height, pc, local>>, closed' = closed,
              Len(batchInfos) > 1 => batchInfos'[2] = batchInfos[2]
       PROVE  PlaceInv'
  <2>1. pc \in Switching => Len(batchInfos) > 1
    BY Zenon DEF TypeInv
  <2> QED
    BY <1>00, <2>1, ZenonT(40) DEF PlaceInv, Stopped, Switching
<1>1. CASE UNCHANGED vars
  BY <1>1, <1>00, Zenon DEF vars, chain, disk, memory, loop
<1>2. CASE L2Block \/ Post
  BY <1>2, <1>00, Zenon DEF L2Block, Post, chain, disk, memory, loop
<1>3. ASSUME NEW info \in NewInfos, L1UpdateBatchInfo(info) PROVE PlaceInv'
  BY <1>3, <1>00, Zenon DEF L1UpdateBatchInfo, chain, disk, memory, loop
<1>4. CASE HostEvent
  <2>1. Len(batchInfos) > 1 => batchInfos'[2] = batchInfos[2]
    <3>0. seen + 1 \in 1..Len(hostInfos)
      <4>1. seen \in Nat /\ Len(hostInfos) \in Nat /\ seen < Len(hostInfos)
        BY <1>4, TypeFacts, Zenon DEF HostEvent
      <4> QED
        BY <4>1
    <3>1. batchInfos \in Seq(Infos) /\ hostInfos[seen + 1] \in Infos
      BY <3>0, TypeFacts, Zenon DEF TypeInv
    <3>2. batchInfos' = batchInfos \/ batchInfos' = Append(batchInfos, hostInfos[seen + 1])
      BY <1>4, Zenon DEF HostEvent, UpdateBatchInfo
    <3>4. Len(batchInfos) > 1 => Append(batchInfos, hostInfos[seen + 1])[2] = batchInfos[2]
      <4>1. hostInfos[seen + 1].l2 <= top /\ \A i \in 1..Len(batchInfos) : batchInfos[i].l2 <= top
        BY <3>0, Zenon DEF TypeInv
      <4> QED
        BY <3>1, <4>1, QueueFacts, Zenon
    <3> QED
      BY <3>2, <3>4, Zenon
  <2> QED
    BY <1>4, <1>00, <2>1, Zenon DEF HostEvent, disk, loop
<1>5. CASE Open
  <2>0. synced # 0 => saved.start > 0 /\ saved.start <= synced + 1
    BY Zenon DEF TypeInv, PlaceInv
  <2>1. CASE synced = 0 /\ ResetBatchFile(BatchStartHeight)
    <3>1. BatchStartHeight \in Nat /\ BatchStartHeight > 0
      BY BatchAssumption
    <3>2. /\ saved' = InfoAt(BatchStartHeight, saved.last) /\ height' = BatchStartHeight - 1
          /\ pc' = "emptying" /\ synced' = synced
      BY <1>5, <2>1, Zenon DEF ResetBatchFile, Open
    <3>3. saved'.start = BatchStartHeight /\ saved'.end = 0
      BY <1>0, <3>1, <3>2, NewFacts, SMTT(30)
    <3>4. BatchStartHeight <= height' + 1 /\ height' + 1 = BatchStartHeight
      BY <3>1, <3>2
    <3> QED
      BY <2>1, <3>2, <3>3, <3>4, Zenon DEF PlaceInv, Stopped, Handling
  <2>2. CASE synced # 0 /\ ResetBatchFile(saved.start)
    <3>2. /\ saved' = InfoAt(saved.start, saved.last) /\ height' = saved.start - 1
          /\ pc' = "emptying" /\ synced' = synced
      BY <1>5, <2>2, Zenon DEF ResetBatchFile, Open
    <3>3. saved'.start = saved.start /\ saved'.end = 0
      BY <1>0, <3>2, NewFacts
    <3>4. height' + 1 = saved.start /\ saved.start <= height' + 1 /\ saved.start <= synced + 1
      BY <1>0, <2>0, <2>2, <3>2
    <3> QED
      BY <2>2, <3>2, <3>3, <3>4, Zenon DEF PlaceInv, Stopped, Handling
  <2>3. CASE synced # 0 /\ height' = synced /\ pc' = "opened" /\ saved' = saved
    <3>1. synced' = synced /\ (saved.end # 0 => saved.end = synced)
      BY <1>5, <2>3, Zenon DEF Open, PlaceInv
    <3> QED
      BY <1>0, <2>0, <2>3, <3>1, Zenon DEF PlaceInv, Stopped, Handling
  <2> QED
    BY <1>5, <2>1, <2>2, <2>3, Zenon DEF Open
<1>6. CASE EmptyAtStart
  <2>1. pc = "emptying" /\ pc' = "opened" /\ UNCHANGED <<synced, saved, memory>>
    BY <1>6, Zenon DEF EmptyAtStart
  <2> QED
    BY <1>0, <2>1, Zenon DEF PlaceInv, memory, Stopped, Handling
<1>7. CASE InitializeNode
  <2>1. pc = "opened" /\ pc' = "idle" /\ UNCHANGED <<synced, saved, height>>
    BY <1>7, Zenon DEF InitializeNode, disk
  <2> QED
    BY <2>1, PlaceReturn, Zenon
<1>8. CASE InitializeFails \/ Exit \/ Kill \/ ResetHeight
  <2>1. pc' = "down" /\ synced' \in {synced, 0} /\ saved' = saved
    BY <1>8, Zenon DEF InitializeFails, Exit, Kill, ResetHeight, disk
  <2> QED
    BY <1>0, <2>1, Zenon DEF PlaceInv, Stopped, Handling
<1>9. CASE Status
  <2>1. pc = "idle" /\ ~closed /\ pc' = "block" /\ UNCHANGED <<synced, saved, height, closed>>
    BY <1>9, Zenon DEF Status, disk
  <2> QED
    BY <1>0, <2>1, Zenon DEF PlaceInv, Stopped, Handling
<1>10. CASE prepareBatch
  <2>1. pc = "block" /\ UNCHANGED <<synced, saved, height, batchInfos>>
    BY <1>10, Zenon DEF prepareBatch
  <2>2. CASE NextIsReached /\ pc' = "switch"
    BY <1>0, <2>1, <2>2, Zenon DEF PlaceInv, Stopped, Handling, NextIsReached
  <2>3. CASE saved.end = 0 /\ local' = saved /\ pc' = "prepared"
    BY <1>0, <2>1, <2>3, Zenon DEF PlaceInv, Stopped, Handling
  <2>4. CASE saved.end # 0 /\ local' = InfoAt(NextStart, saved.last) /\ pc' = "prepared"
    <3>0. NextStart \in Nat /\ NextStart = height + 1
      BY <1>0 DEF NextStart
    <3>1. InfoAt(NextStart, saved.last).start = NextStart /\ InfoAt(NextStart, saved.last).end = 0
      BY <1>0, <3>0, NewFacts, SMTT(30)
    <3>2. local'.start = height + 1 /\ local'.end = 0
      BY <2>4, <3>0, <3>1, Zenon
    <3> QED
      BY <1>0, <2>1, <2>4, <3>2, Zenon DEF PlaceInv, Stopped, Handling
  <2>5. CASE pc' = "idle"
    BY <2>1, <2>5, PlaceReturn, Zenon
  <2> QED
    BY <1>10, <2>2, <2>3, <2>4, <2>5, Zenon DEF prepareBatch
<1>11. ASSUME pc \in Handling \cup {"switch", "switchEmpty"}, Return, UNCHANGED <<synced, saved>>
       PROVE  PlaceInv'
  BY <1>11, PlaceReturn, Zenon DEF Return, Handling
<1>12. CASE handleBatch
  <2>1. CASE pc' = "written" /\ UNCHANGED memory
    BY <1>0, <1>12, <2>1, Zenon DEF handleBatch, PlaceInv, memory, Stopped, Handling
  <2>2. CASE Return
    BY <1>11, <1>12, <2>2, Zenon DEF handleBatch, Handling
  <2> QED
    BY <1>12, <2>1, <2>2, Zenon DEF handleBatch
<1>13. CASE measureBatch
  <2>1. CASE closed /\ Return
    BY <1>11, <1>13, <2>1, Zenon DEF measureBatch, Handling, disk
  <2>2. CASE ~closed
    <3>1. pc = "written" /\ UNCHANGED <<synced, saved, height, closed>> /\ local \in LocalInfos
      BY <1>13, <2>2, Zenon DEF measureBatch, disk, TypeInv
    <3>2. Len(file.data) \in Nat
      BY FileTypes, SeqFacts, Zenon DEF TypeInv
    <3>3. CASE local' = [local EXCEPT !.size = Len(file.data)] /\ pc' = "staged"
      <4>1. local'.start = local.start /\ local'.end = local.end
        BY <3>1, <3>2, <3>3, SizedFacts, Zenon
      <4> QED
        BY <1>0, <3>1, <3>3, <4>1, Zenon DEF PlaceInv, Stopped, Handling
    <3>4. CASE /\ local' = Ended(local, Len(file.data), height + 1, Blocks[height + 1].time)
               /\ pc' = "finalize"
      <4> DEFINE n == Len(file.data)
                 h == height + 1
                 t == Blocks[height + 1].time
      <4>1. n \in Nat /\ h \in Nat /\ t \in Nat
        <5>1. height + 1 \in 1..Len(Blocks)
          <6>1. /\ height < bulkEnd /\ bulkEnd \in 0..latest /\ latest \in 0..top
                /\ top \in 1..Len(Blocks)
            BY <3>1, Zenon DEF TypeInv, Handling
          <6>2. Len(Blocks) \in Nat
            BY BatchAssumption, Zenon
          <6> QED
            BY <1>0, <6>1, <6>2, SMTT(30)
        <5>2. Blocks[height + 1].time \in Nat
          BY <5>1, BatchAssumption, Zenon
        <5> QED
          BY <1>0, <3>2, <5>2
      <4>2. local' = Ended(local, n, h, t)
        BY <3>4, Zenon
      <4> HIDE DEF n, h, t
      <4>3. local'.start = local.start /\ local'.end = h
        BY <3>1, <4>1, <4>2, EndedFacts
      <4> QED
        BY <1>0, <3>1, <3>4, <4>3, Zenon DEF PlaceInv, Stopped, Handling, h
    <3> QED
      BY <1>13, <2>2, <3>3, <3>4, Zenon DEF measureBatch, Ended
  <2> QED
    BY <1>13, <2>1, <2>2, Zenon DEF measureBatch
<1>14. CASE writeCommit
  <2>1. CASE pc' = "final" /\ UNCHANGED <<closed, height, local>>
    BY <1>0, <1>14, <2>1, Zenon DEF writeCommit, PlaceInv, Stopped, Handling
  <2>2. CASE Return
    BY <1>11, <1>14, <2>2, Zenon DEF writeCommit, Handling
  <2> QED
    BY <1>14, <2>1, <2>2, Zenon DEF writeCommit
<1>15. CASE createBatchMsgs
  <2>1. CASE closed /\ Return
    BY <1>11, <1>15, <2>1, Zenon DEF createBatchMsgs, Handling, disk
  <2>2. CASE ~closed
    <3>1. /\ pc = "final" /\ pc' = "staged" /\ UNCHANGED <<synced, saved, height, closed>>
          /\ local' = [local EXCEPT !.size = Len(file.data)] /\ local \in LocalInfos
      BY <1>15, <2>2, Zenon DEF createBatchMsgs, disk, TypeInv
    <3>2. Len(file.data) \in Nat
      BY FileTypes, SeqFacts, Zenon DEF TypeInv
    <3>3. local'.start = local.start /\ local'.end = local.end
      BY <3>1, <3>2, SizedFacts, Zenon
    <3> QED
      BY <1>0, <3>1, <3>3, Zenon DEF PlaceInv, Stopped, Handling
  <2> QED
    BY <1>15, <2>1, <2>2, Zenon DEF createBatchMsgs
<1>16. CASE Commit
  <2>1. /\ pc = "staged" /\ synced' = height + 1 /\ saved' = local /\ height' = height + 1
        /\ pc' \in {"block", "idle"}
    BY <1>16, Zenon DEF Commit
  <2>2. /\ saved.start <= height + 1 /\ local.end \in {0, height + 1}
        /\ local.start = IF saved.end = 0 THEN saved.start ELSE height + 1
    BY <2>1, Zenon DEF PlaceInv, Handling
  <2>3. /\ height + 1 # 0 /\ local.start <= height + 1 /\ local.start <= (height + 1) + 1
        /\ local.end # 0 => local.end = height + 1
    BY <1>0, <2>2
  <2> QED
    BY <2>1, <2>3, Zenon DEF PlaceInv, Stopped, Handling
<1>17. CASE switchWait \/ switchEmpty
  <2>1. CASE Return
    BY <1>11, <1>17, <2>1, Zenon DEF switchWait, switchEmpty
  <2>2. CASE /\ pc' \in {"switchEmpty", "switchSave"}
             /\ UNCHANGED <<closed, height, batchInfos>>
    <3>1. pc \in {"switch", "switchEmpty"} /\ UNCHANGED <<synced, saved>>
      BY <1>17, Zenon DEF switchWait, switchEmpty
    <3> QED
      BY <2>2, <3>1, Zenon DEF PlaceInv, Stopped, Handling
  <2> QED
    BY <1>17, <2>1, <2>2, Zenon DEF switchWait, switchEmpty, memory
<1>18. CASE switchSave
  <2>1. /\ pc = "switchSave" /\ pc' = "switchSynced"
        /\ saved' = InfoAt(batchInfos[2].l2 + 1, local.last)
        /\ UNCHANGED <<synced, height, batchInfos>>
    BY <1>18, Zenon DEF switchSave
  <2>2. 2 \in 1..Len(batchInfos)
    <3>1. Len(batchInfos) > 1
      BY <2>1, Zenon DEF TypeInv, Switching
    <3> QED
      BY <1>0, <3>1
  <2>3. batchInfos[2].l2 \in Nat /\ batchInfos[2].l2 < saved.start
    BY <1>0, <2>1, <2>2, Zenon DEF PlaceInv
  <2>4. saved'.start = batchInfos[2].l2 + 1 /\ saved'.end = 0
    <3>1. batchInfos[2].l2 + 1 \in Nat /\ local.last \in Nat
      BY <1>0, <2>3
    <3> QED
      BY <2>1, <3>1, NewFacts, Zenon
  <2>5. /\ saved.start <= height + 1 /\ (synced # 0 => saved.start <= synced + 1)
    BY <2>1, Zenon DEF PlaceInv
  <2>6. /\ batchInfos[2].l2 + 1 <= height + 1
        /\ synced # 0 => batchInfos[2].l2 + 1 <= synced + 1
    BY <1>0, <2>3, <2>5
  <2> QED
    BY <2>1, <2>4, <2>6, Zenon DEF PlaceInv, Stopped, Handling
<1>19. CASE switchSynced
  <2>1. /\ pc = "switchSynced" /\ pc' = "idle" /\ closed' = TRUE /\ synced' = batchInfos[2].l2
        /\ UNCHANGED <<saved, height, batchInfos>>
    BY <1>19, Zenon DEF switchSynced
  <2>2. 2 \in 1..Len(batchInfos)
    <3>1. Len(batchInfos) > 1
      BY <2>1, Zenon DEF TypeInv, Switching
    <3> QED
      BY <1>0, <3>1
  <2>3. batchInfos[2].l2 \in Nat
    BY <1>0, <2>2, Zenon
  <2>4. saved.start <= height + 1 /\ saved.start = batchInfos[2].l2 + 1 /\ saved.end = 0
    BY <2>1, Zenon DEF PlaceInv
  <2>5. batchInfos[2].l2 + 1 <= batchInfos[2].l2 + 1
    BY <2>3
  <2> QED
    BY <2>1, <2>4, <2>5, Zenon DEF PlaceInv, Stopped, Handling
<1>20. CASE HandlerFails
  BY <1>11, <1>20, Zenon DEF HandlerFails, disk, Handling
<1>21. CASE Close
  <2>1. ~Stopped /\ UNCHANGED <<synced, saved, height, pc, local, batchInfos>>
    BY <1>21, Zenon DEF Close, Running, Stopped
  <2> QED
    BY <2>1, ZenonT(40) DEF PlaceInv, Stopped
<1> QED
  BY ZenonT(40), <1>1, <1>2, <1>3, <1>4, <1>5, <1>6, <1>7, <1>8, <1>9, <1>10, <1>12, <1>13, <1>14, <1>15,
     <1>16, <1>17, <1>18, <1>19, <1>20, <1>21 DEF Next, Start, Handler

(* The heights are in their places.                                        *)
LEMMA PlaceInvariant == Spec => []PlaceInv
<1>1. Init => PlaceInv
  BY Zenon DEF Init, PlaceInv, InfoAt, Stopped, Handling
<1>2. TypeInv /\ PlaceInv /\ [Next]_vars => PlaceInv'
  BY PlaceStep, Zenon
<1> QED
  BY <1>1, <1>2, TypeInvariant, PTL DEF Spec

-----------------------------------------------------------------------------
(* Headers.                                                                *)

(* A step leaves the headers to commit as the handler made them.           *)
LEMMA HeaderStep ==
  ASSUME TypeInv, PlaceInv, HeaderInv, [Next]_vars
  PROVE  HeaderInv'
<1> USE DEF HeaderInv
<1>0. /\ Len(batchInfos) \in Nat /\ height \in Nat /\ local.end \in Nat
      /\ msgs \in Seq(Messages) /\ local \in LocalInfos /\ file \in Files
  BY TypeFacts, Zenon DEF TypeInv
<1>1. CASE UNCHANGED vars
  BY <1>1, Zenon DEF vars, chain, disk, memory
<1>2. CASE L2Block \/ Post \/ Close \/ \E info \in NewInfos : L1UpdateBatchInfo(info)
  BY <1>2, Zenon DEF L2Block, Post, Close, L1UpdateBatchInfo, chain, disk, memory
<1>3. CASE HostEvent
  <2>1. UNCHANGED <<pc, msgs, local, outbox>>
    BY <1>3, Zenon DEF HostEvent, disk
  <2>2. batchInfos' = UpdateBatchInfo(batchInfos, hostInfos[seen + 1]) /\ seen < Len(hostInfos)
    BY <1>3, Zenon DEF HostEvent
  <2>3. batchInfos \in Seq(Infos) /\ Len(batchInfos) > 0
    BY <1>3, Zenon DEF HostEvent, Running, TypeInv, Booting
  <2>4. seen + 1 \in 1..Len(hostInfos) /\ hostInfos \in Seq(Infos)
    <3>1. seen \in Nat /\ Len(hostInfos) \in Nat
      BY TypeFacts, Zenon
    <3>2. seen + 1 \in 1..Len(hostInfos)
      BY <2>2, <3>1
    <3> QED
      BY <3>2, Zenon DEF TypeInv
  <2>5. hostInfos[seen + 1] \in Infos
    BY <2>4, SeqFacts, Zenon
  <2>6. batchInfos'[1] = batchInfos[1]
    <3>1. Append(batchInfos, hostInfos[seen + 1])[1] = batchInfos[1]
      <4>1. hostInfos[seen + 1].l2 <= top /\ \A i \in 1..Len(batchInfos) : batchInfos[i].l2 <= top
        BY <2>4, Zenon DEF TypeInv
      <4> QED
        BY <2>3, <2>5, <4>1, QueueFacts, Zenon
    <3> QED
      BY <2>2, <3>1, Zenon DEF UpdateBatchInfo
  <2> QED
    BY <2>1, <2>6, Zenon
<1>4. CASE Open \/ EmptyAtStart \/ InitializeNode \/ InitializeFails \/ Status \/ Exit \/ Kill \/ ResetHeight
  BY <1>4, Zenon DEF Open, ResetBatchFile, EmptyAtStart, InitializeNode, InitializeFails, Status, Exit, Kill,
              ResetHeight, chain, disk, memory
<1>5. CASE HandlerFails
  BY <1>5, Zenon DEF HandlerFails, Return, disk
<1>6. CASE prepareBatch \/ handleBatch \/ switchWait \/ switchEmpty \/ switchSave \/ switchSynced
  <2>1. /\ outbox' = outbox
        /\ pc' \in {"idle", "prepared", "written", "switch", "switchEmpty", "switchSave",
                    "switchSynced"}
    BY <1>6, Zenon DEF prepareBatch, handleBatch, switchWait, switchEmpty, switchSave, switchSynced,
                Return
  <2> QED
    BY <2>1, Zenon
<1>7. CASE measureBatch
  <2>1. outbox' = outbox
    BY <1>7, Zenon DEF measureBatch, disk
  <2>2. CASE pc' = "idle"
    BY <2>1, <2>2, Zenon
  <2>3. CASE pc' # "idle"
    <3>1. /\ pc = "written" /\ msgs' \in {GenesisMsgs, <<>>}
          /\ \/ pc' = "finalize"
             \/ pc' = "staged" /\ local' = [local EXCEPT !.size = Len(file.data)]
      BY <1>7, <2>3, Zenon DEF measureBatch, Return
    <3>2. local.end = 0 /\ batchInfos \in Seq(Infos) /\ Len(batchInfos) > 0 /\ Len(file.data) \in Nat
      BY <1>0, <3>1, FileTypes, SeqFacts, Zenon DEF PlaceInv, TypeInv, Booting
    <3>3. \A i \in 1..Len(msgs') : msgs'[i].type # "header"
      <4>1. /\ GenesisMsgs \in Seq(Messages)
            /\ \A i \in DOMAIN GenesisMsgs : GenesisMsgs[i].type # "header"
        BY <3>2, GenesisTypes, Zenon
      <4>2. DOMAIN GenesisMsgs = 1..Len(GenesisMsgs)
        BY <4>1, SeqFacts, Zenon
      <4>3. \A i \in 1..Len(<<>>) : FALSE
        OBVIOUS
      <4> QED
        BY <3>1, <4>1, <4>2, <4>3, Zenon
    <3>4. pc' = "staged" => local'.end = 0
      BY <1>0, <3>1, <3>2, SizedFacts, ZenonT(40)
    <3> QED
      BY <2>1, <3>1, <3>3, <3>4, Zenon
  <2> QED
    BY <2>2, <2>3, Zenon
<1>8. CASE writeCommit
  BY <1>8, Zenon DEF writeCommit, Return
<1>9. CASE createBatchMsgs
  <2>1. outbox' = outbox
    BY <1>9, Zenon DEF createBatchMsgs, disk
  <2>2. CASE pc' = "idle"
    BY <2>1, <2>2, Zenon
  <2>3. CASE pc' # "idle"
    <3>1. /\ pc = "final" /\ msgs' = msgs \o BatchMsgs /\ pc' = "staged" /\ batchInfos' = batchInfos
          /\ local' = [local EXCEPT !.size = Len(file.data)]
      BY <1>9, <2>3, Zenon DEF createBatchMsgs, Return
    <3>2. local.end = height + 1 /\ batchInfos \in Seq(Infos) /\ Len(batchInfos) > 0 /\ Len(file.data) \in Nat
      BY <1>0, <3>1, FileTypes, SeqFacts, Zenon DEF PlaceInv, TypeInv, Booting
    <3>3. local'.start = local.start /\ local'.end = local.end /\ local.end # 0
      <4>1. height + 1 # 0
        BY <1>0, SMTT(30)
      <4> QED
        BY <1>0, <3>1, <3>2, <4>1, SizedFacts, Zenon
    <3> DEFINE range == [da |-> batchInfos[1], start |-> local.start, end |-> local.end]
               b == BatchMsgs
    <3>4. /\ b \in Seq(Messages) /\ Len(b) > 0
          /\ \A i \in 1..Len(b) : b[i].type = "header" <=> i = 1
          /\ b[1].range = range
      BY <1>0, <3>2, BatchMsgsFacts, SMTT(30) DEF Announced
    <3> HIDE DEF b
    <3>5. /\ Len(msgs') = Len(msgs) + Len(b) /\ Len(msgs) \in Nat /\ Len(b) \in Nat
          /\ \A i \in 1..Len(msgs) : msgs'[i] = msgs[i]
          /\ \A i \in 1..Len(b) : msgs'[Len(msgs) + i] = b[i]
      <4>1. msgs' = msgs \o b
        BY <3>1, Zenon DEF b
      <4> QED
        BY <1>0, <3>4, <4>1, ConcatFacts, SeqFacts
    <3>6. \A i \in 1..Len(msgs) : msgs[i].type # "header"
      BY <3>1, Zenon
    <3>7. ASSUME NEW i \in 1..Len(msgs'), msgs'[i].type = "header" PROVE msgs'[i].range = range
      <4>1. PICK k \in 1..Len(b) : i = Len(msgs) + k
        <5>1. i \notin 1..Len(msgs)
          BY <3>5, <3>6, <3>7, Zenon
        <5>2. i - Len(msgs) \in 1..Len(b) /\ i = Len(msgs) + (i - Len(msgs))
          BY <3>5, <5>1
        <5> QED
          BY <5>2, Zenon
      <4> QED
        BY <3>4, <3>5, <3>7, <4>1, Zenon
    <3>8. Len(msgs) + 1 \in 1..Len(msgs') /\ msgs'[Len(msgs) + 1].type = "header"
      <4>1. 1 \in 1..Len(b) /\ Len(msgs) + 1 \in 1..(Len(msgs) + Len(b))
        BY <3>4, <3>5
      <4> QED
        BY <3>4, <3>5, <4>1, Zenon
    <3> QED
      BY <2>1, <3>1, <3>3, <3>7, <3>8, Zenon
  <2> QED
    BY <2>2, <2>3, Zenon
<1>10. CASE Commit
  <2>1. Disabled => outbox' = outbox
    BY <1>10, Zenon DEF Commit, DANode
  <2>2. pc' \in {"block", "idle"}
    BY <1>10, Zenon DEF Commit
  <2> QED
    BY <2>1, <2>2, Zenon
<1> QED
  BY <1>1, <1>2, <1>3, <1>4, <1>5, <1>6, <1>7, <1>8, <1>9, <1>10, Zenon DEF Next, Start, Handler
=============================================================================
