----------------------------- MODULE BatchData -----------------------------
(***************************************************************************)
(* What the batch submitter does to the data of a batch: the block         *)
(* conversions that leave out what L1 already holds (data_conversion.go),  *)
(* the division of the batch file and of the genesis file into chunks      *)
(* (batch.go) and the encoding of headers and chunks (types/batch.go).     *)
(*                                                                         *)
(* A block is a sequence of transactions [known, msgs]; known says that    *)
(* the codec decodes it.  The payload of an oracle message is a value,     *)
(* Blank once emptied; a signature of an IBC header is a value or Absent.  *)
(* Bytes are digits of a base, so that a small instance meets the limits.  *)
(***************************************************************************)
EXTENDS Integers, Sequences, FiniteSetsExt, Functions

CONSTANTS
  Byte,        \* number of byte values (256)
  WordLen,     \* bytes of a uint64 (8)
  SumLen,      \* bytes of a checksum (32)
  Blank,       \* an emptied field
  Absent       \* the signature of a validator that did not sign

ASSUME SizesAssumption ==
  /\ Byte \in Nat /\ Byte > 1 /\ WordLen \in Nat /\ WordLen > 0
  /\ SumLen \in Nat /\ SumLen > 0

Last(s) == s[Len(s)]

(* Sequences one after the other, as append makes them of byte slices.     *)
Joined(seqs) ==
  LET upTo[i \in 0..Len(seqs)] == IF i = 0 THEN <<>> ELSE upTo[i - 1] \o seqs[i]
  IN  upTo[Len(seqs)]

-----------------------------------------------------------------------------
(* Conversions of a block.                                                 *)

IsMsg(m, type) == m.type = type
IsExecOf(m, type) == m.type = "Exec" /\ Len(m.msgs) = 1 /\ m.msgs[1].type = type

EmptyPayload(m, type) ==
  CASE IsMsg(m, type) -> [m EXCEPT !.data = Blank]
    [] IsExecOf(m, type) -> [m EXCEPT !.msgs[1].data = Blank]
    [] OTHER -> m

(* Only the first transaction, and only when it has one message.           *)
emptyOracleData(txs) ==
  IF txs = <<>> \/ ~txs[1].known \/ Len(txs[1].msgs) # 1 THEN txs
  ELSE [txs EXCEPT ![1].msgs[1] = EmptyPayload(@, "UpdateOracle")]

(* Only the first transaction, every message.                              *)
emptyRelayOracleData(txs) ==
  IF txs = <<>> \/ ~txs[1].known THEN txs
  ELSE [txs EXCEPT ![1].msgs =
          [i \in DOMAIN @ |-> EmptyPayload(@[i], "RelayOracleData")]]

IndexFunc(sigs, s) ==
  LET found == {i \in DOMAIN sigs : sigs[i] = s}
  IN  IF s = Absent \/ found = {} THEN -1 ELSE Min(found) - 1
SigRef(i) == <<i % Byte, i \div Byte>>

(* A signature that the next L1 block carries becomes its index there.     *)
CompactSigs(sigs, lastCommit) ==
  [i \in DOMAIN sigs |->
    LET at == IndexFunc(lastCommit, sigs[i])
    IN  IF at = -1 THEN [ref |-> <<>>, sig |-> sigs[i]]
        ELSE [ref |-> SigRef(at), sig |-> Absent]]

(* Headers of other chains are left alone.                                 *)
CompactMsg(m, hostChain, lastCommit) ==
  IF m.type = "UpdateClient" /\ m.chain = hostChain
  THEN [m EXCEPT !.sigs = CompactSigs(@, lastCommit[m.height + 1]), !.vals = Blank]
  ELSE m
emptyUpdateClientData(txs, hostChain, lastCommit) ==
  [t \in DOMAIN txs |->
    IF ~txs[t].known THEN txs[t]
    ELSE [txs[t] EXCEPT !.msgs = [i \in DOMAIN @ |-> CompactMsg(@[i], hostChain, lastCommit)]]]

ConvertBlock(txs, hostChain, lastCommit) ==
  emptyUpdateClientData(emptyRelayOracleData(emptyOracleData(txs)),
                        hostChain, lastCommit)

-----------------------------------------------------------------------------
(* Chunks.  finalizeBatch reads the file from offset 0, size after size,   *)
(* until a read returns nothing or less than size.                         *)

ReadAt(bytes, size, i) ==
  SubSeq(bytes, i * size + 1, IF (i + 1) * size < Len(bytes) THEN (i + 1) * size ELSE Len(bytes))

FileChunks(bytes, size) ==
  LET n == Len(bytes) \div size
      short == ReadAt(bytes, size, n)
      full == [i \in 1..n |-> ReadAt(bytes, size, i - 1)]
  IN  IF short = <<>> THEN full ELSE Append(full, short)

GenesisChunks(bytes, size) ==
  LET n == (Len(bytes) + size - 1) \div size
      End(i) == IF i * size > Len(bytes) THEN Len(bytes) ELSE i * size
  IN  [i \in 1..n |-> SubSeq(bytes, (i - 1) * size + 1, End(i))]

-----------------------------------------------------------------------------
(* Encoding.  A word is written with its most significant byte first.      *)

Digit(n, i) == (n \div Byte^(WordLen - i)) % Byte
(* Mutant: the least significant byte is written first.                    *)
WordLittleEndian(n) == [i \in 1..WordLen |-> Digit(n, WordLen + 1 - i)]

Word(n) == [i \in 1..WordLen |-> Digit(n, i)]
Uint64(bytes) ==
  LET value[i \in 0..Len(bytes)] == IF i = 0 THEN 0 ELSE value[i - 1] * Byte + bytes[i]
  IN  value[Len(bytes)]
WordAt(data, i) == Uint64(SubSeq(data, 2 + i * WordLen, 1 + (i + 1) * WordLen))
Drop(data, words) == SubSeq(data, 2 + words * WordLen, Len(data))

Invalid == [ok |-> FALSE]

MarshalBatchDataHeader(start, end, checksums) ==
  <<0>> \o Word(start) \o Word(end) \o Word(Len(checksums)) \o Joined(checksums)

UnmarshalBatchDataHeader(data) ==
  LET sums == Drop(data, 3)
      n == Len(sums) \div SumLen
  IN  IF \/ Len(data) < 1 + 3 * WordLen
         \/ WordAt(data, 0) > WordAt(data, 1)
         \/ Len(sums) % SumLen # 0
         \/ n # WordAt(data, 2)
      THEN Invalid
      ELSE [ok |-> TRUE, start |-> WordAt(data, 0), end |-> WordAt(data, 1),
            checksums |-> [i \in 1..n |-> SubSeq(sums, (i - 1) * SumLen + 1, i * SumLen)]]

MarshalBatchDataChunk(start, end, index, length, chunk) ==
  <<1>> \o Word(start) \o Word(end) \o Word(index) \o Word(length) \o chunk

UnmarshalBatchDataChunk(data) ==
  IF Len(data) < 1 + 4 * WordLen \/ WordAt(data, 0) > WordAt(data, 1) THEN Invalid
  ELSE [ok |-> TRUE, start |-> WordAt(data, 0), end |-> WordAt(data, 1),
        index |-> WordAt(data, 2), length |-> WordAt(data, 3), chunk |-> Drop(data, 4)]

MarshalBatchDataGenesis(index, length, chunk) ==
  <<2>> \o Word(index) \o Word(length) \o chunk

UnmarshalBatchDataGenesis(data) ==
  IF Len(data) < 1 + 2 * WordLen THEN Invalid
  ELSE [ok |-> TRUE, index |-> WordAt(data, 0), length |-> WordAt(data, 1),
        chunk |-> Drop(data, 2)]
=============================================================================
