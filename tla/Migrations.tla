----------------------------- MODULE Migrations -----------------------------
(***************************************************************************)
(* The migrations of the executor's database (executor/db.go), which       *)
(* opinitd migrate applies one at a time to a stopped bot.                 *)
(*                                                                         *)
(* The database is a function from keys, which are sequences of parts, to  *)
(* values.  The JSON of a tree is a record: the siblings of a tree were    *)
(* height_data before v0.1.11 and are sibs (last_siblings) since, and a    *)
(* reader finds nothing under the other name.                              *)
(***************************************************************************)
EXTENDS Merkle

NoHash == 0

(* Keys.                                                                   *)
PrefixedWithdrawalSequence(seq) == <<"child", "withdrawal_sequence", seq>>
PrefixedWithdrawalAddressSequence(address, seq) == <<"child", "withdrawal_address", address, seq>>
PrefixedWorkingTreeKey(version) == <<"child", "working_tree", version>>
PrefixedFinalizedTreeKey(start) == <<"child", "finalized_tree", start>>
PrefixedNodeKey(node) == <<"child", "node">> \o node

Table(keys, Key(_), Val(_)) ==
  [k \in {Key(x) : x \in keys} |-> Val(CHOOSE x \in keys : Key(x) = k)]
Under(db, prefix) == {k \in DOMAIN db : IsPrefix(prefix, k)}
Deleted(db, keys) == Restrict(db, DOMAIN db \ keys)

(* Every key under a prefix is set under another one and deleted.          *)
Moved(db, from, to) ==
  Table(Under(db, from), LAMBDA k : to \o SubSeq(k, Len(from) + 1, Len(k)), LAMBDA k : db[k])
  @@ Deleted(db, Under(db, from))

(* The prefix of the withdrawals is a prefix of the prefixes made later.   *)
WithdrawalKeys(db) ==
  UNION {Under(db, <<"child", p>>) : p \in {"withdrawal", "withdrawal_sequence", "withdrawal_address"}}
SequenceKeys(db) == {k \in Under(db, <<"child", "withdrawal">>) : Len(k) = 3}

-----------------------------------------------------------------------------
(* v0.1.5: the withdrawals of an address are numbered from 1.              *)
Migration015(db) ==
  LET Nth(k) == Cardinality({j \in SequenceKeys(db) : db[j].to = db[k].to /\ j[3] <= k[3]})
  IN  Table(SequenceKeys(db), LAMBDA k : PrefixedWithdrawalAddressSequence(db[k].to, Nth(k)),
            LAMBDA k : k[3]) @@ db

(* v0.1.10: the keys by address end in the sequence.                       *)
(* Mutant: the numbered keys of v0.1.5 stay.                               *)
Migration0110Keeping(db) ==
  Table(SequenceKeys(db), LAMBDA k : PrefixedWithdrawalAddressSequence(db[k].to, k[3]),
        LAMBDA k : k[3]) @@ db

Migration0110(db) ==
  Table(SequenceKeys(db), LAMBDA k : PrefixedWithdrawalAddressSequence(db[k].to, k[3]),
        LAMBDA k : k[3]) @@ Deleted(db, WithdrawalKeys(db) \ SequenceKeys(db))

-----------------------------------------------------------------------------
(* v0.1.9: the start leaves counted the leaves that fill up a tree.        *)

UnmarshalTreeInfo(v) ==
  NewTreeInfo(IF "version" \in DOMAIN v THEN v.version ELSE 0, v.index, v.count, v.start,
              IF "sibs" \in DOMAIN v THEN v.sibs ELSE <<>>, v.done)

MerkleKey(key) == <<"child", "merkle">> \o Tail(key)

(* The finalized trees are made again from the working trees, in the order *)
(* of their versions; from the first wrong start leaf on all are written.  *)
Migration019_1(db) ==
  LET trees == Under(db, <<"child", "merkle", "working_tree">>)
      Fix(s, k) ==
        LET old == UnmarshalTreeInfo(db[k])
            change == s.change \/ old.start # s.next
            tree == IF change THEN [old EXCEPT !.start = s.next] ELSE old
            height == Height(tree.count)
            root == IF height \in DOMAIN tree.sibs THEN tree.sibs[height] ELSE <<>>
            saved == IF change THEN (k :> tree) @@ s.db ELSE s.db
        IN  IF tree.done /\ tree.count # 0
            THEN [change |-> change, next |-> tree.start + tree.count,
                  db |-> MerkleKey(PrefixedFinalizedTreeKey(tree.start)) :>
                           NewFinalizedTreeInfo(tree.index, height, root, tree.count,
                                                [number |-> k[4], hash |-> NoHash]) @@ saved]
            ELSE [change |-> change, next |-> s.next, db |-> saved]
      start == [change |-> FALSE, next |-> 1,
                db |-> Deleted(db, Under(db, <<"child", "merkle", "finalized_tree">>))]
  IN  FoldLeft(Fix, start, SetToSortSeq(trees, LAMBDA j, k : j[4] < k[4])).db

(* Waits for the header of the next block, which has the hash.             *)
Migration019_2(db, blockHash) ==
  [k \in DOMAIN db |->
    IF IsPrefix(<<"child", "merkle", "finalized_tree">>, k) /\ db[k].extra.hash = NoHash
    THEN [db[k] EXCEPT !.extra.hash = blockHash[db[k].extra.number]] ELSE db[k]]

-----------------------------------------------------------------------------
(* v0.1.11: other prefixes, synced heights, and trees with a version.      *)

MigrateTree(v, version) ==
  NewTreeInfo(version, v.index, v.count, v.start,
              IF "height_data" \in DOMAIN v THEN v.height_data ELSE <<>>, v.done)

SyncedHeights(db) ==
  LET Old(n) == <<n, "last_processed_block_height">>
  IN  Table({n \in {"host", "child", "batch", "da"} : Old(n) \in DOMAIN db},
            LAMBDA n : <<n, "synced_height">>, LAMBDA n : db[Old(n)]) @@ db

(* Keys under the old prefix go by their length.                           *)
SplitWithdrawals(db) ==
  LET old == Under(db, <<"child", "withdrawal">>)
      To(k) == <<"child", IF Len(k) = 3 THEN "withdrawal_sequence" ELSE "withdrawal_address">>
                 \o SubSeq(k, 3, Len(k))
  IN  Table(old, To, LAMBDA k : db[k]) @@ Deleted(db, old)

Migration0111(db) ==
  LET merkle == Moved(db, <<"child", "merkle">>, <<"child">>)
      da == Moved(Moved(merkle, <<"da_host">>, <<"da">>), <<"da_celestia">>, <<"da">>)
      split == SplitWithdrawals(SyncedHeights(da))
  IN  [k \in DOMAIN split |->
        IF IsPrefix(<<"child", "working_tree">>, k) THEN MigrateTree(split[k], k[3]) ELSE split[k]]

-----------------------------------------------------------------------------
(* What a child has saved, as the keys and values of this version, and as  *)
(* those of the version before v0.1.5, whose start leaves may be shifted.  *)

CurrentDB(db, heights) ==
  Table(DOMAIN db.working, PrefixedWorkingTreeKey, LAMBDA v : db.working[v])
  @@ Table(DOMAIN db.finalized, PrefixedFinalizedTreeKey, LAMBDA s : db.finalized[s])
  @@ Table(DOMAIN db.nodes, PrefixedNodeKey, LAMBDA n : db.nodes[n])
  @@ Table(DOMAIN db.withdrawals, PrefixedWithdrawalSequence, LAMBDA s : db.withdrawals[s])
  @@ Table(db.byAddress, LAMBDA k : PrefixedWithdrawalAddressSequence(k[1], k[2]), LAMBDA k : k[2])
  @@ Table(DOMAIN heights, LAMBDA n : <<n, "synced_height">>, LAMBDA n : heights[n])

LegacyDB(db, heights, shifted) ==
  LET Filled(tree) ==
        MapThenSumSet(LAMBDA t : 2^Height(t.count) - t.count,
                      {t \in Range(db.working) : t.done /\ t.count # 0 /\ t.index < tree.index})
      LegacyTree(t) ==
        [index |-> t.index, start |-> t.start + (IF shifted THEN Filled(t) ELSE 0),
         count |-> t.count, done |-> t.done, height_data |-> t.sibs]
      Name(n) == IF n = "da" THEN "da_host" ELSE n
  IN  Table(DOMAIN db.working, LAMBDA v : MerkleKey(PrefixedWorkingTreeKey(v)),
            LAMBDA v : LegacyTree(db.working[v]))
      @@ Table(DOMAIN db.finalized, LAMBDA s : MerkleKey(PrefixedFinalizedTreeKey(s)),
               LAMBDA s : db.finalized[s])
      @@ Table(DOMAIN db.nodes, LAMBDA n : MerkleKey(PrefixedNodeKey(n)), LAMBDA n : db.nodes[n])
      @@ Table(DOMAIN db.withdrawals, LAMBDA s : <<"child", "withdrawal", s>>,
               LAMBDA s : db.withdrawals[s])
      @@ Table(DOMAIN heights, LAMBDA n : <<Name(n), "last_processed_block_height">>,
               LAMBDA n : heights[n])
=============================================================================
