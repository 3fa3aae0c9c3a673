------------------------------- MODULE Merkle -------------------------------
(***************************************************************************)
(* The Merkle tree of the withdrawals (merkle/): leaves are inserted one   *)
(* by one, of every level only the last node is kept in memory, all the    *)
(* nodes go to the database, and a tree is finalized by repeating its last *)
(* leaf until the number of leaves is a power of two.                      *)
(*                                                                         *)
(* A hash is the sequence of the leaves below it.  NodeHash is symmetric,  *)
(* as NewMerkle demands of a node generator, and keeps distinct trees      *)
(* distinct.  A tree is a record; the nodes, the finalized trees (by start *)
(* leaf) and the working trees (by version) of the database are functions. *)
(***************************************************************************)
EXTENDS Integers, Sequences, SequencesExt, FiniteSetsExt, TLC

NodeHash(a, b) == IF a[1] <= b[1] THEN a \o b ELSE b \o a
EmptyRootHash == <<>>

NewTreeInfo(version, index, count, start, sibs, done) ==
  [version |-> version, index |-> index, count |-> count, start |-> start, sibs |-> sibs,
   done |-> done]
NewFinalizedTreeInfo(index, height, root, count, extra) ==
  [index |-> index, height |-> height, root |-> root, count |-> count, extra |-> extra]
NodeKey(index, height, local) == <<index, height, local>>

InitializeWorkingTree(version, index, start) == NewTreeInfo(version, index, 0, start, <<>>, FALSE)

(* Mutant: the next tree starts at the leaf of the finished one.           *)
PrepareWorkingTreeSameStart(tree) ==
  IF tree.done THEN InitializeWorkingTree(tree.version + 1, tree.index + 1, tree.start)
  ELSE [tree EXCEPT !.version = @ + 1]

(* A finished tree is followed by an empty one.                            *)
PrepareWorkingTree(tree) ==
  IF tree.done
  THEN InitializeWorkingTree(tree.version + 1, tree.index + 1, tree.start + tree.count)
  ELSE [tree EXCEPT !.version = @ + 1]

(* The levels a new leaf completes: one per trailing 1 of its index.       *)
Carries(i) == CHOOSE k \in 0..i : i % 2^(k + 1) = 2^k - 1

(* r is a tree and the nodes written since.                                *)
InsertLeaf(r, leaf) ==
  LET tree == r.tree
      data[h \in 0..Carries(tree.count)] ==
        IF h = 0 THEN leaf ELSE NodeHash(tree.sibs[h - 1], data[h - 1])
      nodes == [k \in {NodeKey(tree.index, h, tree.count \div 2^h) : h \in DOMAIN data} |-> data[k[2]]]
  IN  [tree |-> [tree EXCEPT !.count = @ + 1, !.sibs = data @@ @],
       nodes |-> nodes @@ r.nodes]

(* Mutant: a single leaf is its own root.                                  *)
HeightOfOne(count) == IF count <= 1 THEN 0 ELSE Min({h \in 1..count : count <= 2^h})

Height(count) == IF count <= 1 THEN count ELSE Min({h \in 1..count : count <= 2^h})

(* Mutant: the nodes above the repeated leaves are not saved.              *)
fillLeavesUnsaved(r) ==
  LET last == r.tree.sibs[0]
      rest == 2^Height(r.tree.count) - r.tree.count
      full == FoldLeft(LAMBDA s, i : InsertLeaf(s, last), r, [i \in 1..rest |-> i])
  IN  [tree |-> [full.tree EXCEPT !.count = r.tree.count], nodes |-> r.nodes]

fillLeaves(r) ==
  LET last == r.tree.sibs[0]
      rest == 2^Height(r.tree.count) - r.tree.count
      full == FoldLeft(LAMBDA s, i : InsertLeaf(s, last), r, [i \in 1..rest |-> i])
  IN  [full EXCEPT !.tree.count = r.tree.count]

(* A tree without leaves has a root but is not among the finalized trees.  *)
FinalizeWorkingTree(r, extra) ==
  LET full == fillLeaves(r)
      tree == full.tree
      height == Height(tree.count)
  IN  IF r.tree.count = 0
      THEN [tree |-> [r.tree EXCEPT !.done = TRUE], nodes |-> r.nodes,
            root |-> EmptyRootHash, finalized |-> <<>>]
      ELSE [tree |-> [tree EXCEPT !.done = TRUE], nodes |-> full.nodes,
            root |-> tree.sibs[height],
            finalized |-> tree.start :>
              NewFinalizedTreeInfo(tree.index, height, tree.sibs[height], tree.count, extra)]

-----------------------------------------------------------------------------
(* The database.                                                           *)

(* The deletions of a key range from a key on (db.Iterate from a start).   *)
Before(map, from) == [k \in {j \in DOMAIN map : j < from} |-> map[k]]
DeleteFutureFinalizedTrees(trees, from) == Before(trees, from)
DeleteFutureWorkingTrees(trees, from) == Before(trees, from)
DeleteFutureNodes(nodes, fromIndex) ==
  [k \in {j \in DOMAIN nodes : j[1] < fromIndex} |-> nodes[k]]

(* Greatest key up to a key: SeekPrevInclusiveKey, 0 for nothing below it. *)
SeekPrev(map, key) == Max({0} \cup {k \in DOMAIN map : k <= key})

Unfinalized == [status |-> "unfinalized"]
Failed == [status |-> "failed"]

(* With trees but none up to the leaf the iterator is before the first     *)
(* key, and the empty value is not a tree.                                 *)
GetProofs(trees, nodes, leaf) ==
  LET start == SeekPrev(trees, leaf)
      t == trees[start]
      Sibling(h) ==
        LET i == (leaf - start) \div 2^h
        IN  NodeKey(t.index, h, IF i % 2 = 0 THEN i + 1 ELSE i - 1)
  IN  IF DOMAIN trees = {} THEN Unfinalized
      ELSE IF start = 0 THEN Failed
      ELSE IF leaf - start >= t.count THEN Unfinalized
      ELSE IF \E h \in 0..(t.height - 1) : Sibling(h) \notin DOMAIN nodes THEN Failed
      ELSE [status |-> "proofs", index |-> t.index, root |-> t.root, extra |-> t.extra,
            proofs |-> [h \in 1..t.height |-> nodes[Sibling(h - 1)]]]
=============================================================================
