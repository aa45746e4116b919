----------------------------- MODULE IndexTree -----------------------------
(***************************************************************************)
(* The tree that pkg/index/index.go keeps the AuthConfigs in.              *)
(*                                                                         *)
(* A host name is the sequence of its labels, <<"api", "acme", "io">>, and *)
(* a path is that sequence reverted.  A tree is a function: its domain is  *)
(* the set of paths that have a node (the root is <<>>; the labels of all  *)
(* keys start with the root's, which is left out) and it maps a node to    *)
(* the entry stored there, None when there is none.                        *)
(***************************************************************************)
EXTENDS Naturals, Sequences, SequencesExt

CONSTANT None

emptyLabel == ""

wildcard == "*"

newAuthConfigTree == [p \in {<<>>} |-> None]

revertKey(key) == Reverse(key)

(***************************************************************************)
(* The node at the end of the walk from the root that follows the labels   *)
(* of a path for as long as there is a child for the next one.             *)
(***************************************************************************)
longestCommonLabel(tree, path) ==
  LET walked == {n \in 0..Len(path) :
                    \A m \in 0..n : SubSeq(path, 1, m) \in DOMAIN tree}
  IN  SubSeq(path, 1, Max(walked))

(***************************************************************************)
(* The labels that the walk leaves over are joined into a string, and the  *)
(* code compares that string with "": a single empty label is lost.        *)
(***************************************************************************)
noTail(tree, path) ==
  LET depth == Len(longestCommonLabel(tree, path))
  IN  SubSeq(path, depth + 1, Len(path)) \in {<<>>, <<emptyLabel>>}

(***************************************************************************)
(* The path of the wildcard child of the node that the first n labels of a *)
(* path lead to.                                                           *)
(***************************************************************************)
wildcardAt(path, n) == Append(SubSeq(path, 1, n), wildcard)

(***************************************************************************)
(* Mutant: only the wildcard next to the longest common node is tried.     *)
(***************************************************************************)
getNotClimbing(tree, path) ==
  LET node == longestCommonLabel(tree, path)
      wild == wildcardAt(path, Len(node))
  IN  IF noTail(tree, path) /\ tree[node] # None THEN tree[node]
      ELSE IF wild \in DOMAIN tree THEN tree[wild]
      ELSE None

(***************************************************************************)
(* The entry of the node that matches the path; otherwise the first        *)
(* wildcard met climbing to the root from the longest common node.         *)
(***************************************************************************)
get(tree, path) ==
  LET node  == longestCommonLabel(tree, path)
      wilds == {n \in 0..Len(node) :
                   /\ wildcardAt(path, n) \in DOMAIN tree
                   /\ tree[wildcardAt(path, n)] # None}
  IN  IF noTail(tree, path) /\ tree[node] # None THEN tree[node]
      ELSE IF wilds # {} THEN tree[wildcardAt(path, Max(wilds))]
      ELSE None

(***************************************************************************)
(* The tree with an entry at a path: in the longest common node when the   *)
(* whole path is there, otherwise in the last of the nodes added for the   *)
(* labels that are missing.                                                *)
(***************************************************************************)
set(tree, path, entry) ==
  IF noTail(tree, path)
  THEN [tree EXCEPT ![longestCommonLabel(tree, path)] = entry]
  ELSE [p \in DOMAIN tree \cup Prefixes(path) |->
           IF p = path THEN entry
           ELSE IF p \in DOMAIN tree THEN tree[p]
           ELSE None]

(***************************************************************************)
(* Mutants: whose entry it is is not checked; the node goes too.           *)
(***************************************************************************)
deleteKeysOfAny(tree, id, ks) ==
  [p \in DOMAIN tree |->
     IF \E key \in ks : longestCommonLabel(tree, revertKey(key)) = p THEN None ELSE tree[p]]

deleteKeysAndNodes(tree, id, ks) ==
  [p \in {q \in DOMAIN tree :
            ~\E key \in ks : q # <<>> /\ longestCommonLabel(tree, revertKey(key)) = q} |-> tree[p]]

(***************************************************************************)
(* deleteKey for each key of a set: the entry of the longest common node   *)
(* goes if it belongs to id, whether or not that node is the key's.  Nodes *)
(* are never removed, so the order of the keys does not matter.            *)
(***************************************************************************)
deleteKeys(tree, id, ks) ==
  [p \in DOMAIN tree |->
     IF /\ tree[p] # None
        /\ tree[p].id = id
        /\ \E key \in ks : longestCommonLabel(tree, revertKey(key)) = p
     THEN None
     ELSE tree[p]]

list(tree) == {tree[p] : p \in DOMAIN tree} \ {None}
=============================================================================
