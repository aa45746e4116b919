------------------------------- MODULE Index -------------------------------
(***************************************************************************)
(* The index of AuthConfigs (authConfigTree of pkg/index/index.go): the    *)
(* tree, and for each resource the keys that were ever set for it.  Every  *)
(* operation holds the lock of the index, so each is one step.             *)
(***************************************************************************)
EXTENDS IndexTree

CONSTANTS
  Ids,      \* the AuthConfig resources (namespace/name)
  Hosts,    \* host names, as sequences of labels
  Configs   \* translated AuthConfigs

ASSUME HostsAreLabels == Hosts \subseteq Seq(STRING) \ {<<>>}
ASSUME NoneIsNoEntry == None \notin [id: Ids, cfg: Configs]

VARIABLES
  tree,  \* authConfigTree.root
  keys   \* authConfigTree.keys

indexVars == <<tree, keys>>

indexEntry == [id: Ids, cfg: Configs]

IndexInit ==
  /\ tree = newAuthConfigTree
  /\ keys = [id \in Ids |-> <<>>]

FindKeys(id) == keys[id]

Get(key) == get(tree, revertKey(key))

Empty == \A id \in Ids : keys[id] = <<>>

(***************************************************************************)
(* Set fails, and changes nothing, when the key has a node and override is *)
(* not asked for, be there an entry in the node or not.                    *)
(*                                                                         *)
(* The code appends a key again each time it is set.  The callers use the  *)
(* first key, membership, and deletions that repeat to no effect, and a    *)
(* second occurrence of a key changes none of these: it is not recorded.   *)
(***************************************************************************)
recordKey(ks, key) == IF Contains(ks, key) THEN ks ELSE Append(ks, key)

Set(id, key, cfg, override) ==
  /\ override \/ ~noTail(tree, revertKey(key))
  /\ tree' = set(tree, revertKey(key), [id |-> id, cfg |-> cfg])
  /\ keys' = [keys EXCEPT ![id] = recordKey(@, key)]

Delete(id) ==
  /\ tree' = deleteKeys(tree, id, ToSet(keys[id]))
  /\ UNCHANGED keys

DeleteKey(id, key) ==
  /\ tree' = deleteKeys(tree, id, {key})
  /\ UNCHANGED keys

(***************************************************************************)
(* The callers only delete keys that FindKeys gave them.                   *)
(***************************************************************************)
IndexNext ==
  \E id \in Ids :
    \/ \E key \in Hosts, cfg \in Configs, override \in BOOLEAN : Set(id, key, cfg, override)
    \/ Delete(id)
    \/ \E key \in ToSet(FindKeys(id)) : DeleteKey(id, key)

IndexSpec == IndexInit /\ [][IndexNext]_indexVars

----------------------------------------------------------------------------
(***************************************************************************)
(* The tree maps paths to entries, and the keys recorded are hosts         *)
(* (index.go, authConfigTree and treeNode).                                *)
(***************************************************************************)
IndexTypeOK ==
  /\ <<>> \in DOMAIN tree
  /\ DOMAIN tree \subseteq Seq(STRING)
  /\ tree \in [DOMAIN tree -> indexEntry \cup {None}]
  /\ keys \in [Ids -> Seq(Hosts)]

(***************************************************************************)
(* Every node is below the nodes of all prefixes of its path (treeNode.set *)
(* makes the whole chain).                                                 *)
(***************************************************************************)
PrefixClosed(t) == \A p \in DOMAIN t : Prefixes(p) \subseteq DOMAIN t

KeysHaveNodes == \A id \in Ids : \A i \in DOMAIN keys[id] : revertKey(keys[id][i]) \in DOMAIN tree

EntriesHaveKeys ==
  \A p \in DOMAIN tree :
    tree[p] # None =>
      \E i \in DOMAIN keys[tree[p].id] : revertKey(keys[tree[p].id][i]) = p

(***************************************************************************)
(* What the operations rely on and keep: every key ever set for a resource *)
(* still has its node, so that deleteKey's walk ends exactly there, and    *)
(* every entry is under a recorded key of its owner, so that Delete finds  *)
(* it (authConfigTree.Set, Delete and DeleteKey).                          *)
(***************************************************************************)
IndexInv ==
  /\ IndexTypeOK
  /\ PrefixClosed(tree)
  /\ KeysHaveNodes
  /\ EntriesHaveKeys

Linked == {p \in DOMAIN tree : tree[p] # None}

(***************************************************************************)
(* The documented lookup, on the linked hosts alone: the host itself, else *)
(* the closest wildcard upwards in the domain tree.                        *)
(***************************************************************************)
ClosestMatch(path) ==
  LET wilds == {n \in 0..Len(path) : wildcardAt(path, n) \in Linked}
  IN  IF path \in Linked THEN tree[path]
      ELSE IF wilds # {} THEN tree[wildcardAt(path, Max(wilds))]
      ELSE None

(***************************************************************************)
(* Get, which walks down to the longest common node and climbs back, finds *)
(* what the documented lookup finds, whatever nodes earlier operations     *)
(* left in the tree (treeNode.get).                                        *)
(***************************************************************************)
GetFindsClosestMatch == \A h \in Hosts : Get(h) = ClosestMatch(revertKey(h))

linkAt(t, h) == IF revertKey(h) \in DOMAIN t THEN t[revertKey(h)] ELSE None

LinkOf == [h \in Hosts |-> linkAt(tree, h)]

HM == INSTANCE HostMap WITH link <- LinkOf

(***************************************************************************)
(* The index implements a map from hosts to AuthConfigs: Set, Delete and   *)
(* DeleteKey change the link of the hosts they name and of no other, and   *)
(* Delete leaves no link of the resource (authConfigTree.Set, Delete,      *)
(* DeleteKey), though deleteKey goes by the longest common node and by     *)
(* keys that are never forgotten.                                          *)
(***************************************************************************)
ImplementsHostMap == HM!Spec
=============================================================================
