---------------------------- MODULE IndexProofs ----------------------------
(***************************************************************************)
(* Proofs about the index, for every set of resources, hosts and configs.  *)
(* They assume that no label of a host is empty, as DNS requires: the tree *)
(* takes a path that lacks one node, for an empty label, for a path that   *)
(* is there.                                                               *)
(***************************************************************************)
EXTENDS Index, TLAPS, FiniteSetTheorems, WellFoundedInduction, SequenceTheorems

NoEmptyLabels == \A h \in Hosts : \A i \in 1..Len(h) : h[i] # emptyLabel

----------------------------------------------------------------------------
(***************************************************************************)
(* A non-empty set of naturals with a bound has a largest element, the one *)
(* that Max chooses: the sets of the numbers above each element are        *)
(* finite, and a minimal one is that of the largest.                       *)
(***************************************************************************)
LEMMA MaxIsLargest ==
  ASSUME NEW n \in Nat, NEW A \in SUBSET (0..n), A # {}
  PROVE  /\ Max(A) \in A
         /\ \A a \in A : a <= Max(A)
<1> DEFINE Above(a) == {k \in 0..n : k > a}
           T == {Above(a) : a \in A}
<1>1. IsFiniteSet(0..n)
  BY FS_Interval
<1>2. IsWellFoundedOn(StrictSubsetOrdering(0..n), SUBSET (0..n))
  BY <1>1, FS_FiniteSubsetsOfFinite, FS_StrictSubsetOrderingWellFounded
<1>3. T \subseteq SUBSET (0..n) /\ T # {}
  OBVIOUS
<1>4. \E x \in T : \A y \in T : ~(<<y, x>> \in StrictSubsetOrdering(0..n))
  <2> HIDE DEF T
  <2> QED  BY <1>2, <1>3, WFMin
<1>5. PICK m \in A : \A b \in A : ~(<<Above(b), Above(m)>> \in StrictSubsetOrdering(0..n))
  BY <1>4
<1>6. \A b \in A : b <= m
  <2> SUFFICES ASSUME NEW b \in A, b > m PROVE FALSE
    OBVIOUS
  <2>1. Above(b) \subseteq Above(m) /\ b \in Above(m) /\ b \notin Above(b)
    OBVIOUS
  <2> HIDE DEF Above
  <2>2. Above(b) \in SUBSET (0..n) /\ Above(m) \in SUBSET (0..n)
    BY DEF Above
  <2>3. <<Above(b), Above(m)>> \in StrictSubsetOrdering(0..n)
    BY <2>1, <2>2 DEF StrictSubsetOrdering
  <2> QED  BY <2>3, <1>5
<1> QED  BY <1>6 DEF Max

----------------------------------------------------------------------------
(***************************************************************************)
(* What revertKey does to a host.                                          *)
(***************************************************************************)
LEMMA RevertKey ==
  ASSUME NEW h \in Hosts
  PROVE  /\ revertKey(h) \in Seq(STRING)
         /\ Len(revertKey(h)) = Len(h)
         /\ NoEmptyLabels => \A i \in 1..Len(h) : revertKey(h)[i] # emptyLabel
<1>1. h \in Seq(STRING)
  BY HostsAreLabels
<1>2. revertKey(h) = [i \in 1..Len(h) |-> h[(Len(h) - i) + 1]]
  BY DEF revertKey, Reverse
<1>3. \A i \in 1..Len(h) : (Len(h) - i) + 1 \in 1..Len(h)
  BY <1>1
<1>4. revertKey(h) \in Seq(STRING) /\ Len(revertKey(h)) = Len(h)
  BY <1>1, <1>2, <1>3
<1>5. NoEmptyLabels => \A i \in 1..Len(h) : revertKey(h)[i] # emptyLabel
  BY <1>2, <1>3 DEF NoEmptyLabels
<1> QED  BY <1>4, <1>5

LEMMA RevertKeyInjective ==
  ASSUME NEW g \in Hosts, NEW h \in Hosts, revertKey(g) = revertKey(h)
  PROVE  g = h
<1>1. g \in Seq(STRING) /\ h \in Seq(STRING)
  BY HostsAreLabels
<1>2. Len(g) = Len(h)
  BY RevertKey
<1>3. ASSUME NEW i \in 1..Len(g)  PROVE g[i] = h[i]
  <2>1. (Len(g) - i) + 1 \in 1..Len(g)
    BY <1>1
  <2>2. revertKey(g)[(Len(g) - i) + 1] = g[(Len(g) - ((Len(g) - i) + 1)) + 1]
    BY <2>1 DEF revertKey, Reverse
  <2>3. revertKey(h)[(Len(g) - i) + 1] = h[(Len(g) - ((Len(g) - i) + 1)) + 1]
    BY <2>1, <1>2 DEF revertKey, Reverse
  <2>4. (Len(g) - ((Len(g) - i) + 1)) + 1 = i
    BY <1>1
  <2> QED  BY <2>2, <2>3, <2>4
<1> QED  BY <1>1, <1>2, <1>3, SeqEqual

----------------------------------------------------------------------------
(***************************************************************************)
(* The rest of a path without empty labels is not taken for an empty one.  *)
(***************************************************************************)
LEMMA NonEmptyTail ==
  ASSUME NEW s \in Seq(STRING), Len(s) >= 1, s[1] # emptyLabel
  PROVE  s \notin {<<>>, <<emptyLabel>>}
OBVIOUS

LEMMA RestIsTail ==
  ASSUME NEW p \in Seq(STRING), NEW d \in Nat, d < Len(p), p[d + 1] # emptyLabel
  PROVE  SubSeq(p, d + 1, Len(p)) \notin {<<>>, <<emptyLabel>>}
<1>1. SubSeq(p, d + 1, Len(p)) \in Seq(STRING)
  OBVIOUS
<1>2. Len(SubSeq(p, d + 1, Len(p))) >= 1
  OBVIOUS
<1>3. SubSeq(p, d + 1, Len(p))[1] = p[d + 1]
  OBVIOUS
<1> QED  BY <1>1, <1>2, <1>3, NonEmptyTail

LEMMA PrefixOfPrefix ==
  ASSUME NEW S, NEW p \in Seq(S), NEW n \in 0..Len(p)
  PROVE  /\ SubSeq(p, 1, n) \in Seq(S)
         /\ Len(SubSeq(p, 1, n)) = n
         /\ \A m \in 0..n : SubSeq(SubSeq(p, 1, n), 1, m) = SubSeq(p, 1, m)
<1>1. SubSeq(p, 1, n) \in Seq(S)
  OBVIOUS
<1>2. Len(SubSeq(p, 1, n)) = n
  OBVIOUS
<1>3. ASSUME NEW m \in 0..n
      PROVE  SubSeq(SubSeq(p, 1, n), 1, m) = SubSeq(p, 1, m)
  <2>1. m \in 0..Len(p)
    OBVIOUS
  <2>2. SubSeq(p, 1, m) \in Seq(S) /\ Len(SubSeq(p, 1, m)) = m
    BY <2>1
  <2>3. SubSeq(SubSeq(p, 1, n), 1, m) \in Seq(S) /\ Len(SubSeq(SubSeq(p, 1, n), 1, m)) = m
    BY <1>1, <1>2
  <2>4. \A i \in 1..m : SubSeq(p, 1, m)[i] = p[i]
    BY <2>1
  <2>5. \A i \in 1..m : SubSeq(SubSeq(p, 1, n), 1, m)[i] = p[i]
    BY <1>1, <1>2
  <2> QED  BY <2>2, <2>3, <2>4, <2>5, SeqEqual
<1> QED  BY <1>1, <1>2, <1>3

(***************************************************************************)
(* The walk in a prefix-closed tree ends in a node, which is that of the   *)
(* path if it has one; if it has none, labels are left over.               *)
(***************************************************************************)
LEMMA Walk ==
  ASSUME NEW t, <<>> \in DOMAIN t, PrefixClosed(t), NEW p \in Seq(STRING)
  PROVE  /\ longestCommonLabel(t, p) \in DOMAIN t
         /\ p \in DOMAIN t => longestCommonLabel(t, p) = p /\ noTail(t, p)
         /\ p \notin DOMAIN t =>
              /\ Len(longestCommonLabel(t, p)) \in 0..(Len(p) - 1)
              /\ (\A i \in 1..Len(p) : p[i] # emptyLabel) => ~noTail(t, p)
         /\ \A n \in 0..Len(p) :
              SubSeq(p, 1, n) \in DOMAIN t => n <= Len(longestCommonLabel(t, p))
<1> DEFINE walked == {n \in 0..Len(p) : \A m \in 0..n : SubSeq(p, 1, m) \in DOMAIN t}
<1>0. Len(p) \in Nat
  OBVIOUS
<1>1. SubSeq(p, 1, 0) = <<>> /\ SubSeq(p, 1, Len(p)) = p
  OBVIOUS
<1>2. 0 \in walked
  <2>1. \A m \in 0..0 : m = 0
    OBVIOUS
  <2>2. \A m \in 0..0 : SubSeq(p, 1, m) \in DOMAIN t
    BY <2>1, <1>1
  <2>3. 0 \in 0..Len(p)
    BY <1>0
  <2> QED  BY <2>2, <2>3
<1>3. Max(walked) \in walked /\ \A a \in walked : a <= Max(walked)
  <2>1. walked \in SUBSET (0..Len(p)) /\ walked # {} /\ Len(p) \in Nat
    BY <1>2
  <2> HIDE DEF walked
  <2> QED  BY <2>1, MaxIsLargest
<1>4. PICK d \in walked :
         /\ \A a \in walked : a <= d
         /\ longestCommonLabel(t, p) = SubSeq(p, 1, d)
  BY <1>3 DEF longestCommonLabel
<1>5. d \in 0..Len(p) /\ SubSeq(p, 1, d) \in DOMAIN t
  BY <1>4
<1> HIDE DEF walked
<1>6. Len(SubSeq(p, 1, d)) = d
  BY <1>5
<1>7. noTail(t, p) = (SubSeq(p, d + 1, Len(p)) \in {<<>>, <<emptyLabel>>})
  BY <1>4, <1>6 DEF noTail
<1>10. \A n \in 0..Len(p) : SubSeq(p, 1, n) \in DOMAIN t => n <= d
  <2> SUFFICES ASSUME NEW n \in 0..Len(p), SubSeq(p, 1, n) \in DOMAIN t
               PROVE  n \in walked
    BY <1>4
  <2>1. \A m \in 0..n : SubSeq(p, 1, m) \in Prefixes(SubSeq(p, 1, n))
    BY PrefixOfPrefix DEF Prefixes
  <2>2. \A m \in 0..n : SubSeq(p, 1, m) \in DOMAIN t
    BY <2>1 DEF PrefixClosed
  <2> QED  BY <2>2 DEF walked
<1>8. CASE p \in DOMAIN t
  <2>1. \A m \in 0..Len(p) : SubSeq(p, 1, m) \in DOMAIN t
    BY <1>8 DEF PrefixClosed, Prefixes
  <2>2. d = Len(p)
    BY <2>1, <1>0, <1>4, <1>5 DEF walked
  <2>3. SubSeq(p, d + 1, Len(p)) = <<>>
    BY <2>2
  <2> QED  BY <2>2, <2>3, <1>1, <1>4, <1>6, <1>7, <1>8, <1>10
<1>9. CASE p \notin DOMAIN t
  <2>0. d # Len(p)
    BY <1>1, <1>5, <1>9
  <2>1. d \in 0..(Len(p) - 1)
    <3>1. d \in 0..Len(p)
      BY <1>5
    <3> QED  BY <3>1, <1>0, <2>0
  <2>2. ASSUME \A i \in 1..Len(p) : p[i] # emptyLabel  PROVE ~noTail(t, p)
    <3>1. d \in Nat /\ d < Len(p) /\ d + 1 \in 1..Len(p)
      BY <2>1, <1>0
    <3> QED  BY <3>1, <2>2, <1>7, RestIsTail
  <2> QED  BY <2>1, <2>2, <1>4, <1>5, <1>6, <1>9, <1>10
<1> QED  BY <1>8, <1>9

----------------------------------------------------------------------------
IsTree(t) == <<>> \in DOMAIN t /\ PrefixClosed(t) /\ t = [q \in DOMAIN t |-> t[q]]

NoEmpty(p) == \A i \in 1..Len(p) : p[i] # emptyLabel

(***************************************************************************)
(* Setting a path changes the entry of that path only, adds the nodes of   *)
(* its prefixes and removes none.                                          *)
(***************************************************************************)
LEMMA SetTree ==
  ASSUME NEW t, IsTree(t), DOMAIN t \subseteq Seq(STRING),
         NEW p \in Seq(STRING), NoEmpty(p), NEW e
  PROVE  /\ set(t, p, e) = [q \in DOMAIN t \cup Prefixes(p) |->
                              IF q = p THEN e ELSE IF q \in DOMAIN t THEN t[q] ELSE None]
         /\ p \in Prefixes(p)
         /\ Prefixes(p) \subseteq Seq(STRING)
         /\ PrefixClosed(set(t, p, e))
<1> DEFINE u == [q \in DOMAIN t \cup Prefixes(p) |->
                   IF q = p THEN e ELSE IF q \in DOMAIN t THEN t[q] ELSE None]
<1>1. p \in Prefixes(p)
  <2>1. SubSeq(p, 1, Len(p)) = p /\ Len(p) \in Nat
    OBVIOUS
  <2>2. Len(p) \in 0..Len(p)
    BY <2>1
  <2> QED  BY <2>1, <2>2 DEF Prefixes
<1>2. Prefixes(p) \subseteq Seq(STRING)
  BY PrefixOfPrefix DEF Prefixes
<1>3. \A q \in Prefixes(p) : Prefixes(q) \subseteq Prefixes(p)
  <2> SUFFICES ASSUME NEW n \in 0..Len(p), NEW m \in 0..Len(SubSeq(p, 1, n))
               PROVE  SubSeq(SubSeq(p, 1, n), 1, m) \in Prefixes(p)
    BY DEF Prefixes
  <2>1. m \in 0..n
    BY PrefixOfPrefix
  <2>2. m \in 0..Len(p)
    BY <2>1
  <2> QED  BY <2>1, <2>2, PrefixOfPrefix DEF Prefixes
<1>4. set(t, p, e) = u
  <2>1. CASE p \in DOMAIN t
    <3>1. noTail(t, p) /\ longestCommonLabel(t, p) = p
      BY <2>1, Walk DEF IsTree
    <3>2. DOMAIN t \cup Prefixes(p) = DOMAIN t
      BY <2>1 DEF IsTree, PrefixClosed
    <3> QED  BY <2>1, <3>1, <3>2 DEF set, IsTree
  <2>2. CASE p \notin DOMAIN t
    <3>1. ~noTail(t, p)
      BY <2>2, Walk DEF IsTree, NoEmpty
    <3> QED  BY <3>1 DEF set
  <2> QED  BY <2>1, <2>2
<1>5. PrefixClosed(u)
  BY <1>3 DEF PrefixClosed, IsTree
<1> QED  BY <1>1, <1>2, <1>4, <1>5

(***************************************************************************)
(* Deleting keys that all have their node clears the entries of the owner  *)
(* at those nodes and changes nothing else.                                *)
(***************************************************************************)
LEMMA DeleteKeysTree ==
  ASSUME NEW t, IsTree(t), NEW id, NEW ks \in SUBSET Hosts,
         \A key \in ks : revertKey(key) \in DOMAIN t
  PROVE  deleteKeys(t, id, ks) =
           [q \in DOMAIN t |->
              IF t[q] # None /\ t[q].id = id /\ \E key \in ks : revertKey(key) = q
              THEN None ELSE t[q]]
<1>1. \A key \in ks : longestCommonLabel(t, revertKey(key)) = revertKey(key)
  BY Walk, RevertKey DEF IsTree
<1> QED  BY <1>1 DEF deleteKeys

----------------------------------------------------------------------------
LEMMA InvIsTree == IndexInv => IsTree(tree)
BY DEF IndexInv, IndexTypeOK, IsTree

LEMMA IndexInitInv == IndexInit => IndexInv
<1> SUFFICES ASSUME IndexInit PROVE IndexInv
  OBVIOUS
<1>1. DOMAIN tree = {<<>>} /\ tree[<<>>] = None
  BY DEF IndexInit, newAuthConfigTree
<1>2. Prefixes(<<>>) = {<<>>}
  <2>1. Len(<<>>) = 0 /\ 0..0 = {0} /\ SubSeq(<<>>, 1, 0) = <<>>
    OBVIOUS
  <2> QED  BY <2>1 DEF Prefixes
<1>3. IndexTypeOK
  BY <1>1 DEF IndexInit, newAuthConfigTree, IndexTypeOK
<1>4. PrefixClosed(tree)
  BY <1>1, <1>2 DEF PrefixClosed
<1>5. KeysHaveNodes /\ EntriesHaveKeys
  BY <1>1 DEF IndexInit, KeysHaveNodes, EntriesHaveKeys
<1> QED  BY <1>3, <1>4, <1>5 DEF IndexInv

(***************************************************************************)
(* The effect of Set on the tree.                                          *)
(***************************************************************************)
LEMMA SetEffect ==
  ASSUME NoEmptyLabels, IndexInv,
         NEW id \in Ids, NEW key \in Hosts, NEW cfg \in Configs, NEW override,
         Set(id, key, cfg, override)
  PROVE  /\ tree' = [q \in DOMAIN tree \cup Prefixes(revertKey(key)) |->
                       IF q = revertKey(key) THEN [id |-> id, cfg |-> cfg]
                       ELSE IF q \in DOMAIN tree THEN tree[q]
                       ELSE None]
         /\ revertKey(key) \in Prefixes(revertKey(key))
         /\ Prefixes(revertKey(key)) \subseteq Seq(STRING)
         /\ PrefixClosed(tree')
<1> DEFINE p == revertKey(key)
           e == [id |-> id, cfg |-> cfg]
<1>1. p \in Seq(STRING) /\ NoEmpty(p)
  BY RevertKey DEF NoEmpty
<1>2. IsTree(tree) /\ DOMAIN tree \subseteq Seq(STRING)
  BY InvIsTree DEF IndexInv, IndexTypeOK
<1>3. tree' = set(tree, p, e)
  BY DEF Set
<1> HIDE DEF p, e
<1>4. /\ set(tree, p, e) = [q \in DOMAIN tree \cup Prefixes(p) |->
                             IF q = p THEN e ELSE IF q \in DOMAIN tree THEN tree[q] ELSE None]
      /\ p \in Prefixes(p)
      /\ Prefixes(p) \subseteq Seq(STRING)
      /\ PrefixClosed(set(tree, p, e))
  BY <1>1, <1>2, SetTree
<1>5. PrefixClosed(tree')
  BY <1>3, <1>4
<1> QED  BY <1>3, <1>4, <1>5 DEF p, e

(***************************************************************************)
(* Set keeps the invariant: the key's node exists afterwards, with the key *)
(* recorded for the owner of the new entry.                                *)
(***************************************************************************)
LEMMA SetInv ==
  ASSUME NoEmptyLabels, IndexInv,
         NEW id \in Ids, NEW key \in Hosts, NEW cfg \in Configs, NEW override,
         Set(id, key, cfg, override)
  PROVE  IndexInv'
<1> DEFINE p == revertKey(key)
           e == [id |-> id, cfg |-> cfg]
<1>2. IsTree(tree) /\ DOMAIN tree \subseteq Seq(STRING) /\ keys \in [Ids -> Seq(Hosts)]
  BY InvIsTree DEF IndexInv, IndexTypeOK
<1>3. keys' = [keys EXCEPT ![id] = recordKey(@, key)]
  BY DEF Set
<1>4. /\ tree' = [q \in DOMAIN tree \cup Prefixes(p) |->
                    IF q = p THEN e ELSE IF q \in DOMAIN tree THEN tree[q] ELSE None]
      /\ p \in Prefixes(p)
      /\ Prefixes(p) \subseteq Seq(STRING)
      /\ PrefixClosed(tree')
  BY SetEffect
<1> HIDE DEF p
<1>5. /\ DOMAIN tree' = DOMAIN tree \cup Prefixes(p)
      /\ tree'[p] = e
      /\ \A q \in DOMAIN tree' : q # p => tree'[q] = IF q \in DOMAIN tree THEN tree[q] ELSE None
  BY <1>4
<1>6. e \in indexEntry /\ e # None
  BY NoneIsNoEntry DEF indexEntry
<1>7. IndexTypeOK'
  <2>1. tree' \in [DOMAIN tree' -> indexEntry \cup {None}]
    BY <1>4, <1>6 DEF IndexInv, IndexTypeOK
  <2>2. keys' \in [Ids -> Seq(Hosts)]
    BY <1>2, <1>3 DEF recordKey
  <2> QED  BY <2>1, <2>2, <1>2, <1>4, <1>5 DEF IndexTypeOK, IsTree
<1>8. /\ \A j \in Ids : /\ DOMAIN keys[j] \subseteq DOMAIN keys'[j]
                        /\ \A i \in DOMAIN keys[j] : keys'[j][i] = keys[j][i]
      /\ \E i \in DOMAIN keys'[id] : keys'[id][i] = key
      /\ \A j \in Ids : \A i \in DOMAIN keys'[j] :
           (i \in DOMAIN keys[j] /\ keys'[j][i] = keys[j][i]) \/ keys'[j][i] = key
  <2>1. /\ keys'[id] = recordKey(keys[id], key)
        /\ \A j \in Ids : j # id => keys'[j] = keys[j]
    BY <1>2, <1>3
  <2>2. CASE Contains(keys[id], key)
    BY <2>1, <2>2 DEF recordKey, Contains
  <2>3. CASE ~Contains(keys[id], key)
    <3> DEFINE s == keys[id]
               r == Append(s, key)
    <3>1. s \in Seq(Hosts) /\ keys'[id] = r
      BY <2>1, <2>3, <1>2 DEF recordKey
    <3>2. /\ DOMAIN s \subseteq DOMAIN r
          /\ \A i \in DOMAIN s : r[i] = s[i]
          /\ \E i \in DOMAIN r : r[i] = key
          /\ \A i \in DOMAIN r : i \in DOMAIN s \/ r[i] = key
      <4> HIDE DEF s
      <4> QED  BY <3>1
    <3> HIDE DEF s, r
    <3> QED  BY <2>1, <3>1, <3>2 DEF s
  <2> QED  BY <2>2, <2>3
<1>9. KeysHaveNodes'
  BY <1>4, <1>5, <1>8 DEF IndexInv, KeysHaveNodes, p
<1>10. EntriesHaveKeys'
  <2> SUFFICES ASSUME NEW q \in DOMAIN tree', tree'[q] # None
               PROVE  \E i \in DOMAIN keys'[tree'[q].id] : revertKey(keys'[tree'[q].id][i]) = q
    BY DEF EntriesHaveKeys
  <2>1. CASE q = p
    BY <2>1, <1>5, <1>8 DEF p
  <2>2. CASE q # p
    <3>1. q \in DOMAIN tree /\ tree'[q] = tree[q] /\ tree[q] # None
      BY <2>2, <1>5
    <3>2. tree[q].id \in Ids
      BY <3>1 DEF IndexInv, IndexTypeOK, indexEntry
    <3> QED  BY <3>1, <3>2, <1>8 DEF IndexInv, EntriesHaveKeys
  <2> QED  BY <2>1, <2>2
<1> QED  BY <1>4, <1>7, <1>9, <1>10 DEF IndexInv

(***************************************************************************)
(* Clearing entries at the nodes of keys keeps the invariant.              *)
(***************************************************************************)
LEMMA DeleteKeysInv ==
  ASSUME IndexInv, NEW id \in Ids, NEW ks \in SUBSET ToSet(keys[id]),
         tree' = deleteKeys(tree, id, ks), UNCHANGED keys
  PROVE  /\ IndexInv'
         /\ tree' = [q \in DOMAIN tree |->
                       IF tree[q] # None /\ tree[q].id = id /\ \E key \in ks : revertKey(key) = q
                       THEN None ELSE tree[q]]
<1>1. IsTree(tree) /\ DOMAIN tree \subseteq Seq(STRING) /\ keys \in [Ids -> Seq(Hosts)]
  BY InvIsTree DEF IndexInv, IndexTypeOK
<1>2. ks \in SUBSET Hosts
  BY <1>1 DEF ToSet
<1>3. \A key \in ks : revertKey(key) \in DOMAIN tree
  BY DEF ToSet, IndexInv, KeysHaveNodes
<1>4. tree' = [q \in DOMAIN tree |->
                 IF tree[q] # None /\ tree[q].id = id /\ \E key \in ks : revertKey(key) = q
                 THEN None ELSE tree[q]]
  BY <1>1, <1>2, <1>3, DeleteKeysTree
<1>5. DOMAIN tree' = DOMAIN tree /\ \A q \in DOMAIN tree : tree'[q] \in {tree[q], None}
  BY <1>4
<1>6. IndexTypeOK'
  <2>1. tree' \in [DOMAIN tree' -> indexEntry \cup {None}]
    BY <1>4 DEF IndexInv, IndexTypeOK
  <2> QED  BY <2>1, <1>1, <1>5 DEF IndexTypeOK, IsTree
<1>7. PrefixClosed(tree') /\ KeysHaveNodes' /\ EntriesHaveKeys'
  BY <1>5 DEF IndexInv, PrefixClosed, KeysHaveNodes, EntriesHaveKeys
<1> QED  BY <1>4, <1>6, <1>7 DEF IndexInv

LEMMA IndexNextInv ==
  ASSUME NoEmptyLabels, IndexInv, [IndexNext]_indexVars
  PROVE  IndexInv'
<1>1. ASSUME NEW id \in Ids, NEW key \in Hosts, NEW cfg \in Configs, NEW override \in BOOLEAN,
             Set(id, key, cfg, override)
      PROVE  IndexInv'
  BY <1>1, SetInv
<1>2. ASSUME NEW id \in Ids, Delete(id)  PROVE IndexInv'
  BY <1>2, DeleteKeysInv DEF Delete
<1>3. ASSUME NEW id \in Ids, NEW key \in ToSet(FindKeys(id)), DeleteKey(id, key)
      PROVE  IndexInv'
  <2>1. {key} \in SUBSET ToSet(keys[id])
    BY DEF FindKeys
  <2> QED  BY <1>3, <2>1, DeleteKeysInv DEF DeleteKey
<1>4. CASE UNCHANGED indexVars
  BY <1>4 DEF indexVars, IndexInv, IndexTypeOK, KeysHaveNodes, EntriesHaveKeys
<1> QED  BY <1>1, <1>2, <1>3, <1>4 DEF IndexNext

(***************************************************************************)
(* The keys recorded for a resource always lead to their own nodes, and    *)
(* every entry can be found from the keys of its owner, after any sequence *)
(* of Set, Delete and DeleteKey (authConfigTree).                          *)
(***************************************************************************)
THEOREM IndexInvariance ==
  ASSUME NoEmptyLabels
  PROVE  IndexSpec => []IndexInv
<1>1. IndexInit => IndexInv
  BY IndexInitInv
<1>2. IndexInv /\ [IndexNext]_indexVars => IndexInv'
  BY IndexNextInv
<1> QED  BY <1>1, <1>2, PTL DEF IndexSpec

----------------------------------------------------------------------------
(***************************************************************************)
(* What the documented lookup finds is what get's walk finds: a wildcard   *)
(* that matches a path hangs from one of the nodes get climbs.             *)
(***************************************************************************)
LEMMA InvGetFindsClosestMatch ==
  ASSUME NoEmptyLabels, IndexInv
  PROVE  GetFindsClosestMatch
<1> SUFFICES ASSUME NEW h \in Hosts
             PROVE  get(tree, revertKey(h)) = ClosestMatch(revertKey(h))
  BY DEF GetFindsClosestMatch, Get
<1> DEFINE p == revertKey(h)
           node == longestCommonLabel(tree, p)
<1>1. p \in Seq(STRING) /\ NoEmpty(p)
  BY RevertKey DEF NoEmpty
<1>2. IsTree(tree)
  BY InvIsTree
<1> HIDE DEF p
<1>3. /\ node \in DOMAIN tree
      /\ p \in DOMAIN tree => node = p /\ noTail(tree, p)
      /\ p \notin DOMAIN tree => Len(node) \in 0..(Len(p) - 1) /\ ~noTail(tree, p)
      /\ \A n \in 0..Len(p) : SubSeq(p, 1, n) \in DOMAIN tree => n <= Len(node)
  BY <1>1, <1>2, Walk DEF IsTree, NoEmpty
<1> HIDE DEF node
<1>4. Len(p) \in Nat /\ Len(node) \in 0..Len(p)
  <2>1. Len(p) \in Nat
    BY <1>1
  <2>2. CASE p \in DOMAIN tree
    <3>1. Len(node) = Len(p)
      BY <2>2, <1>3
    <3> QED  BY <2>1, <3>1
  <2>3. CASE p \notin DOMAIN tree
    <3>1. Len(node) \in 0..(Len(p) - 1)
      BY <2>3, <1>3
    <3> QED  BY <2>1, <3>1
  <2> QED  BY <2>2, <2>3
<1>5. ASSUME NEW n \in 0..Len(p), wildcardAt(p, n) \in DOMAIN tree
      PROVE  n \in 0..Len(node)
  <2>1. SubSeq(p, 1, n) \in Seq(STRING) /\ Len(SubSeq(p, 1, n)) = n
    BY <1>1, PrefixOfPrefix
  <2>2. SubSeq(p, 1, n) \in Prefixes(wildcardAt(p, n))
    <3> DEFINE s == SubSeq(p, 1, n)
               Label == STRING \cup {wildcard}
    <3> HIDE DEF s
    <3>1. s \in Seq(Label) /\ Len(s) = n /\ n \in Nat
      BY <2>1 DEF s
    <3>2. Append(s, wildcard) \in Seq(Label) /\ Len(Append(s, wildcard)) = n + 1
      BY <3>1, AppendProperties
    <3>3. SubSeq(Append(s, wildcard), 1, n) \in Seq(Label) /\ Len(SubSeq(Append(s, wildcard), 1, n)) = n
      BY <3>1, <3>2, PrefixOfPrefix
    <3>4. \A i \in 1..n : SubSeq(Append(s, wildcard), 1, n)[i] = s[i]
      BY <3>1, <3>2
    <3>5. SubSeq(Append(s, wildcard), 1, n) = s
      BY <3>1, <3>3, <3>4, SeqEqual
    <3> QED  BY <3>1, <3>2, <3>5 DEF Prefixes, wildcardAt, s
  <2>3. SubSeq(p, 1, n) \in DOMAIN tree
    BY <1>2, <1>5, <2>2 DEF IsTree, PrefixClosed
  <2>4. n <= Len(node)
    BY <2>3, <1>3
  <2> QED  BY <2>4, <1>4
<1>6. {n \in 0..Len(node) : wildcardAt(p, n) \in DOMAIN tree /\ tree[wildcardAt(p, n)] # None}
        = {n \in 0..Len(p) : wildcardAt(p, n) \in Linked}
  <2>1. \A n \in 0..Len(node) : n \in 0..Len(p)
    BY <1>4
  <2> QED  BY <2>1, <1>5 DEF Linked
<1>7. (noTail(tree, p) /\ tree[node] # None) <=> p \in Linked
  BY <1>3 DEF Linked
<1>8. p \in Linked => tree[node] = tree[p]
  BY <1>3 DEF Linked
<1>9. get(tree, p) = ClosestMatch(p)
  BY <1>6, <1>7, <1>8, Zenon DEF get, ClosestMatch, node
<1> QED  BY <1>9 DEF p

(***************************************************************************)
(* After any sequence of operations, Get finds the AuthConfig of the host, *)
(* or that of the closest wildcard (treeNode.get).                         *)
(***************************************************************************)
THEOREM LookupCorrect ==
  ASSUME NoEmptyLabels
  PROVE  IndexSpec => []GetFindsClosestMatch
<1>1. IndexInv => GetFindsClosestMatch
  BY InvGetFindsClosestMatch
<1> QED  BY <1>1, IndexInvariance, PTL

----------------------------------------------------------------------------
(***************************************************************************)
(* The link of a host, from the tree before and after a step.              *)
(***************************************************************************)
LEMMA SetRefines ==
  ASSUME NoEmptyLabels, IndexInv,
         NEW id \in Ids, NEW key \in Hosts, NEW cfg \in Configs, NEW override,
         Set(id, key, cfg, override)
  PROVE  HM!Link(id, key, cfg)
<1>1. /\ tree' = [q \in DOMAIN tree \cup Prefixes(revertKey(key)) |->
                    IF q = revertKey(key) THEN [id |-> id, cfg |-> cfg]
                    ELSE IF q \in DOMAIN tree THEN tree[q]
                    ELSE None]
      /\ revertKey(key) \in Prefixes(revertKey(key))
  BY SetEffect
<1>2. \A h \in Hosts : h # key => revertKey(h) # revertKey(key)
  BY RevertKeyInjective
<1>3. ASSUME NEW h \in Hosts
      PROVE  LinkOf'[h] = IF h = key THEN [id |-> id, cfg |-> cfg] ELSE LinkOf[h]
  BY <1>1, <1>2 DEF LinkOf, linkAt
<1>4. LinkOf' = [LinkOf EXCEPT ![key] = [id |-> id, cfg |-> cfg]]
  BY <1>3 DEF LinkOf, linkAt
<1> QED  BY <1>4 DEF HM!Link

LEMMA DeleteKeysRefines ==
  ASSUME IndexInv, NEW id \in Ids, NEW ks \in SUBSET ToSet(keys[id]),
         tree' = deleteKeys(tree, id, ks), UNCHANGED keys
  PROVE  LinkOf' = [h \in Hosts |-> IF h \in ks /\ HM!OwnedBy(id, h) THEN None ELSE LinkOf[h]]
<1>1. tree' = [q \in DOMAIN tree |->
                 IF tree[q] # None /\ tree[q].id = id /\ \E key \in ks : revertKey(key) = q
                 THEN None ELSE tree[q]]
  BY DeleteKeysInv
<1>2. ks \subseteq Hosts
  BY DEF IndexInv, IndexTypeOK, ToSet
<1>3. \A h \in Hosts : (\E key \in ks : revertKey(key) = revertKey(h)) <=> h \in ks
  BY <1>2, RevertKeyInjective
<1>4. \A h \in Hosts : HM!OwnedBy(id, h) <=>
        /\ revertKey(h) \in DOMAIN tree
        /\ tree[revertKey(h)] # None
        /\ tree[revertKey(h)].id = id
  BY DEF HM!OwnedBy, LinkOf, linkAt
<1>5. ASSUME NEW h \in Hosts
      PROVE  LinkOf'[h] = IF h \in ks /\ HM!OwnedBy(id, h) THEN None ELSE LinkOf[h]
  BY <1>1, <1>3, <1>4 DEF LinkOf, linkAt
<1> QED  BY <1>5 DEF LinkOf, linkAt

LEMMA DeleteRefines ==
  ASSUME IndexInv, NEW id \in Ids, Delete(id)
  PROVE  HM!UnlinkAll(id)
<1>1. LinkOf' = [h \in Hosts |-> IF h \in ToSet(keys[id]) /\ HM!OwnedBy(id, h)
                                 THEN None ELSE LinkOf[h]]
  BY DeleteKeysRefines DEF Delete
<1>2. ASSUME NEW h \in Hosts, HM!OwnedBy(id, h)  PROVE h \in ToSet(keys[id])
  <2>1. /\ revertKey(h) \in DOMAIN tree
        /\ tree[revertKey(h)] # None
        /\ tree[revertKey(h)].id = id
    BY <1>2 DEF HM!OwnedBy, LinkOf, linkAt
  <2>2. PICK i \in DOMAIN keys[id] : revertKey(keys[id][i]) = revertKey(h)
    BY <2>1 DEF IndexInv, EntriesHaveKeys
  <2>3. keys[id][i] \in Hosts
    BY DEF IndexInv, IndexTypeOK
  <2>4. keys[id][i] = h
    BY <2>2, <2>3, RevertKeyInjective
  <2> QED  BY <2>4 DEF ToSet
<1> QED  BY <1>1, <1>2 DEF HM!UnlinkAll

LEMMA DeleteKeyRefines ==
  ASSUME IndexInv, NEW id \in Ids, NEW key \in ToSet(keys[id]), DeleteKey(id, key)
  PROVE  HM!Unlink(id, key)
<1>1. {key} \in SUBSET ToSet(keys[id])
  OBVIOUS
<1>2. LinkOf' = [h \in Hosts |-> IF h \in {key} /\ HM!OwnedBy(id, h) THEN None ELSE LinkOf[h]]
  BY <1>1, DeleteKeysRefines DEF DeleteKey
<1>3. LinkOf = [h \in Hosts |-> LinkOf[h]]
  BY DEF LinkOf, linkAt
<1> QED  BY <1>2, <1>3 DEF HM!Unlink

(***************************************************************************)
(* Every sequence of operations on the index is one on a map from hosts to *)
(* AuthConfigs: Set links its host and no other, DeleteKey unlinks its     *)
(* host if the resource owns it, Delete unlinks all hosts of the resource  *)
(* and none of another (authConfigTree).                                   *)
(***************************************************************************)
THEOREM IndexImplementsHostMap ==
  ASSUME NoEmptyLabels
  PROVE  IndexSpec => ImplementsHostMap
<1>1. IndexInit => HM!Init
  <2> SUFFICES ASSUME IndexInit, NEW h \in Hosts  PROVE LinkOf[h] = None
    BY DEF HM!Init, LinkOf, linkAt
  <2> QED  BY DEF IndexInit, newAuthConfigTree, LinkOf, linkAt
<1>2. ASSUME IndexInv, [IndexNext]_indexVars  PROVE [HM!Next]_LinkOf
  <2>1. ASSUME NEW id \in Ids, NEW key \in Hosts, NEW cfg \in Configs, NEW override \in BOOLEAN,
               Set(id, key, cfg, override)
        PROVE  HM!Next
    BY <1>2, <2>1, SetRefines DEF HM!Next
  <2>2. ASSUME NEW id \in Ids, Delete(id)  PROVE HM!Next
    BY <1>2, <2>2, DeleteRefines DEF HM!Next
  <2>3. ASSUME NEW id \in Ids, NEW key \in ToSet(FindKeys(id)), DeleteKey(id, key)
        PROVE  HM!Next
    <3>1. key \in Hosts
      BY <1>2 DEF FindKeys, IndexInv, IndexTypeOK, ToSet
    <3> QED  BY <1>2, <2>3, <3>1, DeleteKeyRefines DEF HM!Next, FindKeys
  <2>4. CASE UNCHANGED indexVars
    BY <2>4 DEF indexVars, LinkOf, linkAt
  <2> QED  BY <1>2, <2>1, <2>2, <2>3, <2>4 DEF IndexNext
<1> QED  BY <1>1, <1>2, IndexInvariance, PTL DEF IndexSpec, ImplementsHostMap, HM!Spec
=============================================================================
