------------------------------ MODULE HostMap ------------------------------
(***************************************************************************)
(* What the index of AuthConfigs promises its callers: a map from host     *)
(* names to the AuthConfig linked to each.  An operation on one host or on *)
(* one resource leaves every other link alone.                             *)
(***************************************************************************)
CONSTANTS Ids, Hosts, Configs, None

VARIABLE link

Entry == [id: Ids, cfg: Configs]

Init == link = [h \in Hosts |-> None]

Link(id, h, cfg) == link' = [link EXCEPT ![h] = [id |-> id, cfg |-> cfg]]

OwnedBy(id, h) == link[h] # None /\ link[h].id = id

Unlink(id, h) ==
  link' = [link EXCEPT ![h] = IF OwnedBy(id, h) THEN None ELSE link[h]]

UnlinkAll(id) ==
  link' = [h \in Hosts |-> IF OwnedBy(id, h) THEN None ELSE link[h]]

Next ==
  \E id \in Ids :
    \/ \E h \in Hosts, cfg \in Configs : Link(id, h, cfg)
    \/ \E h \in Hosts : Unlink(id, h)
    \/ UnlinkAll(id)

Spec == Init /\ [][Next]_link
=============================================================================
