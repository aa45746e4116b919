----------------------------- MODULE ApiValues -----------------------------
(***************************************************************************)
(* What the two versions of the AuthConfig API (api/v1beta1, api/v1beta2)  *)
(* are written with.  A pointer is its target or Nil, a Go map a function  *)
(* on the names it holds, a slice a sequence.  A union of pointers, of     *)
(* which one is set, is a function on the names of the fields that are.    *)
(***************************************************************************)
EXTENDS Naturals, SequencesExt

CONSTANTS
  Nil,    \* the nil pointer
  Names,  \* names of evaluators, of properties and of named patterns
  Text    \* strings, the empty one among them

ASSUME EmptyText == "" \in Text

Optional(S) == S \cup {Nil}

MapOf(S) == FoldSet(LAMBDA D, maps : maps \cup [D -> S], {}, SUBSET Names)

Operators == {"", "eq", "neq", "incl", "excl", "matches"}

ResourceAttributes == {"namespace", "group", "resource", "name", "subResource", "verb"}

(***************************************************************************)
(* The raw JSON of a RawExtension: none, a string, or a number with the    *)
(* text it is written with.                                                *)
(***************************************************************************)
NoJson == [kind |-> "none", text |-> ""]

Json == {NoJson} \cup [kind: {"string", "number"}, text: Text]

(***************************************************************************)
(* gjson's String() of a parsed value and encoding/json's Marshal of a     *)
(* string.                                                                 *)
(***************************************************************************)
gjsonString(json) == json.text

jsonMarshal(text) == [kind |-> "string", text |-> text]

(***************************************************************************)
(* The chain of ifs of the GetMethod and GetType functions: the first of   *)
(* the fields that is set.                                                 *)
(***************************************************************************)
firstSet(fields, union) ==
  IF \E i \in DOMAIN fields : fields[i] \in DOMAIN union
  THEN LET i == CHOOSE i \in DOMAIN fields :
                  /\ fields[i] \in DOMAIN union
                  /\ \A j \in 1..(i - 1) : fields[j] \notin DOMAIN union
       IN  fields[i]
  ELSE "unknown"

Unset == <<>>
=============================================================================
