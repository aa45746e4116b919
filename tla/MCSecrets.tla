----------------------------- MODULE MCSecrets -----------------------------
EXTENDS Secrets

O(key, cert, selected, watched) ==
  [key |-> key, cert |-> cert, selected |-> selected, watched |-> watched]

s1 == "s1"
s2 == "s2"
s3 == "s3"
MCNames == {s1, s2, s3}

\* A key of its own and a key shared with another Secret, a certificate that
\* is replaced and one that is not valid, labels that come and go, and a
\* Secret of another namespace.
MCObjectsOf ==
  [n \in MCNames |->
     CASE n = s1 -> {O("k1", None, TRUE, TRUE), O("k2", "ca1", TRUE, TRUE), O(None, "ca2", TRUE, TRUE)}
       [] n = s2 -> {O("k2", "ca1", TRUE, TRUE), O("k2", "ca1", FALSE, TRUE)}
       [] n = s3 -> {O("k1", None, TRUE, TRUE)}]

MCInScope == {s1, s2}

\* One Secret with an API key.
MCOneName == {s1}
MCOneObjectsOf == [n \in MCOneName |-> {O("k1", None, TRUE, TRUE)}]
=============================================================================
