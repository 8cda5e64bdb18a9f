----------------------------- MODULE MCRenames ------------------------------
(***************************************************************************)
(* Renames on a small table: every sequence of at most MaxRequests rename  *)
(* options over the keys, repeated and cyclic ones included.               *)
(***************************************************************************)
EXTENDS Renames

CONSTANTS
  k1, k2, k3, k4,   \* the keys
  MaxRequests       \* bound on the rename options

\* Renames does not tell keys apart, so only sequences in which the keys occur
\* in the order k1, k2, ... for the first time are looked at.
KeyOrder == <<k1, k2, k3, k4>>

Mentioned(r, j) == UNION {{r[k].from, r[k].to} : k \in 1 .. j}

InOrder(r) ==
  \A j \in DOMAIN r : \A a \in 2 .. Len(KeyOrder) :
     /\ KeyOrder[a] = r[j].from => KeyOrder[a - 1] \in Mentioned(r, j - 1)
     /\ KeyOrder[a] = r[j].to => KeyOrder[a - 1] \in Mentioned(r, j - 1) \cup {r[j].from}

MCRequests == {r \in UNION {[1 .. n -> Pair] : n \in 0 .. MaxRequests} : InOrder(r)}
=============================================================================
