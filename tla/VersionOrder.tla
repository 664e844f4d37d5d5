---------------------------- MODULE VersionOrder ----------------------------
(***************************************************************************)
(* The comparison of software versions (firmware_upgrade/facts.py).        *)
(*                                                                         *)
(* A version is the sequence of its runs of digits and of letters, as they *)
(* are written; the separators between them are not part of it.  A run is  *)
(* a number, maybe padded with zeros, or a word, maybe in capitals         *)
(* ("varied" in both cases).  Words are numbered in alphabetical order.    *)
(***************************************************************************)
EXTENDS Integers, Sequences

Run == [word : BOOLEAN, value : Nat, varied : BOOLEAN]

\* A part of the key: numbers before words, then by value.
Part == {0, 1} \X Nat

version_key(v) == [i \in DOMAIN v |-> <<IF v[i].word THEN 1 ELSE 0, v[i].value>>]

PartLess(p, q) == p[1] < q[1] \/ (p[1] = q[1] /\ p[2] < q[2])

\* Python's order of tuples: by the first part that differs, a prefix first.
KeyLess(a, b) ==
    \E i \in 1..Len(b) :
        /\ i <= Len(a) + 1
        /\ \A j \in 1..(i - 1) : a[j] = b[j]
        /\ i <= Len(a) => PartLess(a[i], b[i])

\* Variant: the parts are paired up, what is left of the longer key is ignored.
PairedLess(a, b) ==
    \E i \in 1..Len(b) :
        /\ i <= Len(a)
        /\ \A j \in 1..(i - 1) : a[j] = b[j]
        /\ PartLess(a[i], b[i])

CompareInPairs(a, b) ==
    CASE PairedLess(version_key(a), version_key(b)) -> -1
      [] PairedLess(version_key(b), version_key(a)) -> 1
      [] OTHER -> 0

compare_versions(a, b) ==
    CASE KeyLess(version_key(a), version_key(b)) -> -1
      [] KeyLess(version_key(b), version_key(a)) -> 1
      [] OTHER -> 0

=============================================================================
