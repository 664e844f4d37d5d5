--------------------------- MODULE MCImageLibrary ---------------------------
(***************************************************************************)
(* A small instance of ImageLibrary.  Requests of one sort differ in what  *)
(* they do, not in who they are.                                           *)
(***************************************************************************)
EXTENDS ImageLibrary, TLC

\* A crash and two failing transactions, anywhere.
Twice == [crash |-> 1, fail |-> 2]

Symmetry == Permutations(Upload) \cup Permutations(Delete) \cup Permutations(Edit)
            \cup Permutations(Standard) \cup Permutations(File) \cup Permutations(Kind)

=============================================================================
