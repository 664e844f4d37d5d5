---------------------------- MODULE MCCsvImport ----------------------------
(***************************************************************************)
(* A small instance of CsvImport: every file of two lines and names.  The  *)
(* race for the key file is over before the import reads the names, since  *)
(* it has no use for the key, and one request at a time goes on beside it. *)
(***************************************************************************)
EXTENDS CsvImport, TLC

Symmetry ==
    Permutations(Name) \cup Permutations(CredName \ {Blank}) \cup Permutations(Client)

FewBeside ==
    next > 0 =>
        /\ \A p \in Process : Up(p)
        /\ Cardinality({r \in Client : request[r] # None}) <= 1

=============================================================================
