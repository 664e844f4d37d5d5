-------------------------- MODULE MCFirmwareReport --------------------------
(***************************************************************************)
(* A small instance of FirmwareReport: models of two product lines, every  *)
(* kind of pattern, and versions of different lengths and spellings.       *)
(***************************************************************************)
EXTENDS FirmwareReport

Num(n) == [word |-> FALSE, value |-> n, varied |-> FALSE]
Padded(n) == [word |-> FALSE, value |-> n, varied |-> TRUE]
Word(n) == [word |-> TRUE, value |-> n, varied |-> FALSE]

\* C, CP and D stand for C9300, C9300-48 and a model of another line.
Models == {<<"C">>, <<"C", "P">>, <<"D">>}

\* Nested prefixes of different lengths, a full name and another wildcard.
Patterns == {<<"*">>, <<"C", "*">>, <<"C", "P", "*">>, <<"C", "P">>, <<"?", "P">>}

\* Bound: standards at a time.  Both properties compare two.
FewStandards == Cardinality({k \in Keys : standards[k] # none}) <= 2

\* 9.2, 9.02, 9.2a and 9.2.1.
Versions == {<<Num(9), Num(2)>>, <<Num(9), Padded(2)>>, <<Num(9), Num(2), Word(1)>>,
             <<Num(9), Num(2), Num(1)>>}

=============================================================================
