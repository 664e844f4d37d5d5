---------------------------- MODULE MCInstaller ----------------------------
(***************************************************************************)
(* A small instance of Installer.  Versions have no order of their own.    *)
(***************************************************************************)
EXTENDS Installer, TLC

Symmetry == Permutations(Version)

=============================================================================
