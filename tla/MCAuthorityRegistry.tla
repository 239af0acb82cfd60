------------------------ MODULE MCAuthorityRegistry ------------------------
(***************************************************************************)
(* Instances of AuthorityRegistry for TLC.  The configurations differ in    *)
(* which modes, counters and histories they allow.                          *)
(***************************************************************************)
EXTENDS AuthorityRegistry, TLC

\* Holders are interchangeable.
HolderSymmetry == Permutations(Incarnation)
=============================================================================
