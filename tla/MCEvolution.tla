----------------------------- MODULE MCEvolution -----------------------------
(***************************************************************************)
(* Instances of Evolution for TLC.  The configurations differ in what       *)
(* operators do and in which faults happen.                                 *)
(***************************************************************************)
EXTENDS Evolution

MCIncarnation == [comp: Component, boot: 1..MaxBoot]
=============================================================================
