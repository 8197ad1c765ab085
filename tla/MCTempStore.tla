------------------------------- MODULE MCTempStore -------------------------------
(* TempStore for TLC: two installers and one sweep around one staging       *)
(* directory.                                                               *)
EXTENDS TempStore, TLC


\* Installers are interchangeable, and so are inodes; only safety is checked.
MCSymmetry == Permutations(Installers) \cup Permutations(Inodes)
================================================================================
