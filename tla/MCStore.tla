------------------------------ MODULE MCStore ------------------------------
(***************************************************************************)
(* Small instances of Store for TLC.  Keys and threads are interchangeable: *)
(* no definition tells two of them apart.                                   *)
(***************************************************************************)
EXTENDS Store, TLC

Symmetry == Permutations(Keys) \cup Permutations(Threads)
=============================================================================
