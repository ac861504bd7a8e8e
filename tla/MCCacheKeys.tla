---------------------------- MODULE MCCacheKeys ----------------------------
(* Instances of CacheKeys for TLC: accounts, mailboxes, keys and processes    *)
(* are model values, and interchangeable.                                     *)
EXTENDS CacheKeys, TLC

DataSymmetry == Permutations(Names) \union Permutations(Boxes)
Symmetry == DataSymmetry \union Permutations(Keys) \union Permutations(Procs)
=============================================================================
