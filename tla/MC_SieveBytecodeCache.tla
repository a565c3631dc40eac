---------------------- MODULE MC_SieveBytecodeCache ----------------------
(* Two names, three inodes (enough for a name to be replaced while both   *)
(* others are mapped), a handle of up to three mapped files.              *)
EXTENDS SieveBytecodeCache, TLC

CONSTANTS p1, p2, n1, n2, n3, none

\* names and inodes are only compared for equality
CacheSymmetry == Permutations({p1, p2}) \cup Permutations({n1, n2, n3})
=============================================================================
