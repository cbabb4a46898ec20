------------------------------ MODULE MCRelocate ------------------------------
(* Directories, names and inodes are interchangeable.                        *)
EXTENDS OttRelocate, TLC

Symmetry == Permutations(Dirs) \cup Permutations(Names) \cup Permutations(Inodes)
===============================================================================
