-------------------------------- MODULE MCRepos --------------------------------
(* Two clones of one history and a checkout of another one, both of two        *)
(* commits.  Which of the two is the later one makes no difference.            *)
EXTENDS OttRepos, TLC

CONSTANTS a, b, d1, d2, Revisions

At(d, r) == [dir |-> d, name |-> r]
ThreePaths == {At(d1, a), At(d2, a), At(d1, b)}
FourCommits == [history : {a, b}, n : Revisions]
Symmetry == Permutations(Revisions)
================================================================================
