----------------------------- MODULE OttPromise -----------------------------
(***************************************************************************)
(* What ott promises about files, without its files: a file kept is kept   *)
(* until someone forgets it, and a file anchored by a commit cannot be     *)
(* forgotten any more.                                                     *)
(***************************************************************************)
CONSTANT Files

VARIABLES
    held,      \* the files staged or archived
    anchored   \* the files under some committed root

Init ==
    /\ held = {}
    /\ anchored = {}

\* ott add
Keep(f) ==
    /\ held' = held \cup {f}
    /\ UNCHANGED anchored

\* ott rm
Forget(f) ==
    /\ f \notin anchored
    /\ held' = held \ {f}
    /\ UNCHANGED anchored

\* ott commit
Anchor(files) ==
    /\ files \subseteq held
    /\ anchored' = anchored \cup files
    /\ UNCHANGED held

Next ==
    \/ \E f \in Files : Keep(f) \/ Forget(f)
    \/ \E files \in SUBSET Files : Anchor(files)

Spec == Init /\ [][Next]_<<held, anchored>>
=============================================================================
