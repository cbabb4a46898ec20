----------------------------- MODULE ObjectStore -----------------------------
(***************************************************************************)
(* Where archived bytes live: the object backends of ott.py (local         *)
(* objects, S3 and GCS buckets with their local caches, and RAID over      *)
(* them), and the commands that move bytes through them: the archiving     *)
(* half of commit, backfill, restore/open and verify-objects.              *)
(*                                                                         *)
(* The bytes found under a digest are its content: the file the digest was *)
(* computed from ("whole"), an edited version of it ("altered"), a prefix  *)
(* ("cut"), or nothing.  The workers of a backfill run on different        *)
(* digests and share nothing else, so each digest has its own progress.    *)
(***************************************************************************)
EXTENDS BackendConfig, FiniteSets

CONSTANTS
    Files,        \* digests of images and videos
    Edits,        \* how users change files: subset of {"replace", "inplace"}
    StagedEdits,  \* may a file change between add and commit?
    Races,        \* may a file change, or a copy be lost, while a backfill works on it?
    Losses,       \* what may lose objects: subset of {"local", "bucket", "cache"}
    Outages,      \* may a bucket become unreachable?
    Failures,     \* may storing an object fail for any other reason?
    Crashes       \* may the process be killed while it stores an object?

VARIABLES
    entry,    \* each digest's place in the archive
    disk,     \* what is at its last_path
    objects,  \* .ott/objects
    remote,   \* objects of the buckets, which belong to one remote kind each
    cache,    \* .ott/cache and .ott/cache/gcs: one per kind, not per bucket
    linked,   \* the local copies that are hard links to the file at last_path
    up,       \* the remote kinds that can be reached
    work,     \* the step each session's backfill is at: idle, hash, put, killed
    report    \* what the last command printed: of which file, and the result

objectVars == <<entry, disk, objects, remote, cache, linked, up, work, report>>
allVars == <<backendVars, objectVars>>
copies == <<objects, remote, cache, linked>>

Nothing == [f \in Files |-> "none"]
Waiting == [pc |-> "idle", src |-> "disk"]

ObjectInit ==
    /\ ConfigInit
    /\ entry = [f \in Files |-> "none"]
    /\ disk = [f \in Files |-> "whole"]
    /\ objects = Nothing
    /\ remote = [k \in Remote |-> [b \in Buckets |-> Nothing]]
    /\ cache = [k \in Remote |-> Nothing]
    /\ linked = [f \in Files |-> {}]
    /\ up = Remote
    /\ work = [p \in Sessions |-> [f \in Files |-> Waiting]]
    /\ report = [cmd |-> "none", file |-> None, result |-> "none"]

Busy(p) == \E f \in Files : work[p][f].pc # "idle"
Say(cmd, f, result) == report' = [cmd |-> cmd, file |-> f, result |-> result]

----------------------------------------------------------------------------
(* One member's methods.                                                   *)

\* what the bucket or the objects directory holds
Stored(m, f) == IF m.kind = "local" THEN objects[f] ELSE remote[m.kind][m.bucket][f]
Reachable(m) == m.kind \in up \cup {"local"}
Cached(m, f) == m.kind \in Remote /\ cache[m.kind][f] # "none"

\* exists
Exists(m, f) ==
    IF Cached(m, f) THEN "yes"
    ELSE IF ~Reachable(m) THEN "raises"
    ELSE IF Stored(m, f) # "none" THEN "yes" ELSE "no"

\* ensure_local, apart from the download it leaves in the cache
EnsureLocal(m, f) ==
    IF Cached(m, f) THEN cache[m.kind][f]
    ELSE IF Reachable(m) THEN Stored(m, f) ELSE "raises"

\* size: the bytes it is the size of
Size(m, f) == IF Reachable(m) THEN Stored(m, f) ELSE "raises"

----------------------------------------------------------------------------
(* Storing f: put runs on all members at once.  An outcome says, for each  *)
(* kind, how far it came: "skip" nothing, "short" a part of the object is  *)
(* in the bucket, "uploaded" all of it, "cut" and of the local copy a      *)
(* part, "done"; "fetch" is a download.                                    *)

Members(p) == {backend[p][i] : i \in DOMAIN backend[p]}
Kind(p, k) == \E m \in Members(p) : m.kind = k
Bucket(p, k) == (CHOOSE m \in Members(p) : m.kind = k).bucket

Skipped == [k \in Kinds |-> "skip"]

\* Mutant: what a member has already is written again.
Outcomes_Again(p, f, how) ==
    {o \in [Kinds -> {"skip"} \cup how] : \A k \in Kinds : o[k] # "skip" => Kind(p, k)}

\* put stores nothing on a member that has the object
Outcomes(p, f, how) ==
    {o \in [Kinds -> {"skip"} \cup how] :
       \A k \in Kinds : o[k] # "skip" =>
         \E m \in Members(p) : m.kind = k /\ Exists(m, f) = "no"}

\* Mutant: the cache is warmed although the upload failed.
Warms_Always(p, k, f, o) == Kind(p, k)

\* whether kind k's cache gets a copy: after an upload, or by a download
Warms(p, k, f, o) == o[k] \in {"done", "cut", "fetch"} /\ cache[k][f] = "none"

\* Store the bytes c under f with outcome o; linkable, if a hard link to the
\* source is one to the file at last_path.
Store(p, f, c, linkable, o) ==
    LET fresh == {k \in Kinds : o[k] = "done" /\ (k \in Remote => Warms(p, k, f, o))}
    IN  /\ objects' = [objects EXCEPT ![f] =
                         CASE o["local"] = "done" -> c
                           [] o["local"] = "cut"  -> "cut"
                           [] OTHER               -> @]
        /\ remote' = [k \in Remote |-> [b \in Buckets |->
                        IF o[k] \notin {"skip", "fetch"} /\ b = Bucket(p, k)
                        THEN [remote[k][b] EXCEPT ![f] = IF o[k] = "short" THEN "cut" ELSE c]
                        ELSE remote[k][b]]]
        /\ cache' = [k \in Remote |->
                       IF Warms(p, k, f, o)
                       THEN [cache[k] EXCEPT ![f] = IF o[k] = "cut" THEN "cut" ELSE c]
                       ELSE cache[k]]
        /\ \E links \in SUBSET (IF linkable THEN fresh ELSE {}) :
             linked' = [linked EXCEPT ![f] = @ \cup links]

\* An undisturbed put stores f on every member that answers and lacks it; one
\* whose source is gone stores nothing.
PutOutcomes(p, f, c) ==
    IF c = "none" THEN {Skipped}
    ELSE {o \in Outcomes(p, f, {"done"}) :
            ~Failures => \A k \in Kinds :
               (\E m \in Members(p) : m.kind = k /\ Exists(m, f) = "no") => o[k] = "done"}

\* put returns if some member has or takes the object (a RAID forgets the
\* errors of the others); else it raises, an OSError or another exception
PutResults(p, f, o) ==
    IF \E m \in Members(p) : Exists(m, f) = "yes" \/ o[m.kind] # "skip" THEN {"stored"}
    ELSE IF Len(backend[p]) > 1 THEN {"raises"}
    ELSE IF Kind(p, "local") THEN {"OSError"}
    ELSE {"OSError", "raises"}

----------------------------------------------------------------------------
(* add and commit, as far as the bytes are concerned.                      *)

Stage(p, f) ==
    /\ ~Busy(p)
    /\ entry[f] = "none" /\ disk[f] = "whole"
    /\ entry' = [entry EXCEPT ![f] = "staged"]
    /\ UNCHANGED <<backendVars, disk, copies, up, work, report>>

\* one turn of _absorb_staged: an OSError of put_object leaves an entry
\* without a copy, any other exception ends the commit
Absorb(p, f) ==
    /\ ~Busy(p) /\ backend[p] # Unbuilt
    /\ entry[f] = "staged" /\ disk[f] # "none"
    /\ \E o \in PutOutcomes(p, f, disk[f]) : \E r \in PutResults(p, f, o) :
         /\ Store(p, f, disk[f], TRUE, o)
         /\ entry' = IF r = "raises" THEN entry ELSE [entry EXCEPT ![f] = "archived"]
    /\ UNCHANGED <<backendVars, disk, up, work, report>>

----------------------------------------------------------------------------
(* backfill, for one digest: skip it if it is fully stored; choose a       *)
(* source; re-hash the source; store it.                                   *)

\* Mutant: any member that has the object is enough (RAID's exists).
IsFullyStored_Any(p, f) ==
    IF \E m \in Members(p) : Exists(m, f) = "yes" THEN "yes"
    ELSE IF \E m \in Members(p) : Exists(m, f) = "raises" THEN "raises" ELSE "no"

\* all(m.exists(sha256) for m in members): the first answer but "yes"
IsFullyStored(p, f) ==
    LET answer == [i \in DOMAIN backend[p] |-> Exists(backend[p][i], f)]
        decides(i) == answer[i] # "yes" /\ \A j \in 1 .. i - 1 : answer[j] = "yes"
    IN  IF \A i \in DOMAIN answer : answer[i] = "yes" THEN "yes"
        ELSE answer[CHOOSE i \in DOMAIN answer : decides(i)]

Source(src, f) == IF src = "disk" THEN disk[f] ELSE objects[f]

BackfillCheck(p, f) ==
    /\ backend[p] # Unbuilt
    /\ entry[f] = "archived" /\ work[p][f].pc = "idle"
    /\ LET stored == IsFullyStored(p, f)
           src == IF disk[f] # "none" THEN "disk" ELSE "object"
       IN  IF stored = "no" /\ Source(src, f) # "none"
           THEN /\ work' = [work EXCEPT ![p][f] = [pc |-> "hash", src |-> src]]
                /\ UNCHANGED report
           ELSE /\ Say("backfill", f, CASE stored = "yes" -> "had"
                                        [] stored = "raises" -> "failed"
                                        [] OTHER -> "missing")
                /\ UNCHANGED work
    /\ UNCHANGED <<backendVars, entry, disk, copies, up>>

\* _recompute_digest hashes a video by chunks, anything else whole, as add does
\* (but for audio, which add chunks too and the model therefore leaves out)
Rehash(p, f) == Source(work[p][f].src, f)

\* Mutant: the source is not hashed again.
BackfillHash_Skipped(p, f) ==
    /\ work[p][f].pc = "hash"
    /\ work' = [work EXCEPT ![p][f].pc = "put"]
    /\ UNCHANGED <<backendVars, entry, disk, copies, up, report>>

BackfillHash(p, f) ==
    /\ work[p][f].pc = "hash"
    /\ IF Rehash(p, f) = "whole"
       THEN work' = [work EXCEPT ![p][f].pc = "put"] /\ UNCHANGED report
       ELSE /\ work' = [work EXCEPT ![p][f] = Waiting]
            /\ Say("backfill", f, IF Rehash(p, f) = "none" THEN "error" ELSE "changed")
    /\ UNCHANGED <<backendVars, entry, disk, copies, up>>

BackfillPut(p, f) ==
    /\ work[p][f].pc = "put"
    /\ LET src == work[p][f].src
           c == Source(src, f)
       IN  \E o \in PutOutcomes(p, f, c) : \E r \in PutResults(p, f, o) :
             /\ Store(p, f, c, src = "disk" \/ "local" \in linked[f], o)
             /\ Say("backfill", f, CASE r = "stored"  -> "done"
                                     [] r = "OSError" -> "error"
                                     [] OTHER         -> "failed")
    /\ work' = [work EXCEPT ![p][f] = Waiting]
    /\ UNCHANGED <<backendVars, entry, disk, up>>

----------------------------------------------------------------------------
(* restore, open: RAID reads from the first member that has the object and *)
(* writes it back to the members before it.                                *)

\* Mutant: only the first member is asked.
Answering_First(p, f) == {1}

\* where the reading loop stops: the object is found, or a member raises
Answering(p, f) ==
    {i \in DOMAIN backend[p] :
       /\ EnsureLocal(backend[p][i], f) # "none"
       /\ \A j \in 1 .. i - 1 : EnsureLocal(backend[p][j], f) = "none"}

\* Mutant: nothing is written back.
Heals_Not(p, i, o) == \A j \in 1 .. i - 1 : o[backend[p][j].kind] = "skip"

\* the object is written back to the members before i, failures ignored
Heals(p, i, o) ==
    \A j \in 1 .. i - 1 :
        o[backend[p][j].kind] \in IF Failures THEN {"skip", "done"} ELSE {"done"}

\* what is read from member i and left in its cache
Found(p, f, i) ==
    LET m == backend[p][i]
        c == EnsureLocal(m, f)
    IN  /\ \E o \in [Kinds -> {"skip", "done", "fetch"}] :
             /\ Heals(p, i, o)
             /\ \A k \in Kinds :
                  o[k] = "done" => \E j \in 1 .. i - 1 : backend[p][j].kind = k
             /\ \A k \in Kinds : o[k] = "fetch" <=> (k = m.kind /\ ~Cached(m, f))
             /\ Store(p, f, c, m.kind \in linked[f], o)
        /\ Say("read", f, c)

Read(p, f) ==
    /\ ~Busy(p) /\ backend[p] # Unbuilt
    /\ entry[f] = "archived"
    /\ \/ \E i \in Answering(p, f) :
            IF EnsureLocal(backend[p][i], f) = "raises"
            THEN Say("read", f, "failed") /\ UNCHANGED copies
            ELSE Found(p, f, i)
       \/ Answering(p, f) = {} /\ Say("read", f, "none") /\ UNCHANGED copies
    /\ UNCHANGED <<backendVars, entry, disk, up, work>>

----------------------------------------------------------------------------
\* verify-objects, for one digest: the size found on the first member that
\* has one is compared with the manifest's (which is never 0: no file is empty)
VerifyObject(p, f) ==
    /\ ~Busy(p) /\ backend[p] # Unbuilt
    /\ entry[f] = "archived"
    /\ LET size(i) == Size(backend[p][i], f)
           first == {i \in DOMAIN backend[p] :
                       size(i) # "none" /\ \A j \in 1 .. i - 1 : size(j) = "none"}
       IN  \/ first = {} /\ Say("verify", f, "missing")
           \/ \E i \in first :
                 \/ size(i) \in {"whole", "altered"} /\ Say("verify", f, "verified")
                 \/ size(i) \in {"altered", "cut"} /\ Say("verify", f, "mismatched")
                 \/ size(i) = "raises" /\ Say("verify", f, "failed")
    /\ UNCHANGED <<backendVars, entry, disk, copies, up, work>>

----------------------------------------------------------------------------
(* The environment.                                                        *)

\* The process is about to be killed while it stores f: on each member the
\* upload or the copy has come some way.
Interrupt(p, f) ==
    LET archiving == ~Busy(p) /\ backend[p] # Unbuilt /\ entry[f] = "staged"
        src == work[p][f].src
        c == Source(src, f)
    IN  /\ Crashes
        /\ archiving \/ work[p][f].pc = "put"
        /\ c # "none"
        /\ \E o \in Outcomes(p, f, {"done", "cut", "uploaded", "short"}) :
             Store(p, f, c, src = "disk" \/ "local" \in linked[f], o)
        /\ work' = [work EXCEPT ![p][f].pc = "killed"]
        /\ UNCHANGED <<backendVars, entry, disk, up, report>>

Restart(p) ==
    /\ Crashes
    /\ work' = [work EXCEPT ![p] = [f \in Files |-> Waiting]]
    /\ backend' = [backend EXCEPT ![p] = Unbuilt]
    /\ UNCHANGED <<configVars, entry, disk, copies, up, report>>

\* no backfill is at work on f, unless the instance asks for races with one
Undisturbed(f) == Races \/ \A p \in Sessions : work[p][f].pc = "idle"

Touchable(f) ==
    /\ disk[f] # "none"
    /\ StagedEdits \/ entry[f] # "staged"
    /\ Undisturbed(f)

\* Another file takes its place at last_path.
Replace(f) ==
    /\ "replace" \in Edits /\ Touchable(f)
    /\ disk' = [disk EXCEPT ![f] = "altered"]
    /\ linked' = [linked EXCEPT ![f] = {}]
    /\ UNCHANGED <<backendVars, entry, objects, remote, cache, up, work, report>>

\* It is rewritten in place, and with it whatever shares its inode.
Rewrite(f) ==
    /\ "inplace" \in Edits /\ Touchable(f)
    /\ disk' = [disk EXCEPT ![f] = "altered"]
    /\ objects' = [objects EXCEPT ![f] = IF "local" \in linked[f] THEN "altered" ELSE @]
    /\ cache' = [k \in Remote |-> IF k \in linked[f]
                                  THEN [cache[k] EXCEPT ![f] = "altered"] ELSE cache[k]]
    /\ UNCHANGED <<backendVars, entry, remote, linked, up, work, report>>

Delete(f) ==
    /\ Touchable(f)
    /\ disk' = [disk EXCEPT ![f] = "none"]
    /\ linked' = [linked EXCEPT ![f] = {}]
    /\ UNCHANGED <<backendVars, entry, objects, remote, cache, up, work, report>>

Lose(f) ==
    /\ Undisturbed(f)
    /\ \/ /\ "local" \in Losses
          /\ objects' = [objects EXCEPT ![f] = "none"]
          /\ linked' = [linked EXCEPT ![f] = @ \ {"local"}]
          /\ UNCHANGED <<remote, cache>>
       \/ /\ "bucket" \in Losses
          /\ \E k \in Remote, b \in Buckets : remote' = [remote EXCEPT ![k][b][f] = "none"]
          /\ UNCHANGED <<objects, cache, linked>>
       \/ /\ "cache" \in Losses
          /\ \E k \in Remote : /\ cache' = [cache EXCEPT ![k][f] = "none"]
                               /\ linked' = [linked EXCEPT ![f] = @ \ {k}]
          /\ UNCHANGED <<objects, remote>>
    /\ UNCHANGED <<backendVars, entry, disk, up, work, report>>

Outage ==
    /\ Outages
    /\ \E k \in Remote : up' = IF k \in up THEN up \ {k} ELSE up \cup {k}
    /\ UNCHANGED <<backendVars, entry, disk, copies, work, report>>

----------------------------------------------------------------------------
Configure(p) ==
    /\ ~Busy(p)
    /\ ConfigCommand(p) \/ UseBackend(p)
    /\ UNCHANGED objectVars

Archiving(p, f) ==
    \/ Stage(p, f) \/ Absorb(p, f)
    \/ BackfillCheck(p, f) \/ BackfillHash(p, f) \/ BackfillPut(p, f)
    \/ Read(p, f) \/ VerifyObject(p, f)

Mishap ==
    \/ \E f \in Files : Replace(f) \/ Rewrite(f) \/ Delete(f) \/ Lose(f)
    \/ \E p \in Sessions : Restart(p) \/ \E f \in Files : Interrupt(p, f)
    \/ Outage

ObjectNext ==
    \/ \E p \in Sessions : Configure(p) \/ \E f \in Files : Archiving(p, f)
    \/ Mishap

ObjectSpec == ObjectInit /\ [][ObjectNext]_allVars

----------------------------------------------------------------------------
(* Properties.                                                             *)

\* "the cache is disposable, never the source of truth" (S3StorageBackend): a
\* cached copy implies an object in a bucket of that kind.
CacheBacked ==
    \A k \in Remote, f \in Files :
        cache[k][f] # "none" => \E b \in Buckets : remote[k][b][f] # "none"

\* "Content-addressed storage's whole invariant is key == hash(value)"
\* (_recompute_digest): no complete object of another content is ever stored.
KeyMatchesContent ==
    \A f \in Files :
        /\ objects[f] # "altered"
        /\ \A k \in Remote, b \in Buckets : remote[k][b][f] # "altered"

Says(cmd, result) == report'.cmd = cmd /\ report'.result = result
Holds(p, f) == {i \in DOMAIN backend[p] : Stored(backend[p][i], f) # "none"}
Lacks(p, f) == DOMAIN backend[p] \ Holds(p, f)

\* backfill's answers are true: what it counts as "already stored" is on every
\* member of the active backend, and what it counts as stored now is on some
\* member, on all of them when all can be reached.
BackfillTruthful ==
    [][\A p \in Sessions, f \in Files :
         /\ BackfillCheck(p, f) /\ UNCHANGED work /\ Says("backfill", "had")
              => Lacks(p, f) = {}
         /\ BackfillPut(p, f) /\ Says("backfill", "done")
              => /\ Holds(p, f)' # {}
                 /\ up = Remote => Lacks(p, f)' = {}]_allVars

\* ensure_local returns None only "if the object isn't stored anywhere".
ReadFinds ==
    [][\A p \in Sessions, f \in Files :
         Read(p, f) /\ Says("read", "none") => Holds(p, f) = {}]_allVars

\* RAID's ensure_local "self-heals": after a read the first member, too, has
\* the object, whichever member it was read from.
ReadHeals ==
    [][\A p \in Sessions, f \in Files :
         Read(p, f) /\ report'.result \notin {"none", "failed"}
           => 1 \in Holds(p, f)']_allVars

\* put is a "no-op if already stored": whatever is stored, healed, downloaded or
\* cut short, every copy that was whole is whole afterwards.
WholeCopiesKept ==
    [][\A p \in Sessions, f \in Files :
         Archiving(p, f) \/ Interrupt(p, f) =>
           \A g \in Files :
             /\ objects[g] = "whole" => objects'[g] = "whole"
             /\ \A k \in Remote :
                  /\ cache[k][g] = "whole" => cache'[k][g] = "whole"
                  /\ \A b \in Buckets :
                       remote[k][b][g] = "whole" => remote'[k][b][g] = "whole"]_allVars

\* What ensure_local promises, "this object's bytes": a read hands out the whole
\* object.  A kill inside a copy breaks this.
ReadsWhole ==
    [][\A p \in Sessions, f \in Files :
         Read(p, f) => report'.result \in {"whole", "none", "failed"}]_allVars

\* "this isn't a substitute for a real scrub/audit across the whole array (see
\* verify-objects)": what verify-objects calls verified is on every member.  The
\* code breaks this: the first member that has a size is the only one asked.
VerifiedOnAll ==
    [][\A p \in Sessions, f \in Files :
         VerifyObject(p, f) /\ Says("verify", "verified") => Lacks(p, f) = {}]_allVars
=============================================================================
