---------------------------- MODULE BackendConfig ----------------------------
(***************************************************************************)
(* Which object backend an archive uses: the object_backend, raid_backends *)
(* and bucket fields of .ott/config, the `ott backend` commands that edit  *)
(* them, and the StorageBackend each session builds from them on first use *)
(* and then keeps (OttStore.backend).                                      *)
(*                                                                         *)
(* A bucket stands for a bucket and a prefix.  Environment overrides       *)
(* (OTT_BACKEND, OTT_S3_BUCKET, ...) are unset.  A command reads and       *)
(* writes the config in one step.                                          *)
(***************************************************************************)
EXTENDS Integers, Sequences

CONSTANTS
    Sessions,  \* running ott processes
    Remote,    \* the remote kinds whose client library is installed
    Buckets,   \* remote buckets
    None       \* no bucket

Kinds == {"local"} \cup Remote   \* _BACKEND_KINDS

ASSUME RemoteAssumption == Remote \subseteq {"s3", "gcs"}
ASSUME NoBucketAssumption == None \notin Buckets

VARIABLES
    objectBackend,  \* config's object_backend
    raidBackends,   \* config's raid_backends, <<>> when the key is absent
    bucketOf,       \* config's s3_bucket and gcs_bucket
    backend         \* OttStore._backend of each session: its members, in order

configVars == <<objectBackend, raidBackends, bucketOf>>
backendVars == <<objectBackend, raidBackends, bucketOf, backend>>

Member == [kind : Kinds, bucket : Buckets \cup {None}]
Unbuilt == <<>>

----------------------------------------------------------------------------
\* _build_backend
BuildBackend(kind) ==
    [kind |-> kind, bucket |-> IF kind \in Remote THEN bucketOf[kind] ELSE None]

\* get_backend
ConfiguredKinds == IF objectBackend = "raid" THEN raidBackends ELSE <<objectBackend>>

GetBackend == [i \in DOMAIN ConfiguredKinds |-> BuildBackend(ConfiguredKinds[i])]

\* neither get_backend nor _build_backend raises OttError
Buildable ==
    /\ objectBackend = "raid" => Len(raidBackends) >= 2
    /\ \A i \in DOMAIN ConfiguredKinds :
         ConfiguredKinds[i] \in Remote => bucketOf[ConfiguredKinds[i]] # None

\* members.remove(kind): the first occurrence
Without(members, kind) ==
    LET at == CHOOSE i \in DOMAIN members :
                members[i] = kind /\ \A j \in DOMAIN members : members[j] = kind => i <= j
    IN  [i \in 1 .. Len(members) - 1 |-> IF i < at THEN members[i] ELSE members[i + 1]]

ConfigInit ==
    /\ objectBackend = "local"
    /\ raidBackends = <<>>
    /\ bucketOf = [k \in Remote |-> None]
    /\ backend = [p \in Sessions |-> Unbuilt]

\* Mutant: the backend built before the edit stays in use.
SaveConfig_KeepsBackend(p) == UNCHANGED backend

\* save_config
SaveConfig(p) == backend' = [backend EXCEPT ![p] = Unbuilt]

\* --bucket b is written to kind's own field, if kind is remote and b is given
WriteBucket(kind, b) ==
    bucketOf' = IF kind \in Remote /\ b # None THEN [bucketOf EXCEPT ![kind] = b]
                ELSE bucketOf

BackendSet(p, kind, b) ==
    /\ objectBackend' = kind
    /\ raidBackends' = <<>>
    /\ WriteBucket(kind, b)
    /\ SaveConfig(p)

BackendAdd(p, kind, b) ==
    /\ \A i \in DOMAIN ConfiguredKinds : ConfiguredKinds[i] # kind
    /\ objectBackend' = "raid"
    /\ raidBackends' = Append(ConfiguredKinds, kind)
    /\ WriteBucket(kind, b)
    /\ SaveConfig(p)

\* Mutant: the raid does not collapse to its last member.
BackendRemove_NoCollapse(p, kind) ==
    /\ objectBackend = "raid"
    /\ \E i \in DOMAIN raidBackends : raidBackends[i] = kind
    /\ raidBackends' = Without(raidBackends, kind)
    /\ UNCHANGED <<objectBackend, bucketOf>>
    /\ SaveConfig(p)

BackendRemove(p, kind) ==
    /\ objectBackend = "raid"
    /\ \E i \in DOMAIN raidBackends : raidBackends[i] = kind
    /\ LET members == Without(raidBackends, kind)
       IN  IF Len(members) = 1
           THEN objectBackend' = members[1] /\ raidBackends' = <<>>
           ELSE UNCHANGED objectBackend /\ raidBackends' = members
    /\ UNCHANGED bucketOf
    /\ SaveConfig(p)

\* the first use of OttStore.backend in a session
UseBackend(p) ==
    /\ backend[p] = Unbuilt /\ Buildable
    /\ backend' = [backend EXCEPT ![p] = GetBackend]
    /\ UNCHANGED configVars

ConfigCommand(p) ==
    \/ \E kind \in Kinds, b \in Buckets \cup {None} :
         BackendSet(p, kind, b) \/ BackendAdd(p, kind, b)
    \/ \E kind \in Kinds : BackendRemove(p, kind)

ConfigNext == \E p \in Sessions : ConfigCommand(p) \/ UseBackend(p)

ConfigSpec == ConfigInit /\ [][ConfigNext]_backendVars

----------------------------------------------------------------------------
(* Properties.                                                             *)

\* The type invariant, a part of ObjectStore's.
ConfigTypeOK ==
    /\ objectBackend \in Kinds \cup {"raid"}
    /\ raidBackends \in Seq(Kinds)
    /\ bucketOf \in [Remote -> Buckets \cup {None}]
    /\ backend \in [Sessions -> Seq(Member)]

\* No sequence of set, add and remove leaves a config get_backend refuses for
\* its shape: a raid has at least two members, all different, and a plain
\* backend leaves no member list behind for a later raid to pick up.
RaidWellFormed ==
    /\ objectBackend = "raid" =>
         /\ Len(raidBackends) >= 2
         /\ \A i, j \in DOMAIN raidBackends : raidBackends[i] = raidBackends[j] => i = j
    /\ objectBackend # "raid" => raidBackends = <<>>

\* save_config "resets the cached backend so a change made mid-session takes
\* effect on the very next command": with one session, a backend in use is the
\* one the config describes.
BackendIsCurrent ==
    (\A p, q \in Sessions : p = q) =>
        \A p \in Sessions : backend[p] \in {Unbuilt, GetBackend}
=============================================================================
