-------------------------- MODULE ObjectStoreProofs --------------------------
(***************************************************************************)
(* The object storage and its configuration, for any sessions, digests and *)
(* buckets.                                                                *)
(*                                                                         *)
(* The configuration: ConfigTypeOK and RaidWellFormed together are         *)
(* inductive, and with a single session so is BackendIsCurrent.  The one   *)
(* operation with content is `backend remove`, whose list.remove is        *)
(* WithoutFacts.                                                           *)
(*                                                                         *)
(* The storage: every change of it is one Store, whose effect is Stores,   *)
(* place by place (StoreEffect).  StoreInv is inductive under anything;    *)
(* each property then needs the mishaps it excludes and no more.           *)
(***************************************************************************)
EXTENDS ObjectStore, ProofBasics

Distinct(members) ==
    \A i, j \in DOMAIN members : members[i] = members[j] => i = j

\* list.remove on a list of different members that has the element: one
\* shorter, and still of different members.
LEMMA WithoutFacts ==
    ASSUME NEW members \in Seq(Kinds), NEW kind, Distinct(members),
           \E i \in DOMAIN members : members[i] = kind
    PROVE  /\ Without(members, kind) \in Seq(Kinds)
           /\ Len(Without(members, kind)) = Len(members) - 1
           /\ Distinct(Without(members, kind))
<1> DEFINE First(i) == /\ members[i] = kind
                       /\ \A j \in DOMAIN members : members[j] = kind => i <= j
           at == CHOOSE i \in DOMAIN members : First(i)
           w == [i \in 1 .. Len(members) - 1 |-> IF i < at THEN members[i] ELSE members[i + 1]]
<1>1. Len(members) \in Nat /\ DOMAIN members = 1 .. Len(members)
  OBVIOUS
<1>2. PICK n \in DOMAIN members : members[n] = kind
  OBVIOUS
<1>3. First(n)
  BY <1>1, <1>2 DEF Distinct
<1>4. at \in DOMAIN members
  BY <1>3
<1>5. Without(members, kind) = w
  BY DEF Without
<1> HIDE DEF at
<1>6. \A i \in 1 .. Len(members) - 1 : w[i] \in Kinds
  BY <1>1, <1>4
<1>7. w \in Seq(Kinds) /\ Len(w) = Len(members) - 1 /\ DOMAIN w = 1 .. Len(members) - 1
  BY <1>1, <1>4, <1>6
<1>8. ASSUME NEW i \in DOMAIN w, NEW j \in DOMAIN w, w[i] = w[j]
      PROVE  i = j
  BY <1>1, <1>4, <1>7, <1>8 DEF Distinct
<1> QED
  BY <1>5, <1>7, <1>8 DEF Distinct

ConfigInv == ConfigTypeOK /\ RaidWellFormed

LEMMA ConfiguredKindsFacts ==
    ASSUME ConfigInv
    PROVE  ConfiguredKinds \in Seq(Kinds) /\ Distinct(ConfiguredKinds)
                /\ Len(ConfiguredKinds) >= 1
<1>1. CASE objectBackend = "raid"
  BY <1>1 DEF ConfigInv, ConfigTypeOK, RaidWellFormed, ConfiguredKinds, Distinct
<1>2. CASE objectBackend # "raid"
  <2>1. objectBackend \in Kinds
    BY <1>2 DEF ConfigInv, ConfigTypeOK
  <2>2. ConfiguredKinds = <<objectBackend>>
    BY <1>2 DEF ConfiguredKinds
  <2> QED
    BY <2>1, <2>2 DEF Distinct
<1> QED
  BY <1>1, <1>2

LEMMA GetBackendType ==
    ASSUME ConfigInv
    PROVE  GetBackend \in Seq(Member)
<1>1. ConfiguredKinds \in Seq(Kinds)
  BY ConfiguredKindsFacts
<1>2. \A i \in DOMAIN ConfiguredKinds : BuildBackend(ConfiguredKinds[i]) \in Member
  BY <1>1 DEF BuildBackend, Member, Kinds, ConfigInv, ConfigTypeOK
<1>3. DOMAIN ConfiguredKinds = 1 .. Len(ConfiguredKinds) /\ Len(ConfiguredKinds) \in Nat
  BY <1>1
<1> QED
  BY <1>2, <1>3 DEF GetBackend

LEMMA WriteBucketType ==
    ASSUME ConfigInv, NEW kind \in Kinds, NEW b \in Buckets \cup {None},
           WriteBucket(kind, b)
    PROVE  bucketOf' \in [Remote -> Buckets \cup {None}]
  BY DEF WriteBucket, ConfigInv, ConfigTypeOK

LEMMA SaveConfigType ==
    ASSUME ConfigInv, NEW p \in Sessions, SaveConfig(p)
    PROVE  backend' \in [Sessions -> Seq(Member)]
<1>1. Unbuilt \in Seq(Member)
  BY DEF Unbuilt
<1> QED
  BY <1>1 DEF SaveConfig, ConfigInv, ConfigTypeOK

LEMMA ConfigInvInit == ConfigInit => ConfigInv
<1> SUFFICES ASSUME ConfigInit PROVE ConfigInv
  OBVIOUS
<1>1. Unbuilt \in Seq(Member) /\ <<>> \in Seq(Kinds)
  BY DEF Unbuilt
<1> QED
  BY <1>1 DEF ConfigInit, ConfigInv, ConfigTypeOK, RaidWellFormed, Kinds

LEMMA ConfigInvStep == ConfigInv /\ [ConfigNext]_backendVars => ConfigInv'
<1> SUFFICES ASSUME ConfigInv, [ConfigNext]_backendVars PROVE ConfigInv'
  OBVIOUS
<1>1. ASSUME NEW p \in Sessions, NEW kind \in Kinds, NEW b \in Buckets \cup {None},
             BackendSet(p, kind, b)
      PROVE  ConfigInv'
  <2>1. objectBackend' = kind /\ raidBackends' = <<>> /\ kind # "raid"
    BY <1>1, RemoteAssumption DEF BackendSet, Kinds
  <2>2. /\ bucketOf' \in [Remote -> Buckets \cup {None}]
        /\ backend' \in [Sessions -> Seq(Member)]
    BY <1>1, WriteBucketType, SaveConfigType DEF BackendSet
  <2>3. raidBackends' \in Seq(Kinds)
    BY <2>1
  <2> QED
    BY <2>1, <2>2, <2>3 DEF ConfigInv, ConfigTypeOK, RaidWellFormed
<1>2. ASSUME NEW p \in Sessions, NEW kind \in Kinds, NEW b \in Buckets \cup {None},
             BackendAdd(p, kind, b)
      PROVE  ConfigInv'
  <2> DEFINE K == ConfiguredKinds
  <2>1. K \in Seq(Kinds) /\ Distinct(K) /\ Len(K) >= 1
    BY ConfiguredKindsFacts
  <2>2. /\ \A i \in DOMAIN K : K[i] # kind
        /\ objectBackend' = "raid" /\ raidBackends' = Append(K, kind)
    BY <1>2 DEF BackendAdd
  <2>3. /\ bucketOf' \in [Remote -> Buckets \cup {None}]
        /\ backend' \in [Sessions -> Seq(Member)]
    BY <1>2, WriteBucketType, SaveConfigType DEF BackendAdd
  <2> HIDE DEF K
  <2>4. /\ Append(K, kind) \in Seq(Kinds) /\ Len(Append(K, kind)) = Len(K) + 1
        /\ DOMAIN Append(K, kind) = 1 .. Len(K) + 1
        /\ \A i \in 1 .. Len(K) : Append(K, kind)[i] = K[i]
        /\ Append(K, kind)[Len(K) + 1] = kind
        /\ Len(K) \in Nat /\ DOMAIN K = 1 .. Len(K)
    BY <2>1
  <2>5. Distinct(Append(K, kind))
    <3> SUFFICES ASSUME NEW i \in 1 .. Len(K) + 1, NEW j \in 1 .. Len(K) + 1,
                        Append(K, kind)[i] = Append(K, kind)[j]
                 PROVE  i = j
      BY <2>4 DEF Distinct
    <3>1. CASE i \in 1 .. Len(K) /\ j \in 1 .. Len(K)
      BY <2>1, <2>4, <3>1 DEF Distinct
    <3>2. CASE i = Len(K) + 1 \/ j = Len(K) + 1
      BY <2>2, <2>4, <3>2
    <3> QED
      BY <2>4, <3>1, <3>2
  <2> QED
    BY <2>1, <2>2, <2>3, <2>4, <2>5 DEF ConfigInv, ConfigTypeOK, RaidWellFormed, Distinct
<1>3. ASSUME NEW p \in Sessions, NEW kind \in Kinds, BackendRemove(p, kind)
      PROVE  ConfigInv'
  <2> DEFINE members == Without(raidBackends, kind)
  <2>1. /\ objectBackend = "raid" /\ \E i \in DOMAIN raidBackends : raidBackends[i] = kind
        /\ bucketOf' = bucketOf
        /\ IF Len(members) = 1
           THEN objectBackend' = members[1] /\ raidBackends' = <<>>
           ELSE objectBackend' = objectBackend /\ raidBackends' = members
    BY <1>3 DEF BackendRemove
  <2>2. backend' \in [Sessions -> Seq(Member)]
    BY <1>3, SaveConfigType DEF BackendRemove
  <2>3. raidBackends \in Seq(Kinds) /\ Distinct(raidBackends) /\ Len(raidBackends) >= 2
    BY <2>1 DEF ConfigInv, ConfigTypeOK, RaidWellFormed, Distinct
  <2>4. /\ members \in Seq(Kinds) /\ Len(members) = Len(raidBackends) - 1
        /\ Distinct(members)
    BY <2>1, <2>3, WithoutFacts
  <2> HIDE DEF members
  <2>5. CASE Len(members) = 1
    <3>1. members[1] \in Kinds
      <4>1. \A i \in 1 .. Len(members) : members[i] \in Kinds
        BY <2>4
      <4> QED
        BY <2>5, <4>1
    <3>2. <<>> \in Seq(Kinds)
      OBVIOUS
    <3> QED
      BY <2>1, <2>2, <2>5, <3>1, <3>2, RemoteAssumption
         DEF ConfigInv, ConfigTypeOK, RaidWellFormed, Kinds
  <2>6. CASE Len(members) # 1
    <3>1. Len(members) >= 2
      BY <2>3, <2>4, <2>6
    <3> QED
      BY <2>1, <2>2, <2>4, <2>6, <3>1 DEF ConfigInv, ConfigTypeOK, RaidWellFormed, Distinct
  <2> QED
    BY <2>5, <2>6
<1>4. ASSUME NEW p \in Sessions, UseBackend(p)
      PROVE  ConfigInv'
  BY <1>4, GetBackendType DEF UseBackend, configVars, ConfigInv, ConfigTypeOK, RaidWellFormed
<1>5. CASE UNCHANGED backendVars
  BY <1>5 DEF backendVars, ConfigInv, ConfigTypeOK, RaidWellFormed
<1> QED
  BY <1>1, <1>2, <1>3, <1>4, <1>5 DEF ConfigNext, ConfigCommand

\* get_backend and RaidStorageBackend refuse a raid of fewer than two members:
\* no sequence of `backend` commands in any number of sessions writes one.
THEOREM RaidShape == ConfigSpec => []RaidWellFormed
<1>1. ConfigInv => RaidWellFormed
  BY DEF ConfigInv
<1> QED
  BY ConfigInvInit, ConfigInvStep, <1>1, PTL DEF ConfigSpec

LEMMA CurrentStep ==
    ConfigInv /\ BackendIsCurrent /\ [ConfigNext]_backendVars => BackendIsCurrent'
<1> SUFFICES ASSUME ConfigInv, BackendIsCurrent, [ConfigNext]_backendVars,
                    \A p, q \in Sessions : p = q, NEW q \in Sessions
             PROVE  backend'[q] = Unbuilt \/ backend'[q] = GetBackend'
  BY DEF BackendIsCurrent
<1>1. ASSUME NEW p \in Sessions, ConfigCommand(p)
      PROVE  backend'[q] = Unbuilt
  <2>1. SaveConfig(p)
    BY <1>1 DEF ConfigCommand, BackendSet, BackendAdd, BackendRemove
  <2> QED
    BY <2>1 DEF SaveConfig, ConfigInv, ConfigTypeOK
<1>2. ASSUME NEW p \in Sessions, UseBackend(p)
      PROVE  backend'[q] = GetBackend'
  <2>1. GetBackend' = GetBackend
    BY <1>2 DEF UseBackend, configVars, GetBackend, ConfiguredKinds, BuildBackend
  <2> QED
    BY <1>2, <2>1 DEF UseBackend, ConfigInv, ConfigTypeOK
<1>3. CASE UNCHANGED backendVars
  <2>1. GetBackend' = GetBackend
    BY <1>3 DEF backendVars, GetBackend, ConfiguredKinds, BuildBackend
  <2> QED
    BY <1>3, <2>1 DEF backendVars, BackendIsCurrent
<1> QED
  BY <1>1, <1>2, <1>3 DEF ConfigNext

\* save_config's promise that a change takes effect on the very next command:
\* in one session, no command works with a backend the config has moved on from.
THEOREM BackendCurrent == ConfigSpec => []BackendIsCurrent
<1>1. ConfigInit => BackendIsCurrent
  BY DEF ConfigInit, BackendIsCurrent
<1> QED
  BY ConfigInvInit, ConfigInvStep, CurrentStep, <1>1, PTL DEF ConfigSpec
----------------------------------------------------------------------------
(* The object storage.                                                     *)

Bytes == {"none", "whole", "altered", "cut"}
Puts == {"short", "uploaded", "cut", "done"}
Hows == {"skip", "fetch"} \cup Puts
Works == [pc : {"idle", "hash", "put", "killed"}, src : {"disk", "object"}]

ObjectTypes ==
    /\ entry \in [Files -> {"none", "staged", "archived"}]
    /\ disk \in [Files -> {"none", "whole", "altered"}]
    /\ objects \in [Files -> Bytes]
    /\ remote \in [Remote -> [Buckets -> [Files -> Bytes]]]
    /\ cache \in [Remote -> [Files -> Bytes]]
    /\ linked \in [Files -> SUBSET Kinds]
    /\ up \in SUBSET Remote
    /\ work \in [Sessions -> [Files -> Works]]

\* a session's backend has one member per kind, and each remote one a bucket
BackendsBuilt ==
    \A p \in Sessions : \A i \in DOMAIN backend[p] :
        /\ backend[p][i].kind \in Remote => backend[p][i].bucket \in Buckets
        /\ \A j \in DOMAIN backend[p] : backend[p][i].kind = backend[p][j].kind => i = j

\* what is linked to a file at last_path is there
LinkedCached == \A f \in Files : \A k \in Remote : k \in linked[f] => cache[k][f] # "none"

StoreInv == ConfigInv /\ BackendsBuilt /\ ObjectTypes /\ LinkedCached

----------------------------------------------------------------------------
(* What storing does.                                                      *)

\* session p's member of kind k does not have f
Free(p, k, f) ==
    IF k = "local" THEN objects[f] = "none" ELSE remote[k][Bucket(p, k)][f] = "none"

\* the outcome o of storing the bytes c is one that a put, or a read, can have
Sound(p, f, c, o) ==
    /\ c \in Bytes /\ o \in [Kinds -> Hows]
    /\ c = "none" => o = Skipped
    /\ \A k \in Kinds : o[k] \in Puts => Kind(p, k)
    /\ \A k \in Remote : o[k] = "fetch" => \E b \in Buckets : remote[k][b][f] # "none"
    /\ \A k \in Kinds : o[k] \in Puts => Free(p, k, f)

\* Store, place by place
Stores(p, f, c, o) ==
    /\ \A g \in Files :
         objects'[g] = IF g = f /\ o["local"] = "done" THEN c
                       ELSE IF g = f /\ o["local"] = "cut" THEN "cut" ELSE objects[g]
    /\ \A k \in Remote, b \in Buckets, g \in Files :
         remote'[k][b][g] =
            IF g = f /\ o[k] \in Puts /\ b = Bucket(p, k)
            THEN (IF o[k] = "short" THEN "cut" ELSE c) ELSE remote[k][b][g]
    /\ \A k \in Remote, g \in Files :
         cache'[k][g] = IF g = f /\ Warms(p, k, f, o)
                        THEN (IF o[k] = "cut" THEN "cut" ELSE c) ELSE cache[k][g]
    /\ \A k \in Remote, g \in Files :
         k \in linked'[g] => \/ k \in linked[g]
                             \/ g = f /\ o[k] = "done" /\ Warms(p, k, f, o)

LEMMA StoreEffect ==
    ASSUME ObjectTypes, NEW p \in Sessions, NEW f \in Files, NEW c \in Bytes,
           NEW o \in [Kinds -> Hows], NEW l \in BOOLEAN, Store(p, f, c, l, o)
    PROVE  /\ Stores(p, f, c, o)
           /\ objects' \in [Files -> Bytes]
           /\ remote' \in [Remote -> [Buckets -> [Files -> Bytes]]]
           /\ cache' \in [Remote -> [Files -> Bytes]]
           /\ linked' \in [Files -> SUBSET Kinds]
<1>1. /\ objects' \in [Files -> Bytes]
      /\ \A g \in Files :
           objects'[g] = IF g = f /\ o["local"] = "done" THEN c
                         ELSE IF g = f /\ o["local"] = "cut" THEN "cut" ELSE objects[g]
  <2> DEFINE x == CASE o["local"] = "done" -> c
                    [] o["local"] = "cut"  -> "cut"
                    [] OTHER               -> objects[f]
  <2>1. x \in Bytes
    BY DEF ObjectTypes, Bytes
  <2>2. x = IF o["local"] = "done" THEN c ELSE IF o["local"] = "cut" THEN "cut" ELSE objects[f]
    OBVIOUS
  <2>3. objects' = [objects EXCEPT ![f] = x]
    BY DEF Store
  <2> HIDE DEF x
  <2>4. QED
    BY <2>1, <2>2, <2>3 DEF ObjectTypes
<1>2. /\ remote' \in [Remote -> [Buckets -> [Files -> Bytes]]]
      /\ \A k \in Remote, b \in Buckets, g \in Files :
           remote'[k][b][g] =
              IF g = f /\ o[k] \in Puts /\ b = Bucket(p, k)
              THEN (IF o[k] = "short" THEN "cut" ELSE c) ELSE remote[k][b][g]
  <2>1. \A k \in Remote : o[k] \in Puts <=> o[k] \notin {"skip", "fetch"}
    BY DEF Kinds, Hows, Puts
  <2>2. remote' = [k \in Remote |-> [b \in Buckets |->
                        IF o[k] \notin {"skip", "fetch"} /\ b = Bucket(p, k)
                        THEN [remote[k][b] EXCEPT ![f] = IF o[k] = "short" THEN "cut" ELSE c]
                        ELSE remote[k][b]]]
    BY DEF Store
  <2>3. QED
    BY <2>1, <2>2 DEF ObjectTypes, Bytes
<1>3. /\ cache' \in [Remote -> [Files -> Bytes]]
      /\ \A k \in Remote, g \in Files :
           cache'[k][g] = IF g = f /\ Warms(p, k, f, o)
                          THEN (IF o[k] = "cut" THEN "cut" ELSE c) ELSE cache[k][g]
  <2>1. cache' = [k \in Remote |->
                    IF Warms(p, k, f, o)
                    THEN [cache[k] EXCEPT ![f] = IF o[k] = "cut" THEN "cut" ELSE c]
                    ELSE cache[k]]
    BY DEF Store
  <2>2. QED
    BY <2>1 DEF ObjectTypes, Bytes
<1>4. PICK links \in SUBSET Kinds :
        /\ \A k \in links : o[k] = "done" /\ (k \in Remote => Warms(p, k, f, o))
        /\ linked' = [linked EXCEPT ![f] = @ \cup links]
  <2> DEFINE fresh == {k \in Kinds : o[k] = "done" /\ (k \in Remote => Warms(p, k, f, o))}
  <2>1. \E links \in SUBSET (IF l THEN fresh ELSE {}) : linked' = [linked EXCEPT ![f] = @ \cup links]
    BY DEF Store
  <2>2. (IF l THEN fresh ELSE {}) \subseteq fresh
    OBVIOUS
  <2>3. \A k \in fresh : k \in Kinds /\ o[k] = "done" /\ (k \in Remote => Warms(p, k, f, o))
    OBVIOUS
  <2> HIDE DEF fresh
  <2>4. QED
    BY <2>1, <2>2, <2>3
<1>5. linked' \in [Files -> SUBSET Kinds]
  BY <1>4 DEF ObjectTypes
<1>6. ASSUME NEW k \in Remote, NEW g \in Files, k \in linked'[g]
      PROVE  k \in linked[g] \/ (g = f /\ o[k] = "done" /\ Warms(p, k, f, o))
  <2>1. linked'[g] = IF g = f THEN linked[g] \cup links ELSE linked[g]
    BY <1>4 DEF ObjectTypes
  <2>2. k \in linked[g] \/ (g = f /\ k \in links)
    BY <1>6, <2>1
  <2>3. QED
    BY <1>4, <2>2
<1>7. QED
  BY <1>1, <1>2, <1>3, <1>5, <1>6 DEF Stores

----------------------------------------------------------------------------
(* The actions that store: what each may store, and from where.            *)

\* the bytes c are those of a file staged or about to be stored, or of a copy
From(p, f, c) ==
    \/ c = disk[f] /\ entry[f] = "staged"
    \/ c = disk[f] /\ work[p][f].pc = "put" /\ work[p][f].src = "disk"
    \/ c = objects[f]
    \/ \E k \in Remote : c = cache[k][f]
    \/ \E k \in Remote, b \in Buckets : c = remote[k][b][f]

CopyTypes ==
    /\ objects \in [Files -> Bytes]
    /\ remote \in [Remote -> [Buckets -> [Files -> Bytes]]]
    /\ cache \in [Remote -> [Files -> Bytes]]
    /\ linked \in [Files -> SUBSET Kinds]

StoreStep(p, f) ==
    /\ CopyTypes'
    /\ \E c \in Bytes, o \in [Kinds -> Hows] :
         Sound(p, f, c, o) /\ Stores(p, f, c, o) /\ From(p, f, c)

LEMMA SkippedSound ==
    ASSUME ObjectTypes, NEW p \in Sessions, NEW f \in Files, NEW c \in Bytes
    PROVE  Skipped \in [Kinds -> Hows] /\ Sound(p, f, c, Skipped)
<1>1. Skipped \in [Kinds -> Hows] /\ \A k \in Kinds : Skipped[k] = "skip"
  BY DEF Skipped, Hows
<1>2. QED
  BY <1>1 DEF Sound, Kinds, Puts

\* A member that has nothing of f is free for it.
LEMMA MemberFree ==
    ASSUME StoreInv, NEW p \in Sessions, NEW f \in Files, NEW m \in Members(p),
           Stored(m, f) = "none"
    PROVE  Free(p, m.kind, f)
<1>1. \A n \in Members(p) : n.kind = m.kind => n = m
  BY DEF Members, StoreInv, BackendsBuilt
<1>2. Bucket(p, m.kind) = m.bucket
  BY <1>1 DEF Bucket
<1>3. QED
  BY <1>2 DEF Stored, Free

LEMMA OutcomesFree ==
    ASSUME StoreInv, NEW p \in Sessions, NEW f \in Files, NEW how,
           NEW o \in Outcomes(p, f, how), NEW k \in Kinds, o[k] # "skip"
    PROVE  Free(p, k, f)
<1>1. PICK m \in Members(p) : m.kind = k /\ Exists(m, f) = "no"
  BY DEF Outcomes
<1>2. Stored(m, f) = "none"
  BY <1>1 DEF Exists
<1>3. QED
  BY <1>1, <1>2, MemberFree

\* A put's outcome is sound.
LEMMA PutSound ==
    ASSUME StoreInv, NEW p \in Sessions, NEW f \in Files, NEW c \in Bytes,
           NEW o \in PutOutcomes(p, f, c)
    PROVE  o \in [Kinds -> Hows] /\ Sound(p, f, c, o)
<1>1. CASE c = "none"
  BY <1>1, SkippedSound DEF PutOutcomes, StoreInv
<1>2. CASE c # "none"
  <2>1. o \in Outcomes(p, f, {"done"})
    BY <1>2 DEF PutOutcomes
  <2>2. o \in [Kinds -> {"skip", "done"}] /\ \A k \in Kinds : o[k] # "skip" => Kind(p, k)
    BY <2>1 DEF Outcomes, Kind
  <2>3. \A k \in Kinds : o[k] \in Puts => Free(p, k, f)
    BY <2>1, OutcomesFree DEF Puts
  <2>4. QED
    BY <1>2, <2>2, <2>3 DEF Sound, Hows, Kinds, Puts
<1>3. QED
  BY <1>1, <1>2

LEMMA SourceByte ==
    ASSUME ObjectTypes, NEW f \in Files, NEW src \in {"disk", "object"}
    PROVE  Source(src, f) \in Bytes
BY DEF Source, ObjectTypes, Bytes

LEMMA StoreStepBy ==
    ASSUME ObjectTypes, NEW p \in Sessions, NEW f \in Files, NEW c \in Bytes,
           NEW o \in [Kinds -> Hows], NEW l \in BOOLEAN, Store(p, f, c, l, o),
           Sound(p, f, c, o), From(p, f, c)
    PROVE  StoreStep(p, f)
BY StoreEffect DEF StoreStep, CopyTypes

LEMMA AbsorbStores ==
    ASSUME StoreInv, NEW p \in Sessions, NEW f \in Files, Absorb(p, f)
    PROVE  StoreStep(p, f)
<1>1. PICK o \in PutOutcomes(p, f, disk[f]) : Store(p, f, disk[f], TRUE, o)
  BY DEF Absorb
<1>2. ObjectTypes /\ disk[f] \in Bytes
  BY DEF StoreInv, ObjectTypes, Bytes
<1>3. o \in [Kinds -> Hows] /\ Sound(p, f, disk[f], o)
  BY <1>2, PutSound
<1>4. From(p, f, disk[f])
  BY DEF Absorb, From
<1>5. QED
  BY <1>1, <1>2, <1>3, <1>4, StoreStepBy

LEMMA BackfillPutStores ==
    ASSUME StoreInv, NEW p \in Sessions, NEW f \in Files, BackfillPut(p, f)
    PROVE  StoreStep(p, f)
<1> DEFINE src == work[p][f].src
           c == Source(src, f)
           l == src = "disk" \/ "local" \in linked[f]
<1>1. PICK o \in PutOutcomes(p, f, c) : Store(p, f, c, l, o)
  BY Zenon DEF BackfillPut
<1>2. ObjectTypes /\ work[p][f] \in Works
  BY DEF StoreInv, ObjectTypes
<1>3. c \in Bytes
  BY <1>2, SourceByte DEF Works
<1>4. From(p, f, c)
  BY <1>2 DEF BackfillPut, From, Source, Works
<1>5. l \in BOOLEAN
  OBVIOUS
<1> HIDE DEF c, l
<1>6. o \in [Kinds -> Hows] /\ Sound(p, f, c, o)
  BY <1>2, <1>3, PutSound
<1>7. QED
  BY <1>1, <1>2, <1>3, <1>4, <1>5, <1>6, StoreStepBy

LEMMA InterruptStores ==
    ASSUME StoreInv, NEW p \in Sessions, NEW f \in Files, Interrupt(p, f)
    PROVE  StoreStep(p, f)
<1> DEFINE src == work[p][f].src
           c == Source(src, f)
           l == src = "disk" \/ "local" \in linked[f]
<1>1. PICK o \in Outcomes(p, f, {"done", "cut", "uploaded", "short"}) : Store(p, f, c, l, o)
  BY Zenon DEF Interrupt
<1>2. ObjectTypes /\ work[p][f] \in Works
  BY DEF StoreInv, ObjectTypes
<1>3. c \in Bytes /\ c # "none"
  BY <1>2, SourceByte DEF Works, Interrupt
<1>4. From(p, f, c)
  BY <1>2 DEF Interrupt, From, Source, Works
<1>5. l \in BOOLEAN
  OBVIOUS
<1> HIDE DEF c, l
<1>6. /\ o \in [Kinds -> {"skip", "done", "cut", "uploaded", "short"}]
      /\ \A k \in Kinds : o[k] # "skip" => Kind(p, k) /\ Free(p, k, f)
  BY OutcomesFree DEF Outcomes, Kind
<1>7. o \in [Kinds -> Hows] /\ Sound(p, f, c, o)
  BY <1>3, <1>6 DEF Sound, Hows, Kinds, Puts
<1>8. QED
  BY <1>1, <1>2, <1>3, <1>4, <1>5, <1>7, StoreStepBy

\* What a member has of f is in its bucket, in a cache, or local.
LEMMA EnsureLocalFrom ==
    ASSUME StoreInv, NEW p \in Sessions, NEW f \in Files, NEW i \in DOMAIN backend[p],
           EnsureLocal(backend[p][i], f) # "raises"
    PROVE  /\ EnsureLocal(backend[p][i], f) \in Bytes
           /\ From(p, f, EnsureLocal(backend[p][i], f))
<1> DEFINE m == backend[p][i]
<1>1. m \in Member /\ (m.kind \in Remote => m.bucket \in Buckets)
  BY DEF StoreInv, ConfigInv, ConfigTypeOK, BackendsBuilt
<1>2. ObjectTypes
  BY DEF StoreInv
<1> HIDE DEF m
<1>3. CASE Cached(m, f)
  BY <1>2, <1>3 DEF EnsureLocal, From, Cached, ObjectTypes, m
<1>4. CASE ~Cached(m, f)
  <2>1. EnsureLocal(m, f) = Stored(m, f)
    BY <1>4 DEF EnsureLocal, m
  <2>2. CASE m.kind = "local"
    BY <1>2, <2>1, <2>2 DEF Stored, From, ObjectTypes, m
  <2>3. CASE m.kind # "local"
    <3>1. m.kind \in Remote
      BY <1>1, <2>3 DEF Member, Kinds
    <3>2. Stored(m, f) = remote[m.kind][m.bucket][f]
      BY <2>3 DEF Stored
    <3>3. QED
      BY <1>1, <1>2, <2>1, <3>1, <3>2 DEF From, ObjectTypes, m
  <2>4. QED
    BY <2>2, <2>3
<1>5. QED
  BY <1>3, <1>4

\* A read heals the members before the one it reads from, or downloads, or both.
LEMMA FoundOutcome ==
    ASSUME StoreInv, NEW p \in Sessions, NEW f \in Files, NEW i \in Answering(p, f),
           EnsureLocal(backend[p][i], f) # "raises", Found(p, f, i)
    PROVE  /\ CopyTypes'
           /\ \E o \in [Kinds -> Hows] :
                /\ Heals(p, i, o)
                /\ Sound(p, f, EnsureLocal(backend[p][i], f), o)
                /\ Stores(p, f, EnsureLocal(backend[p][i], f), o)
<1> DEFINE m == backend[p][i]
           c == EnsureLocal(m, f)
           l == m.kind \in linked[f]
<1>1. PICK o \in [Kinds -> {"skip", "done", "fetch"}] :
        /\ Heals(p, i, o)
        /\ \A k \in Kinds :
             o[k] = "done" => \E j \in 1 .. i - 1 : backend[p][j].kind = k
        /\ \A k \in Kinds : o[k] = "fetch" <=> (k = m.kind /\ ~Cached(m, f))
        /\ Store(p, f, c, l, o)
  BY Zenon DEF Found
<1>2. ObjectTypes /\ i \in DOMAIN backend[p] /\ c # "none"
  BY DEF StoreInv, Answering
<1>3. c \in Bytes
  BY <1>2, EnsureLocalFrom
<1>4. l \in BOOLEAN
  OBVIOUS
<1>5. \A k \in Kinds : o[k] = "done" => Kind(p, k)
  <2> SUFFICES ASSUME NEW k \in Kinds, o[k] = "done" PROVE Kind(p, k)
    OBVIOUS
  <2>1. PICK j \in 1 .. i - 1 : backend[p][j].kind = k
    BY <1>1
  <2>2. j \in DOMAIN backend[p]
    BY <1>2 DEF StoreInv, ConfigInv, ConfigTypeOK
  <2>3. QED
    BY <2>1, <2>2 DEF Kind, Members
<1>6. ASSUME NEW k \in Remote, o[k] = "fetch"
      PROVE  \E b \in Buckets : remote[k][b][f] # "none"
  <2>1. k = m.kind /\ ~Cached(m, f)
    BY <1>1, <1>6 DEF Kinds
  <2>2. m.bucket \in Buckets /\ m.kind # "local"
    BY <1>2, <1>6, <2>1, RemoteAssumption DEF StoreInv, BackendsBuilt
  <2>3. c = remote[k][m.bucket][f]
    BY <2>1, <2>2 DEF EnsureLocal, Stored
  <2>4. QED
    BY <1>2, <2>2, <2>3
<1> HIDE DEF c, l
<1>11. ASSUME NEW k \in Kinds, o[k] = "done"
       PROVE  Free(p, k, f)
  <2>1. PICK j \in 1 .. i - 1 : backend[p][j].kind = k
    BY <1>1, <1>11
  <2>2. j \in DOMAIN backend[p] /\ EnsureLocal(backend[p][j], f) = "none"
    BY <1>2, <2>1 DEF StoreInv, ConfigInv, ConfigTypeOK, Answering
  <2>3. Stored(backend[p][j], f) = "none"
    BY <2>2 DEF EnsureLocal, Cached
  <2>4. QED
    BY <2>1, <2>2, <2>3, MemberFree DEF Members
<1>7. o \in [Kinds -> Hows] /\ Sound(p, f, c, o)
  BY <1>1, <1>2, <1>3, <1>5, <1>6, <1>11 DEF Sound, Hows, Puts, Kinds
<1>8. CopyTypes' /\ Stores(p, f, c, o)
  BY <1>1, <1>2, <1>3, <1>4, <1>7, StoreEffect DEF CopyTypes
<1>9. QED
  BY <1>1, <1>7, <1>8 DEF c

LEMMA FoundStores ==
    ASSUME StoreInv, NEW p \in Sessions, NEW f \in Files, NEW i \in Answering(p, f),
           EnsureLocal(backend[p][i], f) # "raises", Found(p, f, i)
    PROVE  StoreStep(p, f)
<1>1. i \in DOMAIN backend[p]
  BY DEF Answering
<1>2. QED
  BY <1>1, EnsureLocalFrom, FoundOutcome DEF StoreStep

----------------------------------------------------------------------------
(* The types, the backends in use and the cache.                           *)

LEMMA BucketKnown ==
    ASSUME BackendsBuilt, NEW p \in Sessions, NEW k \in Remote, Kind(p, k)
    PROVE  Bucket(p, k) \in Buckets
BY DEF BackendsBuilt, Kind, Bucket, Members

\* The cache is filled by an upload, or by a download of what a bucket has.
LEMMA CacheStaysBacked ==
    ASSUME StoreInv, CacheBacked, NEW p \in Sessions, NEW f \in Files, StoreStep(p, f)
    PROVE  CacheBacked'
<1>1. PICK c \in Bytes, o \in [Kinds -> Hows] : Sound(p, f, c, o) /\ Stores(p, f, c, o)
  BY DEF StoreStep
<1>2. ASSUME NEW k \in Remote, NEW b \in Buckets, NEW g \in Files, remote[k][b][g] # "none"
      PROVE  remote'[k][b][g] # "none"
  <2>1. k \in Kinds
    BY DEF Kinds
  <2>2. o[k] \in Puts => c # "none"
    BY <1>1, <2>1 DEF Sound, Skipped, Puts
  <2>3. QED
    BY <1>1, <1>2, <2>2 DEF Stores
<1>3. ASSUME NEW k \in Remote, NEW g \in Files, cache'[k][g] # "none"
      PROVE  \E b \in Buckets : remote'[k][b][g] # "none"
  <2>1. CASE g = f /\ Warms(p, k, f, o)
    <3>1. o[k] \in {"done", "cut", "fetch"} /\ k \in Kinds
      BY <2>1 DEF Warms, Kinds
    <3>2. CASE o[k] = "fetch"
      BY <1>1, <1>2, <2>1, <3>2 DEF Sound
    <3>3. CASE o[k] # "fetch"
      <4>1. c # "none" /\ Kind(p, k)
        BY <1>1, <3>1, <3>3 DEF Sound, Skipped, Puts
      <4>2. Bucket(p, k) \in Buckets
        BY <4>1, BucketKnown DEF StoreInv
      <4>3. remote'[k][Bucket(p, k)][f] = c
        BY <1>1, <3>1, <3>3, <4>2 DEF Stores, Puts
      <4>4. QED
        BY <2>1, <4>1, <4>2, <4>3
    <3>4. QED
      BY <3>2, <3>3
  <2>2. CASE ~(g = f /\ Warms(p, k, f, o))
    <3>1. cache'[k][g] = cache[k][g]
      BY <1>1, <2>2 DEF Stores
    <3>2. QED
      BY <1>2, <1>3, <3>1 DEF CacheBacked
  <2>3. QED
    BY <2>1, <2>2
<1>4. QED
  BY <1>3 DEF CacheBacked

LEMMA LinksStay ==
    ASSUME StoreInv, NEW p \in Sessions, NEW f \in Files, StoreStep(p, f)
    PROVE  LinkedCached'
<1>1. PICK c \in Bytes, o \in [Kinds -> Hows] : Sound(p, f, c, o) /\ Stores(p, f, c, o)
  BY DEF StoreStep
<1>2. SUFFICES ASSUME NEW g \in Files, NEW k \in Remote, k \in linked'[g]
               PROVE  cache'[k][g] # "none"
  BY DEF LinkedCached
<1>3. CASE g = f /\ o[k] = "done" /\ Warms(p, k, f, o)
  <2>1. cache'[k][g] = c /\ k \in Kinds
    BY <1>1, <1>3 DEF Stores, Kinds
  <2>2. c # "none"
    BY <1>1, <1>3, <2>1 DEF Sound, Skipped
  <2>3. QED
    BY <2>1, <2>2
<1>4. CASE ~(g = f /\ o[k] = "done" /\ Warms(p, k, f, o))
  <2>1. cache[k][g] # "none"
    BY <1>1, <1>2, <1>4 DEF Stores, StoreInv, LinkedCached
  <2>2. cache'[k][g] = cache[k][g]
    BY <1>1, <2>1 DEF Stores, Warms
  <2>3. QED
    BY <2>1, <2>2
<1>5. QED
  BY <1>3, <1>4

LEMMA StoreInvInit == ObjectInit => StoreInv /\ CacheBacked
<1> SUFFICES ASSUME ObjectInit PROVE StoreInv /\ CacheBacked
  OBVIOUS
<1>1. ConfigInv
  BY ConfigInvInit DEF ObjectInit
<1>2. BackendsBuilt
  BY DEF ObjectInit, ConfigInit, BackendsBuilt, Unbuilt
<1>3. Nothing \in [Files -> Bytes] /\ \A f \in Files : Nothing[f] = "none"
  BY DEF Nothing, Bytes
<1>4. Waiting \in Works
  BY DEF Waiting, Works
<1>5. ObjectTypes
  BY <1>3, <1>4 DEF ObjectInit, ObjectTypes
<1>6. LinkedCached /\ CacheBacked
  BY <1>3 DEF ObjectInit, LinkedCached, CacheBacked
<1>7. QED
  BY <1>1, <1>2, <1>5, <1>6 DEF StoreInv

\* A backend is built of the configured kinds, each with a bucket.
LEMMA ConfigureStep ==
    ASSUME StoreInv, NEW p \in Sessions, Configure(p)
    PROVE  StoreInv'
<1>1. ConfigInv'
  BY ConfigInvStep DEF Configure, StoreInv, ConfigNext
<1>2. BackendsBuilt'
  <2>1. backend \in [Sessions -> Seq(Member)]
    BY DEF StoreInv, ConfigInv, ConfigTypeOK
  <2>2. CASE ConfigCommand(p)
    <3>1. backend' = [backend EXCEPT ![p] = Unbuilt]
      BY <2>2 DEF ConfigCommand, BackendSet, BackendAdd, BackendRemove, SaveConfig
    <3>2. QED
      BY <2>1, <3>1 DEF BackendsBuilt, StoreInv, Unbuilt
  <2>3. CASE UseBackend(p)
    <3>1. backend' = [backend EXCEPT ![p] = GetBackend] /\ Buildable
      BY <2>3 DEF UseBackend
    <3>2. ConfiguredKinds \in Seq(Kinds) /\ Distinct(ConfiguredKinds)
      BY ConfiguredKindsFacts DEF StoreInv
    <3>3. /\ DOMAIN GetBackend = DOMAIN ConfiguredKinds
          /\ \A i \in DOMAIN GetBackend :
               /\ GetBackend[i].kind = ConfiguredKinds[i]
               /\ GetBackend[i].kind \in Remote => GetBackend[i].bucket \in Buckets
      <4>1. DOMAIN GetBackend = DOMAIN ConfiguredKinds
        BY DEF GetBackend
      <4>2. ASSUME NEW i \in DOMAIN ConfiguredKinds
            PROVE  /\ GetBackend[i].kind = ConfiguredKinds[i]
                   /\ GetBackend[i].kind \in Remote => GetBackend[i].bucket \in Buckets
        <5>1. GetBackend[i] = BuildBackend(ConfiguredKinds[i])
          BY DEF GetBackend
        <5>2. bucketOf \in [Remote -> Buckets \cup {None}]
          BY DEF StoreInv, ConfigInv, ConfigTypeOK
        <5>3. ConfiguredKinds[i] \in Remote => bucketOf[ConfiguredKinds[i]] # None
          BY <3>1 DEF Buildable
        <5>4. QED
          BY <5>1, <5>2, <5>3 DEF BuildBackend
      <4>3. QED
        BY <4>1, <4>2
    <3>4. QED
      BY <2>1, <3>1, <3>2, <3>3 DEF BackendsBuilt, StoreInv, Distinct
  <2>4. QED
    BY <2>2, <2>3 DEF Configure
<1>3. ObjectTypes' /\ LinkedCached'
  BY DEF Configure, objectVars, StoreInv, ObjectTypes, LinkedCached
<1>4. QED
  BY <1>1, <1>2, <1>3 DEF StoreInv

LEMMA BackendsStay ==
    ASSUME StoreInv, UNCHANGED backendVars
    PROVE  ConfigInv' /\ BackendsBuilt'
<1>1. ConfigInv'
  BY ConfigInvStep DEF StoreInv
<1>2. QED
  BY <1>1 DEF BackendsBuilt, StoreInv, backendVars

\* what the actions that store, and those that store nothing, leave or keep typed
OtherTypes ==
    /\ entry \in [Files -> {"none", "staged", "archived"}]
    /\ disk \in [Files -> {"none", "whole", "altered"}]
    /\ up \in SUBSET Remote
    /\ work \in [Sessions -> [Files -> Works]]

LEMMA ArchivingTypes ==
    ASSUME StoreInv, NEW p \in Sessions, NEW f \in Files, Archiving(p, f) \/ Interrupt(p, f)
    PROVE  OtherTypes'
<1>1. OtherTypes
  BY DEF StoreInv, ObjectTypes, OtherTypes
<1>2. CASE Stage(p, f) \/ Absorb(p, f)
  BY <1>1, <1>2 DEF Stage, Absorb, OtherTypes
<1>3. CASE Read(p, f) \/ VerifyObject(p, f)
  BY <1>1, <1>3 DEF Read, VerifyObject, OtherTypes
<1>4. CASE BackfillCheck(p, f)
  <2>1. PICK src \in {"disk", "object"} :
          work' = work \/ work' = [work EXCEPT ![p][f] = [pc |-> "hash", src |-> src]]
    BY <1>4 DEF BackfillCheck
  <2>2. [pc |-> "hash", src |-> src] \in Works
    BY DEF Works
  <2>3. work' \in [Sessions -> [Files -> Works]]
    BY <1>1, <2>1, <2>2 DEF OtherTypes
  <2>4. QED
    BY <1>1, <1>4, <2>3 DEF BackfillCheck, OtherTypes
<1>5. CASE BackfillHash(p, f)
  <2> DEFINE w == [work[p][f] EXCEPT !.pc = "put"]
  <2>1. w \in Works /\ Waiting \in Works
    BY <1>1 DEF OtherTypes, Waiting, Works
  <2>2. work' = [work EXCEPT ![p][f] = w] \/ work' = [work EXCEPT ![p][f] = Waiting]
    BY <1>5 DEF BackfillHash
  <2> HIDE DEF w
  <2>3. work' \in [Sessions -> [Files -> Works]]
    BY <1>1, <2>1, <2>2 DEF OtherTypes
  <2>4. QED
    BY <1>1, <1>5, <2>3 DEF BackfillHash, OtherTypes
<1>6. CASE BackfillPut(p, f)
  <2>1. Waiting \in Works /\ work' = [work EXCEPT ![p][f] = Waiting]
    BY <1>6 DEF BackfillPut, Waiting, Works
  <2>2. work' \in [Sessions -> [Files -> Works]]
    BY <1>1, <2>1 DEF OtherTypes
  <2>3. QED
    BY <1>1, <1>6, <2>2 DEF BackfillPut, OtherTypes
<1>7. CASE Interrupt(p, f)
  <2> DEFINE w == [work[p][f] EXCEPT !.pc = "killed"]
  <2>0. w \in Works
    BY <1>1 DEF OtherTypes, Works
  <2>1. work' = [work EXCEPT ![p][f] = w]
    BY <1>7 DEF Interrupt
  <2> HIDE DEF w
  <2>2. work' \in [Sessions -> [Files -> Works]]
    BY <1>1, <2>0, <2>1 DEF OtherTypes
  <2>3. QED
    BY <1>1, <1>7, <2>2 DEF Interrupt, OtherTypes
<1>8. QED
  BY <1>2, <1>3, <1>4, <1>5, <1>6, <1>7 DEF Archiving

\* The archiving commands store something sound, or touch no copy.
LEMMA ArchivingCopies ==
    ASSUME StoreInv, NEW p \in Sessions, NEW f \in Files, Archiving(p, f) \/ Interrupt(p, f)
    PROVE  UNCHANGED copies \/ StoreStep(p, f)
<1>1. ASSUME Read(p, f) PROVE UNCHANGED copies \/ StoreStep(p, f)
  BY <1>1, FoundStores DEF Read
<1>2. QED
  BY <1>1, AbsorbStores, BackfillPutStores, InterruptStores
     DEF Archiving, Stage, BackfillCheck, BackfillHash, VerifyObject

LEMMA ArchivingStep ==
    ASSUME StoreInv, NEW p \in Sessions, NEW f \in Files, Archiving(p, f) \/ Interrupt(p, f)
    PROVE  StoreInv'
<1>1. UNCHANGED backendVars
  BY DEF Archiving, Interrupt, Stage, Absorb, BackfillCheck, BackfillHash, BackfillPut,
         Read, VerifyObject
<1>2. CopyTypes' /\ LinkedCached'
  <2>1. CASE UNCHANGED copies
    BY <2>1 DEF copies, StoreInv, ObjectTypes, CopyTypes, LinkedCached
  <2>2. CASE StoreStep(p, f)
    BY <2>2, LinksStay DEF StoreStep
  <2>3. QED
    BY <2>1, <2>2, ArchivingCopies
<1>3. ObjectTypes'
  BY <1>2, ArchivingTypes DEF ObjectTypes, CopyTypes, OtherTypes
<1>4. QED
  BY <1>1, <1>2, <1>3, BackendsStay DEF StoreInv

LEMMA MishapStep ==
    ASSUME StoreInv, Mishap
    PROVE  StoreInv'
<1>0. ObjectTypes /\ LinkedCached
  BY DEF StoreInv
<1>1. ASSUME NEW f \in Files, Replace(f) \/ Delete(f)
      PROVE  StoreInv'
  <2>1. UNCHANGED backendVars
    BY <1>1 DEF Replace, Delete
  <2>2. /\ disk' \in [Files -> {"none", "whole", "altered"}]
        /\ linked' = [linked EXCEPT ![f] = {}]
        /\ UNCHANGED <<entry, objects, remote, cache, up, work>>
    BY <1>0, <1>1 DEF Replace, Delete, ObjectTypes
  <2>3. ObjectTypes' /\ LinkedCached'
    BY <1>0, <2>2 DEF ObjectTypes, LinkedCached
  <2>4. QED
    BY <2>1, <2>3, BackendsStay DEF StoreInv
<1>2. ASSUME NEW f \in Files, Rewrite(f)
      PROVE  StoreInv'
  <2>1. UNCHANGED backendVars
    BY <1>2 DEF Rewrite
  <2>2. objects' \in [Files -> Bytes] /\ disk' \in [Files -> {"none", "whole", "altered"}]
    BY <1>0, <1>2 DEF Rewrite, ObjectTypes, Bytes
  <2>3. cache' \in [Remote -> [Files -> Bytes]]
    BY <1>0, <1>2 DEF Rewrite, ObjectTypes, Bytes
  <2>4. ObjectTypes'
    BY <1>0, <1>2, <2>2, <2>3 DEF Rewrite, ObjectTypes
  <2>5. LinkedCached'
    BY <1>0, <1>2 DEF Rewrite, ObjectTypes, LinkedCached
  <2>6. QED
    BY <2>1, <2>4, <2>5, BackendsStay DEF StoreInv
<1>3. ASSUME NEW f \in Files, Lose(f)
      PROVE  StoreInv'
  <2>1. UNCHANGED backendVars /\ UNCHANGED <<entry, disk, up, work>>
    BY <1>3 DEF Lose
  <2>2. ASSUME objects' = [objects EXCEPT ![f] = "none"],
               linked' = [linked EXCEPT ![f] = @ \ {"local"}],
               UNCHANGED <<remote, cache>>
        PROVE  ObjectTypes' /\ LinkedCached'
    BY <1>0, <2>1, <2>2 DEF ObjectTypes, LinkedCached, Bytes
  <2>3. ASSUME NEW k \in Remote, NEW b \in Buckets,
               remote' = [remote EXCEPT ![k][b][f] = "none"],
               UNCHANGED <<objects, cache, linked>>
        PROVE  ObjectTypes' /\ LinkedCached'
    <3>1. remote' \in [Remote -> [Buckets -> [Files -> Bytes]]]
      BY <1>0, <2>3 DEF ObjectTypes, Bytes
    <3>2. QED
      BY <1>0, <2>1, <2>3, <3>1 DEF ObjectTypes, LinkedCached
  <2>4. ASSUME NEW k \in Remote, cache' = [cache EXCEPT ![k][f] = "none"],
               linked' = [linked EXCEPT ![f] = @ \ {k}], UNCHANGED <<objects, remote>>
        PROVE  ObjectTypes' /\ LinkedCached'
    <3>1. cache' \in [Remote -> [Files -> Bytes]] /\ linked' \in [Files -> SUBSET Kinds]
      BY <1>0, <2>4 DEF ObjectTypes, Bytes
    <3>2. LinkedCached'
      BY <1>0, <2>4 DEF ObjectTypes, LinkedCached
    <3>3. QED
      BY <1>0, <2>1, <2>4, <3>1, <3>2 DEF ObjectTypes
  <2>5. ObjectTypes' /\ LinkedCached'
    BY <1>3, <2>2, <2>3, <2>4 DEF Lose
  <2>6. QED
    BY <2>1, <2>5, BackendsStay DEF StoreInv
<1>4. ASSUME NEW p \in Sessions, Restart(p)
      PROVE  StoreInv'
  <2>1. SaveConfig(p) /\ UNCHANGED configVars
    BY <1>4 DEF Restart, SaveConfig
  <2>2. backend' \in [Sessions -> Seq(Member)]
    BY <2>1, SaveConfigType DEF StoreInv
  <2>3. ConfigInv'
    BY <2>1, <2>2 DEF StoreInv, ConfigInv, ConfigTypeOK, RaidWellFormed, configVars
  <2>4. BackendsBuilt'
    BY <2>1 DEF SaveConfig, StoreInv, ConfigInv, ConfigTypeOK, BackendsBuilt, Unbuilt
  <2>5. [f \in Files |-> Waiting] \in [Files -> Works]
    BY DEF Waiting, Works
  <2>6. ObjectTypes' /\ LinkedCached'
    BY <1>0, <1>4, <2>5 DEF Restart, copies, ObjectTypes, LinkedCached
  <2>7. QED
    BY <2>3, <2>4, <2>6 DEF StoreInv
<1>5. CASE Outage
  <2>1. UNCHANGED backendVars
    BY <1>5 DEF Outage
  <2>2. up' \in SUBSET Remote
    BY <1>0, <1>5 DEF Outage, ObjectTypes
  <2>3. ObjectTypes' /\ LinkedCached'
    BY <1>0, <1>5, <2>2 DEF Outage, copies, ObjectTypes, LinkedCached
  <2>4. QED
    BY <2>1, <2>3, BackendsStay DEF StoreInv
<1>6. QED
  BY <1>1, <1>2, <1>3, <1>4, <1>5, ArchivingStep DEF Mishap

LEMMA StoreInvStep == StoreInv /\ [ObjectNext]_allVars => StoreInv'
<1> SUFFICES ASSUME StoreInv, [ObjectNext]_allVars PROVE StoreInv'
  OBVIOUS
<1>1. CASE UNCHANGED allVars
  <2>1. UNCHANGED backendVars /\ UNCHANGED objectVars
    BY <1>1 DEF allVars
  <2>2. ObjectTypes' /\ LinkedCached'
    BY <2>1 DEF objectVars, StoreInv, ObjectTypes, LinkedCached
  <2>3. QED
    BY <2>1, <2>2, BackendsStay DEF StoreInv
<1>2. QED
  BY <1>1, ConfigureStep, ArchivingStep, MishapStep DEF ObjectNext

\* The configuration's guarantees survive the use of it: storing, reading and
\* losing objects, and the death of a process, which forgets its backend.
THEOREM ConfigSound == ObjectSpec => [](RaidWellFormed /\ BackendIsCurrent)
<1>1. ASSUME StoreInv, [ObjectNext]_allVars
      PROVE  [ConfigNext]_backendVars \/ \E p \in Sessions : Restart(p)
  <2>1. ASSUME NEW p \in Sessions, Configure(p) PROVE ConfigNext
    BY <2>1 DEF Configure, ConfigNext
  <2>2. ASSUME NEW p \in Sessions, NEW f \in Files, Archiving(p, f) \/ Interrupt(p, f)
        PROVE  UNCHANGED backendVars
    BY <2>2 DEF Archiving, Interrupt, Stage, Absorb, BackfillCheck, BackfillHash,
                BackfillPut, Read, VerifyObject
  <2>3. ASSUME NEW f \in Files, Replace(f) \/ Rewrite(f) \/ Delete(f) \/ Lose(f)
        PROVE  UNCHANGED backendVars
    BY <2>3 DEF Replace, Rewrite, Delete, Lose
  <2>4. CASE Outage \/ UNCHANGED allVars
    BY <2>4 DEF Outage, allVars
  <2>5. QED
    BY <1>1, <2>1, <2>2, <2>3, <2>4 DEF ObjectNext, Mishap
<1>2. ASSUME StoreInv, BackendIsCurrent, NEW p \in Sessions, Restart(p)
      PROVE  BackendIsCurrent'
  <2>1. GetBackend' = GetBackend
    BY <1>2 DEF Restart, configVars, GetBackend, ConfiguredKinds, BuildBackend
  <2>2. \A q \in Sessions : backend'[q] = backend[q] \/ backend'[q] = Unbuilt
    BY <1>2 DEF Restart, StoreInv, ConfigInv, ConfigTypeOK
  <2>3. QED
    BY <1>2, <2>1, <2>2 DEF BackendIsCurrent
<1>3. StoreInv /\ BackendIsCurrent /\ [ObjectNext]_allVars => BackendIsCurrent'
  BY <1>1, <1>2, CurrentStep DEF StoreInv
<1>4. ObjectInit => BackendIsCurrent
  BY DEF ObjectInit, ConfigInit, BackendIsCurrent
<1>5. StoreInv => RaidWellFormed
  BY DEF StoreInv, ConfigInv
<1>6. QED
  BY StoreInvInit, StoreInvStep, <1>3, <1>4, <1>5, PTL DEF ObjectSpec

----------------------------------------------------------------------------
(* CacheBacked.                                                            *)

LEMMA CacheStep ==
    ASSUME "bucket" \notin Losses, StoreInv, CacheBacked, [ObjectNext]_allVars
    PROVE  CacheBacked'
<1>0. ObjectTypes /\ LinkedCached
  BY DEF StoreInv
<1>1. ASSUME UNCHANGED <<remote, cache>> PROVE CacheBacked'
  BY <1>1 DEF CacheBacked
<1>2. ASSUME NEW p \in Sessions, NEW f \in Files, Archiving(p, f) \/ Interrupt(p, f)
      PROVE  CacheBacked'
  BY <1>1, <1>2, ArchivingCopies, CacheStaysBacked DEF copies
<1>3. ASSUME NEW f \in Files, Rewrite(f)
      PROVE  CacheBacked'
  <2>1. remote' = remote
    BY <1>3 DEF Rewrite
  <2>2. cache' = [k \in Remote |-> IF k \in linked[f]
                                   THEN [cache[k] EXCEPT ![f] = "altered"] ELSE cache[k]]
    BY <1>3 DEF Rewrite
  <2>3. ASSUME NEW k \in Remote, NEW g \in Files, cache'[k][g] # "none"
        PROVE  cache[k][g] # "none"
    <3>1. CASE g = f /\ k \in linked[f]
      BY <1>0, <3>1 DEF LinkedCached
    <3>2. CASE ~(g = f /\ k \in linked[f])
      <4>1. cache'[k][g] = cache[k][g]
        BY <1>0, <2>2, <3>2 DEF ObjectTypes
      <4>2. QED
        BY <2>3, <4>1
    <3>3. QED
      BY <3>1, <3>2
  <2>4. QED
    BY <2>1, <2>3 DEF CacheBacked
<1>4. ASSUME NEW f \in Files, Lose(f)
      PROVE  CacheBacked'
  <2>1. remote' = remote
    BY <1>4 DEF Lose
  <2>2. ASSUME NEW k \in Remote, cache' = [cache EXCEPT ![k][f] = "none"],
               NEW l \in Remote, NEW g \in Files, cache'[l][g] # "none"
        PROVE  cache[l][g] # "none"
    BY <1>0, <2>2 DEF ObjectTypes
  <2>3. \A l \in Remote, g \in Files : cache'[l][g] # "none" => cache[l][g] # "none"
    <3>1. cache' = cache \/ \E k \in Remote : cache' = [cache EXCEPT ![k][f] = "none"]
      BY <1>4 DEF Lose
    <3>2. QED
      BY <2>2, <3>1
  <2>4. QED
    BY <2>1, <2>3 DEF CacheBacked
<1>5. CASE \E f \in Files : Replace(f) \/ Delete(f)
  BY <1>1, <1>5 DEF Replace, Delete
<1>6. CASE Outage \/ \E p \in Sessions : Restart(p) \/ Configure(p)
  BY <1>1, <1>6 DEF Outage, Restart, Configure, objectVars, copies
<1>7. CASE UNCHANGED allVars
  BY <1>1, <1>7 DEF allVars, objectVars
<1>8. QED
  BY <1>2, <1>3, <1>4, <1>5, <1>6, <1>7 DEF ObjectNext, Mishap

\* CacheBacked: unless a bucket itself loses objects, "the cache is disposable,
\* never the source of truth" (S3StorageBackend) holds of every instance: with
\* any sessions and buckets, under crashes, failures, outages, edits of files that
\* copies are linked to, and changes of the configured backend.
THEOREM CacheIsBacked ==
    ASSUME "bucket" \notin Losses
    PROVE  ObjectSpec => []CacheBacked
<1>1. StoreInv /\ CacheBacked /\ [ObjectNext]_allVars => (StoreInv /\ CacheBacked)'
  BY StoreInvStep, CacheStep
<1>2. QED
  BY StoreInvInit, <1>1, PTL DEF ObjectSpec

----------------------------------------------------------------------------
(* KeyMatchesContent.                                                      *)

NoneAltered ==
    \A f \in Files :
        /\ objects[f] # "altered"
        /\ \A k \in Remote : cache[k][f] # "altered"
        /\ \A k \in Remote, b \in Buckets : remote[k][b][f] # "altered"

\* a staged file is unchanged, and what is about to be stored is what was hashed
SourcesWhole ==
    \A f \in Files :
        /\ entry[f] = "staged" => disk[f] = "whole"
        /\ \A p \in Sessions :
             work[p][f].pc = "put" /\ work[p][f].src = "disk" => disk[f] # "altered"

KeyInv == StoreInv /\ NoneAltered /\ SourcesWhole

LEMMA StoresNoneAltered ==
    ASSUME KeyInv, NEW p \in Sessions, NEW f \in Files, StoreStep(p, f)
    PROVE  NoneAltered'
<1>1. PICK c \in Bytes, o \in [Kinds -> Hows] : Stores(p, f, c, o) /\ From(p, f, c)
  BY DEF StoreStep
<1>2. c # "altered"
  BY <1>1 DEF From, KeyInv, NoneAltered, SourcesWhole
<1>3. \A g \in Files : objects'[g] # "altered"
  BY <1>1, <1>2 DEF Stores, KeyInv, NoneAltered
<1>4. \A g \in Files, k \in Remote : cache'[k][g] # "altered"
  BY <1>1, <1>2 DEF Stores, KeyInv, NoneAltered
<1>5. \A g \in Files, k \in Remote, b \in Buckets : remote'[k][b][g] # "altered"
  BY <1>1, <1>2 DEF Stores, KeyInv, NoneAltered
<1>6. QED
  BY <1>3, <1>4, <1>5 DEF NoneAltered

\* Only what BackfillHash found to be whole comes to be stored.
LEMMA PutHashed ==
    ASSUME ObjectTypes, NEW p \in Sessions, NEW f \in Files, Archiving(p, f) \/ Interrupt(p, f),
           NEW q \in Sessions, NEW g \in Files, work'[q][g].pc = "put"
    PROVE  work'[q][g] = work[q][g] \/ (g = f /\ Source(work'[q][g].src, f) = "whole")
<1>0. work \in [Sessions -> [Files -> Works]]
  BY DEF ObjectTypes
<1>1. ASSUME NEW w, work' = [work EXCEPT ![p][f] = w], w.pc # "put"
      PROVE  work'[q][g] = work[q][g]
  <2>1. work'[q][g] = IF q = p /\ g = f THEN w ELSE work[q][g]
    BY <1>0, <1>1
  <2>2. QED
    BY <1>1, <2>1
<1>2. Waiting.pc # "put"
  BY DEF Waiting
<1>3. CASE BackfillHash(p, f)
  <2>1. CASE Rehash(p, f) = "whole"
    <3> DEFINE w == [work[p][f] EXCEPT !.pc = "put"]
    <3>1. w.src = work[p][f].src
      BY <1>0 DEF Works
    <3>2. work' = [work EXCEPT ![p][f] = w]
      BY <1>3, <2>1 DEF BackfillHash
    <3> HIDE DEF w
    <3>3. work'[q][g] = IF q = p /\ g = f THEN w ELSE work[q][g]
      BY <1>0, <3>2
    <3>4. QED
      BY <2>1, <3>1, <3>3 DEF Rehash
  <2>2. CASE Rehash(p, f) # "whole"
    <3>1. work' = [work EXCEPT ![p][f] = Waiting]
      BY <1>3, <2>2 DEF BackfillHash
    <3>2. QED
      BY <1>1, <1>2, <3>1, Zenon
  <2>3. QED
    BY <2>1, <2>2
<1>4. CASE BackfillCheck(p, f)
  <2> DEFINE w(src) == [pc |-> "hash", src |-> src]
  <2>1. work' = work \/ \E src : work' = [work EXCEPT ![p][f] = w(src)]
    BY <1>4 DEF BackfillCheck
  <2>2. \A src : w(src).pc # "put"
    OBVIOUS
  <2> HIDE DEF w
  <2>3. QED
    BY <1>1, <2>1, <2>2
<1>5. CASE BackfillPut(p, f)
  <2>1. work' = [work EXCEPT ![p][f] = Waiting]
    BY <1>5 DEF BackfillPut
  <2>2. QED
    BY <1>1, <1>2, <2>1, Zenon
<1>6. CASE Interrupt(p, f)
  <2> DEFINE w == [work[p][f] EXCEPT !.pc = "killed"]
  <2>1. w.pc # "put"
    BY <1>0 DEF Works
  <2>2. work' = [work EXCEPT ![p][f] = w]
    BY <1>6 DEF Interrupt
  <2> HIDE DEF w
  <2>3. QED
    BY <1>1, <2>1, <2>2
<1>7. QED
  BY <1>3, <1>4, <1>5, <1>6 DEF Archiving, Stage, Absorb, Read, VerifyObject

LEMMA KeyArchivingStep ==
    ASSUME KeyInv, NEW p \in Sessions, NEW f \in Files, Archiving(p, f) \/ Interrupt(p, f)
    PROVE  NoneAltered' /\ SourcesWhole'
<1>0. ObjectTypes /\ work \in [Sessions -> [Files -> Works]]
  BY DEF KeyInv, StoreInv, ObjectTypes
<1>1. NoneAltered'
  <2>1. CASE UNCHANGED copies
    BY <2>1 DEF copies, KeyInv, NoneAltered
  <2>2. QED
    BY <2>1, ArchivingCopies, StoresNoneAltered DEF KeyInv
<1>2. disk' = disk
  BY DEF Archiving, Interrupt, Stage, Absorb, BackfillCheck, BackfillHash, BackfillPut,
         Read, VerifyObject
<1>3. \A g \in Files : entry'[g] = "staged" => disk[g] = "whole"
  <2>1. CASE entry' = entry
    BY <2>1 DEF KeyInv, SourcesWhole
  <2>2. CASE Stage(p, f)
    BY <1>0, <2>2 DEF Stage, ObjectTypes, KeyInv, SourcesWhole
  <2>3. CASE Absorb(p, f)
    <3>1. entry' = entry \/ entry' = [entry EXCEPT ![f] = "archived"]
      BY <2>3 DEF Absorb
    <3>2. QED
      BY <1>0, <3>1 DEF ObjectTypes, KeyInv, SourcesWhole
  <2>4. QED
    BY <2>1, <2>2, <2>3 DEF Archiving, Interrupt, BackfillCheck, BackfillHash, BackfillPut,
                            Read, VerifyObject
<1>4. ASSUME NEW q \in Sessions, NEW g \in Files, work'[q][g].pc = "put",
             work'[q][g].src = "disk"
      PROVE  disk[g] # "altered"
  <2>1. CASE work'[q][g] = work[q][g]
    BY <1>4, <2>1 DEF KeyInv, SourcesWhole
  <2>2. CASE g = f /\ Source(work'[q][g].src, f) = "whole"
    BY <1>4, <2>2 DEF Source
  <2>3. QED
    BY <1>0, <1>4, <2>1, <2>2, PutHashed
<1>5. QED
  BY <1>1, <1>2, <1>3, <1>4 DEF SourcesWhole

LEMMA KeyMishapStep ==
    ASSUME ~StagedEdits, ~Races, "inplace" \notin Edits, KeyInv, Mishap
    PROVE  NoneAltered' /\ SourcesWhole'
<1>0. ObjectTypes
  BY DEF KeyInv, StoreInv
<1>1. ASSUME NEW f \in Files, Replace(f) \/ Delete(f)
      PROVE  NoneAltered' /\ SourcesWhole'
  <2>1. UNCHANGED <<objects, remote, cache, work, entry>>
    BY <1>1 DEF Replace, Delete
  <2>2. entry[f] # "staged" /\ \A p \in Sessions : work[p][f].pc = "idle"
    BY <1>1 DEF Replace, Delete, Touchable, Undisturbed
  <2>3. \A g \in Files : g # f => disk'[g] = disk[g]
    BY <1>0, <1>1 DEF Replace, Delete, ObjectTypes
  <2>4. QED
    BY <2>1, <2>2, <2>3 DEF KeyInv, NoneAltered, SourcesWhole
<1>2. ASSUME NEW f \in Files, Lose(f)
      PROVE  NoneAltered' /\ SourcesWhole'
  <2>1. UNCHANGED <<entry, disk, work>>
    BY <1>2 DEF Lose
  <2>2. \A g \in Files : objects'[g] # "altered"
    <3>1. objects' = objects \/ objects' = [objects EXCEPT ![f] = "none"]
      BY <1>2 DEF Lose
    <3>2. QED
      BY <1>0, <3>1 DEF ObjectTypes, KeyInv, NoneAltered
  <2>3. ASSUME NEW l \in Remote, NEW g \in Files
        PROVE  cache'[l][g] # "altered"
    <3>1. cache[l][g] # "altered"
      BY DEF KeyInv, NoneAltered
    <3>2. ASSUME NEW k \in Remote, cache' = [cache EXCEPT ![k][f] = "none"]
          PROVE  cache'[l][g] # "altered"
      BY <1>0, <3>1, <3>2 DEF ObjectTypes
    <3>3. QED
      BY <1>2, <3>1, <3>2 DEF Lose
  <2>4. ASSUME NEW l \in Remote, NEW a \in Buckets, NEW g \in Files
        PROVE  remote'[l][a][g] # "altered"
    <3>1. remote[l][a][g] # "altered"
      BY DEF KeyInv, NoneAltered
    <3>2. ASSUME NEW k \in Remote, NEW b \in Buckets,
                 remote' = [remote EXCEPT ![k][b][f] = "none"]
          PROVE  remote'[l][a][g] # "altered"
      BY <1>0, <3>1, <3>2 DEF ObjectTypes
    <3>3. QED
      BY <1>2, <3>1, <3>2 DEF Lose
  <2>5. QED
    BY <2>1, <2>2, <2>3, <2>4 DEF KeyInv, NoneAltered, SourcesWhole
<1>3. ASSUME NEW p \in Sessions, Restart(p)
      PROVE  NoneAltered' /\ SourcesWhole'
  <2>1. UNCHANGED <<objects, remote, cache, disk, entry>>
    BY <1>3 DEF Restart, copies
  <2>2. work' = [work EXCEPT ![p] = [f \in Files |-> Waiting]]
    BY <1>3 DEF Restart
  <2>3. \A q \in Sessions, f \in Files : work'[q][f] = work[q][f] \/ work'[q][f].pc = "idle"
    BY <1>0, <2>2 DEF ObjectTypes, Waiting
  <2>4. QED
    BY <2>1, <2>3 DEF KeyInv, NoneAltered, SourcesWhole
<1>4. CASE Outage
  BY <1>4 DEF Outage, copies, KeyInv, NoneAltered, SourcesWhole
<1>5. CASE \E f \in Files : Rewrite(f)
  BY <1>5 DEF Rewrite
<1>6. QED
  BY <1>1, <1>2, <1>3, <1>4, <1>5, KeyArchivingStep DEF Mishap

\* KeyMatchesContent: "key == hash(value)" (_recompute_digest) holds in every
\* instance where no file changes between its hash and its copy and no copy shares
\* its inode with a file that is rewritten: whatever is lost, however often storing
\* fails or the process is killed, and whichever member a copy was made from.
THEOREM KeysMatch ==
    ASSUME ~StagedEdits, ~Races, "inplace" \notin Edits
    PROVE  ObjectSpec => []KeyMatchesContent
<1>1. ObjectInit => KeyInv
  <2> SUFFICES ASSUME ObjectInit PROVE KeyInv
    OBVIOUS
  <2>1. StoreInv
    BY StoreInvInit
  <2>2. NoneAltered
    BY DEF ObjectInit, Nothing, NoneAltered
  <2>3. SourcesWhole
    BY DEF ObjectInit, SourcesWhole
  <2>4. QED
    BY <2>1, <2>2, <2>3 DEF KeyInv
<1>2. KeyInv /\ [ObjectNext]_allVars => KeyInv'
  <2> SUFFICES ASSUME KeyInv, [ObjectNext]_allVars PROVE KeyInv'
    OBVIOUS
  <2>1. StoreInv'
    BY StoreInvStep DEF KeyInv
  <2>2. CASE UNCHANGED objectVars
    BY <2>1, <2>2 DEF objectVars, KeyInv, NoneAltered, SourcesWhole
  <2>3. CASE ~UNCHANGED objectVars
    <3>1. Mishap \/ \E p \in Sessions, f \in Files : Archiving(p, f)
      BY <2>3 DEF ObjectNext, Configure, allVars
    <3>2. QED
      BY <2>1, <3>1, KeyArchivingStep, KeyMishapStep DEF KeyInv
  <2>4. QED
    BY <2>2, <2>3
<1>3. KeyInv => KeyMatchesContent
  BY DEF KeyInv, NoneAltered, KeyMatchesContent
<1>4. QED
  BY <1>1, <1>2, <1>3, PTL DEF ObjectSpec

----------------------------------------------------------------------------
(* What the commands say.                                                  *)

\* one cache serves all buckets of a kind: only with a single bucket does a cached
\* copy say that the configured one has the object
OneBucket == \A a, b \in Buckets : a = b

LEMMA MemberTyped ==
    ASSUME StoreInv, NEW p \in Sessions, NEW i \in DOMAIN backend[p]
    PROVE  /\ backend[p][i].kind \in Kinds
           /\ backend[p][i].kind # "local" =>
                backend[p][i].kind \in Remote /\ backend[p][i].bucket \in Buckets
           /\ \A k \in Remote : k # "local"
<1>1. backend[p][i] \in Member
  BY DEF StoreInv, ConfigInv, ConfigTypeOK
<1>2. QED
  BY <1>1, RemoteAssumption DEF StoreInv, BackendsBuilt, Member, Kinds

\* With one bucket, what a member says exists, or reads from its cache, is stored.
LEMMA CachedIsStored ==
    ASSUME StoreInv, CacheBacked, OneBucket, NEW p \in Sessions, NEW i \in DOMAIN backend[p],
           NEW f \in Files, Cached(backend[p][i], f)
    PROVE  Stored(backend[p][i], f) # "none"
<1>1. backend[p][i].kind \in Remote /\ cache[backend[p][i].kind][f] # "none"
  BY DEF Cached
<1>2. PICK b \in Buckets : remote[backend[p][i].kind][b][f] # "none"
  BY <1>1 DEF CacheBacked
<1>3. QED
  BY <1>1, <1>2, MemberTyped DEF OneBucket, Stored

LEMMA ExistsIsStored ==
    ASSUME StoreInv, CacheBacked, OneBucket, NEW p \in Sessions, NEW i \in DOMAIN backend[p],
           NEW f \in Files, Exists(backend[p][i], f) = "yes"
    PROVE  Stored(backend[p][i], f) # "none"
BY CachedIsStored DEF Exists

\* What is stored stays so, whatever else is stored.
LEMMA StoredStays ==
    ASSUME StoreInv, NEW p \in Sessions, NEW f \in Files, NEW c \in Bytes,
           NEW o \in [Kinds -> Hows], Sound(p, f, c, o), Stores(p, f, c, o), UNCHANGED backend,
           NEW q \in Sessions, NEW i \in DOMAIN backend[q], NEW g \in Files,
           Stored(backend[q][i], g) # "none"
    PROVE  Stored(backend[q][i], g)' # "none"
<1> DEFINE m == backend[q][i]
<1>1. m.kind = "local" \/ (m.kind \in Remote /\ m.kind # "local" /\ m.bucket \in Buckets)
  BY MemberTyped
<1>2. \A k \in Kinds : o[k] \in Puts => c # "none"
  BY DEF Sound, Skipped, Puts
<1>3. CASE m.kind = "local"
  <2>1. objects'[g] # "none"
    BY <1>2, <1>3 DEF Stores, Stored, Kinds, Puts
  <2>2. QED
    BY <1>3, <2>1 DEF Stored
<1>4. CASE m.kind # "local"
  <2>1. PICK k \in Remote, b \in Buckets : k = m.kind /\ b = m.bucket
    BY <1>1, <1>4
  <2>2. remote[k][b][g] # "none" /\ k \in Kinds
    BY <1>4, <2>1 DEF Stored, Kinds
  <2>3. remote'[k][b][g] # "none"
    BY <1>2, <2>2 DEF Stores
  <2>4. QED
    BY <1>4, <2>1, <2>3 DEF Stored
<1>5. QED
  BY <1>3, <1>4

\* A member that takes the object has it.
LEMMA TakenIsStored ==
    ASSUME StoreInv, NEW p \in Sessions, NEW f \in Files, NEW c \in Bytes \ {"none"},
           NEW o \in [Kinds -> Hows], Stores(p, f, c, o), UNCHANGED backend,
           NEW i \in DOMAIN backend[p], o[backend[p][i].kind] = "done"
    PROVE  Stored(backend[p][i], f)' # "none"
<1> DEFINE m == backend[p][i]
<1>1. m.kind = "local" \/ (m.kind \in Remote /\ m.kind # "local" /\ m.bucket \in Buckets)
  BY MemberTyped
<1>2. CASE m.kind = "local"
  BY <1>2 DEF Stores, Stored
<1>3. CASE m.kind # "local"
  <2>1. m \in Members(p)
    BY DEF Members
  <2>2. \A n \in Members(p) : n.kind = m.kind => n = m
    BY DEF Members, StoreInv, BackendsBuilt
  <2>3. Bucket(p, m.kind) = m.bucket
    BY <2>1, <2>2 DEF Bucket
  <2>4. remote'[m.kind][m.bucket][f] = c
    BY <1>1, <1>3, <2>3 DEF Stores, Puts
  <2>5. QED
    BY <1>3, <2>4 DEF Stored
<1>4. QED
  BY <1>2, <1>3

\* WholeCopiesKept: put writes only where nothing is (Free), the cache is filled
\* only where it is empty, so no put, read or cut-off upload of any session damages
\* a whole copy, in any instance.
THEOREM WholeStays == ObjectSpec => WholeCopiesKept
<1> DEFINE Kept(g) ==
              /\ objects[g] = "whole" => objects'[g] = "whole"
              /\ \A k \in Remote :
                   /\ cache[k][g] = "whole" => cache'[k][g] = "whole"
                   /\ \A b \in Buckets :
                        remote[k][b][g] = "whole" => remote'[k][b][g] = "whole"
           Keeps == \A p \in Sessions, f \in Files :
              Archiving(p, f) \/ Interrupt(p, f) => \A g \in Files : Kept(g)
<1>1. StoreInv => Keeps
  <2> SUFFICES ASSUME StoreInv, NEW p \in Sessions, NEW f \in Files,
                      Archiving(p, f) \/ Interrupt(p, f), NEW g \in Files
               PROVE  Kept(g)
    OBVIOUS
  <2>1. CASE UNCHANGED copies
    BY <2>1 DEF copies
  <2>2. CASE StoreStep(p, f)
    <3>1. PICK c \in Bytes, o \in [Kinds -> Hows] : Sound(p, f, c, o) /\ Stores(p, f, c, o)
      BY <2>2 DEF StoreStep
    <3>2. \A k \in Remote : k # "local" /\ k \in Kinds
      BY RemoteAssumption DEF Kinds
    <3>3. objects[g] = "whole" => objects'[g] = "whole"
      BY <3>1 DEF Stores, Sound, Free, Kinds, Puts
    <3>4. ASSUME NEW k \in Remote PROVE cache[k][g] = "whole" => cache'[k][g] = "whole"
      BY <3>1 DEF Stores, Warms
    <3>5. ASSUME NEW k \in Remote, NEW b \in Buckets, remote[k][b][g] = "whole"
          PROVE  remote'[k][b][g] = "whole"
      <4>1. ~(g = f /\ o[k] \in Puts /\ b = Bucket(p, k))
        BY <3>1, <3>2, <3>5 DEF Sound, Free
      <4>2. QED
        BY <3>1, <3>5, <4>1 DEF Stores
    <3>6. QED
      BY <3>3, <3>4, <3>5
  <2>3. QED
    BY <2>1, <2>2, ArchivingCopies
<1>2. QED
  BY <1>1, StoreInvInit, StoreInvStep, PTL DEF ObjectSpec, WholeCopiesKept

\* ReadFinds: a read that finds nothing has asked every member of the backend and
\* found the object on none, in any instance.
THEOREM ReadsFind == ObjectSpec => ReadFinds
<1> DEFINE Finds == \A p \in Sessions, f \in Files :
              Read(p, f) /\ Says("read", "none") => Holds(p, f) = {}
<1>1. StoreInv => Finds
  <2> SUFFICES ASSUME StoreInv, NEW p \in Sessions, NEW f \in Files, Read(p, f),
                      Says("read", "none"), NEW h \in Holds(p, f)
               PROVE  FALSE
    OBVIOUS
  <2>1. report'.result = "none"
    BY DEF Says
  <2>2. ASSUME NEW i \in Answering(p, f), EnsureLocal(backend[p][i], f) # "raises",
               Found(p, f, i)
        PROVE  FALSE
    <3>1. report'.result = EnsureLocal(backend[p][i], f)
      BY <2>2 DEF Found, Say
    <3>2. QED
      BY <2>1, <3>1 DEF Answering
  <2>3. Answering(p, f) = {}
    BY <2>1, <2>2 DEF Read, Say
  <2> DEFINE D == {i \in DOMAIN backend[p] : EnsureLocal(backend[p][i], f) # "none"}
  <2>4. h \in D
    BY DEF Holds, EnsureLocal, Cached
  <2>5. DOMAIN backend[p] = 1 .. Len(backend[p]) /\ Len(backend[p]) \in Nat
    BY DEF StoreInv, ConfigInv, ConfigTypeOK
  <2>6. D \subseteq Nat
    BY <2>5
  <2> HIDE DEF D
  <2>7. PICK n \in D : \A m \in D : n <= m
    BY <2>4, <2>6, LeastElement
  <2> USE DEF D
  <2>8. \A j \in 1 .. n - 1 : EnsureLocal(backend[p][j], f) = "none"
    <3>1. ASSUME NEW j \in 1 .. n - 1 PROVE j \notin D /\ j \in DOMAIN backend[p]
      BY <2>5, <2>6, <2>7
    <3>2. QED
      BY <3>1
  <2>9. n \in Answering(p, f)
    BY <2>7, <2>8 DEF Answering
  <2>10. QED
    BY <2>3, <2>9
<1>2. QED
  BY <1>1, StoreInvInit, StoreInvStep, PTL DEF ObjectSpec, ReadFinds

\* ReadHeals: RAID's ensure_local "self-heals" in every instance with one bucket of
\* each kind in which storing does not fail and the buckets lose nothing: whichever
\* member the object is read from, or its cache, the first one has it afterwards.
THEOREM ReadsHeal ==
    ASSUME "bucket" \notin Losses, ~Failures, OneBucket
    PROVE  ObjectSpec => ReadHeals
<1> DEFINE Inv == StoreInv /\ CacheBacked
           Heal == \A p \in Sessions, f \in Files :
              Read(p, f) /\ report'.result \notin {"none", "failed"} => 1 \in Holds(p, f)'
<1>1. Inv => Heal
  <2> SUFFICES ASSUME Inv, NEW p \in Sessions, NEW f \in Files, Read(p, f),
                      report'.result \notin {"none", "failed"}
               PROVE  1 \in Holds(p, f)'
    OBVIOUS
  <2>1. PICK i \in Answering(p, f) : EnsureLocal(backend[p][i], f) # "raises" /\ Found(p, f, i)
    BY DEF Read, Say
  <2> DEFINE c == EnsureLocal(backend[p][i], f)
  <2>2. PICK o \in [Kinds -> Hows] : Heals(p, i, o) /\ Sound(p, f, c, o) /\ Stores(p, f, c, o)
    BY <2>1, FoundOutcome
  <2>3. /\ i \in DOMAIN backend[p] /\ c # "none" /\ c \in Bytes
        /\ \A j \in 1 .. i - 1 : EnsureLocal(backend[p][j], f) = "none"
    BY <2>1, EnsureLocalFrom DEF Answering
  <2>4. DOMAIN backend[p] = 1 .. Len(backend[p]) /\ Len(backend[p]) \in Nat
    BY DEF StoreInv, ConfigInv, ConfigTypeOK
  <2>5. backend' = backend /\ 1 \in DOMAIN backend[p]
    BY <2>3, <2>4 DEF Read, backendVars
  <2>6. Stored(backend[p][1], f)' # "none"
    <3>1. CASE i = 1
      <4>1. Stored(backend[p][1], f) # "none"
        BY <2>1, <2>3, <3>1, CachedIsStored DEF EnsureLocal
      <4>2. QED
        BY <2>2, <2>3, <2>5, <4>1, StoredStays
    <3>2. CASE i # 1
      <4>1. 1 \in 1 .. i - 1
        BY <2>3, <2>4, <3>2
      <4>2. o[backend[p][1].kind] = "done"
        BY <2>2, <4>1 DEF Heals
      <4>3. QED
        BY <2>2, <2>3, <2>5, <4>2, TakenIsStored
    <3>3. QED
      BY <3>1, <3>2
  <2>7. QED
    BY <2>5, <2>6 DEF Holds
<1>2. QED
  BY <1>1, StoreInvInit, StoreInvStep, CacheStep, PTL DEF ObjectSpec, ReadHeals

\* Of the answers of all members, all are "yes" or one is the first that is not.
LEMMA FullyStored ==
    ASSUME StoreInv, NEW p \in Sessions, NEW f \in Files, IsFullyStored(p, f) = "yes"
    PROVE  \A i \in DOMAIN backend[p] : Exists(backend[p][i], f) = "yes"
<1> DEFINE answer == [i \in DOMAIN backend[p] |-> Exists(backend[p][i], f)]
           decides(i) == answer[i] # "yes" /\ \A j \in 1 .. i - 1 : answer[j] = "yes"
           D == {i \in DOMAIN answer : answer[i] # "yes"}
<1>1. DOMAIN backend[p] = 1 .. Len(backend[p]) /\ Len(backend[p]) \in Nat
  BY DEF StoreInv, ConfigInv, ConfigTypeOK
<1>2. DOMAIN answer = DOMAIN backend[p]
  OBVIOUS
<1>3. IsFullyStored(p, f) = IF \A i \in DOMAIN answer : answer[i] = "yes" THEN "yes"
                            ELSE answer[CHOOSE i \in DOMAIN answer : decides(i)]
  BY DEF IsFullyStored
<1> HIDE DEF answer
<1>4. SUFFICES ASSUME D # {} PROVE FALSE
  <2>1. D = {} => \A i \in DOMAIN backend[p] : answer[i] = "yes"
    BY <1>2
  <2>2. QED
    BY <1>4, <2>1 DEF answer
<1>5. D \subseteq Nat
  BY <1>1, <1>2
<1> HIDE DEF D
<1>6. PICK n \in D : \A m \in D : n <= m
  BY <1>4, <1>5, LeastElement
<1> USE DEF D
<1>7. decides(n) /\ n \in DOMAIN answer
  <2>1. ASSUME NEW j \in 1 .. n - 1 PROVE answer[j] = "yes"
    BY <1>1, <1>2, <1>5, <1>6
  <2>2. QED
    BY <1>6, <2>1
<1>8. decides(CHOOSE i \in DOMAIN answer : decides(i))
  BY <1>7
<1>9. QED
  BY <1>3, <1>7, <1>8

\* while no file changes and no copy is lost under a backfill, its source is there
SourceThere ==
    \A p \in Sessions, f \in Files :
        work[p][f].pc = "put" => Source(work[p][f].src, f) # "none"

LEMMA SourceStays ==
    ASSUME ~Races, StoreInv, SourceThere, [ObjectNext]_allVars
    PROVE  SourceThere'
<1>0. ObjectTypes
  BY DEF StoreInv
<1>1. ASSUME NEW p \in Sessions, NEW f \in Files, Archiving(p, f) \/ Interrupt(p, f)
      PROVE  SourceThere'
  <2>1. disk' = disk
    BY <1>1 DEF Archiving, Interrupt, Stage, Absorb, BackfillCheck, BackfillHash, BackfillPut,
                Read, VerifyObject
  <2>2. ASSUME NEW g \in Files, objects[g] # "none" PROVE objects'[g] # "none"
    <3>1. CASE UNCHANGED copies
      BY <2>2, <3>1 DEF copies
    <3>2. CASE StoreStep(p, f)
      <4>1. PICK c \in Bytes, o \in [Kinds -> Hows] : Sound(p, f, c, o) /\ Stores(p, f, c, o)
        BY <3>2 DEF StoreStep
      <4>2. o["local"] = "done" => c # "none"
        BY <4>1 DEF Sound, Skipped, Kinds
      <4>3. QED
        BY <2>2, <4>1, <4>2 DEF Stores
    <3>3. QED
      BY <1>1, <3>1, <3>2, ArchivingCopies
  <2>3. ASSUME NEW g \in Files, NEW src, Source(src, g) # "none" PROVE Source(src, g)' # "none"
    BY <2>1, <2>2, <2>3 DEF Source
  <2>4. ASSUME NEW q \in Sessions, NEW g \in Files, work'[q][g].pc = "put"
        PROVE  Source(work'[q][g].src, g) # "none"
    <3>1. CASE work'[q][g] = work[q][g]
      BY <2>4, <3>1 DEF SourceThere
    <3>2. CASE g = f /\ Source(work'[q][g].src, f) = "whole"
      BY <3>2
    <3>3. QED
      BY <1>0, <1>1, <2>4, <3>1, <3>2, PutHashed
  <2>5. QED
    BY <2>1, <2>2, <2>4 DEF SourceThere, Source
<1>2. ASSUME NEW f \in Files, Replace(f) \/ Rewrite(f) \/ Delete(f) \/ Lose(f)
      PROVE  SourceThere'
  <2>1. work' = work /\ \A p \in Sessions : work[p][f].pc = "idle"
    BY <1>2 DEF Replace, Rewrite, Delete, Lose, Touchable, Undisturbed
  <2>2. \A g \in Files : g # f => disk'[g] = disk[g] /\ objects'[g] = objects[g]
    BY <1>0, <1>2 DEF Replace, Rewrite, Delete, Lose, ObjectTypes
  <2>3. QED
    BY <2>1, <2>2 DEF SourceThere, Source
<1>3. ASSUME NEW p \in Sessions, Restart(p)
      PROVE  SourceThere'
  <2>1. UNCHANGED <<objects, disk>>
    BY <1>3 DEF Restart, copies
  <2>2. work' = [work EXCEPT ![p] = [f \in Files |-> Waiting]]
    BY <1>3 DEF Restart
  <2>3. \A q \in Sessions, f \in Files : work'[q][f] = work[q][f] \/ work'[q][f].pc = "idle"
    BY <1>0, <2>2 DEF ObjectTypes, Waiting
  <2>4. QED
    BY <2>1, <2>3 DEF SourceThere, Source
<1>4. CASE Outage \/ (\E p \in Sessions : Configure(p)) \/ UNCHANGED allVars
  BY <1>4 DEF Outage, Configure, allVars, objectVars, copies, SourceThere, Source
<1>5. QED
  BY <1>1, <1>2, <1>3, <1>4 DEF ObjectNext, Mishap

\* BackfillTruthful: what backfill counts as stored is, in every instance with one
\* bucket of each kind (they share a cache) in which storing does not fail, the
\* buckets lose nothing, and neither a file nor a copy goes away between its hash
\* and its copy.
THEOREM BackfillIsTruthful ==
    ASSUME "bucket" \notin Losses, ~Failures, ~Races, OneBucket
    PROVE  ObjectSpec => BackfillTruthful
<1> DEFINE Inv == StoreInv /\ CacheBacked /\ SourceThere
           Truthful ==
               \A p \in Sessions, f \in Files :
                  /\ BackfillCheck(p, f) /\ UNCHANGED work /\ Says("backfill", "had")
                       => Lacks(p, f) = {}
                  /\ BackfillPut(p, f) /\ Says("backfill", "done")
                       => /\ Holds(p, f)' # {}
                          /\ up = Remote => Lacks(p, f)' = {}
<1>1. ASSUME Inv, NEW p \in Sessions, NEW f \in Files, BackfillCheck(p, f), UNCHANGED work,
             Says("backfill", "had")
      PROVE  Lacks(p, f) = {}
  <2>1. work \in [Sessions -> [Files -> Works]]
    BY <1>1 DEF StoreInv, ObjectTypes
  <2>2. \A src : work # [work EXCEPT ![p][f] = [pc |-> "hash", src |-> src]]
    <3>1. work[p][f].pc = "idle"
      BY <1>1 DEF BackfillCheck
    <3> DEFINE w(src) == [pc |-> "hash", src |-> src]
    <3>2. \A src : w(src).pc = "hash"
      OBVIOUS
    <3> HIDE DEF w
    <3>3. \A src : work # [work EXCEPT ![p][f] = w(src)]
      BY <2>1, <3>1, <3>2
    <3>4. QED
      BY <3>3 DEF w
  <2>3. report'.result = CASE IsFullyStored(p, f) = "yes" -> "had"
                           [] IsFullyStored(p, f) = "raises" -> "failed"
                           [] OTHER -> "missing"
    BY <1>1, <2>2 DEF BackfillCheck, Say
  <2>4. IsFullyStored(p, f) = "yes"
    BY <1>1, <2>3 DEF Says
  <2>5. \A i \in DOMAIN backend[p] : Stored(backend[p][i], f) # "none"
    BY <1>1, <2>4, FullyStored, ExistsIsStored
  <2>6. QED
    BY <2>5 DEF Lacks, Holds
<1>2. ASSUME Inv, NEW p \in Sessions, NEW f \in Files, BackfillPut(p, f),
             Says("backfill", "done")
      PROVE  /\ Holds(p, f)' # {}
             /\ up = Remote => Lacks(p, f)' = {}
  <2> DEFINE src == work[p][f].src
             c == Source(src, f)
             l == src = "disk" \/ "local" \in linked[f]
  <2>1. PICK o \in PutOutcomes(p, f, c) : \E r \in PutResults(p, f, o) :
           /\ Store(p, f, c, l, o)
           /\ Say("backfill", f, CASE r = "stored"  -> "done"
                                   [] r = "OSError" -> "error"
                                   [] OTHER         -> "failed")
    BY <1>2, Zenon DEF BackfillPut
  <2>2. ObjectTypes /\ work[p][f] \in Works /\ backend' = backend
    BY <1>2 DEF StoreInv, ObjectTypes, BackfillPut, backendVars
  <2>3. c \in Bytes /\ l \in BOOLEAN
    BY <2>2, SourceByte DEF Works
  <2>4. "stored" \in PutResults(p, f, o)
    <3>1. report'.result = "done"
      BY <1>2 DEF Says
    <3>2. PICK r \in PutResults(p, f, o) :
            report'.result = CASE r = "stored"  -> "done"
                               [] r = "OSError" -> "error"
                               [] OTHER         -> "failed"
      BY <2>1 DEF Say
    <3>3. QED
      BY <3>1, <3>2
  <2>c. c # "none" /\ Store(p, f, c, l, o)
    BY <1>2, <2>1 DEF SourceThere, BackfillPut
  <2> HIDE DEF c, l
  <2>5. o \in [Kinds -> Hows] /\ Sound(p, f, c, o) /\ Stores(p, f, c, o)
    BY <1>2, <2>2, <2>3, <2>c, PutSound, StoreEffect
  <2>6. \A k \in Kinds : o[k] # "skip" => o[k] = "done"
    BY <2>c DEF PutOutcomes, Outcomes
  <2>7. \E n \in Members(p) : Exists(n, f) = "yes" \/ o[n.kind] # "skip"
    BY <2>4 DEF PutResults
  <2>8. ASSUME NEW i \in DOMAIN backend[p],
               Exists(backend[p][i], f) = "yes" \/ o[backend[p][i].kind] # "skip"
        PROVE  Stored(backend[p][i], f)' # "none"
    <3>1. CASE Exists(backend[p][i], f) = "yes"
      BY <1>2, <2>2, <2>3, <2>5, <3>1, ExistsIsStored, StoredStays
    <3>2. CASE o[backend[p][i].kind] # "skip"
      <4>1. o[backend[p][i].kind] = "done"
        BY <1>2, <2>6, <3>2, MemberTyped
      <4>2. QED
        BY <1>2, <2>2, <2>3, <2>5, <2>c, <4>1, TakenIsStored
    <3>3. QED
      BY <2>8, <3>1, <3>2
  <2>9. Holds(p, f)' # {}
    BY <2>2, <2>7, <2>8 DEF Holds, Members
  <2>10. ASSUME up = Remote, NEW i \in DOMAIN backend[p]
         PROVE  Exists(backend[p][i], f) = "yes" \/ o[backend[p][i].kind] # "skip"
    <3>1. backend[p][i].kind \in Kinds /\ backend[p][i] \in Members(p)
      BY <1>2, MemberTyped DEF Members
    <3>2. Exists(backend[p][i], f) \in {"yes", "no"}
      BY <2>10, <3>1 DEF Exists, Reachable, Kinds
    <3>3. Exists(backend[p][i], f) = "no" => o[backend[p][i].kind] = "done"
      BY <2>c, <3>1 DEF PutOutcomes
    <3>4. QED
      BY <3>2, <3>3
  <2>11. up = Remote => Lacks(p, f)' = {}
    BY <2>2, <2>8, <2>10 DEF Lacks, Holds
  <2>12. QED
    BY <2>9, <2>11
<1>3. Inv => Truthful
  BY <1>1, <1>2
<1>4. QED
  <2>1. ObjectInit => SourceThere
    BY DEF ObjectInit, Waiting, SourceThere
  <2>2. QED
    BY <1>3, <2>1, StoreInvInit, StoreInvStep, CacheStep, SourceStays, PTL
       DEF ObjectSpec, BackfillTruthful
=============================================================================
