---------------------------- MODULE OttReposProofs ----------------------------
(***************************************************************************)
(* What OttRepos guarantees for any repositories, checkouts, commits and   *)
(* tags.  update-all needs nothing for it; but for the names that mv has   *)
(* taken or given, an entry's name tells whose it is.                      *)
(***************************************************************************)
EXTENDS OttRepos, TLAPS

AnyEntry == [state : {"none", "live", "deleted"}, name : Histories \cup {None},
             path : Paths \cup {None}, tag : Tags \cup {None}, added : Nat]
AnyJob == [todo : SUBSET Paths, commit : Commits \cup {None}, tag : Tags \cup {None}]

RepoTypes ==
    /\ now \in Nat
    /\ head \in [Paths -> Commits \cup {None}]
    /\ tags \in [Histories -> [Tags -> Commits \cup {None}]]
    /\ byHash \in [Commits -> AnyEntry]
    /\ repoAt \in [Histories -> Commits \cup {None}]
    /\ ledger \in Seq([ts : Nat, leaves : SUBSET Commits])
    /\ left \subseteq Commits
    /\ renamed \subseteq Histories
    /\ job \in AnyJob

\* a checkout is of the history it is named after
HeadsNamed == \A p \in Paths : head[p] # None => head[p].history = p.name

\* n is the name of history h, or mv has had its hands on both (rn: renamed)
Names(n, h, rn) == n = h \/ {n, h} \subseteq rn

\* an entry has a name for its history, a path of that name, and no future stamp
Sound(c, e, rn) == /\ Names(e.name, c.history, rn)
                   /\ e.path \in Paths /\ e.path.name = e.name
                   /\ e.added <= now
EntriesSound == \A c \in Live : Sound(c, byHash[c], renamed)

\* the name of a live entry leads to it, and each name to a history it names
Identity ==
    /\ \A c \in Live : repoAt[byHash[c].name] = c
    /\ \A r \in Histories : repoAt[r] # None => Names(r, repoAt[r].history, renamed)

\* a committed leaf is there, with an old stamp, unless its repository moved on or
\* was renamed
CommittedOld ==
    /\ LastCommitTs <= now
    /\ \A c \in Commits : Anchored(c) /\ c \notin left /\ c.history \notin renamed
                          => c \in Live /\ byHash[c].added <= LastCommitTs

StoreInv == /\ RepoTypes /\ HeadsNamed /\ EntriesSound /\ Identity
            /\ CommittedOld

\* repo tag between its two steps, and update-all with what it has left to do
JobSound ==
    /\ job.tag # None => job.todo = {} /\ job.commit \in Live
    /\ job.todo # {} => \A c \in Outdated : byHash[c].path \in job.todo
    /\ \A p \in job.todo : head[p] # None

RepoInv == StoreInv /\ JobSound

LEMMA LastTsTyped == RepoTypes => LastCommitTs \in Int
<1> DEFINE Row == [ts : Nat, leaves : SUBSET Commits]
<1> SUFFICES ASSUME ledger \in Seq(Row), ledger # <<>> PROVE ledger[Len(ledger)].ts \in Nat
  BY DEF RepoTypes, LastCommitTs
<1>1. \A r \in Row : r.ts \in Nat
  OBVIOUS
<1> HIDE DEF Row
<1>2. ledger[Len(ledger)] \in Row
  OBVIOUS
<1>3. QED
  BY <1>1, <1>2

----------------------------------------------------------------------------
(* The appended line.                                                      *)

\* What a line does to the live entries: its own becomes live, the one its name
\* led to goes, unless it is the same.
LEMMA LiveAfterSave ==
    ASSUME RepoTypes, NEW c \in Commits, NEW e \in AnyEntry, e.state = "live",
           e.name \in Histories, SaveEntry(c, e)
    PROVE  /\ Live' = (Live \ {repoAt[e.name]}) \cup {c}
           /\ byHash'[c] = e
           /\ \A d \in Live' : d # c => byHash'[d] = byHash[d]
           /\ repoAt' = [repoAt EXCEPT ![e.name] = c]
           /\ left' = left \cup {d \in {repoAt[e.name]} \ {c, None} : Anchored(d)}
<1>1. /\ byHash' = [d \in Commits |-> IF d = c THEN e
                      ELSE IF d \in {repoAt[e.name]} \ {c, None} THEN NoEntry ELSE byHash[d]]
      /\ repoAt' = [repoAt EXCEPT ![e.name] = c]
      /\ left' = left \cup {d \in {repoAt[e.name]} \ {c, None} : Anchored(d)}
  BY DEF SaveEntry
<1>2. byHash'[c] = e
  BY <1>1
<1>3. Live' = (Live \ {repoAt[e.name]}) \cup {c}
  BY <1>1, NoneAssumption DEF Live, NoEntry
<1>4. \A d \in Live' : d # c => byHash'[d] = byHash[d]
  BY <1>1, <1>3 DEF Live
<1>5. QED
  BY <1>1, <1>2, <1>3, <1>4

\* A sound line leaves the store sound.
LEMMA SaveStep ==
    ASSUME StoreInv, NEW c \in Commits, NEW e \in AnyEntry, e.state = "live",
           Sound(c, e, renamed'), renamed \subseteq renamed', renamed' \subseteq Histories,
           Anchored(c) /\ c \notin left /\ c.history \notin renamed'
               => e.added <= LastCommitTs,
           SaveEntry(c, e), UNCHANGED <<now, head, tags, ledger>>, job' \in AnyJob
    PROVE  StoreInv'
<1> DEFINE old == repoAt[e.name]
<1>1. e.name \in Histories
  BY PathsAssumption DEF Sound
<1>2. /\ Live' = (Live \ {old}) \cup {c}
      /\ byHash'[c] = e
      /\ \A d \in Live' : d # c => byHash'[d] = byHash[d]
      /\ repoAt' = [repoAt EXCEPT ![e.name] = c]
      /\ left' = left \cup {d \in {old} \ {c, None} : Anchored(d)}
  BY <1>1, LiveAfterSave DEF StoreInv
<1>3. RepoTypes'
  BY <1>1 DEF StoreInv, RepoTypes, SaveEntry, NoEntry, AnyEntry
<1>4. HeadsNamed'
  BY DEF StoreInv, HeadsNamed
<1>5. EntriesSound'
  <2>1. ASSUME NEW d \in Live' PROVE Sound(d, byHash'[d], renamed')
    <3>1. CASE d = c
      BY <1>2, <3>1 DEF Sound
    <3>2. CASE d # c
      <4>1. d \in Live /\ byHash'[d] = byHash[d]
        BY <1>2, <2>1, <3>2
      <4>2. Sound(d, byHash[d], renamed)
        BY <4>1 DEF StoreInv, EntriesSound
      <4>3. QED
        BY <4>1, <4>2 DEF Sound, Names
    <3>3. QED
      BY <3>1, <3>2
  <2>2. QED
    BY <2>1 DEF EntriesSound, Sound
<1>6. Identity'
  <2>1. ASSUME NEW d \in Live' PROVE repoAt'[byHash'[d].name] = d
    <3>1. CASE d = c
      BY <3>1, <1>1, <1>2 DEF StoreInv, RepoTypes
    <3>2. CASE d # c
      <4>1. d \in Live /\ d # old /\ byHash'[d] = byHash[d]
        BY <1>2, <2>1, <3>2
      <4>2. repoAt[byHash[d].name] = d
        BY <4>1 DEF StoreInv, Identity
      <4>3. byHash[d].name # e.name
        BY <4>1, <4>2
      <4>4. byHash[d].name \in Histories
        BY <4>1, PathsAssumption DEF StoreInv, EntriesSound, Sound
      <4>5. QED
        BY <1>2, <4>1, <4>2, <4>3, <4>4 DEF StoreInv, RepoTypes
    <3>3. QED
      BY <3>1, <3>2
  <2>2. \A r \in Histories : repoAt'[r] # None => Names(r, repoAt'[r].history, renamed')
    BY <1>1, <1>2 DEF StoreInv, RepoTypes, Identity, Names, Sound
  <2>3. QED
    BY <2>1, <2>2 DEF Identity
<1>8. CommittedOld'
  <2>1. LastCommitTs' = LastCommitTs /\ \A d \in Commits : Anchored(d)' <=> Anchored(d)
    BY DEF LastCommitTs, Anchored
  <2>2. ASSUME NEW d \in Commits, Anchored(d), d \notin left', d.history \notin renamed'
        PROVE  d \in Live' /\ byHash'[d].added <= LastCommitTs
    <3>1. d \notin left /\ (d = c \/ d # old)
      BY <1>2, <2>2, NoneAssumption
    <3>2. d \in Live /\ byHash[d].added <= LastCommitTs
      BY <2>2, <3>1 DEF StoreInv, CommittedOld
    <3>3. QED
      BY <1>2, <2>2, <3>1, <3>2
  <2>3. QED
    BY <2>1, <2>2 DEF StoreInv, CommittedOld
<1>9. QED
  BY <1>3, <1>4, <1>5, <1>6, <1>8 DEF StoreInv

\* repo add, update and update-all.
LEMMA AddAtStep ==
    ASSUME StoreInv, NEW p \in Paths, NEW c \in Commits, c.history = p.name,
           AddAt(p, c), UNCHANGED <<now, head, tags, ledger, renamed>>, job' \in AnyJob
    PROVE  StoreInv'
<1>1. CASE c \in Live /\ byHash[c].name = p.name
  BY <1>1 DEF AddAt, manifest, StoreInv, RepoTypes, HeadsNamed, EntriesSound, Sound,
              Identity, CommittedOld, Anchored, LastCommitTs, Live
<1>2. CASE ~(c \in Live /\ byHash[c].name = p.name)
  <2>1. c \notin Live \/ c.history \in renamed
    BY <1>2 DEF StoreInv, EntriesSound, Sound, Names
  <2>2. RepoEntry(p) \in AnyEntry /\ RepoEntry(p).state = "live"
    BY PathsAssumption DEF RepoEntry, AnyEntry, StoreInv, RepoTypes
  <2>3. Sound(c, RepoEntry(p), renamed)
    BY DEF Sound, Names, RepoEntry, StoreInv, RepoTypes
  <2>4. ~(Anchored(c) /\ c \notin left /\ c.history \notin renamed)
    BY <2>1 DEF StoreInv, CommittedOld
  <2>5. SaveEntry(c, RepoEntry(p))
    BY <1>2 DEF AddAt
  <2>6. renamed' = renamed /\ renamed \subseteq Histories
    BY DEF StoreInv, RepoTypes
  <2>7. QED
    BY <2>2, <2>3, <2>4, <2>5, <2>6, SaveStep
<1>3. QED
  BY <1>1, <1>2

----------------------------------------------------------------------------
(* The steps of the commands.                                              *)

LEMMA InitRepoInv == RepoInit => RepoInv
<1> SUFFICES ASSUME RepoInit PROVE RepoInv
  OBVIOUS
<1>1. RepoTypes
  BY DEF RepoInit, RepoTypes, NoEntry, NoJob, AnyEntry, AnyJob
<1>2. Live = {} /\ LastCommitTs = -1 /\ DOMAIN ledger = {}
  BY DEF RepoInit, Live, NoEntry, LastCommitTs
<1>3. HeadsNamed /\ EntriesSound /\ Identity
  BY <1>2 DEF RepoInit, HeadsNamed, EntriesSound, Identity
<1>4. CommittedOld
  BY <1>2 DEF RepoInit, CommittedOld, Anchored
<1>5. JobSound
  BY DEF RepoInit, NoJob, JobSound
<1>6. QED
  BY <1>1, <1>3, <1>4, <1>5 DEF RepoInv, StoreInv

LEMMA AddStep ==
    ASSUME RepoInv, NEW p \in Paths,
           RepoUpdate(p) \/ \E c \in Commits : RepoAdd(p, c)
    PROVE  RepoInv'
<1>1. job' = NoJob /\ UNCHANGED <<now, head, tags, ledger, renamed>>
  BY DEF RepoUpdate, RepoAdd
<1>2. job' \in AnyJob /\ JobSound'
  BY <1>1 DEF NoJob, AnyJob, JobSound
<1>3. PICK q \in Paths, c \in Commits : c.history = q.name /\ AddAt(q, c)
  <2>1. CASE RepoUpdate(p)
    <3>1. PICK c \in Resolve(p) : head[byHash[c].path] # None
                                  /\ AddAt(byHash[c].path, head[byHash[c].path])
      BY <2>1 DEF RepoUpdate
    <3>2. byHash[c].path \in Paths
      BY DEF Resolve, RepoInv, StoreInv, EntriesSound, Sound
    <3>3. /\ head[byHash[c].path] \in Commits
          /\ head[byHash[c].path].history = byHash[c].path.name
      BY <3>1, <3>2 DEF RepoInv, StoreInv, RepoTypes, HeadsNamed
    <3>4. QED
      BY <3>1, <3>2, <3>3
  <2>2. CASE \E c \in Commits : RepoAdd(p, c)
    BY <2>2 DEF RepoAdd, RepoInv, StoreInv, HeadsNamed
  <2>3. QED
    BY <2>1, <2>2
<1>4. QED
  BY <1>1, <1>2, <1>3, AddAtStep DEF RepoInv

\* The entry keeps its tag and its stamp.
LEMMA FindStep ==
    ASSUME RepoInv, NEW c \in Commits, Find(c)
    PROVE  RepoInv'
<1>1. job' \in AnyJob /\ JobSound'
  BY DEF Find, NoJob, AnyJob, JobSound
<1>2. PICK p \in Paths : /\ p.name = byHash[c].name
                         /\ SaveEntry(c, [byHash[c] EXCEPT !.path = p])
  BY DEF Find
<1> DEFINE e == [byHash[c] EXCEPT !.path = p]
<1>3. c \in Live /\ Sound(c, byHash[c], renamed)
  BY DEF Find, RepoInv, StoreInv, EntriesSound
<1>4. e \in AnyEntry /\ e.state = "live"
  BY <1>3 DEF RepoInv, StoreInv, RepoTypes, AnyEntry, Live
<1>5. e.added = byHash[c].added /\ e.name = byHash[c].name /\ e.path = p
  BY DEF RepoInv, StoreInv, RepoTypes, AnyEntry
<1>6. Sound(c, e, renamed)
  BY <1>2, <1>3, <1>5 DEF Sound
<1>7. Anchored(c) /\ c \notin left /\ c.history \notin renamed => e.added <= LastCommitTs
  BY <1>5 DEF RepoInv, StoreInv, CommittedOld
<1>8. renamed' = renamed /\ renamed \subseteq Histories
  BY DEF Find, RepoInv, StoreInv, RepoTypes
<1>9. QED
  BY <1>1, <1>2, <1>4, <1>6, <1>7, <1>8, SaveStep DEF Find, RepoInv

LEMMA MvStep ==
    ASSUME RepoInv, NEW c \in Commits, NEW p \in Paths, Mv(c, p)
    PROVE  RepoInv'
<1>1. job' \in AnyJob /\ JobSound'
  BY DEF Mv, NoJob, AnyJob, JobSound
<1> DEFINE e == [byHash[c] EXCEPT !.path = p, !.name = p.name]
<1>2. c \in Live /\ Sound(c, byHash[c], renamed) /\ byHash[c].name \in Histories
  BY PathsAssumption DEF Mv, RepoInv, StoreInv, EntriesSound, Sound
<1>3. /\ renamed' = IF p.name = byHash[c].name THEN renamed
                    ELSE renamed \cup {byHash[c].name, p.name}
      /\ renamed \subseteq Histories
  BY DEF Mv, RepoInv, StoreInv, RepoTypes
<1>4. e \in AnyEntry /\ e.state = "live"
  BY <1>2, PathsAssumption DEF RepoInv, StoreInv, RepoTypes, AnyEntry, Live
<1>5. e.added = byHash[c].added /\ e.name = p.name /\ e.path = p
  BY DEF RepoInv, StoreInv, RepoTypes, AnyEntry
<1>6. Sound(c, e, renamed')
  BY <1>2, <1>3, <1>5 DEF Sound, Names
<1>7. Anchored(c) /\ c \notin left /\ c.history \notin renamed' => e.added <= LastCommitTs
  BY <1>3, <1>5 DEF RepoInv, StoreInv, CommittedOld
<1>8. renamed \subseteq renamed' /\ renamed' \subseteq Histories
  BY <1>2, <1>3, PathsAssumption
<1>9. QED
  BY <1>1, <1>4, <1>6, <1>7, <1>8, SaveStep DEF Mv, RepoInv

LEMMA RecordTagStep ==
    ASSUME RepoInv, RecordTag
    PROVE  RepoInv'
<1> DEFINE c == job.commit
           e == [byHash[c] EXCEPT !.tag = job.tag]
<1>1. job' \in AnyJob /\ JobSound'
  BY DEF RecordTag, NoJob, AnyJob, JobSound
<1>2. c \in Live /\ Sound(c, byHash[c], renamed) /\ job.tag \in Tags
  BY DEF RecordTag, RepoInv, StoreInv, RepoTypes, AnyJob, JobSound, EntriesSound
<1>3. c \in Commits
  BY <1>2 DEF Live
<1>4. e \in AnyEntry /\ e.state = "live"
  BY <1>2, <1>3 DEF RepoInv, StoreInv, RepoTypes, AnyEntry, Live
<1>5. e.added = byHash[c].added /\ e.tag = job.tag /\ e.name = byHash[c].name
      /\ e.path = byHash[c].path
  BY <1>3 DEF RepoInv, StoreInv, RepoTypes, AnyEntry
<1>6. Sound(c, e, renamed)
  BY <1>2, <1>5 DEF Sound
<1>7. Anchored(c) /\ c \notin left /\ c.history \notin renamed => e.added <= LastCommitTs
  BY <1>3, <1>5 DEF RepoInv, StoreInv, CommittedOld
<1>8. /\ SaveEntry(c, e) /\ UNCHANGED <<now, head, tags, ledger, renamed>>
      /\ renamed \subseteq Histories
  BY DEF RecordTag, RepoInv, StoreInv, RepoTypes
<1> HIDE DEF c, e
<1>9. QED
  BY <1>1, <1>3, <1>4, <1>6, <1>7, <1>8, SaveStep DEF RepoInv

\* Signing touches no entry.
LEMMA SignTagStep ==
    ASSUME RepoInv, NEW p \in Paths, NEW t \in Tags, SignTag(p, t)
    PROVE  RepoInv'
<1> USE DEF RepoInv, StoreInv, RepoTypes
<1>1. PICK c \in Resolve(p) : job' = [NoJob EXCEPT !.commit = c, !.tag = t]
  BY DEF SignTag
<1>2. c \in Live /\ c \in Commits
  BY DEF Resolve, Live
<1>3. /\ head[p] \in Commits /\ head[p].history \in Histories
      /\ tags' = [tags EXCEPT ![head[p].history][t] = head[p]]
      /\ UNCHANGED <<now, head, byHash, repoAt, left, ledger, renamed>>
  BY CommitsAssumption DEF SignTag, manifest
<1>4. Live' = Live
  BY <1>3 DEF Live
<1>5. job' \in AnyJob /\ job'.todo = {} /\ job'.commit = c
  BY <1>1, <1>2 DEF NoJob, AnyJob
<1>6. RepoTypes'
  BY <1>3, <1>5
<1>7. (HeadsNamed /\ EntriesSound /\ Identity /\ CommittedOld)'
  BY <1>3, <1>4 DEF HeadsNamed, EntriesSound, Sound, Identity, CommittedOld, Anchored,
                    LastCommitTs
<1>8. JobSound'
  BY <1>2, <1>4, <1>5 DEF JobSound
<1>9. QED
  BY <1>6, <1>7, <1>8

\* rm takes no entry of a committed leaf.
LEMMA RmStep ==
    ASSUME RepoInv, NEW c \in Commits, Rm(c)
    PROVE  RepoInv'
<1> USE DEF RepoInv, StoreInv, RepoTypes
<1>1. /\ byHash' = [byHash EXCEPT ![c] = [NoEntry EXCEPT !.state = "deleted"]]
      /\ UNCHANGED <<now, head, tags, repoAt, ledger, job, left, renamed>> /\ job = NoJob
  BY DEF Rm
<1>2. Live' = Live \ {c} /\ \A d \in Live' : byHash'[d] = byHash[d]
  BY <1>1 DEF Live, NoEntry
<1>3. RepoTypes'
  BY <1>1 DEF AnyEntry, NoEntry
<1>4. (HeadsNamed /\ EntriesSound /\ Identity)'
  BY <1>1, <1>2 DEF HeadsNamed, EntriesSound, Sound, Identity
<1>5. CommittedOld'
  <2>1. LastCommitTs \in Int
    BY LastTsTyped
  <2>2. byHash[c].added \in Int /\ byHash[c].added > LastCommitTs
    BY DEF Rm, NeverCommitted, AnyEntry
  <2>3. ~(Anchored(c) /\ c \notin left /\ c.history \notin renamed)
    BY <2>1, <2>2 DEF CommittedOld
  <2>4. LastCommitTs' = LastCommitTs /\ \A d \in Commits : Anchored(d)' <=> Anchored(d)
    BY <1>1 DEF LastCommitTs, Anchored
  <2>5. QED
    BY <1>1, <1>2, <2>3, <2>4 DEF CommittedOld
<1>6. QED
  BY <1>1, <1>3, <1>4, <1>5 DEF JobSound, NoJob

\* What a commit absorbs was added by now, which is its stamp.
LEMMA CommitStep ==
    ASSUME RepoInv, Commit
    PROVE  RepoInv'
<1> USE DEF RepoInv, StoreInv, RepoTypes
<1> DEFINE row == [ts |-> now, leaves |-> Live]
<1>1. /\ ledger' = Append(ledger, row) /\ job = NoJob
      /\ UNCHANGED <<now, head, tags, manifest, job, renamed>>
  BY DEF Commit
<1>2. Live' = Live /\ Live \subseteq Commits
  BY <1>1 DEF Live, manifest
<1>3. row \in [ts : Nat, leaves : SUBSET Commits]
  BY <1>2
<1>4. RepoTypes'
  BY <1>1, <1>3 DEF manifest
<1>5. (HeadsNamed /\ EntriesSound /\ Identity)'
  BY <1>1, <1>2 DEF manifest, HeadsNamed, EntriesSound, Sound, Identity
<1>6. CommittedOld'
  <2>1. LastCommitTs' = now
    BY <1>1, <1>3 DEF LastCommitTs
  <2>2. \A d \in Commits : Anchored(d)' => Anchored(d) \/ d \in Live
    <3>1. ASSUME NEW d \in Commits, NEW i \in DOMAIN ledger', d \in ledger'[i].leaves
          PROVE  Anchored(d) \/ d \in Live
      BY <1>1, <1>3, <3>1 DEF Anchored
    <3>2. QED
      BY <3>1 DEF Anchored
  <2>3. \A d \in Live : byHash[d].added <= now
    BY DEF EntriesSound, Sound
  <2>4. QED
    BY <1>1, <1>2, <2>1, <2>2, <2>3 DEF CommittedOld, manifest
<1>7. QED
  BY <1>1, <1>4, <1>5, <1>6 DEF JobSound, NoJob

LEMMA UpdateAllStep ==
    ASSUME RepoInv, UpdateAllBegin
    PROVE  RepoInv'
<1> USE DEF RepoInv, StoreInv, RepoTypes
<1>1. /\ job' = [NoJob EXCEPT !.todo = {byHash[c].path : c \in Outdated}]
      /\ UNCHANGED <<now, head, tags, byHash, repoAt, ledger, left, renamed>>
  BY DEF UpdateAllBegin, manifest
<1>2. \A c \in Outdated : c \in Live /\ byHash[c].path \in Paths /\ head[byHash[c].path] # None
  BY DEF Outdated, Checkout, EntriesSound, Sound
<1>3. job' \in AnyJob /\ job'.todo = {byHash[c].path : c \in Outdated} /\ job'.tag = None
  <2> DEFINE T == {byHash[c].path : c \in Outdated}
  <2>1. T \subseteq Paths
    BY <1>2
  <2>2. job' = [NoJob EXCEPT !.todo = T]
    BY <1>1
  <2> HIDE DEF T
  <2>3. job' \in AnyJob /\ job'.todo = T /\ job'.tag = None
    BY <2>1, <2>2 DEF NoJob, AnyJob
  <2>4. QED
    BY <2>3 DEF T
<1>4. Live' = Live /\ Outdated' = Outdated
  BY <1>1 DEF Live, Outdated, Checkout
<1>5. StoreInv'
  BY <1>1, <1>3, <1>4 DEF HeadsNamed, EntriesSound, Sound, Identity, CommittedOld, Anchored,
                          LastCommitTs
<1>6. JobSound'
  BY <1>1, <1>2, <1>3, <1>4 DEF JobSound
<1>7. QED
  BY <1>5, <1>6

\* After an update from checkout p, an entry is outdated only if it was so before
\* and its checkout is another one: no two live entries have one name.
LEMMA OutdatedAfter ==
    ASSUME RepoInv, NEW p \in Paths, UpdateNext(p), NEW d \in Outdated'
    PROVE  d \in Outdated /\ byHash'[d] = byHash[d] /\ byHash[d].path # p
<1> USE DEF RepoInv, StoreInv, RepoTypes
<1> DEFINE c == head[p]
<1>1. AddAt(p, c) /\ head' = head /\ p \in job.todo
  BY DEF UpdateNext
<1>2. c \in Commits /\ c.history = p.name /\ c.history \in Histories
  BY <1>1, PathsAssumption DEF JobSound, HeadsNamed
<1>3. d \in Live' /\ head[byHash'[d].path] \notin {None, d}
  BY <1>1 DEF Outdated, Checkout
<1>4. CASE c \in Live /\ byHash[c].name = p.name
  <2>1. byHash' = byHash /\ Live' = Live
    BY <1>1, <1>4 DEF AddAt, manifest, Live
  <2>2. d \in Outdated
    BY <1>3, <2>1 DEF Outdated, Checkout
  <2>3. byHash[d].path # p
    <3>1. SUFFICES ASSUME byHash[d].path = p PROVE FALSE
      OBVIOUS
    <3>2. d \in Live /\ byHash[d].name = byHash[c].name
      BY <1>3, <1>4, <2>1, <3>1 DEF EntriesSound, Sound
    <3>3. d = c
      BY <1>4, <3>2 DEF Identity
    <3>4. QED
      BY <1>3, <2>1, <3>1, <3>3
  <2>4. QED
    BY <2>1, <2>2, <2>3
<1>5. CASE ~(c \in Live /\ byHash[c].name = p.name)
  <2>1. SaveEntry(c, RepoEntry(p))
    BY <1>1, <1>5 DEF AddAt
  <2>2. /\ RepoEntry(p) \in AnyEntry /\ RepoEntry(p).state = "live"
        /\ RepoEntry(p).name = p.name /\ RepoEntry(p).path = p
    BY PathsAssumption DEF RepoEntry, AnyEntry
  <2>3. /\ Live' = (Live \ {repoAt[p.name]}) \cup {c}
        /\ byHash'[c] = RepoEntry(p)
        /\ \A g \in Live' : g # c => byHash'[g] = byHash[g]
    BY <1>2, <2>1, <2>2, LiveAfterSave
  <2>4. d # c
    BY <1>3, <2>2, <2>3
  <2>5. d \in Live /\ d # repoAt[p.name] /\ byHash'[d] = byHash[d]
    BY <1>3, <2>3, <2>4
  <2>6. byHash[d].path # p
    BY <2>5 DEF EntriesSound, Sound, Identity
  <2>7. QED
    BY <1>3, <2>5, <2>6 DEF Outdated, Checkout
<1>6. QED
  BY <1>4, <1>5

LEMMA UpdateNextStep ==
    ASSUME RepoInv, NEW p \in Paths, UpdateNext(p)
    PROVE  RepoInv'
<1>1. /\ p \in job.todo /\ AddAt(p, head[p]) /\ job' = [job EXCEPT !.todo = @ \ {p}]
      /\ UNCHANGED <<now, head, tags, ledger, renamed>>
  BY DEF UpdateNext
<1>2. job \in AnyJob
  BY DEF RepoInv, StoreInv, RepoTypes
<1>3. job' \in AnyJob /\ job'.todo = job.todo \ {p} /\ job'.tag = job.tag
  BY <1>1, <1>2 DEF AnyJob
<1>4. head[p] \in Commits /\ head[p].history = p.name
  BY <1>1 DEF RepoInv, JobSound, StoreInv, HeadsNamed, RepoTypes
<1>5. StoreInv'
  BY <1>1, <1>3, <1>4, AddAtStep DEF RepoInv
<1>6. job.tag = None /\ \A d \in Outdated : byHash[d].path \in job.todo
  BY <1>1 DEF RepoInv, JobSound
<1>7. JobSound'
  <2>1. \A d \in Outdated' : byHash'[d].path \in job'.todo
    BY <1>3, <1>6, OutdatedAfter
  <2>2. \A q \in job'.todo : head'[q] # None
    BY <1>1, <1>3 DEF RepoInv, JobSound
  <2>3. QED
    BY <1>3, <1>6, <2>1, <2>2 DEF JobSound
<1>8. QED
  BY <1>5, <1>7 DEF RepoInv

\* Checkouts move, time passes, a command is killed.
LEMMA EnvironmentStep ==
    ASSUME RepoInv,
           Tick \/ Die \/ \E p \in Paths, c \in Commits \cup {None} : MoveHead(p, c)
    PROVE  RepoInv'
<1> USE DEF RepoInv, StoreInv, RepoTypes
<1>1. UNCHANGED <<tags, byHash, repoAt, ledger, left, renamed>>
  BY DEF Tick, Die, MoveHead, manifest
<1>2. Live' = Live /\ LastCommitTs' = LastCommitTs
      /\ \A d \in Commits : Anchored(d)' <=> Anchored(d)
  BY <1>1 DEF Live, LastCommitTs, Anchored
<1>3. Identity'
  BY <1>1, <1>2 DEF Identity
<1>4. CASE Tick
  <2>1. now' = now + 1 /\ UNCHANGED <<head, job>>
    BY <1>4 DEF Tick
  <2>2. RepoTypes' /\ HeadsNamed'
    BY <1>1, <2>1 DEF HeadsNamed
  <2>3. EntriesSound'
    BY <1>1, <1>2, <2>1 DEF EntriesSound, Sound, Live, AnyEntry
  <2>4. CommittedOld'
    <3>1. LastCommitTs \in Int
      BY LastTsTyped
    <3>2. LastCommitTs <= now'
      BY <2>1, <3>1 DEF CommittedOld
    <3>3. QED
      BY <1>1, <1>2, <3>2 DEF CommittedOld
  <2>5. JobSound'
    BY <1>1, <1>2, <2>1 DEF JobSound, Outdated, Checkout
  <2>6. QED
    BY <1>3, <2>2, <2>3, <2>4, <2>5
<1>5. CASE Die
  <2>1. job' = NoJob /\ UNCHANGED <<now, head>>
    BY <1>5 DEF Die
  <2>2. RepoTypes' /\ HeadsNamed'
    BY <1>1, <2>1 DEF HeadsNamed, NoJob, AnyJob
  <2>3. EntriesSound' /\ CommittedOld' /\ JobSound'
    BY <1>1, <1>2, <2>1 DEF EntriesSound, Sound, CommittedOld, JobSound, NoJob
  <2>4. QED
    BY <1>3, <2>2, <2>3
<1>6. ASSUME NEW p \in Paths, NEW c \in Commits \cup {None}, MoveHead(p, c)
      PROVE  RepoInv'
  <2>1. /\ job.todo = {} /\ head' = [head EXCEPT ![p] = c] /\ UNCHANGED <<now, job>>
        /\ c # None => c.history = IF head[p] = None THEN p.name ELSE head[p].history
    BY <1>6 DEF MoveHead
  <2>2. RepoTypes'
    BY <1>1, <2>1
  <2>3. HeadsNamed'
    BY <2>1 DEF HeadsNamed
  <2>4. EntriesSound' /\ CommittedOld'
    BY <1>1, <1>2, <2>1 DEF EntriesSound, Sound, CommittedOld
  <2>5. JobSound'
    BY <1>1, <1>2, <2>1 DEF JobSound
  <2>6. QED
    BY <1>3, <2>2, <2>3, <2>4, <2>5
<1>7. QED
  BY <1>4, <1>5, <1>6

\* The manifest stays sound whatever the commands, the checkouts and the clock do.
THEOREM RepoInvariant == RepoSpec => []RepoInv
<1>1. RepoInv /\ UNCHANGED repoVars => RepoInv'
  BY DEF repoVars, RepoInv, StoreInv, RepoTypes, HeadsNamed, EntriesSound, Sound, Identity,
         CommittedOld, Anchored, LastCommitTs, Live, JobSound, Outdated, Checkout
<1>2. RepoInv /\ [RepoNext]_repoVars => RepoInv'
  BY <1>1, AddStep, MvStep, EnvironmentStep, SignTagStep, UpdateNextStep, FindStep, RmStep,
     UpdateAllStep, RecordTagStep, CommitStep DEF RepoNext
<1> QED
  BY InitRepoInv, <1>2, PTL DEF RepoSpec

----------------------------------------------------------------------------
(* The properties.                                                         *)

\* The comparison with the last commit's stamp protects every committed
\* repository that has not come back to an earlier commit and that mv has not renamed.
THEOREM CommittedKept == RepoSpec => []CommittedRepoKept
<1>1. RepoInv => CommittedRepoKept
  <2> SUFFICES ASSUME RepoInv, NEW c \in Live, NEW i \in DOMAIN ledger,
                      NeverCommitted(c), c \in ledger[i].leaves, c \notin left,
                      c.history \notin renamed
               PROVE  FALSE
    BY DEF CommittedRepoKept
  <2>1. byHash[c].added <= LastCommitTs /\ byHash[c].added > LastCommitTs
    BY DEF RepoInv, StoreInv, CommittedOld, Anchored, Live, NeverCommitted
  <2>2. LastCommitTs <= now /\ LastCommitTs \in Int /\ byHash[c].added \in Nat
    BY LastTsTyped DEF RepoInv, StoreInv, RepoTypes, CommittedOld, AnyEntry, Live
  <2>3. QED
    BY <2>1, <2>2
<1> QED
  BY <1>1, RepoInvariant, PTL

\* update-all settles every archived repository, in whatever order it goes
\* through them.
THEOREM AllSettled == RepoSpec => UpdateAllSettles
<1>1. ASSUME RepoInv, RepoInv', NEW p \in Paths, UpdateNext(p), job'.todo = {},
             NEW c \in Live'
      PROVE  head[byHash'[c].path] \in {None, c}
  <2>1. c \notin Outdated'
    <3>1. SUFFICES ASSUME c \in Outdated' PROVE FALSE
      OBVIOUS
    <3>2. c \in Outdated /\ byHash[c].path # p
      BY <1>1, <3>1, OutdatedAfter
    <3>3. byHash[c].path \in job.todo
      BY <1>1, <3>2 DEF RepoInv, JobSound, UpdateNext
    <3>4. job'.todo = job.todo \ {p}
      BY <1>1 DEF UpdateNext, RepoInv, StoreInv, RepoTypes, AnyJob
    <3>5. QED
      BY <1>1, <3>2, <3>3, <3>4
  <2>2. head' = head
    BY <1>1 DEF UpdateNext
  <2>3. QED
    BY <1>1, <2>1, <2>2 DEF Outdated, Checkout
<1>2. RepoInv /\ RepoInv'
      => [job'.todo = {} /\ (\E p \in Paths : UpdateNext(p))
          => \A c \in Live' : head[byHash'[c].path] \in {None, c}]_repoVars
  BY <1>1
<1> QED
  BY <1>2, RepoInvariant, PTL DEF UpdateAllSettles

\* What evicts the entry of a repository that mv left alone is another of its own.
LEMMA HistoryStays ==
    ASSUME RepoInv, NEW c \in Commits, NEW e \in AnyEntry, e.state = "live",
           Sound(c, e, renamed'), renamed \subseteq renamed', SaveEntry(c, e),
           NEW h \in Histories \ renamed', InArchive(h)
    PROVE  InArchive(h)'
<1>1. PICK d \in Live : d.history = h
  BY DEF InArchive
<1>2. e.name \in Histories
  BY PathsAssumption DEF Sound
<1>3. Live' = (Live \ {repoAt[e.name]}) \cup {c}
  BY <1>2, LiveAfterSave DEF RepoInv, StoreInv
<1>4. CASE d = repoAt[e.name]
  <2>1. d # None
    BY NoneAssumption DEF Live
  <2>2. Names(e.name, h, renamed)
    BY <1>1, <1>2, <1>4, <2>1 DEF RepoInv, StoreInv, Identity
  <2>3. c.history = h
    BY <2>2 DEF Names, Sound
  <2>4. QED
    BY <1>3, <2>3 DEF InArchive
<1>5. CASE d # repoAt[e.name]
  BY <1>1, <1>3, <1>5 DEF InArchive
<1>6. QED
  BY <1>4, <1>5

LEMMA HistoryStaysAdd ==
    ASSUME RepoInv, NEW p \in Paths, NEW c \in Commits, c.history = p.name, AddAt(p, c),
           UNCHANGED renamed, NEW h \in Histories \ renamed', InArchive(h)
    PROVE  InArchive(h)'
<1>1. CASE UNCHANGED manifest
  BY <1>1 DEF manifest, InArchive, Live
<1>2. CASE SaveEntry(c, RepoEntry(p))
  <2>1. /\ RepoEntry(p) \in AnyEntry /\ RepoEntry(p).state = "live"
        /\ Sound(c, RepoEntry(p), renamed)
    BY PathsAssumption DEF RepoEntry, AnyEntry, RepoInv, StoreInv, RepoTypes, Sound, Names
  <2>2. QED
    BY <1>2, <2>1, HistoryStays
<1>3. QED
  BY <1>1, <1>2 DEF AddAt

\* A repository that no mv has renamed, and whose name no mv has given to another,
\* leaves the archive by rm alone, whatever happens to the others.
THEOREM ReposKept == RepoSpec => RepoKeptUntilRm
<1>1. ASSUME RepoInv, RepoNext, NEW h \in Histories \ renamed', InArchive(h),
             ~InArchive(h)'
      PROVE  \E c \in Commits : c.history = h /\ Rm(c)
  <2>1. ASSUME NEW p \in Paths, RepoUpdate(p) PROVE FALSE
    <3>1. PICK c \in Resolve(p) : head[byHash[c].path] # None
                                  /\ AddAt(byHash[c].path, head[byHash[c].path])
      BY <2>1 DEF RepoUpdate
    <3>2. byHash[c].path \in Paths
      BY <1>1 DEF Resolve, RepoInv, StoreInv, EntriesSound, Sound
    <3>3. /\ head[byHash[c].path] \in Commits
          /\ head[byHash[c].path].history = byHash[c].path.name
      BY <1>1, <3>1, <3>2 DEF RepoInv, StoreInv, RepoTypes, HeadsNamed
    <3>4. QED
      BY <1>1, <2>1, <3>1, <3>2, <3>3, HistoryStaysAdd DEF RepoUpdate
  <2>2. ASSUME NEW p \in Paths, NEW c \in Commits, RepoAdd(p, c) PROVE FALSE
    <3>1. c.history = p.name
      BY <1>1, <2>2 DEF RepoAdd, RepoInv, StoreInv, HeadsNamed
    <3>2. QED
      BY <1>1, <2>2, <3>1, HistoryStaysAdd DEF RepoAdd
  <2>3. ASSUME NEW p \in Paths, UpdateNext(p) PROVE FALSE
    <3>1. head[p] \in Commits /\ head[p].history = p.name
      BY <1>1, <2>3 DEF UpdateNext, RepoInv, JobSound, StoreInv, HeadsNamed, RepoTypes
    <3>2. QED
      BY <1>1, <2>3, <3>1, HistoryStaysAdd DEF UpdateNext
  <2>4. ASSUME NEW c \in Commits, Find(c) PROVE FALSE
    <3>1. PICK p \in Paths : /\ p.name = byHash[c].name
                             /\ SaveEntry(c, [byHash[c] EXCEPT !.path = p])
      BY <2>4 DEF Find
    <3>2. /\ [byHash[c] EXCEPT !.path = p] \in AnyEntry
          /\ [byHash[c] EXCEPT !.path = p].state = "live"
          /\ Sound(c, [byHash[c] EXCEPT !.path = p], renamed) /\ UNCHANGED renamed
      BY <1>1, <2>4, <3>1 DEF Find, RepoInv, StoreInv, RepoTypes, AnyEntry, EntriesSound,
                              Sound, Live
    <3>3. QED
      BY <1>1, <3>1, <3>2, HistoryStays
  <2>5. ASSUME NEW c \in Commits, NEW p \in Paths, Mv(c, p) PROVE FALSE
    <3> DEFINE e == [byHash[c] EXCEPT !.path = p, !.name = p.name]
    <3>1. /\ SaveEntry(c, e) /\ c \in Live
          /\ renamed' = IF p.name = byHash[c].name THEN renamed
                        ELSE renamed \cup {byHash[c].name, p.name}
      BY <2>5 DEF Mv
    <3>2. e \in AnyEntry /\ e.state = "live" /\ Sound(c, e, renamed')
      BY <1>1, <3>1, PathsAssumption DEF RepoInv, StoreInv, RepoTypes, AnyEntry,
                                         EntriesSound, Sound, Names, Live
    <3>3. QED
      BY <1>1, <3>1, <3>2, HistoryStays
  <2>6. ASSUME RecordTag PROVE FALSE
    <3> DEFINE e == [byHash[job.commit] EXCEPT !.tag = job.tag]
    <3>1. job.commit \in Live /\ job.commit \in Commits /\ job.tag \in Tags \cup {None}
      BY <1>1, <2>6 DEF RecordTag, RepoInv, StoreInv, RepoTypes, AnyJob, JobSound, Live
    <3>2. e \in AnyEntry /\ e.state = "live" /\ Sound(job.commit, e, renamed)
      BY <1>1, <3>1 DEF RepoInv, StoreInv, RepoTypes, AnyEntry, EntriesSound, Sound, Live
    <3>3. QED
      BY <1>1, <2>6, <3>1, <3>2, HistoryStays DEF RecordTag
  <2>7. ASSUME NEW c \in Commits, Rm(c) PROVE c.history = h
    <3>1. Live' = Live \ {c}
      BY <1>1, <2>7 DEF Rm, Live, NoEntry, RepoInv, StoreInv, RepoTypes
    <3>2. QED
      BY <1>1, <3>1 DEF InArchive
  <2>8. CASE UNCHANGED byHash
    BY <1>1, <2>8 DEF InArchive, Live
  <2>9. \/ UNCHANGED byHash
        \/ RecordTag
        \/ \E p \in Paths : RepoUpdate(p) \/ UpdateNext(p)
        \/ \E p \in Paths, c \in Commits : RepoAdd(p, c) \/ Mv(c, p)
        \/ \E c \in Commits : Find(c) \/ Rm(c)
    BY <1>1 DEF RepoNext, MoveHead, SignTag, UpdateAllBegin, Commit, Tick, Die, manifest
  <2>10. QED
    BY <2>1, <2>2, <2>3, <2>4, <2>5, <2>6, <2>7, <2>8, <2>9
<1>2. RepoInv /\ [RepoNext]_repoVars
      => [\A h \in Histories \ renamed' : InArchive(h) /\ ~InArchive(h)'
          => \E c \in Commits : c.history = h /\ Rm(c)]_repoVars
  BY <1>1
<1> QED
  BY <1>2, RepoInvariant, PTL DEF RepoSpec, RepoKeptUntilRm
===============================================================================
