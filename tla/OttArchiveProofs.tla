--------------------------- MODULE OttArchiveProofs ---------------------------
(***************************************************************************)
(* What OttArchive guarantees for any number of files, repositories and    *)
(* commits.  TypeOK and OneEntryPerRepo hold under any interleaving of     *)
(* sessions.  The promises about committed files need one session at a     *)
(* time (OneSession), and then survive a crash at any step, torn writes of *)
(* staged.jsonl included.  The abstract archive, which forgets nothing     *)
(* without rm, needs those excluded, and TagsKept every crash: a commit    *)
(* cut short absorbs its files a second time.                              *)
(***************************************************************************)
EXTENDS OttArchive, FiniteSetTheorems, TLAPS

OneSession == \A p, q \in Sessions : p = q

\* A file's manifest entry never names a repository, a repository's entry is
\* never a file's, and no stamp is ahead of the clock.
StampInv ==
    /\ \A f \in Files : byHash[f].repo = None /\ byHash[f].added <= now
    /\ \A r \in Repos : repoAt[r] \in Commits \cup {None}
    /\ \A f \in Files : staged[f] <= now
    /\ \A i \in DOMAIN ledger : ledger[i].ts <= now

\* The manifest keeps every committed file, with a stamp no later than the
\* last commit's.
CommittedInv ==
    \A f \in Committed : Live(f) /\ byHash[f].added <= LastCommitTs

\* A file both staged and archived (a crash came between save_entry and the
\* rewriting of staged.jsonl) has the same stamp in both places.
StagedInv == \A f \in Files : IsStaged(f) /\ Live(f) => staged[f] = byHash[f].added

\* What a session has read still holds when it writes.
RowsInv(p) ==
    \A f \in Files :
        /\ ses[p].rows[f] <= now
        /\ ses[p].rows[f] # Never /\ Live(f) => ses[p].rows[f] = byHash[f].added
StageInv(p) == At(p, "stage") => ses[p].arg \in Files /\ ~Live(ses[p].arg)
TombstoneInv(p) ==
    /\ ses[p].op = "rm" /\ ~At(p, "stamp") => ses[p].ts = LastCommitTs
    /\ At(p, "tombstone") =>
          /\ ses[p].op = "rm"
          /\ \A f \in ses[p].todo \cap Files : NeverCommitted(byHash[f], LastCommitTs)
SaveInv(p) ==
    At(p, "save") =>
        /\ ses[p].arg \in Hashes
        /\ Live(ses[p].arg)
        /\ ses[p].entry.state = "live"
        /\ ses[p].entry.repo = byHash[ses[p].arg].repo
        /\ ses[p].entry.added = byHash[ses[p].arg].added
AbsorbInv(p) ==
    At(p, "absorb") =>
        \A f \in ses[p].todo \cap Files :
            ses[p].rows[f] # Never /\ staged[f] = ses[p].rows[f]
RootInv(p) ==
    /\ At(p, "root") => ses[p].fileCount = Cardinality(LiveHashes)
    /\ At(p, "tip") \/ At(p, "append") =>
          /\ ses[p].fileCount = Cardinality(ses[p].leaves)
          /\ \A f \in ses[p].leaves \cap Files : Live(f)
    /\ At(p, "append") =>
          /\ ses[p].ts <= now
          /\ \A i \in DOMAIN ledger : ledger[i].ts <= ses[p].ts
          /\ \A f \in Files : Live(f) => byHash[f].added <= ses[p].ts

SessionInv(p) ==
    /\ RowsInv(p) /\ StageInv(p) /\ TombstoneInv(p) /\ SaveInv(p)
    /\ AbsorbInv(p) /\ RootInv(p)

LedgerInv == LedgerChronological /\ FileCountMatchesRoot

IInv ==
    /\ StampInv /\ CommittedInv /\ StagedInv /\ LedgerInv
    /\ \A p \in Sessions : SessionInv(p)

----------------------------------------------------------------------------
(* Type correctness.                                                       *)

\* Which command a step belongs to.
OpInv(s) ==
    /\ s.pc = "idle" => s.op = "none"
    /\ s.pc = "stage" => s.op = "add"
    /\ s.pc \in {"stamp", "unstage", "tombstone"} => s.op = "rm"
    /\ s.pc \in {"load", "save"} => s.op \in {"tag", "untag"}
    /\ s.pc \in {"open", "flush"} => s.op \in {"add", "rm", "commit"}
    /\ s.pc \in {"absorb", "entries", "root", "tip", "append"} => s.op = "commit"

\* An entry is built only from a row that is there, a commit only from a time.
TodoInv(p) ==
    /\ OpInv(ses[p])
    /\ At(p, "absorb") => \A f \in ses[p].todo \cap Files : ses[p].rows[f] # Never
    /\ At(p, "append") => ses[p].ts \in Nat
TypeInv == TypeOK /\ \A p \in Sessions : TodoInv(p)

LEMMA IdleType == Idle \in Session
BY DEF Idle, Session, Ops, Steps, NoRows, NoEntry, Entry, Never, Stamp

LEMMA HashesFinite == IsFiniteSet(Hashes)
BY HashesAssumption, FS_Union DEF Hashes

LEMMA CountType == ASSUME NEW S \in SUBSET Hashes PROVE Cardinality(S) \in Nat
BY HashesFinite, FS_Subset, FS_CardinalityType

LEMMA LedgerType ==
    ASSUME ledger \in Seq(Commitment)
    PROVE  \A i \in DOMAIN ledger : ledger[i] \in Commitment /\ ledger[i].ts \in Nat
<1>1. \A i \in DOMAIN ledger : ledger[i] \in Commitment
  OBVIOUS
<1> QED
  BY <1>1 DEF Commitment

LEMMA LastTsType == ASSUME ledger \in Seq(Commitment) PROVE LastCommitTs \in Stamp
<1>1. ledger # <<>> => Len(ledger) \in DOMAIN ledger
  OBVIOUS
<1> QED
  BY <1>1, LedgerType DEF LastCommitTs, Stamp, Never

\* Appending a line keeps the fold's types, whatever the entry.
LEMMA SaveEntryType ==
    ASSUME TypeOK, NEW h \in Hashes \cup {None}, NEW e \in Entry, SaveEntry(h, e)
    PROVE  byHash' \in [Hashes -> Entry] /\ repoAt' \in [Repos -> Hashes \cup {None}]
<1>1. NoEntry \in Entry
  BY DEF NoEntry, Entry
<1> QED
  BY <1>1 DEF SaveEntry, TypeOK

LEMMA InitType == Init => TypeInv
<1> SUFFICES ASSUME Init PROVE TypeInv
  OBVIOUS
<1>1. NoRows \in [Files -> Stamp] /\ NoEntry \in Entry
  BY DEF NoRows, Stamp, Never, NoEntry, Entry
<1>2. TypeOK
  BY <1>1, IdleType DEF Init, TypeOK
<1>3. \A p \in Sessions : TodoInv(p)
  BY DEF Init, TodoInv, OpInv, At, Idle
<1> QED
  BY <1>2, <1>3 DEF TypeInv

\* A session's step that leaves the store alone and gives the session a
\* well-typed record keeps the types.
LEMMA SessionStepType ==
    ASSUME TypeInv, NEW p \in Sessions, NEW s \in Session,
           ses' = [ses EXCEPT ![p] = s],
           s.pc = "absorb" => \A f \in s.todo \cap Files : s.rows[f] # Never,
           s.pc = "append" => s.ts \in Nat, OpInv(s)
    PROVE  /\ ses' \in [Sessions -> Session]
           /\ \A q \in Sessions : TodoInv(q)'
<1>1. ses' \in [Sessions -> Session]
  BY DEF TypeInv, TypeOK
<1>2. \A q \in Sessions : ses'[q] = IF q = p THEN s ELSE ses[q]
  BY DEF TypeInv, TypeOK
<1>3. \A q \in Sessions : TodoInv(q)'
  BY <1>2 DEF TypeInv, TodoInv, At
<1> QED
  BY <1>1, <1>3

LEMMA ReturnType ==
    ASSUME TypeInv, NEW p \in Sessions, Return(p)
    PROVE  /\ ses' \in [Sessions -> Session]
           /\ \A q \in Sessions : TodoInv(q)'
<1>1. Idle.pc = "idle" /\ OpInv(Idle)
  BY DEF Idle, OpInv
<1> QED
  BY <1>1, IdleType, SessionStepType DEF Return

LEMMA NextType == TypeInv /\ [Next]_vars => TypeInv'
<1> SUFFICES ASSUME TypeInv, [Next]_vars PROVE TypeInv'
  OBVIOUS
<1> USE DEF TypeInv, TypeOK, store
<1>0. /\ NoRows \in [Files -> Stamp] /\ NoEntry \in Entry /\ Tombstone \in Entry
      /\ Never \in Stamp /\ Nat \subseteq Stamp
  BY DEF NoRows, Stamp, Never, NoEntry, Tombstone, Entry
<1>1. ASSUME NEW p \in Sessions, OpenStaged(p) PROVE TypeInv'
  <2> DEFINE s == [ses[p] EXCEPT !.pc = "flush"]
  <2>1. s \in Session /\ ses' = [ses EXCEPT ![p] = s] /\ s.pc \notin {"absorb", "append"} /\ OpInv(s)
    BY <1>1 DEF TodoInv, OpInv, At, OpenStaged, Session, Steps
  <2> HIDE DEF s
  <2> QED
    BY <1>0, <1>1, <2>1, SessionStepType DEF OpenStaged
<1>2. ASSUME NEW p \in Sessions, FlushStaged(p) PROVE TypeInv'
  <2>1. CASE ses[p].op # "add"
    <3> DEFINE s == [ses[p] EXCEPT !.rows = NoRows,
                        !.pc = IF ses[p].op = "commit" THEN "entries" ELSE "unstage"]
    <3>1. s \in Session /\ ses' = [ses EXCEPT ![p] = s] /\ s.pc \notin {"absorb", "append"} /\ OpInv(s)
      BY <1>0, <1>2, <2>1 DEF TodoInv, OpInv, At, FlushStaged, Session, Steps
    <3> HIDE DEF s
    <3>2. staged' \in [Files -> Stamp]
      BY <1>2 DEF FlushStaged, Session
    <3> QED
      BY <1>2, <3>1, <3>2, SessionStepType DEF FlushStaged
  <2>2. CASE ses[p].op = "add"
    <3>1. staged' \in [Files -> Stamp] /\ Return(p)
      BY <1>2, <2>2 DEF FlushStaged, Session
    <3> QED
      BY <1>2, <3>1, ReturnType DEF FlushStaged
  <2> QED
    BY <2>1, <2>2
<1>3. ASSUME NEW p \in Sessions, NEW f \in Files, AddBegin(p, f) PROVE TypeInv'
  <2> DEFINE s == [Idle EXCEPT !.op = "add", !.pc = "stage", !.arg = f]
  <2>1. s \in Session /\ s.pc \notin {"absorb", "append"} /\ OpInv(s)
    BY <1>0 DEF TodoInv, OpInv, At, Idle, Session, Ops, Steps, Hashes
  <2>2. ses' = [ses EXCEPT ![p] = s]
    BY <1>3 DEF AddBegin, Begin
  <2> HIDE DEF s
  <2> QED
    BY <1>3, <2>1, <2>2, SessionStepType DEF AddBegin
<1>4. ASSUME NEW p \in Sessions, StageEntry(p) PROVE TypeInv'
  <2> DEFINE r == [staged EXCEPT ![ses[p].arg] = now]
             s == [ses[p] EXCEPT !.pc = "open", !.rows = r]
  <2>1. r \in [Files -> Stamp]
    BY <1>0
  <2>2. ses' = [ses EXCEPT ![p] = s]
    BY <1>4 DEF StageEntry
  <2> HIDE DEF r
  <2>3. s \in Session /\ s.pc \notin {"absorb", "append"} /\ OpInv(s)
    BY <1>4, <2>1 DEF TodoInv, OpInv, At, StageEntry, Session, Steps
  <2> HIDE DEF s
  <2> QED
    BY <1>4, <2>2, <2>3, SessionStepType DEF StageEntry
<1>5. ASSUME NEW p \in Sessions, NEW hs \in SUBSET Hashes, NEW regex \in BOOLEAN,
             RmBegin(p, hs, regex)
      PROVE  TypeInv'
  <2> DEFINE s == [Idle EXCEPT !.op = "rm", !.pc = "stamp", !.regex = regex,
                      !.wanted = hs, !.todo = hs \cap StagedFiles]
  <2>1. s \in Session /\ s.pc \notin {"absorb", "append"} /\ OpInv(s)
    BY <1>0 DEF TodoInv, OpInv, At, Idle, Session, Ops, Steps
  <2>2. ses' = [ses EXCEPT ![p] = s]
    BY <1>5 DEF RmBegin, Begin
  <2> HIDE DEF s
  <2> QED
    BY <1>5, <2>1, <2>2, SessionStepType DEF RmBegin
<1>6. ASSUME NEW p \in Sessions, NEW f \in Files, UnstageEntry(p, f) PROVE TypeInv'
  <2> DEFINE r == IF IsStaged(f) THEN [staged EXCEPT ![f] = Never] ELSE NoRows
             pc == IF IsStaged(f) THEN "open" ELSE "unstage"
             s == [ses[p] EXCEPT !.arg = f, !.todo = @ \ {f}, !.pc = pc, !.rows = r]
  <2>1. r \in [Files -> Stamp] /\ pc \in Steps /\ pc \notin {"absorb", "append"}
    BY <1>0 DEF Steps
  <2>2. ses' = [ses EXCEPT ![p] = s]
    BY <1>6 DEF UnstageEntry
  <2> HIDE DEF r, pc
  <2>3. s \in Session /\ s.pc \notin {"absorb", "append"} /\ OpInv(s)
    BY <1>6, <2>1 DEF UnstageEntry, TodoInv, OpInv, At, Session, Hashes
  <2> HIDE DEF s
  <2> QED
    BY <1>6, <2>2, <2>3, SessionStepType DEF UnstageEntry
<1>26. ASSUME NEW p \in Sessions, RmStamp(p) PROVE TypeInv'
  <2> DEFINE t == LastCommitTs
             s == [ses[p] EXCEPT !.pc = "unstage", !.ts = t]
  <2>1. t \in Stamp
    BY <1>0, LastTsType
  <2>2. ses' = [ses EXCEPT ![p] = s]
    BY <1>26 DEF RmStamp
  <2> HIDE DEF t
  <2>3. s \in Session /\ s.pc \notin {"absorb", "append"} /\ OpInv(s)
    BY <1>26, <2>1 DEF RmStamp, TodoInv, OpInv, At, Session, Steps
  <2> HIDE DEF s
  <2> QED
    BY <1>26, <2>2, <2>3, SessionStepType DEF RmStamp
<1>27. ASSUME NEW p \in Sessions, FindArchived(p) PROVE TypeInv'
  <2>1. CASE Return(p)
    BY <1>27, <2>1, ReturnType DEF FindArchived
  <2>2. CASE ~Return(p)
    <3> DEFINE t == Removable(p)
               s == [ses[p] EXCEPT !.pc = "tombstone", !.todo = t]
    <3>1. ses' = [ses EXCEPT ![p] = s]
      BY <1>27, <2>2 DEF FindArchived
    <3>2. t \in SUBSET Hashes
      BY DEF Removable, LiveHashes
    <3> HIDE DEF t
    <3>4. ses[p] \in Session /\ ses[p].op = "rm"
      BY <1>27 DEF FindArchived, TodoInv, OpInv, At
    <3>3. s \in Session /\ s.pc \notin {"absorb", "append"} /\ OpInv(s)
      BY <3>2, <3>4 DEF OpInv, Session, Steps
    <3> HIDE DEF s
    <3> QED
      BY <1>27, <3>1, <3>3, SessionStepType DEF FindArchived
  <2> QED
    BY <2>1, <2>2
<1>7. ASSUME NEW p \in Sessions, NEW h \in Hashes, DeleteEntry(p, h) PROVE TypeInv'
  <2>1. byHash' \in [Hashes -> Entry] /\ repoAt' \in [Repos -> Hashes \cup {None}]
    BY <1>0, <1>7, SaveEntryType DEF DeleteEntry
  <2>2. CASE Return(p)
    BY <1>7, <2>1, <2>2, ReturnType DEF DeleteEntry
  <2>3. CASE ~Return(p)
    <3> DEFINE s == [ses[p] EXCEPT !.todo = @ \ {h}]
    <3>1. s \in Session /\ ses' = [ses EXCEPT ![p] = s] /\ s.pc \notin {"absorb", "append"} /\ OpInv(s)
      BY <1>7, <2>3 DEF TodoInv, OpInv, At, DeleteEntry, Session
    <3> HIDE DEF s
    <3> QED
      BY <1>7, <2>1, <3>1, SessionStepType DEF DeleteEntry
  <2> QED
    BY <2>2, <2>3
<1>8. ASSUME NEW p \in Sessions, NEW hs \in SUBSET Hashes, NEW op, TagBegin(p, hs, op)
      PROVE  TypeInv'
  <2> DEFINE m == {h \in LiveHashes \cap hs : op = "untag" => byHash[h].tagged}
             s == [Idle EXCEPT !.op = op, !.pc = "load", !.todo = m]
  <2>1. m \in SUBSET Hashes
    OBVIOUS
  <2>2. op \in {"tag", "untag"} /\ ses' = [ses EXCEPT ![p] = s] /\ UNCHANGED <<now, present, store>>
    BY <1>8 DEF TagBegin, Begin
  <2> HIDE DEF m
  <2>3. s \in Session /\ s.pc \notin {"absorb", "append"} /\ OpInv(s)
    BY <1>0, <2>1, <2>2 DEF TodoInv, OpInv, At, Idle, Session, Ops, Steps
  <2> HIDE DEF s
  <2> QED
    BY <2>2, <2>3, SessionStepType
<1>28. ASSUME NEW p \in Sessions, NEW h \in Hashes, UpdateLoad(p, h) PROVE TypeInv'
  <2>1. CASE Live(h)
    <3> DEFINE e == [byHash[h] EXCEPT !.tagged = (ses[p].op = "tag")]
               s == [ses[p] EXCEPT !.pc = "save", !.arg = h, !.todo = @ \ {h}, !.entry = e]
    <3>1. e \in Entry
      BY DEF Entry
    <3>2. ses' = [ses EXCEPT ![p] = s]
      BY <1>28, <2>1 DEF UpdateLoad
    <3> HIDE DEF e
    <3>4. ses[p] \in Session /\ ses[p].op \in {"tag", "untag"}
      BY <1>28 DEF UpdateLoad, TodoInv, OpInv, At
    <3>3. s \in Session /\ s.pc \notin {"absorb", "append"} /\ OpInv(s)
      BY <3>1, <3>4 DEF OpInv, Session, Steps
    <3> HIDE DEF s
    <3> QED
      BY <1>28, <3>2, <3>3, SessionStepType DEF UpdateLoad
  <2>2. CASE ~Live(h)
    BY <1>28, <2>2, ReturnType DEF UpdateLoad
  <2> QED
    BY <2>1, <2>2
<1>9. ASSUME NEW p \in Sessions, UpdateSave(p) PROVE TypeInv'
  <2>1. ses[p].arg \in Hashes \cup {None} /\ ses[p].entry \in Entry
    BY DEF Session
  <2>2. byHash' \in [Hashes -> Entry] /\ repoAt' \in [Repos -> Hashes \cup {None}]
    BY <1>9, <2>1, SaveEntryType DEF UpdateSave
  <2>3. CASE Return(p)
    BY <1>9, <2>2, <2>3, ReturnType DEF UpdateSave
  <2>4. CASE ~Return(p)
    <3> DEFINE s == [ses[p] EXCEPT !.pc = "load"]
    <3>1. s \in Session /\ ses' = [ses EXCEPT ![p] = s] /\ s.pc \notin {"absorb", "append"} /\ OpInv(s)
      BY <1>9, <2>4 DEF TodoInv, OpInv, At, UpdateSave, Session, Steps
    <3> HIDE DEF s
    <3> QED
      BY <1>9, <2>2, <3>1, SessionStepType DEF UpdateSave
  <2> QED
    BY <2>3, <2>4
<1>10. ASSUME NEW p \in Sessions, NEW n \in Repos, NEW c \in Commits, RepoAdd(p, n, c)
       PROVE  TypeInv'
  <2>1. RepoEntry(n) \in Entry /\ c \in Hashes
    BY DEF RepoEntry, Entry, Hashes
  <2> QED
    BY <1>10, <2>1, SaveEntryType DEF RepoAdd, TodoInv, At
<1>11. ASSUME NEW p \in Sessions, CommitBegin(p) PROVE TypeInv'
  <2> DEFINE s == [Idle EXCEPT !.op = "commit",
                      !.pc = IF StagedFiles = {} THEN "entries" ELSE "absorb",
                      !.rows = staged, !.todo = StagedFiles]
  <2>1. s \in Session /\ ses' = [ses EXCEPT ![p] = s]
    BY <1>0, <1>11 DEF CommitBegin, Begin, Idle, Session, Ops, Steps, StagedFiles, Hashes
  <2>2. s.pc # "append" /\ OpInv(s) /\ \A f \in s.todo : s.rows[f] # Never
    BY DEF TodoInv, OpInv, At, Idle, StagedFiles, IsStaged
  <2> HIDE DEF s
  <2> QED
    BY <1>11, <2>1, <2>2, SessionStepType DEF CommitBegin
<1>12. ASSUME NEW p \in Sessions, NEW f \in Files, AbsorbEntry(p, f) PROVE TypeInv'
  <2> DEFINE s == [ses[p] EXCEPT !.todo = @ \ {f}, !.rows = [@ EXCEPT ![f] = Never]]
  <2>1. s \in Session /\ ses' = [ses EXCEPT ![p] = s]
    BY <1>0, <1>12 DEF AbsorbEntry, Session
  <2>2. s.pc = "absorb" /\ OpInv(s) /\ \A g \in s.todo \cap Files : s.rows[g] # Never
    BY <1>12 DEF TodoInv, OpInv, At, AbsorbEntry, Session
  <2>3. FileEntry(ses[p].rows[f]) \in Entry /\ f \in Hashes
    BY <1>12 DEF AbsorbEntry, TodoInv, At, FileEntry, Entry, Session, Stamp, Hashes
  <2> HIDE DEF s
  <2> QED
    BY <1>12, <2>1, <2>2, <2>3, SessionStepType, SaveEntryType DEF AbsorbEntry
<1>13. ASSUME NEW p \in Sessions, NEW f \in Files, SkipEntry(p, f) PROVE TypeInv'
  <2> DEFINE s == [ses[p] EXCEPT !.todo = @ \ {f}]
  <2>1. s \in Session /\ ses' = [ses EXCEPT ![p] = s]
    BY <1>13 DEF SkipEntry, Session
  <2>2. s.pc = "absorb" /\ OpInv(s) /\ \A g \in s.todo \cap Files : s.rows[g] # Never
    BY <1>13 DEF TodoInv, OpInv, At, SkipEntry, Session
  <2> HIDE DEF s
  <2> QED
    BY <1>13, <2>1, <2>2, SessionStepType DEF SkipEntry
<1>14. ASSUME NEW p \in Sessions, AbsorbDone(p) PROVE TypeInv'
  <2> DEFINE s == [ses[p] EXCEPT !.pc = "open"]
  <2>1. s \in Session /\ ses' = [ses EXCEPT ![p] = s] /\ s.pc \notin {"absorb", "append"} /\ OpInv(s)
    BY <1>14 DEF TodoInv, OpInv, At, AbsorbDone, Session, Steps
  <2> HIDE DEF s
  <2> QED
    BY <1>14, <2>1, SessionStepType DEF AbsorbDone
<1>15. ASSUME NEW p \in Sessions, LoadEntries(p) PROVE TypeInv'
  <2>1. CASE LiveHashes = {}
    BY <1>15, <2>1, ReturnType DEF LoadEntries
  <2>2. CASE LiveHashes # {}
    <3> DEFINE s == [ses[p] EXCEPT !.pc = "root", !.fileCount = Cardinality(LiveHashes)]
    <3>1. Cardinality(LiveHashes) \in Nat
      BY CountType DEF LiveHashes
    <3>2. s \in Session /\ ses' = [ses EXCEPT ![p] = s] /\ s.pc \notin {"absorb", "append"} /\ OpInv(s)
      BY <1>15, <2>2, <3>1 DEF TodoInv, OpInv, At, LoadEntries, Session, Steps
    <3> HIDE DEF s
    <3> QED
      BY <1>15, <3>2, SessionStepType DEF LoadEntries
  <2> QED
    BY <2>1, <2>2
<1>16. ASSUME NEW p \in Sessions, CurrentRoot(p) PROVE TypeInv'
  <2> DEFINE s == [ses[p] EXCEPT !.pc = "tip", !.leaves = LiveHashes]
  <2>1. s \in Session /\ ses' = [ses EXCEPT ![p] = s] /\ s.pc \notin {"absorb", "append"} /\ OpInv(s)
    BY <1>16 DEF TodoInv, OpInv, At, CurrentRoot, Session, Steps, LiveHashes
  <2> HIDE DEF s
  <2> QED
    BY <1>16, <2>1, SessionStepType DEF CurrentRoot
<1>17. ASSUME NEW p \in Sessions, GetTip(p) PROVE TypeInv'
  <2> DEFINE s == [ses[p] EXCEPT !.pc = "append", !.ts = now]
  <2>1. s \in Session /\ ses' = [ses EXCEPT ![p] = s] /\ s.pc = "append" /\ s.ts \in Nat /\ OpInv(s)
    BY <1>0, <1>17 DEF TodoInv, OpInv, At, GetTip, Session, Steps
  <2> HIDE DEF s
  <2> QED
    BY <1>17, <2>1, SessionStepType DEF GetTip
<1>18. ASSUME NEW p \in Sessions, AppendLedger(p) PROVE TypeInv'
  <2> DEFINE c == [ts |-> ses[p].ts, leaves |-> ses[p].leaves,
                   fileCount |-> ses[p].fileCount]
  <2>1. c \in Commitment
    BY <1>18 DEF AppendLedger, TodoInv, Commitment, Session
  <2>2. ledger' = Append(ledger, c)
    BY <1>18 DEF AppendLedger
  <2> HIDE DEF c
  <2>3. ledger' \in Seq(Commitment)
    BY <2>1, <2>2
  <2> QED
    BY <1>18, <2>3, ReturnType DEF AppendLedger
<1>19. CASE Tick
  BY <1>19 DEF Tick, TodoInv, At
<1>20. ASSUME NEW f \in Files, Move(f) PROVE TypeInv'
  BY <1>20 DEF Move, TodoInv, At
<1>21. ASSUME NEW p \in Sessions, Die(p) PROVE TypeInv'
  <2>1. staged' \in [Files -> Stamp]
    <3>1. \A f \in Files : ses[p].rows[f] \in Stamp
      BY DEF Session
    <3>2. CASE At(p, "flush")
      BY <1>0, <1>21, <3>1, <3>2 DEF Die
    <3>3. CASE ~At(p, "flush")
      BY <1>21, <3>3 DEF Die
    <3> QED
      BY <3>2, <3>3
  <2> QED
    BY <1>21, <2>1, ReturnType DEF Die
<1>22. CASE UNCHANGED vars
  BY <1>22 DEF vars, TodoInv, At
<1>23. ASSUME NEW p \in Sessions, Run(p) PROVE TypeInv'
  BY <1>1, <1>2, <1>4, <1>6, <1>7, <1>9, <1>12, <1>13, <1>14, <1>15, <1>16, <1>17, <1>18,
     <1>23, <1>26, <1>27, <1>28 DEF Run
<1>24. ASSUME NEW p \in Sessions, Command(p) PROVE TypeInv'
  BY <1>3, <1>5, <1>8, <1>10, <1>11, <1>24, PatternsAssumption DEF Command
<1> QED
  BY <1>19, <1>20, <1>21, <1>22, <1>23, <1>24 DEF Next, Environment

\* Type correctness: whatever the sessions do to each other's files, every
\* record that reaches staged.jsonl, the manifest or the ledger is well formed.
THEOREM TypeCorrect == Spec => []TypeOK
<1>1. Spec => []TypeInv
  BY InitType, NextType, PTL DEF Spec
<1>2. TypeInv => TypeOK
  BY DEF TypeInv
<1> QED
  BY <1>1, <1>2, PTL

----------------------------------------------------------------------------
(* One live entry per repository, under any interleaving.                  *)

\* by_repo_name points at the live entry of every repository that has one.
RepoInv ==
    \A c \in Hashes : Live(c) /\ byHash[c].repo # None => repoAt[byHash[c].repo] = c

LEMMA SaveEntryRepo ==
    ASSUME TypeOK, RepoInv, NEW h \in Hashes \cup {None}, NEW e \in Entry, SaveEntry(h, e)
    PROVE  RepoInv'
<1> SUFFICES ASSUME NEW c \in Hashes, Live(c)', byHash'[c].repo # None
             PROVE  repoAt'[byHash'[c].repo] = c
  BY DEF RepoInv
<1>1. /\ byHash'[c].repo \in Repos
      /\ \A r \in Repos : repoAt'[r] = IF r = e.repo THEN h ELSE repoAt[r]
  BY SaveEntryType DEF SaveEntry, Entry
<1>2. CASE c = h
  BY <1>1, <1>2 DEF SaveEntry
<1>3. CASE c # h
  <2>1. byHash'[c] = byHash[c]
    BY <1>3 DEF SaveEntry, Live, NoEntry
  <2>2. repoAt[byHash[c].repo] = c
    BY <2>1 DEF RepoInv, Live
  <2>3. byHash[c].repo # e.repo
    BY <1>3, <2>1, <2>2 DEF SaveEntry, Live, NoEntry
  <2> QED
    BY <1>1, <2>1, <2>2, <2>3
<1> QED
  BY <1>2, <1>3

\* Steps that append no line to the manifest.
LEMMA NextRepo == TypeInv /\ RepoInv /\ [Next]_vars => RepoInv'
<1> SUFFICES ASSUME TypeInv, RepoInv, [Next]_vars PROVE RepoInv'
  OBVIOUS
<1> USE DEF TypeInv, TypeOK
<1>1. CASE UNCHANGED <<byHash, repoAt>>
  BY <1>1 DEF RepoInv, Live
<1>2. ASSUME NEW p \in Sessions, NEW h \in Hashes, DeleteEntry(p, h) PROVE RepoInv'
  <2>1. Tombstone \in Entry
    BY DEF Tombstone, Entry
  <2> QED
    BY <1>2, <2>1, SaveEntryRepo DEF DeleteEntry
<1>3. ASSUME NEW p \in Sessions, UpdateSave(p) PROVE RepoInv'
  <2>1. ses[p].arg \in Hashes \cup {None} /\ ses[p].entry \in Entry
    BY DEF Session
  <2> QED
    BY <1>3, <2>1, SaveEntryRepo DEF UpdateSave
<1>4. ASSUME NEW p \in Sessions, NEW n \in Repos, NEW c \in Commits, RepoAdd(p, n, c)
      PROVE  RepoInv'
  <2>1. RepoEntry(n) \in Entry /\ c \in Hashes
    BY DEF RepoEntry, Entry, Hashes
  <2> QED
    BY <1>4, <2>1, SaveEntryRepo DEF RepoAdd
<1>5. ASSUME NEW p \in Sessions, NEW f \in Files, AbsorbEntry(p, f) PROVE RepoInv'
  <2>1. FileEntry(ses[p].rows[f]) \in Entry /\ f \in Hashes
    BY <1>5 DEF AbsorbEntry, TodoInv, At, FileEntry, Entry, Session, Stamp, Hashes
  <2> QED
    BY <1>5, <2>1, SaveEntryRepo DEF AbsorbEntry
<1>6. ASSUME NEW p \in Sessions, Run(p) \/ Command(p) \/ Die(p),
             \A h \in Hashes : ~DeleteEntry(p, h), ~UpdateSave(p),
             \A n \in Repos, c \in Commits : ~RepoAdd(p, n, c),
             \A f \in Files : ~AbsorbEntry(p, f)
      PROVE  UNCHANGED <<byHash, repoAt>>
  BY <1>6 DEF Run, Command, OpenStaged, FlushStaged, AddBegin, StageEntry, RmBegin,
     RmStamp, UnstageEntry, FindArchived, TagBegin, UpdateLoad, CommitBegin, SkipEntry, AbsorbDone, LoadEntries,
     CurrentRoot, GetTip, AppendLedger, Die, store
<1>7. ASSUME Tick \/ (\E f \in Files : Move(f)) \/ UNCHANGED vars
      PROVE  UNCHANGED <<byHash, repoAt>>
  BY <1>7 DEF Tick, Move, vars, store
<1> QED
  BY <1>1, <1>2, <1>3, <1>4, <1>5, <1>6, <1>7 DEF Next, Environment

\* A repository's identity is its name: at most one live entry carries it, with
\* any number of sessions adding, updating, tagging and removing at once.
THEOREM RepoIdentity == Spec => []OneEntryPerRepo
<1>1. Init => RepoInv
  BY DEF Init, RepoInv, Live, NoEntry
<1>2. Spec => [](TypeInv /\ RepoInv)
  BY <1>1, InitType, NextType, NextRepo, PTL DEF Spec
<1>3. RepoInv => OneEntryPerRepo
  BY DEF RepoInv, OneEntryPerRepo
<1> QED
  BY <1>2, <1>3, PTL

----------------------------------------------------------------------------
(* Committed files are permanent, one session at a time.                   *)

StoreInv == StampInv /\ CommittedInv /\ StagedInv /\ LedgerInv

LEMMA InitIInv == Init => IInv
<1> SUFFICES ASSUME Init PROVE IInv
  OBVIOUS
<1>1. StoreInv
  BY NoneAssumption DEF Init, StoreInv, StampInv, CommittedInv, Committed, StagedInv,
     LedgerInv, LedgerChronological, FileCountMatchesRoot, NoEntry, NoRows, Never,
     IsStaged, Hashes
<1>2. \A p \in Sessions : SessionInv(p)
  BY DEF Init, SessionInv, RowsInv, StageInv, TombstoneInv, SaveInv, AbsorbInv, RootInv,
     At, Idle, NoRows, Never, Live
<1> QED
  BY <1>1, <1>2 DEF IInv, StoreInv

\* Steps that leave the store alone keep what is said of the store.
LEMMA QuietStep ==
    ASSUME TypeInv, StoreInv, UNCHANGED store, now' \in Nat, now' >= now
    PROVE  StoreInv'
<1> USE DEF TypeInv, TypeOK, store
<1>1. StampInv'
  <2>1. \A f \in Files : byHash[f].added \in Nat /\ staged[f] \in Int
    BY DEF Entry, Stamp, Never, Hashes
  <2> QED
    BY <2>1, LedgerType DEF StoreInv, StampInv
<1>2. CommittedInv' /\ StagedInv' /\ LedgerInv'
  BY DEF StoreInv, CommittedInv, Committed, Live, LastCommitTs, StagedInv, IsStaged,
     LedgerInv, LedgerChronological, FileCountMatchesRoot
<1> QED
  BY <1>1, <1>2 DEF StoreInv

\* One session: what holds of the session that moved holds of all.
LEMMA OnlySession ==
    ASSUME OneSession, NEW p \in Sessions, SessionInv(p)'
    PROVE  \A q \in Sessions : SessionInv(q)'
BY DEF OneSession

LEMMA ReturnInv ==
    ASSUME TypeInv, NEW p \in Sessions, Return(p), now' \in Nat
    PROVE  SessionInv(p)'
<1>1. ses'[p] = Idle
  BY DEF Return, TypeInv, TypeOK
<1> QED
  BY <1>1 DEF SessionInv, RowsInv, StageInv, TombstoneInv, SaveInv, AbsorbInv, RootInv,
     At, Idle, NoRows, Never

\* An entry appended for one hash leaves every other file's entry as it was.
LEMMA SaveOthers ==
    ASSUME TypeInv, StampInv, NEW h \in Hashes, NEW e \in Entry, SaveEntry(h, e),
           e.repo # None => h \in Commits
    PROVE  /\ byHash'[h] = e
           /\ \A f \in Files : f # h => byHash'[f] = byHash[f]
           /\ \A r \in Repos : repoAt'[r] \in Commits \cup {None}
<1> USE DEF TypeInv, TypeOK
<1>1. byHash'[h] = e
  BY DEF SaveEntry
<1>2. ASSUME NEW f \in Files, f # h PROVE byHash'[f] = byHash[f]
  <2>1. f \in Hashes /\ f \notin Commits /\ f # None
    BY HashesAssumption, NoneAssumption DEF Hashes
  <2>2. e.repo # None => repoAt[e.repo] # f
    BY <2>1 DEF StampInv, Entry
  <2> QED
    BY <1>2, <2>1, <2>2 DEF SaveEntry
<1>3. \A r \in Repos : repoAt'[r] \in Commits \cup {None}
  BY NoneAssumption DEF SaveEntry, StampInv
<1> QED
  BY <1>1, <1>2, <1>3

\* A line that gives a file a stamp its commits allow keeps the store's
\* invariants, when the staging area and the ledger stay as they are.
LEMMA SaveStep ==
    ASSUME TypeInv, StoreInv, NEW h \in Hashes, NEW e \in Entry, SaveEntry(h, e),
           e.repo # None => h \in Commits,
           UNCHANGED <<now, staged, ledger>>,
           h \in Files => e.added <= now,
           h \in Committed => e.state = "live" /\ e.added <= LastCommitTs,
           h \in Files /\ IsStaged(h) /\ e.state = "live" => staged[h] = e.added
    PROVE  StoreInv'
<1> USE DEF TypeInv, TypeOK
<1>0. StampInv
  BY DEF StoreInv
<1>1. /\ byHash'[h] = e
      /\ \A f \in Files : f # h => byHash'[f] = byHash[f]
      /\ \A r \in Repos : repoAt'[r] \in Commits \cup {None}
  BY <1>0, SaveOthers
<1>2. h \in Files => e.repo = None
  BY HashesAssumption
<1>3. StampInv'
  BY <1>0, <1>1, <1>2 DEF StampInv
<1>4. CommittedInv'
  BY <1>1 DEF StoreInv, CommittedInv, Committed, Live, LastCommitTs
<1>5. StagedInv'
  BY <1>1 DEF StoreInv, StagedInv, IsStaged, Live
<1>6. LedgerInv'
  BY DEF StoreInv, LedgerInv, LedgerChronological, FileCountMatchesRoot
<1> QED
  BY <1>3, <1>4, <1>5, <1>6 DEF StoreInv

\* No rm is on its way after these steps.
LEMMA NotRm ==
    ASSUME TypeInv', NEW p \in Sessions,
           ses'[p].pc \notin {"unstage", "open", "flush", "tombstone"}
    PROVE  TombstoneInv(p)'
<1>1. OpInv(ses'[p]) /\ ses'[p].pc \in Steps /\ ses'[p].op \in Ops
  BY DEF TypeInv, TypeOK, TodoInv, Session
<1> QED
  BY <1>1 DEF OpInv, TombstoneInv, At, Steps

LEMMA NextIInv == ASSUME OneSession, TypeInv, IInv, [Next]_vars PROVE IInv'
<1> USE DEF TypeInv, TypeOK
<1>0. StoreInv /\ StampInv /\ CommittedInv /\ StagedInv /\ LedgerInv
  BY DEF IInv, StoreInv
<1>a. ASSUME StoreInv', NEW p \in Sessions, SessionInv(p)' PROVE IInv'
  BY <1>a, OnlySession DEF IInv, StoreInv
<1>b. \A p \in Sessions : SessionInv(p)
  BY DEF IInv
<1>t. TypeInv'
  BY NextType
<1>1. ASSUME NEW p \in Sessions, OpenStaged(p) PROVE IInv'
  <2>1. StoreInv'
    <3>1. StampInv' /\ StagedInv'
      BY <1>0, <1>1 DEF OpenStaged, StampInv, StagedInv, IsStaged, NoRows, Never
    <3>2. CommittedInv' /\ LedgerInv'
      BY <1>0, <1>1 DEF OpenStaged, CommittedInv, Committed, Live, LastCommitTs,
         LedgerInv, LedgerChronological, FileCountMatchesRoot
    <3> QED
      BY <3>1, <3>2 DEF StoreInv
  <2>2. SessionInv(p)'
    <3>1. ses'[p].pc = "flush" /\ ses'[p].rows = ses[p].rows
      BY <1>1 DEF OpenStaged, Session
    <3>2. RowsInv(p)'
      BY <1>1, <1>b, <3>1 DEF OpenStaged, SessionInv, RowsInv, Live
    <3>3. TombstoneInv(p)'
      BY <1>1, <1>b, <3>1 DEF OpenStaged, SessionInv, TombstoneInv, At, LastCommitTs, Session
    <3> QED
      BY <3>1, <3>2, <3>3 DEF SessionInv, StageInv, SaveInv, AbsorbInv, RootInv, At
  <2> QED
    BY <1>a, <2>1, <2>2
<1>2. ASSUME NEW p \in Sessions, FlushStaged(p) PROVE IInv'
  <2>1. StoreInv'
    <3>1. StampInv' /\ StagedInv'
      BY <1>0, <1>2, <1>b DEF FlushStaged, SessionInv, RowsInv, StampInv, StagedInv,
         IsStaged, Live
    <3>2. CommittedInv' /\ LedgerInv'
      BY <1>0, <1>2 DEF FlushStaged, CommittedInv, Committed, Live, LastCommitTs,
         LedgerInv, LedgerChronological, FileCountMatchesRoot
    <3> QED
      BY <3>1, <3>2 DEF StoreInv
  <2>2. SessionInv(p)'
    <3>1. CASE ses[p].op # "add"
      <4>1. /\ ses'[p].pc \in {"entries", "unstage"} /\ ses'[p].rows = NoRows
            /\ ses'[p].op = ses[p].op /\ ses'[p].ts = ses[p].ts /\ UNCHANGED ledger
        BY <1>2, <3>1 DEF FlushStaged, Session
      <4>2. TombstoneInv(p)'
        BY <1>2, <1>b, <4>1 DEF FlushStaged, SessionInv, TombstoneInv, At, LastCommitTs
      <4> QED
        BY <1>2, <4>1, <4>2 DEF FlushStaged, SessionInv, RowsInv, StageInv,
           SaveInv, AbsorbInv, RootInv, At, NoRows, Never
    <3>2. CASE ses[p].op = "add"
      BY <1>2, <3>2, ReturnInv DEF FlushStaged
    <3> QED
      BY <3>1, <3>2
  <2> QED
    BY <1>a, <2>1, <2>2
<1>3. ASSUME NEW p \in Sessions, NEW f \in Files, AddBegin(p, f) PROVE IInv'
  <2>1. StoreInv'
    BY <1>0, <1>3, QuietStep DEF AddBegin
  <2>2. /\ ses'[p].pc = "stage" /\ ses'[p].arg = f /\ ses'[p].rows = NoRows
        /\ ses'[p].op = "add" /\ UNCHANGED <<now, byHash>> /\ ~Live(f)
    BY <1>3 DEF AddBegin, Begin, Idle, store
  <2>3. SessionInv(p)'
    BY <2>2 DEF SessionInv, RowsInv, StageInv, TombstoneInv, SaveInv, AbsorbInv, RootInv,
       At, NoRows, Never, Live
  <2> QED
    BY <1>a, <2>1, <2>3
<1>4. ASSUME NEW p \in Sessions, StageEntry(p) PROVE IInv'
  <2>1. StoreInv'
    BY <1>0, <1>4, QuietStep DEF StageEntry
  <2>2. /\ ses'[p].pc = "open" /\ ses'[p].rows = [staged EXCEPT ![ses[p].arg] = now]
        /\ ses'[p].op = ses[p].op /\ ses'[p].ts = ses[p].ts
        /\ UNCHANGED <<now, byHash, ledger>>
    BY <1>4 DEF StageEntry, Session, store
  <2>3. RowsInv(p)'
    BY <1>0, <1>4, <1>b, <2>2 DEF StageEntry, SessionInv, StageInv, At, RowsInv, StampInv,
       StagedInv, IsStaged, Live
  <2>4. TombstoneInv(p)'
    BY <1>4, <1>b, <2>2 DEF StageEntry, SessionInv, TombstoneInv, At, LastCommitTs
  <2>5. SessionInv(p)'
    BY <2>2, <2>3, <2>4 DEF SessionInv, StageInv, SaveInv, AbsorbInv, RootInv, At
  <2> QED
    BY <1>a, <2>1, <2>5
<1>5. ASSUME NEW p \in Sessions, NEW hs \in SUBSET Hashes, NEW regex \in BOOLEAN,
             RmBegin(p, hs, regex)
      PROVE  IInv'
  <2>1. StoreInv'
    BY <1>0, <1>5, QuietStep DEF RmBegin
  <2>2. ses'[p].pc = "stamp" /\ ses'[p].rows = NoRows /\ UNCHANGED <<now, byHash>>
    BY <1>5 DEF RmBegin, Begin, Idle, store
  <2>3. SessionInv(p)'
    BY <2>2 DEF SessionInv, RowsInv, StageInv, TombstoneInv, SaveInv, AbsorbInv, RootInv,
       At, NoRows, Never
  <2> QED
    BY <1>a, <2>1, <2>3
<1>26. ASSUME NEW p \in Sessions, RmStamp(p) PROVE IInv'
  <2>1. StoreInv'
    BY <1>0, <1>26, QuietStep DEF RmStamp
  <2>2. /\ ses'[p].pc = "unstage" /\ ses'[p].rows = ses[p].rows
        /\ ses'[p].ts = LastCommitTs /\ UNCHANGED <<now, byHash, ledger>>
    BY <1>26 DEF RmStamp, Session, store
  <2>3. RowsInv(p)' /\ TombstoneInv(p)'
    BY <1>b, <2>2 DEF SessionInv, RowsInv, TombstoneInv, At, Live, LastCommitTs
  <2>4. SessionInv(p)'
    BY <2>2, <2>3 DEF SessionInv, StageInv, SaveInv, AbsorbInv, RootInv, At
  <2> QED
    BY <1>a, <2>1, <2>4
<1>6. ASSUME NEW p \in Sessions, NEW f \in Files, UnstageEntry(p, f) PROVE IInv'
  <2> DEFINE r == IF IsStaged(f) THEN [staged EXCEPT ![f] = Never] ELSE NoRows
  <2>1. StoreInv'
    BY <1>0, <1>6, QuietStep DEF UnstageEntry
  <2>2. /\ ses'[p].pc \in {"open", "unstage"} /\ ses'[p].rows = r
        /\ ses'[p].op = ses[p].op /\ ses'[p].ts = ses[p].ts
        /\ At(p, "unstage") /\ UNCHANGED <<now, byHash, ledger>>
    BY <1>6 DEF UnstageEntry, Session, store
  <2>3. r \in [Files -> Stamp] /\ \A g \in Files : r[g] = Never \/ r[g] = staged[g]
    BY DEF NoRows, Stamp
  <2> HIDE DEF r
  <2>4. RowsInv(p)'
    BY <1>0, <2>2, <2>3 DEF RowsInv, StampInv, StagedInv, IsStaged, Live, Never
  <2>5. TombstoneInv(p)'
    BY <1>b, <2>2 DEF SessionInv, TombstoneInv, At, LastCommitTs
  <2>6. SessionInv(p)'
    BY <2>2, <2>4, <2>5 DEF SessionInv, StageInv, SaveInv, AbsorbInv, RootInv, At
  <2> QED
    BY <1>a, <2>1, <2>6
<1>27. ASSUME NEW p \in Sessions, FindArchived(p) PROVE IInv'
  <2>1. StoreInv'
    BY <1>0, <1>27, QuietStep DEF FindArchived
  <2>2. CASE Return(p)
    BY <1>27, <1>a, <2>1, <2>2, ReturnInv DEF FindArchived
  <2>3. CASE ~Return(p)
    <3>1. /\ ses'[p].pc = "tombstone" /\ ses'[p].todo = Removable(p)
          /\ ses'[p].rows = ses[p].rows /\ ses'[p].op = ses[p].op
          /\ ses'[p].ts = ses[p].ts /\ At(p, "unstage")
          /\ UNCHANGED <<now, byHash, ledger>>
      BY <1>27, <2>3 DEF FindArchived, Session, store
    <3>2. ses[p].op = "rm" /\ ses[p].ts = LastCommitTs
      BY <1>b, <3>1 DEF SessionInv, TodoInv, OpInv, TombstoneInv, At
    <3>3. RowsInv(p)' /\ TombstoneInv(p)'
      BY <1>b, <3>1, <3>2
         DEF SessionInv, RowsInv, TombstoneInv, At, Live, LastCommitTs, Removable, NeverCommitted
    <3>4. SessionInv(p)'
      BY <3>1, <3>3 DEF SessionInv, StageInv, SaveInv, AbsorbInv, RootInv, At
    <3> QED
      BY <1>a, <2>1, <3>4
  <2> QED
    BY <2>2, <2>3
<1>7. ASSUME NEW p \in Sessions, NEW h \in Hashes, DeleteEntry(p, h) PROVE IInv'
  <2>1. /\ h \in Files => NeverCommitted(byHash[h], LastCommitTs)
        /\ Tombstone \in Entry /\ Tombstone.repo = None /\ Tombstone.added = 0
        /\ Tombstone.state # "live"
    BY <1>7, <1>b DEF DeleteEntry, SessionInv, TombstoneInv, Tombstone, Entry
  <2>2. h \notin Committed
    <3> SUFFICES ASSUME h \in Committed PROVE FALSE
      OBVIOUS
    <3>1. h \in Files /\ ledger # <<>> /\ LastCommitTs = ledger[Len(ledger)].ts
      BY DEF Committed, LastCommitTs
    <3>2. LastCommitTs \in Nat
      <4>1. Len(ledger) \in DOMAIN ledger
        BY <3>1
      <4> QED
        BY <3>1, <4>1, LedgerType
    <3>3. byHash[h].added <= LastCommitTs /\ byHash[h].added \in Nat
      BY <1>0, <2>1 DEF CommittedInv, Entry
    <3> QED
      BY <2>1, <3>1, <3>2, <3>3 DEF NeverCommitted, Never
  <2>3. StoreInv'
    BY <1>0, <1>7, <2>1, <2>2, SaveStep DEF DeleteEntry
  <2>4. CASE Return(p)
    BY <1>7, <1>a, <2>3, <2>4, ReturnInv DEF DeleteEntry
  <2>5. CASE ~Return(p)
    <3>1. /\ ses'[p].pc = "tombstone" /\ ses'[p].todo = ses[p].todo \ {h}
          /\ ses'[p].rows = ses[p].rows /\ ses'[p].op = ses[p].op
          /\ ses'[p].ts = ses[p].ts /\ At(p, "tombstone")
          /\ UNCHANGED <<now, ledger>>
      BY <1>7, <2>5 DEF DeleteEntry, Session, At
    <3>2. byHash'[h] = Tombstone /\ \A g \in Files : g # h => byHash'[g] = byHash[g]
      BY <1>0, <1>7, <2>1, SaveOthers DEF DeleteEntry
    <3>3. RowsInv(p)'
      BY <1>b, <2>1, <3>1, <3>2 DEF SessionInv, RowsInv, Live
    <3>4. TombstoneInv(p)'
      BY <1>b, <3>1, <3>2 DEF SessionInv, TombstoneInv, At, LastCommitTs, NeverCommitted
    <3>5. SessionInv(p)'
      BY <3>1, <3>3, <3>4 DEF SessionInv, StageInv, SaveInv, AbsorbInv, RootInv, At
    <3> QED
      BY <1>a, <2>3, <3>5
  <2> QED
    BY <2>4, <2>5
<1>8. ASSUME NEW p \in Sessions, NEW hs \in SUBSET Hashes, NEW op, TagBegin(p, hs, op)
      PROVE  IInv'
  <2>1. UNCHANGED <<now, present, store>> /\ op \in {"tag", "untag"}
    BY <1>8 DEF TagBegin
  <2>2. StoreInv'
    BY <1>0, <2>1, QuietStep
  <2>3. /\ ses'[p].pc = "load" /\ ses'[p].op = op /\ ses'[p].rows = NoRows
        /\ UNCHANGED <<now, byHash>>
    BY <1>8 DEF TagBegin, Begin, Idle, store
  <2>4. SessionInv(p)'
    BY <2>1, <2>3 DEF SessionInv, RowsInv, StageInv, TombstoneInv, SaveInv,
       AbsorbInv, RootInv, At, NoRows, Never
  <2> QED
    BY <1>a, <2>2, <2>4
<1>28. ASSUME NEW p \in Sessions, NEW h \in Hashes, UpdateLoad(p, h) PROVE IInv'
  <2>1. StoreInv'
    BY <1>0, <1>28, QuietStep DEF UpdateLoad
  <2>2. CASE Live(h)
    <3> DEFINE e == [byHash[h] EXCEPT !.tagged = (ses[p].op = "tag")]
    <3>1. /\ ses'[p].pc = "save" /\ ses'[p].arg = h /\ ses'[p].rows = ses[p].rows
          /\ ses'[p].op = ses[p].op /\ ses'[p].entry = e
          /\ At(p, "load") /\ UNCHANGED <<now, byHash, ledger>>
      BY <1>28, <2>2 DEF UpdateLoad, Session, store
    <3>2. e.state = "live" /\ e.repo = byHash[h].repo /\ e.added = byHash[h].added
      BY <2>2 DEF Live, Entry
    <3> HIDE DEF e
    <3>3. SaveInv(p)' /\ RowsInv(p)'
      BY <1>b, <2>2, <3>1, <3>2 DEF SessionInv, SaveInv, RowsInv, Live
    <3>4. TombstoneInv(p)'
      BY <1>b, <3>1 DEF SessionInv, TodoInv, OpInv, TombstoneInv, At
    <3>5. SessionInv(p)'
      BY <1>b, <3>1, <3>3, <3>4
         DEF SessionInv, StageInv, AbsorbInv, RootInv, At
    <3> QED
      BY <1>a, <2>1, <3>5
  <2>3. CASE ~Live(h)
    BY <1>28, <1>a, <2>1, <2>3, ReturnInv DEF UpdateLoad
  <2> QED
    BY <2>2, <2>3
<1>9. ASSUME NEW p \in Sessions, UpdateSave(p) PROVE IInv'
  <2>1. /\ ses[p].arg \in Hashes /\ ses[p].entry \in Entry
        /\ Live(ses[p].arg) /\ ses[p].entry.state = "live"
        /\ ses[p].entry.repo = byHash[ses[p].arg].repo
        /\ ses[p].entry.added = byHash[ses[p].arg].added
    BY <1>9, <1>b DEF UpdateSave, SessionInv, SaveInv, Session
  <2>2. ses[p].entry.repo # None => ses[p].arg \in Commits
    BY <1>0, <2>1 DEF StampInv, Hashes
  <2>3. StoreInv'
    BY <1>0, <1>9, <2>1, <2>2, SaveStep DEF UpdateSave, StampInv, CommittedInv, StagedInv
  <2>4. CASE Return(p)
    BY <1>9, <1>a, <2>3, <2>4, ReturnInv DEF UpdateSave
  <2>5. CASE ~Return(p)
    <3>1. /\ ses'[p].pc = "load" /\ ses'[p].rows = ses[p].rows
          /\ ses'[p].op = ses[p].op /\ At(p, "save") /\ UNCHANGED <<now, ledger>>
      BY <1>9, <2>5 DEF UpdateSave, Session
    <3>2. /\ byHash'[ses[p].arg] = ses[p].entry
          /\ \A g \in Files : g # ses[p].arg => byHash'[g] = byHash[g]
      BY <1>0, <1>9, <2>1, <2>2, SaveOthers DEF UpdateSave
    <3>3. RowsInv(p)'
      BY <1>b, <2>1, <3>1, <3>2 DEF SessionInv, RowsInv, Live
    <3>4. SessionInv(p)'
      BY <1>b, <1>t, <3>1, <3>3, NotRm
         DEF SessionInv, StageInv, SaveInv, AbsorbInv, RootInv, At
    <3> QED
      BY <1>a, <2>3, <3>4
  <2> QED
    BY <2>4, <2>5
<1>10. ASSUME NEW p \in Sessions, NEW n \in Repos, NEW c \in Commits, RepoAdd(p, n, c)
       PROVE  IInv'
  <2>1. /\ c \in Hashes /\ c \notin Files /\ RepoEntry(n) \in Entry
        /\ UNCHANGED <<now, staged, ledger, ses>> /\ SaveEntry(c, RepoEntry(n))
    BY <1>10, HashesAssumption DEF RepoAdd, RepoEntry, Entry, Hashes
  <2>2. StoreInv'
    BY <1>0, <2>1, SaveStep DEF Committed
  <2>3. \A f \in Files : byHash'[f] = byHash[f]
    BY <1>0, <2>1, SaveOthers
  <2>4. SessionInv(p)'
    <3>1. ses[p].op = "none" /\ At(p, "idle")
      BY <1>10 DEF RepoAdd, TodoInv, OpInv, At
    <3>2. RowsInv(p)'
      BY <1>b, <2>1, <2>3 DEF SessionInv, RowsInv, Live
    <3> QED
      BY <2>1, <3>1, <3>2 DEF SessionInv, StageInv, TombstoneInv, SaveInv, AbsorbInv,
         RootInv, At
  <2> QED
    BY <1>a, <2>2, <2>4
<1>11. ASSUME NEW p \in Sessions, CommitBegin(p) PROVE IInv'
  <2>1. StoreInv'
    BY <1>0, <1>11, QuietStep DEF CommitBegin
  <2>2. /\ ses'[p].pc \in {"entries", "absorb"} /\ ses'[p].rows = staged
        /\ ses'[p].todo = StagedFiles /\ UNCHANGED <<now, byHash, staged>>
    BY <1>11 DEF CommitBegin, Begin, Idle, store
  <2>3. RowsInv(p)' /\ AbsorbInv(p)'
    BY <1>0, <2>2 DEF RowsInv, AbsorbInv, StagedFiles, IsStaged, StampInv, StagedInv, Live
  <2>4. SessionInv(p)'
    BY <1>t, <2>2, <2>3, NotRm DEF SessionInv, StageInv, SaveInv, RootInv, At
  <2> QED
    BY <1>a, <2>1, <2>4
<1>12. ASSUME NEW p \in Sessions, NEW f \in Files, AbsorbEntry(p, f) PROVE IInv'
  <2> DEFINE e == FileEntry(ses[p].rows[f])
  <2>1. /\ f \in Hashes /\ e \in Entry /\ e.state = "live" /\ e.repo = None
        /\ e.added = ses[p].rows[f] /\ SaveEntry(f, e)
        /\ UNCHANGED <<now, staged, ledger>>
    BY <1>12 DEF AbsorbEntry, TodoInv, At, FileEntry, Entry, Session, Stamp, Hashes
  <2>2. /\ At(p, "absorb") /\ f \in ses[p].todo
        /\ ses'[p].pc = "absorb" /\ ses'[p].todo = ses[p].todo \ {f}
        /\ ses'[p].rows = [ses[p].rows EXCEPT ![f] = Never]
    BY <1>12 DEF AbsorbEntry, Session, At
  <2>3. /\ ses[p].rows[f] <= now /\ ses[p].rows[f] # Never /\ staged[f] = ses[p].rows[f]
        /\ Live(f) => ses[p].rows[f] = byHash[f].added
    BY <1>b, <2>2 DEF SessionInv, RowsInv, AbsorbInv
  <2> HIDE DEF e
  <2>4. StoreInv'
    BY <1>0, <2>1, <2>3, SaveStep DEF CommittedInv
  <2>5. byHash'[f] = e /\ \A g \in Files : g # f => byHash'[g] = byHash[g]
    BY <1>0, <2>1, SaveOthers
  <2>6. ses[p].rows \in [Files -> Stamp]
    BY DEF Session
  <2>7. RowsInv(p)'
    BY <1>b, <2>1, <2>2, <2>5, <2>6 DEF SessionInv, RowsInv, Live, Never
  <2>8. AbsorbInv(p)'
    BY <1>b, <2>1, <2>2, <2>6 DEF SessionInv, AbsorbInv
  <2>9. SessionInv(p)'
    BY <1>t, <2>2, <2>7, <2>8, NotRm DEF SessionInv, StageInv, SaveInv, RootInv, At
  <2> QED
    BY <1>a, <2>4, <2>9
<1>13. ASSUME NEW p \in Sessions, NEW f \in Files, SkipEntry(p, f) PROVE IInv'
  <2>1. StoreInv'
    BY <1>0, <1>13, QuietStep DEF SkipEntry
  <2>2. /\ At(p, "absorb") /\ ses'[p].pc = "absorb" /\ ses'[p].rows = ses[p].rows
        /\ ses'[p].todo = ses[p].todo \ {f} /\ UNCHANGED <<now, byHash, staged>>
    BY <1>13 DEF SkipEntry, Session, At, store
  <2>3. RowsInv(p)' /\ AbsorbInv(p)'
    BY <1>b, <2>2 DEF SessionInv, RowsInv, AbsorbInv, Live
  <2>4. SessionInv(p)'
    BY <1>t, <2>2, <2>3, NotRm DEF SessionInv, StageInv, SaveInv, RootInv, At
  <2> QED
    BY <1>a, <2>1, <2>4
<1>14. ASSUME NEW p \in Sessions, AbsorbDone(p) PROVE IInv'
  <2>1. StoreInv'
    BY <1>0, <1>14, QuietStep DEF AbsorbDone
  <2>2. ses'[p].pc = "open" /\ ses'[p].rows = ses[p].rows /\ UNCHANGED <<now, byHash>>
    BY <1>14 DEF AbsorbDone, Session, store
  <2>3. RowsInv(p)'
    BY <1>b, <2>2 DEF SessionInv, RowsInv, Live
  <2>4. SessionInv(p)'
    BY <1>14, <2>2, <2>3 DEF AbsorbDone, TodoInv, OpInv, SessionInv, StageInv, TombstoneInv, SaveInv, AbsorbInv, RootInv, At
  <2> QED
    BY <1>a, <2>1, <2>4
<1>15. ASSUME NEW p \in Sessions, LoadEntries(p) PROVE IInv'
  <2>1. StoreInv'
    BY <1>0, <1>15, QuietStep DEF LoadEntries
  <2>2. SessionInv(p)'
    <3>1. CASE LiveHashes = {}
      BY <1>15, <3>1, ReturnInv DEF LoadEntries
    <3>2. CASE LiveHashes # {}
      <4>1. /\ ses'[p].pc = "root" /\ ses'[p].rows = ses[p].rows
            /\ ses'[p].fileCount = Cardinality(LiveHashes)
            /\ UNCHANGED <<now, byHash>>
        BY <1>15, <3>2 DEF LoadEntries, Session, store
      <4>2. RowsInv(p)'
        BY <1>b, <4>1 DEF SessionInv, RowsInv, Live
      <4>3. LiveHashes' = LiveHashes
        BY <4>1 DEF LiveHashes, Live
      <4>4. RootInv(p)'
        BY <4>1, <4>3 DEF RootInv, At
      <4> QED
        BY <1>t, NotRm, <4>1, <4>2, <4>4 DEF SessionInv, StageInv, SaveInv, AbsorbInv, At
    <3> QED
      BY <3>1, <3>2
  <2> QED
    BY <1>a, <2>1, <2>2
<1>16. ASSUME NEW p \in Sessions, CurrentRoot(p) PROVE IInv'
  <2>1. StoreInv'
    BY <1>0, <1>16, QuietStep DEF CurrentRoot
  <2>2. /\ At(p, "root") /\ ses'[p].pc = "tip" /\ ses'[p].rows = ses[p].rows
        /\ ses'[p].leaves = LiveHashes /\ ses'[p].fileCount = ses[p].fileCount
        /\ UNCHANGED <<now, byHash>>
    BY <1>16 DEF CurrentRoot, Session, store
  <2>3. RowsInv(p)'
    BY <1>b, <2>2 DEF SessionInv, RowsInv, Live
  <2>4. RootInv(p)'
    BY <1>b, <2>2 DEF SessionInv, RootInv, At, LiveHashes, Live
  <2> QED
    BY <1>a, <2>1, <2>2, <2>3, <2>4, <1>t, NotRm
       DEF SessionInv, StageInv, SaveInv, AbsorbInv, At
<1>17. ASSUME NEW p \in Sessions, GetTip(p) PROVE IInv'
  <2>1. StoreInv'
    BY <1>0, <1>17, QuietStep DEF GetTip
  <2>2. /\ At(p, "tip") /\ ses'[p].pc = "append" /\ ses'[p].rows = ses[p].rows
        /\ ses'[p].leaves = ses[p].leaves /\ ses'[p].fileCount = ses[p].fileCount
        /\ ses'[p].ts = now /\ UNCHANGED <<now, byHash, ledger>>
    BY <1>17 DEF GetTip, Session, store
  <2>3. RowsInv(p)'
    BY <1>b, <2>2 DEF SessionInv, RowsInv, Live
  <2>4. RootInv(p)'
    BY <1>0, <1>b, <2>2 DEF SessionInv, RootInv, At, Live, StampInv
  <2> QED
    BY <1>a, <2>1, <2>2, <2>3, <2>4, <1>t, NotRm
       DEF SessionInv, StageInv, SaveInv, AbsorbInv, At
<1>18. ASSUME NEW p \in Sessions, AppendLedger(p) PROVE IInv'
  <2> DEFINE c == [ts |-> ses[p].ts, leaves |-> ses[p].leaves,
                   fileCount |-> ses[p].fileCount]
  <2>1. /\ ses[p].ts <= now
        /\ \A i \in DOMAIN ledger : ledger[i].ts <= ses[p].ts
        /\ \A f \in Files : Live(f) => byHash[f].added <= ses[p].ts
        /\ \A f \in ses[p].leaves \cap Files : Live(f)
        /\ ses[p].fileCount = Cardinality(ses[p].leaves)
    BY <1>18, <1>b DEF AppendLedger, SessionInv, RootInv
  <2>2. /\ UNCHANGED <<now, staged, byHash, repoAt>>
        /\ Len(ledger') = Len(ledger) + 1
        /\ ledger'[Len(ledger')] = c
        /\ \A i \in DOMAIN ledger : ledger'[i] = ledger[i]
        /\ DOMAIN ledger' = DOMAIN ledger \cup {Len(ledger')}
        /\ \A i \in DOMAIN ledger : i \in Nat /\ i < Len(ledger')
        /\ ledger' # <<>>
    BY <1>18 DEF AppendLedger
  <2>3. c.ts = ses[p].ts /\ c.leaves = ses[p].leaves /\ c.fileCount = ses[p].fileCount
    OBVIOUS
  <2> HIDE DEF c
  <2>4. StampInv' /\ StagedInv'
    BY <1>0, <2>1, <2>2, <2>3 DEF StampInv, StagedInv, IsStaged, Live
  <2>5. CommittedInv'
    <3> SUFFICES ASSUME NEW f \in Committed'
                 PROVE  Live(f)' /\ byHash'[f].added <= LastCommitTs'
      BY DEF CommittedInv
    <3>1. f \in Files /\ Live(f)
      BY <1>0, <2>1, <2>2, <2>3 DEF Committed, CommittedInv
    <3>2. LastCommitTs' = ses[p].ts
      BY <2>2, <2>3 DEF LastCommitTs
    <3> QED
      BY <2>1, <2>2, <3>1, <3>2 DEF Live
  <2>6. LedgerInv'
    BY <1>0, <2>1, <2>2, <2>3 DEF LedgerInv, LedgerChronological, FileCountMatchesRoot
  <2> QED
    BY <1>18, <1>a, <2>4, <2>5, <2>6, <2>2, ReturnInv DEF AppendLedger, StoreInv
<1>19. CASE Tick
  <2>1. UNCHANGED <<store, ses, byHash, staged, ledger>> /\ now' = now + 1
    BY <1>19 DEF Tick, store
  <2>2. StoreInv'
    BY <1>0, <2>1, QuietStep
  <2>3. \A p \in Sessions : SessionInv(p)'
    <3> SUFFICES ASSUME NEW p \in Sessions PROVE SessionInv(p)'
      OBVIOUS
    <3>1. /\ \A f \in Files : ses[p].rows[f] \in Int
          /\ ses[p].ts \in Int
      BY DEF Session, Stamp, Never
    <3>2. RowsInv(p)'
      BY <1>b, <2>1, <3>1 DEF SessionInv, RowsInv, Live
    <3>3. StageInv(p)' /\ TombstoneInv(p)' /\ SaveInv(p)' /\ AbsorbInv(p)'
      BY <1>b, <2>1 DEF SessionInv, StageInv, TombstoneInv, SaveInv, AbsorbInv, At, Live,
         NeverCommitted, LastCommitTs
    <3>4. RootInv(p)'
      <4>1. LiveHashes' = LiveHashes /\ \A f \in Files : Live(f)' = Live(f)
        BY <2>1 DEF LiveHashes, Live
      <4>2. ses[p].ts <= now => ses[p].ts <= now'
        BY <2>1, <3>1
      <4> QED
        BY <1>b, <2>1, <4>1, <4>2 DEF SessionInv, RootInv, At
    <3> QED
      BY <3>2, <3>3, <3>4 DEF SessionInv
  <2> QED
    BY <2>2, <2>3 DEF IInv, StoreInv
<1>20. ASSUME UNCHANGED <<now, store, ses>> PROVE IInv'
  <2>1. StoreInv'
    BY <1>0, <1>20, QuietStep
  <2>2. \A p \in Sessions : SessionInv(p)'
    BY <1>b, <1>20 DEF store, SessionInv, RowsInv, StageInv, TombstoneInv, SaveInv,
       AbsorbInv, RootInv, At, Live, LiveHashes, NeverCommitted, LastCommitTs
  <2> QED
    BY <2>1, <2>2 DEF IInv, StoreInv
<1>21. ASSUME NEW p \in Sessions, Die(p) PROVE IInv'
  <2>1. StampInv' /\ StagedInv'
    <3>1. \A f \in Files : staged'[f] \in {staged[f], ses[p].rows[f], Never}
      BY <1>21 DEF Die
    <3>2. CASE At(p, "flush")
      BY <1>0, <1>21, <1>b, <3>2 DEF Die, SessionInv, RowsInv, StampInv, StagedInv,
         IsStaged, Live, Never
    <3>3. CASE ~At(p, "flush")
      BY <1>0, <1>21, <3>3 DEF Die, StampInv, StagedInv, IsStaged, Live
    <3> QED
      BY <3>2, <3>3
  <2>2. CommittedInv' /\ LedgerInv'
    BY <1>0, <1>21 DEF Die, CommittedInv, Committed, Live, LastCommitTs,
       LedgerInv, LedgerChronological, FileCountMatchesRoot
  <2> QED
    BY <1>21, <1>a, <2>1, <2>2, ReturnInv DEF Die, StoreInv
<1>22. ASSUME NEW p \in Sessions, Run(p) PROVE IInv'
  BY <1>22, <1>1, <1>2, <1>4, <1>6, <1>7, <1>9, <1>12, <1>13, <1>14, <1>15, <1>16,
     <1>17, <1>18, <1>26, <1>27, <1>28 DEF Run
<1>23. ASSUME NEW p \in Sessions, Command(p) PROVE IInv'
  BY <1>23, <1>3, <1>5, <1>8, <1>10, <1>11, PatternsAssumption DEF Command
<1>24. ASSUME NEW f \in Files, Move(f) PROVE IInv'
  BY <1>20, <1>24 DEF Move
<1>25. CASE UNCHANGED vars
  BY <1>20, <1>25 DEF vars, store
<1> QED
  BY <1>19, <1>21, <1>22, <1>23, <1>24, <1>25 DEF Next, Environment

\* What one session at a time guarantees, in every reachable state.
THEOREM OneSessionInvariant == ASSUME OneSession PROVE Spec => [](TypeInv /\ IInv)
<1>1. Init => TypeInv /\ IInv
  BY InitType, InitIInv
<1>2. TypeInv /\ IInv /\ [Next]_vars => (TypeInv /\ IInv)'
  BY NextType, NextIInv
<1> QED
  BY <1>1, <1>2, PTL DEF Spec

\* "once committed, entries are permanent, by design": rm's comparison of two
\* time stamps never lets a committed file go, crashes and torn writes included.
THEOREM CommittedPermanent ==
    ASSUME OneSession PROVE Spec => []CommittedFilesPermanent
<1>1. IInv => CommittedFilesPermanent
  BY DEF IInv, CommittedInv, Committed, CommittedFilesPermanent
<1> QED
  BY <1>1, OneSessionInvariant, PTL

\* The docstring of _never_committed is right about files: an entry newer than
\* the last commit is covered by no commit.
THEOREM NeverCommittedSound ==
    ASSUME OneSession PROVE Spec => []NeverCommittedFile
<1>1. ASSUME TypeInv, IInv PROVE NeverCommittedFile
  <2> SUFFICES ASSUME NEW f \in Files, NEW i \in DOMAIN ledger, f \in ledger[i].leaves,
                      NeverCommitted(byHash[f], LastCommitTs)
               PROVE  FALSE
    BY DEF NeverCommittedFile
  <2>1. byHash[f].added <= LastCommitTs
    BY <1>1 DEF IInv, CommittedInv, Committed
  <2>2. ledger # <<>> /\ LastCommitTs = ledger[Len(ledger)].ts /\ Len(ledger) \in DOMAIN ledger
    BY <1>1 DEF LastCommitTs, TypeInv, TypeOK
  <2>3. LastCommitTs \in Nat /\ byHash[f].added \in Nat
    BY <1>1, <2>2, LedgerType DEF TypeInv, TypeOK, Hashes, Entry
  <2> QED
    BY <2>1, <2>3 DEF NeverCommitted, Never
<1> QED
  BY <1>1, OneSessionInvariant, PTL

\* The ledger is chronological, and every commit counts the leaves it commits.
THEOREM LedgerOrdered ==
    ASSUME OneSession PROVE Spec => [](LedgerChronological /\ FileCountMatchesRoot)
<1>1. IInv => LedgerChronological /\ FileCountMatchesRoot
  BY DEF IInv, LedgerInv
<1> QED
  BY <1>1, OneSessionInvariant, PTL
-----------------------------------------------------------------------------
\* One session's OttArchive implements OttPromise, crashes included, as long as
\* the rewriting of staged.jsonl itself is not cut short.


\* While a commit absorbs the staging area, a staged file it has no row left
\* for is in the manifest.
AbsorbedRows(p) ==
    \A f \in Files : /\ ses[p].rows[f] # Never => IsStaged(f)
                     /\ IsStaged(f) => ses[p].rows[f] # Never \/ Live(f)

\* What each command is about to do to the staging area and the manifest.
HeldInv(p) ==
    /\ ses[p].op = "rm" => ses[p].todo \subseteq ses[p].wanted
    /\ At(p, "absorb") => AbsorbedRows(p)
    /\ At(p, "flush") => staged = NoRows
    /\ At(p, "open") =>
         \/ /\ ses[p].op = "add" /\ ses[p].arg \in Files
            /\ \A f \in Files : ses[p].rows[f] # Never <=> IsStaged(f) \/ f = ses[p].arg
         \/ /\ ses[p].op = "rm" /\ ses[p].arg \in Files \cap ses[p].wanted
            /\ \A f \in Files : ses[p].rows[f] # Never <=> IsStaged(f) /\ f # ses[p].arg
         \/ ses[p].op = "commit" /\ AbsorbedRows(p)

FullInv == TypeInv /\ IInv /\ \A p \in Sessions : HeldInv(p)

\* What a step does to the files held and committed; only a running rm makes
\* one be forgotten.
Kept == UNCHANGED <<Held, Committed>>
Keeps == \E f \in Files : Held' = Held \cup {f} /\ UNCHANGED Committed
Forgets == \E f \in Files : /\ f \notin Committed
                            /\ Held' = Held \ {f} /\ UNCHANGED Committed
                            /\ \E p \in Sessions : ses[p].op = "rm" /\ f \in ses[p].wanted
Anchors == \E S \in SUBSET Files : /\ S \subseteq Held /\ UNCHANGED Held
                                   /\ Committed' = Committed \cup S
Promised == Kept \/ Keeps \/ Forgets \/ Anchors

----------------------------------------------------------------------------
\* With one session, a file is held if it is archived, staged, or a row of the
\* file being rewritten.
LEMMA HeldByOne ==
    ASSUME OneSession, NEW p \in Sessions
    PROVE  Held = {f \in Files : \/ Live(f) \/ IsStaged(f)
                                 \/ At(p, "flush") /\ ses[p].rows[f] # Never}
BY DEF OneSession, Held, Rewriting

LEMMA HeldByOneNext ==
    ASSUME OneSession, NEW p \in Sessions
    PROVE  Held' = {f \in Files : \/ Live(f)' \/ IsStaged(f)'
                                  \/ At(p, "flush")' /\ ses'[p].rows[f] # Never}
BY DEF OneSession, Held, Rewriting, At

\* A session that is not rewriting the staging area, before and after a step
\* that leaves the staging area and the set of archived files alone.
LEMMA QuietHeld ==
    ASSUME OneSession, NEW p \in Sessions, ~At(p, "flush"), ~At(p, "flush")',
           UNCHANGED <<staged, ledger>>, \A f \in Files : Live(f)' <=> Live(f)
    PROVE  Kept
BY HeldByOne, HeldByOneNext DEF Kept, Committed, IsStaged

LEMMA FullInvInit == Init => FullInv
BY InitType, InitIInv DEF Init, FullInv, HeldInv, At, Idle

\* A session at rest, or about to read, has nothing to answer for.
LEMMA CalmHeld ==
    ASSUME NEW p \in Sessions,
           ses'[p].pc \notin {"absorb", "flush", "open"}, ses'[p].op # "rm"
    PROVE  HeldInv(p)'
BY DEF HeldInv, At

\* Every step keeps the promise and the invariant it rests on.
LEMMA NextHeld ==
    ASSUME OneSession, ~TornWrites, FullInv, [Next]_vars
    PROVE  Promised /\ \A p \in Sessions : HeldInv(p)'
<1> USE DEF TypeInv, TypeOK, FullInv
<1>a. ASSUME NEW p \in Sessions, HeldInv(p)' PROVE \A q \in Sessions : HeldInv(q)'
  BY <1>a DEF OneSession
<1>b. ASSUME NEW p \in Sessions 
      PROVE  HeldInv(p) /\ SessionInv(p) /\ ses[p] \in Session /\ OpInv(ses[p])
  BY DEF IInv, TodoInv
<1>c. \A p \in Sessions : Return(p) => ses'[p] = Idle /\ HeldInv(p)' /\ At(p, "idle")'
  <2> SUFFICES ASSUME NEW p \in Sessions, Return(p)
               PROVE  ses'[p] = Idle /\ HeldInv(p)' /\ At(p, "idle")'
    OBVIOUS
  <2>1. ses'[p] = Idle
    BY DEF Return
  <2> QED
    BY <2>1, CalmHeld DEF Idle, At
<1>d. Kept => Promised
  BY DEF Promised
<1>1. ASSUME NEW p \in Sessions, OpenStaged(p) PROVE Promised /\ HeldInv(p)'
  <2>1. /\ At(p, "open") /\ ~At(p, "flush") /\ At(p, "flush")' /\ ses'[p].rows = ses[p].rows
        /\ staged' = NoRows /\ UNCHANGED <<byHash, ledger>>
    BY <1>1 DEF OpenStaged, At
  <2>2. HeldInv(p)'
    BY <1>b, <1>1, <2>1 DEF OpenStaged, HeldInv, At, Session
  <2>3. Held = {f \in Files : Live(f) \/ IsStaged(f)}
    BY <2>1, HeldByOne
  <2>4. Held' = {f \in Files : Live(f) \/ ses[p].rows[f] # Never}
    BY <2>1, HeldByOneNext DEF Live, IsStaged, NoRows, Never
  <2>5. UNCHANGED Committed
    BY <2>1 DEF Committed
  <2>6. CASE /\ ses[p].op = "add" /\ ses[p].arg \in Files
             /\ \A f \in Files : ses[p].rows[f] # Never <=> IsStaged(f) \/ f = ses[p].arg
    <3>1. Held' = Held \cup {ses[p].arg}
      BY <2>3, <2>4, <2>6
    <3> QED
      BY <2>2, <2>5, <2>6, <3>1 DEF Promised, Keeps
  <2>7. CASE /\ ses[p].op = "rm" /\ ses[p].arg \in Files \cap ses[p].wanted
             /\ \A f \in Files : ses[p].rows[f] # Never <=> IsStaged(f) /\ f # ses[p].arg
    <3>1. CASE Live(ses[p].arg)
      <4>1. Held' = Held
        BY <2>3, <2>4, <2>7, <3>1
      <4> QED
        BY <2>2, <2>5, <4>1 DEF Promised, Kept
    <3>2. CASE ~Live(ses[p].arg)
      <4>1. Held' = Held \ {ses[p].arg}
        BY <2>3, <2>4, <2>7, <3>2
      <4>2. ses[p].arg \notin Committed
        BY <3>2 DEF IInv, CommittedInv
      <4> QED
        BY <2>2, <2>5, <2>7, <4>1, <4>2 DEF Promised, Forgets
    <3> QED
      BY <3>1, <3>2
  <2>8. CASE ses[p].op = "commit" /\ AbsorbedRows(p)
    <3>1. Held' = Held
      BY <2>3, <2>4, <2>8 DEF AbsorbedRows
    <3> QED
      BY <2>2, <2>5, <3>1 DEF Promised, Kept
  <2> QED
    BY <1>b, <2>1, <2>6, <2>7, <2>8 DEF HeldInv
<1>2. ASSUME NEW p \in Sessions, FlushStaged(p) PROVE Promised /\ HeldInv(p)'
  <2>1. At(p, "flush") /\ staged' = ses[p].rows /\ UNCHANGED <<byHash, ledger>>
    BY <1>2 DEF FlushStaged
  <2>2. \/ Return(p)
        \/ /\ ses'[p].pc \in {"entries", "unstage"} /\ ses'[p].op = ses[p].op
           /\ ses'[p].todo = ses[p].todo /\ ses'[p].wanted = ses[p].wanted
    BY <1>b, <1>2 DEF FlushStaged, Session
  <2>3. HeldInv(p)' /\ ~At(p, "flush")'
    BY <1>b, <1>c, <2>2 DEF HeldInv, At
  <2>4. staged = NoRows
    BY <1>b, <2>1 DEF HeldInv
  <2>5. Held' = Held
    BY <2>1, <2>3, <2>4, HeldByOne, HeldByOneNext DEF Live, IsStaged, NoRows, Never
  <2> QED
    BY <2>1, <2>3, <2>5 DEF Promised, Kept, Committed
<1>3. ASSUME NEW p \in Sessions, ~At(p, "flush"), ~At(p, "flush")', UNCHANGED store
      PROVE  Promised
  BY <1>3, <1>d, QuietHeld DEF store, Live
<1>4. ASSUME NEW p \in Sessions, StageEntry(p) PROVE Promised /\ HeldInv(p)'
  <2>1. /\ At(p, "stage") /\ UNCHANGED store /\ At(p, "open")'
        /\ ses'[p].op = ses[p].op /\ ses'[p].arg = ses[p].arg
        /\ ses'[p].rows = [staged EXCEPT ![ses[p].arg] = now]
    BY <1>4 DEF StageEntry, At
  <2>2. ses[p].arg \in Files /\ ses[p].op = "add"
    BY <1>b, <2>1 DEF SessionInv, StageInv, OpInv, At
  <2>3. \A f \in Files : ses'[p].rows[f] # Never <=> IsStaged(f) \/ f = ses[p].arg
    BY <2>1, <2>2 DEF IsStaged, Never
  <2>4. HeldInv(p)'
    BY <2>1, <2>2, <2>3 DEF HeldInv, At, store, IsStaged
  <2> QED
    BY <1>3, <2>1, <2>4 DEF At
<1>5. ASSUME NEW p \in Sessions, NEW f \in Files, UnstageEntry(p, f)
      PROVE  Promised /\ HeldInv(p)'
  <2> DEFINE r == IF IsStaged(f) THEN [staged EXCEPT ![f] = Never] ELSE NoRows
             pc == IF IsStaged(f) THEN "open" ELSE "unstage"
  <2>1. /\ At(p, "unstage") /\ UNCHANGED store /\ f \in ses[p].todo
        /\ ses'[p].pc = pc /\ ses'[p].rows = r /\ ses'[p].arg = f
        /\ ses'[p].op = ses[p].op /\ ses'[p].wanted = ses[p].wanted
        /\ ses'[p].todo = ses[p].todo \ {f}
    BY <1>5, <1>b DEF UnstageEntry, Session
  <2>2. ses[p].op = "rm" /\ ses[p].todo \subseteq ses[p].wanted
    BY <1>b, <2>1 DEF HeldInv, OpInv, At
  <2>3. IsStaged(f) => \A g \in Files : r[g] # Never <=> IsStaged(g) /\ g # f
    BY DEF IsStaged
  <2> HIDE DEF r
  <2>4. HeldInv(p)'
    BY <2>1, <2>2, <2>3 DEF HeldInv, At, store, IsStaged
  <2> QED
    BY <1>3, <2>1, <2>4 DEF At
<1>26. ASSUME NEW p \in Sessions, NEW hs \in SUBSET Hashes, NEW regex \in BOOLEAN,
              RmBegin(p, hs, regex)
       PROVE  Promised /\ HeldInv(p)'
  <2>1. /\ At(p, "idle") /\ UNCHANGED store /\ ses'[p].pc = "stamp"
        /\ ses'[p].wanted = hs /\ ses'[p].todo = hs \cap StagedFiles
    BY <1>26 DEF RmBegin, Begin, Idle
  <2> QED
    BY <1>3, <2>1 DEF HeldInv, At
<1>27. ASSUME NEW p \in Sessions, RmStamp(p) PROVE Promised /\ HeldInv(p)'
  <2>1. /\ At(p, "stamp") /\ UNCHANGED store /\ ses'[p].pc = "unstage"
        /\ ses'[p].wanted = ses[p].wanted /\ ses'[p].todo = ses[p].todo
        /\ ses'[p].op = ses[p].op
    BY <1>b, <1>27 DEF RmStamp, Session
  <2> QED
    BY <1>b, <1>3, <2>1 DEF HeldInv, At
<1>28. ASSUME NEW p \in Sessions, FindArchived(p) PROVE Promised /\ HeldInv(p)'
  <2>1. /\ At(p, "unstage") /\ UNCHANGED store
        /\ \/ Return(p)
           \/ /\ ses'[p].pc = "tombstone" /\ ses'[p].todo = Removable(p)
              /\ ses'[p].wanted = ses[p].wanted
    BY <1>b, <1>28 DEF FindArchived, Session
  <2> QED
    BY <1>3, <1>c, <2>1 DEF HeldInv, At, Removable
<1>e. StampInv /\ CommittedInv
  BY DEF IInv
<1>6. ASSUME NEW p \in Sessions, NEW h \in Hashes, DeleteEntry(p, h)
      PROVE  Promised /\ HeldInv(p)'
  <2>1. /\ At(p, "tombstone") /\ SaveEntry(h, Tombstone) /\ h \in ses[p].todo
        /\ UNCHANGED <<staged, ledger>>
        /\ \/ Return(p)
           \/ /\ ses'[p].pc = "tombstone" /\ ses'[p].todo = ses[p].todo \ {h}
              /\ ses'[p].wanted = ses[p].wanted /\ ses'[p].op = ses[p].op
    BY <1>b, <1>6 DEF DeleteEntry, At, Session
  <2>2. /\ h \in Files => NeverCommitted(byHash[h], LastCommitTs)
        /\ ses[p].op = "rm" /\ h \in ses[p].wanted
    BY <1>b, <2>1 DEF SessionInv, TombstoneInv, HeldInv
  <2>3. Tombstone \in Entry /\ Tombstone.repo = None /\ Tombstone.state # "live"
    BY DEF Tombstone, Entry
  <2>4. byHash'[h] = Tombstone /\ \A f \in Files : f # h => byHash'[f] = byHash[f]
    BY <1>e, <2>1, <2>3, SaveOthers
  <2>5. Held = {f \in Files : Live(f) \/ IsStaged(f)}
    BY <2>1, HeldByOne DEF At
  <2>a. HeldInv(p)' /\ ~At(p, "flush")'
    BY <1>b, <1>c, <2>1 DEF HeldInv, At
  <2>6. Held' = {f \in Files : (Live(f) /\ f # h) \/ IsStaged(f)}
    BY <2>a, <2>1, <2>3, <2>4, HeldByOneNext DEF Live, IsStaged
  <2>7. UNCHANGED Committed
    BY <2>1 DEF Committed
  <2>8. CASE h \in Files /\ ~IsStaged(h)
    <3>1. Held' = Held \ {h}
      BY <2>5, <2>6, <2>8
    <3>2. h \notin Committed
      <4> SUFFICES ASSUME h \in Committed PROVE FALSE
        OBVIOUS
      <4>1. byHash[h].added <= LastCommitTs
        BY <1>e DEF CommittedInv
      <4>2. ledger # <<>>
        BY DEF Committed
      <4>3. LastCommitTs \in Nat /\ byHash[h].added \in Nat
        BY <4>2, LedgerType DEF LastCommitTs, Entry
      <4> QED
        BY <2>2, <2>8, <4>1, <4>3 DEF NeverCommitted, Never
    <3> QED
      BY <2>a, <2>1, <2>2, <2>7, <2>8, <3>1, <3>2 DEF Promised, Forgets
  <2>9. CASE ~(h \in Files /\ ~IsStaged(h))
    <3>1. Held' = Held
      BY <2>5, <2>6, <2>9
    <3> QED
      BY <2>a, <2>1, <2>7, <3>1 DEF Promised, Kept
  <2> QED
    BY <2>8, <2>9
<1>7. ASSUME NEW p \in Sessions, UpdateSave(p) PROVE Promised /\ HeldInv(p)'
  <2> DEFINE h == ses[p].arg
             e == ses[p].entry
  <2>1. /\ At(p, "save") /\ SaveEntry(h, e) /\ UNCHANGED <<staged, ledger>>
        /\ Return(p) \/ (ses'[p].pc = "load" /\ ses'[p].op = ses[p].op)
    BY <1>b, <1>7 DEF UpdateSave, Session
  <2>a. HeldInv(p)' /\ ~At(p, "flush")'
    BY <1>b, <1>c, <2>1, CalmHeld DEF At, OpInv
  <2>2. h \in Hashes /\ Live(h) /\ e.state = "live" /\ e.repo = byHash[h].repo /\ e \in Entry
    BY <1>b, <2>1 DEF SessionInv, SaveInv, Session
  <2>3. e.repo # None => h \in Commits
    BY <1>e, <2>2 DEF StampInv, Hashes
  <2>4. byHash'[h] = e /\ \A f \in Files : f # h => byHash'[f] = byHash[f]
    BY <1>e, <2>1, <2>2, <2>3, SaveOthers
  <2>5. \A f \in Files : Live(f)' <=> Live(f)
    BY <2>2, <2>4 DEF Live
  <2> QED
    BY <1>d, <2>a, <2>1, <2>5, QuietHeld DEF At
<1>8. ASSUME NEW p \in Sessions, NEW n \in Repos, NEW c \in Commits, RepoAdd(p, n, c)
      PROVE  Promised /\ HeldInv(p)'
  <2>1. At(p, "idle") /\ SaveEntry(c, RepoEntry(n)) /\ UNCHANGED <<staged, ledger, ses>>
    BY <1>8 DEF RepoAdd
  <2>2. RepoEntry(n) \in Entry /\ c \in Hashes /\ c \notin Files
    BY HashesAssumption DEF RepoEntry, Entry, Hashes
  <2>3. \A f \in Files : f # c => byHash'[f] = byHash[f]
    BY <1>e, <2>1, <2>2, SaveOthers
  <2>4. \A f \in Files : Live(f)' <=> Live(f)
    BY <2>2, <2>3 DEF Live
  <2>5. ses'[p].pc = "idle" /\ ses'[p].op = "none"
    BY <1>b, <2>1 DEF At, OpInv
  <2>6. HeldInv(p)'
    BY <2>5, CalmHeld
  <2> QED
    BY <1>d, <2>1, <2>4, <2>6, QuietHeld DEF At
<1>9. ASSUME NEW p \in Sessions, NEW f \in Files, AddBegin(p, f) PROVE Promised /\ HeldInv(p)'
  <2>1. /\ At(p, "idle") /\ UNCHANGED store
        /\ ses'[p].pc = "stage" /\ ses'[p].op = "add"
    BY <1>9 DEF AddBegin, Begin, Idle
  <2> QED
    BY <1>3, <2>1 DEF HeldInv, At
<1>10. ASSUME NEW p \in Sessions, NEW hs \in SUBSET Hashes, NEW op, TagBegin(p, hs, op)
       PROVE  Promised /\ HeldInv(p)'
  <2>1. /\ At(p, "idle") /\ UNCHANGED store /\ ses'[p].pc = "load"
        /\ ses'[p].op \in {"tag", "untag"}
    BY <1>10 DEF TagBegin, Begin, Idle
  <2> QED
    BY <1>3, <2>1, CalmHeld DEF At
<1>11. ASSUME NEW p \in Sessions, NEW h \in Hashes, UpdateLoad(p, h)
       PROVE  Promised /\ HeldInv(p)'
  <2>1. /\ At(p, "load") /\ UNCHANGED store
        /\ Return(p) \/ (ses'[p].pc = "save" /\ ses'[p].op = ses[p].op)
    BY <1>b, <1>11 DEF UpdateLoad, Session
  <2> QED
    BY <1>b, <1>3, <1>c, <2>1, CalmHeld DEF At, OpInv
<1>12. ASSUME NEW p \in Sessions, CommitBegin(p) PROVE Promised /\ HeldInv(p)'
  <2>1. /\ At(p, "idle") /\ UNCHANGED store /\ ses'[p].op = "commit" /\ ses'[p].rows = staged
        /\ ses'[p].pc = "entries" \/ ses'[p].pc = "absorb"
    BY <1>12 DEF CommitBegin, Begin, Idle
  <2>2. AbsorbedRows(p)'
    BY <2>1 DEF AbsorbedRows, IsStaged, store
  <2>3. HeldInv(p)'
    BY <2>1, <2>2 DEF HeldInv, At
  <2> QED
    BY <1>3, <2>1, <2>3 DEF At
<1>13. ASSUME NEW p \in Sessions, NEW f \in Files, AbsorbEntry(p, f)
       PROVE  Promised /\ HeldInv(p)'
  <2> DEFINE e == FileEntry(ses[p].rows[f])
  <2>1. /\ At(p, "absorb") /\ f \in ses[p].todo /\ SaveEntry(f, e) /\ UNCHANGED <<staged, ledger>>
        /\ ses'[p].pc = "absorb" /\ ses'[p].op = ses[p].op
        /\ ses'[p].rows = [ses[p].rows EXCEPT ![f] = Never]
    BY <1>13, <1>b DEF AbsorbEntry, At
  <2>2. ses[p].op = "commit" /\ AbsorbedRows(p) /\ ses[p].rows[f] # Never
    BY <1>b, <2>1 DEF HeldInv, OpInv, At, SessionInv, AbsorbInv
  <2>3. f \in Hashes /\ ses[p].rows \in [Files -> Stamp]
    BY <1>b DEF Hashes, Session
  <2>4. e \in Entry /\ e.repo = None /\ e.state = "live"
    BY <2>2, <2>3 DEF FileEntry, Entry, Stamp
  <2>5. byHash'[f] = e /\ \A g \in Files : g # f => byHash'[g] = byHash[g]
    BY <1>e, <2>1, <2>3, <2>4, SaveOthers
  <2>6. \A g \in Files : Live(g)' <=> Live(g) \/ g = f
    BY <2>4, <2>5 DEF Live
  <2>7. IsStaged(f)
    BY <2>2 DEF AbsorbedRows
  <2>8. AbsorbedRows(p)'
    BY <2>1, <2>2, <2>3, <2>6 DEF AbsorbedRows, IsStaged
  <2>9. HeldInv(p)'
    BY <2>1, <2>2, <2>8 DEF HeldInv, At
  <2>10. Held' = Held
    <3>1. Held = {g \in Files : Live(g) \/ IsStaged(g)}
      BY <2>1, HeldByOne DEF At
    <3>2. Held' = {g \in Files : Live(g)' \/ IsStaged(g)'}
      BY <2>1, HeldByOneNext DEF At
    <3> QED
      BY <2>1, <2>6, <2>7, <3>1, <3>2 DEF IsStaged
  <2> QED
    BY <1>d, <2>1, <2>9, <2>10 DEF Kept, Committed
<1>14. ASSUME NEW p \in Sessions, NEW f \in Files, SkipEntry(p, f)
       PROVE  Promised /\ HeldInv(p)'
  <2>1. /\ At(p, "absorb") /\ UNCHANGED store /\ ses'[p].pc = "absorb"
        /\ ses'[p].op = ses[p].op /\ ses'[p].rows = ses[p].rows
    BY <1>14, <1>b DEF SkipEntry, At
  <2>2. HeldInv(p)'
    BY <1>b, <2>1 DEF HeldInv, OpInv, At, AbsorbedRows, IsStaged, Live, store
  <2> QED
    BY <1>3, <2>1, <2>2 DEF At
<1>15. ASSUME NEW p \in Sessions, AbsorbDone(p) PROVE Promised /\ HeldInv(p)'
  <2>1. /\ At(p, "absorb") /\ UNCHANGED store /\ ses'[p].pc = "open"
        /\ ses'[p].op = ses[p].op /\ ses'[p].rows = ses[p].rows
    BY <1>15, <1>b DEF AbsorbDone, At
  <2>2. HeldInv(p)'
    BY <1>b, <2>1 DEF HeldInv, OpInv, At, AbsorbedRows, IsStaged, Live, store
  <2> QED
    BY <1>3, <2>1, <2>2 DEF At
<1>16. ASSUME NEW p \in Sessions, LoadEntries(p) PROVE Promised /\ HeldInv(p)'
  <2>1. /\ At(p, "entries") /\ UNCHANGED store
        /\ Return(p) \/ (ses'[p].pc = "root" /\ ses'[p].op = ses[p].op)
    BY <1>16, <1>b DEF LoadEntries, At, Session
  <2> QED
    BY <1>b, <1>3, <1>c, <2>1, CalmHeld DEF At, OpInv
<1>17. ASSUME NEW p \in Sessions, CurrentRoot(p) \/ GetTip(p) PROVE Promised /\ HeldInv(p)'
  <2>1. /\ At(p, "root") \/ At(p, "tip")
        /\ UNCHANGED store /\ ses'[p].pc \in {"tip", "append"} /\ ses'[p].op = ses[p].op
    BY <1>17, <1>b DEF CurrentRoot, GetTip, At, Session
  <2> QED
    BY <1>b, <1>3, <2>1, CalmHeld DEF At, OpInv
<1>18. ASSUME NEW p \in Sessions, AppendLedger(p) PROVE Promised /\ HeldInv(p)'
  <2> DEFINE S == ses[p].leaves \cap Files
             c == [ts |-> ses[p].ts, leaves |-> ses[p].leaves, fileCount |-> ses[p].fileCount]
  <2>1. /\ At(p, "append") /\ Return(p) /\ UNCHANGED <<staged, byHash>>
        /\ ledger' = Append(ledger, c)
    BY <1>18 DEF AppendLedger
  <2>2. S \in SUBSET Files /\ \A f \in S : Live(f)
    BY <1>b, <2>1 DEF SessionInv, RootInv
  <2>3. S \subseteq Held
    BY <2>2 DEF Held
  <2>4. Held' = Held
    BY <1>c, <2>1, HeldByOne, HeldByOneNext DEF At, Live, IsStaged
  <2>5. Committed' = Committed \cup S
    <3>1. /\ DOMAIN ledger' = DOMAIN ledger \cup {Len(ledger) + 1}
          /\ \A i \in DOMAIN ledger : ledger'[i] = ledger[i]
          /\ ledger'[Len(ledger) + 1] = c
      BY <2>1
    <3> QED
      BY <3>1 DEF Committed
  <2> QED
    BY <1>c, <2>1, <2>2, <2>3, <2>4, <2>5 DEF Promised, Anchors
<1>19. ASSUME NEW p \in Sessions, Die(p) PROVE Promised /\ HeldInv(p)'
  <2>1. Return(p) /\ ~At(p, "flush") /\ UNCHANGED store
    BY <1>19 DEF Die, store
  <2> QED
    BY <1>3, <1>c, <2>1 DEF At
<1>20. ASSUME UNCHANGED <<store, ses>> PROVE Promised /\ \A p \in Sessions : HeldInv(p)'
  BY <1>d, <1>20 DEF Kept, Held, Committed, Rewriting, At, Live, IsStaged, store, HeldInv,
     AbsorbedRows
<1>21. CASE Environment
  BY <1>a, <1>19, <1>20, <1>21 DEF Environment, Tick, Move
<1>22. CASE UNCHANGED vars
  BY <1>20, <1>22 DEF vars, store
<1>23. ASSUME NEW p \in Sessions, Run(p) PROVE Promised /\ HeldInv(p)'
  BY <1>1, <1>2, <1>4, <1>5, <1>6, <1>7, <1>11, <1>13, <1>14, <1>15, <1>16, <1>17, <1>18,
     <1>23, <1>27, <1>28 DEF Run
<1>24. ASSUME NEW p \in Sessions, Command(p) PROVE Promised /\ HeldInv(p)'
  BY <1>8, <1>9, <1>10, <1>12, <1>24, <1>26, PatternsAssumption DEF Command
<1> QED
  BY <1>a, <1>21, <1>22, <1>23, <1>24 DEF Next

LEMMA FullInvNext ==
    ASSUME OneSession, ~TornWrites PROVE FullInv /\ [Next]_vars => FullInv' /\ Promised
BY NextType, NextIInv, NextHeld DEF FullInv

----------------------------------------------------------------------------
\* KeepsPromise: add, rm and commit of one session, with the crashes between
\* their steps, implement the abstract archive, for any files and commits.
THEOREM ArchiveKeepsPromise ==
    ASSUME OneSession, ~TornWrites PROVE Spec => KeepsPromise
<1>1. Init => Promise!Init
  <2> SUFFICES ASSUME Init PROVE Held = {} /\ Committed = {}
    BY DEF Promise!Init
  <2>1. \A f \in Files : ~Live(f) /\ ~IsStaged(f)
    BY DEF Init, Live, IsStaged, NoEntry, NoRows, Hashes
  <2>2. Rewriting = {} /\ Committed = {}
    BY DEF Init, Rewriting, At, Idle, Committed
  <2> QED
    BY <2>1, <2>2 DEF Held
<1>2. Promised => [Promise!Next]_<<Held, Committed>>
  BY DEF Promised, Kept, Keeps, Forgets, Anchors, Promise!Next, Promise!Keep, Promise!Forget,
     Promise!Anchor
<1>3. FullInv /\ [Next]_vars => FullInv' /\ [Promise!Next]_<<Held, Committed>>
  BY <1>2, FullInvNext
<1> QED
  BY FullInvInit, <1>1, <1>3, PTL DEF Spec, KeepsPromise, Promise!Spec

\* NothingLostWithoutRm: no add, commit or tag of the session loses a file that
\* was staged or archived, wherever it is killed.
THEOREM NothingLost ==
    ASSUME OneSession, ~TornWrites PROVE Spec => NothingLostWithoutRm
<1>1. Promised => [\A f \in Held \ Held' :
                     \E p \in Sessions : ses[p].op = "rm" /\ f \in ses[p].wanted]_vars
  BY DEF Promised, Kept, Keeps, Forgets, Anchors
<1>2. FullInv /\ [Next]_vars =>
        FullInv' /\ [\A f \in Held \ Held' :
                       \E p \in Sessions : ses[p].op = "rm" /\ f \in ses[p].wanted]_vars
  BY <1>1, FullInvNext
<1> QED
  BY FullInvInit, <1>2, PTL DEF Spec, NothingLostWithoutRm
----------------------------------------------------------------------------
(* TagsKept: what commit writes is never an older copy of an entry.        *)

\* Between its first save_entry and the rewrite of staged.jsonl a commit has
\* files both staged and archived, and at no other time is there one.
Absorbing(p) == ses[p].op = "commit" /\ ses[p].pc \in {"absorb", "open", "flush"}
StagedApart == \A f \in Files : IsStaged(f) => ~Live(f)

\* What is left to absorb or to write back is not archived, and an update that
\* is not a `tag rm` writes the tag.
ApartInv(p) ==
    /\ \A f \in Files : ses[p].rows[f] # Never => ~Live(f)
    /\ ~Absorbing(p) => StagedApart
    /\ At(p, "save") => ses[p].op = "untag" \/ ses[p].entry.tagged

TagStep ==
    \A f \in Files :
         Live(f) /\ byHash[f].tagged /\ Live(f)' /\ ~byHash'[f].tagged
         => \E p \in Sessions : ses[p].op = "untag" /\ ses[p].arg = f

LEMMA InitApart == Init => \A p \in Sessions : ApartInv(p)
BY DEF Init, ApartInv, StagedApart, IsStaged, At, Idle, NoRows

\* A command that returns leaves no file both staged and archived.
LEMMA ReturnApart ==
    ASSUME TypeInv, NEW p \in Sessions, Return(p), StagedApart' PROVE ApartInv(p)'
<1>1. ses'[p] = Idle
  BY DEF Return, TypeInv, TypeOK
<1> QED
  BY <1>1 DEF ApartInv, At, Idle, NoRows

LEMMA NextApart ==
    ASSUME OneSession, ~Crashes, TypeInv, IInv, \A p \in Sessions : ApartInv(p),
           [Next]_vars
    PROVE  (\A p \in Sessions : ApartInv(p)') /\ TagStep
<1> DEFINE Goal == (\A p \in Sessions : ApartInv(p)') /\ TagStep
<1> SUFFICES Goal
  OBVIOUS
<1> USE DEF TypeInv, TypeOK
<1>a. ASSUME NEW p \in Sessions, ApartInv(p)', TagStep PROVE Goal
  BY <1>a DEF OneSession
<1>b. \A p \in Sessions : ApartInv(p) /\ SessionInv(p)
  BY DEF IInv
<1>c. ASSUME UNCHANGED byHash PROVE TagStep
  BY <1>c DEF TagStep, Live
<1>d. ASSUME NEW p \in Sessions, Return(p), UNCHANGED <<staged, byHash>>, ~Absorbing(p)
      PROVE  Goal
  <2>1. StagedApart'
    BY <1>b, <1>d DEF ApartInv, StagedApart, IsStaged, Live
  <2> QED
    BY <1>a, <1>c, <1>d, <2>1, ReturnApart
<1>e. StampInv
  BY DEF IInv
<1> HIDE DEF Goal
<1>1. ASSUME NEW p \in Sessions, OpenStaged(p) PROVE Goal
  <2>1. /\ ses'[p].pc = "flush" /\ UNCHANGED byHash /\ ses'[p].rows = ses[p].rows
        /\ staged' = NoRows
    BY <1>1 DEF OpenStaged, Session
  <2>2. ApartInv(p)'
    BY <1>b, <2>1 DEF ApartInv, StagedApart, IsStaged, Live, At, NoRows
  <2> QED
    BY <1>a, <1>c, <2>1, <2>2
<1>2. ASSUME NEW p \in Sessions, FlushStaged(p) PROVE Goal
  <2>1. staged' = ses[p].rows /\ UNCHANGED byHash
    BY <1>2 DEF FlushStaged
  <2>2. StagedApart'
    BY <1>b, <2>1 DEF ApartInv, StagedApart, IsStaged, Live
  <2>3. CASE ses[p].op # "add"
    <3>1. ses'[p].pc \in {"entries", "unstage"} /\ ses'[p].rows = NoRows
      BY <1>2, <2>3 DEF FlushStaged, Session
    <3>2. ApartInv(p)'
      BY <2>2, <3>1 DEF ApartInv, At, NoRows
    <3> QED
      BY <1>a, <1>c, <2>1, <3>2
  <2>4. CASE ses[p].op = "add"
    BY <1>2, <1>a, <1>c, <2>1, <2>2, <2>4, ReturnApart DEF FlushStaged
  <2> QED
    BY <2>3, <2>4
<1>3. ASSUME NEW p \in Sessions, NEW s, Begin(p, s), s.rows = NoRows,
             s.pc \notin {"absorb", "open", "flush"},
             s.pc # "save", UNCHANGED store
      PROVE  Goal
  <2>1. ses'[p] = s /\ ~Absorbing(p) /\ UNCHANGED <<byHash, staged>>
    BY <1>3 DEF Begin, Absorbing, At, store
  <2>2. ApartInv(p)'
    BY <1>3, <1>b, <2>1 DEF ApartInv, StagedApart, IsStaged, Live, At, NoRows
  <2> QED
    BY <1>a, <1>c, <2>1, <2>2
<1>4. ASSUME NEW p \in Sessions, NEW f \in Files, AddBegin(p, f) PROVE Goal
  <2> DEFINE s == [Idle EXCEPT !.op = "add", !.pc = "stage", !.arg = f]
  <2>1. s.rows = NoRows /\ s.pc = "stage"
    BY DEF Idle
  <2>2. Begin(p, s) /\ UNCHANGED store
    BY <1>4 DEF AddBegin, store
  <2> HIDE DEF s
  <2> QED
    BY <1>3, <2>1, <2>2
<1>5. ASSUME NEW p \in Sessions, StageEntry(p) PROVE Goal
  <2>1. /\ ses'[p].pc = "open" /\ ses'[p].rows = [staged EXCEPT ![ses[p].arg] = now]
        /\ ses'[p].op = ses[p].op /\ UNCHANGED <<staged, byHash>>
    BY <1>5 DEF StageEntry, Session, store
  <2>2. ~Absorbing(p) /\ ~Live(ses[p].arg) /\ StagedApart
    BY <1>5, <1>b DEF StageEntry, Absorbing, At, SessionInv, StageInv, ApartInv
  <2>3. ApartInv(p)'
    BY <2>1, <2>2 DEF ApartInv, StagedApart, IsStaged, Live, At
  <2> QED
    BY <1>a, <1>c, <2>1, <2>3
<1>6. ASSUME NEW p \in Sessions, NEW hs \in SUBSET Hashes, NEW regex \in BOOLEAN,
             RmBegin(p, hs, regex)
      PROVE  Goal
  <2> DEFINE s == [Idle EXCEPT !.op = "rm", !.pc = "stamp", !.regex = regex,
                      !.wanted = hs, !.todo = hs \cap StagedFiles]
  <2>1. s.rows = NoRows /\ s.pc = "stamp"
    BY DEF Idle
  <2>2. Begin(p, s) /\ UNCHANGED store
    BY <1>6 DEF RmBegin, store
  <2> HIDE DEF s
  <2> QED
    BY <1>3, <2>1, <2>2
<1>7. ASSUME NEW p \in Sessions, NEW f \in Files, UnstageEntry(p, f) PROVE Goal
  <2> DEFINE r == IF IsStaged(f) THEN [staged EXCEPT ![f] = Never] ELSE NoRows
  <2>1. ~Absorbing(p) /\ StagedApart /\ UNCHANGED <<staged, byHash>>
    BY <1>7, <1>b DEF UnstageEntry, Absorbing, At, ApartInv, store
  <2>2. ses'[p].pc \in {"open", "unstage"} /\ ses'[p].rows = r
    BY <1>7 DEF UnstageEntry, Session
  <2>3. \A g \in Files : r[g] # Never => IsStaged(g)
    BY DEF IsStaged, NoRows
  <2> HIDE DEF r
  <2>4. ApartInv(p)'
    BY <2>1, <2>2, <2>3 DEF ApartInv, StagedApart, IsStaged, Live, At
  <2> QED
    BY <1>a, <1>c, <2>1, <2>4
<1>8. ASSUME NEW p \in Sessions, NEW h \in Hashes, DeleteEntry(p, h) PROVE Goal
  <2>1. Tombstone \in Entry /\ Tombstone.repo = None /\ Tombstone.state = "deleted"
    BY DEF Tombstone, Entry
  <2>2. byHash'[h] = Tombstone /\ \A f \in Files : f # h => byHash'[f] = byHash[f]
    BY <1>8, <1>e, <2>1, SaveOthers DEF DeleteEntry
  <2>3. \A f \in Files : Live(f)' => Live(f) /\ byHash'[f] = byHash[f]
    BY <2>1, <2>2 DEF Live
  <2>4. ~Absorbing(p) /\ StagedApart /\ UNCHANGED staged
    BY <1>8, <1>b DEF DeleteEntry, Absorbing, At, ApartInv
  <2>5. StagedApart'
    BY <2>3, <2>4 DEF StagedApart, IsStaged
  <2>6. TagStep
    BY <2>3 DEF TagStep
  <2>7. CASE Return(p)
    BY <1>a, <2>5, <2>6, <2>7, ReturnApart
  <2>8. CASE ~Return(p)
    <3>1. ses'[p].pc = "tombstone" /\ ses'[p].rows = ses[p].rows
      BY <1>8, <2>8 DEF DeleteEntry, Session, At
    <3>2. ApartInv(p)'
      BY <1>b, <2>3, <2>5, <3>1 DEF ApartInv, At
    <3> QED
      BY <1>a, <2>6, <3>2
  <2> QED
    BY <2>7, <2>8
<1>9. ASSUME NEW p \in Sessions, NEW hs \in SUBSET Hashes, NEW op, TagBegin(p, hs, op)
      PROVE  Goal
  <2> DEFINE m == {h \in LiveHashes \cap hs : op = "untag" => byHash[h].tagged}
             s == [Idle EXCEPT !.op = op, !.pc = "load", !.todo = m]
  <2>1. Begin(p, s) /\ UNCHANGED store
    BY <1>9 DEF TagBegin, store
  <2> HIDE DEF m
  <2>2. s.rows = NoRows /\ s.pc = "load"
    BY DEF Idle
  <2> HIDE DEF s
  <2> QED
    BY <1>3, <2>1, <2>2
<1>24. ASSUME NEW p \in Sessions, NEW h \in Hashes, UpdateLoad(p, h) PROVE Goal
  <2>1. ~Absorbing(p) /\ StagedApart /\ UNCHANGED <<staged, byHash>>
    BY <1>24, <1>b DEF UpdateLoad, Absorbing, At, ApartInv, store
  <2>2. CASE Live(h)
    <3> DEFINE e == [byHash[h] EXCEPT !.tagged = (ses[p].op = "tag")]
    <3>1. /\ ses'[p].pc = "save" /\ ses'[p].rows = ses[p].rows
          /\ ses'[p].op = ses[p].op /\ ses'[p].entry = e
      BY <1>24, <2>2 DEF UpdateLoad, Session
    <3>2. ses[p].op \in {"tag", "untag"} /\ e.tagged = (ses[p].op = "tag")
      BY <1>24 DEF UpdateLoad, TodoInv, OpInv, At, Entry
    <3> HIDE DEF e
    <3>3. ApartInv(p)'
      BY <1>b, <2>1, <3>1, <3>2 DEF ApartInv, StagedApart, IsStaged, Live, At
    <3> QED
      BY <1>a, <1>c, <2>1, <3>3
  <2>3. CASE ~Live(h)
    BY <1>24, <1>d, <2>1, <2>3 DEF UpdateLoad
  <2> QED
    BY <2>2, <2>3
<1>10. ASSUME NEW p \in Sessions, UpdateSave(p) PROVE Goal
  <2> DEFINE h == ses[p].arg
             e == ses[p].entry
  <2>1. At(p, "save") /\ SaveEntry(h, e) /\ UNCHANGED staged
    BY <1>10 DEF UpdateSave
  <2>2. h \in Hashes /\ Live(h) /\ e \in Entry /\ e.repo = byHash[h].repo
    BY <1>b, <2>1 DEF SessionInv, SaveInv, Session
  <2>3. e.repo # None => h \in Commits
    BY <1>e, <2>2 DEF StampInv, Hashes
  <2>4. byHash'[h] = e /\ \A f \in Files : f # h => byHash'[f] = byHash[f]
    BY <1>e, <2>1, <2>2, <2>3, SaveOthers
  <2>5. ~Absorbing(p) /\ StagedApart /\ (ses[p].op = "untag" \/ e.tagged)
    BY <1>b, <2>1 DEF Absorbing, At, ApartInv
  <2> HIDE DEF e
  <2>6. \A f \in Files : Live(f)' => Live(f)
    BY <2>2, <2>4 DEF Live
  <2>7. TagStep
    BY <2>4, <2>5 DEF TagStep, Live
  <2>8. StagedApart'
    BY <2>1, <2>5, <2>6 DEF StagedApart, IsStaged
  <2>9. CASE Return(p)
    BY <1>a, <2>7, <2>8, <2>9, ReturnApart
  <2>10. CASE ~Return(p)
    <3>1. ses'[p].pc = "load" /\ ses'[p].rows = ses[p].rows
      BY <1>10, <2>10 DEF UpdateSave, Session
    <3>2. ApartInv(p)'
      BY <1>b, <2>6, <2>8, <3>1 DEF ApartInv, At
    <3> QED
      BY <1>a, <2>7, <3>2
  <2> QED
    BY <2>9, <2>10
<1>11. ASSUME NEW p \in Sessions, NEW n \in Repos, NEW c \in Commits, RepoAdd(p, n, c)
       PROVE  Goal
  <2>1. RepoEntry(n) \in Entry /\ c \in Hashes
    BY DEF RepoEntry, Entry, Hashes
  <2>2. \A f \in Files : byHash'[f] = byHash[f]
    BY <1>11, <1>e, <2>1, SaveOthers, HashesAssumption DEF RepoAdd
  <2>3. UNCHANGED <<staged, ses>>
    BY <1>11 DEF RepoAdd
  <2>4. ApartInv(p)'
    BY <1>b, <2>2, <2>3 DEF ApartInv, Absorbing, StagedApart, IsStaged, Live, At
  <2>5. TagStep
    BY <2>2 DEF TagStep
  <2> QED
    BY <1>a, <2>4, <2>5
<1>12. ASSUME NEW p \in Sessions, CommitBegin(p) PROVE Goal
  <2> DEFINE s == [Idle EXCEPT !.op = "commit",
                      !.pc = IF StagedFiles = {} THEN "entries" ELSE "absorb",
                      !.rows = staged, !.todo = StagedFiles]
  <2>1. /\ s.op = "commit" /\ s.rows = staged /\ s.pc \in {"entries", "absorb"}
    BY DEF Idle
  <2>2. ses'[p] = s /\ At(p, "idle") /\ UNCHANGED <<staged, byHash>>
    BY <1>12 DEF CommitBegin, Begin, store
  <2> HIDE DEF s
  <2>3. ~Absorbing(p) /\ StagedApart
    BY <1>b, <2>2 DEF Absorbing, At, ApartInv
  <2>4. ApartInv(p)'
    BY <2>1, <2>2, <2>3 DEF ApartInv, StagedApart, IsStaged, Live, At
  <2> QED
    BY <1>a, <1>c, <2>2, <2>4
<1>13. ASSUME NEW p \in Sessions, NEW f \in Files, AbsorbEntry(p, f) PROVE Goal
  <2> DEFINE e == FileEntry(ses[p].rows[f])
  <2>1. At(p, "absorb") /\ f \in ses[p].todo /\ SaveEntry(f, e) /\ UNCHANGED staged
    BY <1>13 DEF AbsorbEntry
  <2>2. ses[p].rows[f] \in Nat /\ ~Live(f) /\ ses[p].op = "commit"
    BY <1>b, <2>1 DEF TodoInv, OpInv, At, ApartInv, Session, Stamp
  <2>3. e \in Entry /\ e.repo = None /\ f \in Hashes
    BY <2>2 DEF FileEntry, Entry, Hashes
  <2>4. \A g \in Files : g # f => byHash'[g] = byHash[g]
    BY <1>e, <2>1, <2>3, SaveOthers
  <2>5. /\ ses'[p].pc = "absorb" /\ ses'[p].op = "commit"
        /\ ses'[p].rows = [ses[p].rows EXCEPT ![f] = Never]
    BY <1>13, <2>1, <2>2 DEF AbsorbEntry, Session, At
  <2>6. ApartInv(p)'
    <3>1. Absorbing(p)'
      BY <2>5 DEF Absorbing
    <3>2. \A g \in Files : ses'[p].rows[g] # Never => ~Live(g)'
      BY <1>b, <2>4, <2>5 DEF ApartInv, Live, Session
    <3> QED
      BY <2>5, <3>1, <3>2 DEF ApartInv, At
  <2>7. TagStep
    BY <2>2, <2>4 DEF TagStep
  <2> QED
    BY <1>a, <2>6, <2>7
<1>14. ASSUME NEW p \in Sessions, UNCHANGED <<staged, byHash>>,
              ses'[p].op = ses[p].op, ses'[p].rows = ses[p].rows,
              ses'[p].pc # "save", ses'[p].pc = "absorb" => At(p, "absorb"),
              Absorbing(p) => ses'[p].pc \in {"absorb", "open", "flush"}
       PROVE  Goal
  <2>1. ApartInv(p)'
    BY <1>14, <1>b DEF ApartInv, Absorbing, StagedApart, IsStaged, Live, At
  <2> QED
    BY <1>a, <1>c, <1>14, <2>1
<1>15. ASSUME NEW p \in Sessions, NEW f \in Files, SkipEntry(p, f) PROVE Goal
  <2>1. /\ ses'[p].op = ses[p].op /\ ses'[p].rows = ses[p].rows /\ ses'[p].pc = "absorb"
        /\ At(p, "absorb") /\ UNCHANGED <<staged, byHash>>
    BY <1>15 DEF SkipEntry, Session, At, store
  <2> QED
    BY <1>14, <2>1
<1>16. ASSUME NEW p \in Sessions, AbsorbDone(p) PROVE Goal
  <2>1. /\ ses'[p].op = ses[p].op /\ ses'[p].rows = ses[p].rows /\ ses'[p].pc = "open"
        /\ UNCHANGED <<staged, byHash>>
    BY <1>16 DEF AbsorbDone, Session, store
  <2> QED
    BY <1>14, <2>1
<1>17. ASSUME NEW p \in Sessions, LoadEntries(p) \/ CurrentRoot(p) \/ GetTip(p)
       PROVE  Goal
  <2>1. ~Absorbing(p) /\ UNCHANGED <<staged, byHash>>
    BY <1>17 DEF LoadEntries, CurrentRoot, GetTip, Absorbing, At, store
  <2>2. CASE Return(p)
    BY <1>d, <2>1, <2>2
  <2>3. CASE ~Return(p)
    <3>1. /\ ses'[p].op = ses[p].op /\ ses'[p].rows = ses[p].rows
          /\ ses'[p].pc \in {"root", "tip", "append"}
      BY <1>17, <2>3 DEF LoadEntries, CurrentRoot, GetTip, Session
    <3> QED
      BY <1>14, <2>1, <3>1
  <2> QED
    BY <2>2, <2>3
<1>25. ASSUME NEW p \in Sessions, RmStamp(p) \/ FindArchived(p) PROVE Goal
  <2>1. ~Absorbing(p) /\ UNCHANGED <<staged, byHash>>
    BY <1>25 DEF RmStamp, FindArchived, Absorbing, At, store
  <2>2. CASE Return(p)
    BY <1>d, <2>1, <2>2
  <2>3. CASE ~Return(p)
    <3>1. /\ ses'[p].op = ses[p].op /\ ses'[p].rows = ses[p].rows
          /\ ses'[p].pc \in {"unstage", "tombstone"}
      BY <1>25, <2>3 DEF RmStamp, FindArchived, Session
    <3> QED
      BY <1>14, <2>1, <3>1
  <2> QED
    BY <2>2, <2>3
<1>18. ASSUME NEW p \in Sessions, AppendLedger(p) PROVE Goal
  <2>1. ~Absorbing(p)
    BY <1>18 DEF AppendLedger, Absorbing, At
  <2> QED
    BY <1>18, <1>d, <2>1 DEF AppendLedger
<1>19. ASSUME UNCHANGED <<staged, byHash, ses>> PROVE Goal
  <2>1. \A p \in Sessions : ApartInv(p)'
    BY <1>19, <1>b DEF ApartInv, Absorbing, StagedApart, IsStaged, Live, At
  <2> QED
    BY <1>c, <1>19, <2>1 DEF Goal
<1>20. CASE UNCHANGED vars
  BY <1>19, <1>20 DEF vars
<1>21. ASSUME NEW p \in Sessions, Run(p) PROVE Goal
  BY <1>1, <1>2, <1>5, <1>7, <1>8, <1>10, <1>13, <1>15, <1>16, <1>17, <1>18, <1>21,
     <1>24, <1>25 DEF Run
<1>22. ASSUME NEW p \in Sessions, Command(p) PROVE Goal
  BY <1>4, <1>6, <1>9, <1>11, <1>12, <1>22, PatternsAssumption DEF Command
<1>23. CASE Environment
  <2>1. UNCHANGED <<staged, byHash, ses>>
    BY <1>23 DEF Environment, Tick, Move, Die, store
  <2> QED
    BY <1>19, <2>1
<1> QED
  BY <1>20, <1>21, <1>22, <1>23 DEF Next, Goal

\* TagsKept: while no command is cut short, no add, commit or other update of the
\* session writes a file's entry without the tag it has; `tag rm` alone does.
THEOREM TagsStay ==
    ASSUME OneSession, ~Crashes PROVE Spec => TagsKept
<1> DEFINE Apart == \A p \in Sessions : ApartInv(p)
<1>1. TypeInv /\ IInv /\ Apart /\ [Next]_vars => TypeInv' /\ IInv' /\ Apart' /\ TagStep
  BY NextType, NextIInv, NextApart
<1>2. Init => TypeInv /\ IInv /\ Apart
  BY InitType, InitIInv, InitApart
<1>3. TagStep => [\A f \in Files :
                    Live(f) /\ byHash[f].tagged /\ Live(f)' /\ ~byHash'[f].tagged
                    => \E p \in Sessions : ses[p].op = "untag" /\ ses[p].arg = f]_vars
  BY DEF TagStep
<1> HIDE DEF Apart
<1> QED
  BY <1>1, <1>2, <1>3, PTL DEF Spec, TagsKept
===============================================================================
