----------------------------- MODULE OttArchive -----------------------------
(***************************************************************************)
(* The .ott/ store of ott.py: the staging area (staged.jsonl), the         *)
(* append-only manifest (manifest.jsonl) and the ledger of commits         *)
(* (ledger.jsonl), and the commands that read and write them: add, rm,     *)
(* tag, repo add/update and commit.                                        *)
(*                                                                         *)
(* A session is one running ott process, either a CLI invocation or the    *)
(* interactive shell.  No command takes a lock: a command reads a file,    *)
(* computes, and writes later, and the actions below keep those steps      *)
(* apart.                                                                  *)
(*                                                                         *)
(* Abstractions.  A file is its digest, its last_path is a file on disk    *)
(* iff the digest is in `present`.  The manifest is kept as the result of  *)
(* load_manifest's fold over its lines (byHash, repoAt), so that appending *)
(* a line is one deterministic step.  A Merkle root is the set of leaves   *)
(* it is computed over.  The rows of staged.jsonl are a function from      *)
(* digests to their `added` stamps: each digest appears once.              *)
(***************************************************************************)
EXTENDS Integers, Sequences, FiniteSets

CONSTANTS
    Files,       \* digests of files (add / commit)
    Commits,     \* leaves of git commits (repo add / update)
    Repos,       \* names of git repositories
    Sessions,    \* running ott processes
    Patterns,    \* the sets of entries a regular expression may match
    None,        \* no repository, no hash
    Crashes,     \* may a command be cut short?
    TornWrites,  \* may it be cut short between truncating and writing a file?
    MaxTime,     \* bound on the clock
    MaxLedger    \* bound on the number of commits

Hashes == Files \cup Commits

ASSUME HashesAssumption ==
    /\ Files \cap Commits = {}
    /\ IsFiniteSet(Files) /\ IsFiniteSet(Commits)
ASSUME PatternsAssumption == Patterns \subseteq SUBSET Hashes
ASSUME NoneAssumption == None \notin Hashes \cup Repos
ASSUME FlagsAssumption == Crashes \in BOOLEAN /\ TornWrites \in BOOLEAN
ASSUME BoundsAssumption == MaxTime \in Nat /\ MaxLedger \in Nat

VARIABLES
    now,      \* time.gmtime() to the second; never runs backwards
    present,  \* the files that exist at their last_path
    staged,   \* rows of staged.jsonl: digest -> added, or Never
    byHash,   \* load_manifest's by_hash
    repoAt,   \* load_manifest's by_repo_name
    ledger,   \* rows of ledger.jsonl
    ses       \* the command each session is running, and its local variables

vars == <<now, present, staged, byHash, repoAt, ledger, ses>>
store == <<staged, byHash, repoAt, ledger>>

----------------------------------------------------------------------------
(* Data.                                                                   *)

Never == -1
Stamp == Nat \cup {Never}

Entry == [state : {"absent", "live", "deleted"}, repo : Repos \cup {None},
          added : Nat, tagged : BOOLEAN]
NoEntry == [state |-> "absent", repo |-> None, added |-> 0, tagged |-> FALSE]
Tombstone == [state |-> "deleted", repo |-> None, added |-> 0, tagged |-> FALSE]
FileEntry(added) ==
    [state |-> "live", repo |-> None, added |-> added, tagged |-> FALSE]
RepoEntry(name) ==
    [state |-> "live", repo |-> name, added |-> now, tagged |-> FALSE]

Commitment == [ts : Nat, leaves : SUBSET Hashes, fileCount : Nat]

Ops == {"none", "add", "rm", "tag", "untag", "commit"}
Steps == {"idle", "stage", "stamp", "unstage", "open", "flush", "tombstone",
          "load", "save", "absorb", "entries", "root", "tip", "append"}
Session == [op : Ops, pc : Steps, arg : Hashes \cup {None}, regex : BOOLEAN,
            wanted : SUBSET Hashes, rows : [Files -> Stamp],
            todo : SUBSET Hashes, entry : Entry,
            fileCount : Nat, leaves : SUBSET Hashes, ts : Stamp]
NoRows == [f \in Files |-> Never]
Idle == [op |-> "none", pc |-> "idle", arg |-> None, regex |-> FALSE,
         wanted |-> {}, rows |-> NoRows, todo |-> {}, entry |-> NoEntry,
         fileCount |-> 0, leaves |-> {}, ts |-> 0]

----------------------------------------------------------------------------
(* What the store's readers return.                                        *)

Live(h) == byHash[h].state = "live"
LiveHashes == {h \in Hashes : Live(h)}
IsStaged(f) == staged[f] # Never
StagedFiles == {f \in Files : IsStaged(f)}

\* Mutant: the oldest commit is taken for the latest one.
LastCommitTs_First == IF ledger = <<>> THEN Never ELSE ledger[1].ts

LastCommitTs == IF ledger = <<>> THEN Never ELSE ledger[Len(ledger)].ts
\* Mutant: an entry added in the very second of the last commit passes.
NeverCommitted_SameSecond(e, ts) == ts = Never \/ e.added >= ts

NeverCommitted(e, ts) == ts = Never \/ e.added > ts

\* Mutant: a repository's previous entry is not evicted.
SaveEntry_NoEviction(h, e) ==
    /\ byHash' = [byHash EXCEPT ![h] = e]
    /\ repoAt' = [r \in Repos |-> IF r = e.repo THEN h ELSE repoAt[r]]

\* save_entry appends one line; this is what it changes in load_manifest's fold
SaveEntry(h, e) ==
    LET superseded == IF e.repo # None THEN {repoAt[e.repo]} \ {h} ELSE {}
    IN  /\ byHash' = [k \in Hashes |->
                        IF k = h THEN e
                        ELSE IF k \in superseded THEN NoEntry ELSE byHash[k]]
        /\ repoAt' = [r \in Repos |-> IF r = e.repo THEN h ELSE repoAt[r]]

----------------------------------------------------------------------------
Init ==
    /\ now = 0
    /\ present \in SUBSET Files
    /\ staged = NoRows
    /\ byHash = [h \in Hashes |-> NoEntry]
    /\ repoAt = [r \in Repos |-> None]
    /\ ledger = <<>>
    /\ ses = [p \in Sessions |-> Idle]

At(p, step) == ses[p].pc = step
Return(p) == ses' = [ses EXCEPT ![p] = Idle]
Begin(p, s) == At(p, "idle") /\ ses' = [ses EXCEPT ![p] = s]

----------------------------------------------------------------------------
(* Rewriting staged.jsonl: open(path, 'w') truncates, the rows reach the   *)
(* file when it is closed.                                                 *)

OpenStaged(p) ==
    /\ At(p, "open")
    /\ staged' = NoRows
    /\ ses' = [ses EXCEPT ![p].pc = "flush"]
    /\ UNCHANGED <<now, present, byHash, repoAt, ledger>>

\* Mutant: the commit ends with the archiving, before anything is committed.
FlushStaged_NoCommit(p) ==
    /\ At(p, "flush")
    /\ staged' = ses[p].rows
    /\ Return(p)
    /\ UNCHANGED <<now, present, byHash, repoAt, ledger>>

FlushStaged(p) ==
    /\ At(p, "flush")
    /\ staged' = ses[p].rows
    /\ IF ses[p].op = "add"
       THEN Return(p)
       ELSE ses' = [ses EXCEPT ![p].rows = NoRows,
                               ![p].pc = IF ses[p].op = "commit" THEN "entries"
                                                                 ELSE "unstage"]
    /\ UNCHANGED <<now, present, byHash, repoAt, ledger>>

----------------------------------------------------------------------------
(* ott add: look the digest up in the manifest and the staging area, then  *)
(* stamp the entry and stage it.                                           *)

\* Mutant: only the staging area is searched for duplicates.
AddBegin_StagedOnly(p, f) ==
    /\ f \in present /\ ~IsStaged(f)
    /\ Begin(p, [Idle EXCEPT !.op = "add", !.pc = "stage", !.arg = f])
    /\ UNCHANGED <<now, present, store>>

AddBegin(p, f) ==
    /\ f \in present /\ ~Live(f) /\ ~IsStaged(f)
    /\ Begin(p, [Idle EXCEPT !.op = "add", !.pc = "stage", !.arg = f])
    /\ UNCHANGED <<now, present, store>>

StageEntry(p) ==
    /\ At(p, "stage")
    /\ ses' = [ses EXCEPT ![p].pc = "open",
                          ![p].rows = [staged EXCEPT ![ses[p].arg] = now]]
    /\ UNCHANGED <<now, present, store>>

----------------------------------------------------------------------------
(* ott rm, of one name or of all a regular expression matches: staged      *)
(* entries are unstaged, and archived ones are tombstoned if they were     *)
(* added after the last commit.  The staging area, the last commit's stamp *)
(* and the manifest are read one after the other.                          *)

RmBegin(p, hs, regex) ==
    /\ Begin(p, [Idle EXCEPT !.op = "rm", !.pc = "stamp", !.regex = regex,
                    !.wanted = hs, !.todo = hs \cap StagedFiles])
    /\ UNCHANGED <<now, present, store>>

RmStamp(p) ==
    /\ At(p, "stamp")
    /\ ses' = [ses EXCEPT ![p].pc = "unstage", ![p].ts = LastCommitTs]
    /\ UNCHANGED <<now, present, store>>

UnstageEntry(p, f) ==
    /\ At(p, "unstage") /\ f \in ses[p].todo
    /\ ses' = [ses EXCEPT ![p].arg = f, ![p].todo = @ \ {f},
                          ![p].pc = IF IsStaged(f) THEN "open" ELSE "unstage",
                          ![p].rows = IF IsStaged(f)
                                      THEN [staged EXCEPT ![f] = Never]
                                      ELSE NoRows]
    /\ UNCHANGED <<now, present, store>>

Removable(p) ==
    {h \in LiveHashes \cap ses[p].wanted : NeverCommitted(byHash[h], ses[p].ts)}

\* a single name found in the staging area is not looked for in the manifest
FindArchived(p) ==
    /\ At(p, "unstage") /\ ses[p].todo = {}
    /\ IF (ses[p].arg # None /\ ~ses[p].regex) \/ Removable(p) = {}
       THEN Return(p)
       ELSE ses' = [ses EXCEPT ![p].pc = "tombstone", ![p].todo = Removable(p)]
    /\ UNCHANGED <<now, present, store>>

DeleteEntry(p, h) ==
    /\ At(p, "tombstone") /\ h \in ses[p].todo
    /\ SaveEntry(h, Tombstone)
    /\ IF ses[p].todo = {h}
       THEN Return(p)
       ELSE ses' = [ses EXCEPT ![p].todo = @ \ {h}]
    /\ UNCHANGED <<now, present, staged, ledger>>

----------------------------------------------------------------------------
(* ott tag add / tag rm: the manifest is loaded to find the matches, and   *)
(* update_entry loads it again for each of them, changes a field and       *)
(* appends the whole entry.                                                *)

TagBegin(p, hs, op) ==
    LET matched == {h \in LiveHashes \cap hs : op = "untag" => byHash[h].tagged}
    IN  /\ op \in {"tag", "untag"} /\ matched # {}
        /\ Begin(p, [Idle EXCEPT !.op = op, !.pc = "load", !.todo = matched])
        /\ UNCHANGED <<now, present, store>>

\* "Entry not found" ends the whole command
UpdateLoad(p, h) ==
    /\ At(p, "load") /\ h \in ses[p].todo
    /\ IF Live(h)
       THEN ses' = [ses EXCEPT
                      ![p].pc = "save", ![p].arg = h, ![p].todo = @ \ {h},
                      ![p].entry = [byHash[h] EXCEPT !.tagged = (ses[p].op = "tag")]]
       ELSE Return(p)
    /\ UNCHANGED <<now, present, store>>

UpdateSave(p) ==
    /\ At(p, "save")
    /\ SaveEntry(ses[p].arg, ses[p].entry)
    /\ IF ses[p].todo = {} THEN Return(p) ELSE ses' = [ses EXCEPT ![p].pc = "load"]
    /\ UNCHANGED <<now, present, staged, ledger>>

----------------------------------------------------------------------------
(* ott repo add / repo update: n is now at commit c.                       *)

RepoAdd(p, n, c) ==
    /\ At(p, "idle")
    /\ ~(Live(c) /\ byHash[c].repo = n)
    /\ SaveEntry(c, RepoEntry(n))
    /\ UNCHANGED <<now, present, staged, ledger, ses>>

----------------------------------------------------------------------------
(* ott commit / ott sync.                                                  *)

Committing == {p \in Sessions : ses[p].op = "commit"}

\* Mutant: the staging area is cleared when the commit starts, not at its end.
CommitBegin_ClearsFirst(p) ==
    /\ Len(ledger) + Cardinality(Committing) < MaxLedger
    /\ Begin(p, [Idle EXCEPT !.op = "commit",
                    !.pc = IF StagedFiles = {} THEN "entries" ELSE "absorb",
                    !.rows = staged, !.todo = StagedFiles])
    /\ staged' = NoRows
    /\ UNCHANGED <<now, present, byHash, repoAt, ledger>>

CommitBegin(p) ==
    /\ Len(ledger) + Cardinality(Committing) < MaxLedger
    /\ Begin(p, [Idle EXCEPT !.op = "commit",
                    !.pc = IF StagedFiles = {} THEN "entries" ELSE "absorb",
                    !.rows = staged, !.todo = StagedFiles])
    /\ UNCHANGED <<now, present, store>>

\* Mutant: the row is dropped before its entry is built from it.
AbsorbEntry_RowDropped(p, f) ==
    /\ At(p, "absorb") /\ f \in ses[p].todo /\ f \in present
    /\ SaveEntry(f, FileEntry(Never))
    /\ ses' = [ses EXCEPT ![p].todo = @ \ {f}, ![p].rows[f] = Never]
    /\ UNCHANGED <<now, present, staged, ledger>>

\* one turn of _absorb_staged's loop whose source is on disk: put_object,
\* whose OSError is only reported, then save_entry
AbsorbEntry(p, f) ==
    /\ At(p, "absorb") /\ f \in ses[p].todo /\ f \in present
    /\ SaveEntry(f, FileEntry(ses[p].rows[f]))
    /\ ses' = [ses EXCEPT ![p].todo = @ \ {f}, ![p].rows[f] = Never]
    /\ UNCHANGED <<now, present, staged, ledger>>

\* and one whose source is gone: the row stays among the remaining ones
SkipEntry(p, f) ==
    /\ At(p, "absorb") /\ f \in ses[p].todo /\ f \notin present
    /\ ses' = [ses EXCEPT ![p].todo = @ \ {f}]
    /\ UNCHANGED <<now, present, store>>

AbsorbDone(p) ==
    /\ At(p, "absorb") /\ ses[p].todo = {}
    /\ ses' = [ses EXCEPT ![p].pc = "open"]
    /\ UNCHANGED <<now, present, store>>

LoadEntries(p) ==
    /\ At(p, "entries")
    /\ IF LiveHashes = {}
       THEN Return(p)
       ELSE ses' = [ses EXCEPT ![p].pc = "root",
                               ![p].fileCount = Cardinality(LiveHashes)]
    /\ UNCHANGED <<now, present, store>>

\* Mutant: the root is computed over tombstoned entries too.
CurrentRoot_WithDeleted(p) ==
    /\ At(p, "root")
    /\ ses' = [ses EXCEPT ![p].pc = "tip",
                          ![p].leaves = {h \in Hashes : byHash[h].state # "absent"}]
    /\ UNCHANGED <<now, present, store>>

CurrentRoot(p) ==
    /\ At(p, "root")
    /\ ses' = [ses EXCEPT ![p].pc = "tip", ![p].leaves = LiveHashes]
    /\ UNCHANGED <<now, present, store>>

\* get_tip answers, or fails and a synthetic block stands in; either way the
\* commit goes on and takes its time stamp
GetTip(p) ==
    /\ At(p, "tip")
    /\ ses' = [ses EXCEPT ![p].pc = "append", ![p].ts = now]
    /\ UNCHANGED <<now, present, store>>

AppendLedger(p) ==
    /\ At(p, "append")
    /\ ledger' = Append(ledger, [ts |-> ses[p].ts, leaves |-> ses[p].leaves,
                                 fileCount |-> ses[p].fileCount])
    /\ Return(p)
    /\ UNCHANGED <<now, present, staged, byHash, repoAt>>

----------------------------------------------------------------------------
(* The environment.                                                        *)

Tick ==
    /\ now < MaxTime
    /\ now' = now + 1
    /\ UNCHANGED <<present, store, ses>>

\* a file leaves its last_path, or comes back
Move(f) ==
    /\ present' = IF f \in present THEN present \ {f} ELSE present \cup {f}
    /\ UNCHANGED <<now, store, ses>>

\* The command stops here: the process is killed, or put_object raises
\* something _absorb_staged does not catch (OttError, a boto3 ClientError).
Die(p) ==
    /\ Crashes /\ ~At(p, "idle")
    /\ IF At(p, "flush")
       THEN /\ TornWrites
            /\ \E written \in SUBSET Files :
                 staged' = [f \in Files |->
                              IF f \in written THEN ses[p].rows[f] ELSE Never]
       ELSE staged' = staged
    /\ Return(p)
    /\ UNCHANGED <<now, present, byHash, repoAt, ledger>>

----------------------------------------------------------------------------
\* a command, once begun, runs by itself
Run(p) ==
    \/ OpenStaged(p) \/ FlushStaged(p)
    \/ StageEntry(p)
    \/ RmStamp(p) \/ FindArchived(p)
    \/ \E h \in Hashes : DeleteEntry(p, h) \/ UpdateLoad(p, h)
    \/ UpdateSave(p)
    \/ \E f \in Files : UnstageEntry(p, f) \/ AbsorbEntry(p, f) \/ SkipEntry(p, f)
    \/ AbsorbDone(p) \/ LoadEntries(p) \/ CurrentRoot(p) \/ GetTip(p)
    \/ AppendLedger(p)

\* what the user types
Command(p) ==
    \/ \E f \in Files : AddBegin(p, f)
    \/ \E h \in Hashes : RmBegin(p, {h}, FALSE)
    \/ \E hs \in Patterns : RmBegin(p, hs, TRUE)
    \/ \E hs \in Patterns, op \in {"tag", "untag"} : TagBegin(p, hs, op)
    \/ \E n \in Repos, c \in Commits : RepoAdd(p, n, c)
    \/ CommitBegin(p)

Environment == Tick \/ (\E f \in Files : Move(f)) \/ (\E p \in Sessions : Die(p))

Next == (\E p \in Sessions : Run(p) \/ Command(p)) \/ Environment

Spec == Init /\ [][Next]_vars

\* A running command is scheduled; nothing obliges the user, the clock or the
\* files to move.
FairSpec == Spec /\ \A p \in Sessions : WF_vars(Run(p))

----------------------------------------------------------------------------
(* Properties.                                                             *)

\* Every variable and every local of a session keeps its type; in particular
\* an entry that reaches the manifest carries a real `added` stamp.
TypeOK ==
    /\ now \in Nat
    /\ present \in SUBSET Files
    /\ staged \in [Files -> Stamp]
    /\ byHash \in [Hashes -> Entry]
    /\ repoAt \in [Repos -> Hashes \cup {None}]
    /\ ledger \in Seq(Commitment)
    /\ ses \in [Sessions -> Session]

\* "once committed, entries are permanent, by design" (delete_entry): a file
\* that is a leaf of any committed root is still in the manifest.
CommittedFilesPermanent ==
    \A i \in DOMAIN ledger : \A f \in ledger[i].leaves \cap Files : Live(f)

\* _never_committed compares an entry's stamp with the last commit's alone:
\* when it answers True for a file, no commit at all covers the file.
NeverCommittedFile ==
    \A f \in Files, i \in DOMAIN ledger :
        Live(f) /\ NeverCommitted(byHash[f], LastCommitTs) => f \notin ledger[i].leaves

\* "Ledger entries are chronological (append-only)" (_never_committed).  It takes
\* one session: the stamp and the row of a commit are two steps.
LedgerChronological ==
    \A i, j \in DOMAIN ledger : i < j => ledger[i].ts <= ledger[j].ts

\* The file_count of a commit, loaded apart from its root, counts the leaves
\* of that root (ott log prints the difference of two file_counts).
FileCountMatchesRoot ==
    \A i \in DOMAIN ledger : ledger[i].fileCount = Cardinality(ledger[i].leaves)

\* "a repo's identity is its name, not its commit hash" (load_manifest): two
\* live entries never carry the same repository name.
OneEntryPerRepo ==
    \A c, d \in Hashes :
        /\ Live(c) /\ Live(d)
        /\ byHash[c].repo = byHash[d].repo /\ byHash[c].repo # None
        => c = d

\* What a user who only adds, commits and tags can count on finding again.
Rewriting == {p \in Sessions : At(p, "flush")}
Held == {f \in Files : \/ Live(f) \/ IsStaged(f)
                       \/ \E p \in Rewriting : ses[p].rows[f] # Never}

\* "so nothing gets lost without an explicit `rm`" (_absorb_staged): a file
\* once staged stays staged or archived until someone runs rm on it.
NothingLostWithoutRm ==
    [][\A f \in Held \ Held' :
         \E p \in Sessions : ses[p].op = "rm" /\ f \in ses[p].wanted]_vars

\* "Add (or replace, if already staged) one entry in the staging area"
\* (stage_entry): no step of an add takes another entry out.  Two sessions break
\* this.
AddDropsNothing ==
    [][(\E p \in Sessions : ses[p].op = "add" /\ ses'[p] # ses[p])
       => Held \subseteq Held']_vars

\* A tag disappears from a file's live entry by `tag rm` on that file alone:
\* no commit, add or other update writes an older copy of the entry back.
TagsKept ==
    [][\A f \in Files :
         Live(f) /\ byHash[f].tagged /\ Live(f)' /\ ~byHash'[f].tagged
         => \E p \in Sessions : ses[p].op = "untag" /\ ses[p].arg = f]_vars

\* Every file a commit sets out to absorb ends up a leaf of a committed root,
\* or is still staged when that commit is over (its source was gone).
CommitLands ==
    \A p \in Sessions, f \in Files :
        (At(p, "absorb") /\ f \in ses[p].todo)
        ~> \/ \E i \in DOMAIN ledger : f \in ledger[i].leaves
           \/ At(p, "idle") /\ IsStaged(f)

\* A file once committed.
Committed == {f \in Files : \E i \in DOMAIN ledger : f \in ledger[i].leaves}

\* One session's add, rm and commit, with their crashes, are the steps of the
\* abstract archive: nothing else makes a file held, forgotten or anchored.
Promise == INSTANCE OttPromise WITH held <- Held, anchored <- Committed
KeepsPromise == Promise!Spec
=============================================================================
