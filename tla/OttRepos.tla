------------------------------ MODULE OttRepos ------------------------------
(***************************************************************************)
(* The git repositories in ott's archive: repo add, update, outdated,      *)
(* update-all, verify, tag and verify-tag, with the commands on any entry  *)
(* that touch them: find, mv, rm and commit.                               *)
(*                                                                         *)
(* A repository's entry is keyed by (a hash of) its commit, found by its   *)
(* name, and says where its checkout was.  A checkout's HEAD moves freely. *)
(* The clones of one history share its tags, which ott alone makes, all    *)
(* with one key.  Files, which OttArchive has, are left out; so is what    *)
(* repo verify and outdated print beside the comparison with HEAD.         *)
(***************************************************************************)
EXTENDS Integers, Sequences, FiniteSets

CONSTANTS
    Histories,  \* of git repositories; each is named after one
    Paths,      \* where checkouts may be: records of dir and name
    Commits,    \* records of history and n
    Tags,
    None,       \* no commit, no tag, nothing
    MaxTime,    \* bound on the clock
    MaxLedger   \* bound on the commits to the chain

ASSUME PathsAssumption == \A p \in Paths : p.name \in Histories
ASSUME CommitsAssumption == \A c \in Commits : c.history \in Histories
ASSUME NoneAssumption == None \notin Commits \cup Tags

VARIABLES
    now,      \* time.gmtime() to the second
    head,     \* HEAD of the checkout at each path, or None
    tags,     \* the commit each signed tag of a history is on, or None
    byHash,   \* load_manifest's by_hash
    repoAt,   \* load_manifest's by_repo_name
    ledger,   \* rows of ledger.jsonl: stamp and leaves
    job,      \* the command under way: update-all or tag
    left,     \* committed leaves that an entry's repository has moved on from
    renamed   \* names that mv has taken from an entry, or given to one

repoVars == <<now, head, tags, byHash, repoAt, ledger, job, left, renamed>>
manifest == <<byHash, repoAt, left>>

----------------------------------------------------------------------------
(* The store.                                                              *)

NoEntry == [state |-> "none", name |-> None, path |-> None, tag |-> None, added |-> 0]
NoJob == [todo |-> {}, commit |-> None, tag |-> None]

RepoInit ==
    /\ now = 0
    /\ head = [p \in Paths |-> None]
    /\ tags = [h \in Histories |-> [t \in Tags |-> None]]
    /\ byHash = [c \in Commits |-> NoEntry]
    /\ repoAt = [r \in Histories |-> None]
    /\ ledger = <<>>
    /\ job = NoJob
    /\ left = {}
    /\ renamed = {}

Live == {c \in Commits : byHash[c].state = "live"}

\* c is a leaf of a commit to the chain
Anchored(c) == \E i \in DOMAIN ledger : c \in ledger[i].leaves

\* Mutant: the commit its name was last seen with is evicted, were it this one.
SaveEntry_OwnEvicted(c, e) ==
    LET old == {repoAt[e.name]} \ {None}
    IN  /\ byHash' = [d \in Commits |-> IF d \in old THEN NoEntry
                                        ELSE IF d = c THEN e ELSE byHash[d]]
        /\ repoAt' = [repoAt EXCEPT ![e.name] = c]
        /\ left' = left \cup {d \in old : Anchored(d)}

\* save_entry, and what load_manifest makes of the new line: the commit its
\* name was last seen with is evicted
SaveEntry(c, e) ==
    LET old == {repoAt[e.name]} \ {c, None}
    IN  /\ byHash' = [d \in Commits |-> IF d = c THEN e
                                        ELSE IF d \in old THEN NoEntry ELSE byHash[d]]
        /\ repoAt' = [repoAt EXCEPT ![e.name] = c]
        /\ left' = left \cup {d \in old : Anchored(d)}

LastCommitTs == IF ledger = <<>> THEN -1 ELSE ledger[Len(ledger)].ts

\* Mutant: an entry added in the very second of the last commit counts as new.
NeverCommitted_SameSecond(c) == byHash[c].added >= LastCommitTs

NeverCommitted(c) == byHash[c].added > LastCommitTs

\* the entries a command finds by the path, or the name, it is given
Resolve(p) == {c \in Live : byHash[c].name = p.name \/ byHash[c].path = p}

----------------------------------------------------------------------------
(* repo add, update, update-all.                                           *)

RepoEntry(p) ==
    [state |-> "live", name |-> p.name, path |-> p, added |-> now, tag |-> None]

\* cmd_repo_add of the checkout at p, at commit c
AddAt(p, c) ==
    IF c \in Live /\ byHash[c].name = p.name THEN UNCHANGED manifest
    ELSE SaveEntry(c, RepoEntry(p))

\* at HEAD, or at --commit
RepoAdd(p, c) ==
    /\ job = NoJob /\ head[p] # None /\ c.history = head[p].history
    /\ AddAt(p, c)
    /\ UNCHANGED <<now, head, tags, ledger, job, renamed>>

\* repo update: the entry's own path is added again
RepoUpdate(p) ==
    /\ job = NoJob
    /\ \E c \in Resolve(p) : LET q == byHash[c].path
                             IN  head[q] # None /\ AddAt(q, head[q])
    /\ UNCHANGED <<now, head, tags, ledger, job, renamed>>

Checkout(c) == head[byHash[c].path]

\* Mutant: repositories that have a tag are taken to be up to date.
Outdated_Untagged ==
    {c \in Live : Checkout(c) \notin {None, c} /\ byHash[c].tag = None}

Outdated == {c \in Live : Checkout(c) \notin {None, c}}

UpdateAllBegin ==
    /\ job = NoJob /\ Outdated # {}
    /\ job' = [NoJob EXCEPT !.todo = {byHash[c].path : c \in Outdated}]
    /\ UNCHANGED <<now, head, tags, manifest, ledger, renamed>>

UpdateNext(p) ==
    /\ p \in job.todo
    /\ AddAt(p, head[p])
    /\ job' = [job EXCEPT !.todo = @ \ {p}]
    /\ UNCHANGED <<now, head, tags, ledger, renamed>>

----------------------------------------------------------------------------
(* repo tag: sign HEAD of the checkout named, whatever commit it is at,    *)
(* then record the tag on the entry.                                       *)

SignTag(p, t) ==
    /\ job = NoJob /\ head[p] # None
    /\ tags[head[p].history][t] = None        \* git refuses to make it twice
    /\ \E c \in Resolve(p) : job' = [NoJob EXCEPT !.commit = c, !.tag = t]
    /\ tags' = [tags EXCEPT ![head[p].history][t] = head[p]]
    /\ UNCHANGED <<now, head, manifest, ledger, renamed>>

RecordTag ==
    /\ job.tag # None
    /\ SaveEntry(job.commit, [byHash[job.commit] EXCEPT !.tag = job.tag])
    /\ job' = NoJob
    /\ UNCHANGED <<now, head, tags, ledger, renamed>>

\* verify-tag, of the entry's tag, at the checkout named: the signature is good
TagVerified(p, c) ==
    /\ c \in Resolve(p) /\ byHash[c].tag # None
    /\ head[p] # None /\ tags[head[p].history][byHash[c].tag] # None

----------------------------------------------------------------------------
(* find, mv, rm, commit.                                                   *)

\* any checkout of the entry's basename is taken for the entry's
Find(c) ==
    /\ job = NoJob /\ c \in Live
    /\ \E p \in Paths :
         /\ head[p] # None /\ p.name = byHash[c].name
         /\ SaveEntry(c, [byHash[c] EXCEPT !.path = p])
    /\ UNCHANGED <<now, head, tags, ledger, job, renamed>>

\* an entry that is moved into a directory keeps its name
Mv(c, p) ==
    /\ job = NoJob /\ c \in Live
    /\ p.name = byHash[c].name \/ head[p] = None
    /\ SaveEntry(c, [byHash[c] EXCEPT !.path = p, !.name = p.name])
    /\ renamed' = IF p.name = byHash[c].name THEN renamed
                  ELSE renamed \cup {byHash[c].name, p.name}
    /\ UNCHANGED <<now, head, tags, ledger, job>>

Rm(c) ==
    /\ job = NoJob /\ c \in Live /\ NeverCommitted(c)
    /\ byHash' = [byHash EXCEPT ![c] = [NoEntry EXCEPT !.state = "deleted"]]
    /\ UNCHANGED <<now, head, tags, repoAt, ledger, job, left, renamed>>

Commit ==
    /\ job = NoJob /\ Live # {} /\ Len(ledger) < MaxLedger
    /\ ledger' = Append(ledger, [ts |-> now, leaves |-> Live])
    /\ UNCHANGED <<now, head, tags, manifest, job, renamed>>

----------------------------------------------------------------------------
(* The environment.                                                        *)

\* a checkout is made, removed, or its HEAD moves; not during an update-all
MoveHead(p, c) ==
    /\ job.todo = {} /\ c # head[p]
    /\ c # None => c.history = IF head[p] = None THEN p.name ELSE head[p].history
    /\ head' = [head EXCEPT ![p] = c]
    /\ UNCHANGED <<now, tags, manifest, ledger, job, renamed>>

Tick ==
    /\ now < MaxTime
    /\ now' = now + 1
    /\ UNCHANGED <<head, tags, manifest, ledger, job, renamed>>

\* the command under way is killed
Die ==
    /\ job # NoJob
    /\ job' = NoJob
    /\ UNCHANGED <<now, head, tags, manifest, ledger, renamed>>

RepoNext ==
    \/ \E p \in Paths :
         \/ \E c \in Commits : RepoAdd(p, c) \/ Mv(c, p)
         \/ \E c \in Commits \cup {None} : MoveHead(p, c)
         \/ \E t \in Tags : SignTag(p, t)
         \/ RepoUpdate(p) \/ UpdateNext(p)
    \/ \E c \in Commits : Find(c) \/ Rm(c)
    \/ UpdateAllBegin \/ RecordTag \/ Commit \/ Tick \/ Die

RepoSpec == RepoInit /\ [][RepoNext]_repoVars

----------------------------------------------------------------------------
(* Properties.                                                             *)

\* A repository leaves the archive by rm alone, however it is updated, found
\* elsewhere, moved or tagged and whatever becomes of the others: what evicts its
\* entry is a later one of its own.  A name that mv took or gave is excepted.
InArchive(h) == \E c \in Live : c.history = h
RepoKeptUntilRm ==
    [][\A h \in Histories \ renamed' : InArchive(h) /\ ~InArchive(h)'
         => \E c \in Commits : c.history = h /\ Rm(c)]_repoVars

\* rm never takes the entry of a committed leaf, unless the repository had moved
\* on to another commit and has come back since, with a fresh stamp, or mv has
\* renamed it, after which adding it again stamps it afresh.
CommittedRepoKept ==
    \A c \in Live, i \in DOMAIN ledger :
        NeverCommitted(c) /\ c \in ledger[i].leaves
            => c \in left \/ c.history \in renamed

\* "once committed, entries are permanent, by design" (delete_entry): whatever its
\* repository went through, rm does not take an entry that a commit covers.  One that
\* comes back to a committed commit breaks this.
CommittedPermanent ==
    \A c \in Live, i \in DOMAIN ledger : NeverCommitted(c) => c \notin ledger[i].leaves

\* "a repo's identity is its name, not its commit hash, so re-adding at a new commit
\* replaces" (load_manifest): what is evicted has been replaced by its own name.  The
\* code breaks this after an mv to another name.
ReplacedByName ==
    [][\A c \in Live \ Live' :
         Rm(c) \/ \E d \in Live' : byHash'[d].name = byHash[c].name]_repoVars

\* "git tag ... -> commit ..." (cmd_repo_verify_tag's full chain): a tag that
\* verifies is on the entry's own commit.  The code breaks this: HEAD is signed.
SignedChain ==
    \A p \in Paths, c \in Live :
        TagVerified(p, c) => tags[head[p].history][byHash[c].tag] = c

\* update-all, if it is not cut short, leaves no archived repository outdated.
UpdateAllSettles ==
    [][job'.todo = {} /\ (\E p \in Paths : UpdateNext(p))
         => \A c \in Live' : head[byHash'[c].path] \in {None, c}]_repoVars
=============================================================================
