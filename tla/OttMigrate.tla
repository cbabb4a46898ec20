----------------------------- MODULE OttMigrate -----------------------------
(***************************************************************************)
(* ott init and ott migrate: an .ott store is created beside an imgfs       *)
(* archive and imports its manifest and its ledger, line by line; rm and    *)
(* commit go on from there.                                                *)
(*                                                                         *)
(* OttArchive has all of add, rm and commit, and what several sessions do   *)
(* to each other; here one command runs at a time, nothing is staged, lines *)
(* are really written, and roots have an order.  The list of an entry's     *)
(* chunks is saved with it.                                                *)
(***************************************************************************)
EXTENDS ImgFs

CONSTANT Late   \* may a migration follow a commit by ott?

ASSUME OttFilesAssumption == {"manifest", "ledger"} \subseteq FileNames

VARIABLES
    made,       \* is there an .ott store?
    job,        \* the command under way, and what it has still to append
    pending,    \* a migration was begun and has not come to its end
    own         \* has ott committed?

ottVars == <<made, job, pending, own>>
migrateVars == <<now, files, acked, crashes, made, job, pending, own>>

Idle == [name |-> "idle", todo |-> <<>>]

MigrateInit ==
    /\ ImgInit
    /\ made = FALSE /\ job = Idle
    /\ pending = FALSE /\ own = FALSE

\* load_manifest: the latest row of a digest counts, in the place of its first one
Lines == files["manifest"].lines
LinesOf(d) == {i \in DOMAIN Lines : Lines[i] # <<>> /\ Lines[i][1].digest = d}
Latest(d) == Lines[CHOOSE i \in LinesOf(d) : \A j \in LinesOf(d) : j <= i][1]
Firsts == {i \in DOMAIN Lines :
             Lines[i] # <<>> /\ \A j \in LinesOf(Lines[i][1].digest) : i <= j}

\* Mutant: a digest that was deleted once stays deleted.
Live_DeletedForGood ==
    LET latest == [i \in Firsts |-> Latest(Lines[i][1].digest)]
    IN  Pick(latest, {i \in Firsts : \A j \in LinesOf(latest[i].digest) :
                                       ~Lines[j][1].deleted})

Live ==
    LET latest == [i \in Firsts |-> Latest(Lines[i][1].digest)]
    IN  Pick(latest, {i \in Firsts : ~latest[i].deleted})

Leaves == DigestsOf(Live)
OttStatus == Status(Load("ledger"), Leaves)

----------------------------------------------------------------------------
(* init and migrate.                                                       *)

\* what there is to import: the rows of the old files that parse
Imports == [name |-> "entries", todo |-> Load("images")]

InitStore(migrate) ==
    /\ job = Idle /\ ~made
    /\ made' = TRUE
    /\ job' = IF migrate THEN Imports ELSE Idle
    /\ pending' = migrate
    /\ UNCHANGED <<now, storage, own>>

MigrateBegin ==
    /\ job = Idle /\ made
    /\ own => Late
    /\ \A n \in {"manifest", "ledger"} : Len(files[n].lines) <= MaxRows
    /\ job' = Imports
    /\ pending' = TRUE
    /\ UNCHANGED <<now, storage, made, own>>

\* the next step of a command that appends rows to one file after the other
AppendNext(n) ==
    /\ job.todo # <<>>
    /\ \/ AppendRow(n, Head(job.todo)) /\ job' = [job EXCEPT !.todo = Tail(@)]
       \/ TearRow(n, Head(job.todo)) /\ job' = Idle
    /\ UNCHANGED <<now, made, pending, own>>

MigrateEntry == job.name = "entries" /\ AppendNext("manifest")

MigrateLedger ==
    /\ job.name = "entries" /\ job.todo = <<>>
    /\ job' = [name |-> "rows", todo |-> Load("anchors")]
    /\ UNCHANGED <<now, storage, made, pending, own>>

MigrateRow == job.name = "rows" /\ AppendNext("ledger")

MigrateEnd ==
    /\ job.name = "rows" /\ job.todo = <<>>
    /\ job' = Idle
    /\ pending' = FALSE
    /\ UNCHANGED <<now, storage, made, own>>

----------------------------------------------------------------------------
(* commit and rm, of what migrate brought.                                 *)

Commit ==
    /\ job = Idle /\ Leaves # <<>>
    /\ Len(files["ledger"].lines) <= MaxRows
    /\ AppendRow("ledger", LedgerRow(Leaves)) \/ TearRow("ledger", LedgerRow(Leaves))
    /\ own' = TRUE
    /\ UNCHANGED <<now, made, job, pending>>

\* Mutant: the first row of the ledger is taken for the last.
LastCommitTs_First ==
    LET ledger == Load("ledger") IN IF ledger = <<>> THEN -1 ELSE ledger[1].ts

LastCommitTs ==
    LET ledger == Load("ledger") IN IF ledger = <<>> THEN -1 ELSE Last(ledger).ts

\* of an archived entry
Rm(d) ==
    /\ job = Idle /\ made
    /\ \E i \in DOMAIN Live : Live[i].digest = d /\ Live[i].added > LastCommitTs
    /\ LET tombstone == [Entry(d) EXCEPT !.deleted = TRUE, !.added = 0]
       IN  AppendRow("manifest", tombstone) \/ TearRow("manifest", tombstone)
    /\ UNCHANGED <<now, ottVars>>

\* a command is cut short between two appends
Die ==
    /\ job # Idle /\ crashes < MaxCrashes
    /\ job' = Idle
    /\ crashes' = crashes + 1
    /\ UNCHANGED <<now, files, acked, made, pending, own>>

----------------------------------------------------------------------------
ImgFsCommand ==
    /\ job = Idle
    /\ ImgCommit \/ \E d \in Digests : ImgAdd(d)
    /\ UNCHANGED ottVars

MigrateNext ==
    \/ ImgFsCommand
    \/ ImgTick /\ UNCHANGED ottVars
    \/ \E migrate \in BOOLEAN : InitStore(migrate)
    \/ MigrateBegin \/ MigrateEntry \/ MigrateLedger \/ MigrateRow \/ MigrateEnd
    \/ \E d \in Digests : Rm(d)
    \/ Commit \/ Die

MigrateSpec == MigrateInit /\ [][MigrateNext]_migrateVars

----------------------------------------------------------------------------
(* Properties.                                                             *)

Untorn(n) == \A i \in DOMAIN files[n].lines : files[n].lines[i] # <<>>

\* What migrate imports before ott has committed has the root imgfs would commit
\* to, leaf by leaf and in its order, and ott status says of it what imgfs status
\* does where that does not give up: however often the migration was cut short
\* and repeated, and whatever was removed in between, unless a line of the file
\* that ott imports to was torn.
MigrateKeepsRoot ==
    [][/\ MigrateEnd /\ ~own /\ Untorn("manifest")
       => /\ Leaves = ImgLeaves
          /\ Untorn("ledger") => ImgStatus \in {"raises", OttStatus}]_migrateVars

\* The live entries that one of these ledger rows covers.  One that was added anew,
\* because the line of its first row was torn, is not the one that was committed.
Committed(rows) ==
    LET live == Live
    IN  {live[j].digest : j \in {k \in DOMAIN live : \E row \in rows :
            live[k].digest \in ToSet(row.leaves) /\ live[k].added <= row.ts}}

\* the rows of all commits that came to their end, by imgfs or by ott
Commits == acked["anchors"] \cup acked["ledger"]

\* a migration was cut short and has not been repeated yet
CutShort == pending /\ job = Idle

ManifestChanges == files["manifest"] # files'["manifest"]

\* "once committed, entries are permanent" (delete_entry): what imgfs or ott committed
\* to is neither removed nor lost in an import, if ott can read the rows of all their
\* commits, and no migration waits to be repeated.
CommittedKept ==
    [][ManifestChanges /\ ~CutShort /\ Commits \subseteq ToSet(Load("ledger"))
         => Committed(Commits) \subseteq ToSet(Leaves')]_migrateVars

\* The same of every commit, whatever ott can read.  A migration that waits to be
\* repeated breaks this.
CommittedPermanent ==
    [][ManifestChanges => Committed(Commits) \subseteq ToSet(Leaves')]_migrateVars

\* The same of the rows that ott has appended to its own ledger.  A torn line that
\* one of them was appended to breaks this.
RecordedKept ==
    [][ManifestChanges /\ ~CutShort
         => Committed(acked["ledger"]) \subseteq ToSet(Leaves')]_migrateVars
=============================================================================
