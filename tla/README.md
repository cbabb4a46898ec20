# A TLA+ model of btcvm and ott

btcvm is two programs in one repository.

* **ott** (`src/ott.py`) archives files: it identifies them by SHA-256, keeps an
  append-only manifest of them in `.ott/`, commits to the whole manifest with a
  Merkle root anchored to a Bitcoin block, and stores copies of the files locally
  or in buckets.
* **btcvm** (`src/main.py` and the small modules beside it) runs one or several
  register machines, a slice per Bitcoin block, and appends a commitment to their
  state to a ledger that `src/verify.py` checks.

The modules here are written from that source, one action per step of it that
reads or writes something another step can see. TLC checks them on small
instances; TLAPS proves all of the properties that hold but the liveness, for all values of
the constants that the theorems allow. Where the code does otherwise than its own
text says, a property states the text, and a table below says in which instance it breaks.

## The system

| Part | Where | State it keeps | Operations |
|---|---|---|---|
| ott store | `ott.py` 737-949, `OttStore` | `staged.jsonl`, `manifest.jsonl`, `ledger.jsonl`, no locks | load, append a line, rewrite a file (`_write_staged`, `update_ledger_entry`) |
| ott file commands | 1055-1233, 1713-1742, 1786-1909 | entries' `added` stamps, tags | add, rm, tag add/rm, commit and sync |
| ott repositories | 2801-3239 | entries keyed by commit hash, named by repository; signed tags in the repositories | repo add, update, outdated, update-all, verify, tag, verify-tag |
| ott anchoring | 1912-2016, `broadcast.py` | `tx_hash`, `bump_tx_hashes` of ledger entries | broadcast, bump-fee |
| backend configuration | 548-731 | `.ott/config`, `OttStore._backend` | backend set, add, remove |
| object storage | 211-545, 2543-2796 | `.ott/objects`, buckets, `.ott/cache` | put, exists, ensure_local, size; backfill, restore, open, verify-objects |
| Merkle trees | 138-180, `trace.py`, `fleet.py` | none | root, proof, verify_proof |
| relocation | 2099-2140, 2306-2540 | `last_path`, `name` and `inode` of entries | find, mv, reindex, fix-renames, verify |
| the machine | `vm.py`, `trace.py` | pc, registers, ticks, halted; trace records | step, run, record |
| btcvm main | `main.py`, `clock.py`, `vdf.py`, `fleet.py` | last height, VDF, machines, `ledger.jsonl`, trace file | poll, on_block, on_tick, broadcast, write, export |
| btcvm verifier | `verify.py` | none | verify_ledger |
| verify-chain | 2161-2239, `verify.py` 28-61 | none; reads the ledger and the chain | verify_chain, check_op_return |
| init, migrate | 764-769, 980-1042, 2412-2416 | creates `.ott/` and imports the two files of imgfs | init, init --migrate, migrate |
| imgfs | `imgfs.py` | its manifest and its ledger | add, commit, status (verify, verify-chunk) |
| assembler | `asm.py`, `programs.py` | none | assemble, discover |
| others | display, shell, validation stub | | read-only or parsing |

**How the parts interact.** ott's commands meet in the files of `.ott/`. Nothing
is locked: every command loads a file, decides, and writes later, so two shells,
or a shell and a CLI call, interleave freely. The commands that rewrite a file
truncate it and write what they loaded. `commit` uses the object storage for each
staged file, then the manifest, the staging area and the ledger, in that order.
`backfill` and RAID's `put` work in thread pools over different digests or
members. btcvm's main loop is sequential; what is concurrent with it are the
chain, the block explorers it asks, which lag behind each other, and the operator
who kills and restarts it. `verify.py` reads the ledger and trace that main left
and asks the explorer again.

**What is hard.** Interleaved read-modify-write of files; a command cut short
between two files; stamps with one-second resolution that decide whether an entry
may be deleted; a cache shared by all buckets; members of a RAID that fail one at
a time; files that change between being hashed and being stored; explorers that
fall in for each other; traces exported after the entries that commit to them; files,
checkouts and blocks that move behind ott's back; lines and migrations that are cut
short.
`PROJECT.json` lists these as `hazards`, with the properties that would show them
going wrong.

## The modules

### OttArchive (the store and its commands)

`staged`, `byHash`, `repoAt` and `ledger` are the three files, `ses[p]` is the
command session `p` is running with its local variables, and `present` are the
files that are where their `last_path` says. The manifest is kept as the two
dictionaries `load_manifest` folds its lines into, so `SaveEntry` is both the
appended line and its effect on every later load. A Merkle root is the set of
leaves it covers (Merkle has the tree).

Every read and every write another session could come between is an action of its
own: `add` is `AddBegin` (look for duplicates), `StageEntry` (load and extend the
rows, stamp), `OpenStaged` (truncate) and `FlushStaged` (write); `rm`, of a name or of
all that a regular expression matches, is `RmBegin` (read the staging area), `RmStamp`
(read the last commit's stamp), `UnstageEntry` for each staged match, with its rewrite,
`FindArchived` (load the manifest, compare stamps) and `DeleteEntry` for each archived
one; a tag is `TagBegin` (find the matches), then `UpdateLoad` (update_entry loads again,
and gives up if the entry has gone) and `UpdateSave` for each; `commit` is `CommitBegin`,
one `AbsorbEntry` or `SkipEntry` per staged file, `AbsorbDone`, the rewrite, `LoadEntries`
(for `file_count`), `CurrentRoot`, `GetTip` (the block, then the time stamp) and
`AppendLedger`. `Die` cuts a command short; inside a rewrite it leaves some of the rows.
What happens to an append that is cut short is JsonLines' matter.

Abstractions: a file is added by its own command (a longer list is several commands);
what a regular expression matches is one of the sets in `Patterns`; `repo add` finds,
decides and appends in one step; rows appended to a `.jsonl` file are never cut;
`tagged` stands for every field `update_entry` changes; OttRelocate and OttRepos have
the fields by name.

### OttPromise (what it amounts to)

Files are `held` or not, and `anchored` once a commit covers them; an anchored file
cannot be forgotten. `OttArchive!KeepsPromise` is the refinement: `held` is what is
live, staged, or about to be flushed; `anchored` what is under some root.

### OttAnchor (broadcast and bump-fee)

The ledger as `broadcast` and `bump-fee` see it: rows with a commitment, a
transaction and its bumps. The send (`Send`, `SendFails`), the load
(`BumpLast`, `UpdateLoad`), the truncation and the write of the ledger are
separate steps; commits append meanwhile. Two commits of an unchanged archive on
the same block have the same commitment, and `update_ledger_entry` patches all
entries that match. A bump reads the last row after it has sent. How a transaction is built is left to the `bit` library.

### VerifyChain (ott's ledger and the Bitcoin chain)

VerifyChain extends OttAnchor with a chain: `Mine` puts any of the sent transactions
that are not confirmed into a new block, `Reorganise` orphans the last one, and
`Anchoring` lets the commands of OttAnchor go on, with commitments to blocks that
an explorer may have served, or to the synthetic hash of an offline commit, whose
height 0 is on no chain. `HashOk` is verify-chain's verdict on a row. `Scripts` are the
OP_RETURNs in a block: `broadcast_commitment` sends the commitment's hex digits as text,
`CheckOpReturn` looks for the digits in the script's hex, and the explorer may not
answer; `OpReturnFound` asks for the recorded block, as verify-chain does. A commitment
is the pair it is a hash of, so the comparison with the recomputed one cannot fail for
the rows ott writes. One network is there: the other one is asked in the same way when
its block is not the recorded one.

### OttRelocate (where the files are)

`disk` has a content and an inode at each path, `entry` the state, `last_path`, name
and inode of each content's entry, and `ran` says which command has just run, so that
mv can be told from another command that changes last_path in the same way. `Find`, `Mv`,
`Reindex`, `FixRenames` and `Verify` are the commands, each one step, and users create,
rewrite, rename, exchange and remove files between them. A command is run in a directory
`cwd`: add, verify and mv make the path they are given absolute, fix-renames its root,
but find and reindex record paths below the root as it was given, so that one found
under "." (`Here`) is relative, and looked for in the directory of whatever command
reads it (`At`). What the commands compare is kept apart: `HashOf` is the hash of a file
as a whole or by chunks (the same for a file of one chunk), `ByInode` and `ByStart` are
fix-renames' two passes. When several paths match, os.walk's order decides: any of them
may be taken. orig_path is left out: it only serves to name an entry.

### OttRepos (repositories)

The checkouts' `head`s move freely, `tags` are those of the repositories, and
`byHash` and `repoAt` are load_manifest's two dictionaries, with the committed
leaves whose entry was evicted in `left`. A repository's name is the basename of its path, so two
checkouts may share an entry; `mv` to another name changes that of the entry, but not
what `repoAt` has for the old one, and `renamed` has both names. `SignTag` (of HEAD,
whatever commit that is) and `RecordTag` are the two steps of repo
tag, `UpdateAllBegin` and `UpdateNext` those of update-all, which goes through the
paths its scan found; `Outdated` is that scan. `AddAt` is cmd_repo_add, which repo
add, update and update-all share. Find, mv, rm and commit act on repositories as they
do on files.

### JsonLines, ImgFs, OttMigrate (imgfs, init and migrate)

JsonLines is a `.jsonl` file as its loaders see it: lines that parse, lines that do
not, and whether the last one has its newline. `Rows` are the lines that parse, in
their order. ott's `load_manifest` goes on to keep a dictionary, in which a digest has
the place of its first line (`Firsts`) and the content of its latest one (`Latest`). ImgFs is imgfs with its manifest
(`images`) and ledger (`anchors`): add, commit and status. OttMigrate extends it with
init, with and without `--migrate`, and migrate, whose appends to ott's two files are
steps of their own; with commit and rm, which go on from what was imported; and with
what ott reads of the result: the live entries in their order, which is the order of
the Merkle leaves, the last commit's stamp, and the status. Any append may be torn,
and any command be killed between two (`Die`). `acked` has the rows whose append came
to its end, whatever became of their lines since: `Commits` are those of both ledgers,
so that what imgfs and ott have committed to is not what ott can still read of it.

### BackendConfig, ObjectStore (where the bytes are)

BackendConfig is `.ott/config`'s `object_backend`, `raid_backends` and buckets, the
three `ott backend` commands, and the backend a session builds once and keeps.
Bucket and prefix are one value, and environment overrides are unset.

ObjectStore extends it with the bytes under each digest: in `.ott/objects`, in the
buckets, in the caches (one directory per kind, whatever the bucket), and the hard
links to the user's file. What is found there is `whole`, `altered`, `cut` or
nothing. `Store` is one `put` on all members with an outcome for each; `Absorb` is
the archiving half of commit; `BackfillCheck`, `BackfillHash`, `BackfillPut` are
the three steps of a backfill worker, during which files and copies may change;
`Read` is restore and open with RAID's self-heal; `VerifyObject` is verify-objects.
The environment replaces, rewrites, deletes and loses files and copies, buckets go
in and out of reach, and a command may be killed inside an upload, which may land short,
or a copy (`Interrupt`, `Restart`). The constants switch these on and off per run.

Abstractions: a download is one step (its `.part` file is not shared); digests are
those of images and videos, because backfill does not recompute an audio file's
digest as add does (see below); workers run on different digests and share nothing
else, so `work` is per digest.

### Merkle

`Root`, `Proof` and `VerifyProof` over lists of leaves, with an injective hash (a
pair), and what `ott verify` and `ott verify-chunk` make of them: `Verifies` proves a
digest under the manifest's root, `VerifiesChunk` a block under the root of the stored
chunk hashes and that root in the digest's place in the manifest. `trace.py` and
`fleet.py` repeat `merkle_root`; the btcvm modules take a trace's or a fleet's root to
be the sequence of its leaves. So do ImgFs and OttMigrate for a manifest's root, which
`RootsAreLeaves` justifies: in every state they reach, the roots that are compared are
equal exactly if the lists are.

### Assembler, RegisterVM, BtcvmMain, VerifyLedger, MCBtcvm

Assembler is `asm.py` from the lines of a source text on: `Address`, the first pass's
pc at each line, the labels, which name the address of the next instruction, and the
instructions (`Instructions` are their lines) with their jumps resolved.
RegisterVM is `VM.step`, `VM.run` and `VMTrace.record` as functions, over a memory of
256 places that a program must not fill. BtcvmMain is `main.py`'s loop: ask one of the
two explorers for the height (`GetHeight`) and for the hash (`GetHash`, `NoHash`), which
is also `poll`'s decision and the seeding of the VDF; one `OnTick` per VDF tick, or one
per block without VDF; `BroadcastEntry`, `WriteEntry`, `EndTicks`; for each trace
`OpenTrace` (truncate) and `DumpTrace` (write); `BlockDone`. `Mine`, `Reorganise` and
`CatchUp` are the chain and the explorers, which serve whatever branch they saw last: a
block's hash is its height and its branch. The process may be killed anywhere:
`CutEntry` is a kill inside the write of an entry (its line is JsonLines'), `CutTrace`
one inside a trace's export, between two lines or in one, and `Restart` is any end or
kill followed by a new start on the same ledger with fresh machines. `EntriesReplay`
compares each ledger entry with `Meaning`, which runs the source lines themselves,
without addresses: what the assembler, the machine and the loop make of a program
together.

VerifyLedger adds `verify_ledger` as a function of the ledger, the trace file and what
blockstream.info serves at that moment. `Failing` are the entries for which it prints a
failure, by any of which it returns False, if all that can be fetched is; a fetch that
fails takes its entry out of them. The VDF pass prints and has no part in the result.
A ledger with a line that does not parse makes verify.py raise, so all properties of a
ledger are of one that loads (`LedgerLoads`). MCBtcvm has the programs.

## What is checked

The Merkle, migration and btcvm runs do not check deadlock; there a list of full
length, archives at their bounds and a main loop that has ended, or was killed for the
last time, are where the system stops.

| Run | Instance | Question |
|---|---|---|
| MCArchive | 2 files, 1 session, crashes, 2 seconds after the start, 2 commits | Types, permanence, stamps; nothing lost; the refinement |
| MCArchiveLive | 2 files, 1 repository at 2 commits, 2 commits of ott, no crash, fairness | One entry per repository, tags kept, commits land |
| MCAnchor (module MCVerifyChain) | 1 session, crashes, 4 blocks of which 2 compete and 1 is synthetic, 3 rows, 2 transactions | What was sent is recorded, on the right entries; what verify-chain accepts lies between its block and its transaction's |
| MCRelocate | a video and an image, 2 directories, 2 names, 3 inodes | last_path moves only onto the entry's own file; fix-renames and reindex find it |
| MCRepos | 2 histories of 2 commits, 3 checkouts, 1 tag, renaming, 1 commit of ott | Repositories stay; update-all |
| MCMigrate (module OttMigrate) | 2 files, torn lines, 2 crashes, 1 clock tick | The root, the status and the commits carry over; a torn line costs one row |
| MCObjects | 1 digest on local, S3 and GCS | Configuration, caches, content addressing, backfill, reads |
| MCObjectsFaults | 1 digest on local and two S3 buckets, all faults | No command spoils a whole copy |
| MCMerkle | 4 hashes, lists up to 5 | Proofs verify, bind the leaf and the chunk, and manifests' roots differ |
| MCBtcvmSingle | 1 traced machine, 2 VDF ticks a block, 3 heights, 1 reorganisation, 2 explorers, kills, 1 restart | Replay; which entries verify; where verify.py's chains begin; the trace file is the last entry's |
| MCBtcvmFleet | 2 machines, one of which runs off its program's end, 6 heights, 1 reorganisation, 2 explorers, broadcasts, no kill, fairness | All halt; replay; which entries verify |
| MCArchiveLostAdd | 2 files, 2 sessions, no crash | Does one add keep what another has staged? It does not |

**Why the bounds are enough.** Two files let one be absorbed while the other is
skipped, removed or re-added, and two commits give a first and a last one, which
is what `_never_committed` tells apart; three values of the clock give a stamp
before, in and after a commit's second. Three rows give two entries with one commitment and
another one between them, two transactions a broadcast and a second one or a bump;
three blocks, two of one height, a reorganisation before, between and after the
commit and its transaction. Two contents at four paths let files exchange names,
take each other's place and lie about as copies, and three inodes are one more than
files; in two directories a relative path names another file or none. Three checkouts
are two of one repository and one of another, and the two commits of each let both be
outdated at once, move on and come back. Two rows per file and two crashes let a migration be cut short
twice, at either file. Three kinds are all the backends there are, and give RAID a member
before and after the one that answers. One digest is enough because digests share
nothing but the configuration. Lists of five leaves have odd layers at two levels. The
countdown program takes two blocks of two ticks of two cycles, so that its execution is
cut by ticks and by blocks; of the fleet, one machine jumps to a label behind its last
instruction, where the step that halts it is not traced, in its fourth block, and the
other halts in its second. A reorganisation and two explorers are what
it takes for main to be told of a height, or of a block at it, that the verifier's
explorer does not have.

**Fairness.** MCArchiveLive: a running command is scheduled (`WF(Run(p))`); the
user, the clock and the files are free. MCBtcvmFleet: main keeps running
(`WF(Main)`), blocks keep coming and explorers catch up (`WF(Progress)`), and an
explorer that is asked again and again serves a block's hash some time
(`SF(GetHash)`, because `get_tip` goes back to the height after each failure).
`Paced` says that main polls (every 30 seconds) more often than blocks come; it
keeps main from being outrun within the bounded chain. `BtcvmSpec`, which
MCBtcvmSingle uses, has no such assumption.

### What the source says and the code does not do

One run checks such a sentence: **MCArchiveLostAdd**. Two sessions add a file each;
`stage_entry` reads `staged.jsonl` and rewrites it, so that the one that writes last
drops the other's entry, which its `add` has reported as staged, where the source has
"Add (or replace, if already staged) one entry in the staging area" (895).
`AddDropsNothing` is that sentence.

The modules state others, and this table gives the instance in which TLC finds each of
them broken: the configuration named, with the change, and the property in place of its
own.

| Property | Instance | What happens | What the source says |
|---|---|---|---|
| NothingLostWithoutRm | MCArchive, `TornWrites` TRUE | A kill inside the rewrite of staged.jsonl drops rows | "left staged rather than silently dropped" (1789-1791) |
| LedgerChronological | MCArchive, two `Sessions`, one file, no `Crashes` | Two commits land in the other order than their stamps | "chronological (append-only)" (1162) |
| CommittedFilesPermanent | the same | rm has read the last stamp when another session commits the entry it takes | "once committed, entries are permanent" (846) |
| LedgerOnlyGrows | MCAnchor, two `Sessions`, no `Crashes` | A broadcast writes the ledger it loaded over a commit appended since | "Patch ... in place" (932) |
| BumpOnLatestOnly | MCAnchor | A bump of the last of two equal commitments overwrites the bumps of the first | "on the most recent ledger entry" (2016) |
| LandedIsFound | MCAnchor | `verify-chain -c` does not find a transaction that is in a block: it asks for the commitment's own block, and for hex digits where their text was sent | "`-c` also checks the OP_RETURN landed" (README 193) |
| BackfillTruthful | MCObjects, two `Buckets` | After a switch of buckets the old one's cache answers for the new one | "the cache is disposable" (297), "check the *new* backend" (2653) |
| VerifiedOnAll | MCObjects | verify-objects verifies an object that a member of the RAID lacks | "a real scrub/audit across the whole array (see verify-objects)" (483) |
| KeyMatchesContent | MCObjects, `Races` TRUE | A file replaced between backfill's hash and its put is stored under the old digest | "key == hash(value)" (2638) |
| KeyMatchesContent | MCObjects, `Edits` with "inplace" | A file rewritten in place changes the object hard-linked to it | the same |
| ReadsWhole | MCObjects, `Crashes` TRUE | A copy cut short by a kill is handed out by a later read | "this object's bytes" (222) |
| BlocksOnce | MCBtcvmFleet | A block drives the machines again when the explorer that is behind shows it as the tip | "if a new block has been seen" (clock.py 72) |
| TraceOkIsCommitted | MCBtcvmSingle | verify.py prints the root of a trace file cut short at a line, or of an earlier block's, as OK | "verify the Merkle root" (verify.py 9) |
| FixedEverywhere | MCRelocate | reindex of "." records a relative path, which is missing elsewhere | "`ott reindex` is the real fix" (README 199) |
| ReindexRelocates | MCRelocate, `Audio` of the image | reindex does not know an audio file of several chunks again | "relocates every stale entry" (README 187) |
| OnlyOntoOwnFile | MCRelocate, `Reuse` TRUE | fix-renames follows an inode that was given to another file | "whose file was renamed/moved" (2420) |
| SignedChain | MCRepos | repo tag signs a HEAD that is not the archived commit, and verify-tag finds it good | the "full chain" (3147) |
| CommittedPermanent | MCRepos | A repository back at a committed commit is stamped anew, and rm takes it | "once committed, entries are permanent" (846) |
| ReplacedByName | MCRepos | An entry that mv renamed is evicted by a repository of its old name | "a repo's identity is its name" (809) |
| CommittedPermanent | MCMigrate | Between a migration cut short and its repetition rm takes what imgfs committed | "once committed, entries are permanent" (846) |
| CommittedKept | MCMigrate, `Late` TRUE | A migration after ott's own commit makes an older row the last one | "comparing against the latest one is sufficient" (1163) |
| RecordedKept | MCMigrate | A ledger row appended behind a torn line cannot be read, so rm does not know of it | "once committed, entries are permanent" (846) |

### What the passing runs leave out

The passing runs exclude what the table has, by a constant or in the statement of
the property: one session (MCArchive, MCArchiveLive, MCAnchor), no kill inside a rewrite
(`TornWrites`), one bucket that loses nothing (MCObjects), files that stay as they were
hashed and are not rewritten in place (`StagedEdits`, `Races`, `Edits`), no audio and no
inode given away (`Audio`, `Reuse`), names that mv left alone and commits not returned to
(`renamed`, `left`), no migration after ott's own commit (`Late`), no removal counted while
a migration waits to be repeated (`CutShort`), ledgers of which all is readable
(`LedgerLoads`, CommittedKept). Beyond that:

* A kill between sending a transaction and recording it leaves it unrecorded
  (`BroadcastRecorded` speaks of broadcasts that come to their end). A commit killed
  before its rewrite absorbs a file again later, over tags given in between
  (TagsKept is checked without crashes); two sessions' updates of one entry overwrite
  each other (TagsKept is checked with one).
* A RAID read raises when an early member cannot be reached although a later one
  has the object; a put that failed on some members is a plain success.
* Two repositories of different names at one commit take each other's entry: in OttRepos
  a commit is of one history. `outdated` compares with the checkout on this machine,
  where the repository's README says "against its remote".
* fix-renames is misled in the same way as by a reused inode by a file that was rewritten
  in place, or by another one of equal size and first chunk (`Edits`, `Twins`). It takes a
  path that exists for a valid one, so files that exchanged their names are not "missing";
  reindex tells. verify, find and backfill do not know an audio file again either.
  `ott find`, which commit recommends for a staged file that moved (1800), looks at
  archived entries only. The recorded inode is never brought up to date.
* A line that is complete but for its newline can be read until the next append spoils it
  (`Torn` with "line" violates MigrateKeepsRoot). A torn line of ott's manifest loses the
  entry of the next migration's first line, which counts it as imported (MigrateKeepsRoot
  speaks of manifests without one). imgfs status raises at a ledger whose last line is torn.
* A torn line of btcvm's ledger makes verify.py raise at every later verification: what is
  said of ledgers is said of those that load. poll compares heights, so a reorganisation
  that leaves the height as it was is not noticed by main; the entry then fails to verify,
  as VerifyAccepts says. A trace file is the last entry's only while main rests between
  blocks (TraceRootChecked).
* The transaction of a commit is in a later block than the commit's own
  (MadeBetweenBlocks), which is the one verify-chain asks for.
* Read from the source, outside the models: the doubling of odd layers gives the
  chunk lists a,b,c and a,b,c,c one root; imgfs verify hashes a video as a whole, which
  is not its digest; migrate imports one manifest and one ledger, so that
  imgfs' are left behind where the older ott's are; verify.py accepts a ledger of which
  it could fetch nothing.

## What is proved

The proofs hold for any number of files, repositories, sessions, transactions, stamps,
leaves, machines and blocks; they rest on the assumptions named in the modules and on
those stated in each theorem. An assumption such as `OneSession` or `~Late` leaves out a
case in which the code does otherwise: the table above has a run for each.

* **OttArchiveProofs.** `TypeCorrect`: types, any sessions, crashes and torn writes.
  `RepoIdentity`: two live entries never carry one repository name; the
  strengthening is that `repoAt` names the entry of every live one. With one
  session: `CommittedPermanent`, `NeverCommittedSound` and `LedgerOrdered`. These
  three need one another. A committed file is safe only because `rm` refuses it,
  which needs its stamp to be at most the last commit's, which needs the ledger's
  stamps to be ordered and none in the future, and the stamps of staged rows and
  of the rows a commit carries not to be. The inductive invariant (`IInv`) has these
  parts by name, and says of each step of `rm` and of `commit` what it knows at that
  point. Without torn writes, `ArchiveKeepsPromise` and `NothingLost`: what a rewrite
  holds between truncation and flush is what was staged, so each step of the store is a
  step or a stutter of OttPromise. Without crashes, `TagsStay`: only between a commit's
  first `save_entry` and its rewrite of `staged.jsonl` is a file both staged and
  archived (`ApartInv`), so no older copy of an entry is written back.
* **ObjectStoreProofs.** The configuration first. `RaidShape`: any sequence of set, add
  and remove, from any number of sessions, leaves a RAID of at least two different
  members. `BackendCurrent`: with one session the backend in use is the configured one.
  `ConfigSound`: both survive the storage's use of them and the death of a process.
  Then the storage. `StoreEffect` says what one `put` does to each place, and all other
  changes of the storage are lemmas over it. `WholeStays` and `ReadsFind` hold in
  every instance, with all faults: no command spoils a copy that was whole, because
  nothing is put where something is found, and a read that finds nothing has looked
  everywhere. `CacheIsBacked` needs that no bucket loses objects,
  `KeysMatch` that no file changes between its hash and its copy or in place under a
  hard link; its invariant (`KeyInv`) says the same of the sources a commit or a
  backfill worker is about to copy. `ReadsHeal` and `BackfillIsTruthful` rest on
  CacheBacked, and need one bucket per kind, because one cache serves all buckets of a
  kind, no failing put, and for backfill that its source stays where it was hashed.
* **VerifyChainProofs.** For any sessions, crashes and torn writes: `TxCorrect`, a
  recorded transaction is a broadcast of the entry's own commitment, with an invariant
  that says the same of the rows a session is about to write; and `BroadcastIsRecorded`,
  a broadcast that runs to its end is on every entry with its commitment.
  `LedgerGrowsOnly`, with one session and no torn write: what a rewrite holds is the
  ledger. `BetweenBlocks`, for any blocks and reorganisations: a transaction, sent or
  about to be, is for a block mined before, and no block of the chain holds one for
  itself or for a block above it. `ChainAnchors`: VerifyChain implements OttAnchor, so
  that the first three hold beside a chain.
* **OttRelocateProofs.** `OnlyOwnFile` and `FixRenamesFollows`, for any files,
  directories, names and inodes, while no recorded inode is rewritten or given away
  (`Edits` and `Reuse` FALSE) and no two files have one size and one first chunk. The
  invariant, which `InodesTrusted` keeps, says that a file with an entry's inode is that
  entry's; it is what fix-renames trusts, and needs inodes to be distinct. `ReindexMends`:
  reindex, which hashes, needs only that no file is audio.
* **OttReposProofs.** Three of OttRepos' properties, for any repositories, checkouts,
  commits and tags: `CommittedKept`, `AllSettled` and `ReposKept`. One invariant carries
  them (`RepoInvariant`): but for the names that mv took or gave, an entry's name, its
  path's name and its history agree, so what a later line evicts is of the same history; a
  name leads to the one live entry of its history, so updating from one checkout settles
  no other's; a committed leaf is there with an old stamp unless its repository moved on;
  what update-all has left to do covers what is outdated.
* **ManifestProofs.** Merkle first, for lists of any length: `EveryProofVerifies`,
  `EveryProofBinds`, `EveryChunkBinds` and `EveryManifestItsRoot`. Hashing is injective,
  and for the last one no leaf of a manifest is itself the hash of a pair (`NoPairs`, and
  `Zero` no leaf's hash). Root, proof and verification are recursive functions, which are
  first shown to exist; the argument goes from one layer to the layer above it, half as
  long (`Halves`), by ProofBasics' induction.
  Then the archives of imgfs and ott, for any number of files, rows, clock ticks, crashes
  and repeated migrations. `TornLinesCostOneRow`, whatever is torn: each acknowledged row
  has a line of its own (`Placed`), which holds it unless it was spoiled, so the lost rows
  can be counted by the lines that do not parse. The counts alone would not be inductive:
  they do not say that the line an append spoils is not the only one to hold another row.
  `MigrationKeepsRoot`, when a torn line lacks more than its newline, so that no line is
  read before it is spoiled (`UnreadInv`): imgfs' manifest holds each digest once
  (`ImgInv`); what a migration has still to import is the end of it (`JobInv`); the first
  lines of the digests in ott's manifest are in imgfs' order, and all it has gone through
  so far is live (`OrderInv`), also when an earlier migration was cut short there and an rm
  came between; and the last row of ott's ledger is the last one imported (`LedgerInv`),
  which is the one status compares.
  `CommittedStays`, when in addition no migration follows a commit by ott: then the
  latest of the stamps of all commits is the last row's whenever ott can read all of them
  (`TimeInv`), and an entry is live if its latest row does not delete it (`LeafInv`). Its
  ground truth are the commits that came to their end, not the rows that can be read.
  `RootsAreLeaves` joins the two halves: no manifest has a digest twice, so two of them
  have one root exactly if they have the same leaves in the same order.
* **BtcvmProofs.** For any programs, machines, cycles, ticks, blocks, reorganisations,
  kills and restarts. `LedgerVerifies`: an entry of a ledger that loads fails exactly if
  the explorer's block at its height is not the one main was told; whatever came between,
  it was made of the values it records (`MadeInv`). `LedgerInBlocks`: the chains that
  verify.py splits a ledger into are blocks, because what main is about to write follows
  what it wrote last, and a kill is followed by a run that begins with a first tick.
  `TraceCommitted`: the exported trace is the one the last entry commits to, whenever
  main rests. `LedgerReplays`: every entry's machine has done what its program text
  means. That last one relates two machines: RegisterVM's, whose pc is an address, and
  `Meaning`'s, which is at a line of the text. `InStep` says that the address is that of
  the next instruction of the line and the registers are equal; `AddressFacts` and
  `AddressOwn` say how the assembler's first pass counts addresses; a step of one is a
  step of the other, a run of one a run of the other, and the ledger's entries add up to
  the steps the machine has taken (`ReplayInv`).
* **ProofBasics** has what several of these share: induction over the naturals, stated
  for sets (`AllNaturals`: a set of naturals that has 0 and with each n also n + 1 has
  all of them; `LeastElement`), and sequences of whatever elements.

Only model-checked: liveness, `CommitLands` and `RunsToHalt`, which is out of the
prover's reach, as ENABLED is.

## Plan

Done: everything above.

Next, in this order:

1. Downloads in steps, with the `.part` file that two processes share.
2. The other callers of `update_entry` with two sessions.

## Not modelled

Display (list, ls, tree, log, tag list, keygen, qr, and of status all but its verdict
on the last commit) reads and formats. The shell and the argument parser call the
commands above. The validation backends are an interface nothing calls. How a
transaction is built and sent, and what git and gpg do, is modelled by what ott relies
on. Of the imgfs commands, verify and verify-chunk only read, and prove what Merkle
models. `.ott/config` is read and written in one step, because nothing in the code
recovers from a crash between the truncation and the write: every later command raises.
