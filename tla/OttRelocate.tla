----------------------------- MODULE OttRelocate -----------------------------
(***************************************************************************)
(* Where ott's entries say their files are, and the commands that bring    *)
(* that up to date after files were moved behind its back: find, reindex,  *)
(* fix-renames, mv, and verify, which records where it met a file.         *)
(*                                                                         *)
(* An entry is the manifest's latest line for a digest.  A command names   *)
(* it by a prefix of the digest (an ambiguous name is refused), is one     *)
(* step, and finds the disk as it is during that step.  It is run in a     *)
(* directory, cwd, and a path it records may be relative to that one: find *)
(* and reindex do not make the root they are given absolute.  os.walk's    *)
(* order, which decides between several matches, is a choice.  orig_path,  *)
(* which only names an entry, is left out.  A content is met under names   *)
(* of one extension, so its type is a property of the content.             *)
(***************************************************************************)
EXTENDS Integers, FiniteSets

CONSTANTS
    Files,      \* contents of files
    Videos,     \* those of a type that is hashed by chunks ...
    Audio,      \* ... and those of the other such type; the rest are images
    LongFiles,  \* those of more than one chunk
    Twins,      \* different files of one size and one first chunk
    Dirs,
    Here,       \* ".", the directory of a relative path
    Names,      \* basenames
    Inodes,
    None,       \* no file, no path, no name, no inode
    Edits,      \* may a file whose inode is recorded be rewritten in place?
    Reuse       \* may a recorded inode go to a new file once its own is deleted?

Paths == [dir : Dirs, name : Names]
Places == [dir : Dirs \cup {Here}, name : Names]   \* what last_path can be

ASSUME TypesAssumption ==
    /\ Videos \cup Audio \cup LongFiles \cup Twins \subseteq Files
    /\ Videos \cap Audio = {}
ASSUME NothingAssumption == None \notin Places \cup Names \cup Inodes
ASSUME HereAssumption == Here \notin Dirs
ASSUME SwitchesAssumption == Edits \in BOOLEAN /\ Reuse \in BOOLEAN

VARIABLES
    disk,   \* the file at each path: its content and its inode, or None
    entry,  \* each content's entry
    ran     \* the command that has just run, if users did nothing since

relocateVars == <<disk, entry, ran>>

NoEntry == [state |-> "none", last |-> None, name |-> None, inode |-> None]

RelocateInit ==
    /\ disk = [p \in Paths |-> None]
    /\ entry = [f \in Files |-> NoEntry]
    /\ ran = None

IsFile(p) == p # None /\ disk[p] # None

\* where a command that is run in cwd looks for p
At(cwd, p) == IF p # None /\ p.dir = Here THEN [p EXCEPT !.dir = cwd] ELSE p

Live == {f \in Files : entry[f].state = "live"}   \* load_manifest

\* what a search is given: the archive's root or a directory, by its absolute
\* path or as "."
Roots == {Dirs} \cup {{d} : d \in Dirs \cup {Here}}

\* os.walk: the paths it makes begin with the root as it is given
FilesUnder(cwd, root) == {p \in Places : p.dir \in root /\ IsFile(At(cwd, p))}

\* no command touches the files
Ran(command) == ran' = command /\ UNCHANGED disk

----------------------------------------------------------------------------
(* Hashing.  A file of one chunk has the same hash both ways.              *)

HashOf(f, byChunks) == <<IF byChunks /\ f \in LongFiles THEN "root" ELSE "file", f>>

\* the digest add gives a file
Digest(f) == HashOf(f, f \in Videos \cup Audio)

VerifyCandidate(f, p) ==
    IsFile(p) /\ HashOf(disk[p].content, f \in Videos) = Digest(f)

----------------------------------------------------------------------------
(* add and commit.                                                         *)

Add(p) ==
    /\ IsFile(p) /\ entry[disk[p].content].state = "none"
    /\ entry' = [entry EXCEPT ![disk[p].content] =
                   [state |-> "staged", last |-> p, name |-> p.name,
                    inode |-> disk[p].inode]]
    /\ Ran("add")

\* a commit absorbs the staged files that are still there
Commit ==
    /\ \E f \in Files : entry[f].state = "staged"
    /\ entry' = [f \in Files |->
                   IF entry[f].state = "staged" /\ IsFile(entry[f].last)
                   THEN [entry[f] EXCEPT !.state = "live"] ELSE entry[f]]
    /\ Ran("commit")

----------------------------------------------------------------------------
(* verify, find, mv.                                                       *)

\* the digest verify computes of a file on disk, by the extension of its path
VerifyDigest(p) == HashOf(disk[p].content, disk[p].content \in Videos)
Proven(p) == {f \in Live : Digest(f) = VerifyDigest(p)}

Verify(p) ==
    /\ IsFile(p) /\ Proven(p) # {}
    /\ entry' = [f \in Files |-> IF f \in Proven(p) THEN [entry[f] EXCEPT !.last = p]
                                 ELSE entry[f]]
    /\ Ran("verify")

\* the index of the file system is by basename
Found(cwd, f, root) ==
    {p \in FilesUnder(cwd, root) :
        p.name = entry[f].name /\ VerifyCandidate(f, At(cwd, p))}

Find(cwd, f, root) ==
    /\ f \in Live
    /\ \E p \in Found(cwd, f, root) : entry' = [entry EXCEPT ![f].last = p]
    /\ Ran("find")

\* to a path, whether or not there is a file; into a directory it keeps its name
Mv(f, p) ==
    /\ f \in Live
    /\ entry' = [entry EXCEPT ![f].last = p, ![f].name = p.name]
    /\ Ran("mv")

----------------------------------------------------------------------------
(* reindex.                                                                *)

\* Mutant: a path at which there is a file is good enough.
Stale_Missing(cwd, f) == ~IsFile(At(cwd, entry[f].last))

Stale(cwd, f) == ~VerifyCandidate(f, At(cwd, entry[f].last))

\* one match for each function from files to where reindex leaves them
Reindex(cwd, root) ==
    /\ Ran("reindex")
    /\ \E match \in [Files -> Places \cup {None}] :
         /\ \A f \in Files :
              IF f \in Live /\ Stale(cwd, f) /\ Found(cwd, f, root) # {}
              THEN match[f] \in Found(cwd, f, root) ELSE match[f] = entry[f].last
         /\ entry' = [f \in Files |-> [entry[f] EXCEPT !.last = match[f]]]

----------------------------------------------------------------------------
(* fix-renames.                                                            *)

Missing(cwd) == {f \in Live : ~IsFile(At(cwd, entry[f].last))}

AbsPath(cwd, root) == IF root = {Here} THEN {cwd} ELSE root

\* paths are compared as they are recorded
Unclaimed(cwd, root) ==
    FilesUnder(cwd, AbsPath(cwd, root)) \ {entry[f].last : f \in Live}

\* pass 1: the recorded inode
ByInode(cwd, f, root) == {p \in Unclaimed(cwd, root) : disk[p].inode = entry[f].inode}

\* Mutant: the size alone decides.
ByStart_SizeOnly(cwd, f, root) == {p \in Unclaimed(cwd, root) : f \in Videos \cup Audio}

\* pass 2: the size, and the first of the stored chunk hashes, which images
\* do not have
ByStart(cwd, f, root) ==
    {p \in Unclaimed(cwd, root) :
       /\ f \in Videos \cup Audio
       /\ disk[p].content = f \/ {disk[p].content, f} \subseteq Twins}

\* Mutant: there is no second pass.
Match_InodeOnly(cwd, f, root) == ByInode(cwd, f, root)

Match(cwd, f, root) ==
    IF ByInode(cwd, f, root) # {} THEN ByInode(cwd, f, root) ELSE ByStart(cwd, f, root)

\* without --dry-run, which writes nothing
FixRenames(cwd, root) ==
    /\ Ran("fix-renames")
    /\ \E match \in [Files -> Paths \cup {None}] :
         /\ \A f \in Files :
              IF f \in Missing(cwd) /\ Match(cwd, f, root) # {}
              THEN match[f] \in Match(cwd, f, root) ELSE match[f] = None
         /\ entry' = [f \in Files |->
                        IF match[f] = None THEN entry[f]
                        ELSE [entry[f] EXCEPT !.last = match[f], !.name = match[f].name]]

----------------------------------------------------------------------------
(* What happens to the files meanwhile.                                    *)

InUse == {disk[p].inode : p \in {q \in Paths : IsFile(q)}}
Recorded == {entry[f].inode : f \in Files}
Meanwhile == ran' = None /\ UNCHANGED entry
FreeInodes == Inodes \ (InUse \cup IF Reuse THEN {} ELSE Recorded)

\* a file is written, or a copy of another one is made
Create(p, f) ==
    /\ ~IsFile(p)
    /\ \E i \in FreeInodes : disk' = [disk EXCEPT ![p] = [content |-> f, inode |-> i]]
    /\ Meanwhile

Rewrite(p, f) ==
    /\ IsFile(p)
    /\ Edits \/ disk[p].inode \notin Recorded
    /\ disk' = [disk EXCEPT ![p].content = f]
    /\ Meanwhile

\* a file is renamed, over another one if there is one
Rename(p, q) ==
    /\ IsFile(p) /\ p # q
    /\ disk' = [disk EXCEPT ![q] = disk[p], ![p] = None]
    /\ Meanwhile

\* two files exchange their names
Exchange(p, q) ==
    /\ IsFile(p) /\ IsFile(q)
    /\ disk' = [disk EXCEPT ![p] = disk[q], ![q] = disk[p]]
    /\ Meanwhile

Remove(p) ==
    /\ IsFile(p)
    /\ disk' = [disk EXCEPT ![p] = None]
    /\ Meanwhile

----------------------------------------------------------------------------
\* add, verify and mv make the path they are given absolute
Command(cwd) ==
    \/ Commit
    \/ \E p \in Paths : Add(p) \/ Verify(p)
    \/ \E f \in Files, p \in Paths : Mv(f, p)
    \/ \E root \in Roots :
         \/ \E f \in Files : Find(cwd, f, root)
         \/ Reindex(cwd, root) \/ FixRenames(cwd, root)

UserFiles ==
    \/ \E p \in Paths, f \in Files : Create(p, f) \/ Rewrite(p, f)
    \/ \E p, q \in Paths : Rename(p, q) \/ Exchange(p, q)
    \/ \E p \in Paths : Remove(p)

RelocateNext == (\E cwd \in Dirs : Command(cwd)) \/ UserFiles

RelocateSpec == RelocateInit /\ [][RelocateNext]_relocateVars

----------------------------------------------------------------------------
(* Properties.                                                             *)

IsOwn(f, p) == IsFile(p) /\ disk[p].content = f

\* Whatever was moved, exchanged, copied or removed since, last_path changes,
\* but by the user's own mv, only to a path at which the entry's own file is:
\* find, reindex and verify hash it, and fix-renames, which does not, trusts the
\* inode recorded at the add and the first chunk.
OnlyOntoOwnFile ==
    [][\A f \in Files, cwd \in Dirs :
         /\ entry[f].last # entry'[f].last /\ ran' # "mv"
         /\ Command(cwd)
         => IsOwn(f, At(cwd, entry'[f].last))]_relocateVars

\* "Find manifest entries whose file was renamed/moved on disk outside of ott"
\* (cmd_fix_renames): an entry whose path is empty gets its file's new path if
\* that lies under the root and is not the path of an entry: an image by its
\* inode, a video also as a copy.
RenamesFollowed ==
    [][\A cwd \in Dirs : \A root \in Roots, f \in Missing(cwd), p \in Paths :
         /\ p.dir \in AbsPath(cwd, root) /\ IsOwn(f, p)
         /\ p \notin {entry[g].last : g \in Live}
         /\ f \in Videos \/ disk[p].inode = entry[f].inode
         /\ FixRenames(cwd, root)
         => IsOwn(f, entry'[f].last)]_relocateVars

\* After a reindex no entry misses, or has exchanged for another's, a file that
\* the root holds under the entry's name, for a command run in the same
\* directory.
ReindexRelocates ==
    [][\A cwd \in Dirs : \A root \in Roots, f \in Live : \A p \in FilesUnder(cwd, root) :
         IsOwn(f, At(cwd, p)) /\ p.name = entry[f].name /\ Reindex(cwd, root)
         => IsOwn(f, At(cwd, entry'[f].last))]_relocateVars

\* "Entries missing at their last known path are hidden ...; `ott reindex` is the
\* real fix" (README.md): nor does it for a command run in any other directory.
\* The code breaks this: find and reindex record a path that is relative to cwd
\* if the root they are given is.
FixedEverywhere ==
    [][\A cwd \in Dirs : \A root \in Roots, f \in Live : \A p \in FilesUnder(cwd, root) :
         IsOwn(f, At(cwd, p)) /\ p.name = entry[f].name /\ Reindex(cwd, root)
         => \A elsewhere \in Dirs : IsOwn(f, At(elsewhere, entry'[f].last))]_relocateVars
=============================================================================
