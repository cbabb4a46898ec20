-------------------------- MODULE OttRelocateProofs --------------------------
(***************************************************************************)
(* Where ott's entries say their files are, for any files, directories and *)
(* names.  fix-renames is the command that does not look at the content:   *)
(* it rests on the recorded inode staying the file's, which is the last    *)
(* part of the invariant, and which needs the two switches off.            *)
(***************************************************************************)
EXTENDS OttRelocate, TLAPS

File == [content : Files, inode : Inodes]
AnyEntry == [state : {"none", "staged", "live"}, last : Places \cup {None},
             name : Names \cup {None}, inode : Inodes \cup {None}]

RelocateTypes ==
    /\ disk \in [Paths -> File \cup {None}]
    /\ entry \in [Files -> AnyEntry]

\* there are no hard links
InodesDistinct ==
    \A p, q \in Paths : IsFile(p) /\ IsFile(q) /\ disk[p].inode = disk[q].inode => p = q

\* a file that has the inode of an entry is that entry's
InodeTrusted ==
    \A f \in Files, p \in Paths :
        IsFile(p) /\ disk[p].inode = entry[f].inode => disk[p].content = f

RelocateInv == RelocateTypes /\ InodesDistinct /\ InodeTrusted

----------------------------------------------------------------------------
\* An absolute path is looked for where it says.
LEMMA AtAbsolute ==
    ASSUME NEW cwd \in Dirs, NEW p \in Paths
    PROVE  At(cwd, p) = p /\ p # None
BY HereAssumption, NothingAssumption DEF At, Paths, Places

LEMMA PathsArePlaces == Paths \subseteq Places
BY DEF Paths, Places

\* fix-renames makes its root absolute.
LEMMA AbsPathInDirs ==
    ASSUME NEW cwd \in Dirs, NEW root \in Roots
    PROVE  AbsPath(cwd, root) \subseteq Dirs
BY DEF AbsPath, Roots

\* A hash is that of one file only, whichever way it is computed.
LEMMA HashesDiffer ==
    ASSUME NEW f, NEW g, NEW a, NEW b, HashOf(f, a) = HashOf(g, b)
    PROVE  f = g
BY DEF HashOf

\* What find and reindex accept is the entry's own file.
LEMMA CandidateIsOwn ==
    ASSUME NEW f, NEW p, VerifyCandidate(f, p)
    PROVE  IsOwn(f, p)
BY HashesDiffer DEF VerifyCandidate, Digest, IsOwn

\* So is what fix-renames matches, if no other file starts alike.
LEMMA MatchIsOwn ==
    ASSUME RelocateInv, Twins = {}, NEW cwd \in Dirs, NEW root \in Roots, NEW f \in Files,
           NEW p \in Match(cwd, f, root)
    PROVE  /\ IsOwn(f, p)
           /\ p # None /\ At(cwd, p) = p
<1>1. p \in Paths /\ IsFile(At(cwd, p)) /\ At(cwd, p) = p /\ p # None
  <2>1. p \in FilesUnder(cwd, AbsPath(cwd, root))
    BY DEF Match, ByInode, ByStart, Unclaimed
  <2>2. p \in Paths
    BY <2>1, AbsPathInDirs DEF FilesUnder, Places, Paths
  <2>3. QED
    BY <2>1, <2>2, AtAbsolute DEF FilesUnder
<1>2. CASE p \in ByInode(cwd, f, root)
  BY <1>1, <1>2 DEF RelocateInv, InodeTrusted, ByInode, IsOwn
<1>3. CASE p \in ByStart(cwd, f, root)
  BY <1>1, <1>3 DEF ByStart, IsOwn
<1>4. QED
  BY <1>2, <1>3 DEF Match

----------------------------------------------------------------------------
(* The invariant.                                                          *)

LEMMA RelocateInvInit == RelocateInit => RelocateInv
<1> SUFFICES ASSUME RelocateInit PROVE RelocateInv
  OBVIOUS
<1>1. RelocateTypes
  BY DEF RelocateInit, RelocateTypes, NoEntry, AnyEntry
<1>2. InodesDistinct /\ InodeTrusted
  BY DEF RelocateInit, InodesDistinct, InodeTrusted, IsFile
<1>3. QED
  BY <1>1, <1>2 DEF RelocateInv

LEMMA TypesStep ==
    ASSUME RelocateTypes, [RelocateNext]_relocateVars
    PROVE  RelocateTypes'
<1> USE DEF RelocateTypes, File, AnyEntry
<1>1. CASE UNCHANGED relocateVars
  BY <1>1 DEF relocateVars
<1>2. CASE UserFiles
  <2>1. ASSUME NEW p \in Paths, NEW f \in Files, Create(p, f)
        PROVE  RelocateTypes'
    BY <2>1 DEF Create, FreeInodes, Meanwhile
  <2>2. ASSUME NEW p \in Paths, NEW f \in Files, Rewrite(p, f)
        PROVE  RelocateTypes'
    BY <2>2 DEF Rewrite, IsFile, Meanwhile
  <2>3. ASSUME NEW p \in Paths, NEW q \in Paths, Rename(p, q) \/ Exchange(p, q)
        PROVE  RelocateTypes'
    BY <2>3 DEF Rename, Exchange, Meanwhile
  <2>4. ASSUME NEW p \in Paths, Remove(p)
        PROVE  RelocateTypes'
    BY <2>4 DEF Remove, Meanwhile
  <2>5. QED
    BY <1>2, <2>1, <2>2, <2>3, <2>4 DEF UserFiles
<1>3. CASE Commit
  BY <1>3 DEF Commit, Ran
<1>4. ASSUME NEW p \in Paths, Add(p)
      PROVE  RelocateTypes'
  <2>1. disk[p].content \in Files /\ disk[p].inode \in Inodes /\ p.name \in Names
    BY <1>4 DEF Add, IsFile, Paths
  <2>2. QED
    BY <1>4, <2>1, PathsArePlaces DEF Add, Ran
<1>5. ASSUME NEW p \in Paths, Verify(p)
      PROVE  RelocateTypes'
  BY <1>5, PathsArePlaces DEF Verify, Ran
<1>6. ASSUME NEW f \in Files, NEW p \in Paths, Mv(f, p)
      PROVE  RelocateTypes'
  <2>1. p.name \in Names
    BY DEF Paths
  <2>2. QED
    BY <1>6, <2>1, PathsArePlaces DEF Mv, Ran
<1>7. ASSUME NEW cwd \in Dirs, NEW root \in Roots, NEW f \in Files, Find(cwd, f, root)
      PROVE  RelocateTypes'
  <2>1. PICK p \in Found(cwd, f, root) : entry' = [entry EXCEPT ![f].last = p]
    BY <1>7 DEF Find
  <2>2. p \in Places
    BY DEF Found, FilesUnder
  <2>3. QED
    BY <1>7, <2>1, <2>2 DEF Find, Ran
<1>8. ASSUME NEW cwd \in Dirs, NEW root \in Roots, Reindex(cwd, root)
      PROVE  RelocateTypes'
  <2>1. PICK match \in [Files -> Places \cup {None}] :
            entry' = [f \in Files |-> [entry[f] EXCEPT !.last = match[f]]]
    BY <1>8 DEF Reindex
  <2>2. \A f \in Files : [entry[f] EXCEPT !.last = match[f]] \in AnyEntry
    OBVIOUS
  <2>3. QED
    BY <1>8, <2>1, <2>2 DEF Reindex, Ran
<1>9. ASSUME NEW cwd \in Dirs, NEW root \in Roots, FixRenames(cwd, root)
      PROVE  RelocateTypes'
  <2>1. PICK match \in [Files -> Paths \cup {None}] :
            entry' = [f \in Files |->
                        IF match[f] = None THEN entry[f]
                        ELSE [entry[f] EXCEPT !.last = match[f], !.name = match[f].name]]
    BY <1>9 DEF FixRenames
  <2>2. \A f \in Files : match[f] # None => match[f] \in Places /\ match[f].name \in Names
    BY PathsArePlaces DEF Paths
  <2>3. QED
    BY <1>9, <2>1, <2>2 DEF FixRenames, Ran
<1>10. QED
  BY <1>1, <1>2, <1>3, <1>4, <1>5, <1>6, <1>7, <1>8, <1>9 DEF RelocateNext, Command

\* Add alone sets an entry's inode: that of the file it adds.
LEMMA AddStep ==
    ASSUME RelocateInv, NEW p \in Paths, Add(p)
    PROVE  (InodesDistinct /\ InodeTrusted)'
<1> DEFINE f == disk[p].content
<1>1. disk' = disk /\ IsFile(p) /\ f \in Files
  BY DEF Add, Ran, RelocateInv, RelocateTypes, IsFile, File
<1>2. entry' = [entry EXCEPT ![f] = [state |-> "staged", last |-> p, name |-> p.name,
                                     inode |-> disk[p].inode]]
  BY DEF Add
<1>3. ASSUME NEW g \in Files, NEW q \in Paths, IsFile(q), disk[q].inode = entry'[g].inode
      PROVE  disk[q].content = g
  <2>1. CASE g = f
    <3>1. entry'[g].inode = disk[p].inode
      BY <1>1, <1>2, <2>1 DEF RelocateInv, RelocateTypes
    <3>2. q = p
      BY <1>1, <1>3, <3>1 DEF RelocateInv, InodesDistinct
    <3>3. QED
      BY <2>1, <3>2
  <2>2. CASE g # f
    <3>1. entry'[g] = entry[g]
      BY <1>2, <2>2 DEF RelocateInv, RelocateTypes
    <3>2. QED
      BY <1>3, <3>1 DEF RelocateInv, InodeTrusted
  <2>3. QED
    BY <2>1, <2>2
<1>4. QED
  BY <1>1, <1>3 DEF RelocateInv, InodesDistinct, InodeTrusted, IsFile

\* The other commands set last_path, the name and the state of entries.
LEMMA CommandStep ==
    ASSUME RelocateInv, NEW cwd \in Dirs, Command(cwd)
    PROVE  (InodesDistinct /\ InodeTrusted)'
<1>1. CASE \E p \in Paths : Add(p)
  BY <1>1, AddStep
<1>2. CASE ~\E p \in Paths : Add(p)
  <2>1. UNCHANGED disk
    BY <1>2 DEF Command, Commit, Verify, Mv, Find, Reindex, FixRenames, Ran
  <2>2. \A f \in Files : entry'[f].inode = entry[f].inode
    <3> USE DEF RelocateInv, RelocateTypes, AnyEntry
    <3>1. CASE Commit
      BY <3>1 DEF Commit
    <3>2. CASE \E p \in Paths : Verify(p)
      BY <3>2 DEF Verify
    <3>3. CASE \E f \in Files, p \in Paths : Mv(f, p)
      BY <3>3 DEF Mv
    <3>4. CASE \E root \in Roots, f \in Files : Find(cwd, f, root)
      BY <3>4 DEF Find
    <3>5. CASE \E root \in Roots : Reindex(cwd, root)
      BY <3>5 DEF Reindex
    <3>6. CASE \E root \in Roots : FixRenames(cwd, root)
      BY <3>6 DEF FixRenames
    <3>7. QED
      BY <1>2, <3>1, <3>2, <3>3, <3>4, <3>5, <3>6 DEF Command
  <2>3. QED
    BY <2>1, <2>2 DEF RelocateInv, InodesDistinct, InodeTrusted, IsFile
<1>3. QED
  BY <1>1, <1>2

\* Files that move keep their inodes; a new one, or one that is rewritten, has
\* an inode that no entry records.
LEMMA UserFilesStep ==
    ASSUME RelocateInv, ~Edits, ~Reuse, UserFiles
    PROVE  (InodesDistinct /\ InodeTrusted)'
<1> USE DEF RelocateInv, RelocateTypes, InodesDistinct, InodeTrusted, IsFile, File, Meanwhile
<1>1. ASSUME NEW p \in Paths, NEW f \in Files, Create(p, f)
      PROVE  (InodesDistinct /\ InodeTrusted)'
  <2>1. PICK i \in FreeInodes : disk' = [disk EXCEPT ![p] = [content |-> f, inode |-> i]]
    BY <1>1 DEF Create
  <2>2. /\ i \in Inodes
        /\ \A q \in Paths : IsFile(q) => disk[q].inode # i
        /\ \A g \in Files : entry[g].inode # i
    BY DEF FreeInodes, InUse, Recorded
  <2>3. QED
    BY <1>1, <2>1, <2>2 DEF Create
<1>2. ASSUME NEW p \in Paths, NEW f \in Files, Rewrite(p, f)
      PROVE  (InodesDistinct /\ InodeTrusted)'
  <2>1. \A g \in Files : entry[g].inode # disk[p].inode
    BY <1>2 DEF Rewrite, Recorded
  <2>2. QED
    BY <1>2, <2>1 DEF Rewrite
<1>3. ASSUME NEW p \in Paths, NEW q \in Paths, Rename(p, q)
      PROVE  (InodesDistinct /\ InodeTrusted)'
  BY <1>3 DEF Rename
<1>4. ASSUME NEW p \in Paths, NEW q \in Paths, Exchange(p, q)
      PROVE  (InodesDistinct /\ InodeTrusted)'
  BY <1>4 DEF Exchange
<1>5. ASSUME NEW p \in Paths, Remove(p)
      PROVE  (InodesDistinct /\ InodeTrusted)'
  BY <1>5 DEF Remove
<1>6. QED
  BY <1>1, <1>2, <1>3, <1>4, <1>5 DEF UserFiles

\* While no recorded inode is rewritten or given away, recorded inodes can be
\* trusted.
THEOREM InodesTrusted ==
    ASSUME ~Edits, ~Reuse PROVE RelocateSpec => []RelocateInv
<1>1. RelocateInv /\ UNCHANGED relocateVars => RelocateInv'
  BY DEF relocateVars, RelocateInv, RelocateTypes, InodesDistinct, InodeTrusted, IsFile
<1>2. RelocateInv /\ [RelocateNext]_relocateVars => RelocateInv'
  BY <1>1, TypesStep, CommandStep, UserFilesStep DEF RelocateNext, RelocateInv
<1> QED
  BY RelocateInvInit, <1>2, PTL DEF RelocateSpec

----------------------------------------------------------------------------
(* The properties.                                                         *)

\* A command leaves last_path alone or, but for mv, sets it to the entry's file.
LEMMA OnlyOntoOwn ==
    ASSUME RelocateInv, Twins = {}, NEW cwd \in Dirs, Command(cwd), NEW f \in Files,
           entry[f].last # entry'[f].last, ran' # "mv"
    PROVE  IsOwn(f, At(cwd, entry'[f].last))
<1> USE DEF RelocateInv, RelocateTypes
<1>2. CASE Commit
  BY <1>2 DEF Commit, AnyEntry
<1>3. ASSUME NEW p \in Paths, Add(p)
      PROVE  IsOwn(f, At(cwd, entry'[f].last))
  <2>1. f = disk[p].content /\ entry'[f].last = p
    BY <1>3 DEF Add
  <2>2. QED
    BY <1>3, <2>1, AtAbsolute DEF Add, IsOwn
<1>4. ASSUME NEW p \in Paths, Verify(p)
      PROVE  IsOwn(f, At(cwd, entry'[f].last))
  <2>1. f \in Proven(p) /\ entry'[f].last = p
    BY <1>4 DEF Verify, AnyEntry
  <2>2. disk[p].content = f
    BY <2>1, HashesDiffer DEF Proven, Digest, VerifyDigest
  <2>3. QED
    BY <1>4, <2>1, <2>2, AtAbsolute DEF Verify, IsOwn
<1>5. ASSUME NEW g \in Files, NEW p \in Paths, Mv(g, p)
      PROVE  FALSE
  BY <1>5 DEF Mv, Ran
<1>6. ASSUME NEW root \in Roots, NEW g \in Files, Find(cwd, g, root)
      PROVE  IsOwn(f, At(cwd, entry'[f].last))
  <2>1. PICK p \in Found(cwd, g, root) : entry' = [entry EXCEPT ![g].last = p]
    BY <1>6 DEF Find
  <2>2. f = g /\ entry'[f].last = p
    BY <2>1 DEF AnyEntry
  <2>3. QED
    BY <2>2, CandidateIsOwn DEF Found
<1>7. ASSUME NEW root \in Roots, Reindex(cwd, root)
      PROVE  IsOwn(f, At(cwd, entry'[f].last))
  <2>1. entry'[f].last \in Found(cwd, f, root)
    BY <1>7 DEF Reindex, AnyEntry
  <2>2. QED
    BY <2>1, CandidateIsOwn DEF Found
<1>8. ASSUME NEW root \in Roots, FixRenames(cwd, root)
      PROVE  IsOwn(f, At(cwd, entry'[f].last))
  <2>1. entry'[f].last \in Match(cwd, f, root)
    BY <1>8 DEF FixRenames, AnyEntry
  <2>2. QED
    BY <2>1, MatchIsOwn
<1>9. QED
  BY <1>2, <1>3, <1>4, <1>5, <1>6, <1>7, <1>8 DEF Command

\* However files are moved, and in whatever directories the commands are run, none
\* but mv points an entry at a file of another content, if no two files have one
\* size and one first chunk.
THEOREM OnlyOwnFile ==
    ASSUME ~Edits, ~Reuse, Twins = {} PROVE RelocateSpec => OnlyOntoOwnFile
<1>1. RelocateInv
      => [\A f \in Files, cwd \in Dirs :
            /\ entry[f].last # entry'[f].last /\ ran' # "mv"
            /\ Command(cwd)
            => IsOwn(f, At(cwd, entry'[f].last))]_relocateVars
  BY OnlyOntoOwn
<1> QED
  BY <1>1, InodesTrusted, PTL DEF OnlyOntoOwnFile

\* fix-renames finds every renamed file it can be expected to.
THEOREM FixRenamesFollows ==
    ASSUME ~Edits, ~Reuse, Twins = {} PROVE RelocateSpec => RenamesFollowed
<1>1. ASSUME RelocateInv, NEW cwd \in Dirs, NEW root \in Roots, NEW f \in Missing(cwd),
             NEW p \in Paths, p.dir \in AbsPath(cwd, root), IsOwn(f, p),
             p \notin {entry[g].last : g \in Live},
             f \in Videos \/ disk[p].inode = entry[f].inode, FixRenames(cwd, root)
      PROVE  IsOwn(f, entry'[f].last)
  <2>1. f \in Files /\ p \in Unclaimed(cwd, root)
    BY <1>1, AtAbsolute DEF Missing, Live, Unclaimed, FilesUnder, IsOwn, Paths, Places
  <2>2. Match(cwd, f, root) # {}
    BY <1>1, <2>1 DEF Match, ByInode, ByStart, IsOwn
  <2>3. entry'[f].last \in Match(cwd, f, root)
    <3>1. PICK match \in [Files -> Paths \cup {None}] :
            /\ match[f] \in Match(cwd, f, root)
            /\ entry'[f] = IF match[f] = None THEN entry[f]
                           ELSE [entry[f] EXCEPT !.last = match[f], !.name = match[f].name]
      BY <1>1, <2>1, <2>2 DEF FixRenames
    <3>2. match[f] # None
      BY <1>1, <2>1, <3>1, MatchIsOwn
    <3>3. QED
      BY <1>1, <2>1, <3>1, <3>2 DEF RelocateInv, RelocateTypes, AnyEntry
  <2>4. QED
    BY <1>1, <2>1, <2>3, MatchIsOwn
<1>2. RelocateInv
      => [\A cwd \in Dirs : \A root \in Roots, f \in Missing(cwd), p \in Paths :
            /\ p.dir \in AbsPath(cwd, root) /\ IsOwn(f, p)
            /\ p \notin {entry[g].last : g \in Live}
            /\ f \in Videos \/ disk[p].inode = entry[f].inode
            /\ FixRenames(cwd, root)
            => IsOwn(f, entry'[f].last)]_relocateVars
  BY <1>1
<1> QED
  BY <1>2, InodesTrusted, PTL DEF RenamesFollowed

\* reindex mends every entry whose file the root holds, as seen from the
\* directory it is run in, if no file is audio: add hashes audio by chunks,
\* reindex does not.
THEOREM ReindexMends ==
    ASSUME Audio = {} PROVE RelocateSpec => ReindexRelocates
<1>1. ASSUME RelocateTypes, NEW cwd \in Dirs, NEW root \in Roots, NEW f \in Live,
             NEW p \in FilesUnder(cwd, root), IsOwn(f, At(cwd, p)),
             p.name = entry[f].name, Reindex(cwd, root)
      PROVE  IsOwn(f, At(cwd, entry'[f].last))
  <2>1. VerifyCandidate(f, At(cwd, p))
    BY <1>1 DEF VerifyCandidate, Digest, IsOwn
  <2>2. p \in Found(cwd, f, root)
    BY <1>1, <2>1 DEF Found
  <2>3. PICK match \in [Files -> Places \cup {None}] :
          /\ IF Stale(cwd, f) THEN match[f] \in Found(cwd, f, root)
             ELSE match[f] = entry[f].last
          /\ entry'[f] = [entry[f] EXCEPT !.last = match[f]]
    BY <1>1, <2>2 DEF Reindex, Live
  <2>4. entry'[f].last = match[f]
    BY <2>3 DEF RelocateTypes, AnyEntry, Live
  <2>5. VerifyCandidate(f, At(cwd, match[f]))
    BY <2>3 DEF Stale, Found
  <2>6. QED
    BY <2>4, <2>5, CandidateIsOwn
<1>2. RelocateTypes
      => [\A cwd \in Dirs : \A root \in Roots, f \in Live : \A p \in FilesUnder(cwd, root) :
            IsOwn(f, At(cwd, p)) /\ p.name = entry[f].name /\ Reindex(cwd, root)
            => IsOwn(f, At(cwd, entry'[f].last))]_relocateVars
  BY <1>1
<1>3. RelocateInit => RelocateTypes
  BY RelocateInvInit DEF RelocateInv
<1> QED
  BY <1>2, <1>3, TypesStep, PTL DEF RelocateSpec, ReindexRelocates
==============================================================================
