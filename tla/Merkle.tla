-------------------------------- MODULE Merkle --------------------------------
(***************************************************************************)
(* merkle_root, merkle_proof and verify_proof of ott.py, the functions     *)
(* every root in the repository is computed by: the archive's, a video's,  *)
(* a trace's and a fleet's (trace.py and fleet.py repeat merkle_root).     *)
(*                                                                         *)
(* SHA-256 is taken to be injective: the hash of two hashes is their pair. *)
(* The state is a list of leaves that grows one leaf at a time, as the     *)
(* manifest, a chunk list and a trace do.                                  *)
(***************************************************************************)
EXTENDS Integers, Sequences

CONSTANTS
    Hashes,    \* the hashes leaves are taken from
    Zero,      \* '0' * 64
    MaxLeaves  \* bound on the length of the list

VARIABLE leaves

----------------------------------------------------------------------------
\* Mutant: an odd layer loses its last node instead of doubling it.
Padded_Dropped(layer) ==
    IF Len(layer) % 2 = 1 THEN SubSeq(layer, 1, Len(layer) - 1) ELSE layer

Padded(layer) ==
    IF Len(layer) % 2 = 1 THEN Append(layer, layer[Len(layer)]) ELSE layer

Above(layer) ==
    LET even == Padded(layer)
    IN  [i \in 1 .. Len(even) \div 2 |-> <<even[2 * i - 1], even[2 * i]>>]

\* The layers of the tree, the leaves first; the last one is repeated.
Layers(ls) ==
    LET layer[n \in 0 .. Len(ls)] ==
          IF n = 0 THEN ls
          ELSE IF Len(layer[n - 1]) > 1 THEN Above(layer[n - 1]) ELSE layer[n - 1]
    IN  layer

Height(ls) == CHOOSE n \in 0 .. Len(ls) :
                  /\ Len(Layers(ls)[n]) <= 1
                  /\ \A m \in 0 .. n - 1 : Len(Layers(ls)[m]) > 1

\* merkle_root
Root(ls) == IF ls = <<>> THEN Zero ELSE Layers(ls)[Height(ls)][1]

\* merkle_proof's idx on each layer, counted from 0, for the i-th leaf
Index(ls, i) ==
    LET idx[n \in 0 .. Len(ls)] == IF n = 0 THEN i - 1 ELSE idx[n - 1] \div 2
    IN  idx

\* Mutant: the side is that of the parent.
OnLeft_Halved(idx) == (idx \div 2) % 2 = 0

OnLeft(idx) == idx % 2 = 0

\* merkle_proof
Proof(ls, i) ==
    [n \in 1 .. Height(ls) |->
        LET idx == Index(ls, i)[n - 1]
            sibling == IF idx % 2 = 0 THEN idx + 1 ELSE idx - 1   \* idx ^ 1
        IN  [sibling |-> Padded(Layers(ls)[n - 1])[sibling + 1], right |-> OnLeft(idx)]]

\* Mutant: a left sibling is hashed with itself.
Fold_SiblingTwice(leaf, proof) ==
    LET h[n \in 0 .. Len(proof)] ==
          IF n = 0 THEN leaf
          ELSE IF proof[n].right THEN <<h[n - 1], proof[n].sibling>>
          ELSE <<proof[n].sibling, proof[n].sibling>>
    IN  h[Len(proof)]

Fold(leaf, proof) ==
    LET h[n \in 0 .. Len(proof)] ==
          IF n = 0 THEN leaf
          ELSE IF proof[n].right THEN <<h[n - 1], proof[n].sibling>>
          ELSE <<proof[n].sibling, h[n - 1]>>
    IN  h[Len(proof)]

\* verify_proof
VerifyProof(leaf, proof, root) == Fold(leaf, proof) = root

\* leaves.index(digest)
IsIndex(i, ls, digest) == ls[i] = digest /\ \A j \in 1 .. i - 1 : ls[j] # digest

\* cmd_verify, of a digest recomputed from the file or found in the manifest
Verifies(digest, manifest) ==
    \E i \in DOMAIN manifest :
        /\ IsIndex(i, manifest, digest)
        /\ VerifyProof(digest, Proof(manifest, i), Root(manifest))

\* Mutant: the digest in the manifest is proved, not the chunks' own root.
VerifiesChunk_Digest(block, chunks, i, digest, manifest) ==
    /\ block = chunks[i]
    /\ VerifyProof(chunks[i], Proof(chunks, i), Root(chunks))
    /\ Verifies(digest, manifest)

\* cmd_verify_chunk with no mark but good ones: the i-th block of the file hashes
\* to the i-th of the chunks stored under digest, their proof holds, and so does
\* that of their root in digest's place in the manifest
VerifiesChunk(block, chunks, i, digest, manifest) ==
    /\ block = chunks[i]
    /\ VerifyProof(chunks[i], Proof(chunks, i), Root(chunks))
    /\ \E j \in DOMAIN manifest :
          /\ IsIndex(j, manifest, digest)
          /\ VerifyProof(Root(chunks), Proof(manifest, j), Root(manifest))

----------------------------------------------------------------------------
MerkleInit == leaves = <<>>

AddLeaf(h) ==
    /\ Len(leaves) < MaxLeaves
    /\ leaves' = Append(leaves, h)

MerkleNext == \E h \in Hashes : AddLeaf(h)

MerkleSpec == MerkleInit /\ [][MerkleNext]_leaves

----------------------------------------------------------------------------
(* Properties.                                                             *)

\* ott verify proves every file of the manifest, whatever the shape of the tree,
\* and a fleet's or a trace's leaf is proved the same way.
ProofsVerify ==
    \A i \in DOMAIN leaves :
        /\ VerifyProof(leaves[i], Proof(leaves, i), Root(leaves))
        /\ Verifies(leaves[i], leaves)

\* A proof verifies no other hash in its leaf's place.
ProofsBind ==
    \A i \in DOMAIN leaves, h \in Hashes :
        VerifyProof(h, Proof(leaves, i), Root(leaves)) => h = leaves[i]

\* ott verify-chunk is not deceived by a change of both a chunk and its stored
\* hash: all its marks are good only if the chunks are those that were archived,
\* wherever the file is in the manifest.
ChunksBind ==
    \A i, k \in DOMAIN leaves, h \in Hashes, at \in 1 .. 3 :
        LET chunks == [leaves EXCEPT ![k] = h]
            manifest == [n \in 1 .. 3 |-> IF n = at THEN Root(leaves) ELSE Zero]
        IN  VerifiesChunk(chunks[i], chunks, i, Root(leaves), manifest) <=> chunks = leaves

Distinct(ls) == \A i, j \in DOMAIN ls : ls[i] = ls[j] => i = j
ListsUpTo(n) == UNION {[1 .. k -> Hashes] : k \in 0 .. n}

\* Manifests, whose leaves are all different, never share a root: a commit
\* pins down its files and their order.
ManifestRootsDiffer ==
    Distinct(leaves) =>
        \A other \in ListsUpTo(MaxLeaves) :
            Distinct(other) /\ Root(other) = Root(leaves) => other = leaves
=============================================================================
