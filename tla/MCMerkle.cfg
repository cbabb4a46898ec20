SPECIFICATION MerkleSpec
CONSTANTS
    Hashes = {a, b, c, d}
    Zero = zero
    MaxLeaves = 5
INVARIANTS
    ProofsVerify
    ProofsBind
    ChunksBind
    
CHECK_DEADLOCK FALSE
