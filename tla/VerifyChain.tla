----------------------------- MODULE VerifyChain -----------------------------
(***************************************************************************)
(* ott's ledger and the Bitcoin chain: commits take a block, broadcasts     *)
(* come into blocks, the chain is reorganised, and verify-chain asks an     *)
(* explorer for the block at each recorded height.                         *)
(*                                                                         *)
(* A commitment is the pair it is a hash of, and a block hash tells the     *)
(* block's height, 0 for the synthetic one of an offline commit.  Only one *)
(* of the two networks is there, and the explorer is up to date.  Of an    *)
(* OP_RETURN's script there is only which commitment it carries, and how   *)
(* it is encoded.                                                          *)
(***************************************************************************)
EXTENDS OttAnchor

CONSTANTS
    Blocks,     \* that may be mined
    Synthetic   \* block hashes that ott may make up

ASSUME HeightsAssumption ==
    /\ \A b \in Blocks : b.height \in Nat \ {0}
    /\ \A b \in Synthetic : b.height = 0
ASSUME CommitmentsAssumption == \A c \in Commitments : c.block \in Blocks \cup Synthetic

VARIABLES
    chain,    \* the blocks of the chain, by height
    content   \* the transactions in each block that has been mined

chainVars == <<anchorVars, chain, content>>

ChainInit ==
    /\ AnchorInit
    /\ chain = <<>>
    /\ content = [b \in {} |-> {}]

----------------------------------------------------------------------------
Mined == DOMAIN content
Confirmed == UNION {content[chain[h]] : h \in DOMAIN chain}

Mine ==
    /\ \E b \in Blocks \ Mined, new \in SUBSET (DOMAIN txs \ Confirmed) :
         /\ b.height = Len(chain) + 1
         /\ chain' = Append(chain, b)
         /\ content' = [d \in Mined \cup {b} |-> IF d = b THEN new ELSE content[d]]
    /\ UNCHANGED anchorVars

\* the last block is orphaned
Reorganise ==
    /\ chain # <<>>
    /\ chain' = SubSeq(chain, 1, Len(chain) - 1)
    /\ UNCHANGED <<anchorVars, content>>

\* cmd_commit's block is the tip an explorer served, which may be behind, or a
\* synthetic one; nobody can name a commitment to a block that is still to come
Known(c) == c.block \in Mined \cup Synthetic

Anchoring ==
    /\ AnchorNext
    /\ \A i \in DOMAIN rows' : Known(rows'[i].commitment)
    /\ \A p \in Sessions : ses'[p].arg # None => Known(ses'[p].arg)
    /\ UNCHANGED <<chain, content>>

ChainNext == Anchoring \/ Mine \/ Reorganise

ChainSpec == ChainInit /\ [][ChainNext]_chainVars

----------------------------------------------------------------------------
(* verify-chain.                                                           *)

\* Mutant: any block that the explorer has at the height will do.
HashOk_AnyHash(c) == c.block.height \in DOMAIN chain

\* the commitment is recomputed from the row itself, which the pair stands for
HashOk(c) == c.block.height \in DOMAIN chain /\ chain[c.block.height] = c.block

\* broadcast_commitment hands its hex digits to the library as text, so that the
\* script has a byte for each digit; a bump's transaction has no OP_RETURN
Scripts(b) ==
    {[encoding |-> "text", commitment |-> txs[t].commitment] :
        t \in {u \in content[b] : txs[u].op = "broadcast"}}

\* check_op_return looks for the digits themselves in the script's hex; the
\* explorer may fail to answer
CheckOpReturn(b, c, answered) ==
    answered /\ [encoding |-> "hex", commitment |-> c] \in Scripts(b)

\* `verify-chain -c` finds the transaction of c: it asks for the recorded block
OpReturnFound(c, answered) == HashOk(c) /\ CheckOpReturn(c.block, c, answered)

----------------------------------------------------------------------------
(* Properties.                                                             *)

\* the heights at which the chain has a transaction with commitment c
HeightsOf(c) ==
    {h \in DOMAIN chain :
        \E t \in content[chain[h]] : txs[t].op = "broadcast" /\ txs[t].commitment = c}

\* What anchoring is for: a commit whose block hash verify-chain accepts was made
\* after that block and before any block that has its transaction, whatever the
\* chain did in between.
MadeBetweenBlocks ==
    \A i \in DOMAIN rows :
        HashOk(rows[i].commitment) =>
            \A h \in HeightsOf(rows[i].commitment) : rows[i].commitment.block.height < h

\* "-c also checks the OP_RETURN landed" (README): for a commit that verifies and
\* whose transaction has landed, an explorer that answers leads to it.  The code
\* breaks this, by what it looks for and by where.
LandedIsFound ==
    \A i \in DOMAIN rows :
        HashOk(rows[i].commitment) /\ HeightsOf(rows[i].commitment) # {}
            => OpReturnFound(rows[i].commitment, TRUE)
=============================================================================
