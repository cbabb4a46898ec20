------------------------------ MODULE OttAnchor ------------------------------
(***************************************************************************)
(* How ott puts a commitment on the chain: cmd_broadcast and cmd_bump_fee, *)
(* which send a transaction and then write its hash into ledger.jsonl by   *)
(* update_ledger_entry, the one writer of that file that does not append.  *)
(*                                                                         *)
(* Of cmd_commit only the last step is kept, its append (OttArchive has    *)
(* the rest).  Two commits of an unchanged archive on the same block have  *)
(* the same commitment.  A transaction hash is the transaction's number.   *)
(***************************************************************************)
EXTENDS Integers, Sequences

CONSTANTS
    Sessions,     \* running ott processes
    Commitments,
    None,         \* no commitment
    Crashes,      \* may a command be cut short?
    TornWrites,   \* may it be cut short while it rewrites the ledger?
    MaxRows,      \* bound on the ledger
    MaxTxs        \* bound on the transactions

ASSUME NoCommitmentAssumption == None \notin Commitments

VARIABLES
    rows,  \* ledger.jsonl: commitment, tx_hash, bump_tx_hashes
    txs,   \* the transactions sent
    ses    \* the command each session is running

anchorVars == <<rows, txs, ses>>

NoTx == 0
Idle == [op |-> "none", pc |-> "idle", arg |-> None, tx |-> NoTx,
         bumps |-> <<>>, rows |-> <<>>]

AnchorInit ==
    /\ rows = <<>>
    /\ txs = <<>>
    /\ ses = [p \in Sessions |-> Idle]

At(p, step) == ses[p].pc = step
Return(p) == ses' = [ses EXCEPT ![p] = Idle]
Last == rows[Len(rows)]

AppendCommit(p, c) ==
    /\ At(p, "idle") /\ Len(rows) < MaxRows
    /\ rows' = Append(rows, [commitment |-> c, tx |-> NoTx, bumps |-> <<>>])
    /\ UNCHANGED <<txs, ses>>

----------------------------------------------------------------------------
(* Sending.                                                                *)

\* the commitment is given, or it is the most recent commit's
BroadcastBegin(p, c) ==
    /\ At(p, "idle")
    /\ ses' = [ses EXCEPT ![p] = [Idle EXCEPT !.op = "broadcast", !.pc = "send",
                                              !.arg = c]]
    /\ UNCHANGED <<rows, txs>>

\* whatever the wallet has pending is spent, be it a broadcast's change or not
BumpBegin(p) ==
    /\ At(p, "idle")
    /\ ses' = [ses EXCEPT ![p] = [Idle EXCEPT !.op = "bump", !.pc = "send"]]
    /\ UNCHANGED <<rows, txs>>

\* broadcast_commitment, bump_fee
Send(p) ==
    /\ At(p, "send") /\ Len(txs) < MaxTxs
    /\ txs' = Append(txs, [op |-> ses[p].op, commitment |-> ses[p].arg])
    /\ ses' = [ses EXCEPT ![p].tx = Len(txs) + 1,
                          ![p].pc = IF ses[p].op = "bump" THEN "last" ELSE "load"]
    /\ UNCHANGED rows

\* no bit library, no balance, or the library raises
SendFails(p) ==
    /\ At(p, "send")
    /\ Return(p)
    /\ UNCHANGED <<rows, txs>>

----------------------------------------------------------------------------
(* Recording.                                                              *)

\* a bump goes to the most recent entry, after those already there
BumpLast(p) ==
    /\ At(p, "last")
    /\ IF rows = <<>> THEN Return(p)
       ELSE ses' = [ses EXCEPT ![p].pc = "load", ![p].arg = Last.commitment,
                               ![p].bumps = Append(Last.bumps, ses[p].tx)]
    /\ UNCHANGED <<rows, txs>>

Patch(r, s) == IF s.op = "bump" THEN [r EXCEPT !.bumps = s.bumps] ELSE [r EXCEPT !.tx = s.tx]

\* Mutant: only the first entry that matches is patched.
Matching_First(s) ==
    {i \in DOMAIN rows : /\ rows[i].commitment = s.arg
                         /\ \A j \in 1 .. i - 1 : rows[j].commitment # s.arg}

Matching(s) == {i \in DOMAIN rows : rows[i].commitment = s.arg}

\* Mutant: the entry patched is the most recent one.
UpdateLoad_Latest(p) ==
    /\ At(p, "load")
    /\ IF Matching(ses[p]) = {} THEN Return(p)
       ELSE ses' = [ses EXCEPT ![p].pc = "open",
                      ![p].rows = [rows EXCEPT ![Len(rows)] = Patch(@, ses[p])]]
    /\ UNCHANGED <<rows, txs>>

\* update_ledger_entry: load and patch ...
UpdateLoad(p) ==
    /\ At(p, "load")
    /\ IF Matching(ses[p]) = {} THEN Return(p)
       ELSE ses' = [ses EXCEPT ![p].pc = "open",
                      ![p].rows = [i \in DOMAIN rows |->
                                     IF i \in Matching(ses[p]) THEN Patch(rows[i], ses[p])
                                     ELSE rows[i]]]
    /\ UNCHANGED <<rows, txs>>

\* ... truncate ...
OpenLedger(p) ==
    /\ At(p, "open")
    /\ rows' = <<>>
    /\ ses' = [ses EXCEPT ![p].pc = "flush"]
    /\ UNCHANGED txs

\* ... and write every line, over whatever was appended in between
FlushLedger(p) ==
    /\ At(p, "flush")
    /\ rows' = ses[p].rows
    /\ Return(p)
    /\ UNCHANGED txs

\* The command stops here; of a rewritten file the first lines are there.
Die(p) ==
    /\ Crashes /\ ~At(p, "idle")
    /\ IF At(p, "flush")
       THEN TornWrites /\ \E n \in 0 .. Len(ses[p].rows) : rows' = SubSeq(ses[p].rows, 1, n)
       ELSE UNCHANGED rows
    /\ Return(p)
    /\ UNCHANGED txs

AnchorStep(p) ==
    \/ \E c \in Commitments : AppendCommit(p, c) \/ BroadcastBegin(p, c)
    \/ BumpBegin(p) \/ Send(p) \/ SendFails(p) \/ BumpLast(p)
    \/ UpdateLoad(p) \/ OpenLedger(p) \/ FlushLedger(p)
    \/ Die(p)

AnchorNext == \E p \in Sessions : AnchorStep(p)

AnchorSpec == AnchorInit /\ [][AnchorNext]_anchorVars

----------------------------------------------------------------------------
(* Properties.                                                             *)

\* The tx_hash of an entry is that of a transaction which carries the entry's
\* own commitment, whatever was committed, broadcast and bumped in between.
TxCarriesCommitment ==
    \A i \in DOMAIN rows :
        rows[i].tx # NoTx => /\ txs[rows[i].tx].op = "broadcast"
                             /\ txs[rows[i].tx].commitment = rows[i].commitment

\* "Records the resulting tx_hash back onto the matching ledger entry so `ott
\* status` doesn't have to re-derive it" (cmd_broadcast): a broadcast that is not
\* cut short after it sent leaves no entry with its commitment unrecorded.
BroadcastRecorded ==
    [][\A p \in Sessions :
         /\ ses[p].op = "broadcast" /\ At(p, "idle")'
         /\ UpdateLoad(p) \/ FlushLedger(p)
         => \A i \in DOMAIN rows' :
              rows'[i].commitment = ses[p].arg => rows'[i].tx # NoTx]_anchorVars

\* The ledger as it is, or as it will be when the rewrite under way is done.
Ledger ==
    IF \E p \in Sessions : At(p, "flush")
    THEN ses[CHOOSE p \in Sessions : At(p, "flush")].rows ELSE rows

\* "Ledger entries are chronological (append-only)" (_never_committed), and
\* update_ledger_entry, "the one exception", patches them "in place": no commit,
\* and no record that one was broadcast, is ever taken out.  It takes one session.
LedgerOnlyGrows ==
    [][\A i \in DOMAIN Ledger :
         /\ i \in DOMAIN Ledger'
         /\ Ledger'[i].commitment = Ledger[i].commitment
         /\ Ledger[i].tx # NoTx => Ledger'[i].tx # NoTx]_anchorVars

\* "Recorded bump tx on the most recent ledger entry" (cmd_bump_fee): what the
\* entries before it say of their own bumps stays.  The code breaks this: the
\* entries may have the last one's commitment.
BumpOnLatestOnly ==
    [][\A i \in DOMAIN Ledger :
         i < Len(Ledger) /\ i \in DOMAIN Ledger' =>
             Ledger'[i].bumps = Ledger[i].bumps]_anchorVars
=============================================================================
