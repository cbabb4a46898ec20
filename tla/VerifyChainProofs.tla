--------------------------- MODULE VerifyChainProofs ---------------------------
(***************************************************************************)
(* Anchoring and verify-chain, for any sessions and blocks.                *)
(*                                                                         *)
(* What update_ledger_entry does to the ledger: the tx_hash of an entry    *)
(* belongs to the entry's own commitment, and is recorded, with any number *)
(* of sessions and crashes; and one session's rewrites lose nothing.  What *)
(* verify-chain accepts was made between its block and the block of its    *)
(* transaction, whatever blocks are mined and taken back.                  *)
(***************************************************************************)
EXTENDS VerifyChain, TLAPS

Tx == [op : {"broadcast", "bump"}, commitment : Commitments \cup {None}]
AnyRow == [commitment : Commitments, tx : Nat, bumps : Seq(Nat)]
Session == [op : {"none", "broadcast", "bump"},
            pc : {"idle", "send", "last", "load", "open", "flush"},
            arg : Commitments \cup {None},
            tx : Nat, bumps : Seq(Nat), rows : Seq(AnyRow)]

\* t is the number of a broadcast of commitment c
Broadcasts(t, c) == /\ t \in DOMAIN txs
                    /\ txs[t].op = "broadcast" /\ txs[t].commitment = c

RowOK(r) == r.tx # NoTx => Broadcasts(r.tx, r.commitment)
RowsOK(rs) == \A i \in DOMAIN rs : RowOK(rs[i])

\* a session about to record a broadcast holds the transaction of its argument
InHand(s) == s.pc = "load" /\ s.op # "bump" => Broadcasts(s.tx, s.arg)

\* what a session that sends, or has sent, is running
OpOK(s) == /\ s.pc = "send" => s.op \in {"broadcast", "bump"}
           /\ s.pc = "last" => s.op = "bump"

Types == /\ rows \in Seq(AnyRow)
         /\ txs \in Seq(Tx)
         /\ ses \in [Sessions -> Session]

AnchorInv ==
    /\ Types
    /\ RowsOK(rows)
    /\ \A p \in Sessions : RowsOK(ses[p].rows) /\ InHand(ses[p])
    /\ \A p \in Sessions : OpOK(ses[p])

----------------------------------------------------------------------------
\* Sending a transaction leaves the earlier ones as they are.
LEMMA BroadcastStays ==
    ASSUME Types, NEW e \in Tx, txs' = Append(txs, e), NEW t, NEW c, Broadcasts(t, c)
    PROVE  Broadcasts(t, c)'
BY DEF Types, Broadcasts

LEMMA IdleTyped == Idle \in Session
BY DEF Idle, Session, NoTx

\* Patching an entry keeps it sound.
LEMMA PatchSound ==
    ASSUME NEW r \in AnyRow, NEW s \in Session, RowOK(r), s.pc = "load", InHand(s),
           r.commitment = s.arg
    PROVE  Patch(r, s) \in AnyRow /\ RowOK(Patch(r, s))
<1>1. CASE s.op = "bump"
  BY <1>1 DEF Patch, AnyRow, Session, RowOK
<1>2. CASE s.op # "bump"
  BY <1>2 DEF Patch, AnyRow, Session, RowOK, InHand
<1>3. QED
  BY <1>1, <1>2

LEMMA AnchorInvInit == AnchorInit => AnchorInv
<1> SUFFICES ASSUME AnchorInit PROVE AnchorInv
  OBVIOUS
<1>1. Types
  BY IdleTyped DEF AnchorInit, Types
<1>2. QED
  BY <1>1 DEF AnchorInit, AnchorInv, Idle, RowsOK, InHand, OpOK

\* A step that changes only session p, to a sound one.
LEMMA SessionStep ==
    ASSUME AnchorInv, NEW p \in Sessions, NEW s \in Session,
           UNCHANGED <<rows, txs>>, ses' = [ses EXCEPT ![p] = s],
           RowsOK(s.rows), InHand(s), OpOK(s)
    PROVE  AnchorInv'
<1>1. Types'
  BY DEF AnchorInv, Types
<1>2. \A q \in Sessions : ses'[q] = IF q = p THEN s ELSE ses[q]
  BY DEF AnchorInv, Types
<1>3. QED
  BY <1>1, <1>2 DEF AnchorInv, RowsOK, RowOK, InHand, Broadcasts, OpOK

LEMMA AnchorInvStep ==
    ASSUME AnchorInv, NEW p \in Sessions, AnchorStep(p)
    PROVE  AnchorInv'
<1> USE DEF At
<1>t. ses[p] \in Session
  BY DEF AnchorInv, Types
<1>i. Idle \in Session /\ RowsOK(Idle.rows) /\ InHand(Idle) /\ OpOK(Idle) /\ Idle.pc = "idle"
  BY IdleTyped DEF Idle, RowsOK, InHand, OpOK
<1>1. ASSUME NEW c \in Commitments, AppendCommit(p, c) PROVE AnchorInv'
  <2> DEFINE r == [commitment |-> c, tx |-> NoTx, bumps |-> <<>>]
  <2>1. r \in AnyRow /\ RowOK(r)
    BY DEF AnyRow, NoTx, RowOK
  <2>2. rows' = Append(rows, r) /\ UNCHANGED <<txs, ses>>
    BY <1>1 DEF AppendCommit
  <2>3. Types'
    BY <2>1, <2>2 DEF AnchorInv, Types
  <2>4. RowsOK(rows)'
    BY <2>1, <2>2 DEF AnchorInv, Types, RowsOK, RowOK, Broadcasts
  <2>5. QED
    BY <2>2, <2>3, <2>4 DEF AnchorInv, RowsOK, RowOK, InHand, Broadcasts, OpOK
<1>2. ASSUME NEW c \in Commitments, BroadcastBegin(p, c)
      PROVE  AnchorInv'
  <2> DEFINE s == [Idle EXCEPT !.op = "broadcast", !.pc = "send", !.arg = c]
  <2>1. s \in Session /\ RowsOK(s.rows) /\ InHand(s) /\ OpOK(s)
    BY <1>i DEF Idle, Session, RowsOK, InHand, OpOK
  <2>2. QED
    BY <1>2, <2>1, SessionStep DEF BroadcastBegin
<1>3. ASSUME BumpBegin(p) PROVE AnchorInv'
  <2> DEFINE s == [Idle EXCEPT !.op = "bump", !.pc = "send"]
  <2>1. s \in Session /\ RowsOK(s.rows) /\ InHand(s) /\ OpOK(s)
    BY <1>i DEF Idle, Session, RowsOK, InHand, OpOK
  <2>2. QED
    BY <1>3, <2>1, SessionStep DEF BumpBegin
<1>4. CASE Send(p)
  <2> DEFINE e == [op |-> ses[p].op, commitment |-> ses[p].arg]
             s == [ses[p] EXCEPT !.tx = Len(txs) + 1,
                                 !.pc = IF ses[p].op = "bump" THEN "last" ELSE "load"]
  <2>1. txs' = Append(txs, e) /\ rows' = rows /\ ses' = [ses EXCEPT ![p] = s]
    BY <1>4, <1>t DEF Send, AnchorInv, Types, Session
  <2>2. e \in Tx
    BY <1>4, <1>t DEF Send, AnchorInv, Types, Session, Tx
  <2>3. s \in Session /\ s.rows = ses[p].rows /\ s.arg = ses[p].arg /\ s.op = ses[p].op
        /\ s.tx = Len(txs) + 1 /\ s.pc = IF ses[p].op = "bump" THEN "last" ELSE "load"
    <3>1. Len(txs) + 1 \in Nat
      BY DEF AnchorInv, Types
    <3>2. (IF ses[p].op = "bump" THEN "last" ELSE "load") \in {"last", "load"}
      OBVIOUS
    <3>3. QED
      BY <3>1, <3>2, <1>t DEF Session
  <2>4. Types'
    BY <2>1, <2>2, <2>3 DEF AnchorInv, Types
  <2>5. \A t, c : Broadcasts(t, c) => Broadcasts(t, c)'
    BY <2>1, <2>2, BroadcastStays DEF AnchorInv
  <2>6. \A rs : RowsOK(rs) => RowsOK(rs)'
    BY <2>5 DEF RowsOK, RowOK
  <2>7. ses'[p] = s /\ \A q \in Sessions \ {p} : ses'[q] = ses[q]
    BY <2>1 DEF AnchorInv, Types
  <2>8. \A q \in Sessions : RowsOK(ses[q].rows)'
    <3>1. \A q \in Sessions : ses'[q].rows = ses[q].rows
      BY <2>3, <2>7
    <3>2. QED
      BY <3>1, <2>6 DEF AnchorInv, RowsOK, RowOK, Broadcasts
  <2>9. \A q \in Sessions \ {p} : InHand(ses[q])' /\ OpOK(ses[q])'
    BY <2>5, <2>7 DEF AnchorInv, InHand, OpOK
  <2>10. InHand(ses[p])' /\ OpOK(ses[p])'
    <3>1. ses[p].op \in {"broadcast", "bump"}
      BY <1>4 DEF Send, AnchorInv, OpOK
    <3>2. CASE ses[p].op = "bump"
      BY <2>3, <2>7, <3>2 DEF InHand, OpOK
    <3>3. CASE ses[p].op = "broadcast"
      <4>1. txs'[Len(txs) + 1] = e /\ Len(txs) + 1 \in DOMAIN txs'
        BY <2>1, <2>2 DEF AnchorInv, Types
      <4>2. QED
        BY <2>3, <2>7, <3>3, <4>1 DEF InHand, OpOK, Broadcasts
    <3>4. QED
      BY <3>1, <3>2, <3>3
  <2>11. RowsOK(rows)'
    BY <2>1, <2>6 DEF AnchorInv, RowsOK, RowOK, Broadcasts
  <2>12. QED
    BY <2>4, <2>8, <2>9, <2>10, <2>11 DEF AnchorInv
<1>5. CASE SendFails(p)
  BY <1>5, <1>i, SessionStep DEF SendFails, Return
<1>6. CASE BumpLast(p)
  <2>1. CASE rows = <<>>
    BY <1>6, <2>1, <1>i, SessionStep DEF BumpLast, Return
  <2>2. CASE rows # <<>>
    <3> DEFINE s == [ses[p] EXCEPT !.pc = "load", !.arg = Last.commitment,
                                   !.bumps = Append(Last.bumps, ses[p].tx)]
    <3>1. Last \in AnyRow
      BY <2>2 DEF Last, AnchorInv, Types
    <3>2. s \in Session /\ s.rows = ses[p].rows /\ s.pc = "load" /\ s.op = ses[p].op
      <4>1. Last.commitment \in Commitments /\ Append(Last.bumps, ses[p].tx) \in Seq(Nat)
        BY <3>1, <1>t DEF Session, AnyRow
      <4>2. QED
        BY <4>1, <1>t DEF Session
    <3>3. ses' = [ses EXCEPT ![p] = s] /\ UNCHANGED <<rows, txs>>
      BY <1>6, <2>2, <1>t DEF BumpLast, AnchorInv, Types, Session
    <3>4. ses[p].op = "bump"
      BY <1>6 DEF BumpLast, AnchorInv, OpOK
    <3>5. InHand(s) /\ RowsOK(s.rows) /\ OpOK(s)
      BY <3>2, <3>4 DEF InHand, AnchorInv, OpOK
    <3>6. QED
      BY <3>2, <3>3, <3>5, SessionStep
  <2>3. QED
    BY <2>1, <2>2
<1>7. CASE UpdateLoad(p)
  <2>1. CASE Matching(ses[p]) = {}
    BY <1>7, <2>1, <1>i, SessionStep DEF UpdateLoad, Return
  <2>2. CASE Matching(ses[p]) # {}
    <3> DEFINE patched == [i \in DOMAIN rows |->
                             IF i \in Matching(ses[p]) THEN Patch(rows[i], ses[p])
                             ELSE rows[i]]
               s == [ses[p] EXCEPT !.pc = "open", !.rows = patched]
    <3>1. ASSUME NEW i \in DOMAIN rows
          PROVE  patched[i] \in AnyRow /\ RowOK(patched[i])
      <4>1. rows[i] \in AnyRow /\ RowOK(rows[i])
        BY DEF AnchorInv, Types, RowsOK
      <4>2. CASE i \in Matching(ses[p])
        <5>1. rows[i].commitment = ses[p].arg /\ ses[p].pc = "load" /\ InHand(ses[p])
          BY <1>7, <4>2 DEF Matching, UpdateLoad, AnchorInv
        <5>2. QED
          BY <4>1, <4>2, <5>1, <1>t, PatchSound
      <4>3. CASE i \notin Matching(ses[p])
        BY <4>1, <4>3
      <4>4. QED
        BY <4>2, <4>3
    <3>2. patched \in Seq(AnyRow) /\ DOMAIN patched = DOMAIN rows
      BY <3>1 DEF AnchorInv, Types
    <3>3. s \in Session /\ s.rows = patched /\ s.pc = "open"
      BY <3>2, <1>t DEF Session
    <3>4. RowsOK(s.rows) /\ InHand(s) /\ OpOK(s)
      BY <3>1, <3>2, <3>3 DEF RowsOK, InHand, OpOK
    <3>5. ses' = [ses EXCEPT ![p] = s] /\ UNCHANGED <<rows, txs>>
      BY <1>7, <2>2, <1>t DEF UpdateLoad, AnchorInv, Types, Session
    <3>6. QED
      BY <3>3, <3>4, <3>5, SessionStep
  <2>3. QED
    BY <2>1, <2>2
<1>r. ASSUME NEW rs \in Seq(AnyRow), RowsOK(rs), NEW s \in Session, RowsOK(s.rows),
             InHand(s), OpOK(s), txs' = txs, rows' = rs,
             ses' = [ses EXCEPT ![p] = s]
      PROVE  AnchorInv'
  <2>1. Types'
    BY <1>r DEF AnchorInv, Types
  <2>2. \A q \in Sessions : ses'[q] = IF q = p THEN s ELSE ses[q]
    BY <1>r DEF AnchorInv, Types
  <2>3. QED
    BY <1>r, <2>1, <2>2 DEF AnchorInv, RowsOK, RowOK, InHand, Broadcasts, OpOK
<1>8. CASE OpenLedger(p)
  <2> DEFINE s == [ses[p] EXCEPT !.pc = "flush"]
  <2>1. s \in Session /\ s.rows = ses[p].rows /\ s.pc = "flush"
    BY <1>t DEF Session
  <2>2. RowsOK(s.rows) /\ InHand(s) /\ OpOK(s)
    BY <2>1 DEF AnchorInv, InHand, OpOK
  <2>3. <<>> \in Seq(AnyRow) /\ RowsOK(<<>>)
    BY DEF RowsOK
  <2>4. ses' = [ses EXCEPT ![p] = s] /\ rows' = <<>> /\ txs' = txs
    BY <1>8 DEF OpenLedger
  <2>5. QED
    BY <2>1, <2>2, <2>3, <2>4, <1>r
<1>9. CASE FlushLedger(p)
  <2>1. ses[p].rows \in Seq(AnyRow) /\ RowsOK(ses[p].rows)
    BY <1>t DEF AnchorInv, Session
  <2>2. QED
    BY <1>9, <2>1, <1>i, <1>r DEF FlushLedger, Return
<1>10. CASE Die(p)
  <2>1. CASE At(p, "flush")
    <3>1. PICK n \in 0 .. Len(ses[p].rows) : rows' = SubSeq(ses[p].rows, 1, n)
      BY <1>10, <2>1 DEF Die
    <3>2. ses[p].rows \in Seq(AnyRow) /\ RowsOK(ses[p].rows)
      BY <1>t DEF AnchorInv, Session
    <3>3. /\ SubSeq(ses[p].rows, 1, n) \in Seq(AnyRow)
          /\ RowsOK(SubSeq(ses[p].rows, 1, n))
      BY <3>2 DEF RowsOK
    <3>4. QED
      BY <1>10, <3>1, <3>3, <1>i, <1>r DEF Die, Return
  <2>2. CASE ~At(p, "flush")
    BY <1>10, <2>2, <1>i, SessionStep DEF Die, Return
  <2>3. QED
    BY <2>1, <2>2
<1>11. QED
  BY <1>1, <1>2, <1>3, <1>4, <1>5, <1>6, <1>7, <1>8, <1>9, <1>10 DEF AnchorStep

\* TxCarriesCommitment: the tx_hash that update_ledger_entry writes into an
\* entry is that of a broadcast of this very entry's commitment, however many
\* processes commit, broadcast, bump and die at the same time.
THEOREM TxCorrect == AnchorSpec => []TxCarriesCommitment
<1>1. AnchorInv /\ [AnchorNext]_anchorVars => AnchorInv'
  <2>1. AnchorInv /\ UNCHANGED anchorVars => AnchorInv'
    BY DEF anchorVars, AnchorInv, Types, RowsOK, RowOK, InHand, OpOK, Broadcasts
  <2>2. QED
    BY <2>1, AnchorInvStep DEF AnchorNext
<1>2. AnchorInv => TxCarriesCommitment
  BY DEF AnchorInv, TxCarriesCommitment, RowsOK, RowOK, Broadcasts
<1>3. QED
  BY AnchorInvInit, <1>1, <1>2, PTL DEF AnchorSpec

----------------------------------------------------------------------------
(* What a broadcast is about to write has all its entries recorded.        *)

Recorded(s) ==
    s.op = "broadcast" /\ s.pc \in {"open", "flush"} =>
        \A i \in DOMAIN s.rows : s.rows[i].commitment = s.arg => s.rows[i].tx # NoTx

RecordedInv == \A p \in Sessions : Recorded(ses[p])

\* UpdateLoad patches every entry that matches, and no other.
LEMMA LoadEffect ==
    ASSUME AnchorInv, NEW p \in Sessions, UpdateLoad(p)
    PROVE  \/ /\ Matching(ses[p]) = {} /\ ses' = [ses EXCEPT ![p] = Idle]
              /\ UNCHANGED <<rows, txs>>
           \/ \E rs \in Seq(AnyRow) :
                /\ DOMAIN rs = DOMAIN rows
                /\ \A i \in DOMAIN rows :
                     rs[i] = IF rows[i].commitment = ses[p].arg THEN Patch(rows[i], ses[p])
                             ELSE rows[i]
                /\ ses' = [ses EXCEPT ![p] = [ses[p] EXCEPT !.pc = "open", !.rows = rs]]
                /\ UNCHANGED <<rows, txs>>
<1>1. ses[p] \in Session /\ ses[p].pc = "load" /\ rows \in Seq(AnyRow) /\ UNCHANGED <<rows, txs>>
  BY DEF UpdateLoad, At, AnchorInv, Types
<1>2. CASE Matching(ses[p]) = {}
  BY <1>1, <1>2 DEF UpdateLoad, Return
<1>3. CASE Matching(ses[p]) # {}
  <2> DEFINE rs == [i \in DOMAIN rows |-> IF i \in Matching(ses[p]) THEN Patch(rows[i], ses[p])
                                          ELSE rows[i]]
  <2>1. ses' = [ses EXCEPT ![p] = [ses[p] EXCEPT !.pc = "open", !.rows = rs]]
    BY <1>1, <1>3 DEF UpdateLoad, AnchorInv, Types, Session
  <2>2. ASSUME NEW i \in DOMAIN rows
        PROVE  rs[i] \in AnyRow
    <3>1. rows[i] \in AnyRow
      BY <1>1
    <3>2. Patch(rows[i], ses[p]) \in AnyRow
      BY <1>1, <3>1 DEF Patch, AnyRow, Session
    <3>3. QED
      BY <3>1, <3>2
  <2>3. rs \in Seq(AnyRow) /\ DOMAIN rs = DOMAIN rows
    BY <1>1, <2>2
  <2>4. \A i \in DOMAIN rows :
          rs[i] = IF rows[i].commitment = ses[p].arg THEN Patch(rows[i], ses[p]) ELSE rows[i]
    BY DEF Matching
  <2> HIDE DEF rs
  <2>5. QED
    BY <1>1, <2>1, <2>3, <2>4
<1>4. QED
  BY <1>2, <1>3

\* Every other step leaves what is about to be written as it is, or drops it.
LEMMA RecordedStep ==
    ASSUME AnchorInv, RecordedInv, NEW p \in Sessions, AnchorStep(p)
    PROVE  RecordedInv'
<1>1. ses \in [Sessions -> Session] /\ ses[p] \in Session
  BY DEF AnchorInv, Types
<1>2. Recorded(Idle)
  BY DEF Recorded, Idle
<1>3. ASSUME NEW s, Recorded(s), ses' = [ses EXCEPT ![p] = s]
      PROVE  RecordedInv'
  BY <1>1, <1>3 DEF RecordedInv, Recorded
<1>4. CASE UpdateLoad(p)
  <2>1. CASE ses' = [ses EXCEPT ![p] = Idle]
    BY <1>2, <1>3, <2>1
  <2>2. ASSUME NEW rs \in Seq(AnyRow), DOMAIN rs = DOMAIN rows,
               \A i \in DOMAIN rows :
                  rs[i] = IF rows[i].commitment = ses[p].arg THEN Patch(rows[i], ses[p])
                          ELSE rows[i],
               ses' = [ses EXCEPT ![p] = [ses[p] EXCEPT !.pc = "open", !.rows = rs]]
        PROVE  RecordedInv'
    <3> DEFINE s == [ses[p] EXCEPT !.pc = "open", !.rows = rs]
    <3>1. s.op = ses[p].op /\ s.arg = ses[p].arg /\ s.rows = rs
      BY <1>1 DEF Session
    <3>2. ASSUME ses[p].op = "broadcast", NEW i \in DOMAIN rs, rs[i].commitment = ses[p].arg
          PROVE  rs[i].tx # NoTx
      <4>1. ses[p].tx \in DOMAIN txs /\ txs \in Seq(Tx)
        BY <1>4, <3>2 DEF UpdateLoad, At, AnchorInv, Types, InHand, Broadcasts
      <4>2. ses[p].tx # NoTx
        BY <4>1 DEF NoTx
      <4>3. rows[i] \in AnyRow
        BY <2>2 DEF AnchorInv, Types
      <4>4. CASE rows[i].commitment = ses[p].arg
        BY <2>2, <3>2, <4>2, <4>3, <4>4 DEF Patch, AnyRow
      <4>5. CASE rows[i].commitment # ses[p].arg
        BY <2>2, <3>2, <4>5
      <4>6. QED
        BY <4>4, <4>5
    <3>3. Recorded(s)
      BY <3>1, <3>2 DEF Recorded
    <3> HIDE DEF s
    <3>4. ses' = [ses EXCEPT ![p] = s]
      BY <2>2 DEF s
    <3>5. QED
      BY <1>3, <3>3, <3>4
  <2>3. QED
    BY <1>4, <2>1, <2>2, LoadEffect
<1>5. CASE OpenLedger(p)
  <2> DEFINE s == [ses[p] EXCEPT !.pc = "flush"]
  <2>1. s.op = ses[p].op /\ s.arg = ses[p].arg /\ s.rows = ses[p].rows
    BY <1>1 DEF Session
  <2>2. Recorded(s)
    BY <1>5, <2>1 DEF OpenLedger, At, RecordedInv, Recorded
  <2> HIDE DEF s
  <2>3. ses' = [ses EXCEPT ![p] = s]
    BY <1>5 DEF OpenLedger, s
  <2>4. QED
    BY <1>3, <2>2, <2>3
<1>6. CASE Send(p)
  <2> DEFINE pc == IF ses[p].op = "bump" THEN "last" ELSE "load"
             s == [ses[p] EXCEPT !.tx = Len(txs) + 1, !.pc = pc]
  <2>1. s.pc = pc /\ pc \notin {"open", "flush"}
    BY <1>1 DEF Session
  <2>2. ses' = [ses EXCEPT ![p] = s]
    BY <1>1, <1>6 DEF Send, Session
  <2> HIDE DEF s, pc
  <2>3. Recorded(s)
    BY <2>1 DEF Recorded
  <2>4. QED
    BY <1>3, <2>2, <2>3
<1>7. CASE BumpLast(p)
  <2>1. CASE rows = <<>>
    BY <1>2, <1>3, <1>7, <2>1 DEF BumpLast, Return
  <2>2. CASE rows # <<>>
    <3> DEFINE s == [ses[p] EXCEPT !.pc = "load", !.arg = Last.commitment,
                                   !.bumps = Append(Last.bumps, ses[p].tx)]
    <3>1. s.pc = "load"
      BY <1>1 DEF Session
    <3>2. ses' = [ses EXCEPT ![p] = s]
      BY <1>1, <1>7, <2>2 DEF BumpLast, Session
    <3> HIDE DEF s
    <3>3. Recorded(s)
      BY <3>1 DEF Recorded
    <3>4. QED
      BY <1>3, <3>2, <3>3
  <2>3. QED
    BY <2>1, <2>2
<1>8. CASE BumpBegin(p) \/ \E c \in Commitments : BroadcastBegin(p, c)
  <2> DEFINE b == [Idle EXCEPT !.op = "bump", !.pc = "send"]
             s(c) == [Idle EXCEPT !.op = "broadcast", !.pc = "send", !.arg = c]
  <2>1. Recorded(b) /\ \A c : Recorded(s(c))
    BY DEF Recorded, Idle
  <2>2. ses' = [ses EXCEPT ![p] = b] \/ \E c \in Commitments : ses' = [ses EXCEPT ![p] = s(c)]
    BY <1>8 DEF BumpBegin, BroadcastBegin
  <2> HIDE DEF b, s
  <2>3. QED
    BY <1>3, <2>1, <2>2
<1>9. CASE SendFails(p) \/ FlushLedger(p) \/ Die(p)
  BY <1>2, <1>3, <1>9 DEF SendFails, FlushLedger, Die, Return
<1>10. CASE \E c \in Commitments : AppendCommit(p, c)
  BY <1>10 DEF AppendCommit, RecordedInv, Recorded
<1>11. QED
  BY <1>4, <1>5, <1>6, <1>7, <1>8, <1>9, <1>10 DEF AnchorStep

AnchorInductive == AnchorInv /\ RecordedInv

LEMMA AnchorInductiveHolds == AnchorSpec => []AnchorInductive
<1>1. AnchorInit => AnchorInductive
  BY AnchorInvInit DEF AnchorInit, AnchorInductive, RecordedInv, Recorded, Idle
<1>2. AnchorInductive /\ [AnchorNext]_anchorVars => AnchorInductive'
  <2>1. AnchorInductive /\ UNCHANGED anchorVars => AnchorInductive'
    BY DEF anchorVars, AnchorInv, Types, RowsOK, RowOK, InHand, OpOK, Broadcasts,
           AnchorInductive, RecordedInv, Recorded
  <2>2. AnchorInductive /\ AnchorNext => AnchorInductive'
    BY AnchorInvStep, RecordedStep DEF AnchorNext, AnchorInductive
  <2>3. QED
    BY <2>1, <2>2
<1>3. QED
  BY <1>1, <1>2, PTL DEF AnchorSpec

\* BroadcastRecorded: a broadcast that runs to its end leaves every entry with
\* its commitment recorded, also entries that other processes appended or
\* rewrote while it was sending.
THEOREM BroadcastIsRecorded == AnchorSpec => BroadcastRecorded
<1> DEFINE Done == \A p \in Sessions :
              /\ ses[p].op = "broadcast" /\ At(p, "idle")'
              /\ UpdateLoad(p) \/ FlushLedger(p)
              => \A i \in DOMAIN rows' :
                   rows'[i].commitment = ses[p].arg => rows'[i].tx # NoTx
<1>1. AnchorInductive /\ [AnchorNext]_anchorVars => [Done]_anchorVars
  <2> SUFFICES ASSUME AnchorInductive, NEW p \in Sessions, ses[p].op = "broadcast", At(p, "idle")',
                      UpdateLoad(p) \/ FlushLedger(p),
                      NEW i \in DOMAIN rows', rows'[i].commitment = ses[p].arg
               PROVE  rows'[i].tx # NoTx
    OBVIOUS
  <2>1. CASE UpdateLoad(p)
    <3>1. ses'[p].pc # "open"
      BY DEF At
    <3>2. Matching(ses[p]) = {} /\ rows' = rows
      <4>1. ses[p] \in Session /\ ses \in [Sessions -> Session]
        BY DEF AnchorInductive, AnchorInv, Types
      <4>2. ASSUME NEW rs, ses' = [ses EXCEPT ![p] = [ses[p] EXCEPT !.pc = "open", !.rows = rs]]
            PROVE  FALSE
        <5> DEFINE s == [ses[p] EXCEPT !.pc = "open", !.rows = rs]
        <5>1. s.pc = "open"
          BY <4>1 DEF Session
        <5> HIDE DEF s
        <5>2. ses'[p] = s
          BY <4>1, <4>2 DEF s
        <5>3. QED
          BY <3>1, <5>1, <5>2
      <4>3. QED
        BY <2>1, <4>2, LoadEffect DEF AnchorInductive
    <3>3. QED
      BY <3>2 DEF Matching
  <2>2. CASE FlushLedger(p)
    BY <2>2 DEF FlushLedger, At, AnchorInductive, RecordedInv, Recorded
  <2>3. QED
    BY <2>1, <2>2
<1>2. QED
  BY <1>1, AnchorInductiveHolds, PTL DEF AnchorSpec, BroadcastRecorded

----------------------------------------------------------------------------
(* One session's rewrites.                                                 *)

\* b keeps a's commits, the records of their transactions and the last one's bumps
Grown(a, b) ==
    \A i \in DOMAIN a :
        /\ i \in DOMAIN b
        /\ b[i].commitment = a[i].commitment
        /\ a[i].tx # NoTx => b[i].tx # NoTx
        /\ i = Len(a) => a[i].bumps = SubSeq(b[i].bumps, 1, Len(a[i].bumps))

\* a bump is for the last entry, and a rewrite has everything the file has
Ready(s) ==
    /\ s.pc = "load" /\ s.op = "bump" =>
         rows # <<>> /\ s.arg = Last.commitment /\ s.bumps = Append(Last.bumps, s.tx)
    /\ s.pc = "open" => Grown(rows, s.rows)

ReadyInv == \A p \in Sessions : Ready(ses[p])

OneSession == \A p, q \in Sessions : p = q

LEMMA SamePrefix ==
    ASSUME NEW b \in Seq(Nat), NEW t \in Nat
    PROVE  b = SubSeq(b, 1, Len(b)) /\ b = SubSeq(Append(b, t), 1, Len(b))
OBVIOUS

LEMMA GrownItself ==
    ASSUME NEW a \in Seq(AnyRow)
    PROVE  Grown(a, a)
<1>1. \A i \in DOMAIN a : a[i] \in AnyRow
  OBVIOUS
<1>2. \A i \in DOMAIN a : a[i].bumps \in Seq(Nat)
  BY <1>1 DEF AnyRow
<1>3. \A i \in DOMAIN a : a[i].bumps = SubSeq(a[i].bumps, 1, Len(a[i].bumps))
  BY <1>2
<1>4. QED
  BY <1>3 DEF Grown

LEMMA GrownByOne ==
    ASSUME NEW a \in Seq(AnyRow), NEW r \in AnyRow
    PROVE  Grown(a, Append(a, r))
<1>1. \A i \in DOMAIN a : i \in DOMAIN Append(a, r) /\ Append(a, r)[i] = a[i]
  OBVIOUS
<1>2. QED
  BY <1>1, GrownItself DEF Grown

\* The patched rows have everything the rows have.
LEMMA PatchedGrown ==
    ASSUME AnchorInv, NEW p \in Sessions, ses[p].pc = "load", Ready(ses[p]),
           NEW rs \in Seq(AnyRow), DOMAIN rs = DOMAIN rows,
           \A i \in DOMAIN rows :
              rs[i] = IF rows[i].commitment = ses[p].arg THEN Patch(rows[i], ses[p]) ELSE rows[i]
    PROVE  Grown(rows, rs)
<1> SUFFICES ASSUME NEW i \in DOMAIN rows
             PROVE  /\ rs[i].commitment = rows[i].commitment
                    /\ rows[i].tx # NoTx => rs[i].tx # NoTx
                    /\ i = Len(rows) =>
                         rows[i].bumps = SubSeq(rs[i].bumps, 1, Len(rows[i].bumps))
  BY DEF Grown
<1>1. ses[p] \in Session /\ rows[i] \in AnyRow /\ rows \in Seq(AnyRow) /\ txs \in Seq(Tx)
  BY DEF AnchorInv, Types
<1>2. rows[i].bumps \in Seq(Nat) /\ ses[p].tx \in Nat
  BY <1>1 DEF AnyRow, Session
<1>3. rows[i].bumps = SubSeq(rows[i].bumps, 1, Len(rows[i].bumps))
  BY <1>2
<1>4. CASE rows[i].commitment # ses[p].arg
  BY <1>3, <1>4
<1>5. CASE rows[i].commitment = ses[p].arg /\ ses[p].op # "bump"
  <2>1. ses[p].tx # NoTx
    BY <1>1, <1>5 DEF AnchorInv, InHand, Broadcasts, NoTx
  <2>2. rs[i] = [rows[i] EXCEPT !.tx = ses[p].tx]
    BY <1>5 DEF Patch
  <2>3. QED
    BY <1>1, <1>3, <2>1, <2>2 DEF AnyRow
<1>6. CASE rows[i].commitment = ses[p].arg /\ ses[p].op = "bump"
  <2>1. rs[i] = [rows[i] EXCEPT !.bumps = ses[p].bumps]
    BY <1>6 DEF Patch
  <2>2. /\ rs[i].commitment = rows[i].commitment /\ rs[i].tx = rows[i].tx
        /\ rs[i].bumps = ses[p].bumps
    BY <1>1, <2>1 DEF AnyRow
  <2>3. i = Len(rows) => ses[p].bumps = Append(rows[i].bumps, ses[p].tx)
    BY <1>6 DEF Ready, Last
  <2>4. QED
    BY <1>2, <2>2, <2>3, SamePrefix
<1>7. QED
  BY <1>4, <1>5, <1>6

LEMMA ReadyStep ==
    ASSUME OneSession, AnchorInv, ReadyInv, NEW p \in Sessions, AnchorStep(p)
    PROVE  ReadyInv'
<1> SUFFICES Ready(ses[p])'
  BY DEF OneSession, ReadyInv
<1>1. ses \in [Sessions -> Session] /\ ses[p] \in Session /\ Idle.pc = "idle"
  BY DEF AnchorInv, Types, Idle
<1>2. ASSUME NEW s, ses' = [ses EXCEPT ![p] = s], s.pc \notin {"load", "open"}
      PROVE  Ready(ses[p])'
  BY <1>1, <1>2 DEF Ready
<1>3. CASE UpdateLoad(p)
  <2>1. CASE ses' = [ses EXCEPT ![p] = Idle]
    BY <1>1, <1>2, <2>1
  <2>2. ASSUME NEW rs \in Seq(AnyRow), DOMAIN rs = DOMAIN rows,
               \A i \in DOMAIN rows :
                  rs[i] = IF rows[i].commitment = ses[p].arg THEN Patch(rows[i], ses[p])
                          ELSE rows[i],
               ses' = [ses EXCEPT ![p] = [ses[p] EXCEPT !.pc = "open", !.rows = rs]],
               rows' = rows
        PROVE  Ready(ses[p])'
    <3> DEFINE s == [ses[p] EXCEPT !.pc = "open", !.rows = rs]
    <3>1. s.pc = "open" /\ s.rows = rs
      BY <1>1 DEF Session
    <3> HIDE DEF s
    <3>2. ses'[p] = s
      BY <1>1, <2>2 DEF s
    <3>3. Grown(rows, rs)
      BY <1>3, <2>2, PatchedGrown DEF UpdateLoad, At, ReadyInv
    <3>4. QED
      BY <2>2, <3>1, <3>2, <3>3 DEF Ready, Grown
  <2>3. QED
    BY <1>3, <2>1, <2>2, LoadEffect
<1>4. CASE OpenLedger(p)
  <2> DEFINE s == [ses[p] EXCEPT !.pc = "flush"]
  <2>1. s.pc = "flush"
    BY <1>1 DEF Session
  <2> HIDE DEF s
  <2>2. ses' = [ses EXCEPT ![p] = s]
    BY <1>4 DEF OpenLedger, s
  <2>3. QED
    BY <1>2, <2>1, <2>2
<1>5. CASE Send(p)
  <2> DEFINE pc == IF ses[p].op = "bump" THEN "last" ELSE "load"
             s == [ses[p] EXCEPT !.tx = Len(txs) + 1, !.pc = pc]
  <2>1. s.pc = pc /\ s.op = ses[p].op
    BY <1>1 DEF Session
  <2>2. ses' = [ses EXCEPT ![p] = s]
    BY <1>1, <1>5 DEF Send, Session
  <2> HIDE DEF s
  <2>3. ses'[p] = s
    BY <1>1, <2>2
  <2>4. QED
    BY <2>1, <2>3 DEF Ready
<1>6. CASE BumpLast(p)
  <2>1. CASE rows = <<>>
    BY <1>1, <1>2, <1>6, <2>1 DEF BumpLast, Return
  <2>2. CASE rows # <<>>
    <3> DEFINE s == [ses[p] EXCEPT !.pc = "load", !.arg = Last.commitment,
                                   !.bumps = Append(Last.bumps, ses[p].tx)]
    <3>1. /\ s.pc = "load" /\ s.arg = Last.commitment /\ s.tx = ses[p].tx
          /\ s.bumps = Append(Last.bumps, ses[p].tx)
      BY <1>1 DEF Session
    <3>2. ses' = [ses EXCEPT ![p] = s] /\ rows' = rows
      BY <1>1, <1>6, <2>2 DEF BumpLast, Session
    <3> HIDE DEF s
    <3>3. ses'[p] = s /\ Last' = Last
      BY <1>1, <3>2 DEF Last
    <3>4. QED
      BY <2>2, <3>1, <3>2, <3>3 DEF Ready
  <2>3. QED
    BY <2>1, <2>2
<1>7. CASE BumpBegin(p) \/ \E c \in Commitments : BroadcastBegin(p, c)
  <2> DEFINE b == [Idle EXCEPT !.op = "bump", !.pc = "send"]
             s(c) == [Idle EXCEPT !.op = "broadcast", !.pc = "send", !.arg = c]
  <2>1. b.pc = "send" /\ \A c : s(c).pc = "send"
    BY DEF Idle
  <2>2. ses' = [ses EXCEPT ![p] = b] \/ \E c \in Commitments : ses' = [ses EXCEPT ![p] = s(c)]
    BY <1>7 DEF BumpBegin, BroadcastBegin
  <2> HIDE DEF b, s
  <2>3. QED
    BY <1>2, <2>1, <2>2
<1>8. CASE SendFails(p) \/ FlushLedger(p) \/ Die(p)
  BY <1>1, <1>2, <1>8 DEF SendFails, FlushLedger, Die, Return
<1>9. CASE \E c \in Commitments : AppendCommit(p, c)
  BY <1>9 DEF AppendCommit, Ready, At
<1>10. QED
  BY <1>3, <1>4, <1>5, <1>6, <1>7, <1>8, <1>9 DEF AnchorStep

\* What the ledger is, or will be, grows in every step.
LEMMA LedgerGrows ==
    ASSUME OneSession, ~TornWrites, AnchorInv, ReadyInv, NEW p \in Sessions, AnchorStep(p)
    PROVE  Grown(Ledger, Ledger')
<1>1. ses \in [Sessions -> Session] /\ ses[p] \in Session /\ rows \in Seq(AnyRow)
  BY DEF AnchorInv, Types
<1>2. Ledger = IF At(p, "flush") THEN ses[p].rows ELSE rows
  BY DEF OneSession, Ledger
<1>3. Ledger' = IF At(p, "flush")' THEN ses'[p].rows ELSE rows'
  BY DEF OneSession, Ledger
<1>4. Grown(rows, rows)
  BY <1>1, GrownItself
<1>5. CASE \E c \in Commitments : AppendCommit(p, c)
  <2>1. PICK c \in Commitments : AppendCommit(p, c)
    BY <1>5
  <2> DEFINE r == [commitment |-> c, tx |-> NoTx, bumps |-> <<>>]
  <2>2. r \in AnyRow
    BY DEF AnyRow, NoTx
  <2>3. rows' = Append(rows, r) /\ ses' = ses /\ ses[p].pc = "idle"
    BY <2>1 DEF AppendCommit, At
  <2> HIDE DEF r
  <2>4. Grown(rows, Append(rows, r))
    BY <1>1, <2>2, GrownByOne
  <2>5. QED
    BY <1>2, <1>3, <2>3, <2>4 DEF At
<1>6. CASE OpenLedger(p)
  <2> DEFINE s == [ses[p] EXCEPT !.pc = "flush"]
  <2>1. s.pc = "flush" /\ s.rows = ses[p].rows
    BY <1>1 DEF Session
  <2> HIDE DEF s
  <2>2. ses'[p] = s
    BY <1>1, <1>6 DEF OpenLedger, s
  <2>3. ses[p].pc = "open" /\ Grown(rows, ses[p].rows)
    BY <1>6 DEF OpenLedger, At, ReadyInv, Ready
  <2>4. QED
    BY <1>2, <1>3, <2>1, <2>2, <2>3 DEF At
<1>7. CASE FlushLedger(p)
  <2>1. ses'[p].pc = "idle" /\ rows' = ses[p].rows /\ At(p, "flush")
    BY <1>1, <1>7 DEF FlushLedger, Return, Idle
  <2>2. Grown(ses[p].rows, ses[p].rows)
    BY <1>1, GrownItself DEF Session
  <2>3. QED
    BY <1>2, <1>3, <2>1, <2>2 DEF At
<1>8. ASSUME ~At(p, "flush"), ~At(p, "flush")', rows' = rows
      PROVE  Grown(Ledger, Ledger')
  BY <1>2, <1>3, <1>4, <1>8
<1>9. ASSUME NEW s, ses' = [ses EXCEPT ![p] = s], s.pc # "flush"
      PROVE  ~At(p, "flush")'
  BY <1>1, <1>9 DEF At
<1>10. CASE SendFails(p) \/ Die(p)
  BY <1>8, <1>9, <1>10 DEF SendFails, Die, Return, Idle, At
<1>11. CASE BumpBegin(p) \/ \E c \in Commitments : BroadcastBegin(p, c)
  <2> DEFINE b == [Idle EXCEPT !.op = "bump", !.pc = "send"]
             s(c) == [Idle EXCEPT !.op = "broadcast", !.pc = "send", !.arg = c]
  <2>1. b.pc = "send" /\ \A c : s(c).pc = "send"
    BY DEF Idle
  <2>2. ses' = [ses EXCEPT ![p] = b] \/ \E c \in Commitments : ses' = [ses EXCEPT ![p] = s(c)]
    BY <1>11 DEF BumpBegin, BroadcastBegin
  <2>3. rows' = rows /\ ~At(p, "flush")
    BY <1>11 DEF BumpBegin, BroadcastBegin, At
  <2> HIDE DEF b, s
  <2>4. QED
    BY <1>8, <1>9, <2>1, <2>2, <2>3
<1>12. CASE Send(p)
  <2> DEFINE pc == IF ses[p].op = "bump" THEN "last" ELSE "load"
             s == [ses[p] EXCEPT !.tx = Len(txs) + 1, !.pc = pc]
  <2>1. s.pc = pc
    BY <1>1 DEF Session
  <2>2. ses' = [ses EXCEPT ![p] = s]
    BY <1>1, <1>12 DEF Send, Session
  <2>3. rows' = rows /\ ~At(p, "flush")
    BY <1>12 DEF Send, At
  <2> HIDE DEF s
  <2>4. QED
    BY <1>8, <1>9, <2>1, <2>2, <2>3
<1>13. CASE BumpLast(p)
  <2>1. ses'[p].pc \in {"idle", "load"}
    <3>1. CASE rows = <<>>
      BY <1>1, <1>13, <3>1 DEF BumpLast, Return, Idle
    <3>2. CASE rows # <<>>
      <4> DEFINE s == [ses[p] EXCEPT !.pc = "load", !.arg = Last.commitment,
                                     !.bumps = Append(Last.bumps, ses[p].tx)]
      <4>1. s.pc = "load"
        BY <1>1 DEF Session
      <4>2. ses' = [ses EXCEPT ![p] = s]
        BY <1>1, <1>13, <3>2 DEF BumpLast, Session
      <4> HIDE DEF s
      <4>3. QED
        BY <1>1, <4>1, <4>2
    <3>3. QED
      BY <3>1, <3>2
  <2>2. QED
    BY <1>8, <1>13, <2>1 DEF BumpLast, At
<1>14. CASE UpdateLoad(p)
  <2>1. ses'[p].pc \in {"idle", "open"}
    <3>1. CASE ses' = [ses EXCEPT ![p] = Idle]
      BY <1>1, <3>1 DEF Idle
    <3>2. ASSUME NEW rs, ses' = [ses EXCEPT ![p] = [ses[p] EXCEPT !.pc = "open", !.rows = rs]]
          PROVE  ses'[p].pc = "open"
      <4> DEFINE s == [ses[p] EXCEPT !.pc = "open", !.rows = rs]
      <4>1. s.pc = "open"
        BY <1>1 DEF Session
      <4> HIDE DEF s
      <4>2. ses'[p] = s
        BY <1>1, <3>2 DEF s
      <4>3. QED
        BY <4>1, <4>2
    <3>3. QED
      BY <1>14, <3>1, <3>2, LoadEffect
  <2>2. QED
    BY <1>8, <1>14, <2>1 DEF UpdateLoad, At
<1>15. QED
  BY <1>5, <1>6, <1>7, <1>10, <1>11, <1>12, <1>13, <1>14 DEF AnchorStep

\* LedgerOnlyGrows, of one session whose rewrites are not torn: though
\* update_ledger_entry rewrites the file, no commit and no record of a transaction
\* is lost, wherever else the commands are cut short.  (A second session can.)
THEOREM LedgerGrowsOnly ==
    ASSUME OneSession, ~TornWrites
    PROVE  AnchorSpec => LedgerOnlyGrows
<1> DEFINE Inv == AnchorInv /\ ReadyInv
           Grows == \A i \in DOMAIN Ledger :
              /\ i \in DOMAIN Ledger'
              /\ Ledger'[i].commitment = Ledger[i].commitment
              /\ Ledger[i].tx # NoTx => Ledger'[i].tx # NoTx
<1>1. AnchorInit => Inv
  BY AnchorInvInit DEF AnchorInit, ReadyInv, Ready, Idle
<1>2. Inv /\ [AnchorNext]_anchorVars => Inv'
  <2>1. Inv /\ UNCHANGED anchorVars => Inv'
    BY DEF anchorVars, AnchorInv, Types, RowsOK, RowOK, InHand, OpOK, Broadcasts,
           ReadyInv, Ready, Grown, Last
  <2>2. Inv /\ AnchorNext => Inv'
    BY AnchorInvStep, ReadyStep DEF AnchorNext
  <2>3. QED
    BY <2>1, <2>2
<1>3. Inv /\ [AnchorNext]_anchorVars => [Grows]_anchorVars
  BY LedgerGrows DEF AnchorNext, Grown
<1>4. QED
  BY <1>1, <1>2, <1>3, PTL DEF AnchorSpec, LedgerOnlyGrows
--------------------------------------------------------------------------------
(* verify-chain.                                                           *)

ChainTypes ==
    /\ Mined \subseteq Blocks
    /\ chain \in Seq(Blocks)
    /\ \A h \in DOMAIN chain : chain[h] \in Mined
    /\ \A b \in Mined : content[b] \subseteq DOMAIN txs

\* a transaction, or one about to be sent, is for a block that was mined before
NoneAhead ==
    /\ \A p \in Sessions : ses[p].arg # None => Known(ses[p].arg)
    /\ \A t \in DOMAIN txs : txs[t].commitment # None => Known(txs[t].commitment)

\* no block holds a transaction for itself or for a block on top of it
NoneAbove ==
    \A h, k \in DOMAIN chain : h <= k =>
        \A t \in content[chain[h]] :
            txs[t].commitment # None => txs[t].commitment.block # chain[k]

ChainInv == AnchorInv /\ ChainTypes /\ NoneAhead /\ NoneAbove

----------------------------------------------------------------------------
LEMMA ChainInvInit == ChainInit => ChainInv
<1> SUFFICES ASSUME ChainInit PROVE ChainInv
  OBVIOUS
<1>1. AnchorInv
  BY AnchorInvInit DEF ChainInit
<1>2. Mined = {} /\ chain = <<>> /\ DOMAIN txs = {} /\ \A p \in Sessions : ses[p].arg = None
  BY DEF ChainInit, AnchorInit, Mined, Idle
<1>3. ChainTypes /\ NoneAhead /\ NoneAbove
  BY <1>2 DEF ChainTypes, NoneAhead, NoneAbove
<1>4. QED
  BY <1>1, <1>3 DEF ChainInv

\* Of the steps of a session, only sending touches the transactions.
LEMMA TxsGrow ==
    ASSUME AnchorInv, AnchorNext
    PROVE  \/ txs' = txs
           \/ \E p \in Sessions, e \in Tx : txs' = Append(txs, e) /\ e.commitment = ses[p].arg
<1>1. txs' = txs \/ \E p \in Sessions : Send(p)
  BY DEF AnchorNext, AnchorStep, AppendCommit, BroadcastBegin, BumpBegin, SendFails,
         BumpLast, UpdateLoad, OpenLedger, FlushLedger, Die
<1>2. ASSUME NEW p \in Sessions, Send(p)
      PROVE  \E e \in Tx : txs' = Append(txs, e) /\ e.commitment = ses[p].arg
  <2> DEFINE e == [op |-> ses[p].op, commitment |-> ses[p].arg]
  <2>1. ses[p] \in Session /\ OpOK(ses[p]) /\ ses[p].pc = "send"
    BY <1>2 DEF Send, At, AnchorInv, Types
  <2>2. e \in Tx
    BY <2>1 DEF Tx, Session, OpOK
  <2>3. txs' = Append(txs, e) /\ e.commitment = ses[p].arg
    BY <1>2 DEF Send
  <2>4. QED
    BY <2>2, <2>3
<1>3. QED
  BY <1>1, <1>2

LEMMA AnchoringStep ==
    ASSUME ChainInv, Anchoring
    PROVE  ChainInv'
<1>1. AnchorInv'
  BY AnchorInvStep DEF ChainInv, Anchoring, AnchorNext
<1>2. chain' = chain /\ content' = content /\ Mined' = Mined
  BY DEF Anchoring, Mined
<1>3. txs \in Seq(Tx)
  BY DEF ChainInv, AnchorInv, Types
<1>4. \A t \in DOMAIN txs : t \in DOMAIN txs' /\ txs'[t] = txs[t]
  BY <1>3, TxsGrow DEF Anchoring, ChainInv
<1>5. \A t \in DOMAIN txs' : t \in DOMAIN txs
        \/ \E p \in Sessions : txs'[t].commitment = ses[p].arg
  BY <1>3, TxsGrow DEF Anchoring, ChainInv
<1>6. ChainTypes'
  BY <1>2, <1>4 DEF ChainInv, ChainTypes
<1>7. NoneAhead'
  <2>1. \A c : Known(c)' <=> Known(c)
    BY <1>2 DEF Known
  <2>2. \A p \in Sessions : ses'[p].arg # None => Known(ses'[p].arg)
    BY DEF Anchoring
  <2>3. \A t \in DOMAIN txs' : txs'[t].commitment # None => Known(txs'[t].commitment)
    BY <1>4, <1>5 DEF ChainInv, NoneAhead
  <2>4. QED
    BY <2>1, <2>2, <2>3, <1>2 DEF NoneAhead, Known
<1>8. NoneAbove'
  BY <1>2, <1>4 DEF ChainInv, ChainTypes, NoneAbove
<1>9. QED
  BY <1>1, <1>6, <1>7, <1>8 DEF ChainInv

\* A new block is on top of all others, and nobody knew it before.
LEMMA MineStep ==
    ASSUME ChainInv, Mine
    PROVE  ChainInv'
<1>1. PICK b \in Blocks \ Mined, new \in SUBSET (DOMAIN txs \ Confirmed) :
        /\ chain' = Append(chain, b)
        /\ content' = [d \in Mined \cup {b} |-> IF d = b THEN new ELSE content[d]]
  BY DEF Mine
<1>2. UNCHANGED <<rows, txs, ses>>
  BY DEF Mine, anchorVars
<1>3. AnchorInv'
  BY <1>2 DEF ChainInv, AnchorInv, Types, RowsOK, RowOK, InHand, OpOK, Broadcasts
<1>4. Mined' = Mined \cup {b} /\ content'[b] = new /\ \A d \in Mined : content'[d] = content[d]
  BY <1>1 DEF Mined
<1>5. /\ chain' \in Seq(Blocks) /\ DOMAIN chain' = DOMAIN chain \cup {Len(chain) + 1}
      /\ \A h \in DOMAIN chain : chain'[h] = chain[h] /\ h <= Len(chain)
      /\ chain'[Len(chain) + 1] = b /\ Len(chain) \in Nat
  BY <1>1 DEF ChainInv, ChainTypes
<1>6. ChainTypes'
  BY <1>2, <1>4, <1>5 DEF ChainInv, ChainTypes
<1>7. NoneAhead'
  BY <1>2, <1>4 DEF ChainInv, NoneAhead, Known
<1>8. \A t \in DOMAIN txs : txs[t].commitment # None => txs[t].commitment.block # b
  <2>1. b.height # 0
    BY HeightsAssumption
  <2>2. b \notin Mined /\ b \notin Synthetic
    BY <2>1, HeightsAssumption
  <2>3. QED
    BY <2>2 DEF ChainInv, NoneAhead, Known
<1>9. ASSUME NEW h \in DOMAIN chain', NEW k \in DOMAIN chain', h <= k,
             NEW t \in content'[chain'[h]], txs[t].commitment # None
      PROVE  txs[t].commitment.block # chain'[k]
  <2>1. t \in DOMAIN txs
    BY <1>2, <1>6, <1>9 DEF ChainTypes
  <2>2. CASE k = Len(chain) + 1
    BY <1>5, <1>8, <1>9, <2>1, <2>2
  <2>3. CASE k # Len(chain) + 1
    <3>1. k \in DOMAIN chain /\ k <= Len(chain)
      BY <1>5, <2>3
    <3>2. h \in DOMAIN chain
      BY <1>5, <1>9, <3>1 DEF ChainInv, ChainTypes
    <3>3. t \in content[chain[h]]
      BY <1>4, <1>5, <1>9, <3>2 DEF ChainInv, ChainTypes
    <3>4. QED
      BY <1>5, <1>9, <3>1, <3>2, <3>3 DEF ChainInv, NoneAbove
  <2>4. QED
    BY <2>2, <2>3
<1>10. NoneAbove'
  BY <1>2, <1>9 DEF NoneAbove
<1>11. QED
  BY <1>3, <1>6, <1>7, <1>10 DEF ChainInv

\* A reorganisation takes blocks off the top, and unmines none.
LEMMA ReorganiseStep ==
    ASSUME ChainInv, Reorganise
    PROVE  ChainInv'
<1>1. /\ chain' = SubSeq(chain, 1, Len(chain) - 1) /\ chain # <<>>
      /\ UNCHANGED <<rows, txs, ses, content>>
  BY DEF Reorganise, anchorVars
<1>2. AnchorInv'
  BY <1>1 DEF ChainInv, AnchorInv, Types, RowsOK, RowOK, InHand, OpOK, Broadcasts
<1>3. chain' \in Seq(Blocks) /\ \A h \in DOMAIN chain' : h \in DOMAIN chain /\ chain'[h] = chain[h]
  BY <1>1 DEF ChainInv, ChainTypes
<1>4. ChainTypes' /\ NoneAhead'
  BY <1>1, <1>3 DEF ChainInv, ChainTypes, NoneAhead, Known, Mined
<1>5. NoneAbove'
  BY <1>1, <1>3 DEF ChainInv, NoneAbove
<1>6. QED
  BY <1>2, <1>4, <1>5 DEF ChainInv

\* A commit whose block hash verify-chain accepts was made between that block and
\* any that has its transaction, however the chain was reorganised in between.
THEOREM BetweenBlocks == ChainSpec => []MadeBetweenBlocks
<1>1. ChainInv /\ UNCHANGED chainVars => ChainInv'
  BY DEF chainVars, anchorVars, ChainInv, AnchorInv, Types, RowsOK, RowOK, InHand, OpOK,
         Broadcasts, ChainTypes, NoneAhead, NoneAbove, Known, Mined
<1>2. ChainInv /\ [ChainNext]_chainVars => ChainInv'
  BY <1>1, AnchoringStep, MineStep, ReorganiseStep DEF ChainNext
<1>3. ChainInv => MadeBetweenBlocks
  <2> SUFFICES ASSUME ChainInv, NEW i \in DOMAIN rows, NEW h \in DOMAIN chain,
                      HashOk(rows[i].commitment), h \in HeightsOf(rows[i].commitment)
               PROVE  rows[i].commitment.block.height < h
    BY DEF MadeBetweenBlocks, HeightsOf
  <2> DEFINE c == rows[i].commitment
             k == c.block.height
  <2>1. c # None
    <3>1. rows[i] \in AnyRow
      BY DEF ChainInv, AnchorInv, Types
    <3>2. c \in Commitments
      BY <3>1 DEF AnyRow
    <3>3. QED
      BY <3>2, NoCommitmentAssumption
  <2>2. k \in DOMAIN chain /\ chain[k] = c.block
    BY DEF HashOk
  <2>3. PICK t \in content[chain[h]] : txs[t].commitment = c
    BY DEF HeightsOf
  <2>4. ~(h <= k)
    BY <2>1, <2>2, <2>3 DEF ChainInv, NoneAbove
  <2>5. h \in Nat /\ k \in Nat
    BY <2>2 DEF ChainInv, ChainTypes
  <2> HIDE DEF k
  <2>6. k < h
    BY <2>4, <2>5
  <2>7. QED
    BY <2>6 DEF k
<1> QED
  BY ChainInvInit, <1>2, <1>3, PTL DEF ChainSpec

\* The chain only restrains anchoring: what the anchor steps guarantee, by
\* TxCorrect, BroadcastIsRecorded and LedgerGrowsOnly, they guarantee beside it.
THEOREM ChainAnchors == ChainSpec => AnchorSpec
<1>1. ChainInit => AnchorInit
  BY DEF ChainInit
<1>2. [ChainNext]_chainVars => [AnchorNext]_anchorVars
  BY DEF ChainNext, Anchoring, Mine, Reorganise, chainVars
<1>3. QED
  BY <1>1, <1>2, PTL DEF ChainSpec, AnchorSpec
================================================================================
