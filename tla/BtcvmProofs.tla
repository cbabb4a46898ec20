----------------------------- MODULE BtcvmProofs -----------------------------
(***************************************************************************)
(* btcvm's ledger, for any programs, cycles, VDF ticks and number of runs, *)
(* killed anywhere: as long as it loads, verify.py rejects an entry for its *)
(* block only, the VDF's chains are the blocks, the trace file is the one  *)
(* it commits to, and what it says the machines have done is what their    *)
(* program texts mean.                                                     *)
(***************************************************************************)
EXTENDS VerifyLedger, ProofBasics, FiniteSetTheorems

----------------------------------------------------------------------------
(* The file: what loads is what was there, and one entry behind it.        *)

LogInv ==
    /\ IsList(ledger.lines) /\ ledger.open \in BOOLEAN
    /\ ledger.open => ledger.lines # <<>>

LEMMA LogInit == BtcvmInit => LogInv
  BY DEF BtcvmInit, LogInv, EmptyFile, IsList

LEMMA EntriesList ==
    ASSUME LogInv
    PROVE  /\ IsList(Entries) /\ Len(Entries) = Len(ledger.lines)
           /\ (Entries # <<>> <=> ledger.lines # <<>>)
<1>1. Len(ledger.lines) \in Nat /\ DOMAIN ledger.lines = 1 .. Len(ledger.lines)
  BY ListFacts DEF LogInv
<1>2. Entries = [i \in 1 .. Len(ledger.lines) |-> Entries[i]]
  BY <1>1 DEF Entries
<1>3. IsList(Entries) /\ Len(Entries) = Len(ledger.lines)
  BY <1>1, <1>2, ListOf
<1>4. (Entries # <<>> <=> Len(Entries) # 0) /\ (ledger.lines # <<>> <=> Len(ledger.lines) # 0)
  <2>1. ASSUME NEW s, IsList(s) PROVE s # <<>> <=> Len(s) # 0
    BY <2>1 DEF IsList
  <2>2. QED
    BY <1>3, <2>1 DEF LogInv
<1>5. QED
  BY <1>3, <1>4

\* A line is added behind those there were, or does not parse.
LEMMA WithLineFacts ==
    ASSUME LogInv, NEW line
    PROVE  LET lines == WithLine(ledger, line)
           IN  /\ IsList(lines) /\ lines # <<>>
               /\ (\A i \in DOMAIN lines : lines[i] # <<>>) =>
                    /\ LedgerLoads /\ line # <<>>
                    /\ lines = Append(ledger.lines, line)
<1> DEFINE old == ledger.lines
           N == Len(old)
           new == WithLine(ledger, line)
<1>1. IsList(old) /\ N \in Nat /\ DOMAIN old = 1 .. N
  BY ListFacts DEF LogInv
<1>2. CASE ledger.open
  <2>1. new = [old EXCEPT ![N] = <<>>] /\ old # <<>>
    BY <1>2 DEF WithLine, LogInv
  <2>2. N \in 1 .. N
    <3>1. N # 0
      BY <1>1, <2>1 DEF IsList
    <3>2. QED
      BY <1>1, <3>1
  <2>3. new = [i \in 1 .. N |-> new[i]] /\ new[N] = <<>>
    BY <1>1, <2>1, <2>2
  <2> HIDE DEF new, N
  <2>4. IsList(new) /\ DOMAIN new = 1 .. N
    BY <1>1, <2>3, ListOf
  <2>5. QED
    BY <2>2, <2>3, <2>4 DEF new
<1>3. CASE ~ledger.open
  <2>1. new = Append(old, line)
    BY <1>3 DEF WithLine
  <2> HIDE DEF old, new
  <2>2. /\ IsList(new) /\ Len(new) = N + 1 /\ DOMAIN new = 1 .. N + 1
        /\ new[N + 1] = line
        /\ \A i \in DOMAIN old : i \in DOMAIN new /\ new[i] = old[i]
    <3>1. /\ IsList(new) /\ Len(new) = N + 1 /\ DOMAIN new = DOMAIN old \cup {N + 1}
          /\ new[N + 1] = line
          /\ \A i \in DOMAIN old : new[i] = old[i]
      BY <1>1, <2>1, AppendList
    <3>2. DOMAIN new = 1 .. Len(new)
      BY <3>1, ListFacts
    <3>3. QED
      BY <3>1, <3>2
  <2>3. N + 1 \in DOMAIN new
    BY <1>1, <2>2
  <2>4. QED
    BY <2>1, <2>2, <2>3 DEF old, new, LedgerLoads
<1>4. QED
  BY <1>2, <1>3 DEF LogInv

\* what a step that writes to the ledger does to it
Wrote ==
    /\ pc = "write" /\ UNCHANGED <<network, lastHeight, block, vms, exported, traceFile, run>>
    /\ \/ pc' = "killed" /\ tick' = tick
       \/ pc' = (IF VdfTicks > 0 THEN "tick" ELSE "export") /\ tick' = tick + 1
    /\ LedgerLoads' => LedgerLoads /\ Entries' = Append(Entries, entry)

\* and one that does not
Quiet == ledger' = ledger /\ ~WriteEntry /\ ~ \E tear \in Tears : CutEntry(tear)

LEMMA LedgerStep ==
    ASSUME LogInv, [BtcvmNext]_btcvmVars
    PROVE  LogInv' /\ (Wrote \/ Quiet)
<1>1. ASSUME NEW line \in {<<entry>>, <<>>}, ledger'.lines = WithLine(ledger, line)
      PROVE  /\ IsList(ledger'.lines) /\ ledger'.lines # <<>>
             /\ LedgerLoads' => LedgerLoads /\ Entries' = Append(Entries, entry)
  <2>1. /\ IsList(ledger'.lines) /\ ledger'.lines # <<>>
        /\ LedgerLoads' => /\ LedgerLoads /\ line # <<>>
                           /\ ledger'.lines = Append(ledger.lines, line)
    BY <1>1, WithLineFacts DEF LedgerLoads
  <2>2. ASSUME ledger'.lines = Append(ledger.lines, <<entry>>)
        PROVE  Entries' = Append(Entries, entry)
    <3> DEFINE old == ledger.lines
               N == Len(old)
               new == Append(old, <<entry>>)
               a == Append(Entries, entry)
    <3>1. /\ IsList(new) /\ N \in Nat /\ DOMAIN old = 1 .. N /\ Len(new) = N + 1
          /\ DOMAIN new = DOMAIN old \cup {N + 1} /\ new[N + 1] = <<entry>>
          /\ \A i \in DOMAIN old : new[i] = old[i]
      <4>1. IsList(old)
        BY DEF LogInv
      <4> HIDE DEF old
      <4>2. QED
        BY <4>1, AppendList
    <3>2. /\ IsList(a) /\ Len(a) = N + 1 /\ a[N + 1] = entry
          /\ \A i \in DOMAIN Entries : a[i] = Entries[i]
      BY EntriesList, AppendList
    <3>3. Entries' = [i \in DOMAIN new |-> new[i][1]] /\ DOMAIN new = 1 .. N + 1
      BY <2>2, <3>1, ListFacts DEF Entries
    <3>4. \A i \in 1 .. N + 1 : i \in DOMAIN old \/ i = N + 1
      BY <3>1
    <3>5. \A i \in DOMAIN old : i \in DOMAIN Entries /\ Entries[i] = old[i][1]
      BY DEF Entries
    <3>6. \A i \in 1 .. N + 1 : Entries'[i] = a[i]
      <4> HIDE DEF a, new, old, N
      <4>1. ASSUME NEW i \in 1 .. N + 1 PROVE Entries'[i] = a[i]
        <5>1. Entries'[i] = new[i][1]
          BY <3>3
        <5>2. CASE i \in DOMAIN old
          BY <3>1, <3>2, <3>5, <5>1, <5>2
        <5>3. CASE i = N + 1
          <6>1. new[i][1] = entry
            BY <3>1, <5>3
          <6>2. QED
            BY <3>2, <5>1, <5>3, <6>1
        <5>4. QED
          BY <3>4, <5>2, <5>3
      <4>2. QED
        BY <4>1
    <3>7. IsList(Entries') /\ Len(Entries') = N + 1
      <4> HIDE DEF new, N, old
      <4>1. Entries' = [i \in 1 .. N + 1 |-> Entries'[i]]
        BY <3>3
      <4>2. N + 1 \in Nat
        BY <3>1
      <4>3. QED
        BY <4>1, <4>2, ListOf
    <3>8. QED
      <4> HIDE DEF a, N
      <4>1. QED
        BY <3>2, <3>6, <3>7, ListsEqual DEF a
  <2>3. QED
    BY <1>1, <2>1, <2>2
<1>2. CASE WriteEntry
  <2>1. ledger' = AppendLine(ledger, entry)
    BY <1>2 DEF WriteEntry
  <2>2. ledger'.lines = WithLine(ledger, <<entry>>) /\ ledger'.open = FALSE
    BY <2>1 DEF AppendLine
  <2>3. QED
    BY <1>1, <1>2, <2>2 DEF WriteEntry, Wrote, LogInv
<1>3. ASSUME NEW tear \in Tears, CutEntry(tear) PROVE LogInv' /\ Wrote
  <2>1. ledger' = TornLine(ledger, entry, tear)
    BY <1>3 DEF CutEntry
  <2>2. /\ ledger'.open = TRUE
        /\ \E line \in {<<entry>>, <<>>} : ledger'.lines = WithLine(ledger, line)
    BY <2>1 DEF TornLine
  <2>3. QED
    BY <1>1, <1>3, <2>2 DEF CutEntry, Wrote, LogInv
<1>4. ASSUME ledger' = ledger PROVE LogInv'
  BY <1>4 DEF LogInv
<1>5. QED
  BY <1>2, <1>3, <1>4
     DEF BtcvmNext, Main, Progress, Crash, GetHeight, GetHash, NoHash, OnTick, EndTicks,
         BroadcastEntry, OpenTrace, DumpTrace, BlockDone, CutTrace, Mine, Reorganise, CatchUp,
         Restart, files, btcvmVars, Quiet

LEMMA Unwritten ==
    ASSUME ledger' = ledger
    PROVE  Entries' = Entries /\ (LedgerLoads' <=> LedgerLoads)
  BY DEF Entries, LedgerLoads

\* the last entry, which LastEntry is
LEMMA LastOf ==
    ASSUME LogInv
    PROVE  LastEntry = Entries[Len(Entries)] /\ (Entries # <<>> => Len(Entries) \in DOMAIN Entries)
<1>1. IsList(Entries) /\ Len(Entries) = Len(ledger.lines)
  BY EntriesList
<1>2. Entries # <<>> => Len(Entries) \in DOMAIN Entries
  BY <1>1 DEF IsList
<1>3. QED
  BY <1>1, <1>2 DEF LastEntry

----------------------------------------------------------------------------
(* verify.py accepts.                                                      *)

\* an entry, in the ledger or about to be, is as on_tick makes it
Made(e) ==
    /\ e.hash = <<e.height, e.hash[2]>>
    /\ VdfTicks > 0 => /\ e.vdfIn = <<e.hash, e.vdfTick>>
                       /\ e.vdfOut = <<e.hash, e.vdfTick + 1>>
    /\ e.commitment = MakeCommitment(e.hash, e.root, e.vdfOut)
    /\ FleetRootOk(e)

MadeInv ==
    /\ LogInv
    /\ LedgerLoads => \A i \in DOMAIN Entries : Made(Entries[i])
    /\ pc \in {"broadcast", "write"} => Made(entry)
    /\ DOMAIN block = {"height", "hash", "api"}
    /\ pc \in {"tick", "broadcast", "write"} => block.hash = <<block.height, block.hash[2]>>

LEMMA MadeInit == BtcvmInit => MadeInv
<1> SUFFICES ASSUME BtcvmInit PROVE MadeInv
  OBVIOUS
<1>1. DOMAIN Entries = {}
  BY DEF BtcvmInit, Entries, EmptyFile
<1>2. QED
  BY <1>1, LogInit DEF BtcvmInit, MadeInv, NoBlock

LEMMA MadeStep == MadeInv /\ [BtcvmNext]_btcvmVars => MadeInv'
<1> SUFFICES ASSUME MadeInv, [BtcvmNext]_btcvmVars PROVE MadeInv'
  OBVIOUS
<1>0. LogInv' /\ LogInv /\ (Wrote \/ Quiet)
  BY LedgerStep DEF MadeInv
\* the entries stay as they are
<1>1. ASSUME ledger' = ledger
      PROVE  LedgerLoads' => \A i \in DOMAIN Entries' : Made(Entries'[i])
  BY <1>1, Unwritten DEF MadeInv
<1>2. CASE Wrote
  <2>1. Made(entry) /\ pc' \notin {"broadcast", "write"} /\ block' = block
    BY <1>2 DEF Wrote, MadeInv
  <2>2. block.hash = <<block.height, block.hash[2]>>
    BY <1>2 DEF Wrote, MadeInv
  <2>3. ASSUME LedgerLoads' PROVE \A i \in DOMAIN Entries' : Made(Entries'[i])
    BY <1>0, <1>2, <2>1, <2>3, EntriesList, AppendList DEF Wrote, MadeInv
  <2>4. QED
    BY <1>0, <2>1, <2>2, <2>3 DEF MadeInv, Made, FleetRootOk
<1>3. CASE OnTick
  <2>1. Made(entry')
    BY <1>3 DEF OnTick, MadeInv, Made, FleetRootOk, RootOf, VdfIn, VdfOut, NoVdf
  <2>2. ledger' = ledger /\ block' = block /\ pc = "tick"
    BY <1>3 DEF OnTick, files
  <2>3. QED
    BY <1>0, <1>1, <2>1, <2>2 DEF MadeInv, Made, FleetRootOk
<1>4. CASE BroadcastEntry
  <2>1. PICK tx : entry' = [entry EXCEPT !.tx = tx]
    BY <1>4 DEF BroadcastEntry
  <2>2. Made(entry') /\ ledger' = ledger /\ block' = block /\ pc = "broadcast"
    BY <1>4, <2>1 DEF BroadcastEntry, MadeInv, Made, FleetRootOk, files
  <2>3. QED
    BY <1>0, <1>1, <2>2 DEF MadeInv, Made, FleetRootOk
<1>5. CASE GetHash
  <2>1. /\ block' = [block EXCEPT !.hash = HashAt(seen[block.api], block.height)]
        /\ ledger' = ledger /\ pc' \in {"tick", "poll"}
    BY <1>5 DEF GetHash, NewBlock, files
  <2>2. DOMAIN block' = {"height", "hash", "api"} /\ block'.hash = <<block'.height, block'.hash[2]>>
    BY <2>1 DEF MadeInv, HashAt
  <2>3. QED
    BY <1>0, <1>1, <2>1, <2>2 DEF MadeInv, Made, FleetRootOk
<1>6. ASSUME NEW e \in Explorers, GetHeight(e) PROVE MadeInv'
  <2>1. DOMAIN block' = {"height", "hash", "api"} /\ ledger' = ledger /\ pc' = "hash"
    BY <1>6 DEF GetHeight, NoBlock, files
  <2>2. QED
    BY <1>0, <1>1, <2>1 DEF MadeInv, Made, FleetRootOk
<1>7. CASE Restart
  <2>1. DOMAIN block' = {"height", "hash", "api"} /\ ledger' = ledger /\ pc' = "poll"
    BY <1>7 DEF Restart, NoBlock, files
  <2>2. QED
    BY <1>0, <1>1, <2>1 DEF MadeInv, Made, FleetRootOk
<1>8. ASSUME ledger' = ledger, block' = block,
             pc' \notin {"tick", "broadcast", "write"} \/ (pc' = pc /\ entry' = entry)
      PROVE  MadeInv'
  BY <1>0, <1>1, <1>8 DEF MadeInv, Made, FleetRootOk
<1>9. QED
  BY <1>0, <1>2, <1>3, <1>4, <1>5, <1>6, <1>7, <1>8
     DEF Quiet, BtcvmNext, Main, Progress, Crash, NoHash, EndTicks, OpenTrace, DumpTrace,
         BlockDone, CutTrace, Mine, Reorganise, CatchUp, files, process, btcvmVars

\* verify.py rejects the entries whose block is not the one blockstream.info has, and
\* no others, whatever kills main, as long as every line parses.
THEOREM LedgerVerifies == BtcvmSpec => []VerifyAccepts
<1>1. ASSUME MadeInv PROVE VerifyAccepts
  <2>1. SUFFICES ASSUME LedgerLoads, NEW i \in DOMAIN Entries
                 PROVE  ~EntryOk(Entries[i]) <=>
                          seen[1][Entries[i].height] # Entries[i].hash[2]
    BY DEF VerifyAccepts, Failing
  <2> DEFINE e == Entries[i]
  <2>2. Made(e)
    BY <1>1, <2>1 DEF MadeInv
  <2> HIDE DEF e
  <2>3. Canonical(e) = e.hash <=> seen[1][e.height] = e.hash[2]
    BY <2>2 DEF Made, Canonical, HashAt
  <2>4. Canonical(e) = e.hash => EntryOk(e)
    BY <2>2 DEF Made, EntryOk, MakeCommitment, RecomputeCommitment
  <2>5. EntryOk(e) => Canonical(e) = e.hash
    BY DEF EntryOk
  <2>6. QED
    BY <2>3, <2>4, <2>5 DEF e
<1>2. QED
  BY <1>1, MadeInit, MadeStep, PTL DEF BtcvmSpec

----------------------------------------------------------------------------
(* The sub-chains of the VDF pass are the blocks.                          *)

\* no entry of a run that is still to come
RunsInv ==
    /\ LogInv /\ run \in Nat
    /\ LedgerLoads => \A i \in DOMAIN Entries : Entries[i].run \in Nat /\ Entries[i].run <= run
    /\ pc \in {"broadcast", "write"} => entry.run = run

LEMMA RunsInit == BtcvmInit => RunsInv
<1> SUFFICES ASSUME BtcvmInit PROVE RunsInv
  OBVIOUS
<1>1. DOMAIN Entries = {}
  BY DEF BtcvmInit, Entries, EmptyFile
<1>2. QED
  BY <1>1, LogInit DEF BtcvmInit, RunsInv

LEMMA RunsStep ==
    ASSUME RunsInv, [BtcvmNext]_btcvmVars
    PROVE  RunsInv'
<1>0. LogInv' /\ LogInv /\ (Wrote \/ Quiet)
  BY LedgerStep DEF RunsInv
<1>1. CASE Wrote
  <2>1. entry.run = run /\ run' = run /\ pc' \notin {"broadcast", "write"}
    BY <1>1 DEF Wrote, RunsInv
  <2>2. ASSUME LedgerLoads'
        PROVE  \A i \in DOMAIN Entries' : Entries'[i].run \in Nat /\ Entries'[i].run <= run
    BY <1>0, <1>1, <2>1, <2>2, EntriesList, AppendList DEF Wrote, RunsInv
  <2>3. QED
    BY <1>0, <2>1, <2>2 DEF RunsInv
<1>2. ASSUME ledger' = ledger, run' \in {run, run + 1},
             pc' \in {"broadcast", "write"} => entry'.run = run'
      PROVE  RunsInv'
  BY <1>0, <1>2, Unwritten DEF RunsInv
<1>3. CASE OnTick
  BY <1>2, <1>3 DEF OnTick, files
<1>4. CASE BroadcastEntry
  <2>1. PICK tx : entry' = [entry EXCEPT !.tx = tx]
    BY <1>4 DEF BroadcastEntry
  <2>2. entry'.run = entry.run
    BY <2>1
  <2>3. QED
    BY <1>2, <1>4, <2>2 DEF BroadcastEntry, files, RunsInv
<1>5. ASSUME ledger' = ledger, run' \in {run, run + 1},
             pc' \notin {"broadcast", "write"} \/ UNCHANGED <<pc, entry, run>>
      PROVE  RunsInv'
  BY <1>2, <1>5 DEF RunsInv
<1>6. QED
  BY <1>0, <1>1, <1>3, <1>4, <1>5
     DEF Quiet, BtcvmNext, Main, Progress, Crash, GetHeight, GetHash, NewBlock, NoHash, EndTicks,
         OpenTrace, DumpTrace, BlockDone, CutTrace, Mine, Reorganise, CatchUp, Restart, files,
         process, btcvmVars

\* the block an entry of this run ends the ledger with
EndsWith(h) == Entries # <<>> /\ Entries[Len(Entries)].run = run =>
                 Entries[Len(Entries)].height = h

\* a tick is the first of a block of another height, or follows the last entry's
Follows(t, hash, height) ==
    IF t = 0 THEN Entries # <<>> /\ Entries[Len(Entries)].run = run =>
                    Entries[Len(Entries)].height # height
    ELSE /\ VdfTicks > 0 /\ Entries # <<>>
         /\ Entries[Len(Entries)].vdfOut = <<hash, t>>
         /\ Entries[Len(Entries)].height = height

\* where main is, against the end of the ledger
BlockInv ==
    /\ tick \in Nat /\ DOMAIN block = {"height", "hash", "api"}
    /\ pc \in {"tick", "broadcast", "write", "export", "dump"} => lastHeight = block.height
    /\ pc \in {"broadcast", "write"} =>
         /\ entry.height = block.height /\ entry.hash = block.hash /\ entry.vdfTick = tick
         /\ VdfTicks > 0 => /\ entry.vdfIn = <<block.hash, tick>>
                            /\ entry.vdfOut = <<block.hash, tick + 1>>
    /\ LedgerLoads =>
         /\ pc \in {"tick", "broadcast", "write"} => Follows(tick, block.hash, block.height)
         /\ pc \in {"poll", "hash"} => EndsWith(lastHeight)
         /\ pc \in {"export", "dump"} => Halted \/ EndsWith(lastHeight)

ChainInv == RunsInv /\ MadeInv /\ BlockInv /\ ChainsAreBlocks

LEMMA ChainInit == BtcvmInit => ChainInv
<1> SUFFICES ASSUME BtcvmInit PROVE ChainInv
  OBVIOUS
<1>1. DOMAIN Entries = {} /\ Entries = <<>>
  BY LogInit, EntriesList DEF BtcvmInit, Entries, EmptyFile
<1>2. BlockInv
  BY <1>1 DEF BtcvmInit, BlockInv, EndsWith, NoBlock
<1>3. ChainsAreBlocks
  BY <1>1 DEF ChainsAreBlocks
<1>4. QED
  BY <1>2, <1>3, RunsInit, MadeInit DEF ChainInv

\* a step that writes nothing leaves the entries' chains
LEMMA ChainsUnwritten ==
    ASSUME ChainsAreBlocks, ledger' = ledger
    PROVE  ChainsAreBlocks'
  BY Unwritten DEF ChainsAreBlocks, StartsChain

LEMMA BlockStep ==
    ASSUME ChainInv, [BtcvmNext]_btcvmVars, Quiet
    PROVE  BlockInv'
<1>0. RunsInv /\ BlockInv /\ Entries' = Entries /\ (LedgerLoads' <=> LedgerLoads)
  BY Unwritten DEF ChainInv, Quiet
<1> USE DEF BlockInv, Follows, EndsWith
<1>1. CASE OnTick
  <2>1. /\ pc = "tick" /\ pc' \in {"broadcast", "write"}
        /\ UNCHANGED <<lastHeight, block, tick, run>>
        /\ entry'.height = block.height /\ entry'.hash = block.hash /\ entry'.vdfTick = tick
        /\ VdfTicks > 0 => /\ entry'.vdfIn = <<block.hash, tick>>
                           /\ entry'.vdfOut = <<block.hash, tick + 1>>
    BY <1>1 DEF OnTick, VdfIn, VdfOut
  <2>2. QED
    BY <1>0, <2>1
<1>2. CASE BroadcastEntry
  <2>1. PICK tx : entry' = [entry EXCEPT !.tx = tx]
    BY <1>2 DEF BroadcastEntry
  <2>2. /\ entry'.height = entry.height /\ entry'.hash = entry.hash
        /\ entry'.vdfTick = entry.vdfTick
        /\ entry'.vdfIn = entry.vdfIn /\ entry'.vdfOut = entry.vdfOut
    BY <2>1
  <2>3. QED
    BY <1>0, <1>2, <2>2 DEF BroadcastEntry
<1>3. CASE GetHash
  <2>1. /\ pc = "hash" /\ pc' \in {"tick", "poll"} /\ tick' = 0 /\ lastHeight' = block.height
        /\ pc' = "tick" <=> block.height # lastHeight
        /\ DOMAIN block' = DOMAIN block /\ block'.height = block.height
        /\ UNCHANGED <<entry, run>>
    BY <1>0, <1>3 DEF GetHash, NewBlock
  <2>2. QED
    BY <1>0, <2>1
<1>4. ASSUME NEW e \in Explorers, GetHeight(e) PROVE BlockInv'
  <2>1. /\ DOMAIN block' = DOMAIN block /\ pc = "poll" /\ pc' = "hash"
        /\ UNCHANGED <<lastHeight, tick, run>>
    BY <1>0, <1>4 DEF GetHeight, NoBlock
  <2>2. QED
    BY <1>0, <2>1
<1>5. CASE NoHash
  BY <1>0, <1>5 DEF NoHash
<1>6. CASE EndTicks
  <2>1. /\ pc = "tick" /\ pc' = "export" /\ VdfTicks > 0 /\ (tick = VdfTicks \/ Halted)
        /\ UNCHANGED <<lastHeight, block, tick, vms, run>>
    BY <1>6 DEF EndTicks
  <2>2. Halted' <=> Halted
    BY <2>1 DEF Halted
  <2>3. LedgerLoads => Halted \/ EndsWith(lastHeight)
    BY <1>0, <2>1, CyclesAssumption
  <2>4. QED
    BY <1>0, <2>1, <2>2, <2>3
<1>7. CASE OpenTrace \/ DumpTrace
  <2>1. /\ pc \in {"export", "dump"} /\ pc' \in {"export", "dump"}
        /\ UNCHANGED <<lastHeight, block, tick, vms, run>>
    BY <1>7 DEF OpenTrace, DumpTrace
  <2>2. Halted' <=> Halted
    BY <2>1 DEF Halted
  <2>3. QED
    BY <1>0, <2>1, <2>2
<1>8. CASE BlockDone
  <2>1. /\ pc = "export" /\ pc' = IF Halted THEN "done" ELSE "poll"
        /\ UNCHANGED <<lastHeight, block, tick, run>>
    BY <1>8 DEF BlockDone
  <2>2. QED
    BY <1>0, <2>1
<1>9. CASE Restart
  <2>1. /\ DOMAIN block' = DOMAIN block /\ pc' = "poll" /\ tick' = 0 /\ run' = run + 1
    BY <1>0, <1>9 DEF Restart, NoBlock
  <2>2. ASSUME LedgerLoads, Entries # <<>> PROVE Entries[Len(Entries)].run # run'
    <3>1. Len(Entries) \in DOMAIN Entries
      <4>1. IsList(Entries)
        BY <1>0, EntriesList DEF RunsInv
      <4>2. QED
        BY <2>2, <4>1 DEF IsList
    <3>2. QED
      BY <1>0, <2>1, <2>2, <3>1 DEF RunsInv
  <2>3. QED
    BY <1>0, <2>1, <2>2
<1>10. CASE CutTrace
  BY <1>0, <1>10 DEF CutTrace
<1>11. CASE Progress \/ UNCHANGED btcvmVars
  <2>1. UNCHANGED <<process, run>>
    BY <1>11 DEF Progress, Mine, Reorganise, CatchUp, btcvmVars
  <2>2. Halted' <=> Halted
    BY <2>1 DEF Halted, process
  <2>3. QED
    BY <1>0, <2>1, <2>2 DEF process
<1>12. QED
  BY <1>1, <1>2, <1>3, <1>4, <1>5, <1>6, <1>7, <1>8, <1>9, <1>10, <1>11
     DEF Quiet, BtcvmNext, Main, Crash

LEMMA ChainStep == ChainInv /\ [BtcvmNext]_btcvmVars => ChainInv'
<1> SUFFICES ASSUME ChainInv, [BtcvmNext]_btcvmVars PROVE ChainInv'
  OBVIOUS
<1>0. RunsInv /\ RunsInv' /\ MadeInv' /\ BlockInv /\ ChainsAreBlocks
  BY RunsStep, MadeStep DEF ChainInv
<1>1. CASE Quiet
  BY <1>0, <1>1, BlockStep, ChainsUnwritten DEF ChainInv, Quiet
<1>2. CASE Wrote
  <2>0. PICK N : N = Len(Entries)
    OBVIOUS
  <2>1. /\ pc = "write" /\ UNCHANGED <<lastHeight, block, vms, run>>
        /\ \/ pc' = "killed" /\ tick' = tick
           \/ pc' = (IF VdfTicks > 0 THEN "tick" ELSE "export") /\ tick' = tick + 1
    BY <1>2 DEF Wrote
  <2>2. /\ entry.height = block.height /\ entry.hash = block.hash /\ entry.vdfTick = tick
        /\ VdfTicks > 0 => /\ entry.vdfIn = <<block.hash, tick>>
                           /\ entry.vdfOut = <<block.hash, tick + 1>>
        /\ lastHeight = block.height /\ tick \in Nat /\ tick + 1 # 0
    BY <1>0, <2>1 DEF BlockInv
  <2>3. entry.run = run
    BY <1>0, <2>1 DEF RunsInv
  <2>4. ASSUME LedgerLoads'
        PROVE  /\ LedgerLoads /\ N \in Nat /\ DOMAIN Entries = 1 .. N
               /\ DOMAIN Entries' = 1 .. N + 1 /\ Len(Entries') = N + 1
               /\ Entries' # <<>> /\ Entries'[N + 1] = entry
               /\ \A i \in 1 .. N : Entries'[i] = Entries[i]
               /\ Entries # <<>> <=> N # 0
    <3>1. IsList(Entries) /\ N = Len(Entries) /\ LedgerLoads /\ Entries' = Append(Entries, entry)
      BY <1>0, <1>2, <2>0, <2>4, EntriesList DEF Wrote, RunsInv
    <3>2. /\ IsList(Entries') /\ N \in Nat /\ DOMAIN Entries = 1 .. N /\ Len(Entries') = N + 1
          /\ \A i \in DOMAIN Entries : Entries'[i] = Entries[i]
          /\ Entries'[N + 1] = entry
      BY <3>1, AppendList
    <3>3. DOMAIN Entries' = 1 .. N + 1
      BY <3>2, ListFacts
    <3>4. Entries # <<>> <=> N # 0
      BY <3>1 DEF IsList
    <3>5. Entries' # <<>>
      BY <3>2, <3>3
    <3>6. QED
      BY <3>1, <3>2, <3>3, <3>4, <3>5
  <2>5. BlockInv'
    <3>1. ASSUME LedgerLoads', pc' = "tick"
          PROVE  Follows(tick, block.hash, block.height)'
      BY <2>1, <2>2, <2>4, <3>1 DEF Follows
    <3>2. ASSUME LedgerLoads', pc' = "export" PROVE EndsWith(lastHeight)'
      BY <2>1, <2>2, <2>4, <3>2 DEF EndsWith
    <3>3. /\ tick' \in Nat /\ DOMAIN block' = {"height", "hash", "api"}
          /\ lastHeight' = block'.height
          /\ pc' \in {"killed", "tick", "export"}
      BY <1>0, <2>1, <2>2 DEF BlockInv
    <3>4. QED
      BY <3>1, <3>2, <3>3 DEF BlockInv
  <2>6. ChainsAreBlocks'
    <3>1. ASSUME LedgerLoads', NEW i \in 1 .. N
          PROVE  /\ VdfTicks > 0 => VdfTickOk(Entries'[i])
                 /\ StartsChain(i)' =>
                      /\ Entries'[i].vdfTick = 0
                      /\ i > 1 /\ Entries'[i].run = Entries'[i - 1].run =>
                           Entries'[i].height # Entries'[i - 1].height
      <4>1. Entries'[i] = Entries[i] /\ (i # 1 => Entries'[i - 1] = Entries[i - 1])
        BY <2>4, <3>1
      <4>2. StartsChain(i)' <=> StartsChain(i)
        BY <4>1 DEF StartsChain
      <4>3. i > 1 => i # 1
        BY <2>4, <3>1
      <4>4. QED
        BY <1>0, <2>4, <3>1, <4>1, <4>2, <4>3 DEF ChainsAreBlocks
    <3>2. ASSUME LedgerLoads'
          PROVE  /\ VdfTicks > 0 => VdfTickOk(entry)
                 /\ StartsChain(N + 1)' =>
                      /\ entry.vdfTick = 0
                      /\ N + 1 > 1 /\ entry.run = Entries'[N].run =>
                           entry.height # Entries'[N].height
      <4>1. Follows(tick, block.hash, block.height)
        BY <1>0, <2>1, <2>4, <3>2 DEF BlockInv
      <4>2. VdfTicks > 0 => VdfTickOk(entry)
        BY <2>2 DEF VdfTickOk
      <4>3. N # 0 => Entries'[N] = Entries[N] /\ Entries[Len(Entries)] = Entries[N]
        BY <2>0, <2>4, <3>2
      <4>4. ASSUME tick # 0 PROVE ~StartsChain(N + 1)'
        <5>1. /\ N # 0 /\ Entries'[N].vdfOut = entry.vdfIn
          BY <2>2, <2>4, <3>2, <4>1, <4>3, <4>4 DEF Follows
        <5>2. N + 1 # 1 /\ (N + 1) - 1 = N
          BY <2>4, <3>2, <5>1
        <5>3. Entries'[N + 1] = entry /\ entry.vdfTick # 0
          BY <2>2, <2>4, <3>2, <4>4
        <5>4. QED
          BY <5>1, <5>2, <5>3 DEF StartsChain
      <4>5. ASSUME tick = 0, N # 0, entry.run = Entries'[N].run
            PROVE  entry.height # Entries'[N].height
        BY <2>2, <2>3, <2>4, <3>2, <4>1, <4>3, <4>5 DEF Follows
      <4>6. N + 1 > 1 => N # 0
        BY <2>4, <3>2
      <4>7. QED
        BY <2>2, <4>2, <4>4, <4>5, <4>6
    <3>3. ASSUME LedgerLoads'
          PROVE  (N + 1) - 1 = N /\ \A i \in DOMAIN Entries' : i \in 1 .. N \/ i = N + 1
      BY <2>4, <3>3
    <3>4. ASSUME LedgerLoads', NEW i \in DOMAIN Entries'
          PROVE  /\ VdfTicks > 0 => VdfTickOk(Entries'[i])
                 /\ StartsChain(i)' =>
                      /\ Entries'[i].vdfTick = 0
                      /\ i > 1 /\ Entries'[i].run = Entries'[i - 1].run =>
                           Entries'[i].height # Entries'[i - 1].height
      <4>1. CASE i \in 1 .. N
        BY <3>1, <3>4, <4>1
      <4>2. CASE i = N + 1
        <5>1. Entries'[i] = entry /\ i - 1 = N
          BY <2>4, <3>3, <3>4, <4>2
        <5>2. QED
          BY <3>2, <3>4, <4>2, <5>1
      <4>3. QED
        BY <3>3, <3>4, <4>1, <4>2
    <3>5. QED
      BY <3>4 DEF ChainsAreBlocks, VdfTickOk
  <2>7. QED
    BY <1>0, <2>5, <2>6 DEF ChainInv
<1>3. QED
  BY <1>0, <1>1, <1>2, LedgerStep DEF RunsInv

\* However the explorers go back and forth and whatever kills main, verify.py splits
\* a ledger that loads into the blocks main worked on, each from its first tick, and
\* no two of a run that follow each other are of one height.
THEOREM LedgerInBlocks == BtcvmSpec => []ChainsAreBlocks
<1>1. ChainInv => ChainsAreBlocks
  BY DEF ChainInv
<1>2. QED
  BY <1>1, ChainInit, ChainStep, PTL DEF BtcvmSpec

----------------------------------------------------------------------------
(* The trace file.                                                         *)

\* The last entry of this run commits to the machine's trace, which the file has
\* once the block is done.
TraceInv ==
    /\ RunsInv
    /\ pc \in {"broadcast", "write"} => entry.root = vms[1].trace
    /\ exported \in {0, 1} /\ 1 \in DOMAIN traceFile
    /\ pc \in {"poll", "hash", "tick", "broadcast", "write", "dump", "done"} => exported = 0
    /\ pc \in {"export", "dump"} /\ exported = 1 => traceFile[1] = vms[1].trace
    /\ LedgerLoads /\ Entries # <<>> /\ Entries[Len(Entries)].run = run =>
         /\ pc \in {"tick", "export", "dump"} => Entries[Len(Entries)].root = vms[1].trace
         /\ pc \in {"poll", "hash", "done"} =>
              /\ Entries[Len(Entries)].root = vms[1].trace
              /\ traceFile[1] = vms[1].trace

LEMMA TraceInit == BtcvmInit => TraceInv
<1> SUFFICES ASSUME BtcvmInit PROVE TraceInv
  OBVIOUS
<1>1. Entries = <<>>
  BY LogInit, EntriesList DEF BtcvmInit, EmptyFile
<1>2. QED
  BY <1>1, RunsInit, SourcesAssumption DEF BtcvmInit, TraceInv, Machines

LEMMA TraceStep ==
    ASSUME Tracing, ~Fleet, TraceInv, [BtcvmNext]_btcvmVars
    PROVE  TraceInv'
<1>0. RunsInv /\ RunsInv' /\ LogInv /\ (Wrote \/ Quiet)
  BY LedgerStep, RunsStep DEF TraceInv, RunsInv
<1>00. Len(Sources) = 1 /\ Machines = {1}
  <2>1. Programs = [m \in 1 .. Len(Sources) |-> Programs[m]]
    BY SourcesAssumption DEF Programs
  <2>2. Len(Programs) = Len(Sources)
    BY <2>1, SourcesAssumption, ListOf
  <2>3. Len(Sources) = 1 /\ DOMAIN Sources = 1 .. 1
    BY <2>2, SourcesAssumption DEF Fleet
  <2>4. QED
    BY <2>3 DEF Machines
<1>1. CASE Wrote
  <2>1. /\ pc = "write" /\ pc' \in {"tick", "export", "killed"}
        /\ UNCHANGED <<vms, exported, traceFile, run>>
        /\ entry.root = vms[1].trace /\ exported = 0
    BY <1>1 DEF Wrote, TraceInv
  <2>2. ASSUME LedgerLoads' PROVE Entries'[Len(Entries')] = entry
    BY <1>0, <1>1, <2>2, EntriesList, AppendList DEF Wrote
  <2>3. QED
    BY <1>0, <2>1, <2>2 DEF TraceInv
<1>2. ASSUME Quiet PROVE Entries' = Entries /\ (LedgerLoads' <=> LedgerLoads)
  BY <1>2, Unwritten DEF Quiet
<1>3. CASE Quiet /\ OnTick
  <2>1. /\ entry'.root = RootOf(vms') /\ pc = "tick" /\ pc' \in {"broadcast", "write"}
        /\ UNCHANGED <<exported, traceFile>>
    BY <1>3 DEF OnTick, files
  <2>2. RootOf(vms') = vms'[1].trace
    BY DEF RootOf, StateOrRoot
  <2>3. QED
    BY <1>0, <1>2, <1>3, <2>1, <2>2 DEF TraceInv
<1>4. CASE Quiet /\ BroadcastEntry
  <2>1. PICK tx : entry' = [entry EXCEPT !.tx = tx]
    BY <1>4 DEF BroadcastEntry
  <2>2. entry'.root = entry.root
    BY <2>1
  <2>3. QED
    BY <1>0, <1>2, <1>4, <2>2 DEF BroadcastEntry, TraceInv, files
<1>5. CASE Quiet /\ OpenTrace
  BY <1>0, <1>00, <1>2, <1>5 DEF OpenTrace, TraceInv
<1>6. CASE Quiet /\ DumpTrace
  <2>1. /\ pc = "dump" /\ exported = 0 /\ pc' = "export" /\ exported' = 1
        /\ traceFile' = [traceFile EXCEPT ![1] = vms[1].trace]
        /\ UNCHANGED <<vms, run>>
    BY <1>6 DEF DumpTrace, TraceInv
  <2>2. traceFile'[1] = vms[1].trace /\ 1 \in DOMAIN traceFile'
    BY <2>1 DEF TraceInv
  <2>3. QED
    BY <1>0, <1>2, <1>6, <2>1, <2>2 DEF TraceInv
<1>7. CASE Quiet /\ BlockDone
  <2>1. /\ pc = "export" /\ exported = 1 /\ exported' = 0 /\ pc' \in {"poll", "done"}
        /\ UNCHANGED <<vms, traceFile, run>>
    BY <1>00, <1>7 DEF BlockDone, files
  <2>2. QED
    BY <1>0, <1>2, <1>7, <2>1 DEF TraceInv
<1>8. CASE Quiet /\ Restart
  <2>1. pc' = "poll" /\ exported' = 0 /\ run' = run + 1
    BY <1>8 DEF Restart
  <2>2. ASSUME LedgerLoads, Entries # <<>> PROVE Entries[Len(Entries)].run # run'
    BY <1>0, <2>1, <2>2, LastOf DEF RunsInv
  <2>3. QED
    BY <1>0, <1>2, <1>8, <2>1, <2>2 DEF TraceInv, Restart, files
<1>9. CASE Quiet /\ CutTrace
  <2>1. /\ pc' = "killed" /\ DOMAIN traceFile' = DOMAIN traceFile /\ exported' = exported
        /\ run' = run
    BY <1>9 DEF CutTrace
  <2>2. QED
    BY <1>0, <1>2, <1>9, <2>1 DEF TraceInv
<1>10. CASE Quiet /\ (NoHash \/ EndTicks \/ GetHash \/ \E e \in Explorers : GetHeight(e))
  <2>1. CASE NoHash \/ EndTicks
    BY <1>0, <1>2, <1>10, <2>1 DEF NoHash, EndTicks, TraceInv, files
  <2>2. CASE GetHash
    <3>1. /\ pc = "hash" /\ pc' \in {"tick", "poll"}
          /\ UNCHANGED <<vms, exported, traceFile, run>>
      BY <2>2 DEF GetHash, NewBlock, files
    <3>2. QED
      BY <1>0, <1>2, <1>10, <3>1 DEF TraceInv
  <2>3. CASE \E e \in Explorers : GetHeight(e)
    BY <1>0, <1>2, <1>10, <2>3 DEF GetHeight, TraceInv, files
  <2>4. QED
    BY <1>10, <2>1, <2>2, <2>3
<1>11. CASE Quiet /\ (Progress \/ UNCHANGED btcvmVars)
  BY <1>0, <1>2, <1>11
     DEF Progress, Mine, Reorganise, CatchUp, btcvmVars, process, files, TraceInv
<1>12. QED
  BY <1>0, <1>1, <1>3, <1>4, <1>5, <1>6, <1>7, <1>8, <1>9, <1>10, <1>11
     DEF Quiet, BtcvmNext, Main, Crash

\* Whenever main rests, the trace verify.py finds on disk is the one the last
\* entry of its run commits to, over runs that were killed too.
THEOREM TraceCommitted == BtcvmSpec => []TraceRootChecked
<1>1. CASE Tracing /\ ~Fleet
  <2>1. TraceInv => TraceRootChecked
    BY EntriesList, LastOf DEF TraceInv, RunsInv, TraceRootChecked, HasTrace, TraceFileRoot
  <2>2. QED
    BY <1>1, <2>1, TraceInit, TraceStep, PTL DEF BtcvmSpec
<1>2. CASE ~(Tracing /\ ~Fleet)
  <2>1. TraceRootChecked
    BY <1>2 DEF TraceRootChecked, HasTrace
  <2>2. QED
    BY <2>1, PTL
<1>3. QED
  BY <1>1, <1>2

----------------------------------------------------------------------------
(* The addresses of a program text.                                        *)

LEMMA TextFacts ==
    ASSUME NEW source, Assembles(source)
    PROVE  /\ Len(source) \in Nat /\ DOMAIN source = 1 .. Len(source)
           /\ Instructions(source) \subseteq 1 .. Len(source)
           /\ \A k \in 1 .. Len(source) : k \in Instructions(source) <=> source[k].op # NoOp
           /\ IsFiniteSet(Instructions(source))
           /\ Cardinality(Instructions(source)) \in Nat
<1>1. /\ Len(source) \in Nat /\ DOMAIN source = 1 .. Len(source)
      /\ Instructions(source) \subseteq 1 .. Len(source)
      /\ \A k \in 1 .. Len(source) : k \in Instructions(source) <=> source[k].op # NoOp
  BY DEF Assembles, Instructions
<1>2. IsFiniteSet(1 .. Len(source))
  BY <1>1, FS_Interval
<1>3. IsFiniteSet(Instructions(source))
  BY <1>1, <1>2, FS_Subset
<1>4. QED
  BY <1>1, <1>3, FS_CardinalityType

\* Pass 1's pc goes up at an instruction, and nowhere else.
LEMMA AddressFacts ==
    ASSUME NEW source, Assembles(source), NEW k \in Nat
    PROVE  /\ Address(source, k) \in 0 .. Cardinality(Instructions(source))
           /\ Address(source, Len(source) + 1) = Cardinality(Instructions(source))
           /\ k \in Instructions(source) => Address(source, k + 1) = Address(source, k) + 1
           /\ \A j \in Nat : j <= k => Address(source, j) <= Address(source, k)
<1> DEFINE I == Instructions(source)
           Before(j) == {i \in I : i < j}
<1>1. /\ Len(source) \in Nat /\ I \subseteq 1 .. Len(source) /\ IsFiniteSet(I)
      /\ Cardinality(I) \in Nat
  BY TextFacts
<1>2. \A j : Address(source, j) = Cardinality(Before(j))
  BY DEF Address
<1> HIDE DEF I
<1> DEFINE N == Len(source)
<1> HIDE DEF N
<1>0. N \in Nat /\ \A i \in I : i \in Nat /\ i < N + 1
  <2>1. N \in Nat /\ I \subseteq 1 .. N
    BY <1>1 DEF N
  <2>2. QED
    BY <2>1
<1>3. \A j : IsFiniteSet(Before(j)) /\ Cardinality(Before(j)) \in Nat
              /\ Cardinality(Before(j)) <= Cardinality(I)
  <2>1. ASSUME NEW j
        PROVE  IsFiniteSet(Before(j)) /\ Cardinality(Before(j)) <= Cardinality(I)
    <3>1. Before(j) \in SUBSET I
      OBVIOUS
    <3>2. QED
      BY <1>1, <3>1, FS_Subset
  <2>2. QED
    BY <2>1, FS_CardinalityType
<1>4. Before(N + 1) = I
  BY <1>0
<1>5. ASSUME k \in I PROVE Cardinality(Before(k + 1)) = Cardinality(Before(k)) + 1
  <2>1. \A i \in I : (i < k + 1) <=> (i < k \/ i = k)
    BY <1>0
  <2>2. ~(k < k)
    OBVIOUS
  <2>3. Before(k + 1) = Before(k) \cup {k} /\ k \notin Before(k)
    BY <1>5, <2>1, <2>2
  <2> DEFINE B == Before(k)
             C == Before(k + 1)
  <2>4. IsFiniteSet(B) /\ k \notin B /\ C = B \cup {k}
    BY <1>3, <2>3
  <2> HIDE DEF B, C
  <2>5. Cardinality(C) = Cardinality(B) + 1
    BY <2>4, FS_AddElement
  <2>6. QED
    BY <2>5 DEF B, C
<1>6. ASSUME NEW j \in Nat, j <= k PROVE Cardinality(Before(j)) <= Cardinality(Before(k))
  <2>1. \A i \in I : i < j => i < k
    BY <1>0, <1>6
  <2>2. Before(j) \in SUBSET Before(k)
    BY <2>1
  <2>3. QED
    BY <1>3, <2>2, FS_Subset
<1> HIDE DEF Before
<1>7. QED
  BY <1>1, <1>2, <1>3, <1>4, <1>5, <1>6 DEF I, N

\* Each instruction has an address of its own, and a program behind it.
LEMMA AddressOwn ==
    ASSUME NEW source, Assembles(source), NEW k \in Instructions(source)
    PROVE  /\ Address(source, k) \in Nat
           /\ Address(source, k) < Cardinality(Instructions(source))
           /\ \A j \in Instructions(source) : Address(source, j) = Address(source, k) => j = k
<1> DEFINE A(j) == Address(source, j)
<1>1. Instructions(source) \subseteq Nat /\ Len(source) \in Nat /\ k <= Len(source)
      /\ Cardinality(Instructions(source)) \in Nat
  BY TextFacts
<1>2. \A j \in Instructions(source) : A(j) \in Nat /\ A(j + 1) = A(j) + 1
  BY <1>1, AddressFacts
<1>3. \A i, j \in Nat : i <= j => A(i) <= A(j)
  BY AddressFacts
<1>4. A(Len(source) + 1) = Cardinality(Instructions(source))
  BY <1>1, AddressFacts
<1> HIDE DEF A
<1>5. A(k + 1) <= A(Len(source) + 1)
  BY <1>1, <1>3
<1>6. \A i, j \in Instructions(source) : i < j => A(i) < A(j)
  <2>1. ASSUME NEW i \in Instructions(source), NEW j \in Instructions(source), i < j
        PROVE  A(i) < A(j)
    <3>1. A(i + 1) <= A(j)
      BY <1>1, <1>3, <2>1
    <3>2. QED
      BY <1>2, <3>1
  <2>2. QED
    BY <2>1
<1>7. A(k) \in Nat /\ A(k) < Cardinality(Instructions(source))
  BY <1>1, <1>2, <1>4, <1>5
<1>8. ASSUME NEW j \in Instructions(source), A(j) = A(k) PROVE j = k
  <2>1. ~(j < k) /\ ~(k < j)
    BY <1>2, <1>6, <1>8
  <2>2. QED
    BY <1>1, <2>1
<1>9. QED
  BY <1>7, <1>8 DEF A

\* The instruction that follows a line has the line's address.
LEMMA NextLineFacts ==
    ASSUME NEW source, Assembles(source), NEW line \in 1 .. Len(source) + 1
    PROVE  /\ NextLine(source, line) \in Instructions(source) \cup {Len(source) + 1}
           /\ Address(source, NextLine(source, line)) = Address(source, line)
<1> DEFINE N == Len(source)
           Stops(k) == k > N \/ source[k].op # NoOp
           next(k) == Stops(k) /\ \A j \in line .. k - 1 : source[j].op = NoOp
           S == {k \in line .. N + 1 : Stops(k)}
<1>1. /\ N \in Nat /\ line \in Nat /\ line <= N + 1
      /\ Instructions(source) \subseteq 1 .. N
      /\ \A k \in 1 .. N : k \in Instructions(source) <=> source[k].op # NoOp
  BY TextFacts
<1>2. \E k \in line .. N + 1 : next(k)
  <2>1. S \subseteq Nat /\ N + 1 \in S
    BY <1>1
  <2>2. PICK k \in S : \A j \in S : k <= j
    <3> HIDE DEF S
    <3>1. QED
      BY <2>1, LeastElement
  <2>3. \A j \in line .. k - 1 : j \in line .. N + 1 /\ ~Stops(j)
    BY <1>1, <2>2
  <2>4. QED
    BY <2>2, <2>3
<1>3. NextLine(source, line) = CHOOSE k \in line .. N + 1 : next(k)
  BY DEF NextLine
<1> DEFINE k == NextLine(source, line)
<1>4. k \in line .. N + 1 /\ next(k)
  BY <1>2, <1>3
<1> HIDE DEF k
<1>5. k \in Instructions(source) \cup {N + 1}
  BY <1>1, <1>4
<1>6. {i \in Instructions(source) : i < k} = {i \in Instructions(source) : i < line}
  BY <1>1, <1>4
<1>7. QED
  BY <1>5, <1>6 DEF Address, k

\* The last line with a label is one.
LEMMA LabelFacts ==
    ASSUME NEW source, Assembles(source), NEW label, Labelled(source, label) # {}
    PROVE  Max(Labelled(source, label)) \in 1 .. Len(source)
<1> DEFINE S == Labelled(source, label)
           N == Len(source)
           T == {N - k : k \in S}
<1>1. N \in Nat /\ S \subseteq 1 .. N
  BY TextFacts DEF Labelled
<1> HIDE DEF S, N
<1>2. T \subseteq Nat /\ T # {}
  BY <1>1 DEF S
<1>3. PICK n \in T : \A m \in T : n <= m
  <2> HIDE DEF T
  <2>1. QED
    BY <1>2, LeastElement
<1>4. PICK k \in S : n = N - k
  BY <1>3
<1>5. ASSUME NEW j \in S PROVE k >= j
  <2>1. N - k <= N - j
    BY <1>3, <1>4
  <2>2. QED
    BY <1>1, <2>1
<1>6. Max(S) \in S
  BY <1>5 DEF Max
<1>7. QED
  BY <1>1, <1>6 DEF S, N

\* Pass 2 puts every instruction at its address.
LEMMA AssembleFacts ==
    ASSUME NEW source, Assembles(source)
    PROVE  /\ Len(Assemble(source)) = Cardinality(Instructions(source))
           /\ \A k \in Instructions(source) :
                Assemble(source)[Address(source, k) + 1] =
                  [op |-> source[k].op, dst |-> source[k].dst, b |-> source[k].b,
                   a |-> IF IsJump(source[k]) THEN LabelPc(source, source[k].a)
                         ELSE source[k].a]
<1> DEFINE C == Cardinality(Instructions(source))
           Emit(i) == [op |-> i.op, dst |-> i.dst, b |-> i.b,
                       a |-> IF IsJump(i) THEN LabelPc(source, i.a) ELSE i.a]
           LineAt(p) == CHOOSE k \in Instructions(source) : Address(source, k) = p
<1>1. Assemble(source) = [n \in 1 .. C |-> Emit(source[LineAt(n - 1)])]
  BY DEF Assemble
<1>2. C \in Nat
  BY TextFacts
<1>3. ASSUME NEW k \in Instructions(source)
      PROVE  Assemble(source)[Address(source, k) + 1] = Emit(source[k])
  <2> DEFINE p == Address(source, k)
  <2>1. p \in Nat /\ p < C
    BY AddressOwn
  <2>2. LineAt(p) = k
    BY AddressOwn
  <2> HIDE DEF p, C, Emit, LineAt
  <2>3. p + 1 \in 1 .. C /\ (p + 1) - 1 = p
    BY <1>2, <2>1
  <2>4. Assemble(source)[p + 1] = Emit(source[LineAt(p)])
    BY <1>1, <2>3
  <2>5. QED
    BY <2>2, <2>4 DEF p
<1>4. Len(Assemble(source)) = C
  <2> HIDE DEF C, Emit, LineAt
  <2>1. Assemble(source) = [n \in 1 .. C |-> Assemble(source)[n]]
    BY <1>1
  <2>2. QED
    BY <1>2, <2>1, ListOf
<1>5. QED
  BY <1>3, <1>4

----------------------------------------------------------------------------
(* The machine keeps step with the text.                                   *)

VmFields == {"pc", "registers", "ticks", "halted"}
TextFields == {"line", "registers", "halted", "ops"}

\* the machine and its trace are where r, what the text means so far, says
InStep(source, vm, trace, r) ==
    /\ DOMAIN vm = VmFields /\ DOMAIN r = TextFields
    /\ r.line \in Instructions(source) \cup {Len(source) + 1}
    /\ vm.pc = Address(source, r.line) /\ vm.registers = r.registers
    /\ vm.ticks = Len(r.ops) /\ vm.halted = r.halted /\ r.halted \in BOOLEAN
    /\ IsList(r.ops) /\ IsList(trace) /\ Len(trace) = Len(r.ops)
    /\ \A n \in 1 .. Len(trace) : trace[n].op = r.ops[n]

\* What running past the end makes of the fields.
LEMMA EndFields ==
    ASSUME NEW vm, DOMAIN vm = VmFields, NEW v, v = [vm EXCEPT !.halted = TRUE],
           NEW r, DOMAIN r = TextFields, NEW s, s = [r EXCEPT !.halted = TRUE]
    PROVE  /\ DOMAIN v = VmFields
           /\ v.pc = vm.pc /\ v.registers = vm.registers
           /\ v.ticks = vm.ticks /\ v.halted = TRUE
           /\ DOMAIN s = TextFields
           /\ s.line = r.line /\ s.registers = r.registers /\ s.ops = r.ops
           /\ s.halted = TRUE
  BY DEF VmFields, TextFields

\* One more instruction in the trace and in what the text has done.
LEMMA Recorded ==
    ASSUME NEW trace, NEW ops, NEW t, IsList(ops), IsList(trace), Len(trace) = Len(ops),
           \A n \in 1 .. Len(trace) : trace[n].op = ops[n]
    PROVE  /\ IsList(Append(ops, t.op)) /\ IsList(Append(trace, t))
           /\ Len(Append(ops, t.op)) = Len(ops) + 1
           /\ Len(Append(trace, t)) = Len(Append(ops, t.op))
           /\ \A n \in 1 .. Len(Append(trace, t)) : Append(trace, t)[n].op = Append(ops, t.op)[n]
<1> DEFINE a == Append(ops, t.op)
           b == Append(trace, t)
<1>1. /\ IsList(a) /\ Len(a) = Len(ops) + 1 /\ a[Len(ops) + 1] = t.op
      /\ \A n \in DOMAIN ops : a[n] = ops[n]
      /\ DOMAIN ops = 1 .. Len(ops) /\ Len(ops) \in Nat
  BY AppendList
<1>2. /\ IsList(b) /\ Len(b) = Len(ops) + 1 /\ b[Len(ops) + 1] = t
      /\ \A n \in DOMAIN trace : b[n] = trace[n]
      /\ DOMAIN trace = 1 .. Len(ops)
  BY AppendList
<1> HIDE DEF a, b
<1>3. ASSUME NEW n \in 1 .. Len(b) PROVE b[n].op = a[n]
  <2>1. n \in 1 .. Len(ops) \/ n = Len(ops) + 1
    BY <1>1, <1>2
  <2>2. QED
    BY <1>1, <1>2, <2>1
<1>4. QED
  BY <1>1, <1>2, <1>3 DEF a, b

\* After an instruction the two are in step again, where they agree on the next.
LEMMA Advances ==
    ASSUME NEW source, NEW vm, NEW trace, NEW r, InStep(source, vm, trace, r),
           NEW v, NEW s, NEW t, DOMAIN v = VmFields, DOMAIN s = TextFields,
           s.line \in Instructions(source) \cup {Len(source) + 1},
           v.pc = Address(source, s.line), v.registers = s.registers,
           v.ticks = vm.ticks + 1, v.halted = s.halted, s.halted \in BOOLEAN,
           s.ops = Append(r.ops, t.op)
    PROVE  InStep(source, v, Append(trace, t), s)
<1> DEFINE more == Append(trace, t)
<1>1. /\ IsList(s.ops) /\ IsList(more) /\ Len(s.ops) = Len(r.ops) + 1
      /\ Len(more) = Len(s.ops)
      /\ \A n \in 1 .. Len(more) : more[n].op = s.ops[n]
  BY Recorded DEF InStep
<1>2. v.ticks = Len(s.ops)
  BY <1>1 DEF InStep
<1> HIDE DEF more
<1>3. InStep(source, v, more, s)
  BY <1>1, <1>2 DEF InStep
<1>4. QED
  BY <1>3 DEF more

LEMMA StepReads ==
    ASSUME NEW source, Assembles(source), NEW vm, NEW trace, NEW r,
           InStep(source, vm, trace, r), ~r.halted
    PROVE  InStep(source, Step(Assemble(source), vm), Record(Assemble(source), vm, trace),
                  Reads(source, r))
<1> DEFINE P == Assemble(source)
           I == Instructions(source)
           N == Len(source)
           R == r.registers
           i == source[r.line]
           c == P[vm.pc + 1]
           v == Step(P, vm)
           s == Reads(source, r)
<1> SUFFICES InStep(source, v, Record(P, vm, trace), s)
  OBVIOUS
<1>1. /\ N \in Nat /\ I \subseteq 1 .. N /\ Cardinality(I) \in Nat
      /\ \A k \in 1 .. N : k \in I <=> source[k].op # NoOp
  BY TextFacts
<1>2. /\ Len(P) = Cardinality(I)
      /\ \A k \in I : P[Address(source, k) + 1] =
                         [op |-> source[k].op, dst |-> source[k].dst, b |-> source[k].b,
                          a |-> IF IsJump(source[k]) THEN LabelPc(source, source[k].a)
                                ELSE source[k].a]
  BY AssembleFacts
<1>3. /\ DOMAIN vm = VmFields /\ DOMAIN r = TextFields
      /\ vm.pc = Address(source, r.line) /\ vm.registers = R /\ vm.ticks = Len(r.ops)
      /\ vm.halted = FALSE
  BY DEF InStep
<1> HIDE DEF P, I, N, R
\* past the end
<1>4. CASE r.line = N + 1
  <2>1. vm.pc >= Len(P)
    <3>1. Address(source, N + 1) = Cardinality(I)
      BY <1>1, AddressFacts DEF I, N
    <3>2. vm.pc = Len(P) /\ Len(P) \in Nat
      BY <1>1, <1>2, <1>3, <1>4, <3>1
    <3>3. QED
      BY <3>2
  <2>2. r.line > N
    BY <1>1, <1>4
  <2>3. /\ v = [vm EXCEPT !.halted = TRUE]
        /\ Record(P, vm, trace) = trace
        /\ s = [r EXCEPT !.halted = TRUE]
    BY <2>1, <2>2 DEF Step, Record, Reads, N
  <2> HIDE DEF v, s
  <2>4. InStep(source, v, trace, s)
    BY <1>3, <2>3, EndFields DEF InStep, R
  <2>5. QED
    BY <2>3, <2>4
\* an instruction
<1>5. CASE r.line \in I
  <2>1. /\ vm.pc \in Nat /\ ~(vm.pc >= Len(P)) /\ ~(r.line > N)
        /\ r.line + 1 \in 1 .. N + 1
        /\ Address(source, r.line + 1) = vm.pc + 1
    <3>1. vm.pc \in Nat /\ vm.pc < Cardinality(I)
      BY <1>3, <1>5, AddressOwn DEF I
    <3>2. r.line \in 1 .. N
      BY <1>1, <1>5
    <3>3. Address(source, r.line + 1) = vm.pc + 1
      BY <1>3, <1>5, <3>2, AddressFacts DEF I
    <3>4. QED
      BY <1>1, <1>2, <3>1, <3>2, <3>3
  <2>2. /\ c.op = i.op /\ c.dst = i.dst /\ c.b = i.b
        /\ c.a = IF IsJump(i) THEN LabelPc(source, i.a) ELSE i.a
    <3>1. c = P[Address(source, r.line) + 1]
      BY <1>3
    <3>2. c = [op |-> i.op, dst |-> i.dst, b |-> i.b,
               a |-> IF IsJump(i) THEN LabelPc(source, i.a) ELSE i.a]
      BY <1>2, <1>5, <3>1
    <3> HIDE DEF i, c
    <3>3. QED
      BY <3>2
  <2>3. /\ i.op \in {"LOAD", "ADD", "SUB", "MUL", "JMP", "JZ", "HALT"}
        /\ i.op \in {"JMP", "JZ"} => Labelled(source, i.a) # {}
    BY <1>5 DEF Assembles, I
  <2> DEFINE t == [pc |-> vm.pc, op |-> c.op]
             ops == Append(r.ops, i.op)
             Go(line, regs) == [line |-> NextLine(source, line), registers |-> regs,
                                halted |-> FALSE, ops |-> ops]
  <2>4. /\ v = [Execute(vm, c) EXCEPT !.ticks = @ + 1]
        /\ Record(P, vm, trace) = Append(trace, t)
    BY <2>1 DEF Step, Record
  <2>5. t.op = i.op
    BY <2>2
  <2>6. s = CASE i.op = "LOAD" -> Go(r.line + 1, [R EXCEPT ![i.dst] = i.a])
              [] i.op = "ADD"  -> Go(r.line + 1, [R EXCEPT ![i.dst] = R[i.a] + R[i.b]])
              [] i.op = "SUB"  -> Go(r.line + 1, [R EXCEPT ![i.dst] = R[i.a] - R[i.b]])
              [] i.op = "MUL"  -> Go(r.line + 1, [R EXCEPT ![i.dst] = R[i.a] * R[i.b]])
              [] i.op = "JMP"  -> Go(Max(Labelled(source, i.a)), R)
              [] i.op = "JZ"   -> IF R[i.dst] = 0 THEN Go(Max(Labelled(source, i.a)), R)
                                  ELSE Go(r.line + 1, R)
              [] i.op = "HALT" -> [r EXCEPT !.halted = TRUE, !.ops = ops]
    BY <2>1 DEF Reads, R, i, N
  <2> HIDE DEF i, c, t, v, s
  <2>7. ASSUME NEW line \in 1 .. N + 1, NEW regs, s = Go(line, regs),
               DOMAIN v = VmFields, v.pc = Address(source, line), v.registers = regs,
               v.ticks = vm.ticks + 1, v.halted = FALSE
        PROVE  InStep(source, v, Record(P, vm, trace), s)
    <3>1. /\ NextLine(source, line) \in Instructions(source) \cup {Len(source) + 1}
          /\ Address(source, NextLine(source, line)) = Address(source, line)
      BY NextLineFacts DEF N
    <3>2. /\ DOMAIN s = TextFields /\ s.line = NextLine(source, line)
          /\ s.registers = regs /\ s.halted = FALSE /\ s.ops = ops
      BY <2>7 DEF TextFields
    <3>3. v.halted = s.halted /\ s.halted \in BOOLEAN
      BY <2>7, <3>2
    <3>4. s.ops = Append(r.ops, t.op)
      BY <2>5, <3>2
    <3> HIDE DEF Go
    <3>5. InStep(source, v, Append(trace, t), s)
      BY <2>7, <3>1, <3>2, <3>3, <3>4, Advances
    <3>6. QED
      BY <2>4, <3>5
  <2> HIDE DEF Go
  \* load and arithmetic
  <2>8. ASSUME NEW val, Execute(vm, c) = Assign(vm, i.dst, val),
               s = Go(r.line + 1, [R EXCEPT ![i.dst] = val])
        PROVE  InStep(source, v, Record(P, vm, trace), s)
    <3> DEFINE a == Assign(vm, i.dst, val)
    <3>0. v = [a EXCEPT !.ticks = @ + 1]
      BY <2>4, <2>8, Zenon
    <3>1. /\ DOMAIN v = VmFields /\ v.pc = Address(source, r.line + 1)
          /\ v.registers = [R EXCEPT ![i.dst] = val] /\ v.ticks = vm.ticks + 1
          /\ v.halted = FALSE
      BY <1>3, <2>1, <3>0 DEF Assign, VmFields
    <3>2. QED
      BY <2>1, <2>7, <2>8, <3>1
  \* a jump, or what follows the one not taken
  <2>9. ASSUME NEW line \in 1 .. N + 1, Execute(vm, c) = [vm EXCEPT !.pc = Address(source, line)],
               s = Go(line, R)
        PROVE  InStep(source, v, Record(P, vm, trace), s)
    <3>0. v = [[vm EXCEPT !.pc = Address(source, line)] EXCEPT !.ticks = @ + 1]
      BY <2>4, <2>9, Zenon
    <3>1. /\ DOMAIN v = VmFields /\ v.pc = Address(source, line)
          /\ v.registers = R /\ v.ticks = vm.ticks + 1 /\ v.halted = FALSE
      BY <1>3, <3>0 DEF VmFields
    <3>2. QED
      BY <2>7, <2>9, <3>1
  <2>10. ASSUME i.op \in {"JMP", "JZ"}
         PROVE  /\ Max(Labelled(source, i.a)) \in 1 .. N + 1
                /\ c.a = Address(source, Max(Labelled(source, i.a)))
    <3>1. Max(Labelled(source, i.a)) \in 1 .. N
      BY <2>3, <2>10, LabelFacts DEF N
    <3>2. QED
      BY <1>1, <2>2, <2>10, <3>1 DEF IsJump, LabelPc
  <2>11. CASE i.op = "LOAD"
    <3>1. Execute(vm, c) = Assign(vm, i.dst, i.a)
      BY <2>2, <2>11 DEF Execute, IsJump
    <3>2. s = Go(r.line + 1, [R EXCEPT ![i.dst] = i.a])
      BY <2>6, <2>11
    <3>3. QED
      BY <2>8, <3>1, <3>2
  <2>12. CASE i.op = "ADD"
    <3>1. Execute(vm, c) = Assign(vm, i.dst, R[i.a] + R[i.b])
      BY <1>3, <2>2, <2>12 DEF Execute, IsJump
    <3>2. s = Go(r.line + 1, [R EXCEPT ![i.dst] = R[i.a] + R[i.b]])
      BY <2>6, <2>12
    <3>3. QED
      BY <2>8, <3>1, <3>2
  <2>13. CASE i.op = "SUB"
    <3>1. Execute(vm, c) = Assign(vm, i.dst, R[i.a] - R[i.b])
      BY <1>3, <2>2, <2>13 DEF Execute, IsJump
    <3>2. s = Go(r.line + 1, [R EXCEPT ![i.dst] = R[i.a] - R[i.b]])
      BY <2>6, <2>13
    <3>3. QED
      BY <2>8, <3>1, <3>2
  <2>14. CASE i.op = "MUL"
    <3>1. Execute(vm, c) = Assign(vm, i.dst, R[i.a] * R[i.b])
      BY <1>3, <2>2, <2>14 DEF Execute, IsJump
    <3>2. s = Go(r.line + 1, [R EXCEPT ![i.dst] = R[i.a] * R[i.b]])
      BY <2>6, <2>14
    <3>3. QED
      BY <2>8, <3>1, <3>2
  <2>15. CASE i.op = "JMP"
    <3>1. Execute(vm, c) = [vm EXCEPT !.pc = c.a]
      BY <2>2, <2>15 DEF Execute
    <3>2. s = Go(Max(Labelled(source, i.a)), R)
      BY <2>6, <2>15
    <3> DEFINE to == Max(Labelled(source, i.a))
    <3>3. to \in 1 .. N + 1 /\ Execute(vm, c) = [vm EXCEPT !.pc = Address(source, to)]
      BY <2>10, <2>15, <3>1
    <3> HIDE DEF to
    <3>4. QED
      BY <2>9, <3>2, <3>3 DEF to
  <2>16. CASE i.op = "JZ" /\ R[i.dst] = 0
    <3>1. Execute(vm, c) = [vm EXCEPT !.pc = c.a]
      BY <1>3, <2>2, <2>16 DEF Execute
    <3>2. s = Go(Max(Labelled(source, i.a)), R)
      BY <2>6, <2>16
    <3> DEFINE to == Max(Labelled(source, i.a))
    <3>3. to \in 1 .. N + 1 /\ Execute(vm, c) = [vm EXCEPT !.pc = Address(source, to)]
      BY <2>10, <2>16, <3>1
    <3> HIDE DEF to
    <3>4. QED
      BY <2>9, <3>2, <3>3 DEF to
  <2>17. CASE i.op = "JZ" /\ R[i.dst] # 0
    <3>1. Execute(vm, c) = [vm EXCEPT !.pc = Address(source, r.line + 1)]
      BY <1>3, <2>1, <2>2, <2>17 DEF Execute
    <3>2. s = Go(r.line + 1, R)
      BY <2>6, <2>17
    <3>3. QED
      BY <2>1, <2>9, <3>1, <3>2
  <2>18. CASE i.op = "HALT"
    <3>1. Execute(vm, c) = [vm EXCEPT !.halted = TRUE]
      BY <2>2, <2>18 DEF Execute
    <3>2. s = [r EXCEPT !.halted = TRUE, !.ops = ops]
      BY <2>6, <2>18
    <3>3. /\ DOMAIN v = VmFields /\ v.pc = vm.pc /\ v.registers = R
          /\ v.ticks = vm.ticks + 1 /\ v.halted = TRUE
      BY <1>3, <2>4, <3>1 DEF VmFields
    <3> HIDE DEF ops
    <3>4. /\ DOMAIN s = TextFields /\ s.line = r.line /\ s.registers = R
          /\ s.ops = ops /\ s.halted = TRUE
      BY <1>3, <3>2 DEF R, TextFields
    <3>5. s.ops = Append(r.ops, t.op)
      BY <2>5, <3>4 DEF ops
    <3>6. /\ s.line \in Instructions(source) \cup {Len(source) + 1}
          /\ v.pc = Address(source, s.line) /\ v.halted = s.halted /\ s.halted \in BOOLEAN
      BY <1>3, <1>5, <3>3, <3>4 DEF I
    <3>7. InStep(source, v, Append(trace, t), s)
      BY <3>3, <3>4, <3>5, <3>6, Advances
    <3>8. QED
      BY <2>4, <3>7
  <2>19. InStep(source, v, Record(P, vm, trace), s)
    BY <2>3, <2>11, <2>12, <2>13, <2>14, <2>15, <2>16, <2>17, <2>18
  <2>20. QED
    BY <2>19
<1>6. QED
  BY <1>4, <1>5 DEF InStep, I, N

----------------------------------------------------------------------------
(* The recursions: a program's meaning, a run of the machine, and a sum.   *)

\* the recursion that defines Meaning(source, n)
AreReadings(f, source, n) ==
    f = [k \in 0 .. n |->
           IF k = 0 THEN [line |-> NextLine(source, 1), halted |-> FALSE, ops |-> <<>>,
                          registers |-> [x \in Registers |-> 0]]
           ELSE Reads(source, f[k - 1])]

LEMMA ReadingsExist ==
    ASSUME NEW source, NEW n \in Nat
    PROVE  \E f : AreReadings(f, source, n)
<1> DEFINE start == [line |-> NextLine(source, 1), halted |-> FALSE, ops |-> <<>>,
                     registers |-> [x \in Registers |-> 0]]
           S == {k \in Nat : \E f : AreReadings(f, source, k)}
<1>0. \A f, k : AreReadings(f, source, k) <=>
          f = [j \in 0 .. k |-> IF j = 0 THEN start ELSE Reads(source, f[j - 1])]
  BY DEF AreReadings
<1> HIDE DEF start
<1>1. 0 \in S
  <2> DEFINE f == [j \in 0 .. 0 |-> start]
  <2>1. f = [j \in 0 .. 0 |-> IF j = 0 THEN start ELSE Reads(source, f[j - 1])]
    OBVIOUS
  <2> HIDE DEF f
  <2>2. QED
    BY <1>0, <2>1
<1>2. ASSUME NEW k \in Nat, k \in S PROVE k + 1 \in S
  <2>1. PICK f : f = [j \in 0 .. k |-> IF j = 0 THEN start ELSE Reads(source, f[j - 1])]
    BY <1>0, <1>2
  <2> DEFINE more == [j \in 0 .. k + 1 |-> IF j = k + 1 THEN Reads(source, f[k]) ELSE f[j]]
  <2>2. /\ \A j \in 0 .. k : more[j] = f[j]
        /\ more[k + 1] = Reads(source, f[k])
        /\ more = [j \in 0 .. k + 1 |-> more[j]]
    OBVIOUS
  <2>3. \A j \in 0 .. k : f[j] = IF j = 0 THEN start ELSE Reads(source, f[j - 1])
    BY <2>1
  <2> HIDE DEF more
  <2>4. ASSUME NEW j \in 0 .. k + 1
        PROVE  more[j] = IF j = 0 THEN start ELSE Reads(source, more[j - 1])
    <3>1. CASE j = k + 1
      BY <2>2, <3>1
    <3>2. CASE j = 0
      BY <2>2, <2>3, <3>2
    <3>3. CASE j \in 1 .. k
      <4>1. j \in 0 .. k /\ j - 1 \in 0 .. k /\ j # 0
        BY <3>3
      <4>2. QED
        BY <2>2, <2>3, <4>1
    <3>4. QED
      BY <3>1, <3>2, <3>3
  <2>5. more = [j \in 0 .. k + 1 |-> IF j = 0 THEN start ELSE Reads(source, more[j - 1])]
    BY <2>2, <2>4
  <2>6. AreReadings(more, source, k + 1)
    BY <1>0, <2>5
  <2>7. QED
    BY <2>6
<1>3. Nat \subseteq S
  <2> HIDE DEF S
  <2>1. QED
    BY <1>1, <1>2, AllNaturals
<1>4. QED
  BY <1>3

\* Two such recursions agree as far as both go.
LEMMA ReadingsAgree ==
    ASSUME NEW source, NEW n \in Nat, NEW f, NEW g, AreReadings(f, source, n),
           AreReadings(g, source, n + 1)
    PROVE  f[n] = g[n]
<1> DEFINE start == [line |-> NextLine(source, 1), halted |-> FALSE, ops |-> <<>>,
                     registers |-> [x \in Registers |-> 0]]
           S == {k \in Nat : k <= n => f[k] = g[k]}
<1>1. /\ \A k \in 0 .. n : f[k] = IF k = 0 THEN start ELSE Reads(source, f[k - 1])
      /\ \A k \in 0 .. n + 1 : g[k] = IF k = 0 THEN start ELSE Reads(source, g[k - 1])
  BY DEF AreReadings
<1> HIDE DEF start
<1>2. 0 \in S
  BY <1>1
<1>3. ASSUME NEW k \in Nat, k \in S PROVE k + 1 \in S
  <2>1. SUFFICES ASSUME k + 1 <= n PROVE f[k + 1] = g[k + 1]
    OBVIOUS
  <2>2. k + 1 \in 0 .. n /\ k + 1 \in 0 .. n + 1 /\ k + 1 # 0 /\ (k + 1) - 1 = k /\ f[k] = g[k]
    BY <1>3, <2>1
  <2>3. QED
    BY <1>1, <2>2
<1>4. Nat \subseteq S
  <2> HIDE DEF S
  <2>1. QED
    BY <1>2, <1>3, AllNaturals
<1>5. QED
  BY <1>4

LEMMA MeaningStep ==
    ASSUME NEW source
    PROVE  /\ Meaning(source, 0) = [line |-> NextLine(source, 1), halted |-> FALSE,
                                    ops |-> <<>>, registers |-> [x \in Registers |-> 0]]
           /\ \A n \in Nat : Meaning(source, n + 1) = Reads(source, Meaning(source, n))
<1> DEFINE F(n) == CHOOSE f : AreReadings(f, source, n)
<1>1. \A n : Meaning(source, n) = F(n)[n]
  BY DEF Meaning, AreReadings
<1>2. \A n \in Nat : AreReadings(F(n), source, n)
  BY ReadingsExist
<1> HIDE DEF F
<1>3. F(0)[0] = [line |-> NextLine(source, 1), halted |-> FALSE, ops |-> <<>>,
                 registers |-> [x \in Registers |-> 0]]
  <2> DEFINE g == F(0)
             start == [line |-> NextLine(source, 1), halted |-> FALSE, ops |-> <<>>,
                       registers |-> [x \in Registers |-> 0]]
  <2>1. AreReadings(g, source, 0)
    BY <1>2
  <2>2. g = [k \in 0 .. 0 |-> IF k = 0 THEN start ELSE Reads(source, g[k - 1])]
    BY <2>1 DEF AreReadings
  <2> HIDE DEF g, start
  <2>3. g[0] = start
    BY <2>2
  <2>4. QED
    BY <2>3 DEF g, start
<1>4. ASSUME NEW n \in Nat PROVE F(n + 1)[n + 1] = Reads(source, F(n)[n])
  <2> DEFINE g == F(n + 1)
  <2>1. AreReadings(g, source, n + 1) /\ AreReadings(F(n), source, n)
    BY <1>2
  <2> HIDE DEF g
  <2>2. g[n + 1] = Reads(source, g[n])
    <3>1. n + 1 \in 0 .. n + 1 /\ n + 1 # 0 /\ (n + 1) - 1 = n
      OBVIOUS
    <3>2. QED
      BY <2>1, <3>1 DEF AreReadings
  <2>3. F(n)[n] = g[n]
    BY <2>1, ReadingsAgree
  <2>4. QED
    BY <2>2, <2>3 DEF g
<1>5. QED
  BY <1>1, <1>3, <1>4


\* the recursion that defines Run(program, vm, trace, n)
AreRuns(f, program, vm, trace, n) ==
    f = [k \in 0 .. n |->
           IF k = 0 THEN [vm |-> vm, trace |-> trace, cycles |-> 0]
           ELSE LET r == f[k - 1]
                IN  IF r.vm.halted THEN r
                    ELSE [vm |-> Step(program, r.vm), cycles |-> k,
                          trace |-> Record(program, r.vm, r.trace)]]

LEMMA RunsExist ==
    ASSUME NEW program, NEW vm, NEW trace, NEW n \in Nat
    PROVE  \E f : AreRuns(f, program, vm, trace, n)
<1> DEFINE start == [vm |-> vm, trace |-> trace, cycles |-> 0]
           Then(r, k) == IF r.vm.halted THEN r
                          ELSE [vm |-> Step(program, r.vm), cycles |-> k,
                                trace |-> Record(program, r.vm, r.trace)]
           S == {k \in Nat : \E f : AreRuns(f, program, vm, trace, k)}
<1>0. \A f, k : AreRuns(f, program, vm, trace, k) <=>
          f = [j \in 0 .. k |-> IF j = 0 THEN start ELSE Then(f[j - 1], j)]
  BY DEF AreRuns
<1> HIDE DEF start, Then
<1>1. 0 \in S
  <2> DEFINE f == [j \in 0 .. 0 |-> start]
  <2>1. f = [j \in 0 .. 0 |-> IF j = 0 THEN start ELSE Then(f[j - 1], j)]
    OBVIOUS
  <2> HIDE DEF f
  <2>2. QED
    BY <1>0, <2>1
<1>2. ASSUME NEW k \in Nat, k \in S PROVE k + 1 \in S
  <2>1. PICK f : f = [j \in 0 .. k |-> IF j = 0 THEN start ELSE Then(f[j - 1], j)]
    BY <1>0, <1>2
  <2> DEFINE more == [j \in 0 .. k + 1 |-> IF j = k + 1 THEN Then(f[k], j) ELSE f[j]]
  <2>2. /\ \A j \in 0 .. k : more[j] = f[j]
        /\ more[k + 1] = Then(f[k], k + 1)
        /\ more = [j \in 0 .. k + 1 |-> more[j]]
    OBVIOUS
  <2>3. \A j \in 0 .. k : f[j] = IF j = 0 THEN start ELSE Then(f[j - 1], j)
    BY <2>1
  <2> HIDE DEF more
  <2>4. ASSUME NEW j \in 0 .. k + 1
        PROVE  more[j] = IF j = 0 THEN start ELSE Then(more[j - 1], j)
    <3>1. CASE j = k + 1
      BY <2>2, <3>1
    <3>2. CASE j = 0
      BY <2>2, <2>3, <3>2
    <3>3. CASE j \in 1 .. k
      <4>1. j \in 0 .. k /\ j - 1 \in 0 .. k /\ j # 0
        BY <3>3
      <4>2. QED
        BY <2>2, <2>3, <4>1
    <3>4. QED
      BY <3>1, <3>2, <3>3
  <2>5. more = [j \in 0 .. k + 1 |-> IF j = 0 THEN start ELSE Then(more[j - 1], j)]
    BY <2>2, <2>4
  <2>6. AreRuns(more, program, vm, trace, k + 1)
    BY <1>0, <2>5
  <2>7. QED
    BY <2>6
<1>3. Nat \subseteq S
  <2> HIDE DEF S
  <2>1. QED
    BY <1>1, <1>2, AllNaturals
<1>4. QED
  BY <1>3

\* A run of the machine does what the text means, as many steps further as it has
\* counted.
LEMMA RunReads ==
    ASSUME NEW source, Assembles(source), NEW vm, NEW trace, NEW n \in Nat, NEW limit \in Nat,
           InStep(source, vm, trace, Meaning(source, n)),
           NEW r, r = Run(Assemble(source), vm, trace, limit)
    PROVE  /\ r.cycles \in Nat
           /\ InStep(source, r.vm, r.trace, Meaning(source, n + r.cycles))
<1> DEFINE P == Assemble(source)
           f == CHOOSE g : AreRuns(g, P, vm, trace, limit)
           Fine(k) == /\ f[k].cycles \in Nat
                      /\ f[k].vm.halted \/ f[k].cycles = k
                      /\ InStep(source, f[k].vm, f[k].trace, Meaning(source, n + f[k].cycles))
           S == {k \in Nat : k <= limit => Fine(k)}
<1>1. r = f[limit]
  BY DEF Run, AreRuns
<1>2. AreRuns(f, P, vm, trace, limit)
  BY RunsExist
<1> HIDE DEF f
<1>3. /\ f[0] = [vm |-> vm, trace |-> trace, cycles |-> 0]
      /\ \A k \in 0 .. limit : k # 0 =>
           f[k] = IF f[k - 1].vm.halted THEN f[k - 1]
                  ELSE [vm |-> Step(P, f[k - 1].vm), cycles |-> k,
                        trace |-> Record(P, f[k - 1].vm, f[k - 1].trace)]
  BY <1>2 DEF AreRuns
<1>4. 0 \in S
  <2>1. f[0].vm = vm /\ f[0].trace = trace /\ f[0].cycles = 0 /\ n + 0 = n
    BY <1>3
  <2>2. QED
    BY <2>1
<1>5. ASSUME NEW k \in Nat, k \in S PROVE k + 1 \in S
  <2>1. SUFFICES ASSUME k + 1 <= limit PROVE Fine(k + 1)
    OBVIOUS
  <2>2. k + 1 \in 0 .. limit /\ k + 1 # 0 /\ (k + 1) - 1 = k /\ Fine(k)
    BY <1>5, <2>1
  <2>3. f[k + 1] = IF f[k].vm.halted THEN f[k]
                   ELSE [vm |-> Step(P, f[k].vm), cycles |-> k + 1,
                         trace |-> Record(P, f[k].vm, f[k].trace)]
    BY <1>3, <2>2
  <2>4. CASE f[k].vm.halted
    <3>1. f[k + 1] = f[k]
      BY <2>3, <2>4
    <3>2. QED
      BY <2>2, <2>4, <3>1
  <2>5. CASE ~f[k].vm.halted
    <3> DEFINE m == Meaning(source, n + k)
    <3>1. /\ f[k].cycles = k /\ InStep(source, f[k].vm, f[k].trace, m)
          /\ f[k + 1].vm = Step(P, f[k].vm) /\ f[k + 1].cycles = k + 1
          /\ f[k + 1].trace = Record(P, f[k].vm, f[k].trace)
      BY <2>2, <2>3, <2>5
    <3>2. ~m.halted
      BY <2>5, <3>1 DEF InStep
    <3>3. Meaning(source, n + (k + 1)) = Reads(source, m)
      <4>1. n + k \in Nat /\ n + (k + 1) = (n + k) + 1
        OBVIOUS
      <4>2. QED
        BY <4>1, MeaningStep
    <3> HIDE DEF m
    <3>4. InStep(source, f[k + 1].vm, f[k + 1].trace, Reads(source, m))
      BY <3>1, <3>2, StepReads
    <3>5. QED
      BY <3>1, <3>3, <3>4
  <2>6. QED
    BY <2>4, <2>5
<1>6. Nat \subseteq S
  <2> HIDE DEF S
  <2>1. QED
    BY <1>4, <1>5, AllNaturals
<1>7. Fine(limit)
  BY <1>6
<1>8. QED
  BY <1>1, <1>7

\* the recursion that defines Total(cost, n)
AreTotals(f, cost, n) ==
    f = [k \in 0 .. n |-> IF k = 0 THEN 0 ELSE f[k - 1] + cost[k]]

LEMMA TotalsExist ==
    ASSUME NEW cost, NEW n \in Nat
    PROVE  \E f : AreTotals(f, cost, n)
<1> DEFINE S == {k \in Nat : \E f : AreTotals(f, cost, k)}
<1>1. 0 \in S
  <2> DEFINE f == [j \in 0 .. 0 |-> 0]
  <2>1. AreTotals(f, cost, 0)
    BY DEF AreTotals
  <2>2. QED
    BY <2>1
<1>2. ASSUME NEW k \in Nat, k \in S PROVE k + 1 \in S
  <2>1. PICK f : AreTotals(f, cost, k)
    BY <1>2
  <2> DEFINE more == [j \in 0 .. k + 1 |-> IF j = k + 1 THEN f[k] + cost[k + 1] ELSE f[j]]
  <2>2. /\ \A j \in 0 .. k : more[j] = f[j]
        /\ more[k + 1] = f[k] + cost[k + 1]
        /\ more = [j \in 0 .. k + 1 |-> more[j]]
    OBVIOUS
  <2>3. \A j \in 0 .. k : f[j] = IF j = 0 THEN 0 ELSE f[j - 1] + cost[j]
    BY <2>1 DEF AreTotals
  <2> HIDE DEF more
  <2>4. ASSUME NEW j \in 0 .. k + 1
        PROVE  more[j] = IF j = 0 THEN 0 ELSE more[j - 1] + cost[j]
    <3>1. CASE j = k + 1
      <4>1. j # 0 /\ j - 1 = k /\ k \in 0 .. k
        BY <3>1
      <4>2. QED
        BY <2>2, <3>1, <4>1
    <3>2. CASE j = 0
      BY <2>2, <2>3, <3>2
    <3>3. CASE j \in 1 .. k
      <4>1. j \in 0 .. k /\ j - 1 \in 0 .. k /\ j # 0
        BY <3>3
      <4>2. QED
        BY <2>2, <2>3, <4>1
    <3>4. QED
      BY <3>1, <3>2, <3>3
  <2>5. AreTotals(more, cost, k + 1)
    BY <2>2, <2>4 DEF AreTotals
  <2>6. QED
    BY <2>5
<1>3. Nat \subseteq S
  <2> HIDE DEF S
  <2>1. QED
    BY <1>1, <1>2, AllNaturals
<1>4. QED
  BY <1>3

\* Sums of the same numbers are the same, as far as both go.
LEMMA TotalsAgree ==
    ASSUME NEW cost, NEW more, NEW n \in Nat, NEW l \in Nat, NEW f, NEW g, n <= l,
           AreTotals(f, cost, n), AreTotals(g, more, l), \A k \in 1 .. n : cost[k] = more[k]
    PROVE  f[n] = g[n]
<1> DEFINE S == {k \in Nat : k <= n => f[k] = g[k]}
<1>1. /\ \A k \in 0 .. n : f[k] = IF k = 0 THEN 0 ELSE f[k - 1] + cost[k]
      /\ \A k \in 0 .. l : g[k] = IF k = 0 THEN 0 ELSE g[k - 1] + more[k]
  BY DEF AreTotals
<1>2. 0 \in S
  BY <1>1
<1>3. ASSUME NEW k \in Nat, k \in S PROVE k + 1 \in S
  <2>1. SUFFICES ASSUME k + 1 <= n PROVE f[k + 1] = g[k + 1]
    OBVIOUS
  <2>2. /\ k + 1 \in 0 .. n /\ k + 1 \in 0 .. l /\ k + 1 \in 1 .. n /\ k + 1 # 0
        /\ (k + 1) - 1 = k /\ f[k] = g[k]
    BY <1>3, <2>1
  <2>3. QED
    BY <1>1, <2>2
<1>4. Nat \subseteq S
  <2> HIDE DEF S
  <2>1. QED
    BY <1>2, <1>3, AllNaturals
<1>5. QED
  BY <1>4

LEMMA TotalFacts ==
    ASSUME NEW cost, NEW n \in Nat
    PROVE  /\ Total(cost, 0) = 0
           /\ Total(cost, n + 1) = Total(cost, n) + cost[n + 1]
           /\ \A more : (\A k \in 1 .. n : cost[k] = more[k]) => Total(cost, n) = Total(more, n)
<1> DEFINE F(c, k) == CHOOSE f : AreTotals(f, c, k)
<1>1. \A c, k : Total(c, k) = F(c, k)[k]
  BY DEF Total, AreTotals
<1>2. \A c : \A k \in Nat : AreTotals(F(c, k), c, k)
  BY TotalsExist
<1> HIDE DEF F
<1>3. F(cost, 0)[0] = 0
  BY <1>2 DEF AreTotals
<1>4. F(cost, n + 1)[n + 1] = F(cost, n)[n] + cost[n + 1]
  <2> DEFINE g == F(cost, n + 1)
  <2>1. AreTotals(g, cost, n + 1) /\ AreTotals(F(cost, n), cost, n)
    BY <1>2
  <2> HIDE DEF g
  <2>2. g[n + 1] = g[n] + cost[n + 1]
    <3>1. n + 1 \in 0 .. n + 1 /\ n + 1 # 0 /\ (n + 1) - 1 = n
      OBVIOUS
    <3>2. QED
      BY <2>1, <3>1 DEF AreTotals
  <2>3. F(cost, n)[n] = g[n]
    BY <2>1, TotalsAgree
  <2>4. QED
    BY <2>2, <2>3 DEF g
<1>5. ASSUME NEW more, \A k \in 1 .. n : cost[k] = more[k] PROVE F(cost, n)[n] = F(more, n)[n]
  BY <1>2, <1>5, TotalsAgree
<1>6. QED
  BY <1>1, <1>3, <1>4, <1>5

LEMMA TotalNat ==
    ASSUME NEW cost, NEW n \in Nat, \A k \in 1 .. n : cost[k] \in Nat
    PROVE  /\ Total(cost, n) \in Nat
           /\ (\A k \in 1 .. n : cost[k] = 0) => Total(cost, n) = 0
<1> DEFINE AllZero == \A k \in 1 .. n : cost[k] = 0
           S == {k \in Nat : k <= n => /\ Total(cost, k) \in Nat
                                       /\ AllZero => Total(cost, k) = 0}
<1> HIDE DEF AllZero
<1>1. 0 \in S
  BY TotalFacts
<1>2. ASSUME NEW k \in Nat, k \in S PROVE k + 1 \in S
  <2>1. SUFFICES ASSUME k + 1 <= n
                 PROVE  Total(cost, k + 1) \in Nat /\ (AllZero => Total(cost, k + 1) = 0)
    OBVIOUS
  <2>2. /\ Total(cost, k + 1) = Total(cost, k) + cost[k + 1]
        /\ Total(cost, k) \in Nat /\ (AllZero => Total(cost, k) = 0)
        /\ cost[k + 1] \in Nat /\ (AllZero => cost[k + 1] = 0)
    BY <1>2, <2>1, TotalFacts DEF AllZero
  <2>3. QED
    BY <2>2
<1>3. Nat \subseteq S
  <2> HIDE DEF S
  <2>1. QED
    BY <1>1, <1>2, AllNaturals
<1>4. QED
  BY <1>3 DEF AllZero


----------------------------------------------------------------------------
(* The ledger replays.                                                     *)

LEMMA FreshInStep ==
    ASSUME NEW source, Assembles(source)
    PROVE  InStep(source, NewVM, <<>>, Meaning(source, 0))
<1> DEFINE r == Meaning(source, 0)
<1>1. r = [line |-> NextLine(source, 1), halted |-> FALSE, ops |-> <<>>,
           registers |-> [x \in Registers |-> 0]]
  BY MeaningStep
<1> HIDE DEF r
<1>2. /\ DOMAIN r = TextFields /\ r.line = NextLine(source, 1) /\ r.halted = FALSE
      /\ r.ops = <<>> /\ r.registers = [x \in Registers |-> 0]
  BY <1>1 DEF TextFields
<1>3. 1 \in 1 .. Len(source) + 1
  BY TextFacts
<1>4. /\ r.line \in Instructions(source) \cup {Len(source) + 1}
      /\ Address(source, r.line) = Address(source, 1)
  BY <1>2, <1>3, NextLineFacts
<1>5. Address(source, 1) = 0
  <2>1. \A k \in Instructions(source) : ~(k < 1)
    BY TextFacts
  <2>2. {k \in Instructions(source) : k < 1} = {}
    BY <2>1
  <2>3. QED
    BY <2>2, FS_EmptySet DEF Address
<1>6. /\ DOMAIN NewVM = VmFields /\ NewVM.pc = 0 /\ NewVM.halted = FALSE /\ NewVM.ticks = 0
      /\ NewVM.registers = [x \in Registers |-> 0]
  BY DEF NewVM, VmFields
<1> DEFINE vm == NewVM
           trace == <<>>
<1>7. IsList(trace) /\ Len(trace) = 0 /\ r.ops = trace
  BY <1>2 DEF IsList
<1> HIDE DEF vm, trace
<1>8. Len(r.ops) = 0 /\ IsList(r.ops) /\ \A n \in 1 .. Len(trace) : trace[n].op = r.ops[n]
  BY <1>7
<1>9. InStep(source, vm, trace, r)
  BY <1>2, <1>4, <1>5, <1>6, <1>7, <1>8 DEF InStep, vm
<1>10. QED
  BY <1>9 DEF r, vm, trace

\* the steps the entries of this run have counted, and those of the entry under way
Counted(m) ==
    Total(StepsOf(run, m), Len(Entries))
      + (IF pc \in {"broadcast", "write"} THEN vms[m].cycles ELSE 0)

Replays(i, m) ==
    InStep(Sources[m], Entries[i].machines[m].vm, Entries[i].machines[m].trace,
           Meaning(Sources[m], Total(StepsOf(Entries[i].run, m), i)))

CountInv ==
    /\ IsList(Entries) /\ run \in Nat
    /\ \A i \in DOMAIN Entries :
         /\ Entries[i].run \in Nat /\ Entries[i].run <= run
         /\ \A m \in Machines : Entries[i].machines[m].cycles \in Nat
    /\ \A m \in Machines : vms[m].cycles \in Nat
    /\ pc \in {"broadcast", "write"} => entry.machines = vms /\ entry.run = run

\* The machines, and those in each entry, are where the text is after the steps
\* counted for them.
Replaying ==
    /\ CountInv
    /\ \A i \in DOMAIN Entries, m \in Machines : Replays(i, m)
    /\ \A m \in Machines : InStep(Sources[m], vms[m].vm, vms[m].trace,
                                  Meaning(Sources[m], Counted(m)))

ReplayInv == LogInv /\ (LedgerLoads => Replaying)

LEMMA CountedNat ==
    ASSUME CountInv, NEW m \in Machines, NEW r
    PROVE  /\ Len(Entries) \in Nat /\ DOMAIN Entries = 1 .. Len(Entries)
           /\ DOMAIN StepsOf(r, m) = DOMAIN Entries
           /\ \A i \in DOMAIN Entries :
                StepsOf(r, m)[i] = IF Entries[i].run = r THEN Entries[i].machines[m].cycles ELSE 0
           /\ Total(StepsOf(r, m), Len(Entries)) \in Nat
<1>1. Len(Entries) \in Nat /\ DOMAIN Entries = 1 .. Len(Entries)
  BY ListFacts DEF CountInv
<1>2. /\ DOMAIN StepsOf(r, m) = DOMAIN Entries
      /\ \A i \in DOMAIN Entries :
           StepsOf(r, m)[i] = IF Entries[i].run = r THEN Entries[i].machines[m].cycles ELSE 0
  BY DEF StepsOf
<1>3. \A i \in 1 .. Len(Entries) : StepsOf(r, m)[i] \in Nat
  BY <1>1, <1>2 DEF CountInv
<1>4. QED
  BY <1>1, <1>2, <1>3, TotalNat

\* A new run, before its first entry.
LEMMA FreshReplays ==
    ASSUME IsList(Entries), NEW m \in Machines, NEW r \in Nat,
           \A i \in DOMAIN Entries : Entries[i].run # r
    PROVE  /\ Total(StepsOf(r, m), Len(Entries)) = 0
           /\ InStep(Sources[m], Fresh[m].vm, Fresh[m].trace, Meaning(Sources[m], 0))
           /\ Fresh[m].cycles = 0
<1>1. Len(Entries) \in Nat /\ DOMAIN Entries = 1 .. Len(Entries)
  BY ListFacts
<1>2. \A i \in 1 .. Len(Entries) : StepsOf(r, m)[i] = 0
  BY <1>1 DEF StepsOf
<1>3. Total(StepsOf(r, m), Len(Entries)) = 0
  BY <1>1, <1>2, TotalNat
<1>4. Fresh[m].vm = NewVM /\ Fresh[m].trace = <<>> /\ Fresh[m].cycles = 0
  BY DEF Fresh
<1>5. Assembles(Sources[m])
  BY SourcesAssumption DEF Machines
<1>6. QED
  BY <1>3, <1>4, <1>5, FreshInStep

LEMMA ReplayInit == BtcvmInit => ReplayInv
<1> SUFFICES ASSUME BtcvmInit PROVE ReplayInv
  OBVIOUS
<1>1. /\ Entries = <<>> /\ run = 1 /\ vms = Fresh /\ pc = "poll" /\ DOMAIN Entries = {}
      /\ IsList(Entries)
  BY LogInit, EntriesList DEF BtcvmInit, EmptyFile, Entries
<1>2. ASSUME NEW m \in Machines
      PROVE  /\ vms[m].cycles = 0 /\ Counted(m) = 0
             /\ InStep(Sources[m], vms[m].vm, vms[m].trace, Meaning(Sources[m], 0))
  BY <1>1, FreshReplays DEF Counted
<1>3. QED
  BY <1>1, <1>2, LogInit DEF ReplayInv, Replaying, CountInv

LEMMA ReplayStep == ReplayInv /\ [BtcvmNext]_btcvmVars => ReplayInv'
<1> SUFFICES ASSUME ReplayInv, [BtcvmNext]_btcvmVars PROVE ReplayInv'
  OBVIOUS
<1>b. (Wrote \/ Quiet) /\ LogInv /\ LogInv'
  BY LedgerStep DEF ReplayInv
<1>a. SUFFICES ASSUME LedgerLoads' PROVE Replaying'
  BY <1>b DEF ReplayInv
<1>c. LedgerLoads
  BY <1>a, <1>b, Unwritten DEF Wrote, Quiet
<1>d. Replaying
  BY <1>c DEF ReplayInv
<1>0. CountInv
  BY <1>d DEF Replaying
<1>e. ASSUME Quiet PROVE Entries' = Entries
  BY <1>e, Unwritten DEF Quiet
\* nothing is written: what is in the ledger replays as before
<1>1. ASSUME Entries' = Entries PROVE \A i \in DOMAIN Entries', m \in Machines : Replays(i, m)'
  BY <1>1, <1>d DEF Replaying, Replays, StepsOf
<1>2. CASE Quiet /\ OnTick
  <2>1. /\ pc = "tick" /\ pc' \in {"broadcast", "write"} /\ vms' = RunTick
        /\ entry'.machines = vms' /\ entry'.run = run /\ Entries' = Entries /\ run' = run
    BY <1>2, <1>e DEF OnTick
  <2>2. ASSUME NEW m \in Machines
        PROVE  /\ vms'[m].cycles \in Nat
               /\ InStep(Sources[m], vms'[m].vm, vms'[m].trace, Meaning(Sources[m], Counted(m)'))
    <3> DEFINE n == Total(StepsOf(run, m), Len(Entries))
               r == Run(Assemble(Sources[m]), vms[m].vm, vms[m].trace, Cycles)
    <3>1. n \in Nat
      BY <1>0, CountedNat
    <3>2. n + 0 = n
      BY <3>1
    <3>3. Counted(m) = n
      BY <2>1, <3>2 DEF Counted
    <3>4. InStep(Sources[m], vms[m].vm, vms[m].trace, Meaning(Sources[m], n))
      BY <1>d, <3>3 DEF Replaying
    <3>5. vms'[m] = r
      BY <2>1 DEF RunTick, Programs, Machines
    <3>6. Counted(m)' = n + r.cycles
      BY <2>1, <3>5 DEF Counted, StepsOf
    <3> HIDE DEF n, r
    <3>7. Assembles(Sources[m]) /\ Cycles \in Nat
      BY SourcesAssumption, CyclesAssumption DEF Machines
    <3>8. r.cycles \in Nat /\ InStep(Sources[m], r.vm, r.trace, Meaning(Sources[m], n + r.cycles))
      BY <3>1, <3>4, <3>7, RunReads DEF r
    <3>9. QED
      BY <3>5, <3>6, <3>8
  <2>3. CountInv'
    BY <1>0, <2>1, <2>2 DEF CountInv
  <2>4. QED
    BY <1>1, <2>1, <2>2, <2>3 DEF Replaying
<1>3. CASE Wrote
  <2>1. /\ pc = "write" /\ pc' \notin {"broadcast", "write"}
        /\ Entries' = Append(Entries, entry) /\ UNCHANGED <<vms, run>>
    BY <1>a, <1>3 DEF Wrote
  <2> DEFINE N == Len(Entries)
  <2>2. /\ N \in Nat /\ DOMAIN Entries = 1 .. N /\ IsList(Entries') /\ Len(Entries') = N + 1
        /\ DOMAIN Entries' = 1 .. N + 1
        /\ \A i \in 1 .. N : Entries'[i] = Entries[i]
        /\ Entries'[N + 1] = entry
    <3>1. IsList(Entries)
      BY <1>0 DEF CountInv
    <3>2. /\ IsList(Entries') /\ N \in Nat /\ DOMAIN Entries = 1 .. N /\ Len(Entries') = N + 1
          /\ \A i \in DOMAIN Entries : Entries'[i] = Entries[i]
          /\ Entries'[N + 1] = entry
      BY <2>1, <3>1, AppendList
    <3>3. DOMAIN Entries' = 1 .. N + 1
      BY <3>2, ListFacts
    <3>4. QED
      BY <3>2, <3>3
  <2>3. /\ entry.machines = vms /\ entry.run = run /\ run \in Nat
        /\ \A m \in Machines : vms[m].cycles \in Nat
    BY <1>0, <2>1 DEF CountInv
  <2> HIDE DEF N
  <2>4. \A i \in 1 .. N + 1 : i \in 1 .. N \/ i = N + 1
    BY <2>2
  <2>5. CountInv'
    <3>1. ASSUME NEW i \in 1 .. N + 1
          PROVE  /\ Entries'[i].run \in Nat /\ Entries'[i].run <= run
                 /\ \A m \in Machines : Entries'[i].machines[m].cycles \in Nat
      <4>1. CASE i \in 1 .. N
        BY <1>0, <2>2, <4>1 DEF CountInv
      <4>2. CASE i = N + 1
        BY <2>2, <2>3, <4>2
      <4>3. QED
        BY <2>4, <4>1, <4>2
    <3>2. QED
      BY <2>1, <2>2, <2>3, <3>1 DEF CountInv
  \* the sums over the entries that were there are unchanged
  <2>6. ASSUME NEW m \in Machines, NEW r, NEW i \in 0 .. N
        PROVE  Total(StepsOf(r, m)', i) = Total(StepsOf(r, m), i)
    <3>1. \A k \in 1 .. i : k \in 1 .. N /\ k \in 1 .. N + 1
      BY <2>2
    <3>2. \A k \in 1 .. i : StepsOf(r, m)[k] = StepsOf(r, m)'[k]
      BY <2>2, <3>1 DEF StepsOf
    <3>3. i \in Nat
      BY <2>2
    <3>4. QED
      BY <3>2, <3>3, TotalFacts
  <2>7. ASSUME NEW m \in Machines
        PROVE  /\ Total(StepsOf(run, m)', N + 1) = Counted(m)
               /\ Counted(m)' = Counted(m) /\ Counted(m) \in Nat
    <3> DEFINE c == StepsOf(run, m)'
               n == Total(StepsOf(run, m), N)
    <3>1. n \in Nat /\ vms[m].cycles \in Nat
      BY <1>0, <2>3, CountedNat DEF N
    <3>2. Counted(m) = n + vms[m].cycles
      BY <2>1 DEF Counted, N
    <3>3. c[N + 1] = vms[m].cycles
      BY <2>1, <2>2, <2>3 DEF StepsOf
    <3>4. Total(c, N) = n
      <4>1. N \in 0 .. N
        BY <2>2
      <4>2. QED
        BY <2>1, <2>6, <4>1
    <3>5. Counted(m)' = Total(c, N + 1) + 0
      BY <2>1, <2>2 DEF Counted
    <3> HIDE DEF c, n
    <3>6. Total(c, N + 1) = n + vms[m].cycles
      BY <2>2, <3>3, <3>4, TotalFacts
    <3>7. QED
      BY <3>1, <3>2, <3>5, <3>6 DEF c
  <2>8. ASSUME NEW m \in Machines
        PROVE  InStep(Sources[m], vms'[m].vm, vms'[m].trace, Meaning(Sources[m], Counted(m)'))
    BY <1>d, <2>1, <2>7 DEF Replaying
  <2>9. ASSUME NEW i \in 1 .. N + 1, NEW m \in Machines PROVE Replays(i, m)'
    <3>1. CASE i \in 1 .. N
      <4>1. Entries'[i] = Entries[i] /\ i \in 0 .. N
        BY <2>2, <3>1
      <4>2. Total(StepsOf(Entries[i].run, m)', i) = Total(StepsOf(Entries[i].run, m), i)
        BY <2>6, <4>1
      <4>3. Replays(i, m)
        BY <1>d, <2>2, <3>1 DEF Replaying
      <4>4. QED
        BY <4>1, <4>2, <4>3 DEF Replays, StepsOf
    <3>2. CASE i = N + 1
      <4>1. /\ Entries'[i].machines[m] = vms[m] /\ Entries'[i].run = run
        BY <2>2, <2>3, <3>2
      <4>2. InStep(Sources[m], vms[m].vm, vms[m].trace, Meaning(Sources[m], Counted(m)))
        BY <1>d DEF Replaying
      <4>3. QED
        BY <2>1, <2>7, <3>2, <4>1, <4>2 DEF Replays, StepsOf
    <3>3. QED
      BY <2>4, <3>1, <3>2
  <2>10. QED
    BY <2>2, <2>5, <2>8, <2>9 DEF Replaying
<1>4. CASE Quiet /\ Restart
  <2>1. vms' = Fresh /\ run' = run + 1 /\ pc' = "poll" /\ Entries' = Entries
    BY <1>4, <1>e DEF Restart
  <2>2. /\ IsList(Entries') /\ run' \in Nat
        /\ \A i \in DOMAIN Entries' : Entries'[i].run \in Nat /\ Entries'[i].run <= run'
                                      /\ Entries'[i].run # run'
    BY <1>0, <2>1 DEF CountInv
  <2>3. ASSUME NEW m \in Machines
        PROVE  /\ Counted(m)' = 0 /\ vms'[m].cycles = 0
               /\ InStep(Sources[m], vms'[m].vm, vms'[m].trace, Meaning(Sources[m], 0))
    <3>1. /\ Total(StepsOf(run + 1, m), Len(Entries)) = 0 /\ Fresh[m].cycles = 0
          /\ InStep(Sources[m], Fresh[m].vm, Fresh[m].trace, Meaning(Sources[m], 0))
      BY <2>1, <2>2, FreshReplays
    <3>2. Counted(m)' = Total(StepsOf(run + 1, m), Len(Entries)) + 0
      BY <2>1 DEF Counted, StepsOf
    <3>3. QED
      BY <2>1, <3>1, <3>2
  <2>4. CountInv'
    BY <1>0, <2>1, <2>2, <2>3 DEF CountInv
  <2>5. QED
    BY <1>1, <2>1, <2>3, <2>4 DEF Replaying
<1>5. ASSUME Quiet, UNCHANGED <<vms, run>>,
             pc' \in {"broadcast", "write"} <=> pc \in {"broadcast", "write"},
             pc \in {"broadcast", "write"} => entry'.machines = entry.machines
                                               /\ entry'.run = entry.run
      PROVE  Replaying'
  <2>0. Entries' = Entries
    BY <1>5, <1>e
  <2>1. CountInv'
    BY <1>0, <1>5, <2>0 DEF CountInv
  <2>2. \A m \in Machines : Counted(m)' = Counted(m)
    BY <1>5, <2>0 DEF Counted, StepsOf
  <2>3. QED
    BY <1>1, <1>5, <1>d, <2>0, <2>1, <2>2 DEF Replaying
<1>6. CASE Quiet /\ BroadcastEntry
  <2>1. PICK tx : entry' = [entry EXCEPT !.tx = tx]
    BY <1>6 DEF BroadcastEntry
  <2>2. entry'.machines = entry.machines /\ entry'.run = entry.run
    BY <2>1
  <2>3. QED
    BY <1>5, <1>6, <2>2 DEF BroadcastEntry
<1>7. CASE Quiet /\ (NoHash \/ EndTicks \/ GetHash \/ \E e \in Explorers : GetHeight(e))
  BY <1>5, <1>7 DEF NoHash, EndTicks, GetHash, NewBlock, GetHeight
<1>8. CASE Quiet /\ (OpenTrace \/ DumpTrace \/ BlockDone \/ CutTrace)
  BY <1>5, <1>8 DEF OpenTrace, DumpTrace, BlockDone, CutTrace
<1>9. CASE Quiet /\ (Progress \/ UNCHANGED btcvmVars)
  BY <1>5, <1>9 DEF Progress, Mine, Reorganise, CatchUp, btcvmVars, process, files
<1>10. QED
  BY <1>a, <1>b, <1>2, <1>3, <1>4, <1>6, <1>7, <1>8, <1>9 DEF Quiet, BtcvmNext, Main, Crash

\* What the ledger says a machine has done is what its program text means, whatever
\* the programs, however many steps a tick takes, and wherever blocks, ticks,
\* broadcasts, kills and restarts cut the execution, as long as every line parses.
THEOREM LedgerReplays == BtcvmSpec => []EntriesReplay
<1>1. ASSUME ReplayInv PROVE EntriesReplay
  <2>1. SUFFICES ASSUME LedgerLoads, NEW i \in DOMAIN Entries, NEW m \in Machines, NEW meant, NEW done,
                        meant = Meaning(Sources[m], Total(StepsOf(Entries[i].run, m), i)),
                        done = Entries[i].machines[m]
                 PROVE  /\ done.vm.registers = meant.registers
                        /\ done.vm.halted = meant.halted
                        /\ done.vm.ticks = Len(meant.ops)
                        /\ [k \in DOMAIN done.trace |-> done.trace[k].op] = meant.ops
    BY DEF EntriesReplay
  <2>2. InStep(Sources[m], done.vm, done.trace, meant)
    BY <1>1, <2>1 DEF ReplayInv, Replaying, Replays
  <2>3. [k \in DOMAIN done.trace |-> done.trace[k].op] = meant.ops
    <3>1. /\ meant.ops = [k \in 1 .. Len(meant.ops) |-> meant.ops[k]]
          /\ DOMAIN done.trace = 1 .. Len(meant.ops)
          /\ \A k \in 1 .. Len(meant.ops) : done.trace[k].op = meant.ops[k]
      BY <2>2, ListFacts DEF InStep
    <3>2. QED
      BY <3>1
  <2>4. QED
    BY <2>2, <2>3 DEF InStep
<1>2. QED
  BY <1>1, ReplayInit, ReplayStep, PTL DEF BtcvmSpec
=============================================================================
