------------------------------ MODULE BtcvmMain ------------------------------
(***************************************************************************)
(* btcvm: main.py's loop, which polls the Bitcoin clock of clock.py, runs  *)
(* the machines of vm.py (one, or a fleet of them) on every new block,     *)
(* once or once per VDF tick of vdf.py, and appends a commitment per tick  *)
(* to ledger.jsonl; and what goes on around it: blocks are mined and the   *)
(* chain is reorganised, the block explorers lag, the process is killed at *)
(* any point (inside the write of an entry or of a trace too) and is       *)
(* started again on the same ledger.                                       *)
(*                                                                         *)
(* A block hash is the block's height and the branch it is on, a VDF output *)
(* the hash that seeds it and the number of ticks since, and a hash over   *)
(* several values is the tuple of them.                                    *)
(***************************************************************************)
EXTENDS RegisterVM, Assembler, JsonLines

CONSTANTS
    Sources,    \* the lines of each machine's program
    Cycles,     \* CYCLES_PER_BLOCK
    VdfTicks,   \* --vdf-ticks, 0 for none
    Tracing,    \* --trace
    Broadcast,  \* --broadcast
    MaxHeight,  \* bound on the chain
    MaxForks,   \* bound on how often the chain is reorganised
    MaxRuns     \* bound on how often main is started

\* "--vms must be >= 1"; a program leaves a place of the memory free, at which it
\* halts when it runs off its end
ASSUME SourcesAssumption ==
    /\ Len(Sources) \in Nat \ {0} /\ DOMAIN Sources = 1 .. Len(Sources)
    /\ \A m \in DOMAIN Sources :
         Assembles(Sources[m]) /\ Cardinality(Instructions(Sources[m])) < MemorySize
ASSUME CyclesAssumption == Cycles \in Nat \ {0} /\ VdfTicks \in Nat

VARIABLES
    chain,       \* the branch that the block at each height is on
    seen,        \* the chain each explorer serves
    pc,          \* where main is
    lastHeight,  \* BitcoinClock.last_height
    block,       \* what get_tip has been told so far, then the block in work
    vms,         \* the machines and their traces
    tick,        \* on_block's i: VDF ticks done in this block
    exported,    \* traces exported in this block
    entry,       \* the ledger entry being written
    ledger,      \* ledger.jsonl
    traceFile,   \* the files of the traces
    run          \* how often main has been started

network == <<chain, seen>>
process == <<pc, lastHeight, block, vms, tick, exported, entry>>
files == <<ledger, traceFile>>
btcvmVars == <<network, process, files, run>>

\* what asm.discover makes of programs/
Programs == [m \in DOMAIN Sources |-> Assemble(Sources[m])]
Fleet == Len(Programs) > 1
Machines == DOMAIN Sources
Explorers == {1, 2}     \* APIS
NoHeight == 0
NoBlock == [height |-> NoHeight, hash |-> <<>>, api |-> 1]
NoVdf == <<>>
NoEntry == <<>>
Unsent == "none"
TornStep == [pc |-> 0, op |-> "torn"]   \* a line of a trace file cut short

Fresh == [m \in Machines |-> [vm |-> NewVM, trace |-> <<>>, cycles |-> 0]]

\* Mutant: main is done when a machine is done.
Halted_Any == \E m \in Machines : vms[m].vm.halted

Halted == \A m \in Machines : vms[m].vm.halted   \* vm.halted, fleet.all_halted

HashAt(view, height) == <<height, view[height]>>

\* ledger.jsonl as verify_ledger and a reader load it: json.loads of every line
LedgerLoads == \A i \in DOMAIN ledger.lines : ledger.lines[i] # <<>>
Entries == [i \in DOMAIN ledger.lines |-> ledger.lines[i][1]]
LastEntry == Entries[Len(ledger.lines)]

BtcvmInit ==
    /\ chain = <<0>>
    /\ seen = [e \in Explorers |-> <<0>>]
    /\ pc = "poll"
    /\ lastHeight = NoHeight
    /\ block = NoBlock
    /\ vms = Fresh
    /\ tick = 0
    /\ exported = 0
    /\ entry = NoEntry
    /\ ledger = EmptyFile
    /\ traceFile = [m \in Machines |-> <<>>]
    /\ run = 1

----------------------------------------------------------------------------
(* get_tip: the tip's height, then the hash of the block at that height,   *)
(* from the first explorer that answers both.                              *)

GetHeight(e) ==
    /\ pc = "poll"
    /\ block' = [NoBlock EXCEPT !.height = Len(seen[e]), !.api = e]
    /\ pc' = "hash"
    /\ UNCHANGED <<network, lastHeight, vms, tick, exported, entry, files, run>>

\* Mutant: the clock does not remember the block it reported.
NewBlock_Forgetful ==
    /\ lastHeight' = lastHeight
    /\ pc' = "tick"

\* BitcoinClock.poll, of a tip it was told
NewBlock ==
    /\ lastHeight' = block.height
    /\ pc' = IF block.height # lastHeight THEN "tick" ELSE "poll"

\* on_block begins by seeding a fresh VDF
GetHash ==
    /\ pc = "hash"
    /\ block' = [block EXCEPT !.hash = HashAt(seen[block.api], block.height)]
    /\ NewBlock
    /\ tick' = 0
    /\ UNCHANGED <<network, vms, exported, entry, files, run>>

\* no hash for that height: the next attempt asks for the height again
NoHash ==
    /\ pc = "hash"
    /\ pc' = "poll"
    /\ UNCHANGED <<network, lastHeight, block, vms, tick, exported, entry, files, run>>

----------------------------------------------------------------------------
(* on_block and on_tick / on_tick_fleet.                                   *)

\* VDF.tick's input and output
VdfIn == IF VdfTicks = 0 THEN NoVdf ELSE <<block.hash, tick>>
VdfOut == IF VdfTicks = 0 THEN NoVdf ELSE <<block.hash, tick + 1>>

\* what a machine's state is committed as
StateOrRoot(m) == IF Tracing THEN m.trace ELSE m.vm

MakeCommitment(b, root, vdf) == IF vdf = NoVdf THEN <<b, root>> ELSE <<b, vdf, root>>

\* VM.run, fleet.run_tick
RunTick == [m \in Machines |-> Run(Programs[m], vms[m].vm, vms[m].trace, Cycles)]

\* Mutant: a fleet's root is that of its first machine.
RootOf_First(ms) == IF Fleet THEN <<StateOrRoot(ms[1])>> ELSE StateOrRoot(ms[1])

\* the single machine's root, or the fleet_root
RootOf(ms) == IF Fleet THEN [m \in Machines |-> StateOrRoot(ms[m])] ELSE StateOrRoot(ms[1])

OnTick ==
    /\ pc = "tick"
    /\ tick < VdfTicks => ~Halted
    /\ tick < VdfTicks \/ VdfTicks = 0
    /\ vms' = RunTick
    /\ entry' = [height |-> block.height, hash |-> block.hash,
                 vdfTick |-> tick, vdfIn |-> VdfIn, vdfOut |-> VdfOut,
                 machines |-> RunTick, root |-> RootOf(RunTick),
                 commitment |-> MakeCommitment(block.hash, RootOf(RunTick), VdfOut),
                 tx |-> Unsent, run |-> run]
    /\ pc' = IF Broadcast THEN "broadcast" ELSE "write"
    /\ UNCHANGED <<network, lastHeight, block, tick, exported, files, run>>

\* on_block's VDF loop ends: all ticks done, or halted
EndTicks ==
    /\ pc = "tick" /\ VdfTicks > 0
    /\ tick = VdfTicks \/ Halted
    /\ pc' = "export"
    /\ UNCHANGED <<network, lastHeight, block, vms, tick, exported, entry, files, run>>

\* broadcast_entry: a transaction is sent, or an error is recorded
BroadcastEntry ==
    /\ pc = "broadcast"
    /\ \E tx \in {"sent", "ERROR"} : entry' = [entry EXCEPT !.tx = tx]
    /\ pc' = "write"
    /\ UNCHANGED <<network, lastHeight, block, vms, tick, exported, files, run>>

\* write_entry; behind a line an earlier run left without a newline, the two are one
WriteEntry ==
    /\ pc = "write"
    /\ ledger' = AppendLine(ledger, entry)
    /\ entry' = NoEntry
    /\ tick' = tick + 1
    /\ pc' = IF VdfTicks > 0 THEN "tick" ELSE "export"
    /\ UNCHANGED <<network, lastHeight, block, vms, exported, traceFile, run>>

\* The traces are exported at the end of the block, one file after the other: a file
\* is truncated,
OpenTrace ==
    /\ pc = "export" /\ Tracing /\ exported < Len(Sources)
    /\ traceFile' = [traceFile EXCEPT ![exported + 1] = <<>>]
    /\ pc' = "dump"
    /\ UNCHANGED <<network, lastHeight, block, vms, tick, exported, entry, ledger, run>>

\* then written
DumpTrace ==
    /\ pc = "dump"
    /\ traceFile' = [traceFile EXCEPT ![exported + 1] = vms[exported + 1].trace]
    /\ exported' = exported + 1
    /\ pc' = "export"
    /\ UNCHANGED <<network, lastHeight, block, vms, tick, entry, ledger, run>>

\* Mutant: the traces are exported when all is done.
BlockDone_ExportAtEnd ==
    /\ pc = "export" /\ (Tracing /\ Halted => exported = Len(Sources))
    /\ exported' = 0
    /\ pc' = IF Halted THEN "done" ELSE "poll"
    /\ UNCHANGED <<network, lastHeight, block, vms, tick, entry, files, run>>

\* main ends when all machines are done
BlockDone ==
    /\ pc = "export" /\ (Tracing => exported = Len(Sources))
    /\ exported' = 0
    /\ pc' = IF Halted THEN "done" ELSE "poll"
    /\ UNCHANGED <<network, lastHeight, block, vms, tick, entry, files, run>>

----------------------------------------------------------------------------
(* The environment.                                                        *)

\* A block is mined.
Mine ==
    /\ Len(chain) < MaxHeight
    /\ chain' = Append(chain, chain[Len(chain)])
    /\ UNCHANGED <<seen, process, files, run>>

\* The blocks from height h on give way to a longer branch.
Reorganise(h) ==
    LET branch == chain[Len(chain)] + 1
    IN  /\ Len(chain) < MaxHeight /\ branch <= MaxForks
        /\ chain' = [k \in 1 .. Len(chain) + 1 |-> IF k < h THEN chain[k] ELSE branch]
        /\ UNCHANGED <<seen, process, files, run>>

CatchUp(e) ==
    /\ seen[e] # chain
    /\ seen' = [seen EXCEPT ![e] = chain]
    /\ UNCHANGED <<chain, process, files, run>>

\* The process is killed inside write_entry,
CutEntry(tear) ==
    /\ pc = "write"
    /\ ledger' = TornLine(ledger, entry, tear)
    /\ pc' = "killed"
    /\ UNCHANGED <<network, lastHeight, block, vms, tick, exported, entry, traceFile, run>>

\* or inside export, between two lines or in one
CutTrace ==
    /\ pc = "dump"
    /\ LET trace == vms[exported + 1].trace
       IN  \E n \in 0 .. Len(trace) - 1, torn \in {<<>>, <<TornStep>>} :
             traceFile' = [traceFile EXCEPT ![exported + 1] = SubSeq(trace, 1, n) \o torn]
    /\ pc' = "killed"
    /\ UNCHANGED <<network, lastHeight, block, vms, tick, exported, entry, ledger, run>>

\* main is started again: after it ended, or after the process was killed here
Restart ==
    /\ run < MaxRuns
    /\ run' = run + 1
    /\ pc' = "poll"
    /\ lastHeight' = NoHeight
    /\ block' = NoBlock
    /\ vms' = Fresh
    /\ tick' = 0
    /\ exported' = 0
    /\ entry' = NoEntry
    /\ UNCHANGED <<network, files>>

----------------------------------------------------------------------------
Main ==
    \/ \E e \in Explorers : GetHeight(e)
    \/ GetHash \/ OnTick \/ EndTicks \/ BroadcastEntry \/ WriteEntry
    \/ OpenTrace \/ DumpTrace \/ BlockDone

Progress ==
    \/ Mine \/ \E h \in DOMAIN chain : Reorganise(h)
    \/ \E e \in Explorers : CatchUp(e)

Crash == CutTrace \/ \E tear \in Tears : CutEntry(tear)

BtcvmNext == Main \/ NoHash \/ Progress \/ Crash \/ Restart

BtcvmSpec == BtcvmInit /\ [][BtcvmNext]_btcvmVars

\* Blocks come minutes apart and main polls every POLL_INTERVAL = 30 seconds: no
\* block is mined before main has seen the one before it.
Paced == chain' # chain => lastHeight = Len(chain)

\* One run that is not killed.  The loop never stops polling, blocks keep coming, the
\* explorers follow the chain and do not for ever fail to serve a block's hash.
BtcvmFairSpec ==
    /\ BtcvmInit /\ [][Main \/ NoHash \/ (Progress /\ Paced)]_btcvmVars
    /\ WF_btcvmVars(Main) /\ SF_btcvmVars(GetHash) /\ WF_btcvmVars(Progress /\ Paced)

----------------------------------------------------------------------------
(* Properties.                                                             *)

\* What the text of a program means, line by line, without addresses: the line
\* control is at, what the registers hold, what has been done, and whether the
\* machine has halted.
NextLine(source, line) ==   \* where the next instruction is
    CHOOSE k \in line .. Len(source) + 1 :
       /\ k > Len(source) \/ source[k].op # NoOp
       /\ \A j \in line .. k - 1 : source[j].op = NoOp

Reads(source, r) ==
    LET i == source[r.line]
        R == r.registers
        Go(line, registers) ==
          [line |-> NextLine(source, line), registers |-> registers, halted |-> FALSE,
           ops |-> Append(r.ops, i.op)]
        Sets(v) == Go(r.line + 1, [R EXCEPT ![i.dst] = v])
        Goto == Go(Max(Labelled(source, i.a)), R)
    IN  IF r.halted THEN r
        ELSE IF r.line > Len(source) THEN [r EXCEPT !.halted = TRUE]
        ELSE CASE i.op = "LOAD" -> Sets(i.a)
               [] i.op = "ADD"  -> Sets(R[i.a] + R[i.b])
               [] i.op = "SUB"  -> Sets(R[i.a] - R[i.b])
               [] i.op = "MUL"  -> Sets(R[i.a] * R[i.b])
               [] i.op = "JMP"  -> Goto
               [] i.op = "JZ"   -> IF R[i.dst] = 0 THEN Goto ELSE Go(r.line + 1, R)
               [] i.op = "HALT" -> [r EXCEPT !.halted = TRUE, !.ops = Append(@, i.op)]

Meaning(source, steps) ==
    LET after[n \in 0 .. steps] ==
          IF n = 0 THEN [line |-> NextLine(source, 1), halted |-> FALSE, ops |-> <<>>,
                         registers |-> [x \in Registers |-> 0]]
          ELSE Reads(source, after[n - 1])
    IN  after[steps]

Total(cost, n) ==
    LET total[j \in 0 .. n] == IF j = 0 THEN 0 ELSE total[j - 1] + cost[j]
    IN  total[n]

\* the steps that each entry of a run has counted for a machine
StepsOf(r, m) ==
    [j \in DOMAIN Entries |-> IF Entries[j].run = r THEN Entries[j].machines[m].cycles ELSE 0]

\* The execution is the program text's own, however it was assembled and however
\* blocks and ticks cut it: in a ledger that loads, an entry's machine has done what
\* as many steps through the text do as the entries of its run have counted, and its
\* trace lists them.
EntriesReplay ==
    LedgerLoads =>
        \A i \in DOMAIN Entries, m \in Machines :
            LET meant == Meaning(Sources[m], Total(StepsOf(Entries[i].run, m), i))
                done == Entries[i].machines[m]
            IN  /\ done.vm.registers = meant.registers
                /\ done.vm.halted = meant.halted
                /\ done.vm.ticks = Len(meant.ops)
                /\ [k \in DOMAIN done.trace |-> done.trace[k].op] = meant.ops

\* poll is to "Return new block dict if a new block has been seen, else None": within
\* a run, each block drives the machines once.  Explorers that lag break this.
BlocksOnce ==
    LedgerLoads =>
        \A i, j \in DOMAIN Entries :
            /\ i < j /\ Entries[i].run = Entries[j].run
            /\ Entries[i].hash = Entries[j].hash
            => Entries[i].vdfTick < Entries[j].vdfTick

\* As long as blocks come and the process is not killed, the program is run to
\* its end and its last commitment is that of the halted machines.
RunsToHalt == <>(pc = "done" /\ \A m \in Machines : LastEntry.machines[m].vm.halted)
=============================================================================
