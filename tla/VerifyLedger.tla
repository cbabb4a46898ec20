----------------------------- MODULE VerifyLedger -----------------------------
(***************************************************************************)
(* verify.py, run at any moment on the ledger btcvm has written so far.    *)
(* It only reads, so it is a function of the state.  blockstream.info, the *)
(* only explorer it asks, is the first one of clock.py.  A ledger with a   *)
(* line that does not parse it cannot load, and raises.                    *)
(***************************************************************************)
EXTENDS BtcvmMain

----------------------------------------------------------------------------
(* The VDF pass, which prints what it finds and has no part in the return. *)

\* VDF.verify
VdfTickOk(e) == e.vdfOut = <<e.vdfIn[1], e.vdfIn[2] + 1>>

\* where verify_ledger starts a new sub-chain: the links inside one hold by this split
StartsChain(i) ==
    \/ i = 1
    \/ Entries[i].vdfTick = 0
    \/ Entries[i].vdfIn # Entries[i - 1].vdfOut

----------------------------------------------------------------------------
(* The trace pass, which prints the root it has computed.                  *)

\* whether there is a trace to verify
HasTrace == Tracing /\ ~Fleet /\ ledger.lines # <<>>

\* VMTrace.verify_file: a cut line raises; the root is the steps
TraceFileOk == \A k \in DOMAIN traceFile[1] : traceFile[1][k] # TornStep
TraceFileRoot == traceFile[1]

----------------------------------------------------------------------------
(* The pass over the entries.                                              *)

RecomputeCommitment(b, root, vdf) == IF vdf = NoVdf THEN <<b, root>> ELSE <<b, vdf, root>>

\* fetch(.../block-height/h) answers only when the explorer has that block
Fetchable(e) == e.height <= Len(seen[1])
Canonical(e) == HashAt(seen[1], e.height)

\* VMFleet.verify_fleet_root
FleetRootOk(e) == Fleet => e.root = [m \in Machines |-> StateOrRoot(e.machines[m])]

\* Mutant: the fetched hash is not compared with the recorded one.
EntryOk_AnyBlock(e) ==
    /\ FleetRootOk(e)
    /\ e.commitment = RecomputeCommitment(e.hash, e.root, e.vdfOut)

EntryOk(e) ==
    /\ Canonical(e) = e.hash
    /\ FleetRootOk(e)
    /\ e.commitment = RecomputeCommitment(Canonical(e), e.root, e.vdfOut)

\* The entries for which "FAIL" is printed when all that can be fetched is; any of them
\* makes verify_ledger return False, and a fetch that fails skips its entry.
Failing == {i \in DOMAIN Entries : Fetchable(Entries[i]) /\ ~EntryOk(Entries[i])}

----------------------------------------------------------------------------
(* Properties.                                                             *)

\* An entry of a ledger that loads fails for one reason only, and then it fails: the
\* block blockstream.info has at its height is not the one main was told, because the
\* explorers lag apart or the chain was reorganised since.  So it is at every moment,
\* over several runs, some killed, with and without VDF, trace and fleet.
VerifyAccepts ==
    LedgerLoads =>
        Failing = {i \in DOMAIN Entries :
                     /\ Fetchable(Entries[i])
                     /\ seen[1][Entries[i].height] # Entries[i].hash[2]}

\* "Each run seeds a fresh VDF from the block hash; detect run boundaries by vdf_tick
\* == 0 or a broken input->output link": the sub-chains verify.py splits a ledger into
\* are the blocks main worked on, each from its first tick, whatever killed main in
\* between; within a run two that follow each other are of different heights, though
\* the explorers go back and forth.
ChainsAreBlocks ==
    LedgerLoads =>
        \A i \in DOMAIN Entries :
            /\ VdfTicks > 0 => VdfTickOk(Entries[i])
            /\ StartsChain(i) =>
                 /\ Entries[i].vdfTick = 0
                 /\ i > 1 /\ Entries[i].run = Entries[i - 1].run =>
                      Entries[i].height # Entries[i - 1].height

\* Whenever main rests between blocks, or is done, the trace file on disk is the one
\* whose root the last entry of its run commits to.
TraceRootChecked ==
    LedgerLoads /\ HasTrace /\ pc \in {"poll", "done"} /\ LastEntry.run = run
        => TraceFileRoot = LastEntry.root

\* "If trace fields present and a trace file exists, verify the Merkle root": when
\* verify.py says that the trace is OK, its root is the one the ledger ends with.  The
\* code breaks this: it has nothing to compare the root with.  (A file that is not
\* there yet is as an empty one here, and left out.)
TraceOkIsCommitted ==
    LedgerLoads /\ HasTrace /\ TraceFileOk /\ traceFile[1] # <<>>
        => TraceFileRoot = LastEntry.root
=============================================================================
