------------------------------ MODULE RegisterVM ------------------------------
(***************************************************************************)
(* The register machine of vm.py and the execution trace of trace.py, as   *)
(* functions of the machine's state.  Registers hold Python integers,      *)
(* which are unbounded.  A step hash is a hash over everything before it,  *)
(* so a trace's root is the trace; a state hash is the state.              *)
(***************************************************************************)
EXTENDS Integers, Sequences

Registers == 0 .. 7

\* the places of the memory; load_program raises for a longer program, and one of this
\* length raises when it runs off its end, so that Step is for shorter ones
MemorySize == 256

\* VM.__init__; load_program leaves the program itself to a parameter
NewVM == [pc |-> 0, registers |-> [r \in Registers |-> 0], ticks |-> 0,
          halted |-> FALSE]

Assign(vm, r, val) == [vm EXCEPT !.registers[r] = val, !.pc = @ + 1]

Execute(vm, i) ==
    LET R == vm.registers
    IN  CASE i.op = "LOAD" -> Assign(vm, i.dst, i.a)
          [] i.op = "ADD"  -> Assign(vm, i.dst, R[i.a] + R[i.b])
          [] i.op = "SUB"  -> Assign(vm, i.dst, R[i.a] - R[i.b])
          [] i.op = "MUL"  -> Assign(vm, i.dst, R[i.a] * R[i.b])
          [] i.op = "JMP"  -> [vm EXCEPT !.pc = i.a]
          [] i.op = "JZ"   -> [vm EXCEPT !.pc = IF R[i.dst] = 0 THEN i.a ELSE @ + 1]
          [] i.op = "HALT" -> [vm EXCEPT !.halted = TRUE]

\* Mutant: running off the end counts as a tick.
Step_TicksAtEnd(program, vm) ==
    IF vm.pc >= Len(program) THEN [vm EXCEPT !.halted = TRUE, !.ticks = @ + 1]
    ELSE [Execute(vm, program[vm.pc + 1]) EXCEPT !.ticks = @ + 1]

\* step, of a machine that has not halted: past the end of the program it
\* halts without a tick and without a trace record
Step(program, vm) ==
    IF vm.pc >= Len(program) THEN [vm EXCEPT !.halted = TRUE]
    ELSE [Execute(vm, program[vm.pc + 1]) EXCEPT !.ticks = @ + 1]

\* VMTrace.record
Record(program, vm, trace) ==
    IF vm.pc >= Len(program) THEN trace
    ELSE Append(trace, [pc |-> vm.pc, op |-> program[vm.pc + 1].op])

\* run(max_steps=limit), with limit >= 1: the machine, its trace, and the
\* steps taken
Run(program, vm, trace, limit) ==
    LET after[n \in 0 .. limit] ==
          IF n = 0 THEN [vm |-> vm, trace |-> trace, cycles |-> 0]
          ELSE LET r == after[n - 1]
               IN  IF r.vm.halted THEN r
                   ELSE [vm |-> Step(program, r.vm), cycles |-> n,
                         trace |-> Record(program, r.vm, r.trace)]
    IN  after[limit]
===============================================================================
