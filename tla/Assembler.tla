------------------------------ MODULE Assembler ------------------------------
(***************************************************************************)
(* asm.py, from the lines of a source text that are not blank or comment:   *)
(* a line has a label, or None, and an instruction, or None; a jump names a *)
(* label.                                                                  *)
(***************************************************************************)
EXTENDS Integers, Sequences, FiniteSets, FiniteSetsExt

NoLabel == ""
NoOp == ""
Line(label, op, dst, a, b) == [label |-> label, op |-> op, dst |-> dst, a |-> a, b |-> b]

IsJump(line) == line.op \in {"JMP", "JZ"}
Labelled(source, label) == {k \in DOMAIN source : source[k].label = label}
Instructions(source) == {k \in DOMAIN source : source[k].op # NoOp}

\* assemble raises a SyntaxError for the others (_reg, _imm, an undefined label, an
\* unknown opcode)
Assembles(source) ==
    /\ Len(source) \in Nat /\ DOMAIN source = 1 .. Len(source)
    /\ \A k \in Instructions(source) :
         LET i == source[k]
             Defined == i.a # NoLabel /\ Labelled(source, i.a) # {}
         IN  \/ i.op = "LOAD" /\ i.dst \in 0 .. 7 /\ i.a \in Int
             \/ i.op \in {"ADD", "SUB", "MUL"} /\ {i.dst, i.a, i.b} \subseteq 0 .. 7
             \/ i.op = "JMP" /\ Defined
             \/ i.op = "JZ" /\ i.dst \in 0 .. 7 /\ Defined
             \/ i.op = "HALT"

\* pass 1's pc at a line: the instructions before it
Address(source, line) == Cardinality({k \in Instructions(source) : k < line})

\* Mutant: a line that has a label and nothing else takes up an address.
LabelPc_PerLine(source, label) == Max(Labelled(source, label)) - 1

\* a repeated label is the last one
LabelPc(source, label) == Address(source, Max(Labelled(source, label)))

\* pass 2
Assemble(source) ==
    LET Emit(i) == [op |-> i.op, dst |-> i.dst, b |-> i.b,
                    a |-> IF IsJump(i) THEN LabelPc(source, i.a) ELSE i.a]
        LineAt(pc) == CHOOSE k \in Instructions(source) : Address(source, k) = pc
    IN  [n \in 1 .. Cardinality(Instructions(source)) |-> Emit(source[LineAt(n - 1)])]
=============================================================================
