-------------------------------- MODULE MCBtcvm --------------------------------
(* Programs for model checking: countdown.asm counting from 1, one that jumps  *)
(* to a label behind its last instruction, and one that halts before it does.  *)
EXTENDS VerifyLedger

Instr(op, dst, a, b) == Line(NoLabel, op, dst, a, b)
Label(label) == Line(label, NoOp, 0, 0, 0)

Countdown == <<Instr("LOAD", 0, 1, 0),
               Instr("LOAD", 1, 1, 0),
               Label("loop"),
               Instr("JZ", 0, "done", 0),
               Instr("SUB", 0, 0, 1),
               Instr("JMP", 0, "loop", 0),
               Line("done", "HALT", 0, 0, 0)>>
OffTheEnd == <<Instr("LOAD", 2, 3, 0),
               Line("twice", "MUL", 3, 2, 2),
               Instr("JZ", 4, "end", 0),
               Instr("ADD", 4, 2, 3),
               Label("end")>>

Brief == <<Instr("LOAD", 0, 1, 0), Instr("HALT", 0, 0, 0)>>

Single == <<Countdown>>
Two == <<OffTheEnd, Brief>>
================================================================================
