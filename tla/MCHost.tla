------------------------------- MODULE MCHost -------------------------------
(***************************************************************************)
(* Instances of Host: every instruction on operands of every kind, short   *)
(* programs that loop over the inbox, and short programs that make code.   *)
(***************************************************************************)
EXTENDS Host

\* Stand-ins for hashes and curves that keep results in range.
MCKeccak256(words) == FoldLeft(LAMBDA acc, w : (3 * acc + w + 7) % 65536, 1, words)
MCDigest(name, words) == FoldLeft(LAMBDA acc, w : (5 * acc + w + 3) % 65536, 2, words)
MCCurve(name, words) == IF words # <<>> /\ words[1] = 1 THEN <<>> ELSE <<3, 4>>

Zeroed == Tup(<<Num(0), none>>)
Word == {Num(0), Num(1), Num(UsizeSize)}
Operands == Word \cup {Zeroed, Code(Internal(1)), Buf(Buffer_from_bytes(<<1>>))}

With1(op) == {from_opcode_imm(op, v) : v \in Operands} \cup {from_opcode(op)}

\* An operand below, one above and one as an immediate; errors are caught at
\* the last instruction.
OneInstruction ==
  {<<from_opcode_imm("ErrSet", Code(Internal(4))), from_opcode_imm("Noop", a),
     from_opcode_imm("AuxPush", a), insn, from_opcode("Halt")>> :
     a \in Operands, insn \in UNION {With1(op) : op \in Ops \ {"InboxPeek", "Breakpoint"}}}

Loop == from_opcode_imm("Jump", Code(Internal(0)))
InboxInsns ==
  {from_opcode("Inbox"), from_opcode("InboxPeek"), from_opcode("Log"), from_opcode("PushGas"),
   from_opcode("Pop"), from_opcode_imm("Tget", Num(1)), from_opcode("StackEmpty"),
   from_opcode_imm("Cjump", Code(Internal(2))), from_opcode_imm("ErrSet", Code(Internal(1)))}
InboxLoops == {<<a, b, c, Loop>> : a \in InboxInsns, b \in InboxInsns, c \in InboxInsns}

CodeInsns ==
  {from_opcode("ErrCodePoint"), from_opcode_imm("PushInsn", Num(to_number["Log"])),
   from_opcode_imm("PushInsnImm", Num(to_number["Noop"])), from_opcode("Dup0"),
   from_opcode_imm("Swap1", Num(1)), from_opcode("OpenInsn"), from_opcode("Jump")}
CodeMakers ==
  {<<from_opcode("ErrCodePoint"), a, b, c, d, from_opcode("Log"), from_opcode("Halt")>> :
     a \in CodeInsns, b \in CodeInsns, c \in CodeInsns, d \in CodeInsns}

MCPrograms == OneInstruction \cup InboxLoops \cup CodeMakers
=============================================================================
