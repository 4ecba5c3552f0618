------------------------------ MODULE Emulator ------------------------------
(***************************************************************************)
(* The AVM emulator (src/src/run/emulator.rs).  A machine is a record with *)
(* the fields of Machine; its stacks have their top at the front.  A state *)
(* is <<"running", codept>>, <<"stopped">>, <<"error">>, or <<"panic">>    *)
(* where the emulator itself aborts.                                       *)
(*                                                                         *)
(* Executing an instruction yields the machine and a result: "ok" for      *)
(* Ok(true), "blocked" for Ok(false), "err" for Err and "panic".           *)
(***************************************************************************)
EXTENDS RuntimeEnv

CONSTANTS
  Digest(_, _),      \* compression functions on words: Digest(name, operands)
  Curve(_, _),       \* curve operations: the coordinates, or <<>> for bad points
  MaxPairingSize     \* MAX_PAIRING_SIZE

Ok(m) == [m |-> m, res |-> "ok"]
Blocked(m) == [m |-> m, res |-> "blocked"]
Err(m) == [m |-> m, res |-> "err"]
Panic(m) == [m |-> [m EXCEPT !.state = <<"panic">>], res |-> "panic"]

-----------------------------------------------------------------------------
(* ValueStack. *)

Push(m, v) == [m EXCEPT !.stack = <<v>> \o @]

\* Whether pop_codepoint, pop_uint, ... accept a value.
HasKind(v, kind) ==
  CASE kind = "any" -> TRUE
    [] kind = "usize" -> v[1] = "int" /\ to_usize(v[2])
    [] OTHER -> v[1] = kind

\* Pops a value of each kind in turn.  The first that is missing or of the
\* wrong kind is an error, and is gone from the stack all the same.
RECURSIVE Popped(_, _)
Popped(stack, kinds) ==
  IF kinds = <<>> THEN [ok |-> TRUE, args |-> <<>>, rest |-> stack]
  ELSE IF stack = <<>> THEN [ok |-> FALSE, args |-> <<>>, rest |-> <<>>]
  ELSE IF ~HasKind(Head(stack), Head(kinds)) THEN
    [ok |-> FALSE, args |-> <<>>, rest |-> Tail(stack)]
  ELSE [Popped(Tail(stack), Tail(kinds)) EXCEPT
          !.args = <<IF Head(kinds) = "any" THEN Head(stack) ELSE Head(stack)[2]>> \o @]

\* Runs Body on the machine without its operands and on the operands.
With(m, kinds, Body(_, _)) ==
  LET Go(p, n) == IF p.ok THEN Body(n, p.args) ELSE Err(n)
  IN Given(Popped(m.stack, kinds), LAMBDA p : Go(p, [m EXCEPT !.stack = p.rest]))

-----------------------------------------------------------------------------
(* CodeStore. *)

\* A sequence of at most one instruction; code points start at zero.
get_insn(code, cp) ==
  CASE cp[1] = "internal" /\ cp[2] < Len(code[1]) -> <<code[1][cp[2] + 1]>>
    [] cp[1] = "segment" /\ cp[2] < Len(code) /\ cp[3] < Len(code[cp[2] + 1]) ->
         <<code[cp[2] + 1][cp[3] + 1]>>
    [] OTHER -> <<>>

\* Where get_insn panics.
Unlinked(cp) == cp[1] \in {"external", "null"}

create_segment(code) == Append(code, <<from_opcode("Zero")>>)

\* Whether push_insn does not panic.
CanPushInsn(code, op, cp) ==
  /\ cp[1] = "segment" /\ cp[2] < Len(code)
  /\ cp[3] = Len(code[cp[2] + 1]) - 1
  /\ from_number(op) # {}

push_insn(code, op, imm, cp) ==
  [code EXCEPT ![cp[2] + 1] =
     Append(@, Insn(CHOOSE o \in from_number(op) : TRUE, <<>>, imm))]

-----------------------------------------------------------------------------
(* Machine. *)

Machine_new(program, static_val, env) ==
  [stack |-> <<>>, aux_stack |-> <<>>, state |-> <<"stopped">>, code |-> <<program>>,
   static_val |-> static_val, register |-> none, err_codepoint |-> Null,
   arb_gas_remaining |-> bitwise_neg(0), runtime_env |-> env, total_gas_usage |-> 0]

Running(m) == m.state[1] = "running"
Goto(m, cp) == [m EXCEPT !.state = <<"running", cp>>]

start_at_zero(m) == Goto(m, Internal(0))

\* Where the call returns to, which is not in the program.
StopPc(m) == Internal(Len(m.code[1]))

call_state(m, func_addr, args) ==
  Goto([m EXCEPT !.stack = <<Code(StopPc(m))>> \o args \o @], func_addr)

\* incr_pc, the last thing most instructions do.
Advance(m) ==
  LET next == incr(m.state[2])
  IN IF next = <<>> THEN Panic(m) ELSE Ok(Goto(m, next[1]))

\* next_op_gas: a number of pairs is counted down the spine of a list, and
\* both operands are looked for at the bottom of the stack.
RECURSIVE PairsOf(_, _)
PairsOf(v, i) ==
  IF i = MaxPairingSize \/ v[1] # "tuple" THEN i
  ELSE IF Len(v[2]) # 2 THEN i ELSE PairsOf(v[2][2], i + 1)

gas_for_pairing(stack) ==
  1000 + (IF stack = <<>> THEN 0 ELSE PairsOf(Last(stack), 0)) * 500000

gas_for_blake2f(stack) ==
  IF stack = <<>> \/ Last(stack)[1] # "buffer" THEN 10
  ELSE LET rounds == from_bytes(as_bytes(Last(stack)[2], UsizeBytes \div 2))
           most == 2 ^ ((ByteBits * UsizeBytes) \div 4) - 1
       IN 10 * (IF rounds > most THEN most ELSE rounds)

\* The machine is at an instruction.
next_op_gas(m) ==
  LET op == get_insn(m.code, m.state[2])[1].op
  IN CASE op = "EcPairing" -> gas_for_pairing(m.stack)
       [] op = "Blake2f" -> gas_for_blake2f(m.stack)
       [] OTHER -> OpGas[op]

-----------------------------------------------------------------------------
(* The instructions, by what they work on. *)

ControlOp(m, op) ==
  CASE op = "Noop" -> Advance(m)
    [] op \in {"Zero", "Error"} -> Err(m)
    [] op = "Jump" -> With(m, <<"code">>, LAMBDA n, a : Ok(Goto(n, a[1])))
    [] op = "Cjump" ->
         With(m, <<"code", "int">>,
              LAMBDA n, a : IF a[2] # 0 THEN Ok(Goto(n, a[1])) ELSE Advance(n))
    [] op = "PCpush" -> Advance(Push(m, Code(m.state[2])))

RegisterOp(m, op) ==
  CASE op = "Rpush" -> Advance(Push(m, m.register))
    [] op = "Rset" ->
         With(m, <<"any">>, LAMBDA n, a : Advance([n EXCEPT !.register = a[1]]))
    [] op = "Spush" -> Advance(Push(m, m.static_val))

TupleOp(m, op) ==
  CASE op = "Tset" ->
         With(m, <<"usize", "tuple", "any">>,
              LAMBDA n, a : IF a[1] < Len(a[2])
                            THEN Advance(Push(n, Tup([a[2] EXCEPT ![a[1] + 1] = a[3]])))
                            ELSE Err(n))
    [] op = "Tget" ->
         With(m, <<"usize", "tuple">>,
              LAMBDA n, a : IF a[1] < Len(a[2]) THEN Advance(Push(n, a[2][a[1] + 1]))
                            ELSE Err(n))
    [] op = "Tlen" -> With(m, <<"tuple">>, LAMBDA n, a : Advance(Push(n, Num(Len(a[1])))))

StackOp(m, op) ==
  CASE op = "Pop" -> With(m, <<"any">>, LAMBDA n, a : Advance(n))
    [] op = "StackEmpty" -> Advance(Push(m, Bool(m.stack = <<>>)))
    [] op = "AuxPush" ->
         With(m, <<"any">>, LAMBDA n, a : Advance([n EXCEPT !.aux_stack = a \o @]))
    [] op = "AuxPop" ->
         IF m.aux_stack = <<>> THEN Err(m)
         ELSE Advance(Push([m EXCEPT !.aux_stack = Tail(@)], Head(m.aux_stack)))
    [] op = "AuxStackEmpty" -> Advance(Push(m, Bool(m.aux_stack = <<>>)))

\* Xset takes the frame off the aux stack before it knows that the slot is
\* in the frame and that there is a value to store.
FrameOp(m, op) ==
  LET frame == Popped(m.aux_stack, <<"tuple">>)
  IN CASE op = "Xget" ->
            With(m, <<"usize">>,
                 LAMBDA n, a : IF frame.ok /\ a[1] < Len(frame.args[1])
                               THEN Advance(Push(n, frame.args[1][a[1] + 1]))
                               ELSE Err(n))
       [] op = "Xset" ->
            With(m, <<"usize">>,
                 LAMBDA n, a :
                   LET open == [n EXCEPT !.aux_stack = frame.rest]
                   IN IF frame.ok /\ a[1] < Len(frame.args[1])
                      THEN With(open, <<"any">>,
                                LAMBDA k, b :
                                  Advance([k EXCEPT !.aux_stack =
                                     <<Tup([frame.args[1] EXCEPT ![a[1] + 1] = b[1]])>> \o @]))
                      ELSE Err(open))

\* The top of the stack that replaces the operands.
Shuffled(op, a) ==
  CASE op = "Dup0" -> <<a[1], a[1]>>
    [] op = "Dup1" -> <<a[2], a[1], a[2]>>
    [] op = "Dup2" -> <<a[3], a[1], a[2], a[3]>>
    [] op = "Swap1" -> <<a[2], a[1]>>
    [] op = "Swap2" -> <<a[3], a[2], a[1]>>

ShuffleOp(m, op) ==
  LET kinds == CASE op = "Dup0" -> <<"any">>
                 [] op \in {"Dup1", "Swap1"} -> <<"any", "any">>
                 [] OTHER -> <<"any", "any", "any">>
  IN With(m, kinds, LAMBDA n, a : Advance([n EXCEPT !.stack = Shuffled(op, a) \o @]))

\* Arithmetic on words: the result, or none for a division by zero.
ArithResult(op, a) ==
  CASE op = "Add" -> <<add(a[1], a[2])>>
    [] op = "Sub" -> <<unchecked_sub(a[1], a[2])>>
    [] op = "Mul" -> <<mul(a[1], a[2])>>
    [] op = "Div" -> div(a[1], a[2])
    [] op = "Mod" -> modulo(a[1], a[2])
    [] op = "Sdiv" -> sdiv(a[1], a[2])
    [] op = "Smod" -> smodulo(a[1], a[2])
    [] op = "AddMod" -> add_mod(a[1], a[2], a[3])
    [] op = "MulMod" -> mul_mod(a[1], a[2], a[3])
    [] op = "Exp" -> <<exp(a[1], a[2])>>

SignExtendResult(bnum, x) ==
  IF ~to_usize(bnum) \/ bnum >= WordBytes - 1 THEN x
  ELSE LET shifted_bit == 2 ^ (ByteBits * bnum + ByteBits - 1)
           mask == 2 * shifted_bit - 1
       IN IF bitwise_and(x, shifted_bit) # 0 THEN bitwise_or(x, bitwise_neg(mask))
          ELSE bitwise_and(x, mask)

CompareResult(op, a) ==
  CASE op = "LessThan" -> a[1] < a[2]
    [] op = "GreaterThan" -> a[1] > a[2]
    [] op = "SLessThan" -> s_less_than(a[1], a[2])
    [] op = "SGreaterThan" -> s_less_than(a[2], a[1])

ByteResult(n, x) ==
  IF n < WordBytes
  THEN bitwise_and(div(x, exp(ByteSize, WordBytes - 1 - n))[1], ByteSize - 1)
  ELSE 0

\* The amount of a shift is the first operand.
ShiftResult(op, amount, x) ==
  CASE ~to_usize(amount) -> 0
    [] op = "ShiftLeft" -> shift_left(x, amount)
    [] op = "ShiftRight" -> shift_right(x, amount)
    [] op = "ShiftArith" -> shift_arith(x, amount)

BitsResult(op, a) ==
  CASE op = "BitwiseAnd" -> bitwise_and(a[1], a[2])
    [] op = "BitwiseOr" -> bitwise_or(a[1], a[2])
    [] op = "BitwiseXor" -> bitwise_xor(a[1], a[2])
    [] op = "Byte" -> ByteResult(a[1], a[2])
    [] OTHER -> ShiftResult(op, a[1], a[2])

ArithOps == {"Add", "Sub", "Mul", "Div", "Mod", "Sdiv", "Smod", "Exp", "AddMod", "MulMod"}
CompareOps == {"LessThan", "GreaterThan", "SLessThan", "SGreaterThan"}
BitsOps == {"BitwiseAnd", "BitwiseOr", "BitwiseXor", "Byte", "ShiftLeft", "ShiftRight",
            "ShiftArith"}

\* A word for two or three words.
WordsOp(m, op) ==
  With(m, IF op \in {"AddMod", "MulMod"} THEN <<"int", "int", "int">> ELSE <<"int", "int">>,
       LAMBDA n, a :
         LET res == CASE op \in ArithOps -> ArithResult(op, a)
                      [] op \in CompareOps -> <<IF CompareResult(op, a) THEN 1 ELSE 0>>
                      [] op \in BitsOps -> <<BitsResult(op, a)>>
                      [] op = "SignExtend" -> <<SignExtendResult(a[1], a[2])>>
                      [] op = "EthHash2" -> <<Keccak256(a)>>
         IN IF res = <<>> THEN Err(n) ELSE Advance(Push(n, Num(res[1]))))

\* A word for one or two values of any kind.
ValueOp(m, op) ==
  CASE op = "IsZero" -> With(m, <<"int">>, LAMBDA n, a : Advance(Push(n, Bool(a[1] = 0))))
    [] op = "BitwiseNeg" ->
         With(m, <<"int">>, LAMBDA n, a : Advance(Push(n, Num(bitwise_neg(a[1])))))
    [] op = "Hash" -> With(m, <<"any">>, LAMBDA n, a : Advance(Push(n, Num(avm_hash(a[1])))))
    [] op = "Equal" ->
         With(m, <<"any", "any">>, LAMBDA n, a : Advance(Push(n, Bool(a[1] = a[2]))))
    [] op = "Type" ->
         With(m, <<"any">>, LAMBDA n, a : Advance(Push(n, Num(type_insn_result(a[1])))))

\* tuple_keccak refuses anything but seven words.
DigestOp(m, op) ==
  CASE op = "Keccakf" ->
         With(m, <<"tuple">>,
              LAMBDA n, a :
                IF Len(a[1]) = 7 /\ \A i \in 1..7 : a[1][i][1] = "int"
                THEN LET words == [i \in 1..7 |-> a[1][i][2]]
                     IN Advance(Push(n, Tup([i \in 1..7 |-> Num(Digest(op, <<i>> \o words))])))
                ELSE Err(n))
    [] op \in {"Sha256f", "Ripemd160f"} ->
         With(m, <<"int", "int", "int">>, LAMBDA n, a : Advance(Push(n, Num(Digest(op, a)))))
    [] op = "Blake2f" ->
         With(m, <<"buffer">>,
              LAMBDA n, a :
                LET digest == Digest(op, as_bytes(a[1], a[1].size))
                IN Advance(Push(n, Buf(Buffer_from_bytes(<<digest % ByteSize>>)))))

\* Mutant: the gas of the blocked instruction is not given back.
InboxOpCharged(m, insn, gas_remaining_before) ==
  IF m.runtime_env.l1_inbox # <<>> THEN
    Advance(Push([m EXCEPT !.runtime_env = get_from_inbox(@)],
                 peek_at_inbox_head(m.runtime_env)))
  ELSE Blocked([m EXCEPT !.stack = IF insn.imm = <<>> THEN @ ELSE Tail(@)])

\* With an empty inbox the machine is blocked: it has its gas back, and the
\* immediate is off the stack again.
InboxOp(m, insn, gas_remaining_before) ==
  IF m.runtime_env.l1_inbox # <<>> THEN
    Advance(Push([m EXCEPT !.runtime_env = get_from_inbox(@)],
                 peek_at_inbox_head(m.runtime_env)))
  ELSE Blocked([m EXCEPT !.arb_gas_remaining = gas_remaining_before,
                         !.stack = IF insn.imm = <<>> THEN @ ELSE Tail(@)])

\* Here the operand goes back on the stack, be it an immediate or not.
InboxPeekOp(m, gas_remaining_before) ==
  With(m, <<"int">>,
       LAMBDA n, a :
         IF n.runtime_env.l1_inbox = <<>> THEN
           Blocked(Push([n EXCEPT !.arb_gas_remaining = gas_remaining_before], Num(a[1])))
         ELSE Advance(Push(n, Bool(peek_at_inbox_head(n.runtime_env)[2][2] = Num(a[1])))))

\* Sends, logs and the error code point.  A send of more bytes than a usize
\* counts is a panic.
EffectOp(m, op) ==
  CASE op = "Send" ->
         With(m, <<"int", "buffer">>,
              LAMBDA n, a : IF to_usize(a[1])
                            THEN Advance([n EXCEPT !.runtime_env = push_send(@, a[1], a[2])])
                            ELSE Panic(n))
    [] op = "Log" ->
         With(m, <<"any">>,
              LAMBDA n, a : Advance([n EXCEPT !.runtime_env = push_log(@, a[1])]))
    [] op = "ErrSet" ->
         With(m, <<"code">>, LAMBDA n, a : Advance([n EXCEPT !.err_codepoint = a[1]]))
    [] op = "ErrPush" -> Advance(Push(m, Code(m.err_codepoint)))

\* Code made at run time.
CodeOp(m, op) ==
  LET PushInsn(n, number, imm, cp) ==
        IF CanPushInsn(n.code, number, cp)
        THEN Advance(Push([n EXCEPT !.code = push_insn(@, number, imm, cp)],
                          Code(InSegment(cp[2], cp[3] + 1))))
        ELSE Panic(n)
  IN CASE op = "ErrCodePoint" ->
            Advance(Push([m EXCEPT !.code = create_segment(@)],
                         Code(InSegment(Len(m.code), 0))))
       [] op = "PushInsn" ->
            With(m, <<"usize", "code">>, LAMBDA n, a : PushInsn(n, a[1], <<>>, a[2]))
       [] op = "PushInsnImm" ->
            With(m, <<"usize", "any", "code">>,
                 LAMBDA n, a : PushInsn(n, a[1], <<a[2]>>, a[3]))
       [] op = "OpenInsn" ->
            With(m, <<"code">>,
                 LAMBDA n, a :
                   LET insn == get_insn(n.code, a[1])
                   IN IF insn = <<>> THEN Panic(n)
                      ELSE Advance(Push(Push(n, Tup(insn[1].imm)),
                                        Num(to_number[insn[1].op]))))

\* check_validity_of_trace_info: a list of events in which an event tagged 1
\* closes one tagged 0 before it, and none stays open.
RECURSIVE TraceInfoValid(_, _)
TraceInfoValid(v, nesting) ==
  IF v = none THEN nesting = 0
  ELSE /\ v[1] = "tuple" /\ Len(v[2]) = 2
       /\ v[2][1][1] = "tuple" /\ v[2][1][2] # <<>> /\ v[2][1][2][1][1] = "int"
       /\ LET typecode == v[2][1][2][1][2]
          IN CASE typecode = 0 -> TraceInfoValid(v[2][2], nesting + 1)
               [] typecode = 1 -> nesting > 0 /\ TraceInfoValid(v[2][2], nesting - 1)
               [] OTHER -> typecode <= 3 /\ TraceInfoValid(v[2][2], nesting)

DebugPrintPanics(v) ==
  /\ v[1] = "tuple" /\ Len(v[2]) = 2 /\ v[2][1] = Num(20000)
  /\ ~TraceInfoValid(v[2][2], 0)

\* Breakpoint stops the run with the program counter past it.
HostOp(m, op) ==
  CASE op = "Breakpoint" ->
         LET r == Advance(m) IN IF r.res = "ok" THEN Blocked(r.m) ELSE r
    [] op = "Halt" -> Blocked([m EXCEPT !.state = <<"stopped">>])
    [] op = "DebugPrint" ->
         With(m, <<"any">>, LAMBDA n, a : IF DebugPrintPanics(a[1]) THEN Panic(n) ELSE Advance(n))
    [] op = "PushGas" -> Advance(Push(m, Num(m.arb_gas_remaining)))
    [] op = "SetGas" ->
         With(m, <<"int">>, LAMBDA n, a : Advance([n EXCEPT !.arb_gas_remaining = a[1]]))
    [] op = "Sideload" -> With(m, <<"int">>, LAMBDA n, a : Advance(Push(n, none)))

\* do_ecpairing: a list of at most MaxPairingSize - 1 pairs of points, six
\* words each.  A pair that is not on the curves makes the answer false
\* without a look at the rest; a malformed list has no answer.
RECURSIVE ecpairing(_, _, _)
ecpairing(v, i, acc) ==
  IF i = MaxPairingSize \/ v[1] # "tuple" THEN <<>>
  ELSE IF v = none THEN <<Curve("Product", acc) # <<>>>>
  ELSE IF Len(v[2]) # 2 \/ v[2][1][1] # "tuple" THEN <<>>
  ELSE LET pts == v[2][1][2]
       IN IF Len(pts) # 6 \/ \E j \in DOMAIN pts : pts[j][1] # "int" THEN <<>>
          ELSE LET uis == [j \in 1..6 |-> pts[j][2]]
               IN IF Curve("Points", uis) = <<>> THEN <<FALSE>>
                  ELSE ecpairing(v[2][2], i + 1, acc \o uis)

\* Curve("Recover", ..) is the address, zero where there is none.
CurveOp(m, op) ==
  LET PushPoint(n, z) ==
        IF z = <<>> THEN Err(n) ELSE Advance(Push(Push(n, Num(z[2])), Num(z[1])))
  IN CASE op = "EcRecover" ->
            With(m, <<"int", "int", "int", "int">>,
                 LAMBDA n, a : Advance(Push(n, Num(Curve("Recover", a)[1]))))
       [] op = "EcAdd" ->
            With(m, <<"int", "int", "int", "int">>,
                 LAMBDA n, a : PushPoint(n, Curve("Add", a)))
       [] op = "EcMul" ->
            With(m, <<"int", "int", "int">>, LAMBDA n, a : PushPoint(n, Curve("Mul", a)))
       [] op = "EcPairing" ->
            With(m, <<"any">>,
                 LAMBDA n, a : LET z == ecpairing(a[1], 0, <<>>)
                               IN IF z = <<>> THEN Err(n) ELSE Advance(Push(n, Bool(z[1]))))

\* The bytes an access of a buffer spans.
Span(op) ==
  CASE op \in {"GetBuffer8", "SetBuffer8"} -> 1
    [] op \in {"GetBuffer64", "SetBuffer64"} -> UsizeBytes
    [] op \in {"GetBuffer256", "SetBuffer256"} -> WordBytes

\* The last byte of the span has no offset that fits a usize.
SpanWraps(op, offset) == offset + Span(op) - 1 >= UsizeSize

GetBufferOp(m, op) ==
  With(m, <<"usize", "buffer">>,
       LAMBDA n, a :
         IF SpanWraps(op, a[1]) THEN Err(n)
         ELSE Advance(Push(n, Num(from_bytes([i \in 1..Span(op) |->
                                                read_byte(a[2], a[1] + i - 1)])))))

\* The lowest byte of the value, or its highest bytes.
StoredBytes(op, val) ==
  IF op = "SetBuffer8" THEN <<to_bytes_be(val)[WordBytes]>>
  ELSE SubSeq(to_bytes_be(val), 1, Span(op))

SetBufferOp(m, op) ==
  With(m, <<"usize">>,
       LAMBDA n, a :
         IF SpanWraps(op, a[1]) THEN Err(n)
         ELSE With(n, <<"int", "buffer">>,
                   LAMBDA k, b :
                     Advance(Push(k, Buf(SetBytes(b[2], a[1], StoredBytes(op, b[1])))))))

-----------------------------------------------------------------------------
(* run_one and run. *)

Execute(m, insn, gas_remaining_before) ==
  LET op == insn.op
  IN CASE op \in {"Noop", "Zero", "Error", "Jump", "Cjump", "PCpush"} -> ControlOp(m, op)
       [] op \in {"Rpush", "Rset", "Spush"} -> RegisterOp(m, op)
       [] op \in {"Tset", "Tget", "Tlen"} -> TupleOp(m, op)
       [] op \in {"Pop", "StackEmpty", "AuxPush", "AuxPop", "AuxStackEmpty"} -> StackOp(m, op)
       [] op \in {"Xget", "Xset"} -> FrameOp(m, op)
       [] op \in {"Dup0", "Dup1", "Dup2", "Swap1", "Swap2"} -> ShuffleOp(m, op)
       [] op \in {"IsZero", "BitwiseNeg", "Hash", "Equal", "Type"} -> ValueOp(m, op)
       [] op \in {"Keccakf", "Sha256f", "Ripemd160f", "Blake2f"} -> DigestOp(m, op)
       [] op = "Inbox" -> InboxOp(m, insn, gas_remaining_before)
       [] op = "InboxPeek" -> InboxPeekOp(m, gas_remaining_before)
       [] op \in {"Send", "Log", "ErrSet", "ErrPush"} -> EffectOp(m, op)
       [] op \in {"ErrCodePoint", "PushInsn", "PushInsnImm", "OpenInsn"} -> CodeOp(m, op)
       [] op \in {"Breakpoint", "Halt", "DebugPrint", "PushGas", "SetGas", "Sideload"} ->
            HostOp(m, op)
       [] op \in {"EcRecover", "EcAdd", "EcMul", "EcPairing"} -> CurveOp(m, op)
       [] op = "NewBuffer" -> Advance(Push(m, Buf(Buffer_new_empty)))
       [] op \in {"GetBuffer8", "GetBuffer64", "GetBuffer256"} -> GetBufferOp(m, op)
       [] op \in {"SetBuffer8", "SetBuffer64", "SetBuffer256"} -> SetBufferOp(m, op)
       [] OTHER -> WordsOp(m, op)

\* The immediate is pushed, then the gas is charged, then the instruction is
\* executed.  Without enough gas the gas register is reset and nothing is
\* charged.
run_one_dont_catch_errors(m) ==
  LET insn == get_insn(m.code, m.state[2])
  IN IF Unlinked(m.state[2]) THEN Panic(m)
     ELSE IF insn = <<>> THEN Err(m)
     ELSE LET n == [m EXCEPT !.stack = insn[1].imm \o @]
              gas == next_op_gas(n)
          IN IF gas > n.arb_gas_remaining THEN Err([n EXCEPT !.arb_gas_remaining = max_uint])
             ELSE Execute([n EXCEPT !.arb_gas_remaining = @ - gas,
                                    !.total_gas_usage = add(@, gas)],
                          insn[1], n.arb_gas_remaining)

\* Mutant: a caught error leaves the error code point cleared.
Caught_once(r) ==
  IF r.res # "err" \/ r.m.err_codepoint = Null THEN r
  ELSE Ok(Goto([r.m EXCEPT !.err_codepoint = Null], r.m.err_codepoint))

\* An error goes on at the error code point if there is one.
Caught(r) ==
  IF r.res # "err" \/ r.m.err_codepoint = Null THEN r ELSE Ok(Goto(r.m, r.m.err_codepoint))

run_one(m) == Caught(run_one_dont_catch_errors(m))

\* One turn of the loop of run.  The gas of an instruction that ends the run
\* is taken back from the total, as it was computed before the immediate was
\* pushed.
EndOfTurn(r, gas_this_instruction) ==
  CASE r.res = "err" -> [m |-> [r.m EXCEPT !.state = <<"error">>], res |-> "done"]
    [] r.res = "blocked" ->
         [m |-> [r.m EXCEPT !.total_gas_usage = @ - gas_this_instruction], res |-> "done"]
    [] OTHER -> r

run_step(m) ==
  EndOfTurn(run_one(m), IF get_insn(m.code, m.state[2]) = <<>> THEN 1 ELSE next_op_gas(m))

=============================================================================
