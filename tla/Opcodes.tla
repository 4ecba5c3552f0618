------------------------------ MODULE Opcodes ------------------------------
(***************************************************************************)
(* The instruction set of the AVM as tables (AVMOpcode in src/src/mavm.rs, *)
(* the costs from src/src/run/emulator.rs).  An opcode is its name.        *)
(***************************************************************************)
EXTENDS Integers

to_number ==
  [Zero |-> 0, Add |-> 1, Mul |-> 2, Sub |-> 3, Div |-> 4, Sdiv |-> 5,
   Mod |-> 6, Smod |-> 7, AddMod |-> 8, MulMod |-> 9, Exp |-> 10,
   SignExtend |-> 11, LessThan |-> 16, GreaterThan |-> 17,
   SLessThan |-> 18, SGreaterThan |-> 19, Equal |-> 20, IsZero |-> 21,
   BitwiseAnd |-> 22, BitwiseOr |-> 23, BitwiseXor |-> 24,
   BitwiseNeg |-> 25, Byte |-> 26, ShiftLeft |-> 27, ShiftRight |-> 28,
   ShiftArith |-> 29, Hash |-> 32, Type |-> 33, EthHash2 |-> 34,
   Keccakf |-> 35, Sha256f |-> 36, Ripemd160f |-> 37, Blake2f |-> 38,
   Pop |-> 48, Spush |-> 49, Rpush |-> 50, Rset |-> 51, Jump |-> 52,
   Cjump |-> 53, StackEmpty |-> 54, PCpush |-> 55, AuxPush |-> 56,
   AuxPop |-> 57, AuxStackEmpty |-> 58, Noop |-> 59, ErrPush |-> 60,
   ErrSet |-> 61, Dup0 |-> 64, Dup1 |-> 65, Dup2 |-> 66, Swap1 |-> 67,
   Swap2 |-> 68, Tget |-> 80, Tset |-> 81, Tlen |-> 82, Xget |-> 83,
   Xset |-> 84, Breakpoint |-> 96, Log |-> 97, Send |-> 112,
   InboxPeek |-> 113, Inbox |-> 114, Error |-> 115, Halt |-> 116,
   SetGas |-> 117, PushGas |-> 118, ErrCodePoint |-> 119, PushInsn |-> 120,
   PushInsnImm |-> 121, OpenInsn |-> 122, Sideload |-> 123,
   EcRecover |-> 128, EcAdd |-> 129, EcMul |-> 130, EcPairing |-> 131,
   DebugPrint |-> 144, NewBuffer |-> 160, GetBuffer8 |-> 161,
   GetBuffer64 |-> 162, GetBuffer256 |-> 163, SetBuffer8 |-> 164,
   SetBuffer64 |-> 165, SetBuffer256 |-> 166]

Ops == DOMAIN to_number

\* The opcodes a number stands for: one, or none.
from_number(num) == {op \in Ops : to_number[op] = num}

\* The cost of an instruction, but for the two that look at their operand.
OpGas ==
  [Zero |-> 5, Add |-> 3, Mul |-> 3, Sub |-> 3, Div |-> 4, Sdiv |-> 7,
   Mod |-> 4, Smod |-> 7, AddMod |-> 4, MulMod |-> 4, Exp |-> 25,
   SignExtend |-> 7, LessThan |-> 2, GreaterThan |-> 2, SLessThan |-> 2,
   SGreaterThan |-> 2, Equal |-> 2, IsZero |-> 1, BitwiseAnd |-> 2,
   BitwiseOr |-> 2, BitwiseXor |-> 2, BitwiseNeg |-> 1, Byte |-> 4,
   ShiftLeft |-> 4, ShiftRight |-> 4, ShiftArith |-> 4, Hash |-> 7,
   Type |-> 3, EthHash2 |-> 8, Keccakf |-> 600, Sha256f |-> 250,
   Ripemd160f |-> 250, Pop |-> 1, Spush |-> 1, Rpush |-> 1, Rset |-> 2,
   Jump |-> 4, Cjump |-> 4, StackEmpty |-> 2, PCpush |-> 1, AuxPush |-> 1,
   AuxPop |-> 1, AuxStackEmpty |-> 2, Noop |-> 1, ErrPush |-> 1,
   ErrSet |-> 1, Dup0 |-> 1, Dup1 |-> 1, Dup2 |-> 1, Swap1 |-> 1,
   Swap2 |-> 1, Tget |-> 2, Tset |-> 40, Tlen |-> 2, Xget |-> 3,
   Xset |-> 41, Breakpoint |-> 100, Log |-> 100, Send |-> 100,
   InboxPeek |-> 40, Inbox |-> 40, Error |-> 5, Halt |-> 10,
   ErrCodePoint |-> 25, PushInsn |-> 25, PushInsnImm |-> 25,
   OpenInsn |-> 25, DebugPrint |-> 1, PushGas |-> 1, SetGas |-> 1,
   EcRecover |-> 20000, EcAdd |-> 3500, EcMul |-> 82000, Sideload |-> 10,
   NewBuffer |-> 1, GetBuffer8 |-> 10, GetBuffer64 |-> 10,
   GetBuffer256 |-> 10, SetBuffer8 |-> 100, SetBuffer64 |-> 100,
   SetBuffer256 |-> 100]

\* Instructions that look at or change more than the stack they run on.
Impure ==
  {"Log", "Inbox", "InboxPeek", "Send", "Rset", "Rpush", "PushInsn",
   "PushInsnImm", "ErrCodePoint", "ErrSet", "ErrPush", "SetGas", "PushGas",
   "Jump", "Cjump", "AuxPop", "AuxPush", "Sideload"}

is_pure(op) == op \notin Impure

=============================================================================
