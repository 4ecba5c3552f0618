------------------------------ MODULE Codegen -------------------------------
(***************************************************************************)
(* Code generation (src/src/compile/codegen.rs).  An operation takes the    *)
(* state st of the generation and returns the state after it:              *)
(*   ok      FALSE after a CodegenError or a panic                         *)
(*   code    the instructions so far                                       *)
(*   gen     the label generator                                           *)
(*   scopes  the blocks a break may leave, <<name, label>>, innermost last *)
(*   used    the number of local slots used                                *)
(* and reads c: the slots of the locals, num_locals, the number of slots   *)
(* taken, prepushed_vals, the number of values on the stack above those of *)
(* the caller, import_func_map, global_var_map, builtins (the names the    *)
(* string table has for the built-in functions) and release_build.         *)
(***************************************************************************)
EXTENDS Typecheck

Op(name) == from_opcode(name)
OpImm(name, v) == from_opcode_imm(name, v)
OpN(name, n) == from_opcode_imm(name, Num(n))
At(label) == Insn("Label", <<label>>, <<>>)

Emit(st, insns) == [st EXCEPT !.code = @ \o insns]
Fail(st) == [st EXCEPT !.ok = FALSE]
Larger(a, b) == IF a > b THEN a ELSE b
AtLeast(st, slots) == [st EXCEPT !.used = Larger(@, slots)]
Times(n, insn) == [i \in 1..n |-> insn]

\* The n-th label the generator gives out, and the state after n of them.
NewLabel(st, n) == <<"anon", st.gen + n - 1>>
Labelled(st, n) == [st EXCEPT !.gen = @ + n]

RECURSIVE mavm_codegen_expr(_, _, _)
RECURSIVE mavm_codegen_statements(_, _, _)

\* The expressions in the order given, each above the values of the others.
Operands(es, st, c) ==
  FoldHalves(LAMBDA acc, i :
               AtLeast(mavm_codegen_expr(es[i], acc, [c EXCEPT !.prepushed_vals = @ + i - 1]),
                       acc.used),
             [st EXCEPT !.used = c.num_locals], [i \in DOMAIN es |-> i])

-----------------------------------------------------------------------------
(* Blocks, returns and patterns.                                           *)

\* The scope of a block without a value stays on the stack of scopes.
mavm_codegen_code_block(block, st, c) ==
  LET bottom_label == NewLabel(st, 1)
      opened == [Labelled(st, 1) EXCEPT
                   !.scopes = Append(@, <<block.attr.scope, bottom_label>>)]
      body == IF block.attr.ret THEN Front(block.subs) ELSE block.subs
      Inner(after) == [c EXCEPT !.locals = after.locals, !.num_locals = after.st.used]
      Close(end) == Emit(AtLeast(end, c.num_locals), <<At(bottom_label)>>)
      Value(after) ==
        Eager(mavm_codegen_expr(Last(block.subs), after.st, Inner(after)),
              LAMBDA end : Close([AtLeast(end, after.st.used) EXCEPT
                                    !.scopes = IF @ = <<>> THEN @ ELSE Front(@)]))
  IN IF block.attr.ret THEN Eager(mavm_codegen_statements(body, opened, c), Value)
     ELSE Close(mavm_codegen_statements(body, opened, c).st)

\* The values under the result go, with the result on the aux stack.
ReturnCode(prepushed_vals) ==
  (IF prepushed_vals = 0 THEN <<>>
   ELSE <<Op("AuxPush")>> \o Times(prepushed_vals, Op("Pop")) \o <<Op("AuxPop")>>)
    \o <<Op("Return")>>

\* The patterns that bind a name, in order, and the slots they get.
BoundPats(pat) ==
  SelectSeq(IF pat[1] = "tuple" THEN pat[2] ELSE <<pat>>, LAMBDA p : p[1] = "bind")
PatternSlots(pat, base) ==
  LET binds == BoundPats(pat)
  IN [name \in {binds[i][2] : i \in DOMAIN binds} |->
        base + (CHOOSE i \in DOMAIN binds :
                  /\ binds[i][2] = name
                  /\ \A j \in DOMAIN binds : binds[j][2] = name => j <= i) - 1]

\* Where the value on the stack goes, with n names bound before it.
StoreCode(pat, n, c) ==
  CASE pat[1] = "bind" -> <<OpN("SetLocal", c.num_locals + n)>>
    [] pat[1] = "assign" /\ pat[2] \in DOMAIN c.locals -> <<OpN("SetLocal", c.locals[pat[2]])>>
    [] pat[1] = "assign" /\ pat[2] \notin DOMAIN c.locals ->
         <<Insn("SetGlobalVar", <<c.global_var_map[pat[2]]>>, <<>>)>>

\* A variable assigned in a pattern has to exist, and is assigned once.
PatternOk(pats, c) ==
  LET assigned == SelectSeq(pats, LAMBDA p : p[1] = "assign")
  IN /\ IsInjective([i \in DOMAIN assigned |-> assigned[i][2]])
     /\ \A i \in DOMAIN assigned :
          assigned[i][2] \in DOMAIN c.locals \cup DOMAIN c.global_var_map

mavm_codegen_tuple_pattern(pat, st, c) ==
  LET pats == pat[2]
      Binds(i) == Len(SelectSeq(SubSeq(pats, 1, i - 1), LAMBDA p : p[1] = "bind"))
      Field(i) == (IF i < Len(pats) THEN <<Op("Dup0")>> ELSE <<>>)
                    \o <<Insn("TupleGet", <<Len(pats)>>, <<Num(i - 1)>>)>>
                    \o StoreCode(pats[i], Binds(i), c)
  IN IF pat[1] # "tuple" THEN Emit(st, StoreCode(pat, 0, c))
     ELSE IF ~PatternOk(pats, c) THEN Fail(st)
     ELSE Emit(st, Flatten([i \in DOMAIN pats |-> Field(i)]))

-----------------------------------------------------------------------------
(* Statements.                                                             *)

ReturnStatement(s, st, c) ==
  Emit(mavm_codegen_expr(s.subs[1], st, c), ReturnCode(c.prepushed_vals))

\* The innermost scope of the name; the scopes are as they were after it.
BreakStatement(s, st, c) ==
  LET found == {i \in DOMAIN st.scopes : st.scopes[i][1] = s.attr}
      lab == st.scopes[CHOOSE i \in found : \A j \in found : j <= i][2]
  IN IF found = {} THEN Fail(st)
     ELSE Emit([(IF s.subs = <<>> THEN [st EXCEPT !.used = c.prepushed_vals]
                 ELSE mavm_codegen_expr(s.subs[1], st, c)) EXCEPT !.scopes = st.scopes],
               <<OpImm("Jump", Lab(lab))>>)

ExpressionStatement(s, st, c) ==
  Emit(mavm_codegen_expr(s.subs[1], st, c),
       IF s.subs[1].t \in {VoidT, EveryT} THEN <<>> ELSE <<Op("Pop")>>)

LetStatement(s, st, c) ==
  AtLeast(mavm_codegen_tuple_pattern(s.attr, mavm_codegen_expr(s.subs[1], st, c), c),
          c.num_locals + Len(BoundPats(s.attr)))

AssignStatement(s, st, c) ==
  IF s.kind = "AssignLocal" /\ s.attr \notin DOMAIN c.locals THEN Fail(st)
  ELSE Emit(mavm_codegen_expr(s.subs[1], st, c),
            IF s.kind = "AssignGlobal" THEN <<Insn("SetGlobalVar", <<s.attr>>, <<>>)>>
            ELSE <<OpN("SetLocal", c.locals[s.attr])>>)

\* Mutant: the body may use the slot that holds the label of its top.
WhileStatement_slot(s, st, c) ==
  LET top_label == NewLabel(st, 1)
      cond_label == NewLabel(st, 2)
      entered == Emit(Labelled(st, 2), <<OpImm("Noop", Lab(top_label)),
                                         OpN("SetLocal", c.num_locals),
                                         OpImm("Jump", Lab(cond_label)), At(top_label)>>)
      Test(body) == mavm_codegen_expr(s.subs[1], Emit(body, <<At(cond_label)>>),
                                      [c EXCEPT !.num_locals = body.used])
  IN Eager(mavm_codegen_statements(Tail(s.subs), entered, c).st,
           LAMBDA body : Emit(AtLeast(AtLeast(Test(body), body.used), c.num_locals + 1),
                              <<OpN("GetLocal", c.num_locals), Op("Cjump")>>))

\* The label of the top, behind the jump, is kept in a local of its own.
WhileStatement(s, st, c) ==
  LET top_label == NewLabel(st, 1)
      cond_label == NewLabel(st, 2)
      entered == Emit(Labelled(st, 2), <<OpImm("Noop", Lab(top_label)),
                                         OpN("SetLocal", c.num_locals),
                                         OpImm("Jump", Lab(cond_label)), At(top_label)>>)
      Test(body) == mavm_codegen_expr(s.subs[1], Emit(body, <<At(cond_label)>>),
                                      [c EXCEPT !.num_locals = body.used])
  IN Eager(mavm_codegen_statements(Tail(s.subs), entered, [c EXCEPT !.num_locals = @ + 1]).st,
           LAMBDA body : Emit(AtLeast(Test(body), body.used),
                              <<OpN("GetLocal", c.num_locals), Op("Cjump")>>))

\* A call to a function of the built-in library; its type is not Every.
BuiltinCall(name, args, st, c) ==
  LET call_type == <<"func", FALSE, <<>>, AnyT>>
  IN IF name \notin DOMAIN c.builtins THEN Fail(st)
     ELSE mavm_codegen_expr(
            Typed("FunctionCall", TRUE,
                  Typed("FuncRef", c.builtins[name], <<>>, call_type) \o args, call_type)[1],
            st, c)

AssertStatement(s, st, c) ==
  IF c.release_build THEN st ELSE BuiltinCall("builtin_assert", s.subs, st, c)

AsmStatement(s, st, c) == Emit(Operands(Reverse(s.subs), st, c), s.attr)

DebugPrintStatement(s, st, c) ==
  Emit(mavm_codegen_expr(s.subs[1], st, c), <<Op("DebugPrint")>>)

mavm_codegen_statement(s, st, c) ==
  CASE s.kind = "Noop" -> st
    [] s.kind = "ReturnVoid" -> Emit(st, <<Op("Return")>>)
    [] s.kind = "Return" -> ReturnStatement(s, st, c)
    [] s.kind = "Break" -> BreakStatement(s, st, c)
    [] s.kind = "Expression" -> ExpressionStatement(s, st, c)
    [] s.kind = "Let" -> LetStatement(s, st, c)
    [] s.kind \in {"AssignLocal", "AssignGlobal"} -> AssignStatement(s, st, c)
    [] s.kind = "While" -> WhileStatement(s, st, c)
    [] s.kind = "AsmStat" -> AsmStatement(s, st, c)
    [] s.kind = "DebugPrint" -> DebugPrintStatement(s, st, c)
    [] s.kind = "Assert" -> AssertStatement(s, st, c)

\* The state after the statements and the locals known at their end.
mavm_codegen_statements(statements, st, c) ==
  LET Here(acc) == [c EXCEPT !.locals = acc.locals, !.num_locals = acc.st.used]
  IN FoldHalves(
       LAMBDA acc, s :
         [st |-> AtLeast(mavm_codegen_statement(s, acc.st, Here(acc)), acc.st.used),
          locals |-> IF s.kind # "Let" THEN acc.locals
                     ELSE PatternSlots(s.attr, acc.st.used) @@ acc.locals],
       [st |-> [st EXCEPT !.used = c.num_locals], locals |-> c.locals], statements)

-----------------------------------------------------------------------------
(* Expressions.                                                            *)

UnaryCode(op) ==
  CASE op = "Minus" -> <<Op("UnaryMinus")>>
    [] op = "BitwiseNeg" -> <<Op("BitwiseNeg")>>
    [] op = "Not" -> <<Op("IsZero")>>
    [] op = "Hash" -> <<Op("Hash")>>
    [] op \in {"ToUint", "ToInt", "ToBytes32"} -> <<>>
    [] op = "ToAddress" -> <<OpN("BitwiseAnd", AddressSize - 1)>>
    [] op = "Len" -> <<Insn("TupleGet", <<3>>, <<Num(0)>>)>>

\* Operations whose opcode has another name; those in Negated are negated.
Opcode == [Plus |-> "Add", Minus |-> "Sub", Times |-> "Mul", LessEq |-> "GreaterThan",
           GreaterEq |-> "LessThan", SLessEq |-> "SGreaterThan", SGreaterEq |-> "SLessThan",
           NotEqual |-> "Equal", _LogicalAnd |-> "LogicalAnd", Hash |-> "EthHash2"]
Negated == {"NotEqual", "LessEq", "GreaterEq", "SLessEq", "SGreaterEq"}

BinaryCode(op) ==
  <<Op(IF op \in DOMAIN Opcode THEN Opcode[op] ELSE op)>>
    \o (IF op \in Negated THEN <<Op("IsZero")>> ELSE <<>>)

\* The operators that always evaluate their operands, the last one first.
OperatorCode(e, st, c) ==
  LET code == CASE e.kind = "UnaryOp" -> UnaryCode(e.attr)
                [] e.kind = "Binary" -> BinaryCode(e.attr)
                [] e.kind = "Trinary" -> <<Op(e.attr)>>
  IN Emit(Operands(Reverse(e.subs), st, c), code)

ShortcutCode(e, st, c) ==
  LET Test(left) ==
        Emit(Labelled(left, 1),
             <<Op("Dup0")>> \o (IF e.kind = "ShortcutAnd" THEN <<Op("IsZero")>> ELSE <<>>)
               \o <<OpImm("Cjump", Lab(NewLabel(left, 1))), Op("Pop")>>)
  IN Eager(mavm_codegen_expr(e.subs[1], st, c),
           LAMBDA left : Emit(AtLeast(mavm_codegen_expr(e.subs[2], Test(left), c), left.used),
                              <<At(NewLabel(left, 1))>>))

\* A function that is not imported has a label of its own.
ReferenceCode(e, st, c) ==
  CASE e.kind = "LocalVariableRef" ->
         IF e.attr \in DOMAIN c.locals THEN Emit(st, <<OpN("GetLocal", c.locals[e.attr])>>)
         ELSE Fail(st)
    [] e.kind = "GlobalVariableRef" -> Emit(st, <<Insn("GetGlobalVar", <<e.attr>>, <<>>)>>)
    [] e.kind = "FuncRef" ->
         Emit(st, <<OpImm("Noop", Lab(IF e.attr \in DOMAIN c.import_func_map
                                      THEN c.import_func_map[e.attr] ELSE <<"func", e.attr>>))>>)

FieldCode(e, st, c) ==
  LET size == IF e.kind = "TupleRef" THEN Len(e.subs[1].t[2]) ELSE e.attr[2]
      index == IF e.kind = "TupleRef" THEN e.attr ELSE e.attr[1]
  IN Emit(mavm_codegen_expr(e.subs[1], st, c), <<Insn("TupleGet", <<size>>, <<Num(index)>>)>>)

\* The arguments from the last to the first, the return address unless the
\* function never returns, and the function.
CallCode(e, st, c) ==
  LET ret_label == NewLabel(st, 1)
      n_args == Len(e.subs) - 1
      ret == IF e.t = EveryT THEN <<>> ELSE <<OpImm("Noop", Lab(ret_label))>>
      inner == [c EXCEPT !.prepushed_vals = @ + n_args + 1]
  IN Eager(Operands(Reverse(Tail(e.subs)), Labelled(st, 1), c),
           LAMBDA args : Emit(AtLeast(mavm_codegen_expr(e.subs[1], Emit(args, ret), inner),
                                      args.used),
                              <<Op("Jump"), At(ret_label)>>))

\* A struct starts as a tree of its size, a tuple as a tuple of its size.
AggregateCode(e, st, c) ==
  LET n == Len(e.subs)
      empty == IF e.kind = "StructInitializer" THEN make_empty(TupleTree_new(n, FALSE))
               ELSE Tup(Times(n, none))
  IN Emit(Operands(Reverse(e.subs), st, c),
          <<OpImm("Noop", empty)>>
            \o [i \in 1..n |-> Insn("TupleSet", <<n>>, <<Num(i - 1)>>)])

\* The operations on arrays and maps are calls.
ArrayRefCode(e, st, c) == BuiltinCall("builtin_arrayGet", e.subs, st, c)
MapRefCode(e, st, c) == BuiltinCall("builtin_kvsGet", e.subs, st, c)
NewArrayCode(e, st, c) ==
  BuiltinCall("builtin_arrayNew", e.subs \o Const(default_value(e.attr)[1], AnyT), st, c)
NewMapCode(e, st, c) == BuiltinCall("builtin_kvsNew", <<>>, st, c)
ArrayModCode(e, st, c) == BuiltinCall("builtin_arraySet", e.subs, st, c)
MapModCode(e, st, c) == BuiltinCall("builtin_kvsSet", e.subs, st, c)

\* The index on the stack is below the size; a tuple checks its own indices.
BoundsCheck(size, st) ==
  IF size = TUPLE_SIZE THEN st
  ELSE Emit(Labelled(st, 1),
            <<Op("Dup0"), OpN("GreaterThan", size), OpImm("Cjump", Lab(NewLabel(st, 1))),
              Op("Error"), At(NewLabel(st, 1))>>)

FixedArrayRefCode(e, st, c) ==
  Emit(BoundsCheck(e.attr, Operands(e.subs, st, c)),
       <<Insn("UncheckedFixedArrayGet", <<e.attr>>, <<>>)>>)

\* A tuple of copies of the value on the stack, and so on up to the size.
Copies == Times(TUPLE_SIZE - 1, Op("Dup0"))
            \o <<OpImm("Noop", Tup(Times(TUPLE_SIZE, none)))>>
            \o [i \in 1..TUPLE_SIZE |-> OpN("Tset", i - 1)]
RECURSIVE FixedLevels(_, _)
FixedLevels(tuple_size, size) ==
  IF tuple_size >= size THEN <<>> ELSE Copies \o FixedLevels(tuple_size * TUPLE_SIZE, size)

NewFixedArrayCode(e, st, c) ==
  LET levels == FixedLevels(TUPLE_SIZE, e.attr)
  IN IF e.subs = <<>> THEN Emit([st EXCEPT !.used = c.num_locals],
                                <<OpImm("Noop", Tup(Times(TUPLE_SIZE, none)))>> \o levels)
     ELSE Emit(mavm_codegen_expr(e.subs[1], st, c), Copies \o levels)

\* The stack holds the index, the tuple and the value.
RECURSIVE codegen_fixed_array_mod_2(_)
codegen_fixed_array_mod_2(size) ==
  IF size <= TUPLE_SIZE THEN <<Op("Tset")>>
  ELSE <<OpN("Dup2", TUPLE_SIZE), Op("AuxPush"), Op("Dup1"), Op("Mod"), Op("Dup0"), Op("AuxPush"),
         Op("Swap1"), OpN("Swap1", TUPLE_SIZE), Op("Div"), Op("Swap2"), Op("Swap1"), Op("Tget"),
         Op("Swap1")>>
       \o codegen_fixed_array_mod_2((size + TUPLE_SIZE - 1) \div TUPLE_SIZE)
       \o <<Op("AuxPop"), Op("AuxPop"), Op("Swap1"), Op("Tset")>>

codegen_fixed_array_mod(e, st, c) ==
  Emit(BoundsCheck(e.attr, Operands(<<e.subs[3], e.subs[1], e.subs[2]>>, st, c)),
       codegen_fixed_array_mod_2(e.attr))

StructModCode(e, st, c) ==
  Emit(Operands(Reverse(e.subs), st, c),
       <<Insn("TupleSet", <<Len(e.t[2])>>, <<Num(e.attr)>>)>>)

\* None returns from the function, Some goes on with what is in it.
TryCode(e, st, c) ==
  LET Extract(value, extract) ==
        Emit(Labelled(value, 1),
             <<Op("Dup0"), OpN("Tget", 0), OpImm("Cjump", Lab(extract))>>
               \o ReturnCode(c.prepushed_vals) \o <<At(extract), OpN("Tget", 1)>>)
  IN Eager(mavm_codegen_expr(e.subs[1], st, c), LAMBDA value : Extract(value, NewLabel(value, 1)))

\* The blocks of a conditional after its test, and the code in between.
BranchesCode(e, tested, inner, c, Between(_), end_label(_)) ==
  LET Else(between) == IF Len(e.subs) = 3 THEN mavm_codegen_code_block(e.subs[3], between, c)
                       ELSE [between EXCEPT !.used = 0]
  IN Eager(mavm_codegen_code_block(e.subs[2], tested, inner),
           LAMBDA block : Emit(AtLeast(Else(Between(block)), block.used),
                               <<At(end_label(block))>>))

IfCode(e, st, c) ==
  LET After(cond) ==
        BranchesCode(e, Emit(Labelled(cond, 2),
                             <<Op("IsZero"), OpImm("Cjump", Lab(NewLabel(cond, 1)))>>), c, c,
                     LAMBDA block :
                       Emit(block, (IF Len(e.subs) = 3 THEN <<OpImm("Jump", Lab(NewLabel(cond, 2)))>>
                                    ELSE <<>>) \o <<At(NewLabel(cond, 1))>>),
                     LAMBDA block : NewLabel(cond, 2))
  IN Eager(mavm_codegen_expr(e.subs[1], st, c), LAMBDA cond : AtLeast(After(cond), cond.used))

\* The option is still on the stack where it is None.
NoneCode(after_label) == <<At(after_label), Op("Pop")>>

IfLetCode(e, st, c) ==
  LET after_label == NewLabel(st, 1)
      slot_num == c.num_locals
      some == <<Op("Dup0"), OpN("Tget", 0), Op("IsZero"), OpImm("Cjump", Lab(after_label)),
                OpN("Tget", 1), OpN("SetLocal", slot_num)>>
      inner == [c EXCEPT !.num_locals = @ + 1, !.locals = (e.attr :> slot_num) @@ @]
      After(value) ==
        BranchesCode(e, Emit(value, some), inner, c,
                     LAMBDA block : Emit(Labelled(block, 1),
                                         <<OpImm("Jump", Lab(NewLabel(block, 1)))>>
                                           \o NoneCode(after_label)),
                     LAMBDA block : NewLabel(block, 1))
  IN Eager(mavm_codegen_expr(e.subs[1], Labelled(st, 1), c),
           LAMBDA value : AtLeast(After(value), value.used))

LoopCode(e, st, c) ==
  LET top_label == NewLabel(st, 1)
      bottom_label == NewLabel(st, 2)
      entered == [Labelled(st, 2) EXCEPT !.scopes = Append(@, <<"_", bottom_label>>)]
      top == <<OpImm("Noop", Lab(top_label)), OpN("SetLocal", c.num_locals), At(top_label)>>
      Close(body) == [AtLeast(body, c.num_locals + 1) EXCEPT !.scopes = Front(@)]
  IN Emit(Close(mavm_codegen_statements(e.subs, Emit(entered, top),
                                        [c EXCEPT !.num_locals = @ + 1]).st),
          <<OpN("GetLocal", c.num_locals), Op("Jump"), At(bottom_label)>>)

VariantCode(e, st, c) ==
  Emit(mavm_codegen_expr(e.subs[1], st, c),
       <<OpImm("Noop", Tup(<<Num(1), none>>)), OpN("Tset", 1)>>)

AsmCode(e, st, c) == Emit(Operands(Reverse(e.subs), st, c), e.attr)

Atoms == [NewBuffer |-> "NewBuffer", Error |-> "Error", GetGas |-> "PushGas"]

ExprCode(e, st, c) ==
  LET Here(result) == [result EXCEPT !.used = c.num_locals]
  IN CASE e.kind \in DOMAIN Atoms -> Here(Emit(st, <<Op(Atoms[e.kind])>>))
       [] e.kind = "Const" -> Here(Emit(st, <<OpImm("Noop", e.attr)>>))
       [] e.kind = "SetGas" -> Emit(mavm_codegen_expr(e.subs[1], st, c), <<Op("SetGas")>>)
       [] e.kind \in {"UnaryOp", "Binary", "Trinary"} -> OperatorCode(e, st, c)
       [] e.kind \in {"ShortcutOr", "ShortcutAnd"} -> ShortcutCode(e, st, c)
       [] e.kind = "Variant" -> VariantCode(e, st, c)
       [] e.kind \in {"LocalVariableRef", "GlobalVariableRef", "FuncRef"} ->
            Here(ReferenceCode(e, st, c))
       [] e.kind \in {"TupleRef", "DotRef"} -> FieldCode(e, st, c)
       [] e.kind = "FunctionCall" -> CallCode(e, st, c)
       [] e.kind = "CodeBlock" -> mavm_codegen_code_block(e, st, c)
       [] e.kind \in {"StructInitializer", "Tuple"} -> AggregateCode(e, st, c)
       [] e.kind = "FixedArrayRef" -> FixedArrayRefCode(e, st, c)
       [] e.kind = "NewFixedArray" -> NewFixedArrayCode(e, st, c)
       [] e.kind = "FixedArrayMod" -> codegen_fixed_array_mod(e, st, c)
       [] e.kind = "StructMod" -> StructModCode(e, st, c)
       [] e.kind = "Cast" -> mavm_codegen_expr(e.subs[1], st, c)
       [] e.kind = "Asm" -> AsmCode(e, st, c)
       [] e.kind = "Try" -> TryCode(e, st, c)
       [] e.kind = "If" -> IfCode(e, st, c)
       [] e.kind = "IfLet" -> IfLetCode(e, st, c)
       [] e.kind = "Loop" -> LoopCode(e, st, c)
       [] e.kind = "ArrayRef" -> ArrayRefCode(e, st, c)
       [] e.kind = "MapRef" -> MapRefCode(e, st, c)
       [] e.kind = "NewArray" -> NewArrayCode(e, st, c)
       [] e.kind = "NewMap" -> NewMapCode(e, st, c)
       [] e.kind = "ArrayMod" -> ArrayModCode(e, st, c)
       [] e.kind = "MapMod" -> MapModCode(e, st, c)

mavm_codegen_expr(e, st, c) ==
  CHOOSE after \in {ExprCode(e, now[1], now[2]) : now \in {<<st, c>>}} : TRUE

-----------------------------------------------------------------------------
(* Functions and modules.                                                  *)

\* The frame is made before the number of slots it needs is known.
mavm_codegen_func(func, st, c) ==
  LET stats == IF func.ret_type = VoidT
                  /\ (func.code = <<>> \/ Last(func.code).kind # "ReturnVoid")
               THEN func.code \o Typed("ReturnVoid", <<>>, <<>>, VoidT) ELSE func.code
      n_args == Len(func.args)
      slots == [name \in {func.args[i][1] : i \in DOMAIN func.args} |->
                  (CHOOSE i \in DOMAIN func.args :
                     /\ func.args[i][1] = name
                     /\ \A j \in DOMAIN func.args : func.args[j][1] = name => j <= i) - 1]
      Framed(body) ==
        [body EXCEPT !.code = st.code
           \o <<At(<<"func", func.name>>),
                Insn("MakeFrame", <<n_args, body.used, func.tipe[4] # EveryT>>, <<>>)>> \o @]
  IN Framed(mavm_codegen_statements(stats, [st EXCEPT !.code = <<>>, !.scopes = <<>>],
              [c EXCEPT !.locals = slots, !.num_locals = n_args, !.prepushed_vals = 0]).st)

\* The functions in the order of their names.
mavm_codegen(funcs, imported_funcs, global_vars, builtins, release_build) ==
  LET imports == [id \in {imported_funcs[i].name_id : i \in DOMAIN imported_funcs} |->
                    <<"ext", imported_funcs[CHOOSE i \in DOMAIN imported_funcs :
                               /\ imported_funcs[i].name_id = id
                               /\ \A j \in DOMAIN imported_funcs :
                                    imported_funcs[j].name_id = id => j <= i].slot_num>>]
      c == [locals |-> <<>>, num_locals |-> 0, prepushed_vals |-> 0, import_func_map |-> imports,
            global_var_map |-> global_vars, builtins |-> builtins, release_build |-> release_build]
      st == [ok |-> TRUE, code |-> <<>>, gen |-> LabelGenerator_new, scopes |-> <<>>, used |-> 0]
  IN FoldHalves(LAMBDA acc, func : mavm_codegen_func(func, acc, c), st, funcs)

=============================================================================
