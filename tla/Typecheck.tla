----------------------------- MODULE Typecheck ------------------------------
(***************************************************************************)
(* The type checker (src/src/compile/typecheck.rs).  A node of the source  *)
(* tree is [kind, attr, subs]: what it is, what it carries besides other   *)
(* nodes, and the nodes under it in the order the checker visits them.  A  *)
(* checked node also has its type t.  A result is <<node>>, or Rejected where   *)
(* the code returns a CompileError or panics.                              *)
(*                                                                         *)
(* Identifiers are StringIds, numbers; a scope on the checker's stack of   *)
(* scopes never gets a type and is never popped, so what is left of the    *)
(* stack is whether it is empty.                                           *)
(***************************************************************************)
EXTENDS Types

Node(kind, attr, subs) == [kind |-> kind, attr |-> attr, subs |-> subs]

Rejected == <<>>
Typed(kind, attr, subs, t) == <<[kind |-> kind, attr |-> attr, subs |-> subs, t |-> t]>>
Const(v, t) == Typed("Const", v, <<>>, t)
When(ok, result) == IF ok THEN result ELSE Rejected

IsIntConst(e) == e.kind = "Const" /\ e.attr[1] = "int"

\* An address is 160 of the 256 bits of a word.
AddressSize == 2 ^ ((WordBits * 5) \div 8)

-----------------------------------------------------------------------------
(* Operators.                                                              *)

Words == {UintT, IntT, Bytes32T}
Castable == Words \cup {EthAddressT, BoolT}
CastTo == [ToUint |-> UintT, ToInt |-> IntT, ToBytes32 |-> Bytes32T, ToAddress |-> EthAddressT]

\* 1 - b on usize, which wraps.
NotConst(v) == When(to_usize(v), Const(Num((1 - v) % UsizeSize), BoolT))

LenOf(operand, k) ==
  CASE k[1] = "tuple" -> Const(Num(Len(k[2])), UintT)
    [] k[1] = "fixed" -> Const(Num(k[3]), UintT)
    [] k[1] = "array" -> Typed("UnaryOp", "Len", <<operand>>, UintT)
    [] OTHER -> Rejected

\* Conversions of constants are not checked.
CastOp(op, operand, k) ==
  IF IsIntConst(operand) THEN
    Const(Num(IF op = "ToAddress" THEN operand.attr[2] % AddressSize ELSE operand.attr[2]), CastTo[op])
  ELSE When(k \in Castable, Typed("UnaryOp", op, <<operand>>, CastTo[op]))

UnaryOf(op, operand, k) ==
  LET Folded(constant, t) ==
        IF IsIntConst(operand) THEN constant ELSE Typed("UnaryOp", op, <<operand>>, t)
  IN CASE op = "Minus" ->
            When(k = IntT, Folded(Const(Num(unary_minus(operand.attr[2])), IntT), IntT))
       [] op = "BitwiseNeg" ->
            When(k \in Words, Folded(Const(Num(bitwise_neg(operand.attr[2])), k), k))
       [] op = "Not" -> When(k = BoolT, Folded(NotConst(operand.attr[2]), BoolT))
       [] op = "Hash" -> Folded(Const(Num(avm_hash(operand.attr)), Bytes32T), Bytes32T)
       [] op = "Len" -> LenOf(operand, k)
       [] op \in DOMAIN CastTo -> CastOp(op, operand, k)

typecheck_unary_op(op, operand, tree) ==
  Then(get_representation(operand.t, tree), LAMBDA k : UnaryOf(op, operand, k))

\* The operation with its operands exchanged, for a constant on the right.
Mirror == [Plus |-> "Plus", Times |-> "Times", Equal |-> "Equal", NotEqual |-> "NotEqual",
           BitwiseAnd |-> "BitwiseAnd", BitwiseOr |-> "BitwiseOr", BitwiseXor |-> "BitwiseXor",
           LessThan |-> "GreaterThan", GreaterThan |-> "LessThan",
           LessEq |-> "GreaterEq", GreaterEq |-> "LessEq"]

SignedOp == [Div |-> "Sdiv", Mod |-> "Smod", LessThan |-> "SLessThan",
             GreaterThan |-> "SGreaterThan", LessEq |-> "SLessEq", GreaterEq |-> "SGreaterEq"]

Arithmetic == {"Plus", "Minus", "Times"}
Division == {"Div", "Mod"}
Comparison == {"LessThan", "GreaterThan", "LessEq", "GreaterEq"}
Bitwise3 == {"BitwiseAnd", "BitwiseOr", "BitwiseXor"}
Shifts == {"ShiftLeft", "ShiftRight"}
Logical == {"_LogicalAnd", "LogicalOr"}
BufferGets == {"GetBuffer8", "GetBuffer64", "GetBuffer256"}

\* Both operands are constants: the operation is done by the compiler.  The
\* types are compared as they are, names are not resolved; a bitwise
\* operation gets the type bool.
FoldDivision(op, a, b, t) ==
  Then(CASE op = "Div" /\ t = UintT -> div(a, b)
         [] op = "Div" /\ t = IntT -> sdiv(a, b)
         [] op = "Mod" /\ t = UintT -> modulo(a, b)
         [] op = "Mod" /\ t = IntT -> smodulo(a, b),
       LAMBDA res : Const(Num(res), t))

FoldArithmetic(op, a, b, t) ==
  CASE op = "Plus" -> Const(Num(add(a, b)), t)
    [] op = "Minus" -> Then(sub(a, b), LAMBDA res : Const(Num(res), t))
    [] op = "Times" -> Const(Num(mul(a, b)), t)

FoldComparison(op, a, b, t) ==
  LET Less(x, y) == IF t = UintT THEN x < y ELSE s_less_than(x, y)
  IN Const(Bool(CASE op = "LessThan" -> Less(a, b)
                  [] op = "GreaterThan" -> Less(b, a)
                  [] op = "LessEq" -> ~Less(b, a)
                  [] op = "GreaterEq" -> ~Less(a, b)), BoolT)

FoldBits(op, a, b, t) ==
  CASE op = "Equal" -> Const(Bool(a = b), BoolT)
    [] op = "NotEqual" -> Const(Bool(a # b), BoolT)
    [] op = "BitwiseAnd" -> Const(Num(bitwise_and(a, b)), BoolT)
    [] op = "BitwiseOr" -> Const(Num(bitwise_or(a, b)), BoolT)
    [] op = "BitwiseXor" -> Const(Num(bitwise_xor(a, b)), BoolT)
    [] op = "Hash" -> When(t = Bytes32T, Const(Num(Keccak256(<<a, b>>)), BoolT))

\* The first operand is the distance.
FoldShift(op, a, b) ==
  When(to_usize(a),
       Const(Num(IF op = "ShiftLeft" THEN shift_left(b, a) ELSE shift_right(b, a)), UintT))

typecheck_binary_op_const(op, a, t1, b, t2) ==
  CASE op \in Arithmetic -> When(t1 = t2 /\ t1 \in {UintT, IntT}, FoldArithmetic(op, a, b, t1))
    [] op \in Division -> When(t1 = t2 /\ t1 \in {UintT, IntT}, FoldDivision(op, a, b, t1))
    [] op \in Comparison -> When(t1 = t2 /\ t1 \in {UintT, IntT}, FoldComparison(op, a, b, t1))
    [] op \in Bitwise3 \cup {"Equal", "NotEqual", "Hash"} -> When(t1 = t2, FoldBits(op, a, b, t1))
    [] op = "_LogicalAnd" -> When(t1 = BoolT /\ t2 = BoolT, Const(Bool(a # 0 /\ b # 0), BoolT))
    [] op = "LogicalOr" -> When(t1 = BoolT /\ t2 = BoolT, Const(Bool(a # 0 \/ b # 0), BoolT))
    [] op \in Shifts -> When(t1 = UintT /\ t2 \in Words, FoldShift(op, a, b))
    [] OTHER -> Rejected

\* The operations on two unsigned or two signed numbers: division and order
\* depend on the sign.
NumericOp(op, a, b, k1, k2) ==
  LET signed == IF k1 = IntT /\ op \in DOMAIN SignedOp THEN SignedOp[op] ELSE op
  IN When(k1 = k2 /\ k1 \in {UintT, IntT},
          Typed("Binary", signed, <<a, b>>, IF op \in Comparison THEN BoolT ELSE k1))

\* The operation on operands that are not both constants.
BinaryOf(op, a, b, k1, k2) ==
  LET Binary(t) == Typed("Binary", op, <<a, b>>, t)
  IN CASE op \in Arithmetic \cup Division \cup Comparison -> NumericOp(op, a, b, k1, k2)
       [] op \in BufferGets -> When(k1 = UintT /\ k2 = BufferT, Binary(UintT))
       [] op \in {"Equal", "NotEqual"} ->
            When(/\ k1 # VoidT /\ k2 # VoidT
                 /\ AnyT \in {k1, k2} \/ k1 = k2, Binary(BoolT))
       [] op \in Bitwise3 \cup Shifts -> When(k1 = k2 /\ k1 \in Words, Binary(k1))
       [] op \in Logical -> When(k1 = BoolT /\ k2 = BoolT, Binary(BoolT))
       [] op = "Hash" -> When(k1 = Bytes32T /\ k2 = Bytes32T, Binary(Bytes32T))
       [] OTHER -> Rejected

\* A lone constant goes to the left, to be the immediate of the instruction.
Mirrored(op, a, b) ==
  IF IsIntConst(b) /\ ~IsIntConst(a) /\ op \in DOMAIN Mirror THEN <<Mirror[op], b, a>>
  ELSE <<op, a, b>>

typecheck_binary_op(op, a, b, tree) ==
  IF IsIntConst(a) /\ IsIntConst(b) /\ op \notin BufferGets
  THEN typecheck_binary_op_const(op, a.attr[2], a.t, b.attr[2], b.t)
  ELSE Given(Mirrored(op, a, b), LAMBDA m :
         Then(get_representation(m[2].t, tree), LAMBDA k1 :
           Then(get_representation(m[3].t, tree), LAMBDA k2 : BinaryOf(m[1], m[2], m[3], k1, k2))))

typecheck_trinary_op(op, s, tree) ==
  LET reps == [i \in 1..3 |-> get_representation(s[i].t, tree)]
  IN When(reps = <<<<UintT>>, <<UintT>>, <<BufferT>>>>, Typed("Trinary", op, s, BufferT))

-----------------------------------------------------------------------------
(* Expressions: s holds the checked children of e, and env what the checker  *)
(* is passed: type_table and func_table from names to types, global_vars     *)
(* from names to <<type, index>>, return_type, type_tree, undefinable_ids    *)
(* and scopes, whether a block was opened before.                            *)

Assignable(lhs, rhs, env) == assignable(lhs, rhs, env.type_tree, {})
Rep(t, env) == get_representation(t, env.type_tree)

\* The constants, with the type of Null the checker gives it.
ConstantOf(c) ==
  CASE c[1] = "uint" -> Const(Num(c[2]), UintT)
    [] c[1] = "int" -> Const(Num(c[2]), IntT)
    [] c[1] = "bool" -> Const(Bool(c[2]), BoolT)
    [] c[1] = "none" -> Const(Tup(<<Num(0)>>), OptionT(c[2]))
    [] c[1] = "null" -> Const(none, AnyT)

OperatorExpr(e, s, env) ==
  CASE e.kind = "UnaryOp" -> typecheck_unary_op(e.attr, s[1], env.type_tree)
    [] e.kind = "Binary" -> typecheck_binary_op(e.attr, s[1], s[2], env.type_tree)
    [] e.kind = "Trinary" -> typecheck_trinary_op(e.attr, s, env.type_tree)
    [] e.kind \in {"ShortcutOr", "ShortcutAnd"} ->
         When(s[1].t = BoolT /\ s[2].t = BoolT, Typed(e.kind, e.attr, s, BoolT))

\* A function hides a local variable, which hides a global one.
VariableRef(name, env) ==
  IF name \in DOMAIN env.func_table
  THEN Typed("FuncRef", name, <<>>, env.func_table[name])
  ELSE IF name \in DOMAIN env.type_table
  THEN Typed("LocalVariableRef", name, <<>>, env.type_table[name])
  ELSE IF name \in DOMAIN env.global_vars
  THEN Typed("GlobalVariableRef", env.global_vars[name][2], <<>>, env.global_vars[name][1])
  ELSE Rejected

TupleRef(e, s) ==
  When(/\ to_usize(e.attr) /\ s[1].t[1] = "tuple"
       /\ e.attr < Len(s[1].t[2]),
       Typed("TupleRef", e.attr, s, s[1].t[2][e.attr + 1]))

\* What Found gives for the struct type behind t and the slot of its field.
SlotOfField(t, name, env, Found(_, _)) ==
  Then(Rep(t, env), LAMBDA k :
    IF k[1] # "struct" THEN Rejected
    ELSE Given(get_struct_slot_by_name(k, name), LAMBDA slots :
           IF slots = {} THEN Rejected ELSE Found(k, CHOOSE n \in slots : TRUE)))

\* The slot of a field and the number of fields are left in the node.
DotRef(e, s, env) ==
  SlotOfField(s[1].t, e.attr, env, LAMBDA k, slot :
    Typed("DotRef", <<slot, Len(k[2])>>, s, k[2][slot + 1][2]))

FunctionCall(e, s, env) ==
  LET Accepts(t, arg) == arg # <<>> /\ Assignable(t, arg[1], env)
  IN Then(Rep(s[1].t, env), LAMBDA func :
       IF func[1] # "func" \/ Len(s) - 1 # Len(func[3]) THEN Rejected
       ELSE When(\A i \in DOMAIN func[3] : Accepts(func[3][i], Rep(s[i + 1].t, env)),
                 Typed("FunctionCall", ~func[2], s, func[4])))

\* The index of an array has to be a uint by name; the key of a map has its
\* type by name.
ArrayOrMapRef(e, s, env) ==
  Then(Rep(s[1].t, env), LAMBDA k :
    CASE k[1] = "array" -> When(s[2].t = UintT, Typed("ArrayRef", <<>>, s, k[2]))
      [] k[1] = "fixed" -> When(s[2].t = UintT, Typed("FixedArrayRef", k[3], s, k[2]))
      [] k[1] = "map" -> When(s[2].t = k[2], Typed("MapRef", <<>>, s, OptionT(k[3])))
      [] OTHER -> Rejected)

\* What is put in a fixed array is not looked at.
ArrayOrMapMod(e, s, env) ==
  Then(Rep(s[1].t, env), LAMBDA k :
    CASE k[1] = "array" ->
           When(Assignable(k[2], s[3].t, env) /\ s[2].t = UintT, Typed("ArrayMod", <<>>, s, k))
      [] k[1] = "fixed" -> When(s[2].t = UintT, Typed("FixedArrayMod", k[3], s, k))
      [] k[1] = "map" ->
           When(s[2].t = k[2] /\ Assignable(k[3], s[3].t, env), Typed("MapMod", <<>>, s, k))
      [] OTHER -> Rejected)

StructMod(e, s, env) ==
  SlotOfField(s[1].t, e.attr, env, LAMBDA k, slot :
    When(Assignable(k[2][slot + 1][2], s[2].t, env), Typed("StructMod", slot, s, k)))

\* Constructors: an array does not look at the type of its size.
NewExpr(e, s, env) ==
  LET types == [i \in DOMAIN s |-> s[i].t]
  IN CASE e.kind = "OptionInitializer" -> Typed("Variant", <<>>, s, OptionT(s[1].t))
       [] e.kind = "NewArray" ->
            Then(Rep(e.attr, env), LAMBDA k : Typed("NewArray", k, s, <<"array", e.attr>>))
       [] e.kind = "NewFixedArray" ->
            Typed("NewFixedArray", e.attr, s,
                  <<"fixed", IF s = <<>> THEN AnyT ELSE s[1].t, e.attr>>)
       [] e.kind = "NewMap" -> Typed("NewMap", <<>>, s, <<"map", e.attr[1], e.attr[2]>>)
       [] e.kind = "NewUnion" ->
            When(\E i \in DOMAIN e.attr : Assignable(e.attr[i], s[1].t, env),
                 Typed("Cast", <<>>, s, <<"union", e.attr>>))
       [] e.kind = "StructInitializer" ->
            Typed(e.kind, e.attr, s, <<"struct", [i \in DOMAIN s |-> <<e.attr[i], s[i].t>>]>>)
       [] e.kind = "Tuple" -> Typed(e.kind, <<>>, s, TupleT(types))

UnsafeCast(e, s) == Typed("Cast", <<>>, s, e.attr)

UnionCast(e, s, env) ==
  Then(Rep(s[1].t, env), LAMBDA k :
    When(k[1] = "union" /\ \E i \in DOMAIN k[2] : k[2][i] = e.attr, Typed("Cast", <<>>, s, e.attr)))

\* Assembly has a value.
AsmExpr(e, s) == When(e.attr[1] # VoidT, Typed("Asm", e.attr[2], s, e.attr[1]))

SetGasExpr(s) == When(s[1].t = UintT, Typed("SetGas", <<>>, s, VoidT))

\* The return type of the function is not resolved.
TryExpr(s, env) ==
  Then(Rep(s[1].t, env), LAMBDA k :
    When(env.return_type[1] \in {"option", "any"} /\ k[1] = "option", Typed("Try", <<>>, s, k[2])))

\* Mutant: the type of the first branch is the type of both.
BranchType_first(block_type, else_type, env) == <<block_type>>

\* The type of two branches, one of which must accept the other.
BranchType(block_type, else_type, env) ==
  IF Assignable(block_type, else_type, env) THEN <<block_type>>
  ELSE IF Assignable(else_type, block_type, env) THEN <<else_type>>
  ELSE <<>>

IfExpr(e, s, env) ==
  Then(BranchType(s[2].t, IF Len(s) = 3 THEN s[3].t ELSE VoidT, env), LAMBDA t :
    When(e.kind = "IfLet" \/ s[1].t = BoolT, Typed(e.kind, e.attr, s, t)))

-----------------------------------------------------------------------------
(* Statements.  A pattern is <<"bind", name>>, <<"assign", name>> or          *)
(* <<"tuple", patterns>>; a checked one has its type at the end.             *)

\* A checked pattern as a result; the variables assigned are not looked up.
typecheck_patvec(t, pats) ==
  When(/\ t[1] = "tuple" /\ Len(t[2]) = Len(pats)
       /\ \A i \in DOMAIN pats : t[2][i] # VoidT /\ pats[i][1] # "tuple",
       <<<<"tuple", [i \in DOMAIN pats |-> <<pats[i][1], pats[i][2], t[2][i]>>], t>>>>)

collect_identifiers(pat) ==
  IF pat[1] = "tuple" THEN {pat[2][i][2] : i \in DOMAIN pat[2]} ELSE {pat[2]}

\* The names a checked statement binds, as a function to their types.
Bindings(stat) ==
  IF stat.kind # "Let" THEN <<>>
  ELSE LET pats == IF stat.attr[1] = "bind" THEN <<stat.attr>> ELSE stat.attr[2]
           Final(name) == CHOOSE i \in DOMAIN pats :
                            /\ pats[i][1] = "bind" /\ pats[i][2] = name
                            /\ \A j \in DOMAIN pats :
                                 pats[j][1] = "bind" /\ pats[j][2] = name => j <= i
       IN [name \in {pats[i][2] : i \in {j \in DOMAIN pats : pats[j][1] = "bind"}} |->
             pats[Final(name)][3]]

LetStat(e, s, env) ==
  LET t == s[1].t
      pat == CASE e.attr[1] = "bind" -> <<<<"bind", e.attr[2], t>>>>
               [] e.attr[1] = "tuple" -> typecheck_patvec(t, e.attr[2])
               [] OTHER -> Rejected
  IN When(/\ t # VoidT /\ pat # Rejected
          /\ collect_identifiers(e.attr) \cap env.undefinable_ids = {},
          Typed("Let", pat[1], s, VoidT))

AssignStat(e, s, env) ==
  IF e.attr \in DOMAIN env.type_table
  THEN When(Assignable(env.type_table[e.attr], s[1].t, env),
            Typed("AssignLocal", e.attr, s, VoidT))
  ELSE IF e.attr \in DOMAIN env.global_vars
  THEN When(Assignable(env.global_vars[e.attr][1], s[1].t, env),
            Typed("AssignGlobal", env.global_vars[e.attr][2], s, VoidT))
  ELSE Rejected

ReturnStat(e, s, env) ==
  When(Assignable(env.return_type, s[1].t, env), Typed("Return", <<>>, s, VoidT))

AssertStat(e, s, env) ==
  LET t == s[1].t
  IN When(t[1] = "tuple" /\ Len(t[2]) = 2 /\ t[2][1] = BoolT, Typed("Assert", <<>>, s, VoidT))

-----------------------------------------------------------------------------
(* The traversal.                                                          *)

\* Whether a block is opened in the node.
RECURSIVE Opens(_)
Opens(e) == e.kind = "CodeBlock" \/ \E i \in DOMAIN e.subs : Opens(e.subs[i])

RECURSIVE typecheck_expr(_, _)

\* The nodes in order: a name bound by one is known to the ones after it.
RECURSIVE typecheck_statement_sequence(_, _)
typecheck_statement_sequence(nodes, env) ==
  IF nodes = <<>> THEN <<<<>>>>
  ELSE Then(typecheck_expr(nodes[1], env), LAMBDA first :
         Then(typecheck_statement_sequence(Tail(nodes),
                [env EXCEPT !.type_table = Bindings(first) @@ @, !.scopes = @ \/ Opens(nodes[1])]),
              LAMBDA rest : <<<<first>> \o rest>>))

typecheck_codeblock(e, env) ==
  Then(typecheck_statement_sequence(e.subs, [env EXCEPT !.scopes = TRUE]), LAMBDA s :
    Typed("CodeBlock", [ret |-> e.attr, scope |-> "_"], s, IF e.attr THEN Last(s).t ELSE VoidT))

\* The name of an `if let` is bound in the first of its blocks.
IfLetExpr(e, env) ==
  LET Inner(t) == [env EXCEPT !.type_table = (e.attr :> t) @@ @, !.scopes = TRUE]
  IN Then(typecheck_expr(e.subs[1], env), LAMBDA r :
       IF r.t[1] # "option" THEN Rejected
       ELSE Then(typecheck_expr(e.subs[2], Inner(r.t[2])), LAMBDA block :
              Then(typecheck_statement_sequence(SubSeq(e.subs, 3, Len(e.subs)),
                                                [env EXCEPT !.scopes = TRUE]),
                   LAMBDA else : IfExpr(e, <<r, block>> \o else, env))))

\* A break leaves the block opened last, in whose scope it may no longer be.
BreakStat(e, s, env) ==
  When(env.scopes \/ \E i \in DOMAIN e.subs : Opens(e.subs[i]), Typed("Break", "_", s, VoidT))

WhileStat(s) == When(s[1].t = BoolT, Typed("While", <<>>, s, VoidT))

\* The last step for a statement whose children are checked.
StatementOf(e, s, env) ==
  CASE e.kind \in {"Noop", "Expression", "AsmStat", "DebugPrint"} ->
         Typed(e.kind, e.attr, s, VoidT)
    [] e.kind = "ReturnVoid" ->
         When(Assignable(VoidT, env.return_type, env), Typed(e.kind, <<>>, s, VoidT))
    [] e.kind = "Return" -> ReturnStat(e, s, env)
    [] e.kind = "Break" -> BreakStat(e, s, env)
    [] e.kind = "Let" -> LetStat(e, s, env)
    [] e.kind = "Assign" -> AssignStat(e, s, env)
    [] e.kind = "While" -> WhileStat(s)
    [] e.kind = "Assert" -> AssertStat(e, s, env)

Statements == {"Noop", "Expression", "AsmStat", "DebugPrint", "ReturnVoid", "Return", "Break",
               "Let", "Assign", "While", "Assert"}

\* The last step for an expression whose children are checked.
ExpressionOf(e, s, env) ==
  CASE e.kind = "NewBuffer" -> Typed(e.kind, <<>>, s, BufferT)
    [] e.kind \in {"Error", "Loop"} -> Typed(e.kind, <<>>, s, EveryT)
    [] e.kind = "GetGas" -> Typed(e.kind, <<>>, s, UintT)
    [] e.kind = "SetGas" -> SetGasExpr(s)
    [] e.kind \in {"UnaryOp", "Binary", "Trinary", "ShortcutOr", "ShortcutAnd"} ->
         OperatorExpr(e, s, env)
    [] e.kind = "VariableRef" -> VariableRef(e.attr, env)
    [] e.kind = "TupleRef" -> TupleRef(e, s)
    [] e.kind = "DotRef" -> DotRef(e, s, env)
    [] e.kind = "Constant" -> ConstantOf(e.attr)
    [] e.kind = "FunctionCall" -> FunctionCall(e, s, env)
    [] e.kind = "ArrayOrMapRef" -> ArrayOrMapRef(e, s, env)
    [] e.kind = "ArrayOrMapMod" -> ArrayOrMapMod(e, s, env)
    [] e.kind = "StructMod" -> StructMod(e, s, env)
    [] e.kind = "UnsafeCast" -> UnsafeCast(e, s)
    [] e.kind = "UnionCast" -> UnionCast(e, s, env)
    [] e.kind = "Asm" -> AsmExpr(e, s)
    [] e.kind = "Try" -> TryExpr(s, env)
    [] e.kind = "If" -> IfExpr(e, s, env)
    [] OTHER -> NewExpr(e, s, env)

\* A statement keeps its inlining attribute.
Attributed(e, result) ==
  IF result = Rejected \/ "inline" \notin DOMAIN e THEN result
  ELSE <<result[1] @@ [inline |-> e.inline]>>

\* Statements and expressions.
typecheck_expr(e, env) ==
  CASE e.kind = "CodeBlock" -> typecheck_codeblock(e, env)
    [] e.kind = "IfLet" -> IfLetExpr(e, env)
    [] OTHER -> Then(typecheck_statement_sequence(e.subs, env), LAMBDA s :
                  IF e.kind \in Statements THEN Attributed(e, StatementOf(e, s, env))
                  ELSE ExpressionOf(e, s, env))

-----------------------------------------------------------------------------
(* Functions: [name, args (of <<name, type>>), ret_type, code, tipe, public]. *)

\* The function checked against the names no one may define, or Rejected.
typecheck_function(fd, env) ==
  LET args == [n \in {fd.args[i][1] : i \in DOMAIN fd.args} |->
                 fd.args[CHOOSE i \in DOMAIN fd.args :
                           fd.args[i][1] = n /\ \A j \in DOMAIN fd.args : fd.args[j][1] = n => j <= i][2]]
      Returns == fd.code # <<>> /\ Last(fd.code).kind = "Return"
      ids == env.undefinable_ids \cup {fd.name}
  IN IF \/ fd.ret_type # VoidT /\ ~Returns
        \/ fd.name \in env.undefinable_ids
        \/ \E i \in DOMAIN fd.args : Rep(fd.args[i][2], env) = <<>> \/ fd.args[i][1] \in ids
     THEN Rejected
     ELSE Then(typecheck_statement_sequence(fd.code,
                 [env EXCEPT !.return_type = fd.ret_type, !.type_table = args @@ @,
                             !.undefinable_ids = ids, !.scopes = FALSE]),
               LAMBDA code : <<[fd EXCEPT !.code = code]>>)

\* The functions of a module in the order of their names, or Rejected.
RECURSIVE CheckedFuncs(_, _)
CheckedFuncs(funcs, env) ==
  IF funcs = <<>> THEN <<<<>>>>
  ELSE Then(typecheck_function(funcs[1], env), LAMBDA f :
         Then(CheckedFuncs(Tail(funcs), [env EXCEPT !.undefinable_ids = @ \cup {funcs[1].name}]),
              LAMBDA rest : <<<<f>> \o rest>>))

=============================================================================
