----------------------------- MODULE Semantics ------------------------------
(***************************************************************************)
(* What a Mini program means (src/doc/MiniLanguageTutorial.md): an         *)
(* interpreter of the tree the parser makes, on values that carry their    *)
(* kind.  It shares nothing with the type checker, the code generator, the *)
(* linker and the machine but the arithmetic on words.                     *)
(*                                                                         *)
(*   value    <<"uint", w>> <<"int", w>> <<"bytes32", w>> <<"address", w>> *)
(*            <<"bool", b>> <<"tuple", vs>> <<"struct", names, vs>>        *)
(*            <<"option", vs>> <<"fixed", vs>> <<"array", vs>>             *)
(*            <<"func", path, name>> <<"unit">>                            *)
(*   outcome  [tag, v, s]: ok, or return, break, panic for an abrupt end,  *)
(*            or stuck where an operation does not apply to its operands   *)
(*   state    [store, globals]: the locals by place, the globals by file   *)
(*            and name                                                     *)
(*                                                                         *)
(* env gives the places of the locals in scope; cx the files and the path  *)
(* of the one the code is in.  Operands are evaluated from the last to the *)
(* first.                                                                  *)
(***************************************************************************)
EXTENDS Compile

Done(tag, v, s) == [tag |-> tag, v |-> v, s |-> s]
Unit == <<"unit">>
Numeric == {"uint", "int", "bytes32", "address"}

\* The value as the machine has it.
RECURSIVE Erase(_)
Erase(v) ==
  LET Each(vs) == [i \in DOMAIN vs |-> Erase(vs[i])]
  IN CASE v[1] \in Numeric -> Num(v[2])
       [] v[1] = "bool" -> Bool(v[2])
       [] v[1] = "tuple" -> make_value(TupleTree_new(Len(v[2]), FALSE), Each(v[2]))
       [] v[1] = "struct" -> make_value(TupleTree_new(Len(v[3]), FALSE), Each(v[3]))
       [] v[1] = "option" -> Tup(<<Num(Len(v[2]))>> \o Each(v[2]))
       [] OTHER -> none

-----------------------------------------------------------------------------
(* Operators, as <<value>>, <<>> for a panic, or NotFor.                   *)

NotFor == <<"not", "for">>

Conversion == [ToUint |-> "uint", ToInt |-> "int", ToBytes32 |-> "bytes32", ToAddress |-> "address"]
WordOf(v) == IF v[1] = "bool" THEN Bool(v[2])[2] ELSE v[2]

UnaryValue(op, v) ==
  CASE op = "Minus" /\ v[1] = "int" -> <<<<"int", unary_minus(v[2])>>>>
    [] op = "BitwiseNeg" /\ v[1] \in Numeric \ {"address"} -> <<<<v[1], max_uint - v[2]>>>>
    [] op = "Not" /\ v[1] = "bool" -> <<<<"bool", ~v[2]>>>>
    [] op = "Hash" -> <<<<"bytes32", avm_hash(Erase(v))>>>>
    [] op = "Len" /\ v[1] \in {"tuple", "fixed", "array"} -> <<<<"uint", Len(v[2])>>>>
    [] op \in DOMAIN Conversion /\ v[1] \in Numeric \cup {"bool"} ->
         <<<<Conversion[op], IF op = "ToAddress" THEN WordOf(v) % AddressSize ELSE WordOf(v)>>>>
    [] OTHER -> NotFor

Divide(op, k, a, b) ==
  LET q == CASE op = "Div" /\ k = "uint" -> div(a, b)
             [] op = "Div" /\ k = "int" -> sdiv(a, b)
             [] op = "Mod" /\ k = "uint" -> modulo(a, b)
             [] op = "Mod" /\ k = "int" -> smodulo(a, b)
  IN IF b = 0 THEN <<>> ELSE <<<<k, q[1]>>>>

Calculate(op, a, b) ==
  CASE op = "Plus" -> add(a, b)
    [] op = "Minus" -> unchecked_sub(a, b)
    [] op = "Times" -> mul(a, b)
    [] op = "BitwiseAnd" -> bitwise_and(a, b)
    [] op = "BitwiseOr" -> bitwise_or(a, b)
    [] op = "BitwiseXor" -> bitwise_xor(a, b)

\* Numbers of the same kind are compared as what they stand for.
Compare(op, k, a, b) ==
  LET x == IF k = "int" THEN to_signed(a) ELSE a
      y == IF k = "int" THEN to_signed(b) ELSE b
  IN CASE op = "LessThan" -> x < y
       [] op = "GreaterThan" -> x > y
       [] op = "LessEq" -> x <= y
       [] op = "GreaterEq" -> x >= y

BinaryValue(op, v, w) ==
  LET k == v[1]
      same == k = w[1]
  IN CASE op \in Arithmetic /\ same /\ k \in {"uint", "int"} -> <<<<k, Calculate(op, v[2], w[2])>>>>
       [] op \in Bitwise3 /\ same /\ k \in Numeric \ {"address"} ->
            <<<<k, Calculate(op, v[2], w[2])>>>>
       [] op \in Division /\ same /\ k \in {"uint", "int"} -> Divide(op, k, v[2], w[2])
       [] op \in Comparison /\ same /\ k \in {"uint", "int"} ->
            <<<<"bool", Compare(op, k, v[2], w[2])>>>>
       [] op = "Equal" /\ same -> <<<<"bool", Erase(v) = Erase(w)>>>>
       [] op = "NotEqual" /\ same -> <<<<"bool", Erase(v) # Erase(w)>>>>
       [] op \in Shifts /\ same /\ k = "uint" ->
            <<<<k, IF op = "ShiftLeft" THEN shift_left(w[2], v[2]) ELSE shift_right(w[2], v[2])>>>>
       [] OTHER -> NotFor

-----------------------------------------------------------------------------
(* Names.                                                                  *)

\* The file and the name there of a function, as a set of at most one: its
\* own, or what it imports, which the file named may import itself.
RECURSIVE FunctionNamed(_, _)
FunctionNamed(name, cx) ==
  LET file == cx.files[cx.path]
      From1(use) == UNION {FunctionNamed(n, [cx EXCEPT !.path = use.path]) :
                             n \in get_if_exists(cx.files[use.path].strings, use.name)}
  IN IF \E f \in DOMAIN file.funcs : file.funcs[f].name = name THEN {<<cx.path, name>>}
     ELSE UNION {From1(file.uses[u]) : u \in {x \in DOMAIN file.uses : file.uses[x].id = <<name>>}}

FunctionAt(f, cx) ==
  LET funcs == cx.files[f[2]].funcs
  IN funcs[CHOOSE i \in DOMAIN funcs : funcs[i].name = f[3]]

\* The variable of the name gets the value.
Assigned(name, v, env, s, cx) ==
  IF name \in DOMAIN env THEN [s EXCEPT !.store[env[name]] = v]
  ELSE [s EXCEPT !.globals = (<<cx.path, name>> :> v) @@ @]

\* The values bound or assigned by the patterns, from the first to the last.
Matched(pats, vs, env, s, cx) ==
  LET Next(acc, i) ==
        IF pats[i][1] = "assign" THEN [acc EXCEPT !.s = Assigned(pats[i][2], vs[i], env, @, cx)]
        ELSE [s |-> [acc.s EXCEPT !.store = Append(@, vs[i])],
              env |-> (pats[i][2] :> Len(acc.s.store) + 1) @@ acc.env]
  IN FoldHalves(Next, [s |-> s, env |-> env], [i \in DOMAIN pats |-> i])

-----------------------------------------------------------------------------
(* Evaluation.                                                             *)

RECURSIVE Eval(_, _, _, _), Exec(_, _, _, _)

\* What follows an outcome that is no abrupt end.
IfOk(outcome, next(_)) == IF outcome.tag = "ok" THEN next(outcome) ELSE outcome

\* The values of the expressions, evaluated from the last to the first.
EvalAll(es, env, s, cx) ==
  FoldHalves(LAMBDA acc, e :
               IF acc.tag # "ok" THEN acc
               ELSE IfOk(Eval(e, env, acc.s, cx), LAMBDA r : Done("ok", <<r.v>> \o acc.v, r.s)),
             Done("ok", <<>>, s), Reverse(es))

Result(value, s) ==
  IF value = NotFor THEN Done("stuck", Unit, s)
  ELSE IF value = <<>> THEN Done("panic", Unit, s)
  ELSE Done("ok", value[1], s)

\* The body in the file of the function, on the arguments.
Call(f, vs, s, cx) ==
  LET func == FunctionAt(f, cx)
      Enter(in) == Exec(func.code, in.env, in.s, [cx EXCEPT !.path = f[2]])
      Leave(r) == IF r.tag = "return" THEN Done("ok", r.v, r.s)
                  ELSE IF r.tag = "ok" THEN Done("ok", Unit, r.s)
                  ELSE IF r.tag = "panic" THEN r ELSE Done("stuck", Unit, r.s)
  IN IF f[1] # "func" THEN Done("stuck", Unit, s)
     ELSE IF Len(func.args) # Len(vs) THEN Done("stuck", Unit, s)
     ELSE Leave(Enter(Matched([i \in DOMAIN vs |-> <<"bind", func.args[i][1]>>], vs, <<>>, s, cx)))

\* A block, as far as a break leads; its value is in the scope of its names.
Block(e, env, s, cx) ==
  LET Value(r) == IF r.tag = "ok" /\ e.attr THEN Eval(Last(e.subs), r.env, r.s, cx)
                  ELSE Done(r.tag, r.v, r.s)
      Leave(v) == IF v.tag = "break" THEN [v EXCEPT !.tag = "ok"] ELSE v
  IN Leave(Value(Exec(IF e.attr THEN Front(e.subs) ELSE e.subs, env, s, cx)))

\* The value of a name: a function, a local or a global.
Named(name, env, s, cx) ==
  Given(FunctionNamed(name, cx), LAMBDA f :
    IF f # {} THEN Result(<<<<"func">> \o CHOOSE g \in f : TRUE>>, s)
    ELSE IF name \in DOMAIN env THEN Result(<<s.store[env[name]]>>, s)
    ELSE Result(IF <<cx.path, name>> \in DOMAIN s.globals THEN <<s.globals[<<cx.path, name>>]>>
                ELSE NotFor, s))

FieldIndex(names, name) ==
  IF \E i \in DOMAIN names : names[i] = name
  THEN CHOOSE i \in DOMAIN names : names[i] = name ELSE 0

\* What a new array of a type of numbers or truth values holds.
Default(t) == IF t = BoolT THEN <<"bool", FALSE>> ELSE <<t[1], 0>>

\* The expression on the values of its operands.
Apply(e, vs, s, cx) ==
  LET k == vs[1][1]
      Indexed == k \in {"fixed", "array"} /\ vs[2][1] = "uint"
  IN CASE e.kind = "UnaryOp" -> Result(UnaryValue(e.attr, vs[1]), s)
       [] e.kind = "Binary" -> Result(BinaryValue(e.attr, vs[1], vs[2]), s)
       [] e.kind = "FunctionCall" -> Call(vs[1], Tail(vs), s, cx)
       [] e.kind = "OptionInitializer" -> Result(<<<<"option", vs>>>>, s)
       [] e.kind \in {"NewUnion", "UnionCast"} -> Result(<<vs[1]>>, s)
       [] e.kind = "Tuple" -> Result(<<<<"tuple", vs>>>>, s)
       [] e.kind = "TupleRef" ->
            Result(IF k = "tuple" /\ e.attr + 1 \in DOMAIN vs[1][2]
                   THEN <<vs[1][2][e.attr + 1]>> ELSE NotFor, s)
       [] e.kind = "StructInitializer" -> Result(<<<<"struct", e.attr, vs>>>>, s)
       [] e.kind = "DotRef" ->
            Result(IF k = "struct" /\ FieldIndex(vs[1][2], e.attr) # 0
                   THEN <<vs[1][3][FieldIndex(vs[1][2], e.attr)]>> ELSE NotFor, s)
       [] e.kind = "StructMod" ->
            Result(IF k = "struct" /\ FieldIndex(vs[1][2], e.attr) # 0
                   THEN <<[vs[1] EXCEPT ![3][FieldIndex(vs[1][2], e.attr)] = vs[2]]>>
                   ELSE NotFor, s)
       [] e.kind = "NewFixedArray" -> Result(<<<<"fixed", [i \in 1..e.attr |-> vs[1]]>>>>, s)
       [] e.kind = "NewArray" ->
            Result(IF k = "uint" THEN <<<<"array", [i \in 1..vs[1][2] |-> Default(e.attr)]>>>>
                   ELSE NotFor, s)
       [] e.kind = "ArrayOrMapRef" ->
            Result(IF ~Indexed THEN NotFor
                   ELSE IF vs[2][2] < Len(vs[1][2]) THEN <<vs[1][2][vs[2][2] + 1]>> ELSE <<>>, s)
       [] e.kind = "ArrayOrMapMod" ->
            Result(IF ~Indexed THEN NotFor
                   ELSE IF vs[2][2] < Len(vs[1][2])
                   THEN <<[vs[1] EXCEPT ![2][vs[2][2] + 1] = vs[3]]>> ELSE <<>>, s)
       [] e.kind = "Try" ->
            IF k # "option" THEN Result(NotFor, s)
            ELSE IF vs[1][2] = <<>> THEN Done("return", vs[1], s) ELSE Result(vs[1][2], s)

ConstantValue(c) == IF c[1] = "none" THEN <<"option", <<>>>> ELSE c

\* A branch: without the other one there is nothing to do.
Otherwise(e, env, s, cx) ==
  IF Len(e.subs) = 3 THEN Block(e.subs[3], env, s, cx) ELSE Done("ok", Unit, s)

\* The expression on the value of its first operand.
Choice(e, env, first, cx) ==
  CASE e.kind \in {"ShortcutOr", "ShortcutAnd"} ->
         IF first.v[1] # "bool" \/ first.v[2] = (e.kind = "ShortcutOr") THEN first
         ELSE Eval(e.subs[2], env, first.s, cx)
    [] e.kind = "If" ->
         IF first.v[1] # "bool" THEN Result(NotFor, first.s)
         ELSE IF first.v[2] THEN Block(e.subs[2], env, first.s, cx)
         ELSE Otherwise(e, env, first.s, cx)
    [] e.kind = "IfLet" ->
         IF first.v[1] # "option" THEN Result(NotFor, first.s)
         ELSE IF first.v[2] = <<>> THEN Otherwise(e, env, first.s, cx)
         ELSE Given(Matched(<<<<"bind", e.attr>>>>, first.v[2], env, first.s, cx),
                    LAMBDA m : Block(e.subs[2], m.env, m.s, cx))

Eval(e, env, s, cx) ==
  CASE e.kind = "Constant" -> Done("ok", ConstantValue(e.attr), s)
    [] e.kind = "VariableRef" -> Named(e.attr, env, s, cx)
    [] e.kind = "Error" -> Done("panic", Unit, s)
    [] e.kind = "CodeBlock" -> Block(e, env, s, cx)
    [] e.kind \in {"ShortcutOr", "ShortcutAnd", "If", "IfLet"} ->
         IfOk(Eval(e.subs[1], env, s, cx), LAMBDA first : Choice(e, env, first, cx))
    [] e.kind = "Loop" ->
         Given(Exec(e.subs, env, s, cx), LAMBDA body :
           IF body.tag = "ok" THEN Eval(e, env, body.s, cx)
           ELSE Done(IF body.tag = "break" THEN "ok" ELSE body.tag, body.v, body.s))
    [] OTHER -> IfOk(EvalAll(e.subs, env, s, cx), LAMBDA all : Apply(e, all.v, all.s, cx))

\* A statement: an outcome with the names in scope after it.
RECURSIVE Statement(_, _, _, _)
Statement(st, env, s, cx) ==
  LET After(o) == o @@ [env |-> env]
      Let(pats, vs, r) ==
        IF Len(vs) # Len(pats) THEN After(Done("stuck", Unit, r.s))
        ELSE Given(Matched(pats, vs, env, r.s, cx),
                   LAMBDA m : Done("ok", Unit, m.s) @@ [env |-> m.env])
      On(r) ==
        CASE st.kind \in {"Noop", "Expression", "DebugPrint"} -> After(Done("ok", Unit, r.s))
          [] st.kind \in {"Return", "ReturnVoid"} -> After(Done("return", r.v, r.s))
          [] st.kind = "Break" -> After(Done("break", r.v, r.s))
          [] st.kind = "Assign" -> After(Done("ok", Unit, Assigned(st.attr, r.v, env, r.s, cx)))
          [] st.kind = "Let" ->
               IF st.attr[1] # "tuple" THEN Let(<<st.attr>>, <<r.v>>, r)
               ELSE Let(st.attr[2], IF r.v[1] = "tuple" THEN r.v[2] ELSE <<>>, r)
          [] st.kind = "While" ->
               IF r.v[1] # "bool" THEN After(Done("stuck", Unit, r.s))
               ELSE IF ~r.v[2] THEN After(r)
               ELSE IfOk(Exec(Tail(st.subs), env, r.s, cx),
                         LAMBDA body : Statement(st, env, body.s, cx))
      Outcome(r) == IF r.tag = "ok" THEN On(r) ELSE After(r)
  IN Outcome(IF st.subs = <<>> THEN Done("ok", Unit, s) ELSE Eval(st.subs[1], env, s, cx))

Exec(stats, env, s, cx) ==
  IF stats = <<>> THEN Done("ok", Unit, s) @@ [env |-> env]
  ELSE IfOk(Statement(stats[1], env, s, cx),
            LAMBDA first : Exec(Tail(stats), first.env, first.s, cx))

\* What the main function of the file gives.
Meaning(files, main) ==
  LET name == CHOOSE n \in {files[main].funcs[i].name : i \in DOMAIN files[main].funcs} :
                \A i \in DOMAIN files[main].funcs : n <= files[main].funcs[i].name
  IN Call(<<"func", main, name>>, <<>>, [store |-> <<>>, globals |-> <<>>],
          [files |-> files, path |-> main])

=============================================================================
