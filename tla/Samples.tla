------------------------------ MODULE Samples -------------------------------
(***************************************************************************)
(* Mini sources for the runs of Compiler: every operator on every kind of  *)
(* operand, the forms of control flow, calls, files and data of the        *)
(* language, and sources with a type error.  A name is its place in Names, *)
(* the string table of every file; 0 is main.                              *)
(***************************************************************************)
EXTENDS Typecheck

Names == <<"main", "f", "g", "h", "x", "y", "z", "k", "l", "n", "p", "q", "r">>
F == 1
G == 2
H == 3
X == 4
Y == 5
Z == 6
K == 7
L == 8
N == 9
P == 10

-----------------------------------------------------------------------------
(* Trees. *)

U(n) == Node("Constant", <<"uint", n>>, <<>>)
I(n) == Node("Constant", <<"int", n>>, <<>>)
T == Node("Constant", <<"bool", TRUE>>, <<>>)
NoneOf(t) == Node("Constant", <<"none", t>>, <<>>)
V(x) == Node("VariableRef", x, <<>>)
Un(op, a) == Node("UnaryOp", op, <<a>>)
Bin(op, a, b) == Node("Binary", op, <<a, b>>)
Add(a, b) == Bin("Plus", a, b)
Neg(n) == Un("Minus", I(n))
Apply1(f, args) == Node("FunctionCall", <<>>, <<V(f)>> \o args)
Some(a) == Node("OptionInitializer", <<>>, <<a>>)
Question(a) == Node("Try", <<>>, <<a>>)
Tuple(es) == Node("Tuple", <<>>, es)
BlockOf(stats, value) == Node("CodeBlock", TRUE, Append(stats, value))
Void(stats) == Node("CodeBlock", FALSE, stats)
If(c, a, b) == Node("If", <<>>, <<c, a, b>>)
Let(x, e) == Node("Let", <<"bind", x>>, <<e>>)
LetTuple(pats, e) == Node("Let", <<"tuple", pats>>, <<e>>)
Set(x, e) == Node("Assign", x, <<e>>)
Ret(e) == Node("Return", <<>>, <<e>>)
Do(e) == Node("Expression", <<>>, <<e>>)
When1(c, stats) == Do(Node("If", <<>>, <<c, Void(stats)>>))
While(c, stats) == Node("While", <<>>, <<c>> \o stats)

Func(name, args, ret, impure, inline, code) ==
  [name |-> name, args |-> args, ret_type |-> ret, code |-> code, public |-> name # 0,
   inline |-> inline,
   tipe |-> <<"func", impure, [i \in DOMAIN args |-> args[i][2]], ret>>]
Pure(name, args, ret, code) == Func(name, args, ret, FALSE, "Auto", code)
Effect(name, args, ret, code) == Func(name, args, ret, TRUE, "Auto", code)

Use(path, name) == [path |-> path, name |-> Names[name + 1], id |-> <<name>>]
Var(name, t) == [name |-> Names[name + 1], name_id |-> name, tipe |-> t]
File(path, rank, uses, vars, types, funcs) ==
  [path |-> path, name |-> rank, strings |-> Names, uses |-> uses, vars |-> vars,
   types |-> types, funcs |-> funcs]
From(files) ==
  [files |-> [path \in {files[i].path : i \in DOMAIN files} |->
                files[CHOOSE i \in DOMAIN files : files[i].path = path]],
   main |-> files[1].path, builtins |-> FALSE]
Program(vars, types, funcs) == From(<<File(<<"main">>, 1, <<>>, vars, types, funcs)>>)
MainOf(ret, code) == Program(<<>>, <<>>, <<Pure(0, <<>>, ret, code)>>)

-----------------------------------------------------------------------------
(* Every operator on constants, on variables and on one of each. *)

BinaryOps == <<"Plus", "Minus", "Times", "Div", "Mod", "LessThan", "GreaterThan", "LessEq",
               "GreaterEq", "Equal", "NotEqual", "BitwiseAnd", "BitwiseXor">>
TypeOfOp(op, t) == IF op \in Comparison \cup {"Equal", "NotEqual"} THEN BoolT ELSE t
UintValues == <<U(0), U(2), U(max_uint - 1)>>
IntValues == <<I(0), I(2), Neg(2)>>

OperatorProgram(op, a, b, t, form) ==
  MainOf(TypeOfOp(op, t),
         <<Let(X, a), Let(Y, b),
           Ret(Bin(op, IF form[1] THEN V(X) ELSE a, IF form[2] THEN V(Y) ELSE b))>>)
Forms == <<<<FALSE, FALSE>>, <<FALSE, TRUE>>, <<TRUE, FALSE>>, <<TRUE, TRUE>>>>

Digit(n, size, place) == (((n - 1) \div place) % size) + 1
OperatorPrograms ==
  [n \in 1..(13 * 4 * 2 * 9) |->
     LET vals == IF Digit(n, 2, 52) = 1 THEN UintValues ELSE IntValues
     IN OperatorProgram(BinaryOps[Digit(n, 13, 1)], vals[Digit(n, 3, 104)],
                        vals[Digit(n, 3, 312)], IF Digit(n, 2, 52) = 1 THEN UintT ELSE IntT,
                        Forms[Digit(n, 4, 13)])]

-----------------------------------------------------------------------------
(* Control flow in one function. *)

Less(a, b) == Bin("LessThan", a, b)
Uints(n) == [i \in 1..n |-> UintT]
OptionUint == OptionT(UintT)

\* A loop, with a block in it that has a name of its own.
Summing ==
  MainOf(UintT,
    <<Let(X, U(0)), Let(Y, U(3)),
      While(Bin("GreaterThan", V(Y), U(0)),
            <<Let(Z, Add(V(X), V(Y))), Set(X, BlockOf(<<Let(N, V(Z))>>, V(N))),
              Set(Y, Bin("Minus", V(Y), U(1)))>>),
      Ret(V(X))>>)

\* A loop in a loop, each with the label of its top in a slot.
Nested2 ==
  MainOf(UintT,
    <<Let(X, U(0)), Let(Y, U(0)),
      While(Less(V(Y), U(2)),
            <<Let(Z, U(0)),
              While(Less(V(Z), U(2)), <<Set(X, Add(V(X), U(1))), Set(Z, Add(V(Z), U(1)))>>),
              Set(Y, Add(V(Y), U(1)))>>),
      Ret(V(X))>>)

\* A name bound again hides the first one until the end of its block.
Shadowed(c) ==
  MainOf(UintT,
    <<Let(X, U(1)), Let(Y, c),
      Let(Z, If(V(Y), BlockOf(<<Let(X, U(5))>>, V(X)), BlockOf(<<Set(X, U(7))>>, V(X)))),
      Let(X, Add(V(X), V(Z))), Ret(V(X))>>)

\* A return under values that are on the stack.
EarlyReturn(c) ==
  MainOf(UintT,
    <<Let(Y, c),
      Let(X, Add(U(1), Add(If(V(Y), BlockOf(<<Ret(U(9))>>, U(1)), BlockOf(<<>>, U(2))), U(3)))),
      Ret(Add(V(X), V(X)))>>)

\* A question mark under values that are on the stack.
Questioned(option) ==
  MainOf(OptionUint,
    <<Let(X, option), Let(Y, U(2)),
      Let(Z, Tuple(<<V(Y), Add(V(Y), Question(V(X)))>>)),
      Ret(Some(Node("TupleRef", 1, <<V(Z)>>)))>>)

\* An option taken apart, with a value and without one.
Taken(option) ==
  MainOf(UintT,
    <<Let(X, option),
      Let(Z, Node("IfLet", Y, <<V(X), BlockOf(<<Let(N, U(1))>>, Add(V(Y), V(N))),
                                BlockOf(<<>>, U(8))>>)),
      Do(Node("IfLet", N, <<V(X), Void(<<Set(Z, Add(V(Z), V(N)))>>)>>)),
      Ret(V(Z))>>)

\* Blocks left from inside, and a loop without a condition.
Left(c) ==
  MainOf(UintT,
    <<Let(Y, c), Let(X, U(0)),
      Let(Z, BlockOf(<<Do(If(V(Y), BlockOf(<<Node("Break", <<>>, <<U(4)>>)>>, U(3)),
                             BlockOf(<<>>, U(2))))>>, U(6))),
      Do(Node("Loop", <<>>, <<Set(X, Add(V(X), U(1))),
                              Set(Y, Less(V(X), U(3))),
                              Do(If(V(Y), BlockOf(<<>>, U(0)),
                                    BlockOf(<<Ret(Add(V(X), V(Z)))>>, U(0))))>>)),
      Ret(U(0))>>)

\* The second operand is not evaluated, or it panics.
Shortcut(kind, c) ==
  MainOf(BoolT, <<Let(Y, c), Ret(Node(kind, <<>>, <<V(Y), BlockOf(<<Do(Node("Error", <<>>, <<>>))>>, T)>>))>>)

Truth(b) == Node("Constant", <<"bool", b>>, <<>>)
ControlPrograms ==
  <<Summing, Nested2, Shadowed(T), Shadowed(Truth(FALSE)), EarlyReturn(T),
    EarlyReturn(Truth(FALSE)), Questioned(Some(U(5))), Questioned(NoneOf(UintT)),
    Taken(Some(U(5))), Taken(NoneOf(UintT)), Left(T), Left(Truth(FALSE)),
    Shortcut("ShortcutOr", T), Shortcut("ShortcutOr", Truth(FALSE)),
    Shortcut("ShortcutAnd", T), Shortcut("ShortcutAnd", Truth(FALSE))>>

-----------------------------------------------------------------------------
(* Data. *)

\* Operators of one operand, on a variable and on a constant.
UnaryProgram(op, a, t, folded) ==
  MainOf(t, <<Let(X, a), Ret(Un(op, IF folded THEN a ELSE V(X)))>>)
UnaryPrograms ==
  <<UnaryProgram("Not", T, BoolT, TRUE), UnaryProgram("Not", T, BoolT, FALSE),
    UnaryProgram("BitwiseNeg", U(5), UintT, TRUE), UnaryProgram("BitwiseNeg", U(5), UintT, FALSE),
    UnaryProgram("ToAddress", U(max_uint), EthAddressT, TRUE),
    UnaryProgram("ToAddress", U(max_uint), EthAddressT, FALSE),
    UnaryProgram("ToInt", U(max_uint), IntT, FALSE), UnaryProgram("Minus", I(5), IntT, TRUE),
    UnaryProgram("Hash", U(5), Bytes32T, TRUE), UnaryProgram("Hash", U(5), Bytes32T, FALSE),
    UnaryProgram("Hash", Tuple(<<U(1), U(2)>>), Bytes32T, FALSE),
    UnaryProgram("Len", Tuple(<<U(1), U(2)>>), UintT, FALSE)>>

\* A struct of n fields with one of them replaced.
StructType(n) == <<"struct", [i \in 1..n |-> <<i, UintT>>]>>
StructOf(n) == Node("StructInitializer", [i \in 1..n |-> i], [i \in 1..n |-> U(i + 2)])
Replaced(n, i) ==
  MainOf(TupleT(<<StructType(n), UintT>>),
    <<Let(X, StructOf(n)), Let(Y, Node("StructMod", i, <<V(X), U(1)>>)),
      Ret(Tuple(<<V(Y), Node("DotRef", i, <<V(X)>>)>>))>>)
StructPrograms ==
  LET b == TUPLE_SIZE
  IN <<Replaced(1, 1), Replaced(2, 2), Replaced(b, 1), Replaced(b + 1, 2), Replaced(b + 1, b + 1),
       Replaced(b + 2, 1), Replaced(b * b, b + 1), Replaced(b * b + 1, 3),
       Replaced(b * b + 1, b * b + 1)>>

\* An array of n with the i-th element replaced, read at j.
FixedOf(n, i, j) ==
  MainOf(UintT,
    <<Let(X, Node("NewFixedArray", n, <<U(1)>>)), Let(Y, U(i)), Let(Z, U(j)),
      Let(X, Node("ArrayOrMapMod", <<>>, <<V(X), V(Y), U(9)>>)),
      Ret(Add(Node("ArrayOrMapRef", <<>>, <<V(X), V(Z)>>), U(0)))>>)
FixedPrograms ==
  LET b == TUPLE_SIZE
      n == b * b + 1
  IN <<FixedOf(b, 2, 2), FixedOf(b, 1, 2), FixedOf(b, b, 0), FixedOf(b, 0, b), FixedOf(2, 1, 1),
       FixedOf(2, 1, 2), FixedOf(b * b, b + 2, b + 2), FixedOf(b * b, b + 2, 2 * b),
       FixedOf(b * b, b, 1), FixedOf(n, n - 1, n - 1), FixedOf(n, n, 0), FixedOf(n, 0, n)>>

\* A tuple taken apart: a new name, and one that is assigned.
Swapped ==
  MainOf(UintT,
    <<Let(X, U(1)), Let(Y, U(5)),
      LetTuple(<<<<"assign", X>>, <<"bind", Z>>>>, Tuple(<<V(Y), V(X)>>)),
      Ret(Bin("Minus", V(X), V(Z)))>>)

Shifted(op) == MainOf(UintT, <<Let(X, U(2)), Let(Y, U(13)), Ret(Bin(op, V(X), V(Y)))>>)

\* A value put into a union and taken out, and printed on the way.
United(v, t) ==
  MainOf(t, <<Let(X, Node("NewUnion", <<UintT, BoolT>>, <<v>>)),
              Node("DebugPrint", <<>>, <<V(X)>>), Ret(Node("UnionCast", t, <<V(X)>>))>>)

DataPrograms ==
  UnaryPrograms \o StructPrograms \o FixedPrograms
    \o <<United(U(5), UintT), United(T, BoolT), United(I(5), UintT), Swapped, Shifted("ShiftLeft"), Shifted("ShiftRight")>>

-----------------------------------------------------------------------------
(* Functions. *)

Args(names) == [i \in DOMAIN names |-> <<names[i], UintT>>]
Minus(a, b) == Bin("Minus", a, b)
Main1(ret, body) == Pure(0, <<>>, ret, body)

\* The arguments keep their order, with the names of the caller exchanged.
Ordered ==
  Program(<<>>, <<>>,
    <<Main1(UintT, <<Let(X, U(2)), Let(Y, U(7)), Let(Z, Apply1(F, <<V(Y), V(X)>>)),
                     Ret(Add(V(Z), V(X)))>>),
      Pure(F, Args(<<X, Y>>), UintT, <<Let(Z, Minus(V(X), V(Y))), Ret(V(Z))>>)>>)

\* Recursion, direct and through another function.
Recursive ==
  Program(<<>>, <<>>,
    <<Main1(UintT, <<Ret(Apply1(F, <<U(3)>>))>>),
      Pure(F, Args(<<X>>), UintT,
           <<When1(Bin("Equal", V(X), U(0)), <<Ret(U(1))>>),
             Ret(Add(V(X), Apply1(F, <<Minus(V(X), U(1))>>)))>>)>>)
Mutual ==
  Program(<<>>, <<>>,
    <<Main1(UintT, <<Ret(Apply1(F, <<U(3)>>))>>),
      Pure(F, Args(<<X>>), UintT,
           <<When1(Bin("Equal", V(X), U(0)), <<Ret(U(5))>>),
             Ret(Apply1(G, <<Minus(V(X), U(1))>>))>>),
      Pure(G, Args(<<Y>>), UintT,
           <<When1(Bin("Equal", V(Y), U(0)), <<Ret(U(6))>>),
             Ret(Apply1(F, <<Minus(V(Y), U(1))>>))>>)>>)

\* A function as a value.
Passed ==
  Program(<<>>, <<>>,
    <<Main1(UintT, <<Let(X, V(F)), Ret(Apply1(X, <<U(4), U(1)>>))>>),
      Pure(F, Args(<<Y, Z>>), UintT, <<Ret(Minus(V(Y), V(Z)))>>)>>)

\* An inlined function with an early return, called with a value on the stack
\* and from a function that is inlined itself.
Inlined(mode, n) ==
  Program(<<>>, <<>>,
    <<Main1(UintT, <<Let(X, U(n)), Ret(Add(U(1), Apply1(G, <<V(X), U(2)>>)))>>),
      Func(F, Args(<<X>>), UintT, FALSE, mode,
           <<When1(Less(V(X), U(3)), <<Ret(U(8))>>), Let(Y, Add(V(X), V(X))), Ret(V(Y))>>),
      Func(G, Args(<<Y, X>>), UintT, FALSE, mode,
           <<Let(Z, Apply1(F, <<V(Y)>>)), Ret(Minus(Apply1(F, <<V(Z)>>), V(X)))>>)>>)

\* An inlined function whose question mark meets None, or Some.
InlinedTry(option) ==
  Program(<<>>, <<>>,
    <<Main1(UintT, <<Let(X, option),
                     Let(Z, Node("IfLet", Y, <<Apply1(F, <<V(X)>>), BlockOf(<<>>, V(Y)),
                                               BlockOf(<<>>, U(7))>>)),
                     Ret(V(Z))>>),
      Func(F, <<<<X, OptionUint>>>>, OptionUint, FALSE, "Always",
           <<Let(Y, Question(V(X))), Ret(Some(Add(V(Y), U(1))))>>)>>)

\* Functions that change a global; the attribute of a statement asks for the
\* call in it to stay.
Counting(mode, kept) ==
  LET bump == IF kept THEN [inline |-> "Never"] @@ Do(Apply1(F, <<U(2)>>)) ELSE Do(Apply1(F, <<U(2)>>))
  IN Program(<<Var(K, UintT), Var(L, UintT)>>, <<>>,
       <<Effect(0, <<>>, UintT,
                <<Set(K, U(1)), Set(L, U(20)), bump, bump, Ret(Minus(V(L), V(K)))>>),
         Func(F, Args(<<X>>), VoidT, TRUE, mode, <<Set(K, Add(V(K), V(X)))>>)>>)

\* A function without a value, left early or not.
Stopping(mode, n) ==
  Program(<<Var(K, UintT)>>, <<>>,
    <<Effect(0, <<>>, UintT, <<Set(K, U(1)), Do(Apply1(F, <<U(n)>>)), Ret(V(K))>>),
      Func(F, Args(<<X>>), VoidT, TRUE, mode,
           <<When1(Less(V(X), U(3)), <<Node("ReturnVoid", <<>>, <<>>)>>), Set(K, V(X))>>)>>)

FunctionPrograms ==
  <<Stopping("Never", 1), Stopping("Never", 4), Stopping("Always", 1), Stopping("Always", 4),
    Ordered, Recursive, Mutual, Passed, Inlined("Always", 1), Inlined("Always", 4),
    Inlined("Auto", 1), Inlined("Auto", 5), Inlined("Never", 4), InlinedTry(Some(U(3))),
    InlinedTry(NoneOf(UintT)), Counting("Always", FALSE), Counting("Auto", TRUE)>>

-----------------------------------------------------------------------------
(* Files. *)

MainFile(uses, globals, types, funcs) == File(<<"main">>, 1, uses, globals, types, funcs)

\* Files that import each other, each with globals of its own.
Importing ==
  From(<<MainFile(<<Use(<<"a">>, F)>>, <<Var(K, UintT), Var(X, UintT)>>, <<>>,
           <<Effect(0, <<>>, UintT,
                    <<Set(K, U(3)), Set(X, U(4)), Let(Y, Apply1(F, <<V(K)>>)),
                      Ret(Add(V(Y), V(X)))>>),
             Pure(G, Args(<<X>>), UintT, <<Ret(Add(V(X), V(X)))>>)>>),
         File(<<"a">>, 2, <<Use(<<"main">>, G), Use(<<"b">>, H)>>, <<Var(L, UintT)>>, <<>>,
           <<Effect(F, Args(<<Y>>), UintT,
                    <<Set(L, Apply1(G, <<V(Y)>>)), Do(Apply1(H, <<V(L)>>)),
                      Ret(V(L))>>)>>),
         File(<<"b">>, 3, <<>>, <<Var(N, UintT), Var(Z, UintT)>>, <<>>,
           <<Effect(H, Args(<<X>>), VoidT, <<Set(N, V(X)), Set(Z, U(5))>>),
             Pure(F, <<>>, UintT, <<Ret(U(0))>>)>>)>>)

\* A type of another file, and a function of a library no one calls.
Typed1 ==
  From(<<MainFile(<<Use(<<"std", "a">>, P), Use(<<"std", "a">>, F)>>, <<>>, <<>>,
           <<Main1(UintT, <<Let(X, Apply1(F, <<U(6)>>)),
                            Let(X, Node("StructMod", Y, <<V(X), U(2)>>)),
                            Ret(Minus(Node("DotRef", X, <<V(X)>>), Node("DotRef", Y, <<V(X)>>)))>>),
             Pure(G, <<>>, UintT, <<Ret(Node("DotRef", Y, <<Apply1(F, <<U(0)>>)>>))>>)>>),
         File(<<"std", "a">>, 2, <<>>, <<>>, (P :> <<"struct", <<<<X, UintT>>, <<Y, UintT>>>>>>),
           <<Pure(F, Args(<<X>>), <<"nominal", <<<<"std", "a">>, P>>>>,
                  <<Ret(Node("StructInitializer", <<X, Y>>, <<V(X), U(1)>>))>>),
             Pure(H, <<>>, UintT, <<Ret(U(0))>>)>>)>>)

\* A file that is not there, and a name that is not there.
Missing == From(<<MainFile(<<Use(<<"a">>, F)>>, <<>>, <<>>, <<Main1(UintT, <<Ret(U(0))>>)>>)>>)
Unnamed ==
  From(<<MainFile(<<Use(<<"a">>, F)>>, <<>>, <<>>, <<Main1(UintT, <<Ret(U(4))>>)>>),
         File(<<"a">>, 2, <<>>, <<>>, <<>>, <<>>)>>)

\* A file that imports a function, calls it and is imported for it: whether the
\* main file finds it depends on the order in which the imports are resolved.
Reexported ==
  From(<<MainFile(<<Use(<<"a">>, F), Use(<<"a">>, G)>>, <<>>, <<>>,
           <<Main1(UintT, <<Ret(Minus(Apply1(F, <<U(3)>>), Apply1(G, <<>>)))>>)>>),
         File(<<"a">>, 2, <<Use(<<"b">>, F)>>, <<>>, <<>>,
           <<Pure(G, <<>>, UintT, <<Ret(Apply1(F, <<U(1)>>))>>)>>),
         File(<<"b">>, 3, <<>>, <<>>, <<>>,
           <<Pure(F, Args(<<X>>), UintT, <<Ret(Add(V(X), U(5)))>>)>>)>>)

FilePrograms == <<Importing, Typed1, Missing, Unnamed, Reexported>>

-----------------------------------------------------------------------------
(* Arrays, and the library that implements them (src/builtin/array.mini),    *)
(* with nodes of TUPLE_SIZE elements.                                        *)

ArrayNames == <<"arraySet2", "builtin_arrayNew", "builtin_arrayGet", "builtin_arraySet", "arr",
                "index", "value", "size", "topstep", "contents", "chunk", "res", "block", "array">>
Id(name) == (CHOOSE i \in DOMAIN ArrayNames : ArrayNames[i] = name) - 1
BlockT == <<"nominal", <<<<"core", "array">>, Id("block")>>>>
ArrayT == <<"nominal", <<<<"core", "array">>, Id("array")>>>>

Var1(name) == V(Id(name))
Step1(op, a, b) == Bin(op, Var1(a), Var1(b))
Field1(e, name) == Node("DotRef", Id(name), <<e>>)
At1(e, i) == Node("ArrayOrMapRef", <<>>, <<e, i>>)
AsBlock(e) == Node("UnsafeCast", BlockT, <<e>>)
Block1(e) == Node("NewFixedArray", TUPLE_SIZE, <<e>>)
InRange == When1(Bin("GreaterEq", Var1("index"), Field1(Var1("arr"), "size")),
                 <<Do(Node("Error", <<>>, <<>>))>>)

arrayNew ==
  Pure(Id("builtin_arrayNew"), <<<<Id("size"), UintT>>, <<Id("value"), AnyT>>>>, ArrayT,
    <<Let(Id("chunk"), U(1)),
      While(Less(Bin("Times", U(TUPLE_SIZE), Var1("chunk")), Var1("size")),
            <<Set(Id("chunk"), Bin("Times", U(TUPLE_SIZE), Var1("chunk"))),
              Set(Id("value"), Block1(Var1("value")))>>),
      Ret(Node("StructInitializer", <<Id("size"), Id("topstep"), Id("contents")>>,
               <<Var1("size"), Var1("chunk"), AsBlock(Block1(Var1("value")))>>))>>)

arrayGet ==
  Pure(Id("builtin_arrayGet"), <<<<Id("arr"), ArrayT>>, <<Id("index"), UintT>>>>, AnyT,
    <<InRange, Let(Id("res"), Field1(Var1("arr"), "contents")),
      Let(Id("chunk"), Field1(Var1("arr"), "topstep")),
      While(Bin("LessEq", U(1), Var1("chunk")),
            <<Set(Id("res"), AsBlock(At1(Var1("res"), Step1("Div", "index", "chunk")))),
              Set(Id("index"), Step1("Mod", "index", "chunk")),
              Set(Id("chunk"), Bin("Div", Var1("chunk"), U(TUPLE_SIZE)))>>),
      Ret(Var1("res"))>>)

arraySet ==
  Pure(Id("builtin_arraySet"),
       <<<<Id("arr"), ArrayT>>, <<Id("index"), UintT>>, <<Id("value"), AnyT>>>>, ArrayT,
    <<InRange,
      Ret(Node("StructMod", Id("contents"),
               <<Var1("arr"), Apply1(Id("arraySet2"),
                   <<Field1(Var1("arr"), "contents"), Field1(Var1("arr"), "topstep"),
                     Var1("index"), Var1("value")>>)>>))>>)

arraySet2 ==
  LET Mod(i, v) == Node("ArrayOrMapMod", <<>>, <<Var1("block"), i, v>>)
      top == Step1("Div", "index", "chunk")
  IN Pure(Id("arraySet2"), <<<<Id("block"), BlockT>>, <<Id("chunk"), UintT>>,
                             <<Id("index"), UintT>>, <<Id("value"), AnyT>>>>, BlockT,
       <<Ret(If(Bin("Equal", U(1), Var1("chunk")),
                BlockOf(<<>>, Mod(Var1("index"), Var1("value"))),
                BlockOf(<<>>, Mod(top, Apply1(Id("arraySet2"),
                  <<AsBlock(At1(Var1("block"), top)), Bin("Div", Var1("chunk"), U(TUPLE_SIZE)),
                    Step1("Mod", "index", "chunk"), Var1("value")>>)))))>>)

CoreArray ==
  [path |-> <<"core", "array">>, name |-> 8, strings |-> ArrayNames, uses |-> <<>>,
   vars |-> <<>>, funcs |-> <<arraySet2, arrayNew, arrayGet, arraySet>>,
   types |-> (Id("block") :> <<"fixed", AnyT, TUPLE_SIZE>>) @@
             (Id("array") :> <<"struct", <<<<Id("size"), UintT>>, <<Id("topstep"), UintT>>,
                                           <<Id("contents"), BlockT>>>>>>)]
CoreKvs == File(<<"core", "kvs">>, 9, <<>>, <<>>, <<>>, <<>>)

\* An array of n with the i-th element replaced, read at j, and its length.
ArrayOf(n, i, j) ==
  [From(<<MainFile(<<>>, <<>>, <<>>,
            <<Main1(UintT,
                <<Let(X, Node("NewArray", UintT, <<U(n)>>)), Let(Y, U(i)),
                  Let(X, Node("ArrayOrMapMod", <<>>, <<V(X), V(Y), U(9)>>)),
                  Ret(Add(At1(V(X), U(j)), Un("Len", V(X))))>>)>>), CoreArray, CoreKvs>>)
     EXCEPT !.builtins = TRUE]
ArrayPrograms ==
  LET b == TUPLE_SIZE
      n == b * b + 1
  IN <<ArrayOf(1, 0, 0), ArrayOf(b, b - 1, b - 1), ArrayOf(b + 1, b, b), ArrayOf(b + 1, 1, b),
       ArrayOf(b * b, b + 1, b + 1), ArrayOf(n, n - 1, n - 1), ArrayOf(n, b, b - 1),
       ArrayOf(2, 2, 0), ArrayOf(b + 1, 0, b + 1)>>

-----------------------------------------------------------------------------
(* Programs with a type error that would be met when they run, and programs   *)
(* with a function that is not as pure as it says.                            *)

B(b) == Node("Constant", <<"bool", b>>, <<>>)
Zero == <<>>
WrongIn(stats) == MainOf(UintT, stats)
Callee(args, ret, body) == Pure(F, args, ret, body)
Calling(callee, e) == Program(<<>>, <<>>, <<Main1(UintT, <<Let(X, e), Ret(Add(V(X), U(1)))>>), callee>>)

WrongOperands ==
  <<WrongIn(<<Ret(Add(U(1), B(TRUE)))>>), WrongIn(<<Let(X, U(1)), Ret(Add(V(X), I(1)))>>),
    WrongIn(<<Let(X, U(1)), Let(Y, Bin("LessThan", V(X), I(1))), Ret(V(X))>>),
    WrongIn(<<Ret(Add(V(X), U(1)))>>), WrongIn(<<Ret(If(U(1), BlockOf(<<>>, U(1)), BlockOf(<<>>, U(2))))>>),
    WrongIn(<<Let(X, U(1)), Set(X, B(TRUE)), Ret(Add(V(X), U(1)))>>),
    WrongIn(<<Let(X, If(B(FALSE), BlockOf(<<>>, U(1)), BlockOf(<<>>, B(TRUE)))), Ret(Add(V(X), U(1)))>>),
    WrongIn(<<While(U(1), <<>>), Ret(U(1))>>),
    WrongIn(<<Let(X, Bin("LogicalAnd", U(1), B(TRUE))), Ret(U(1))>>),
    WrongIn(<<Let(X, B(TRUE)), Do(If(V(X), BlockOf(<<Let(Y, U(1))>>, U(1)), BlockOf(<<>>, U(1)))),
              Ret(V(Y))>>)>>
WrongData ==
  <<WrongIn(<<LetTuple(<<<<"bind", X>>, <<"bind", Y>>, <<"bind", Z>>>>, Tuple(<<U(1), U(2)>>)), Ret(V(Z))>>),
    WrongIn(<<Ret(Node("TupleRef", 2, <<Tuple(<<U(1), U(2)>>)>>))>>),
    WrongIn(<<Ret(Node("DotRef", Z, <<Node("StructInitializer", <<X>>, <<U(1)>>)>>))>>),
    WrongIn(<<Let(X, Node("StructMod", Y, <<Node("StructInitializer", <<Y>>, <<U(1)>>), B(TRUE)>>)),
              Ret(Add(Node("DotRef", Y, <<V(X)>>), U(1)))>>),
    WrongIn(<<Let(X, Node("NewFixedArray", 2, <<U(1)>>)), Ret(At1(V(X), I(1)))>>),
    WrongIn(<<Ret(At1(U(1), U(1)))>>),
    [ArrayOf(2, 1, 1) EXCEPT !.files[<<"main">>].funcs[1].code[3].subs[1].subs[3] = B(TRUE)],
    WrongIn(<<Let(X, Node("IfLet", Y, <<U(3), BlockOf(<<>>, V(Y)), BlockOf(<<>>, U(7))>>)), Ret(V(X))>>)>>
WrongCalls ==
  <<Calling(Callee(Args(<<X>>), UintT, <<Ret(Add(V(X), V(X)))>>), Apply1(F, <<B(TRUE)>>)),
    Calling(Callee(Args(<<X, Y>>), UintT, <<Ret(Add(V(X), V(Y)))>>), Apply1(F, <<U(1)>>)),
    Calling(Callee(Args(<<X>>), UintT, <<Ret(V(X))>>), Apply1(F, <<U(1), U(2)>>)),
    Calling(Callee(Zero, UintT, <<Ret(B(TRUE))>>), Apply1(F, <<>>)),
    Calling(Callee(Zero, UintT, <<Ret(Question(NoneOf(UintT)))>>), Apply1(F, <<>>)),
    Calling(Callee(Zero, UintT, <<Ret(U(1))>>), Apply1(G, <<>>)),
    WrongIn(<<Let(X, U(1)), Ret(Apply1(X, <<>>))>>),
    From(<<MainFile(<<Use(<<"a">>, F)>>, <<>>, <<>>, <<Main1(UintT, <<Ret(Apply1(F, <<B(TRUE)>>))>>)>>),
           File(<<"a">>, 2, <<>>, <<>>, <<>>, <<Pure(F, Args(<<X>>), UintT, <<Ret(Add(V(X), V(X)))>>)>>)>>)>>

\* A function that calls one with an effect, named or as an argument.
Sneaky(effect, mine, body) ==
  Program(<<Var(K, UintT)>>, <<>>,
    <<Func(0, <<>>, UintT, mine, "Auto", body),
      Func(F, <<>>, UintT, effect, "Auto", <<Set(K, U(3)), Ret(U(2))>>),
      Pure(G, Args(<<X>>), UintT, <<Ret(V(X))>>)>>)
\* A global assigned by a tuple pattern, and one that is not.
Unpacked ==
  Program(<<Var(K, UintT), Var(L, UintT)>>, <<>>,
    <<Main1(UintT, <<LetTuple(<<<<"assign", K>>, <<"bind", X>>>>, Tuple(<<U(3), U(4)>>)), Ret(V(X))>>)>>)
PurityPrograms ==
  <<Sneaky(TRUE, TRUE, <<Ret(Apply1(F, <<>>))>>), Sneaky(TRUE, FALSE, <<Ret(Apply1(F, <<>>))>>),
    Sneaky(FALSE, FALSE, <<Ret(Apply1(F, <<>>))>>),
    Sneaky(TRUE, FALSE, <<Ret(Apply1(G, <<Apply1(F, <<>>)>>))>>),
    Sneaky(TRUE, FALSE, <<Let(X, V(F)), Ret(Apply1(X, <<>>))>>), Unpacked>>

=============================================================================
