------------------------------- MODULE Types --------------------------------
(***************************************************************************)
(* The types of Mini (Type in src/src/compile/ast.rs).  A type is a tuple  *)
(* that starts with the name of its kind:                                  *)
(*   <<"uint">>, <<"tuple", types>>, <<"array", type>>,                    *)
(*   <<"fixed", type, size>>, <<"struct", <<<<name, type>>, ...>>>>,       *)
(*   <<"nominal", id>>, <<"func", is_impure, args, ret>>,                  *)
(*   <<"map", key, value>>, <<"option", type>>, <<"union", types>>.        *)
(* A type tree is a function from the ids of nominal types to types in     *)
(* which no chain of names comes back to its start.                        *)
(***************************************************************************)
EXTENDS Link

VoidT == <<"void">>
UintT == <<"uint">>
IntT == <<"int">>
BoolT == <<"bool">>
Bytes32T == <<"bytes32">>
EthAddressT == <<"address">>
BufferT == <<"buffer">>
AnyT == <<"any">>
EveryT == <<"every">>
Scalars == {VoidT, UintT, IntT, BoolT, Bytes32T, EthAddressT, BufferT, EveryT}
Structural == {"tuple", "union", "array", "option", "fixed", "struct"}
TupleT(types) == <<"tuple", types>>
OptionT(t) == <<"option", t>>

\* The type behind a chain of names, none when a name is not in the tree.
RECURSIVE get_representation(_, _)
get_representation(t, tree) ==
  IF t[1] # "nominal" THEN <<t>>
  ELSE IF t[2] \notin DOMAIN tree THEN <<>>
  ELSE get_representation(tree[t[2]], tree)

\* The slots a name may stand for: the first field of that name, from zero.
get_struct_slot_by_name(t, name) ==
  {i - 1 : i \in {j \in DOMAIN t[2] : /\ t[2][j][1] = name
                                      /\ \A k \in 1..(j - 1) : t[2][k][1] # name}}

RECURSIVE assignable(_, _, _, _)

\* Mutant: the types that have no counterpart are not compared.
type_vectors_assignable_zip(tvec1, tvec2, tree, seen) ==
  \A i \in DOMAIN tvec1 \cap DOMAIN tvec2 : assignable(tvec1[i], tvec2[i], tree, seen)

type_vectors_assignable(tvec1, tvec2, tree, seen) ==
  /\ Len(tvec1) = Len(tvec2)
  /\ \A i \in DOMAIN tvec1 : assignable(tvec1[i], tvec2[i], tree, seen)

field_vectors_assignable(tvec1, tvec2, tree, seen) ==
  /\ Len(tvec1) = Len(tvec2)
  /\ \A i \in DOMAIN tvec1 : /\ assignable(tvec1[i][2], tvec2[i][2], tree, seen)
                             /\ tvec1[i][1] = tvec2[i][1]

\* The types whose parts are compared with those of what the right side names.
AssignableRep(lhs, rep, tree, seen) ==
  /\ rep # <<>>
  /\ rep[1][1] = lhs[1]
  /\ CASE lhs[1] \in {"tuple", "union"} -> type_vectors_assignable(lhs[2], rep[1][2], tree, seen)
       [] lhs[1] \in {"array", "option"} -> assignable(lhs[2], rep[1][2], tree, seen)
       [] lhs[1] = "fixed" -> lhs[3] = rep[1][3] /\ assignable(lhs[2], rep[1][2], tree, seen)
       [] lhs[1] = "struct" -> field_vectors_assignable(lhs[2], rep[1][2], tree, seen)

\* A pair of representations that is being compared is not compared again.
AssignableNames(left, rep, tree, seen) ==
  /\ left # <<>> /\ rep # <<>>
  /\ \/ <<left[1], rep[1]>> \in seen
     \/ assignable(left[1], rep[1], tree, seen \cup {<<left[1], rep[1]>>})

\* Whether a value of type rhs may stand where one of type lhs is expected.
\* Functions and maps do not see through the names of the right side.
assignable(lhs, rhs, tree, seen) ==
  IF rhs = EveryT THEN TRUE
  ELSE CASE lhs = AnyT -> rhs # VoidT
         [] lhs \in Scalars -> lhs = rhs
         [] lhs[1] \in Structural -> AssignableRep(lhs, get_representation(rhs, tree), tree, seen)
         [] lhs[1] = "nominal" ->
              AssignableNames(get_representation(lhs, tree), get_representation(rhs, tree), tree, seen)
         [] lhs[1] = "func" ->
              /\ rhs[1] = "func" /\ (lhs[2] \/ ~rhs[2])
              /\ type_vectors_assignable(rhs[3], lhs[3], tree, seen)
              /\ assignable(lhs[4], rhs[4], tree, seen)
         [] lhs[1] = "map" ->
              /\ rhs[1] = "map" /\ assignable(lhs[2], rhs[2], tree, seen)
              /\ Given(get_representation(rhs[3], tree),
                       LAMBDA value : value # <<>> /\ assignable(lhs[3], value[1], tree, seen))

RECURSIVE first_mismatch(_, _, _, _)

\* The first path that is not empty.
FirstOf(paths) ==
  LET found == SelectSeq(paths, LAMBDA p : p # <<>>)
  IN IF found = <<>> THEN <<>> ELSE Head(found)

Within(what, inner) == IF inner = <<>> THEN <<>> ELSE <<what>> \o inner

vectors_mismatch(what, tvec1, tvec2, tree, seen) ==
  FirstOf([i \in 1..(IF Len(tvec1) < Len(tvec2) THEN Len(tvec1) ELSE Len(tvec2)) |->
             Within(what, first_mismatch(tvec1[i], tvec2[i], tree, seen))]
          \o <<IF Len(tvec1) = Len(tvec2) THEN <<>> ELSE <<"length">>>>)

\* The type of a field is looked at before its name.
field_vectors_mismatch(tvec1, tvec2, tree, seen) ==
  FirstOf([i \in 1..(IF Len(tvec1) < Len(tvec2) THEN Len(tvec1) ELSE Len(tvec2)) |->
             FirstOf(<<Within("field", first_mismatch(tvec1[i][2], tvec2[i][2], tree, seen)),
                       IF tvec1[i][1] = tvec2[i][1] THEN <<>> ELSE <<"name">>>>)]
          \o <<IF Len(tvec1) = Len(tvec2) THEN <<>> ELSE <<"length">>>>)

\* The path to the first place where the types differ; empty for None.  The
\* arguments of functions are compared in the direction of the result.
first_mismatch(lhs, rhs, tree, seen) ==
  LET rep == get_representation(rhs, tree)
      Represents(kind) == rep # <<>> /\ rep[1][1] = kind
      Inner(what, l, r) == Within(what, first_mismatch(l, r, tree, seen))
      Here == <<"type">>
      Check(ok, what) == IF ok THEN <<>> ELSE <<what>>
  IN IF rhs = EveryT THEN <<>>
     ELSE IF lhs[1] \in Structural /\ ~Represents(lhs[1]) THEN Here
     ELSE CASE lhs = AnyT -> Check(rhs # VoidT, "type")
       [] lhs \in Scalars -> Check(lhs = rhs, "type")
       [] lhs[1] \in {"tuple", "union"} ->
            vectors_mismatch(lhs[1], lhs[2], rep[1][2], tree, seen)
       [] lhs[1] \in {"array", "option"} -> Inner(lhs[1], lhs[2], rep[1][2])
       [] lhs[1] = "fixed" ->
            FirstOf(<<Inner("array", lhs[2], rep[1][2]), Check(lhs[3] = rep[1][3], "length")>>)
       [] lhs[1] = "struct" -> field_vectors_mismatch(lhs[2], rep[1][2], tree, seen)
       [] lhs[1] = "nominal" ->
            LET left == get_representation(lhs, tree)
            IN IF left = <<>> \/ rep = <<>> THEN <<"unresolved">>
               ELSE IF <<lhs, rhs>> \in seen THEN <<>>
               ELSE first_mismatch(left[1], rep[1], tree, seen \cup {<<lhs, rhs>>})
       [] lhs[1] = "func" ->
            IF rhs[1] # "func" THEN Here
            ELSE FirstOf(<<vectors_mismatch("arg", lhs[3], rhs[3], tree, seen),
                           Inner("return", lhs[4], rhs[4]),
                           Check(lhs[2] \/ ~rhs[2], "purity")>>)
       [] lhs[1] = "map" ->
            IF rhs[1] # "map" \/ get_representation(rhs[3], tree) = <<>> THEN Here
            ELSE FirstOf(<<Inner("key", lhs[2], rhs[2]),
                           Inner("value", lhs[3], get_representation(rhs[3], tree)[1])>>)

-----------------------------------------------------------------------------
(* Default values: <<value, whether it is safe to use>>.  Names are not      *)
(* resolved.                                                                *)

RECURSIVE Nested(_, _, _)
Nested(val, chunk_size, size) ==
  IF chunk_size * TUPLE_SIZE >= size THEN val
  ELSE Nested(Tup([i \in 1..TUPLE_SIZE |-> val]), chunk_size * TUPLE_SIZE, size)

RECURSIVE default_value(_)

\* All the slots of the tree are there, whatever the size.
FixedDefault(t, size) ==
  <<Nested(Tup([i \in 1..TUPLE_SIZE |-> default_value(t)[1]]), 1, size), default_value(t)[2]>>

default_value(t) ==
  LET Values(types) == [i \in DOMAIN types |-> default_value(types[i])[1]]
      Safe(types) == \A i \in DOMAIN types : default_value(types[i])[2]
      Fields == [i \in DOMAIN t[2] |-> t[2][i][2]]
  IN CASE t[1] \in {"uint", "int", "bytes32", "address", "bool"} -> <<Num(0), TRUE>>
       [] t[1] = "buffer" -> <<Buf(Buffer_new_empty), TRUE>>
       [] t[1] = "any" -> <<none, TRUE>>
       [] t[1] = "option" -> <<Tup(<<Num(0)>>), TRUE>>
       [] t[1] = "tuple" -> <<Tup(Values(t[2])), Safe(t[2])>>
       [] t[1] = "array" ->
            <<Tup(<<Num(1), Num(1), Tup(<<default_value(t[2])[1]>>)>>), default_value(t[2])[2]>>
       [] t[1] = "fixed" -> FixedDefault(t[2], t[3])
       [] t[1] = "struct" -> <<value_from_field_list(Values(Fields)), Safe(Fields)>>
       [] OTHER -> <<none, FALSE>>

=============================================================================
