-------------------------------- MODULE Flow --------------------------------
(***************************************************************************)
(* What is done to the checked tree before code is generated               *)
(* (src/src/compile/typecheck.rs): purity, the functions a function names, *)
(* and the inlining of calls.                                              *)
(*                                                                         *)
(* A statement with an inlining attribute has the field inline; a function *)
(* always has it.                                                          *)
(***************************************************************************)
EXTENDS Typecheck

Blocks == {"If", "IfLet"}

\* The children of a node other than a break: the blocks of a conditional are
\* not nodes, what is in them is.
ChildrenOf(node) ==
  IF node.kind \in Blocks
  THEN <<node.subs[1]>> \o Flatten([i \in 1..(Len(node.subs) - 1) |-> node.subs[i + 1].subs])
  ELSE node.subs

\* A break gives the children of its value and not the value.
child_nodes(node) ==
  IF node.kind # "Break" THEN ChildrenOf(node)
  ELSE IF node.subs = <<>> THEN <<>> ELSE ChildrenOf(node.subs[1])

\* The node with another node for every child.
EachChildOf(node, New(_)) ==
  LET News(nodes) == [i \in DOMAIN nodes |-> New(nodes[i])]
  IN [node EXCEPT !.subs =
        IF node.kind \notin Blocks THEN News(@)
        ELSE [i \in DOMAIN @ |-> IF i = 1 THEN New(@[1]) ELSE [@[i] EXCEPT !.subs = News(@)]]]
EachChild(node, New(_)) ==
  IF node.kind # "Break" THEN EachChildOf(node, New)
  ELSE [node EXCEPT !.subs = [i \in DOMAIN @ |-> EachChildOf(@[i], New)]]

-----------------------------------------------------------------------------
(* Purity and references.                                                  *)

PureAsm(insns) == \A i \in DOMAIN insns : is_pure(insns[i].op)

RECURSIVE PureNode(_)

\* Mutant: a call is as pure as its arguments.
PureCall_args(node) == \A i \in 2..Len(node.subs) : PureNode(node.subs[i])

\* A call is as pure as the type of what is called says.
PureCall(node) == \A i \in DOMAIN node.subs : PureNode(node.subs[i])

PureNode(node) ==
  CASE node.kind = "FuncRef" -> ~node.t[2]
    [] node.kind \in {"GlobalVariableRef", "GetGas", "SetGas", "AssignGlobal"} -> FALSE
    [] node.kind \in {"Asm", "AsmStat"} ->
         PureAsm(node.attr) /\ \A i \in DOMAIN node.subs : PureNode(node.subs[i])
    [] node.kind = "FunctionCall" -> PureCall(node)
    [] OTHER -> LET children == child_nodes(node)
                IN \A i \in DOMAIN children : PureNode(children[i])

PureFunc(func) == \A i \in DOMAIN func.code : PureNode(func.code[i])

\* The functions the nodes refer to.
RECURSIVE determine_funcs_used(_)
determine_funcs_used(nodes) ==
  UNION {(IF nodes[i].kind = "FuncRef" THEN {nodes[i].attr} ELSE {})
           \cup determine_funcs_used(child_nodes(nodes[i])) : i \in DOMAIN nodes}

-----------------------------------------------------------------------------
(* Inlining.                                                               *)

\* The None of a question mark leaves the inlined block with the option, which
\* is on the stack; the value of the block of code after it is never reached.
StrippedTry(node) ==
  LET t == node.t
      test == Typed("Asm", <<from_opcode("Dup0"), from_opcode_imm("Tget", Num(0))>>,
                    node.subs, BoolT)
      block == Typed("CodeBlock", [ret |-> TRUE, scope |-> "_"],
                     Typed("Asm", <<from_opcode_imm("Tget", Num(1))>>, <<>>, t), t)
      leave == Typed("Break", "_inline", Typed("Asm", <<>>, <<>>, OptionT(t)), VoidT)
      else == Typed("CodeBlock", [ret |-> TRUE, scope |-> "_"],
                    leave \o Typed("Error", <<>>, <<>>, EveryT), EveryT)
  IN Typed("CodeBlock", [ret |-> TRUE, scope |-> "_"],
           Typed("If", <<>>, test \o block \o else, t), t)[1]

strip_returns(node) ==
  CASE node.kind \in {"Return", "ReturnVoid"} ->
         [node EXCEPT !.kind = "Break", !.attr = "_inline"]
    [] node.kind = "Try" -> StrippedTry(node)
    [] OTHER -> node

\* strip_returns applied to everything under the node, and not to the node.
RECURSIVE StripUnder(_)
StripUnder(node) == EachChild(node, LAMBDA child : StripUnder(strip_returns(child)))

InliningMode_and(mode, other) == IF mode = "Auto" THEN other ELSE mode

Inlines(heuristic, mode) ==
  IF heuristic = "All" THEN mode # "Never" ELSE mode = "Always"

\* The call as a block: the arguments are bound, then comes the function's
\* code, and its last return is the value.
InlinedCall(call, func) ==
  LET args == [i \in DOMAIN func.args |-> StripUnder(call.subs[i + 1])]
      types == TupleT([i \in DOMAIN func.args |-> func.args[i][2]])
      pats == [i \in DOMAIN func.args |-> <<"bind", func.args[i][1], func.args[i][2]>>]
      bind == IF args = <<>> THEN <<>>
              ELSE Typed("Let", <<"tuple", pats, types>>, Typed("Tuple", <<>>, args, types), VoidT)
      HasValue == func.code # <<>> /\ Last(func.code).kind = "Return"
      body == bind \o (IF HasValue THEN Front(func.code) ELSE func.code)
      value == IF HasValue THEN <<StripUnder(Last(func.code).subs[1])>> ELSE <<>>
  IN [call EXCEPT !.kind = "CodeBlock", !.attr = [ret |-> HasValue, scope |-> "_inline"],
                  !.subs = [i \in DOMAIN body |-> StripUnder(body[i])] \o value]

\* Whether a call to the function stays, with the functions inlined around it.
Refused(func, mode, path, heuristic) ==
  \/ ~Inlines(heuristic, InliningMode_and(mode, func.inline))
  \/ func.name \in path

\* The node and what is under it; a call that stays keeps its arguments too.
RECURSIVE InlineNode(_, _, _, _, _)
InlineNode(node, mode, path, funcs, heuristic) ==
  LET here == IF node.kind \notin Statements \cup {"AssignLocal", "AssignGlobal"} THEN mode
              ELSE IF "inline" \in DOMAIN node THEN node.inline ELSE "Auto"
      called == IF node.kind # "FunctionCall" THEN {}
                ELSE IF node.subs[1].kind # "FuncRef" THEN {}
                ELSE {i \in DOMAIN funcs : funcs[i].name = node.subs[1].attr}
      func == funcs[CHOOSE i \in called : TRUE]
      Into(n, p) == EachChild(n, LAMBDA child : InlineNode(child, here, p, funcs, heuristic))
  IN IF called = {} THEN Into(node, path)
     ELSE IF Refused(func, here, path, heuristic) THEN node
     ELSE Into(InlinedCall(node, func), path \cup {func.name})

TypeCheckedFunc_inline(func, funcs, heuristic) ==
  [func EXCEPT !.code =
     [i \in DOMAIN @ |-> InlineNode(@[i], "Auto", {}, funcs, heuristic)]]

=============================================================================
