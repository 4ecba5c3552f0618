-------------------------------- MODULE Mavm --------------------------------
(***************************************************************************)
(* Labels, code points, values and instructions (src/src/mavm.rs).         *)
(*                                                                         *)
(*    label   <<"func", id>>  <<"anon", n>>  <<"ext", slot>>               *)
(*    codept  <<"internal", pc>>  <<"external", slot>>                     *)
(*            <<"segment", number, offset>>  <<"null">>                    *)
(*    value   <<"int", word>>  <<"tuple", values>>  <<"code", codept>>     *)
(*            <<"label", label>>  <<"buffer", buffer>>                     *)
(*                                                                         *)
(* An instruction has an opcode, the arguments of the opcode when it is    *)
(* one of the virtual opcodes the linker removes, and an immediate: a      *)
(* sequence of at most one value.                                          *)
(***************************************************************************)
EXTENDS Buffers, Opcodes, Folding, SequencesExt

CONSTANTS Keccak256(_)         \* the hash of a sequence of words

Num(n) == <<"int", n>>
Tup(vs) == <<"tuple", vs>>
Code(cp) == <<"code", cp>>
Lab(l) == <<"label", l>>
Buf(b) == <<"buffer", b>>
none == Tup(<<>>)
Bool(b) == Num(IF b THEN 1 ELSE 0)

Internal(pc) == <<"internal", pc>>
InSegment(seg, offset) == <<"segment", seg, offset>>
Null == <<"null">>

\* None, an empty sequence, where the code point has no successor.
incr(cp) ==
  CASE cp[1] = "internal" -> <<Internal(cp[2] + 1)>>
    [] cp[1] = "segment" -> IF cp[3] = 0 THEN <<>> ELSE <<InSegment(cp[2], cp[3] - 1)>>
    [] OTHER -> <<>>

Insn(op, args, imm) == [op |-> op, args |-> args, imm |-> imm]
from_opcode(op) == Insn(op, <<>>, <<>>)
from_opcode_imm(op, v) == Insn(op, <<>>, <<v>>)

type_insn_result(v) ==
  CASE v[1] = "int" -> 0 [] v[1] = "code" -> 1 [] v[1] = "tuple" -> 3 [] v[1] = "buffer" -> 4

\* LabelGenerator: the generator is the number of the next label.
LabelGenerator_new == 0
LabelGenerator_next(gen) == [label |-> <<"anon", gen>>, gen |-> gen + 1]

Label_relocate(l, int_offset, ext_offset, func_offset) ==
  CASE l[1] = "func" -> [label |-> <<"func", l[2] + func_offset>>, func |-> l[2] + func_offset]
    [] l[1] = "anon" -> [label |-> <<"anon", l[2] + int_offset>>, func |-> func_offset]
    [] l[1] = "ext" -> [label |-> <<"ext", l[2] + ext_offset>>, func |-> func_offset]

CodePt_relocate(cp, int_offset, ext_offset) ==
  CASE cp[1] = "internal" -> Internal(cp[2] + int_offset)
    [] cp[1] = "external" -> <<"external", cp[2] + ext_offset>>

Largest(ns) == FoldHalves(LAMBDA n, m : IF n > m THEN n ELSE m, 0, ns)

\* The relocated value and the largest function number met in it.
RECURSIVE Value_relocate(_, _, _, _)
Value_relocate(v, int_offset, ext_offset, func_offset) ==
  CASE v[1] \in {"int", "buffer"} -> [val |-> v, func |-> 0]
    [] v[1] = "tuple" ->
         LET rel == [i \in DOMAIN v[2] |->
                       Value_relocate(v[2][i], int_offset, ext_offset, func_offset)]
         IN [val |-> Tup([i \in DOMAIN rel |-> rel[i].val]),
             func |-> Largest([i \in DOMAIN rel |-> rel[i].func])]
    [] v[1] = "code" -> [val |-> Code(CodePt_relocate(v[2], int_offset, ext_offset)), func |-> 0]
    [] v[1] = "label" ->
         LET rel == Label_relocate(v[2], int_offset, ext_offset, func_offset)
         IN [val |-> Lab(rel.label), func |-> rel.func]

RelocatedGlobal(index, globals_offset) == index + globals_offset

Instruction_relocate(insn, int_offset, ext_offset, func_offset, globals_offset) ==
  LET label == IF insn.op = "Label"
               THEN Label_relocate(insn.args[1], int_offset, ext_offset, func_offset)
               ELSE [label |-> <<>>, func |-> func_offset]
      args == CASE insn.op = "PushExternal" -> <<insn.args[1] + ext_offset>>
                [] insn.op = "Label" -> <<label.label>>
                [] insn.op \in {"GetGlobalVar", "SetGlobalVar"} ->
                     <<RelocatedGlobal(insn.args[1], globals_offset)>>
                [] OTHER -> insn.args
      imm == [i \in DOMAIN insn.imm |->
                Value_relocate(insn.imm[i], int_offset, ext_offset, func_offset)]
  IN [insn |-> Insn(insn.op, args, [i \in DOMAIN imm |-> imm[i].val]),
      func |-> Largest(<<func_offset, label.func>> \o [i \in DOMAIN imm |-> imm[i].func])]

\* The labels of a value, each one an Err of replace_labels if it is unknown.
RECURSIVE LabelsIn(_)
LabelsIn(v) ==
  CASE v[1] = "label" -> {v[2]}
    [] v[1] = "tuple" -> UNION {LabelsIn(v[2][i]) : i \in DOMAIN v[2]}
    [] OTHER -> {}

\* Value::replace_labels where the map has all labels of the value.
RECURSIVE replace_labels(_, _)
replace_labels(v, label_map) ==
  CASE v[1] = "label" -> Code(label_map[v[2]])
    [] v[1] = "tuple" -> Tup([i \in DOMAIN v[2] |-> replace_labels(v[2][i], label_map)])
    [] OTHER -> v

RECURSIVE xlate_labels(_, _)
xlate_labels(v, label_map) ==
  CASE v[1] = "label" -> IF v[2] \in DOMAIN label_map THEN Lab(label_map[v[2]]) ELSE v
    [] v[1] = "tuple" -> Tup([i \in DOMAIN v[2] |-> xlate_labels(v[2][i], label_map)])
    [] OTHER -> v

RECURSIVE replace_last_none(_, _)
replace_last_none(v, val) ==
  IF v = none THEN val
  ELSE Tup([v[2] EXCEPT ![Len(v[2])] = replace_last_none(@, val)])

RECURSIVE BufferNode_hash(_)
BufferNode_hash(node) ==
  IF node[1] = "leaf" THEN Keccak256(node[2])
  ELSE Keccak256(<<BufferNode_hash(node[4]), BufferNode_hash(node[5])>>)

\* The hash of a code point in a segment is zero, like that of Null.
RECURSIVE avm_hash(_)
avm_hash(v) ==
  CASE v[1] = "int" -> Keccak256(<<v[2]>>)
    [] v[1] = "buffer" -> BufferNode_hash(v[2].root)
    [] v[1] = "tuple" -> FoldLeft(LAMBDA acc, w : Keccak256(<<acc, avm_hash(w)>>), 0, v[2])
    [] v[1] = "code" ->
         Keccak256(<<1, IF v[2][1] = "internal" THEN Keccak256(<<3, v[2][2]>>) ELSE 0>>)

=============================================================================
