-------------------------------- MODULE Link --------------------------------
(***************************************************************************)
(* The linker's passes over code (src/src/link): labels that do not lie    *)
(* ahead go through a jump table, wide tuples become trees, a peephole     *)
(* pass, and labels become code points.  A result is [ok |-> FALSE] where  *)
(* the code returns a CompileError or panics.                              *)
(***************************************************************************)
EXTENDS Mavm

CONSTANT TUPLE_SIZE

-----------------------------------------------------------------------------
(* xformcode.rs: a TupleTree is <<"single">> or <<"tree", size, subtrees>>. *)

RECURSIVE FirstSize(_, _)
FirstSize(current_size, size) ==
  IF current_size * TUPLE_SIZE * TUPLE_SIZE > size THEN current_size
  ELSE FirstSize(current_size * TUPLE_SIZE, size)

RECURSIVE TupleTree_new(_, _)
RECURSIVE TreeSlots(_, _, _)

\* The subtrees: each slot takes as little as leaves a rest that fits the
\* slots after it.
TreeSlots(current_size, remaining_size, remaining_slots) ==
  IF remaining_size = 0 THEN <<>>
  ELSE IF current_size >= remaining_size THEN <<TupleTree_new(remaining_size, FALSE)>>
  ELSE IF current_size * (1 + (remaining_slots - 1) * TUPLE_SIZE) >= remaining_size THEN
    <<TupleTree_new(current_size, FALSE)>>
      \o TreeSlots(current_size, remaining_size - current_size, remaining_slots - 1)
  ELSE TreeSlots(current_size * TUPLE_SIZE, remaining_size, remaining_slots)

TupleTree_new(size, is_local) ==
  IF size = 1 /\ ~is_local THEN <<"single">>
  ELSE <<"tree", size, TreeSlots(FirstSize(1, size), size, TUPLE_SIZE)>>

tsize(tree) == IF tree[1] = "single" THEN 1 ELSE tree[2]

RECURSIVE make_empty(_)
make_empty(tree) ==
  IF tree[1] = "single" THEN none
  ELSE Tup([i \in DOMAIN tree[3] |-> make_empty(tree[3][i])])

\* The leaves before a slot.
Before(tree, slot) == FoldHalves(LAMBDA n, t : n + tsize(t), 0, SubSeq(tree[3], 1, slot - 1))

RECURSIVE make_value(_, _)
make_value(tree, vals) ==
  IF tree[1] = "single" THEN vals[1]
  ELSE Tup([i \in DOMAIN tree[3] |->
              make_value(tree[3][i], SubSeq(vals, Before(tree, i) + 1,
                                            Before(tree, i) + tsize(tree[3][i])))])

value_from_field_list(lis) == make_value(TupleTree_new(Len(lis), FALSE), lis)
make_uninitialized_tuple(size) == make_empty(TupleTree_new(size, FALSE))

\* The slot that holds a leaf; indices start at zero.
InBounds(tree, index) == index < FoldHalves(LAMBDA n, t : n + tsize(t), 0, tree[3])
SlotOf(tree, index) ==
  CHOOSE slot \in DOMAIN tree[3] :
    Before(tree, slot) <= index /\ index < Before(tree, slot) + tsize(tree[3][slot])

Slot(op, slot) == from_opcode_imm(op, Num(slot - 1))

\* None, an empty sequence, for an index out of bounds.
RECURSIVE read_code(_, _, _)
read_code(tree, is_local, index) ==
  IF tree[1] = "single" THEN
    <<IF is_local THEN <<from_opcode("AuxPop"), from_opcode("Dup0"), from_opcode("AuxPush")>>
      ELSE <<>>>>
  ELSE IF ~InBounds(tree, index) THEN <<>>
  ELSE LET slot == SlotOf(tree, index)
           rest == read_code(tree[3][slot], FALSE, index - Before(tree, slot))
       IN <<(<<Slot(IF is_local THEN "Xget" ELSE "Tget", slot)>> \o rest[1])>>

RECURSIVE write_code(_, _, _)

write_code(tree, is_local, index) ==
  IF tree[1] = "single" THEN <<(<<from_opcode("Pop")>>)>>
  ELSE IF ~InBounds(tree, index) THEN <<>>
  ELSE LET slot == SlotOf(tree, index)
           rest == write_code(tree[3][slot], FALSE, index - Before(tree, slot))
       IN CASE tree[3][slot][1] = "single" ->
                 <<(<<Slot(IF is_local THEN "Xset" ELSE "Tset", slot)>>)>>
            [] tree[3][slot][1] = "tree" /\ is_local ->
                 <<(<<Slot("Xget", slot)>> \o rest[1] \o <<Slot("Xset", slot)>>)>>
            [] tree[3][slot][1] = "tree" /\ ~is_local ->
                 <<(<<from_opcode("Swap1"), from_opcode("Dup1"), Slot("Tget", slot)>> \o rest[1]
                    \o <<from_opcode("Swap1"), Slot("Tset", slot)>>)>>

\* UncheckedFixedArrayGet, the least significant digit of the index first.
RECURSIVE ArrayGetCode(_)
ArrayGetCode(size) ==
  IF size <= TUPLE_SIZE THEN <<from_opcode("Tget")>>
  ELSE <<from_opcode_imm("Dup1", Num(TUPLE_SIZE)), from_opcode("Mod"), from_opcode("Swap1"),
         from_opcode_imm("Swap1", Num(TUPLE_SIZE)), from_opcode("Div"), from_opcode("Swap2"),
         from_opcode("Swap1"), from_opcode("Tget"), from_opcode("Swap1")>>
       \o ArrayGetCode((size + TUPLE_SIZE - 1) \div TUPLE_SIZE)

\* What becomes of an instruction: the shape of the locals after it, and its
\* code, none for an error.
FixedInsn(insn, locals_tree, global_tree) ==
  LET imm == insn.imm
      HasIndex == imm # <<>> /\ imm[1][1] = "int" /\ to_usize(imm[1][2])
      Same(code) == [tree |-> locals_tree, code |-> code]
      Wrapped(before, code, after) == IF code = <<>> THEN <<>> ELSE <<before \o code[1] \o after>>
      Indexed(op) ==
        IF ~HasIndex THEN <<>>
        ELSE CASE op = "TupleGet" ->
                    read_code(TupleTree_new(insn.args[1], FALSE), FALSE, imm[1][2])
               [] op = "TupleSet" ->
                    write_code(TupleTree_new(insn.args[1], FALSE), FALSE, imm[1][2])
               [] op = "GetLocal" -> read_code(locals_tree, TRUE, imm[1][2])
               [] op = "SetLocal" -> write_code(locals_tree, TRUE, imm[1][2])
      Frame(nargs, tree, return_address) ==
        LET args == [n \in 1..nargs |-> write_code(tree, TRUE, n - 1)]
        IN IF \E n \in 1..nargs : args[n] = <<>> THEN <<>>
           ELSE <<(IF return_address THEN <<from_opcode("AuxPush")>> ELSE <<>>)
                    \o (IF imm = <<>> THEN <<>> ELSE <<Insn("Noop", <<>>, imm)>>)
                    \o <<from_opcode_imm("AuxPush", make_empty(tree))>>
                    \o Flatten([n \in 1..nargs |-> args[n][1]])>>
  IN CASE insn.op = "MakeFrame" ->
            LET tree == TupleTree_new(insn.args[2], TRUE)
            IN [tree |-> tree, code |-> Frame(insn.args[1], tree, insn.args[3])]
       [] insn.op \in {"TupleGet", "TupleSet", "GetLocal", "SetLocal"} -> Same(Indexed(insn.op))
       [] insn.op = "SetGlobalVar" ->
            Same(Wrapped(<<from_opcode("Rpush")>>, write_code(global_tree, FALSE, insn.args[1]),
                         <<from_opcode("Rset")>>))
       [] insn.op = "GetGlobalVar" ->
            Same(Wrapped(<<from_opcode("Rpush")>>, read_code(global_tree, FALSE, insn.args[1]),
                         <<>>))
       [] insn.op = "Return" ->
            Same(<<(<<Insn("AuxPop", <<>>, imm), from_opcode("Pop"), from_opcode("AuxPop"),
                      from_opcode("Jump")>>)>>)
       [] insn.op = "UncheckedFixedArrayGet" -> Same(<<ArrayGetCode(insn.args[1])>>)
       [] OTHER -> Same(<<(<<insn>>)>>)

fix_tuple_size(code_in, num_globals) ==
  LET global_tree == TupleTree_new(num_globals, FALSE)
      Add(acc, fixed) ==
        IF fixed.code = <<>> THEN [acc EXCEPT !.ok = FALSE]
        ELSE [acc EXCEPT !.tree = fixed.tree, !.code = @ \o fixed.code[1]]
  IN FoldHalves(LAMBDA acc, insn :
                  IF acc.ok THEN Add(acc, FixedInsn(insn, acc.tree, global_tree)) ELSE acc,
                [ok |-> TRUE, tree |-> TupleTree_new(1, TRUE), code |-> <<>>], code_in)

-----------------------------------------------------------------------------
(* optimize.rs. *)

AVM(insn) == insn.op \in Ops
Is(insn, op, with_imm) == insn.op = op /\ (insn.imm # <<>>) = with_imm

Useless(insn) == Is(insn, "Noop", FALSE) \/ Is(insn, "Pop", TRUE)

\* A value pushed before an instruction of the AVM becomes its immediate.
FusedPush(above, below) ==
  IF AVM(above) /\ above.imm = <<>> /\ Is(below, "Noop", TRUE)
  THEN <<(<<Insn(above.op, <<>>, below.imm)>>)>> ELSE <<>>

\* Mutant: an AuxPop that an AuxPush undoes takes its immediate with it.
Fused_unpushed(above, below) ==
  IF Is(above, "AuxPush", FALSE) /\ below.op = "AuxPop" THEN <<(<<>>)>> ELSE FusedPush(above, below)

\* What the last two instructions are replaced by, none if they stay.
Fused(above, below) ==
  LET PushImm == IF below.imm = <<>> THEN <<>> ELSE <<Insn("Noop", <<>>, below.imm)>>
  IN CASE Is(above, "Pop", FALSE) ->
            IF Is(below, "Dup0", FALSE) THEN <<(<<>>)>> ELSE <<>>
       [] Is(above, "AuxPush", FALSE) ->
            IF below.op = "AuxPop" THEN <<PushImm>>
            ELSE IF Is(below, "Noop", TRUE) THEN <<(<<Insn("AuxPush", <<>>, below.imm)>>)>>
            ELSE <<>>
       [] Is(above, "AuxPop", TRUE) ->
            IF Is(below, "AuxPush", FALSE) THEN <<(<<Insn("Swap1", <<>>, above.imm)>>)>> ELSE <<>>
       [] Is(above, "AuxPop", FALSE) ->
            IF below.op = "AuxPush" THEN <<PushImm>>
            ELSE IF Is(below, "Noop", TRUE) THEN <<(<<Insn("AuxPop", <<>>, below.imm)>>)>>
            ELSE <<>>
       [] Is(above, "IsZero", FALSE) -> IF below.op = "IsZero" THEN <<PushImm>> ELSE <<>>
       [] OTHER -> FusedPush(above, below)

RECURSIVE FuseLast(_)
FuseLast(code) ==
  IF Len(code) < 2 THEN code
  ELSE LET fused == Fused(code[Len(code)], code[Len(code) - 1])
       IN IF fused = <<>> THEN code
          ELSE FuseLast(SubSeq(code, 1, Len(code) - 2) \o fused[1])

peephole(code_in) ==
  FoldHalves(LAMBDA code, insn : IF Useless(insn) THEN code ELSE FuseLast(Append(code, insn)),
           <<>>, code_in)

-----------------------------------------------------------------------------
(* striplabels.rs. *)

IsLabel(insn) == insn.op = "Label"
LabelImm(insn) == insn.imm # <<>> /\ insn.imm[1][1] = "label"

\* The code in which a label that is not ahead is fetched from the jump table,
\* and the jump table in the order in which its labels are first needed.
fix_nonforward_labels(code_in, imported_funcs, jump_table_index_in_globals) ==
  LET imported == {<<"ext", imported_funcs[i].slot_num>> : i \in DOMAIN imported_funcs}
      Seen(i) == {code_in[j].args[1] : j \in {k \in 1..(i - 1) : IsLabel(code_in[k])}}
      Needs(i) == LabelImm(code_in[i]) /\ code_in[i].imm[1][2] \in Seen(i) \cup imported
      needed == SelectSeq([i \in DOMAIN code_in |-> i], Needs)
      jump_table == FoldHalves(LAMBDA table, i : LET l == code_in[i].imm[1][2]
                                               IN IF Contains(table, l) THEN table
                                                  ELSE Append(table, l), <<>>, needed)
      Index(l) == CHOOSE n \in DOMAIN jump_table : jump_table[n] = l
      Fetched(i) ==
        <<Insn("GetGlobalVar", <<jump_table_index_in_globals>>, <<>>),
          Insn("TupleGet", <<Len(jump_table)>>, <<Num(Index(code_in[i].imm[1][2]) - 1)>>),
          Insn(code_in[i].op, code_in[i].args, <<>>)>>
  IN [code |-> Flatten([i \in DOMAIN code_in |->
                             IF Needs(i) THEN Fetched(i) ELSE <<code_in[i]>>]),
      jump_table |-> jump_table]

\* Where the labels are: a function of the program over an imported one.
LabelMap(code_in, imported_funcs) ==
  LET labels == {i \in DOMAIN code_in : IsLabel(code_in[i])}
      internal == {code_in[i].args[1] : i \in labels}
      Imports(l) == {i \in DOMAIN imported_funcs :
                       l \in {<<"ext", imported_funcs[i].slot_num>>,
                              <<"func", imported_funcs[i].name_id>>}}
      external == UNION {{<<"ext", imported_funcs[i].slot_num>>,
                          <<"func", imported_funcs[i].name_id>>} : i \in DOMAIN imported_funcs}
      Place(l) == LET i == CHOOSE i \in labels : code_in[i].args[1] = l
                  IN Cardinality({j \in 1..(i - 1) : j \notin labels})
  IN [l \in internal \cup external |->
        IF l \in internal THEN Internal(Place(l))
        ELSE <<"external", imported_funcs[CHOOSE i \in Imports(l) :
                                            \A j \in Imports(l) : j <= i].slot_num>>]

strip_labels(code_in, jump_table, imported_funcs) ==
  LET label_map == LabelMap(code_in, imported_funcs)
      labels == SelectSeq(code_in, IsLabel)
      code == SelectSeq(code_in, LAMBDA insn : ~IsLabel(insn))
      unknown == UNION {LabelsIn(code[i].imm[1]) : i \in {j \in DOMAIN code : code[j].imm # <<>>}}
                   \cup ToSet(jump_table)
  IN IF ~IsInjective([i \in DOMAIN labels |-> labels[i].args[1]])
        \/ ~(unknown \subseteq DOMAIN label_map)
     THEN [ok |-> FALSE, code |-> <<>>, jump_table |-> <<>>]
     ELSE [ok |-> TRUE,
           code |-> [i \in DOMAIN code |->
                       [code[i] EXCEPT !.imm = [n \in DOMAIN @ |-> replace_labels(@[n], label_map)]]],
           jump_table |-> [i \in DOMAIN jump_table |-> label_map[jump_table[i]]]]

-----------------------------------------------------------------------------
(* mod.rs: a compiled program has code, exports [name, label], imports       *)
(* [name, name_id, slot_num] and the names of its globals.                   *)

jump_table_to_value(jump_table) ==
  make_value(TupleTree_new(Len(jump_table), FALSE),
             [i \in DOMAIN jump_table |-> Code(jump_table[i])])

CompiledProgram_relocate(prog, int_offset, ext_offset, func_offset, globals_offset) ==
  LET Relocated(code, exports) ==
        [prog |->
           [code |-> [i \in DOMAIN code |-> code[i].insn],
            exports |-> [i \in DOMAIN exports |->
                           [prog.exports[i] EXCEPT !.label = exports[i].label]],
            imports |-> [i \in DOMAIN prog.imports |->
                           [prog.imports[i] EXCEPT !.slot_num = @ + ext_offset]],
            globals |-> globals_offset \o prog.globals],
         func |-> Largest(<<func_offset>> \o [i \in DOMAIN code |-> code[i].func]
                            \o [i \in DOMAIN exports |-> exports[i].func])]
  IN Relocated([i \in DOMAIN prog.code |->
                  Instruction_relocate(prog.code[i], int_offset, ext_offset, func_offset,
                                       Len(globals_offset))],
               [i \in DOMAIN prog.exports |->
                  Label_relocate(prog.exports[i].label, int_offset, ext_offset, func_offset)])

\* The code before the first program, which initialises the globals.
Prologue(num_globals, test_mode) ==
  IF test_mode
  THEN <<from_opcode_imm("Noop", none), from_opcode_imm("Noop", make_uninitialized_tuple(num_globals)),
         from_opcode("Rset")>>
  ELSE <<from_opcode("Rpush"), from_opcode_imm("Noop", none),
         from_opcode_imm("Rset", make_uninitialized_tuple(num_globals))>>

LinkOffsets(acc, prog) ==
  Eager(CompiledProgram_relocate(prog, acc.insns, acc.imports, acc.func, acc.globals),
        LAMBDA rel : [insns |-> acc.insns + Len(prog.code),
                      imports |-> acc.imports + Len(prog.imports),
                      func |-> rel.func + 1, globals |-> rel.prog.globals,
                      progs |-> Append(acc.progs, rel.prog)])

\* What each import that has an export is an import of: the last export of its
\* name.  An import without one is only a warning.
ImportedLabels(imports, exports) ==
  LET Exporters(imp) == {e \in DOMAIN exports : exports[e].name = imp.name}
      resolved == {i \in DOMAIN imports : Exporters(imports[i]) # {}}
      LabelOf(imp) == exports[CHOOSE e \in Exporters(imp) : \A f \in Exporters(imp) : f <= e].label
  IN [l \in {<<"ext", imports[i].slot_num>> : i \in resolved} |->
        LabelOf(imports[CHOOSE i \in resolved : imports[i].slot_num = l[2]])]

\* The relocated programs as one.
Joined(rel, test_mode) ==
  LET globals == Append(rel.globals, "_jump_table")
      exports == Flatten([i \in DOMAIN rel.progs |-> rel.progs[i].exports])
      imports == Flatten([i \in DOMAIN rel.progs |-> rel.progs[i].imports])
      xlate == ImportedLabels(imports, exports)
      code == Prologue(Len(globals), test_mode)
                \o Flatten([i \in DOMAIN rel.progs |-> rel.progs[i].code])
  IN [code |-> [i \in DOMAIN code |->
                  [code[i] EXCEPT !.imm = [n \in DOMAIN @ |-> xlate_labels(@[n], xlate)]]],
      exports |-> exports, imports |-> imports, globals |-> globals]

link(progs, test_mode) ==
  Eager(FoldHalves(LinkOffsets, [insns |-> 3, imports |-> 0, func |-> 0, globals |-> <<>>,
                                 progs |-> <<>>], progs),
        LAMBDA rel : Joined(rel, test_mode))

\* The linked program as code of the AVM, with its jump table in the initial
\* value of the globals.
postlink_compile(program, test_mode) ==
  LET offset == IF test_mode THEN 2 ELSE 3
      Finish(stripped) ==
        LET code == [stripped.code EXCEPT ![offset].imm =
                       <<replace_last_none(@[1], jump_table_to_value(stripped.jump_table))>>]
        IN IF stripped.ok THEN [ok |-> \A i \in DOMAIN code : AVM(code[i]), code |-> code]
           ELSE [ok |-> FALSE, code |-> <<>>]
      Strip(optimized, fixed) ==
        Eager(strip_labels(optimized, fixed.jump_table, program.imports), Finish)
      Size(sized, fixed) ==
        IF ~sized.ok THEN [ok |-> FALSE, code |-> <<>>]
        ELSE Eager(peephole(sized.code), LAMBDA optimized : Strip(optimized, fixed))
  IN Eager(fix_nonforward_labels(program.code, program.imports, Len(program.globals) - 1),
           LAMBDA fixed : Eager(fix_tuple_size(fixed.code, Len(program.globals)),
                                LAMBDA sized : Size(sized, fixed)))

=============================================================================
