---------------------------- MODULE MCAlgorithms ----------------------------
(***************************************************************************)
(* The algorithms of the compiler, the emulator and the Mini libraries     *)
(* that are functions of their input, each on every input of bounded size: *)
(* the comparison of types, the peephole pass, the code that reads and     *)
(* writes a tree of tuples, the buffers, and the containers.  A state is   *)
(* one input, and a step makes it larger:                                  *)
(*   <<"types", depth, a, b, c>>       three types of one shape            *)
(*   <<"code", instructions>>                                              *)
(*   <<"tree", size, index>>           a tree and one of its leaves        *)
(*   <<"buffer", writes, buffer, bytes>>   a buffer and what it should hold *)
(*   <<"words", a, b>>                                                     *)
(*   <<"queue", puts, queue, items>>                                       *)
(*   <<"stack", pushes, stack, items>>                                     *)
(*   <<"heap", inserts, heap, items>>                                      *)
(*   <<"ints", writes, array, items>>                                      *)
(*   <<"maps", writes, two storage maps and a store, two functions>>       *)
(*   <<"table", address table, addresses>>                                 *)
(***************************************************************************)
EXTENDS Types, Emulator, Collections

CONSTANTS MaxDepth, MaxInsns, MaxSize, MaxWrites, MaxItems, MaxUpdates

VARIABLE input

\* Stand-ins for hashes and curves that keep results in range.
MCKeccak256(words) == FoldLeft(LAMBDA acc, w : (3 * acc + w + 7) % 65536, 1, words)
MCDigest(name, words) == FoldLeft(LAMBDA acc, w : (5 * acc + w + 3) % 65536, 2, words)
MCCurve(name, words) == IF words # <<>> /\ words[1] = 1 THEN <<>> ELSE <<3, 4>>

-----------------------------------------------------------------------------
(* The inputs.                                                             *)

Nom(id) == <<"nominal", id>>
List(t, id) == <<"struct", <<<<"head", t>>, <<"tail", OptionT(Nom(id))>>>>>>

\* A list, another of the same shape, one that ends in the other, one of
\* anything, a name for a name, and a list of signed numbers.
TypeTree ==
  <<List(UintT, 1), List(UintT, 2), List(UintT, 1), List(AnyT, 4), Nom(1), List(IntT, 6)>>

\* A name that is not in the tree stands for a type that cannot be resolved.
BaseTypes == {VoidT, UintT, AnyT, EveryT} \cup {Nom(id) : id \in 1..7}

\* The types made of a type.
Shapes(t) ==
  <<<<"array", t>>, OptionT(t), TupleT(<<t>>), TupleT(<<UintT, t>>), <<"fixed", t, 1>>,
    <<"fixed", t, 2>>, <<"struct", <<<<"f", t>>>>>>, <<"struct", <<<<"g", t>>>>>>,
    <<"map", t, UintT>>, <<"map", UintT, t>>, <<"union", <<t, IntT>>>>,
    <<"func", FALSE, <<t>>, UintT>>, <<"func", TRUE, <<t>>, UintT>>, <<"func", FALSE, <<>>, t>>>>

Bit == {Num(0), Num(1)}
Insns ==
  {from_opcode(op) : op \in {"Noop", "Dup0", "Pop", "AuxPush", "AuxPop", "IsZero", "Swap1"}}
    \cup {from_opcode_imm("IsZero", v) : v \in Bit}
    \cup {from_opcode_imm(op, Num(1)) : op \in {"Noop", "AuxPush", "AuxPop", "Pop", "Dup0"}}
    \cup {Insn("Label", <<<<"anon", 0>>>>, <<>>)}

\* The bytes around the ends of leaves and of trees of leaves.
Offsets == {0, LeafSize - 1, LeafSize, 2 * LeafSize - 1, 2 * LeafSize, 3 * LeafSize,
            4 * LeafSize - 1, 4 * LeafSize, 6 * LeafSize + 1, 8 * LeafSize}
Past == 9 * LeafSize

Half == WordSize \div 2
\* The words around zero, around the ends of the signed ones, and around a byte.
Edges == {0, 1, 2, 3, 7, ByteSize - 1, ByteSize, ByteSize + 5, ByteSize \div 2, Half - 1, Half,
          Half + 1, Half + 9, max_uint - 6, max_uint - 1, max_uint}

\* Keys, and hashes of them, that share their first digits.
Keys == {0, 1, 4, 8}
MCHash == [key \in Keys |-> (3 * key + 2) % 16]
Unmapped == [key \in Keys |-> 0]

-----------------------------------------------------------------------------
(* The steps.                                                              *)

Init ==
  \/ \E a \in BaseTypes, b \in BaseTypes, c \in BaseTypes : input = <<"types", 0, a, b, c>>
  \/ input = <<"code", <<>>>>
  \/ input = <<"tree", 1, 0>>
  \/ input = <<"buffer", 0, Buffer_new_empty, [o \in 0..Past |-> 0]>>
  \/ \E a \in Edges, b \in Edges : input = <<"words", a, b>>
  \/ input = <<"queue", 0, queue_new, <<>>>>
  \/ input = <<"stack", 0, stack_new, <<>>>>
  \/ input = <<"heap", 0, priorityq_new, {}>>
  \/ input = <<"ints", 0, expandingIntArray_new, [i \in 0..MaxItems |-> 0]>>
  \/ input = <<"maps", 0, <<NewTrie, NewTrie, NewTrie>>, <<Unmapped, Unmapped>>>>
  \/ input = <<"table", addressTable_new, <<0>>>>

\* The three types get the same shape, or first shapes next to each other.
Shape ==
  /\ input[1] = "types" /\ input[2] < MaxDepth
  /\ \E i \in DOMAIN Shapes(UintT) :
       \E j \in {i} \cup (IF input[2] = 0 THEN {i + 1} \cap DOMAIN Shapes(UintT) ELSE {}) :
         input' = <<"types", input[2] + 1, Shapes(input[3])[i], Shapes(input[4])[j],
                    Shapes(input[5])[j]>>

AppendInsn ==
  /\ input[1] = "code" /\ Len(input[2]) < MaxInsns
  /\ \E insn \in Insns : input' = <<"code", Append(input[2], insn)>>

NextLeaf ==
  /\ input[1] = "tree" /\ input[2] <= MaxSize
  /\ input' = IF input[3] + 1 < input[2] THEN <<"tree", input[2], input[3] + 1>>
              ELSE <<"tree", input[2] + 1, 0>>

Write ==
  /\ input[1] = "buffer" /\ input[2] < MaxWrites
  /\ \E o \in Offsets, b \in 0..2 :
       input' = <<"buffer", input[2] + 1, set_byte(input[3], o, b), [input[4] EXCEPT ![o] = b]>>

\* The n-th item put into a container is n.
PutItem ==
  /\ input[1] \in {"queue", "stack"} /\ input[2] < MaxItems
  /\ LET n == input[2] + 1
     IN input' = IF input[1] = "queue"
                 THEN <<"queue", n, queue_put(input[3], n), Append(input[4], n)>>
                 ELSE <<"stack", n, stack_push(input[3], n), <<n>> \o input[4]>>

TakeItem ==
  /\ input[1] \in {"queue", "stack"} /\ input[4] # <<>>
  /\ input' = [input EXCEPT ![3] = IF input[1] = "queue" THEN boundedQueue_get(@)[1][1]
                                   ELSE stack_pop(@)[1][1],
                            ![4] = Tail(@)]

Insert ==
  /\ input[1] = "heap" /\ input[2] < MaxUpdates + 2
  /\ \E priority \in 0..2 :
       LET n == input[2] + 1
       IN input' = <<"heap", n, priorityq_insert(input[3], n, priority),
                     input[4] \cup {[item |-> n, priority |-> priority]}>>

GetLargest ==
  /\ input[1] = "heap" /\ input[3].size > 0
  /\ LET got == priorityq_get(input[3])[1]
     IN input' = [input EXCEPT ![3] = got[2], ![4] = {x \in @ : x.item # got[1]}]

SetInt ==
  /\ input[1] = "ints" /\ input[2] < MaxWrites
  /\ \E i \in 0..MaxItems, v \in 1..2 :
       input' = <<"ints", input[2] + 1, expandingIntArray_set(input[3], i, v),
                  [input[4] EXCEPT ![i] = v]>>

\* The store is written to as the first of the two maps is.
Update ==
  /\ input[1] = "maps" /\ input[2] < MaxUpdates
  /\ \E key \in Keys, v \in 0..2, i \in 1..2 :
       LET store == IF i = 2 THEN input[3][3]
                    ELSE IF v = 0 THEN builtin_kvsDelete(input[3][3], key)
                    ELSE builtin_kvsSet(input[3][3], key, v)
       IN input' = <<"maps", input[2] + 1,
                     [input[3] EXCEPT ![i] = storageMap_set(@, key, v), ![3] = store],
                     [input[4] EXCEPT ![i][key] = v]>>

Register ==
  /\ input[1] = "table"
  /\ \E key \in Keys :
       LET got == addressTable_getByAddressAlloc(input[2], key)
       IN input' = <<"table", got[1], IF got[3] THEN Append(input[3], key) ELSE input[3]>>

Next == \/ Shape \/ AppendInsn \/ NextLeaf \/ Write
        \/ PutItem \/ TakeItem \/ Insert \/ GetLargest \/ SetInt \/ Update \/ Register

Spec == Init /\ [][Next]_input

-----------------------------------------------------------------------------
(* Types.                                                                  *)

RECURSIVE HasFunc(_)
HasFunc(t) ==
  CASE t[1] \in {"array", "option", "fixed"} -> HasFunc(t[2])
    [] t[1] \in {"tuple", "union"} -> \E i \in DOMAIN t[2] : HasFunc(t[2][i])
    [] t[1] = "struct" -> \E i \in DOMAIN t[2] : HasFunc(t[2][i][2])
    [] t[1] = "map" -> HasFunc(t[2]) \/ HasFunc(t[3])
    [] OTHER -> t[1] = "func"

Accepts(a, b) == assignable(a, b, TypeTree, {})
Mismatch(a, b) == first_mismatch(a, b, TypeTree, {})

\* Where one type does not accept another, first_mismatch names a place where
\* they differ, and it names none where it does: the two agree on all types
\* without functions, recursive ones under other names too.
MismatchAgrees ==
  input[1] = "types" /\ input[4] = input[5] /\ ~HasFunc(input[3]) /\ ~HasFunc(input[4]) =>
    Accepts(input[3], input[4]) = (Mismatch(input[3], input[4]) = <<>>)

\* A type that does not accept another has a mismatch to report: the checker
\* unwraps what mismatch_string finds.
MismatchFound ==
  input[1] = "types" /\ ~Accepts(input[3], input[4]) => Mismatch(input[3], input[4]) # <<>>

\* What a type accepts, the types that accept it accept.
AcceptsTransitive ==
  input[1] = "types" /\ Accepts(input[3], input[4]) /\ Accepts(input[4], input[5]) =>
    Accepts(input[3], input[5])

\* Values of a type as the machine has them, with at most n names on the
\* way to each; no tuple or struct here has more than two fields.
RECURSIVE ValuesOf(_, _)
ValuesOf(t, n) ==
  LET Tree(vs) == make_value(TupleTree_new(Len(vs), FALSE), vs)
      Vectors(types) ==
        IF Len(types) = 1 THEN {<<v>> : v \in ValuesOf(types[1], n)}
        ELSE {<<v, w>> : v \in ValuesOf(types[1], n), w \in ValuesOf(types[2], n)}
  IN CASE t[1] \in {"uint", "int"} -> {Num(0), Num(2)}
       [] t[1] = "any" -> {Num(1), none, Tup(<<Num(1)>>)}
       [] t[1] = "nominal" -> IF n = 0 \/ t[2] \notin DOMAIN TypeTree THEN {}
                              ELSE ValuesOf(TypeTree[t[2]], n - 1)
       [] t[1] = "option" -> {Tup(<<Num(0)>>)} \cup {Tup(<<Num(1), v>>) : v \in ValuesOf(t[2], n)}
       [] t[1] = "tuple" -> {Tree(vs) : vs \in Vectors(t[2])}
       [] t[1] = "struct" -> {Tree(vs) : vs \in Vectors([i \in DOMAIN t[2] |-> t[2][i][2]])}
       [] t[1] = "fixed" -> {Tup([i \in 1..TUPLE_SIZE |-> v]) : v \in ValuesOf(t[2], n)}
       [] t[1] = "union" -> UNION {ValuesOf(t[2][i], n) : i \in DOMAIN t[2]}
       [] OTHER -> {}

\* Whether the machine can use the value as one of the type: operations on a
\* scalar find a number, every field is where the type says.  A tuple of one
\* field is the field.
RECURSIVE Usable(_, _)
Usable(v, t) ==
  LET Fields(types) ==
        IF Len(types) = 1 THEN Usable(v, types[1])
        ELSE /\ v[1] = "tuple" /\ Len(v[2]) = Len(types)
             /\ \A i \in DOMAIN types : Usable(v[2][i], types[i])
  IN CASE t[1] \in {"uint", "int"} -> v[1] = "int"
       [] t[1] = "any" -> TRUE
       [] t[1] = "nominal" -> t[2] \in DOMAIN TypeTree /\ Usable(v, TypeTree[t[2]])
       [] t[1] = "option" ->
            /\ v[1] = "tuple"
            /\ \/ v = Tup(<<Num(0)>>)
               \/ Len(v[2]) = 2 /\ v[2][1] = Num(1) /\ Usable(v[2][2], t[2])
       [] t[1] = "fixed" -> v[1] = "tuple" /\ \A i \in DOMAIN v[2] : Usable(v[2][i], t[2])
       [] t[1] = "union" -> \E i \in DOMAIN t[2] : Usable(v, t[2][i])
       [] t[1] = "tuple" -> Fields(t[2])
       [] t[1] = "struct" -> Fields([i \in DOMAIN t[2] |-> t[2][i][2]])
       [] OTHER -> FALSE

\* A value of a type can be used as one of any type that accepts it, lists of
\* any number of elements included.
AcceptedIsUsable ==
  input[1] = "types" /\ input[4] = input[5] /\ Accepts(input[3], input[4]) =>
    \A v \in ValuesOf(input[4], 2) : Usable(v, input[3])

\* Assignability is sound: what a type accepts can be used as one of its values,
\* acceptance chains, and a refusal comes with a place where the types differ
\* (Type::assignable, Type::first_mismatch), recursive types under different
\* names included.
AssignabilitySound == AcceptedIsUsable /\ AcceptsTransitive /\ MismatchAgrees

-----------------------------------------------------------------------------
(* Code.                                                                   *)

Start(code, stack, aux_stack) ==
  [start_at_zero(Machine_new(code, none, new_with_blocknum_timestamp(0, 0)))
     EXCEPT !.stack = stack, !.aux_stack = aux_stack]

\* The machine after code without jumps, or where it stops.
RECURSIVE Ran(_)
Ran(m) == IF Running(m) /\ m.state[2][2] < Len(m.code[1]) THEN Ran(run_step(m).m) ELSE m

Bits(ns) == [i \in DOMAIN ns |-> Num(ns[i])]
Stacks == {<<Bits(<<0, 0, 1, 1, 0>>), Bits(<<1, 1, 0, 1, 0>>)>>,
           <<Bits(<<1, 1, 0, 1, 0>>), Bits(<<0, 0, 1, 1, 0>>)>>}

SameEnd(before, after) ==
  Running(before) =>
    /\ Running(after)
    /\ after.stack = before.stack /\ after.aux_stack = before.aux_stack

\* Code that runs on truth values leaves the same stacks after the peephole
\* pass, which takes a pair of IsZero for nothing; and what is on one side of a
\* label, where a jump may come in, is never merged with what is on the other.
PeepholeKeeps ==
  input[1] = "code" =>
    LET code == input[2]
        Label(insn) == insn.op = "Label"
        at == CHOOSE i \in DOMAIN code : Label(code[i])
    IN IF \E i \in DOMAIN code : Label(code[i])
       THEN peephole(code) = peephole(SubSeq(code, 1, at - 1)) \o <<code[at]>>
                               \o peephole(SubSeq(code, at + 1, Len(code)))
       ELSE \A s \in Stacks :
              SameEnd(Ran(Start(code, s[1], s[2])), Ran(Start(peephole(code), s[1], s[2])))

-----------------------------------------------------------------------------
(* Trees of tuples.                                                        *)

\* The values of the leaves after a write of zero to the one at index.
Leaves(size, index) == [i \in 1..size |-> Num(IF i = index + 1 THEN 0 ELSE i)]

\* The stack after code with a tree on the stack, or in a frame on the aux
\* stack.
OnTree(code, is_local, above, tree) ==
  Given(Ran(IF is_local THEN Start(code, above, <<tree>>)
            ELSE Start(code, <<tree>> \o above, <<>>)),
        LAMBDA m : IF ~Running(m) THEN <<>>
                   ELSE IF is_local THEN m.stack \o m.aux_stack ELSE m.stack)

\* A write to one leaf is read back there, and every other leaf keeps its
\* value, for globals and structs and for the locals of a frame.
TreeReadsBack ==
  input[1] = "tree" =>
    \A is_local \in BOOLEAN :
      LET size == input[2]
          index == input[3]
          tree == TupleTree_new(size, is_local)
          value == make_value(tree, Leaves(size, size))
          Read(j, from) == OnTree(read_code(tree, is_local, j)[1], is_local, <<>>, from)
      IN \A written \in {OnTree(write_code(tree, is_local, index)[1], is_local, <<Num(0)>>, value)} :
           /\ Len(written) = 1
           /\ \A j \in 0..(size - 1) : Head(Read(j, written[1])) = Leaves(size, index)[j + 1]
           /\ ~is_local => written[1] = make_value(tree, Leaves(size, index))

\* What the compiler puts in place of other code does the same: the peephole
\* pass for what it merges, the reads and writes in a tree of tuples for those
\* of one leaf (peephole in optimize.rs, read_code and write_code in
\* xformcode.rs).
CodeKeepsMeaning == PeepholeKeeps /\ TreeReadsBack

-----------------------------------------------------------------------------
(* Buffers.                                                                *)

\* A buffer has the bytes last written, zero elsewhere, and is the same buffer,
\* and so has the same hash, as one made of its bytes from the first to the
\* last, as when it is read from a file.
BufferHoldsBytes ==
  input[1] = "buffer" =>
    LET buf == input[3]
    IN /\ \A o \in 0..Past : read_byte(buf, o) = input[4][o]
       /\ buf = Buffer_from_bytes(as_bytes(buf, buf.size))

-----------------------------------------------------------------------------
(* Words.                                                                  *)

\* The signed operations on unsigned words are those of two's complement, at
\* the least and the greatest numbers too: a difference added back, quotient
\* and remainder that make up the dividend with a remainder of its sign, a
\* shift that is a division rounded down, the sign of the low bytes extended.
WordsAgree ==
  input[1] = "words" =>
    LET a == input[2]
        b == input[3]
        q == sdiv(a, b)
        r == smodulo(a, b)
        Low(n) == a % (ByteSize ^ (n + 1))
        Top(n) == ByteSize ^ (n + 1) \div 2
    IN /\ add(unary_minus(a), a) = 0 /\ add(unchecked_sub(a, b), b) = a
       /\ b = 0 <=> q = <<>>
       /\ b # 0 => /\ add(mul(q[1], b), r[1]) = a
                   /\ Abs(to_signed(r[1])) < Abs(to_signed(b))
                   /\ r[1] = 0 \/ (to_signed(r[1]) < 0) = (to_signed(a) < 0)
       /\ \A n \in 0..(WordBits + 1) :
            to_signed(shift_arith(a, n)) =
              to_signed(a) \div 2 ^ (IF n < WordBits THEN n ELSE WordBits)
       /\ \A n \in 0..(WordBytes - 1) :
            /\ to_signed(SignExtendResult(n, a)) =
                 IF Low(n) < Top(n) THEN Low(n) ELSE Low(n) - 2 * Top(n)
            /\ ByteResult(n, a) = to_bytes_be(a)[n + 1]
       /\ from_bytes(to_bytes_be(a)) = a

-----------------------------------------------------------------------------
(* Containers.                                                             *)

Items(q) == [n \in 1..boundedQueue_size(q) |-> boundedQueue_nth(q, n - 1)[1]]

\* A queue gives back what was put into it in that order, also when it grew
\* while its items went around the end of its array (queue_put), and a write
\* to the n-th item is a write to that item alone.
QueueIsFifo ==
  input[1] = "queue" =>
    LET q == input[3]
    IN /\ Items(q) = input[4]
       /\ boundedQueue_isEmpty(q) <=> input[4] = <<>>
       /\ input[4] # <<>> => boundedQueue_get(q)[1][2] = Head(input[4])
       /\ \A n \in DOMAIN input[4] :
            Items(boundedQueue_set_nth(q, n - 1, 0)[1]) = [input[4] EXCEPT ![n] = 0]

RECURSIVE Unstacked(_)
Unstacked(stack) ==
  IF stack = <<>> THEN <<>> ELSE LET res == stack_pop(stack)[1] IN <<res[2]>> \o Unstacked(res[1])

\* Discarding the deepest items of a stack leaves the others in their order,
\* whatever blocks they are in, and nothing where there are fewer.
StackKeepsTop ==
  input[1] = "stack" =>
    /\ stack_size(input[3]) = Len(input[4])
    /\ \A n \in 0..(Len(input[4]) + 1) :
         Unstacked(stack_discardDeepestItems(input[3], n)) = SubSeq(input[4], 1, Len(input[4]) - n)

\* A priority queue gives the items that were inserted and no other, one of
\* the largest priority first, whatever was left behind in its array by those
\* already taken and however often it grew.
HeapGivesLargest ==
  input[1] = "heap" =>
    /\ input[3].size = Cardinality(input[4])
    /\ input[4] # {} =>
         \E x \in input[4] : /\ x.item = priorityq_get(input[3])[1][1]
                             /\ \A y \in input[4] : y.priority <= x.priority

\* An array that holds i at i, made item by item.
Counted(size) ==
  FoldLeft(LAMBDA arr, i : builtin_arraySet(arr, i - 1, i - 1), builtin_arrayNew(size, 0),
           [i \in 1..size |-> i])
Contents(arr) == [i \in 1..arr.size |-> builtin_arrayGetSafe(arr, i - 1)[1]]
\* A closure that returns what was there and stores the next number.
Bump == [old \in 0..MaxItems |-> <<old + 1, old>>]

\* An array of any size holds what is written at each index and nothing else
\* changes; two neighbours are read at once across the edge of a block as
\* within one; and a resized array keeps the items that fit.
ArrayHolds ==
  input[1] = "tree" /\ input[2] <= MaxItems =>
    LET size == input[2]
        arr == Counted(size)
        at == input[3]
        op == builtin_arrayOpSafe(arr, at, Bump)[1]
    IN /\ Contents(arr) = [i \in 1..size |-> i - 1]
       /\ op[2] = at /\ Contents(op[1]) = [i \in 1..size |-> IF i = at + 1 THEN i ELSE i - 1]
       /\ builtin_arrayGetConsecutiveSafe(arr, at) = IF at + 1 < size THEN <<<<at, at + 1>>>> ELSE <<>>
       /\ \A n \in 0..(size + 3) :
            Contents(array_resize(arr, n, 7)) = [i \in 1..n |-> IF i <= size THEN i - 1 ELSE 7]

\* An array that grows as it is written to keeps what it held before it grew,
\* and reads zero elsewhere, past its end too.
GrowingArrayHolds ==
  input[1] = "ints" =>
    \A i \in 0..MaxItems :
      /\ expandingIntArray_get(input[3], i) = input[4][i]
      /\ i < MaxItems =>
           expandingIntArray_getConsecutive(input[3], i) = <<input[4][i], input[4][i + 1]>>

\* The maps and the store hold what was last written, count their keys and
\* visit each once, also where keys share a long way and cells were deleted
\* from under it; and the difference of two maps is every key at which they
\* differ, once, with both values.
TriesAreMaps ==
  input[1] = "maps" =>
    LET m == input[3]
        f == input[4]
        Mapped(g) == {key \in Keys : g[key] # 0}
        Cells(trie) == NodeForall(trie.tree)
        diff == storageMap_diff(m[1], m[2])
    IN /\ \A key \in Keys : /\ storageMap_get(m[1], key) = f[1][key]
                            /\ storageMap_get(m[2], key) = f[2][key]
                            /\ builtin_kvsGet(m[3], key) = f[1][key]
       /\ \A i \in 1..3 :
            LET g == f[IF i = 2 THEN 2 ELSE 1]
            IN /\ m[i].size = Cardinality(Mapped(g)) /\ Len(Cells(m[i])) = m[i].size
               /\ ToSet(Cells(m[i])) = {<<key, g[key]>> : key \in Mapped(g)}
       /\ IsInjective(diff)
       /\ ToSet(diff) = {<<key, f[1][key], f[2][key]>> :
                           key \in {k \in Keys : f[1][k] # f[2][k]}}

\* An index handed out for an address stays its index, and is decompressed to
\* that address: the two halves of the address table are inverse.
TableInverse ==
  input[1] = "table" =>
    /\ input[2].size = Len(input[3])
    /\ \A i \in DOMAIN input[3] :
         /\ addressTable_getByIndex(input[2], i - 1) = <<input[3][i]>>
         /\ addressTable_getByAddress(input[2], input[3][i]) = <<i - 1>>
    /\ addressTable_getByIndex(input[2], Len(input[3])) = <<>>

\* Every container does what its abstract value does - bytes, a sequence, a
\* bag, a map, an injection - after every sequence of its operations, across
\* the blocks, growths and deletions its representation goes through.
ContainersHold ==
  /\ BufferHoldsBytes /\ ArrayHolds /\ GrowingArrayHolds
  /\ QueueIsFifo /\ StackKeepsTop /\ HeapGivesLargest
  /\ TriesAreMaps /\ TableInverse

=============================================================================
