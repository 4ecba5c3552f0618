---------------------------- MODULE Collections -----------------------------
(***************************************************************************)
(* The containers of the Mini libraries (src/builtin, src/stdlib): arrays, *)
(* queues, stacks, priority queues, growing arrays, tries, and the address *)
(* table ArbOS makes of two of them (src/arb_os/decompression.mini).       *)
(*                                                                         *)
(* BlockSize stands for every 8 of that code: the slots of a tuple, the    *)
(* branches of a trie, the first capacity of a container.  An option is a  *)
(* sequence of at most one element.  The array of a queue or of a heap is  *)
(* an array of this module.                                                *)
(***************************************************************************)
EXTENDS Integers, SequencesExt

CONSTANTS
  BlockSize,   \* the slots of a block
  Hash         \* the hash of a key, a function

newfixedarray(value) == [i \in 0..(BlockSize - 1) |-> value]

-----------------------------------------------------------------------------
(* builtin/array.mini.                                                     *)

builtin_arrayNew(sz, base_val) ==
  LET RECURSIVE Levels(_, _)
      Levels(chunk, base) ==
        IF BlockSize * chunk < sz THEN Levels(BlockSize * chunk, newfixedarray(base))
        ELSE [size |-> sz, topstep |-> chunk, contents |-> newfixedarray(base)]
  IN Levels(1, base_val)

\* The walk down the tree until the items of a slot are fewer than least.
RECURSIVE ArrayWalk(_, _, _, _)
ArrayWalk(res, chunk, index, least) ==
  IF chunk < least THEN [res |-> res, index |-> index]
  ELSE ArrayWalk(res[index \div chunk], chunk \div BlockSize, index % chunk, least)

builtin_arrayGet(arr, index) == ArrayWalk(arr.contents, arr.topstep, index, 1).res

builtin_arrayGetSafe(arr, index) ==
  IF index >= arr.size THEN <<>> ELSE <<builtin_arrayGet(arr, index)>>

builtin_arrayGetConsecutiveSafe(arr, index) ==
  LET at == ArrayWalk(arr.contents, arr.topstep, index, BlockSize)
  IN IF index + 1 >= arr.size THEN <<>>
     ELSE IF index % BlockSize = BlockSize - 1
     THEN <<<<builtin_arrayGet(arr, index), builtin_arrayGet(arr, index + 1)>>>>
     ELSE <<<<at.res[at.index], at.res[at.index + 1]>>>>

RECURSIVE arraySet2(_, _, _, _)
arraySet2(b, chunkSize, index, value) ==
  IF chunkSize = 1 THEN [b EXCEPT ![index] = value]
  ELSE [b EXCEPT ![index \div chunkSize] =
          arraySet2(@, chunkSize \div BlockSize, index % chunkSize, value)]

builtin_arraySet(arr, index, value) ==
  [arr EXCEPT !.contents = arraySet2(@, arr.topstep, index, value)]

\* The closure is a function from the old contents of the slot to the new ones
\* and the result.
RECURSIVE arrayOp2(_, _, _, _)
arrayOp2(b, chunk, index, closure) ==
  LET subIndex == index \div chunk
      sub == arrayOp2(b[subIndex], chunk \div BlockSize, index % chunk, closure)
  IN IF chunk = 1 THEN [bloc |-> [b EXCEPT ![index] = closure[@][1]], val |-> closure[b[index]][2]]
     ELSE [sub EXCEPT !.bloc = [b EXCEPT ![subIndex] = sub.bloc]]

builtin_arrayOpSafe(arr, index, closure) ==
  LET sub == arrayOp2(arr.contents, arr.topstep, index, closure)
  IN IF index >= arr.size THEN <<>> ELSE <<<<[arr EXCEPT !.contents = sub.bloc], sub.val>>>>

array_resize(a, newSize, baseVal) ==
  LET minSize == IF a.size > newSize THEN newSize ELSE a.size
  IN FoldLeft(LAMBDA ret, i : builtin_arraySet(ret, i - 1, builtin_arrayGet(a, i - 1)),
              builtin_arrayNew(newSize, baseVal), [i \in 1..minSize |-> i])

-----------------------------------------------------------------------------
(* stdlib/queue.mini: the queues; their stack is in Inbox.                 *)

boundedQueue_new(capacity) ==
  [capacity |-> capacity, nextPut |-> 0, nextGet |-> 0,
   contents |-> builtin_arrayNew(capacity, <<>>)]

boundedQueue_isEmpty(q) == q.nextPut = q.nextGet
boundedQueue_isFull(q) == (q.nextPut + 1) % q.capacity = q.nextGet
boundedQueue_size(q) == (q.nextPut + q.capacity - q.nextGet) % q.capacity

boundedQueue_put(q, val) ==
  IF boundedQueue_isFull(q) THEN q
  ELSE [q EXCEPT !.nextPut = (@ + 1) % q.capacity,
                 !.contents = builtin_arraySet(@, q.nextPut, val)]

boundedQueue_get(q) ==
  IF boundedQueue_isEmpty(q) THEN <<>>
  ELSE <<<<[q EXCEPT !.nextGet = (@ + 1) % q.capacity,
                     !.contents = builtin_arraySet(@, q.nextGet, <<>>)],
           builtin_arrayGet(q.contents, q.nextGet)>>>>

boundedQueue_nth(q, n) ==
  IF n < boundedQueue_size(q)
  THEN <<builtin_arrayGet(q.contents, (q.nextGet + n) % q.capacity)>> ELSE <<>>

boundedQueue_set_nth(q, n, value) ==
  IF n < boundedQueue_size(q)
  THEN <<[q EXCEPT !.contents = builtin_arraySet(@, (q.nextGet + n) % q.capacity, value)]>>
  ELSE <<>>

\* Only a larger size is asked for.
boundedQueue_expand(q, newSize) ==
  LET RECURSIVE Move(_, _)
      Move(old, new) ==
        IF boundedQueue_isEmpty(old) THEN new
        ELSE LET res == boundedQueue_get(old)[1] IN Move(res[1], boundedQueue_put(new, res[2]))
  IN Move(q, boundedQueue_new(newSize))

queue_new == boundedQueue_new(BlockSize)

queue_put(q, val) ==
  boundedQueue_put(IF boundedQueue_isFull(q) THEN boundedQueue_expand(q, 2 * q.capacity) ELSE q,
                   val)

-----------------------------------------------------------------------------
(* stdlib/stack.mini: a list of blocks, the last of them filled in part.   *)

stack_new == <<>>

stack_push(stack, value) ==
  IF stack # <<>> /\ stack[1].num < BlockSize
  THEN <<[stack[1] EXCEPT !.top[stack[1].num] = value, !.num = @ + 1]>>
  ELSE <<[top |-> [newfixedarray(<<>>) EXCEPT ![0] = value], num |-> 1, rest |-> stack]>>

stack_pop(stack) ==
  IF stack = <<>> THEN <<>>
  ELSE LET cell == stack[1]
       IN IF cell.num = 1 THEN <<<<cell.rest, cell.top[0]>>>>
          ELSE <<<<<<[cell EXCEPT !.num = @ - 1]>>, cell.top[cell.num - 1]>>>>

RECURSIVE stack_size(_)
stack_size(stack) == IF stack = <<>> THEN 0 ELSE 1 + stack_size(stack_pop(stack)[1][1])

RECURSIVE stack_ddi2(_, _)
stack_ddi2(stack, numToDiscard) ==
  IF stack = <<>> THEN <<stack, numToDiscard>>
  ELSE LET res == stack_pop(stack)[1]
           sub == stack_ddi2(res[1], numToDiscard)
       IN IF sub[2] = 0 THEN <<stack_push(sub[1], res[2]), 0>> ELSE <<sub[1], sub[2] - 1>>

stack_discardDeepestItems(stack, numToDiscard) == stack_ddi2(stack, numToDiscard)[1]

-----------------------------------------------------------------------------
(* stdlib/priorityq.mini: a heap in an array, the largest priority first.  *)

Nth(pq, i) == builtin_arrayGet(pq.contents, i)
Swapped(pq, i, j) ==
  [pq EXCEPT !.contents = builtin_arraySet(builtin_arraySet(@, i, Nth(pq, j)), j, Nth(pq, i))]

priorityq_new == [size |-> 0, capacity |-> BlockSize, contents |-> builtin_arrayNew(BlockSize, <<>>)]

RECURSIVE pq_pushDown(_, _)
pq_pushDown(pq, index) ==
  LET first == 2 * index + 1
      kid == IF first + 1 = pq.size THEN first
             ELSE IF Nth(pq, first).priority > Nth(pq, first + 1).priority THEN first
             ELSE first + 1
  IN IF first >= pq.size THEN pq
     ELSE IF Nth(pq, kid).priority > Nth(pq, index).priority
     THEN pq_pushDown(Swapped(pq, index, kid), kid)
     ELSE pq

RECURSIVE pq_pushUp(_, _)
pq_pushUp(pq, index) ==
  LET parent == (index - 1) \div 2
  IN IF index = 0 THEN pq
     ELSE IF Nth(pq, parent).priority >= Nth(pq, index).priority THEN pq
     ELSE pq_pushUp(Swapped(pq, index, parent), parent)

\* The item of the largest priority and the rest.
priorityq_get(pq) ==
  IF pq.size = 0 THEN <<>>
  ELSE LET left == [pq EXCEPT !.size = @ - 1,
                              !.contents = builtin_arraySet(@, 0, Nth(pq, pq.size - 1))]
       IN <<<<Nth(pq, 0).item, pq_pushDown(left, 0)>>>>

priorityq_insert(pq, item, priority) ==
  LET grown == IF pq.size < pq.capacity THEN pq
               ELSE [pq EXCEPT !.capacity = BlockSize * @,
                               !.contents = array_resize(@, BlockSize * pq.capacity, <<>>)]
  IN pq_pushUp([grown EXCEPT !.size = @ + 1,
                  !.contents = builtin_arraySet(@, pq.size, [priority |-> priority, item |-> item])],
               pq.size)

-----------------------------------------------------------------------------
(* stdlib/expandingIntArray.mini.                                          *)

expandingIntArray_new == [size |-> BlockSize, chunk |-> 1, contents |-> newfixedarray(0)]

expandingIntArray_get(arr, index) ==
  IF index >= arr.size THEN 0 ELSE ArrayWalk(arr.contents, arr.chunk, index, 1).res

\* Two neighbours: the walk ends early where they are in different subtrees.
RECURSIVE ConsecutiveFrom(_, _, _)
ConsecutiveFrom(tree, chunk, index) ==
  LET offset == index % chunk
      lo == index \div chunk
  IN IF chunk = 1 THEN <<tree[index], tree[index + 1]>>
     ELSE IF offset + 1 = chunk
     THEN <<ArrayWalk(tree[lo], chunk \div BlockSize, chunk - 1, 1).res,
            ArrayWalk(tree[lo + 1], chunk \div BlockSize, 0, 1).res>>
     ELSE ConsecutiveFrom(tree[lo], chunk \div BlockSize, offset)

expandingIntArray_getConsecutive(arr, index) ==
  IF index + 1 >= arr.size THEN <<expandingIntArray_get(arr, index), 0>>
  ELSE ConsecutiveFrom(arr.contents, arr.chunk, index)

expandingIntArray_grow(arr) ==
  LET RECURSIVE Levels(_, _)
      Levels(contents, chunk) ==
        IF chunk <= arr.chunk THEN Levels(newfixedarray(contents), chunk * BlockSize)
        ELSE [size |-> BlockSize * chunk, chunk |-> chunk,
              contents |-> [contents EXCEPT ![0] = arr.contents]]
  IN Levels(newfixedarray(0), 1)

\* inChunk is one here: the way back through the unwinder is arraySet2's.
RECURSIVE expandingIntArray_set(_, _, _)
expandingIntArray_set(arr, index, value) ==
  IF index + 1 > arr.size THEN expandingIntArray_set(expandingIntArray_grow(arr), index, value)
  ELSE [arr EXCEPT !.contents = arraySet2(@, arr.chunk, index, value)]

-----------------------------------------------------------------------------
(* builtin/kvs.mini and stdlib/storageMap.mini.  A node is empty, a cell   *)
(* with a key and a value, or a block of nodes; the digits of the hash are *)
(* the way to a key, of the key itself in a storage map.  The value 0 is   *)
(* no value.                                                               *)

Empty == <<"empty">>

RECURSIVE NodeGet(_, _, _)
NodeGet(s, key, way) ==
  CASE s = Empty -> 0
    [] s[1] = "cell" -> IF s[2] = key THEN s[3] ELSE 0
    [] OTHER -> NodeGet(s[2][way % BlockSize], key, way \div BlockSize)

\* Mutant: the cell in the way is put under its first digit at every depth.
RECURSIVE NodeSet_top(_, _, _, _, _)
NodeSet_top(s, key, value, reductionFactor, hash) ==
  CASE s = Empty -> [tree |-> IF value = 0 THEN s ELSE <<"cell", key, value>>,
                     delta |-> IF value = 0 THEN 0 ELSE 1]
    [] s[1] = "cell" /\ s[2] = key -> [tree |-> IF value = 0 THEN Empty ELSE <<"cell", key, value>>,
                                       delta |-> IF value = 0 THEN -1 ELSE 0]
    [] s[1] = "cell" /\ s[2] # key ->
         IF reductionFactor > BlockSize * BlockSize * BlockSize THEN [tree |-> s, delta |-> 0]
         ELSE NodeSet_top(<<"node", [newfixedarray(Empty) EXCEPT ![hash[s[2]] % BlockSize] = s]>>,
                          key, value, reductionFactor, hash)
    [] s[1] = "node" ->
         LET slot == (hash[key] \div reductionFactor) % BlockSize
             sub == NodeSet_top(s[2][slot], key, value, reductionFactor * BlockSize, hash)
         IN [sub EXCEPT !.tree = <<"node", [s[2] EXCEPT ![slot] = sub.tree]>>]

\* The node after the write, put back into its parents by the unwinder, and
\* the change of the size.
RECURSIVE NodeSet(_, _, _, _, _)
NodeSet(s, key, value, reductionFactor, hash) ==
  CASE s = Empty -> [tree |-> IF value = 0 THEN s ELSE <<"cell", key, value>>,
                     delta |-> IF value = 0 THEN 0 ELSE 1]
    [] s[1] = "cell" /\ s[2] = key -> [tree |-> IF value = 0 THEN Empty ELSE <<"cell", key, value>>,
                                       delta |-> IF value = 0 THEN -1 ELSE 0]
    [] s[1] = "cell" /\ s[2] # key ->
         NodeSet(<<"node", [newfixedarray(Empty) EXCEPT
                              ![(hash[s[2]] \div reductionFactor) % BlockSize] = s]>>,
                 key, value, reductionFactor, hash)
    [] s[1] = "node" ->
         LET slot == (hash[key] \div reductionFactor) % BlockSize
             sub == NodeSet(s[2][slot], key, value, reductionFactor * BlockSize, hash)
         IN [sub EXCEPT !.tree = <<"node", [s[2] EXCEPT ![slot] = sub.tree]>>]

\* The cells, in the order they are visited.
RECURSIVE NodeForall(_)
NodeForall(t) ==
  CASE t = Empty -> <<>>
    [] t[1] = "cell" -> <<<<t[2], t[3]>>>>
    [] OTHER -> FlattenSeq([i \in 1..BlockSize |-> NodeForall(t[2][i - 1])])

NewTrie == [tree |-> Empty, size |-> 0]
Written(s, set) == [tree |-> set.tree, size |-> s.size + set.delta]

builtin_kvsGet(kvs, key) == NodeGet(kvs.tree, key, Hash[key])
builtin_kvsSet(s, key, value) == Written(s, NodeSet(s.tree, key, value, 1, Hash))

builtin_kvsDelete(s, key) == Written(s, NodeSet(s.tree, key, 0, 1, Hash))

storageMap_get(kvs, key) == NodeGet(kvs.tree, key, key)
storageMap_set(s, key, value) ==
  Written(s, NodeSet(s.tree, key, value, 1, [k \in DOMAIN Hash |-> k]))

\* The triples of a key and its values in the two maps.
storageMap_diff(s0, s1) ==
  LET Triple(cell) == <<cell[1], cell[2], storageMap_get(s1, cell[1])>>
      Added(cell) == <<cell[1], 0, cell[2]>>
      first == SelectSeq(NodeForall(s0.tree), LAMBDA c : c[2] # storageMap_get(s1, c[1]))
      second == SelectSeq(NodeForall(s1.tree), LAMBDA c : storageMap_get(s0, c[1]) = 0)
  IN [i \in DOMAIN first |-> Triple(first[i])] \o [i \in DOMAIN second |-> Added(second[i])]

-----------------------------------------------------------------------------
(* The address table of decompression.mini: address 0 has index 0.         *)

\* A map from addresses to indices; an index is kept as a value above zero.
addressTable_new ==
  [byIndex |-> expandingIntArray_set(expandingIntArray_new, 0, 0),
   byAddress |-> builtin_kvsSet(NewTrie, 0, 1), size |-> 1]

addressTable_getByIndex(iat, index) ==
  IF index >= iat.size THEN <<>> ELSE <<expandingIntArray_get(iat.byIndex, index)>>

addressTable_getByAddress(iat, addr) ==
  LET found == builtin_kvsGet(iat.byAddress, addr) IN IF found = 0 THEN <<>> ELSE <<found - 1>>

\* The table, the index and whether it is new.
addressTable_getByAddressAlloc(iat, addr) ==
  LET known == addressTable_getByAddress(iat, addr)
  IN IF known # <<>> THEN <<iat, known[1], FALSE>>
     ELSE <<[byIndex |-> expandingIntArray_set(iat.byIndex, iat.size, addr),
             byAddress |-> builtin_kvsSet(iat.byAddress, addr, iat.size + 1),
             size |-> iat.size + 1],
            iat.size, TRUE>>

=============================================================================
