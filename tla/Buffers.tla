------------------------------ MODULE Buffers ------------------------------
(***************************************************************************)
(* The byte buffers of the AVM (Buffer, BufferNode and BufferInternal in   *)
(* src/src/mavm.rs): persistent binary trees whose leaves hold one word of *)
(* bytes (32 there, WordBytes here), grown by doubling when a byte past    *)
(* their capacity is set.  Hashes of the nodes are left out.               *)
(*                                                                         *)
(*    <<"leaf", bytes>>                                                    *)
(*    <<"internal", height, capacity, left, right>>                        *)
(***************************************************************************)
EXTENDS Words, Folding

LeafSize == WordBytes

BufferNode_new_empty == <<"leaf", [i \in 1..LeafSize |-> 0]>>

\* A node of height 1 made here is an internal node over two full leaves, of
\* which it uses half each.
RECURSIVE new_empty_internal(_, _)
new_empty_internal(height, capacity) ==
  LET child == IF height = 1 THEN BufferNode_new_empty
               ELSE new_empty_internal(height - 1, capacity \div 2)
  IN <<"internal", height, capacity, child, child>>

grow(node) ==
  <<"internal", node[2] + 1, node[3] * 2, node, new_empty_internal(node[2], node[3])>>

grow_from_leaf(leaf) == <<"internal", 2, 2 * LeafSize, leaf, BufferNode_new_empty>>

RECURSIVE BufferNode_read_byte(_, _)
BufferNode_read_byte(node, offset) ==
  IF node[1] = "leaf" THEN node[2][offset + 1]
  ELSE LET half == node[3] \div 2
       IN IF offset < half THEN BufferNode_read_byte(node[4], offset)
          ELSE BufferNode_read_byte(node[5], offset - half)

RECURSIVE BufferNode_set_byte(_, _, _)
BufferNode_set_byte(node, offset, val) ==
  IF node[1] = "leaf" THEN
    IF offset < LeafSize THEN <<"leaf", [node[2] EXCEPT ![offset + 1] = val]>>
    ELSE BufferNode_set_byte(grow_from_leaf(node), offset, val)
  ELSE
    LET half == node[3] \div 2
    IN IF offset < half THEN
         [node EXCEPT ![4] = BufferNode_set_byte(@, offset, val)]
       ELSE IF offset < node[3] THEN
         [node EXCEPT ![5] = BufferNode_set_byte(@, offset - half, val)]
       ELSE BufferNode_set_byte(grow(node), offset, val)

Buffer_new_empty == [root |-> BufferNode_new_empty, size |-> 0]

read_byte(buf, offset) ==
  IF offset >= buf.size THEN 0 ELSE BufferNode_read_byte(buf.root, offset)

set_byte(buf, offset, val) ==
  [root |-> BufferNode_set_byte(buf.root, offset, val),
   size |-> IF offset >= buf.size THEN offset + 1 ELSE buf.size]

\* Sets the bytes of a sequence from an offset on, first to last.
SetBytes(buf, offset, bytes) ==
  FoldHalves(LAMBDA acc, i : set_byte(acc, offset + i - 1, bytes[i]),
             buf, [i \in DOMAIN bytes |-> i])

Buffer_from_bytes(contents) == SetBytes(Buffer_new_empty, 0, contents)

as_bytes(buf, nbytes) == [i \in 1..nbytes |-> read_byte(buf, i - 1)]

=============================================================================
