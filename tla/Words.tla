------------------------------- MODULE Words -------------------------------
(***************************************************************************)
(* The 256-bit integers of the compiler and of the emulator                *)
(* (src/src/uint256.rs), at a width the constants choose: 32 bytes of 8    *)
(* bits there, WordBytes bytes of ByteBits bits here.  A usize, 8 bytes of *)
(* the 32, is UsizeBytes of the WordBytes.                                 *)
(*                                                                         *)
(* A function that returns Option<Uint256> returns a sequence of at most   *)
(* one word.                                                               *)
(***************************************************************************)
EXTENDS Integers, Sequences, Bitwise

CONSTANTS ByteBits, WordBytes, UsizeBytes

ASSUME WordsAssumption ==
  /\ ByteBits \in Nat \ {0}
  /\ UsizeBytes \in Nat \ {0}
  /\ WordBytes \in Nat /\ WordBytes >= UsizeBytes

ByteSize == 2 ^ ByteBits
WordBits == ByteBits * WordBytes
WordSize == 2 ^ WordBits
UsizeSize == 2 ^ (ByteBits * UsizeBytes)
max_uint == WordSize - 1

\* A number between 0 and WordSize, exclusive, is what trim leaves of any.
trim(n) == n % WordSize

\* Whether to_usize returns Some.
to_usize(a) == a < UsizeSize

\* a * b % n, by doubling, so that no product exceeds twice n.
RECURSIVE TimesRem(_, _, _)
TimesRem(a, b, n) ==
  IF b = 0 THEN 0 ELSE (2 * TimesRem(a, b \div 2, n) + (b % 2) * (a % n)) % n

add(a, b) == trim(a + b)
sub(a, b) == IF a < b THEN <<>> ELSE <<a - b>>
mul(a, b) == TimesRem(a, b, WordSize)
div(a, b) == IF b = 0 THEN <<>> ELSE <<a \div b>>
modulo(a, b) == IF b = 0 THEN <<>> ELSE <<a % b>>
add_mod(a, b, n) == IF n = 0 THEN <<>> ELSE <<(a + b) % n>>
mul_mod(a, b, n) == IF n = 0 THEN <<>> ELSE <<TimesRem(a, b, n)>>

RECURSIVE exp(_, _)
exp(a, n) ==
  IF n = 0 THEN 1
  ELSE LET half == exp(a, n \div 2)
       IN mul(mul(half, half), IF n % 2 = 1 THEN a ELSE 1)

bitwise_and(a, b) == a & b
bitwise_or(a, b) == a | b
bitwise_xor(a, b) == a ^^ b
bitwise_neg(a) == a ^^ max_uint

unary_minus(a) == IF a = WordSize \div 2 THEN a ELSE add(bitwise_neg(a), 1)

unchecked_sub(a, b) == IF a < b THEN unary_minus(sub(b, a)[1]) ELSE sub(a, b)[1]

shift_left(a, num) == IF num >= WordBits THEN 0 ELSE mul(a, 2 ^ num)
shift_right(a, num) == IF num >= WordBits THEN 0 ELSE a \div 2 ^ num

\* Only a number with the top bit set has 256 bits, and gets the fill.
shift_arith(a, raw_num) ==
  LET num == IF raw_num > WordBits THEN WordBits ELSE raw_num
      val == shift_right(a, num)
  IN IF a < WordSize \div 2 THEN val
     ELSE trim(val + shift_left(max_uint, WordBits - num))

to_signed(a) == IF a < WordSize \div 2 THEN a ELSE a - WordSize
bigint_to_biguint(i) == IF i < 0 THEN i + WordSize ELSE i

s_less_than(a, b) == to_signed(a) < to_signed(b)

Abs(i) == IF i < 0 THEN -i ELSE i

\* Division of BigInt truncates towards zero.
Quotient(i, j) ==
  IF (i < 0) = (j < 0) THEN Abs(i) \div Abs(j) ELSE -(Abs(i) \div Abs(j))

sdiv(a, b) ==
  IF b = 0 THEN <<>>
  ELSE <<bigint_to_biguint(Quotient(to_signed(a), to_signed(b)))>>

\* Mutant: the remainder takes the sign of the divisor, as % of TLA+ does.
smodulo_floor(a, b) ==
  IF b = 0 THEN <<>>
  ELSE LET i == to_signed(a)
           j == to_signed(b)
           r == i % Abs(j)
       IN <<bigint_to_biguint(IF j < 0 /\ r # 0 THEN r + j ELSE r)>>

\* The remainder has the sign of the dividend.
smodulo(a, b) ==
  IF b = 0 THEN <<>>
  ELSE LET i == to_signed(a)
           j == to_signed(b)
       IN <<bigint_to_biguint(i - Quotient(i, j) * j)>>

\* The bytes of a, most significant first.
to_bytes_be(a) ==
  [i \in 1..WordBytes |-> (a \div ByteSize ^ (WordBytes - i)) % ByteSize]

RECURSIVE from_bytes(_)
from_bytes(b) ==
  IF b = <<>> THEN 0
  ELSE ByteSize * from_bytes(SubSeq(b, 1, Len(b) - 1)) + b[Len(b)]

=============================================================================
