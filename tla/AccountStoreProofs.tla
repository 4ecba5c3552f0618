------------------------- MODULE AccountStoreProofs -------------------------
(***************************************************************************)
(* What the total of a balance function is worth: it is a natural number,  *)
(* bounds each balance, and follows an update of one balance.              *)
(***************************************************************************)
EXTENDS AccountStore, FiniteSetTheorems, TLAPS

Balances(S) == [S -> UInt]

\* What the proofs use of 256-bit numbers: they are naturals, and a sum that
\* fits is not changed by wrapping.
LEMMA UIntFacts == /\ UInt \subseteq Nat
                   /\ \A n \in UInt : n <= MaxUint
                   /\ \A n \in Nat : n <= MaxUint => n \in UInt /\ Wrap(n) = n
  BY UintAssumption DEF UInt, Wrap

\* The coins of one owner, as many as its balance.
LEMMA OwnCoins ==
  ASSUME NEW a, NEW n \in UInt
  PROVE  /\ IsFiniteSet({a} \X (1 .. n))
         /\ Cardinality({a} \X (1 .. n)) = n
<1>1. IsFiniteSet({a}) /\ Cardinality({a}) = 1
  BY FS_Singleton, SMTT(30)
<1>2. n \in Nat
  BY UIntFacts
<1>3. IsFiniteSet(1 .. n) /\ Cardinality(1 .. n) = n
  BY <1>2, FS_Interval
<1>4. /\ IsFiniteSet({a} \X (1 .. n))
      /\ Cardinality({a} \X (1 .. n)) = Cardinality({a}) * Cardinality(1 .. n)
  BY <1>1, <1>3, FS_Product, Zenon
<1> QED
  BY <1>1, <1>2, <1>3, <1>4

\* A balance sheet has finitely many coins.
LEMMA CoinsFinite ==
  ASSUME NEW S, IsFiniteSet(S), NEW f \in Balances(S)
  PROVE  IsFiniteSet(Coins(f))
<1>1. IsFiniteSet(1 .. MaxUint)
  BY UintAssumption, FS_Interval
<1>2. IsFiniteSet(S \X (1 .. MaxUint))
  BY <1>1, FS_Product, Zenon
<1>3. Coins(f) \subseteq S \X (1 .. MaxUint)
  BY DEF Coins, Balances
<1> QED
  BY <1>2, <1>3, FS_Subset

\* The total of a balance sheet is a natural number.
LEMMA TotalType ==
  ASSUME NEW S, IsFiniteSet(S), NEW f \in Balances(S)
  PROVE  Total(f) \in Nat
  BY CoinsFinite, FS_CardinalityType DEF Total

\* The coins split into those of a and those of the others.
LEMMA CoinsSplit ==
  ASSUME NEW S, IsFiniteSet(S), NEW f \in Balances(S), NEW a \in S
  PROVE  LET rest == {c \in Coins(f) : c[1] # a}
         IN  /\ IsFiniteSet(rest)
             /\ Cardinality(rest) \in Nat
             /\ Total(f) = Cardinality(rest) + f[a]
<1> DEFINE rest == {c \in Coins(f) : c[1] # a}
           own == {a} \X (1 .. f[a])
<1>1. f[a] \in UInt
  BY DEF Balances
<1>2. IsFiniteSet(own) /\ Cardinality(own) = f[a]
  BY <1>1, OwnCoins, Zenon
<1>3. IsFiniteSet(rest) /\ Cardinality(rest) \in Nat
  <2>1. rest \subseteq Coins(f)
    OBVIOUS
  <2> QED
    BY <2>1, CoinsFinite, FS_Subset, FS_CardinalityType
<1>4. Coins(f) = rest \cup own
  <2>1. ASSUME NEW c \in own
        PROVE  c \in Coins(f)
    <3>1. PICK i \in 1 .. f[a] : c = <<a, i>>
      OBVIOUS
    <3>2. i \in 1 .. MaxUint /\ i <= f[a]
      BY <1>1, <3>1, UintAssumption DEF UInt
    <3> QED
      BY <3>1, <3>2 DEF Coins, Balances
  <2>2. ASSUME NEW c \in Coins(f), c[1] = a
        PROVE  c \in own
    <3>1. PICK b \in S, i \in 1 .. MaxUint : c = <<b, i>> /\ i <= f[b]
      BY DEF Coins, Balances
    <3>2. b = a /\ i \in 1 .. f[a]
      BY <1>1, <2>2, <3>1, UintAssumption DEF UInt
    <3> QED
      BY <3>1, <3>2
  <2> QED
    BY <2>1, <2>2
<1>5. rest \cap own = {}
  OBVIOUS
<1>6. Cardinality(rest \cap own) = 0
  BY <1>5, FS_EmptySet
<1> HIDE DEF rest, own
<1>7. Cardinality(rest \cup own)
        = Cardinality(rest) + Cardinality(own) - Cardinality(rest \cap own)
  BY <1>2, <1>3, FS_Union
<1>8. f[a] \in Nat
  BY <1>1, UIntFacts, Zenon
<1>9. Total(f) = Cardinality(rest) + f[a]
  <2>1. Total(f) = Cardinality(rest \cup own)
    BY <1>4 DEF Total
  <2> QED
    BY <1>2, <1>3, <1>6, <1>7, <1>8, <2>1
<1> USE DEF rest
<1> QED
  BY <1>3, <1>9

\* No balance exceeds the total.
LEMMA TotalBounds ==
  ASSUME NEW S, IsFiniteSet(S), NEW f \in Balances(S), NEW a \in S
  PROVE  f[a] <= Total(f)
<1>1. f[a] \in Nat
  BY UIntFacts, Zenon DEF Balances
<1> DEFINE r == Cardinality({c \in Coins(f) : c[1] # a})
<1>2. r \in Nat /\ Total(f) = r + f[a]
  BY CoinsSplit
<1> HIDE DEF r
<1> QED
  BY <1>1, <1>2

\* Setting one balance changes the total by the difference.
LEMMA TotalUpdate ==
  ASSUME NEW S, IsFiniteSet(S), NEW f \in Balances(S), NEW a \in S,
         NEW n \in UInt
  PROVE  /\ [f EXCEPT ![a] = n] \in Balances(S)
         /\ Total([f EXCEPT ![a] = n]) + f[a] = Total(f) + n
<1> DEFINE g == [f EXCEPT ![a] = n]
           r(h) == Cardinality({c \in Coins(h) : c[1] # a})
<1>1. g \in Balances(S) /\ g[a] = n
  BY DEF Balances
<1>2. r(f) = r(g)
  <2>1. {c \in Coins(f) : c[1] # a} = {c \in Coins(g) : c[1] # a}
    BY DEF Coins, Balances
  <2> QED
    BY <2>1, Zenon
<1>3. f[a] \in Nat /\ n \in Nat
  BY UIntFacts, Zenon DEF Balances
<1>4. r(f) \in Nat /\ Total(f) = r(f) + f[a]
  BY CoinsSplit
<1>5. Total(g) = r(g) + g[a]
  BY <1>1, CoinsSplit, Zenon
<1> HIDE DEF g, r
<1>6. Total(g) + f[a] = Total(f) + n
  BY <1>1, <1>2, <1>3, <1>4, <1>5
<1> QED
  BY <1>1, <1>6 DEF g

\* A function that is 0 everywhere has no coins.
LEMMA TotalZero ==
  ASSUME NEW S
  PROVE  Total([a \in S |-> 0]) = 0
<1>1. Coins([a \in S |-> 0]) = {}
  BY UintAssumption DEF Coins
<1> QED
  BY <1>1, FS_EmptySet DEF Total
=============================================================================
