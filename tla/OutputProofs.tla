---------------------------- MODULE OutputProofs ----------------------------
(***************************************************************************)
(* Lemmas about what ArbOS emits: the statistics and the indices of        *)
(* receipts keep counting what is in the log, through every receipt, every *)
(* message to L1 and every end of a block.                                 *)
(***************************************************************************)
EXTENDS Output, NaturalsInduction, WellFoundedInduction, FiniteSetTheorems,
        SequenceTheorems, TLAPS

Stats == [numTx : Nat, numEvmLogs : Nat, numLogs : Nat, numSends : Nat]
Data == [numTx : Nat, numEvmLogs : Nat]

Receipt == [t : {"receipt"}, arb : Nat, eth : Nat, time : Nat, side : BOOLEAN,
            index : Nat, firstLog : Nat, evmLogs : {0, 1}]
Block == [t : {"block"}, arb : Nat, eth : Nat, time : Nat, this : Stats, all : Stats,
          last : Int]
Send == [t : {"send"}, batch : Nat, n : Nat]
Tree == [t : {"tree"}, batch : Nat, n : Nat]
Log == Receipt \cup Block \cup Send \cup Tree

OutputState ==
  [this : Stats, all : Stats, data : Data, lastBlockNum : Int, nextSendTime : Nat,
   batchNumber : Nat, numInBatch : Nat, queued : Seq(Send), logs : Seq(Log),
   sends : Seq([batch : Nat, n : Nat])]

-----------------------------------------------------------------------------
(* Positions in a log.                                                     *)
At(L, t) == {j \in DOMAIN L : L[j].t = t}
Evm(L) == {j \in At(L, "receipt") : L[j].evmLogs = 1}

Below(S, i) == {j \in S : j < i}
Above(S, i) == {j \in S : i < j}
Between(S, i, k) == {j \in S : i < j /\ j < k}

\* Receipts before i in the block of i.
Same(L, i) == {j \in Below(At(L, "receipt"), i) :
                 Cardinality(Below(At(L, "block"), j)) = Cardinality(Below(At(L, "block"), i))}

BlockOK(L, i) ==
  /\ L[i].arb = Cardinality(Below(At(L, "block"), i))
  /\ L[i].last = L[i].arb - 1
  /\ \A j \in Below(At(L, "block"), i) : L[j].eth <= L[i].eth /\ L[j].time <= L[i].time
  /\ L[i].all.numLogs = i
  /\ L[i].all.numTx = Cardinality(Below(At(L, "receipt"), i))
  /\ L[i].all.numSends = Cardinality(Below(At(L, "tree"), i))
  /\ L[i].all.numEvmLogs = Cardinality(Below(Evm(L), i))
  /\ Below(At(L, "block"), i) = {} => L[i].this = Added(outputStats_new, L[i].all)
  /\ \A j \in Below(At(L, "block"), i) :
       Between(At(L, "block"), j, i) = {} => L[i].this = Added(L[j].all, L[i].all)

ReceiptOK(L, i) ==
  /\ L[i].arb = Cardinality(Below(At(L, "block"), i))
  /\ L[i].index = Cardinality(Same(L, i))
  /\ L[i].firstLog = Cardinality(Same(L, i) \cap Evm(L))

Within(r, eth, time) == /\ ~r.side => r.eth = eth /\ r.time = time
                        /\ r.side => r.eth >= eth /\ r.time >= time

\* The receipts of a block have its L1 block number and timestamp; those of
\* the block that has not ended have eth and time.
Placed(L, eth, time) ==
  \A i \in At(L, "receipt") :
    /\ \A j \in At(L, "block") : i < j /\ Between(At(L, "block"), i, j) = {} =>
                                   Within(L[i], L[j].eth, L[j].time)
    /\ Above(At(L, "block"), i) = {} => Within(L[i], eth, time)

Chain(L) == /\ \A i \in At(L, "block") : BlockOK(L, i)
            /\ \A i \in At(L, "receipt") : ReceiptOK(L, i)

\* p is the position of the last summary, 0 before the first one, and all that
\* summary's totals; data counts the receipts after it.
Tally(L, p, all, data, arb) ==
  /\ p \in 0 .. Len(L) /\ p = all.numLogs
  /\ \A j \in p + 1 .. Len(L) : j \in At(L, "receipt")
  /\ p = 0 => all = outputStats_new
  /\ p # 0 => p \in At(L, "block") /\ L[p].all = all
  /\ data.numTx = Len(L) - p
  /\ data.numEvmLogs = Cardinality(Above(Evm(L), p))
  /\ Cardinality(At(L, "block")) = arb
  /\ Cardinality(At(L, "receipt")) = all.numTx + data.numTx
  /\ Cardinality(At(L, "tree")) = all.numSends
  /\ Cardinality(Evm(L)) = all.numEvmLogs + data.numEvmLogs

\* statsThisBlock, when q logs are queued.
This(data, q) == [numTx |-> data.numTx, numEvmLogs |-> data.numEvmLogs,
                  numLogs |-> data.numTx + q, numSends |-> 0]

\* The fields of the statistics of a block.
LEMMA ThisFields ==
  ASSUME NEW data, NEW q
  PROVE  /\ This(data, q).numTx = data.numTx /\ This(data, q).numEvmLogs = data.numEvmLogs
         /\ This(data, q).numLogs = data.numTx + q /\ This(data, q).numSends = 0
  BY Zenon DEF This

Latest(L, eth, time) == \A j \in At(L, "block") : L[j].eth <= eth /\ L[j].time <= time

Books(o, arb, eth, time) ==
  /\ o \in OutputState
  /\ Chain(o.logs) /\ Placed(o.logs, eth, time) /\ Latest(o.logs, eth, time)
  /\ Tally(o.logs, o.all.numLogs, o.all, o.data, arb)
  /\ o.this = This(o.data, Len(o.queued))
  /\ o.lastBlockNum = arb - 1

-----------------------------------------------------------------------------
(* What is in the log stays as it is when more is appended.                *)
Prefix(L, L2) ==
  /\ DOMAIN L \subseteq DOMAIN L2 /\ DOMAIN L2 \subseteq Nat
  /\ \A j \in DOMAIN L : L2[j] = L[j]
  /\ \A i \in DOMAIN L, j \in DOMAIN L2 : j <= i => j \in DOMAIN L

Agree(L, L2, i) ==
  /\ \A t : /\ Below(At(L2, t), i) = Below(At(L, t), i)
            /\ i \in At(L2, t) <=> i \in At(L, t)
            /\ \A j : Between(At(L2, t), j, i) = Between(At(L, t), j, i)
  /\ Below(Evm(L2), i) = Below(Evm(L), i)
  /\ i \in Evm(L2) <=> i \in Evm(L)

\* Below a position, a longer log agrees.
LEMMA SameBelow ==
  ASSUME NEW L, NEW L2, Prefix(L, L2), NEW i \in DOMAIN L
  PROVE  Agree(L, L2, i)
<1>1. \A j \in DOMAIN L2 : j < i => j \in DOMAIN L
  BY DEF Prefix
<1>2. \A j \in DOMAIN L : j \in DOMAIN L2 /\ L2[j] = L[j]
  BY DEF Prefix
<1>3. ASSUME NEW t PROVE Below(At(L2, t), i) = Below(At(L, t), i)
  BY <1>1, <1>2, Zenon DEF Below, At
<1>4. ASSUME NEW t, NEW j PROVE Between(At(L2, t), j, i) = Between(At(L, t), j, i)
  BY <1>1, <1>2, Zenon DEF Between, At
<1>5. \A t : i \in At(L2, t) <=> i \in At(L, t)
  BY <1>2, Zenon DEF At
<1>6. Below(Evm(L2), i) = Below(Evm(L), i) /\ (i \in Evm(L2) <=> i \in Evm(L))
  BY <1>1, <1>2, Zenon DEF Below, Evm, At
<1> QED
  BY <1>3, <1>4, <1>5, <1>6, Zenon DEF Agree

\* A block summary stays right when the log grows.
LEMMA BlockStays ==
  ASSUME NEW L, NEW L2, Prefix(L, L2), NEW i \in DOMAIN L, BlockOK(L, i)
  PROVE  BlockOK(L2, i)
<1>1. L2[i] = L[i] /\ \A j \in Below(At(L, "block"), i) : L2[j] = L[j]
  BY Zenon DEF Prefix, Below, At
<1>2. /\ Below(At(L2, "block"), i) = Below(At(L, "block"), i)
      /\ Below(At(L2, "receipt"), i) = Below(At(L, "receipt"), i)
      /\ Below(At(L2, "tree"), i) = Below(At(L, "tree"), i)
      /\ Below(Evm(L2), i) = Below(Evm(L), i)
      /\ \A j : Between(At(L2, "block"), j, i) = Between(At(L, "block"), j, i)
  <2>1. Agree(L, L2, i)
    BY SameBelow, Zenon
  <2> QED
    BY <2>1, Zenon DEF Agree
<1> QED
  BY <1>1, <1>2, Zenon DEF BlockOK

\* A receipt stays right when the log grows.
LEMMA ReceiptStays ==
  ASSUME NEW L, NEW L2, Prefix(L, L2), NEW i \in DOMAIN L, ReceiptOK(L, i)
  PROVE  ReceiptOK(L2, i)
<1>1. L2[i] = L[i]
  BY Zenon DEF Prefix
<1>2. /\ Below(At(L2, "block"), i) = Below(At(L, "block"), i)
      /\ Below(At(L2, "receipt"), i) = Below(At(L, "receipt"), i)
  <2>1. Agree(L, L2, i)
    BY SameBelow, Zenon
  <2> QED
    BY <2>1, Zenon DEF Agree
<1>3. ASSUME NEW j \in Below(At(L, "receipt"), i)
      PROVE  /\ Below(At(L2, "block"), j) = Below(At(L, "block"), j)
             /\ j \in Evm(L2) <=> j \in Evm(L)
  <2>1. j \in DOMAIN L
    BY Zenon DEF Below, At
  <2>2. Agree(L, L2, j)
    BY <2>1, SameBelow, Zenon
  <2> QED
    BY <2>2, Zenon DEF Agree
<1>4. Same(L2, i) = Same(L, i)
  BY <1>2, <1>3, Zenon DEF Same
<1>5. Same(L, i) \cap Evm(L2) = Same(L, i) \cap Evm(L)
  BY <1>3, Zenon DEF Same
<1> QED
  BY <1>1, <1>2, <1>4, <1>5, Zenon DEF ReceiptOK

\* The chain of blocks grows with the log.
LEMMA ChainStays ==
  ASSUME NEW L, NEW L2, Prefix(L, L2), Chain(L),
         \A i \in At(L2, "block") : i \notin DOMAIN L => BlockOK(L2, i),
         \A i \in At(L2, "receipt") : i \notin DOMAIN L => ReceiptOK(L2, i)
  PROVE  Chain(L2)
<1>1. ASSUME NEW i \in At(L2, "block"), i \in DOMAIN L PROVE BlockOK(L2, i)
  BY <1>1, SameBelow, BlockStays, Zenon DEF Chain, Agree
<1>2. ASSUME NEW i \in At(L2, "receipt"), i \in DOMAIN L PROVE ReceiptOK(L2, i)
  BY <1>2, SameBelow, ReceiptStays, Zenon DEF Chain, Agree
<1> QED
  BY <1>1, <1>2, Zenon DEF Chain

\* The positions of a log are finite in number.
LEMMA LogFacts ==
  ASSUME NEW L \in Seq(Log)
  PROVE  /\ Len(L) \in Nat /\ DOMAIN L = 1 .. Len(L)
         /\ \A t : At(L, t) \subseteq 1 .. Len(L) /\ IsFiniteSet(At(L, t))
         /\ Evm(L) \subseteq At(L, "receipt") /\ Evm(L) \subseteq 1 .. Len(L)
         /\ IsFiniteSet(Evm(L))
<1>1. Len(L) \in Nat /\ DOMAIN L = 1 .. Len(L)
  BY LenProperties
<1>2. IsFiniteSet(1 .. Len(L))
  BY <1>1, FS_Interval
<1>3. \A t : At(L, t) \subseteq 1 .. Len(L)
  BY <1>1, Zenon DEF At
<1>4. Evm(L) \subseteq At(L, "receipt") /\ Evm(L) \subseteq 1 .. Len(L)
  BY <1>3, Zenon DEF Evm
<1> QED
  BY <1>1, <1>2, <1>3, <1>4, FS_Subset, Zenon

\* Blocks and receipts are different positions.
LEMMA Apart ==
  ASSUME NEW L, NEW i
  PROVE  ~ (i \in At(L, "block") /\ i \in At(L, "receipt"))
  BY DEF At

\* One more position is counted once.
LEMMA OneMoreIn ==
  ASSUME NEW n \in Nat, NEW S, S \subseteq 1 .. n, IsFiniteSet(S)
  PROVE  Cardinality(S \cup {n + 1}) = Cardinality(S) + 1 /\ n + 1 \notin S
<1>1. n + 1 \notin S
  OBVIOUS
<1> QED
  BY <1>1, FS_AddElement, Zenon

\* Where a receipt goes in the log.
LEMMA ReceiptAt ==
  ASSUME NEW L \in Seq(Log), NEW r \in Receipt
  PROVE  /\ Prefix(L, Append(L, r)) /\ Append(L, r) \in Seq(Log)
         /\ Len(Append(L, r)) = Len(L) + 1 /\ Append(L, r)[Len(L) + 1] = r
         /\ DOMAIN Append(L, r) = DOMAIN L \cup {Len(L) + 1} /\ Len(L) + 1 \notin DOMAIN L
         /\ At(Append(L, r), "block") = At(L, "block")
         /\ At(Append(L, r), "receipt") = At(L, "receipt") \cup {Len(L) + 1}
         /\ At(Append(L, r), "tree") = At(L, "tree")
         /\ r.evmLogs = 1 => Evm(Append(L, r)) = Evm(L) \cup {Len(L) + 1}
         /\ r.evmLogs = 0 => Evm(Append(L, r)) = Evm(L)
<1> DEFINE M == Append(L, r)
           n == Len(L) + 1
<1>1. r \in Log /\ r.t = "receipt" /\ r.evmLogs \in {0, 1}
  BY Zenon DEF Log, Receipt
<1>2. /\ M \in Seq(Log) /\ Len(M) = n /\ M[n] = r /\ \A j \in 1 .. Len(L) : M[j] = L[j]
  BY <1>1, AppendProperties
<1>3. Len(L) \in Nat /\ DOMAIN L = 1 .. Len(L) /\ DOMAIN M = 1 .. n
  BY <1>2, LenProperties
<1> HIDE DEF M
<1>4. /\ DOMAIN M = DOMAIN L \cup {n} /\ n \notin DOMAIN L /\ DOMAIN M \subseteq Nat
      /\ \A i \in DOMAIN L, j \in DOMAIN M : j <= i => j \in DOMAIN L
  BY <1>3
<1>5. \A j \in DOMAIN L : M[j] = L[j]
  BY <1>2, <1>3, Zenon
<1> HIDE DEF n
<1>6. Prefix(L, M)
  BY <1>4, <1>5, Zenon DEF Prefix
<1>7. /\ At(M, "block") = At(L, "block") /\ At(M, "tree") = At(L, "tree")
      /\ At(M, "receipt") = At(L, "receipt") \cup {n}
  <2>1. r.t # "block" /\ r.t # "tree"
    BY <1>1
  <2> QED
    BY <1>1, <1>2, <1>4, <1>5, <2>1, Zenon DEF At
<1>8. /\ r.evmLogs = 1 => Evm(M) = Evm(L) \cup {n}
      /\ r.evmLogs = 0 => Evm(M) = Evm(L)
  <2>1. r.evmLogs = 0 => r.evmLogs # 1
    OBVIOUS
  <2>2. \A j \in At(L, "receipt") : M[j] = L[j]
    BY <1>5, Zenon DEF At
  <2> QED
    BY <1>2, <1>7, <2>1, <2>2, Zenon DEF Evm
<1> QED
  BY <1>2, <1>4, <1>6, <1>7, <1>8, Zenon DEF M, n

\* The receipts since the last summary are those of the block.
LEMMA OpenBlock ==
  ASSUME NEW L \in Seq(Log), NEW p, NEW all, NEW data, NEW arb, Tally(L, p, all, data, arb)
  PROVE  /\ p \in Nat /\ p <= Len(L)
         /\ Below(At(L, "block"), Len(L) + 1) = At(L, "block")
         /\ \A j \in At(L, "block") : j <= p
         /\ \A j \in At(L, "receipt") :
              Cardinality(Below(At(L, "block"), j)) = Cardinality(At(L, "block")) <=> p < j
<1> DEFINE B == At(L, "block")
           R == At(L, "receipt")
<1>1. /\ p \in 0 .. Len(L) /\ (p # 0 => p \in B) /\ \A j \in p + 1 .. Len(L) : j \in R
  BY Zenon DEF Tally
<1>2. /\ Len(L) \in Nat /\ B \subseteq 1 .. Len(L) /\ R \subseteq 1 .. Len(L) /\ IsFiniteSet(B)
  BY LogFacts, Zenon
<1>3. \A j : ~ (j \in B /\ j \in R)
  BY Apart, Zenon
<1> HIDE DEF B, R
<1>4. \A j \in B : j <= p
  BY <1>1, <1>2, <1>3
<1>5. Below(B, Len(L) + 1) = B
  <2>1. \A j \in B : j < Len(L) + 1
    BY <1>2
  <2> QED
    BY <2>1, Zenon DEF Below
<1>6. ASSUME NEW j \in R, p < j PROVE Below(B, j) = B
  <2>1. \A k \in B : k < j
    BY <1>1, <1>2, <1>4, <1>6
  <2> QED
    BY <2>1, Zenon DEF Below
<1>7. ASSUME NEW j \in R, Cardinality(Below(B, j)) = Cardinality(B) PROVE p < j
  <2>1. Below(B, j) \in SUBSET B
    BY DEF Below
  <2>2. Below(B, j) = B
    BY <1>2, <1>7, <2>1, FS_Subset, Zenon
  <2>3. \A k \in B : k < j
    BY <2>2, Zenon DEF Below
  <2> QED
    BY <1>1, <1>2, <2>3
<1> QED
  BY <1>1, <1>2, <1>4, <1>5, <1>6, <1>7 DEF B, R

\* A new receipt has the index and the first log it should have.
LEMMA NewReceipt ==
  ASSUME NEW L \in Seq(Log), NEW p, NEW all, NEW data, NEW arb, Tally(L, p, all, data, arb),
         NEW r \in Receipt, r.arb = arb, r.index = data.numTx, r.firstLog = data.numEvmLogs
  PROVE  ReceiptOK(Append(L, r), Len(L) + 1)
<1> DEFINE M == Append(L, r)
           n == Len(L) + 1
           B == At(L, "block")
           R == At(L, "receipt")
<1>1. /\ Prefix(L, M) /\ M[n] = r /\ At(M, "block") = B /\ At(M, "receipt") = R \cup {n}
      /\ (Evm(M) = Evm(L) \cup {n} \/ Evm(M) = Evm(L))
  <2>1. r.evmLogs \in {0, 1}
    BY Zenon DEF Receipt
  <2>2. r.evmLogs = 0 \/ r.evmLogs = 1
    BY <2>1
  <2> QED
    BY <2>2, ReceiptAt, Zenon
<1>2. /\ p \in Nat /\ p <= Len(L) /\ Below(B, n) = B
      /\ \A j \in R : Cardinality(Below(B, j)) = Cardinality(B) <=> p < j
  BY OpenBlock, Zenon
<1>3. /\ Len(L) \in Nat /\ R \subseteq 1 .. Len(L) /\ Evm(L) \subseteq R
  BY LogFacts, Zenon
<1>4. /\ \A j \in p + 1 .. Len(L) : j \in R
      /\ data.numTx = Len(L) - p /\ data.numEvmLogs = Cardinality(Above(Evm(L), p))
      /\ Cardinality(B) = arb
  BY Zenon DEF Tally
<1> HIDE DEF M, B, R
<1>5. Below(R \cup {n}, n) = R
  <2>1. (\A j \in R : j < n) /\ ~ (n < n)
    BY <1>3
  <2> HIDE DEF n
  <2> QED
    BY <2>1, Zenon DEF Below
<1> HIDE DEF n
<1>6. Same(M, n) = {j \in R : p < j}
  BY <1>1, <1>2, <1>5, Zenon DEF Same
<1>7. {j \in R : p < j} = p + 1 .. Len(L)
  <2>1. \A j \in R : p < j => j \in p + 1 .. Len(L)
    BY <1>2, <1>3
  <2>2. \A j \in p + 1 .. Len(L) : p < j
    BY <1>2, <1>3
  <2> QED
    BY <1>4, <2>1, <2>2, Zenon
<1>8. (p + 1 .. Len(L)) \cap Evm(M) = Above(Evm(L), p)
  <2>1. \A j \in Evm(L) : j \in p + 1 .. Len(L) <=> p < j
    <3>1. \A j \in 1 .. Len(L) : j \in p + 1 .. Len(L) <=> p < j
      BY <1>2, <1>3
    <3> QED
      BY <1>3, <3>1, Zenon
  <2>2. n \notin p + 1 .. Len(L)
    BY <1>3 DEF n
  <2> QED
    BY <1>1, <2>1, <2>2, Zenon DEF Above
<1>9. Cardinality(p + 1 .. Len(L)) = Len(L) - p
  <2>1. p + 1 \in Int /\ Len(L) \in Int
    BY <1>2, <1>3
  <2>2. Cardinality(p + 1 .. Len(L)) = IF p + 1 > Len(L) THEN 0 ELSE Len(L) - (p + 1) + 1
    BY <2>1, FS_Interval
  <2> QED
    BY <1>2, <1>3, <2>2
<1>10. ReceiptOK(M, n)
  BY <1>1, <1>2, <1>4, <1>6, <1>7, <1>8, <1>9, Zenon DEF ReceiptOK
<1> QED
  BY <1>10, Zenon DEF M, n

\* The tally counts a new receipt.
LEMMA ReceiptTally ==
  ASSUME NEW L \in Seq(Log), NEW p, NEW all \in Stats, NEW data \in Data, NEW arb,
         Tally(L, p, all, data, arb), NEW r \in Receipt
  PROVE  Tally(Append(L, r), p, all,
               [numTx |-> data.numTx + 1, numEvmLogs |-> data.numEvmLogs + r.evmLogs], arb)
<1>0. PICK M : M = Append(L, r)
  BY Zenon
<1>00. PICK after : after = [numTx |-> data.numTx + 1, numEvmLogs |-> data.numEvmLogs + r.evmLogs]
  BY Zenon
<1> DEFINE n == Len(L) + 1
           B == At(L, "block")
           R == At(L, "receipt")
           T == At(L, "tree")
           E == Evm(L)
<1>1. /\ Len(M) = n /\ DOMAIN M = DOMAIN L \cup {n} /\ \A j \in DOMAIN L : M[j] = L[j]
      /\ At(M, "block") = B /\ At(M, "receipt") = R \cup {n} /\ At(M, "tree") = T
      /\ r.evmLogs = 1 => Evm(M) = E \cup {n}
      /\ r.evmLogs = 0 => Evm(M) = E
  <2>1. /\ Len(M) = n /\ DOMAIN M = DOMAIN L \cup {n} /\ Prefix(L, M)
        /\ At(M, "block") = B /\ At(M, "receipt") = R \cup {n} /\ At(M, "tree") = T
        /\ r.evmLogs = 1 => Evm(M) = E \cup {n}
        /\ r.evmLogs = 0 => Evm(M) = E
    BY <1>0, ReceiptAt, Zenon
  <2> QED
    BY <2>1, Zenon DEF Prefix
<1>2. /\ Len(L) \in Nat /\ IsFiniteSet(B) /\ IsFiniteSet(R) /\ IsFiniteSet(E)
      /\ R \subseteq 1 .. Len(L) /\ E \subseteq 1 .. Len(L) /\ DOMAIN L = 1 .. Len(L)
  BY LogFacts, Zenon
<1>3. /\ p \in 0 .. Len(L) /\ p = all.numLogs /\ \A j \in p + 1 .. Len(L) : j \in R
      /\ data.numTx = Len(L) - p /\ data.numEvmLogs = Cardinality(Above(E, p))
      /\ Cardinality(B) = arb /\ Cardinality(R) = all.numTx + data.numTx
      /\ Cardinality(T) = all.numSends /\ Cardinality(E) = all.numEvmLogs + data.numEvmLogs
  BY Zenon DEF Tally
<1>4. /\ p = 0 => all = outputStats_new
      /\ p # 0 => p \in B /\ L[p].all = all
  BY Zenon DEF Tally
<1>5. /\ all.numTx \in Nat /\ all.numEvmLogs \in Nat /\ data.numTx \in Nat /\ data.numEvmLogs \in Nat
  BY Zenon DEF Stats, Data
<1>6. r.evmLogs \in {0, 1}
  BY Zenon DEF Receipt
<1>7. after.numTx = data.numTx + 1 /\ after.numEvmLogs = data.numEvmLogs + r.evmLogs
  BY <1>00, Zenon
<1> HIDE DEF B, R, T, E
<1>8. Cardinality(R \cup {n}) = Cardinality(R) + 1
  BY <1>2, OneMoreIn, Zenon
<1>9. p # 0 => p \in B /\ M[p].all = all
  <2>1. p # 0 => p \in DOMAIN L
    BY <1>2, <1>3
  <2> QED
    BY <1>1, <1>4, <2>1, Zenon
<1>10. p \in 0 .. n /\ \A j \in p + 1 .. n : j \in R \cup {n}
  BY <1>2, <1>3
<1>11. /\ after.numEvmLogs = Cardinality(Above(Evm(M), p))
       /\ Cardinality(Evm(M)) = all.numEvmLogs + after.numEvmLogs
  <2>1. CASE r.evmLogs = 0
    BY <1>1, <1>3, <1>5, <1>7, <2>1
  <2>2. CASE r.evmLogs = 1
    <3>1. Evm(M) = E \cup {n}
      BY <1>1, <2>2
    <3>2. Above(E \cup {n}, p) = Above(E, p) \cup {n}
      BY <1>2, <1>3 DEF Above
    <3>3. Above(E, p) \subseteq 1 .. Len(L) /\ IsFiniteSet(Above(E, p))
      <4>1. Above(E, p) \in SUBSET E
        BY DEF Above
      <4> QED
        BY <1>2, <4>1, FS_Subset, Zenon
    <3>4. /\ Cardinality(Above(E, p) \cup {n}) = Cardinality(Above(E, p)) + 1
          /\ Cardinality(E \cup {n}) = Cardinality(E) + 1
      BY <1>2, <3>3, OneMoreIn, Zenon
    <3> QED
      <4> DEFINE x == Cardinality(Above(E, p))
                 y == Cardinality(E)
      <4>1. Cardinality(Above(Evm(M), p)) = x + 1 /\ Cardinality(Evm(M)) = y + 1
        BY <3>1, <3>2, <3>4, Zenon
      <4>2. /\ after.numEvmLogs = data.numEvmLogs + 1
            /\ x = data.numEvmLogs /\ y = all.numEvmLogs + data.numEvmLogs
        BY <1>3, <1>7, <2>2, Zenon
      <4> HIDE DEF x, y
      <4>3. y + 1 = all.numEvmLogs + after.numEvmLogs /\ after.numEvmLogs = x + 1
        BY <1>5, <4>2
      <4> QED
        BY <4>1, <4>3, Zenon
  <2> QED
    BY <1>6, <2>1, <2>2
<1>12. after.numTx = n - p /\ Cardinality(R \cup {n}) = all.numTx + after.numTx
  <2> DEFINE x == Cardinality(R)
             y == Cardinality(R \cup {n})
             l == Len(L)
             d == data.numTx
             e == after.numTx
             f == all.numTx
  <2>1. /\ l \in Nat /\ p \in 0 .. l /\ f \in Nat /\ d \in Nat
        /\ n = l + 1 /\ d = l - p /\ x = f + d /\ e = d + 1 /\ y = x + 1
    BY <1>2, <1>3, <1>5, <1>7, <1>8, Zenon
  <2> HIDE DEF x, y, l, d, e, f, n
  <2>2. e = n - p /\ y = f + e
    BY <2>1
  <2> QED
    BY <2>2, Zenon DEF y, e, f
<1> HIDE DEF n
<1>13. Tally(M, p, all, after, arb)
  BY <1>1, <1>3, <1>4, <1>9, <1>10, <1>11, <1>12, Zenon DEF Tally
<1> QED
  BY <1>0, <1>00, <1>13, Zenon

\* A new receipt is in the block it names.
LEMMA ReceiptPlaced ==
  ASSUME NEW L \in Seq(Log), NEW eth, NEW time, Placed(L, eth, time), Latest(L, eth, time),
         NEW r \in Receipt, Within(r, eth, time)
  PROVE  Placed(Append(L, r), eth, time) /\ Latest(Append(L, r), eth, time)
<1> DEFINE M == Append(L, r)
           n == Len(L) + 1
           B == At(L, "block")
           R == At(L, "receipt")
<1>1. /\ At(M, "block") = B /\ At(M, "receipt") = R \cup {n} /\ M[n] = r
      /\ \A j \in DOMAIN L : M[j] = L[j]
  BY ReceiptAt, Zenon DEF Prefix
<1>2. (\A j \in B : M[j] = L[j]) /\ (\A j \in R : M[j] = L[j])
  BY <1>1, Zenon DEF At
<1>3. \A j \in B : ~ (n < j)
  <2>1. Len(L) \in Nat /\ B \subseteq 1 .. Len(L)
    BY LogFacts, Zenon
  <2> HIDE DEF B
  <2> QED
    BY <2>1
<1> HIDE DEF M, n
<1>4. Placed(M, eth, time)
  BY <1>1, <1>2, <1>3, Zenon DEF Placed
<1>5. Latest(M, eth, time)
  BY <1>1, <1>2, Zenon DEF Latest
<1> QED
  BY <1>4, <1>5, Zenon DEF M

-----------------------------------------------------------------------------
(* The end of a block: the queued logs Q, with a tree at their end when a  *)
(* batch was sent, and the summary b.                                      *)
Trees(Q, s) == /\ Q \in Seq(Send \cup Tree)
               /\ s = 1 => Len(Q) # 0 /\ At(Q, "tree") = {Len(Q)}
               /\ s = 0 => At(Q, "tree") = {}

Grown(L, Q, b, s, M, N) ==
  /\ Prefix(L, M) /\ M \in Seq(Log) /\ Len(M) = N /\ M[N] = b
  /\ Len(Q) \in Nat /\ N \in Nat /\ Len(L) < N
  /\ At(M, "block") = At(L, "block") \cup {N}
  /\ At(M, "receipt") = At(L, "receipt") /\ Evm(M) = Evm(L)
  /\ s = 1 => Len(L) < N - 1 /\ At(M, "tree") = At(L, "tree") \cup {N - 1}
  /\ s = 0 => At(M, "tree") = At(L, "tree")

\* Where the messages and the summary of a block go in the log.
LEMMA BlockAt ==
  ASSUME NEW L \in Seq(Log), NEW Q, NEW s \in {0, 1}, Trees(Q, s), NEW b \in Block
  PROVE  Grown(L, Q, b, s, L \o Append(Q, b), Len(L) + Len(Q) + 1)
<1>0. PICK M, N : M = L \o Append(Q, b) /\ N = Len(L) + Len(Q) + 1
  BY Zenon
<1> DEFINE n == Len(L)
           q == Len(Q)
           K == n + 1 .. n + q
<1>1. /\ Q \in Seq(Log) /\ b \in Log /\ b.t = "block"
      /\ (s = 1 => q # 0 /\ At(Q, "tree") = {q}) /\ (s = 0 => At(Q, "tree") = {})
  <2>1. Send \cup Tree \subseteq Log /\ b \in Log /\ b.t = "block"
    BY Zenon DEF Log, Block
  <2> QED
    BY <2>1 DEF Trees
<1>2. n \in Nat /\ q \in Nat /\ DOMAIN L = 1 .. n /\ DOMAIN Q = 1 .. q
  BY <1>1, LenProperties
<1>3. \A j \in 1 .. q : Q[j].t \in {"send", "tree"}
  <2>1. \A j \in 1 .. q : Q[j] \in Send \cup Tree
    BY <1>2 DEF Trees
  <2> QED
    BY <2>1 DEF Send, Tree
<1>4. /\ M \in Seq(Log) /\ Len(M) = N /\ M[N] = b
      /\ \A j \in 1 .. n : M[j] = L[j]
      /\ \A j \in K : M[j] = Q[j - n] /\ j - n \in 1 .. q
  <2>1. /\ Append(Q, b) \in Seq(Log) /\ Len(Append(Q, b)) = q + 1
        /\ Append(Q, b)[q + 1] = b /\ \A j \in 1 .. q : Append(Q, b)[j] = Q[j]
    BY <1>1, AppendProperties
  <2> DEFINE A == Append(Q, b)
  <2> HIDE DEF A
  <2>2. /\ M \in Seq(Log) /\ Len(M) = n + (q + 1)
        /\ \A j \in 1 .. n + (q + 1) : M[j] = IF j <= n THEN L[j] ELSE A[j - n]
    BY <1>0, <2>1, ConcatProperties DEF A
  <2> QED
    BY <1>0, <1>2, <2>1, <2>2 DEF A
<1>5. DOMAIN M = 1 .. N
  BY <1>4, LenProperties
<1> HIDE DEF n, q
<1>6. /\ DOMAIN M = DOMAIN L \cup K \cup {N} /\ DOMAIN M \subseteq Nat
      /\ \A i \in DOMAIN L, j \in DOMAIN M : j <= i => j \in DOMAIN L
      /\ N \in Nat /\ n < N /\ (s = 1 => n < N - 1)
  BY <1>0, <1>1, <1>2, <1>5 DEF n, q
<1>7. Prefix(L, M)
  BY <1>2, <1>4, <1>6, Zenon DEF Prefix
<1>8. \A j \in K : M[j].t \in {"send", "tree"}
  BY <1>3, <1>4, Zenon
<1>9. \A j \in K : M[j].t # "block" /\ M[j].t # "receipt"
  BY <1>8
<1>10. b.t # "tree" /\ b.t # "receipt"
  BY <1>1
<1>11. \A j \in K : M[j].t = "tree" <=> s = 1 /\ j = N - 1
  <2>1. \A j \in 1 .. q : Q[j].t = "tree" <=> j \in At(Q, "tree")
    BY <1>2, Zenon DEF At
  <2>2. \A j \in 1 .. q : j \in At(Q, "tree") <=> s = 1 /\ j = q
    BY <1>1
  <2>3. \A j \in K : M[j].t = "tree" <=> s = 1 /\ j - n = q
    BY <1>4, <2>1, <2>2, ZenonT(30)
  <2>4. \A j \in K : j - n = q <=> j = N - 1
    BY <1>0, <1>2 DEF n, q
  <2> QED
    BY <2>3, <2>4, Zenon
<1>12. s = 1 => N - 1 \in K
  BY <1>0, <1>1, <1>2 DEF n, q
<1>13. \A j \in DOMAIN L : M[j] = L[j]
  BY <1>2, <1>4, Zenon
<1> HIDE DEF K
<1>14. At(M, "block") = At(L, "block") \cup {N}
  BY <1>1, <1>4, <1>6, <1>9, <1>13, Zenon DEF At
<1>15. At(M, "receipt") = At(L, "receipt")
  BY <1>4, <1>6, <1>9, <1>10, <1>13, ZenonT(30) DEF At
<1>16. Evm(M) = Evm(L)
  <2>1. \A j \in At(L, "receipt") : M[j] = L[j]
    BY <1>13, Zenon DEF At
  <2> QED
    BY <1>15, <2>1, Zenon DEF Evm
<1>17. ASSUME s = 1 PROVE At(M, "tree") = At(L, "tree") \cup {N - 1}
  BY <1>4, <1>6, <1>10, <1>11, <1>12, <1>13, <1>17, ZenonT(30) DEF At
<1>19. s = 0 => ~ (s = 1)
  OBVIOUS
<1>18. ASSUME s = 0 PROVE At(M, "tree") = At(L, "tree")
  BY <1>4, <1>6, <1>10, <1>11, <1>13, <1>18, <1>19, ZenonT(30) DEF At
<1> QED
  BY <1>0, <1>2, <1>4, <1>6, <1>7, <1>14, <1>15, <1>16, <1>17, <1>18, ZenonT(30) DEF n, q, Grown

\* statsThisBlock when the block ends, and the totals after it.
Final(data, q, s) == [numTx |-> data.numTx, numEvmLogs |-> data.numEvmLogs,
                      numLogs |-> data.numTx + q + s, numSends |-> s]
Total(all, this) == [numTx |-> this.numTx + all.numTx,
                     numEvmLogs |-> this.numEvmLogs + all.numEvmLogs,
                     numLogs |-> this.numLogs + all.numLogs + 1,
                     numSends |-> this.numSends + all.numSends]

\* The fields of the statistics of all blocks.
LEMMA TotalFields ==
  ASSUME NEW all, NEW this
  PROVE  /\ Total(all, this).numTx = this.numTx + all.numTx
         /\ Total(all, this).numEvmLogs = this.numEvmLogs + all.numEvmLogs
         /\ Total(all, this).numLogs = this.numLogs + all.numLogs + 1
         /\ Total(all, this).numSends = this.numSends + all.numSends
  BY Zenon DEF Total

Sums(M, N, all, b) ==
  /\ b.all.numLogs = N /\ b.this = Added(all, b.all)
  /\ b.all.numTx = Cardinality(At(M, "receipt"))
  /\ b.all.numSends = Cardinality(At(M, "tree"))
  /\ b.all.numEvmLogs = Cardinality(Evm(M))

NoData == [numTx |-> 0, numEvmLogs |-> 0]

\* q logs were queued, and s is 1 when a batch was sent.
Ends(L, p, all, data, arb, eth, time, Q, q, s, b) ==
  /\ L \in Seq(Log) /\ all \in Stats /\ data \in Data /\ arb \in Nat /\ eth \in Nat /\ time \in Nat
  /\ Tally(L, p, all, data, arb)
  /\ q \in Nat /\ s \in {0, 1} /\ Trees(Q, s) /\ Len(Q) = q + s
  /\ b \in Block /\ b.arb = arb /\ b.eth = eth /\ b.time = time /\ b.last = arb - 1
  /\ b.this = Final(data, q, s) /\ b.all = Total(all, b.this)

\* The summary of a block sums up what the block has emitted.
LEMMA EndFacts ==
  ASSUME NEW L, NEW p, NEW all, NEW data, NEW arb, NEW eth, NEW time, NEW Q, NEW q, NEW s, NEW b,
         Ends(L, p, all, data, arb, eth, time, Q, q, s, b)
  PROVE  Sums(L \o Append(Q, b), Len(L) + Len(Q) + 1, all, b)
<1>0. PICK M, N : M = L \o Append(Q, b) /\ N = Len(L) + Len(Q) + 1
  BY Zenon
<1>1. /\ L \in Seq(Log) /\ all \in Stats /\ data \in Data /\ q \in Nat /\ s \in {0, 1}
      /\ Trees(Q, s) /\ Len(Q) = q + s /\ b \in Block
      /\ b.this = Final(data, q, s) /\ b.all = Total(all, b.this)
      /\ Tally(L, p, all, data, arb)
  BY Zenon DEF Ends
<1>2. /\ all.numTx \in Nat /\ all.numEvmLogs \in Nat /\ all.numLogs \in Nat /\ all.numSends \in Nat
      /\ data.numTx \in Nat /\ data.numEvmLogs \in Nat
  BY <1>1, Zenon DEF Stats, Data
<1>3. /\ b.this.numTx = data.numTx /\ b.this.numEvmLogs = data.numEvmLogs
      /\ b.this.numLogs = data.numTx + q + s /\ b.this.numSends = s
  <2>1. /\ Final(data, q, s).numTx = data.numTx /\ Final(data, q, s).numEvmLogs = data.numEvmLogs
        /\ Final(data, q, s).numLogs = data.numTx + q + s /\ Final(data, q, s).numSends = s
    BY Zenon DEF Final
  <2> QED
    BY <1>1, <2>1, Zenon
<1>4. /\ b.all.numTx = b.this.numTx + all.numTx
      /\ b.all.numEvmLogs = b.this.numEvmLogs + all.numEvmLogs
      /\ b.all.numLogs = b.this.numLogs + all.numLogs + 1
      /\ b.all.numSends = b.this.numSends + all.numSends
  BY <1>1, TotalFields, Zenon
<1>5. /\ p \in 0 .. Len(L) /\ p = all.numLogs /\ data.numTx = Len(L) - p
      /\ Cardinality(At(L, "receipt")) = all.numTx + data.numTx
      /\ Cardinality(At(L, "tree")) = all.numSends
      /\ Cardinality(Evm(L)) = all.numEvmLogs + data.numEvmLogs
  BY <1>1, Zenon DEF Tally
<1>6. /\ Len(L) \in Nat /\ At(L, "tree") \subseteq 1 .. Len(L) /\ IsFiniteSet(At(L, "tree"))
  BY <1>1, LogFacts, Zenon
<1>7. /\ At(M, "receipt") = At(L, "receipt") /\ Evm(M) = Evm(L)
      /\ s = 1 => Len(L) < N - 1 /\ At(M, "tree") = At(L, "tree") \cup {N - 1}
      /\ s = 0 => At(M, "tree") = At(L, "tree")
  <2>1. Grown(L, Q, b, s, M, N)
    BY <1>0, <1>1, BlockAt, Zenon
  <2> QED
    BY <2>1, Zenon DEF Grown
<1>8. b.all.numLogs = N
  <2>1. q \in Nat /\ s \in Nat /\ Len(Q) = q + s
    BY <1>1
  <2>2. b.all.numLogs = (data.numTx + q + s) + all.numLogs + 1
    BY <1>3, <1>4, Zenon
  <2> QED
    BY <1>0, <1>2, <1>5, <1>6, <2>1, <2>2
<1>9. /\ b.all.numTx = Cardinality(At(M, "receipt")) /\ b.all.numEvmLogs = Cardinality(Evm(M))
  BY <1>2, <1>3, <1>4, <1>5, <1>7
<1>10. b.all.numSends = Cardinality(At(M, "tree"))
  <2>1. CASE s = 1
    <3>1. N - 1 \notin At(L, "tree")
      BY <1>6, <1>7, <2>1
    <3>2. Cardinality(At(M, "tree")) = Cardinality(At(L, "tree")) + 1
      BY <1>6, <1>7, <2>1, <3>1, FS_AddElement
    <3> QED
      BY <1>2, <1>3, <1>4, <1>5, <2>1, <3>2
  <2>2. CASE s = 0
    BY <1>2, <1>3, <1>4, <1>5, <1>7, <2>2
  <2> QED
    BY <1>1, <2>1, <2>2
<1>11. b.this = Added(all, b.all)
  <2>1. /\ b.this.numTx = b.all.numTx - all.numTx
        /\ b.this.numEvmLogs = b.all.numEvmLogs - all.numEvmLogs
        /\ b.this.numLogs = (b.all.numLogs - all.numLogs) - 1
        /\ b.this.numSends = b.all.numSends - all.numSends
    <3>1. q \in Nat /\ s \in Nat
      BY <1>1
    <3>2. data.numTx + q + s \in Nat
      BY <1>2, <3>1
    <3>3. /\ b.this.numTx \in Nat /\ b.this.numEvmLogs \in Nat
          /\ b.this.numLogs \in Nat /\ b.this.numSends \in Nat
      BY <1>2, <1>3, <3>1, <3>2, Zenon
    <3> QED
      BY <1>2, <1>4, <3>3
  <2>2. b.this = [numTx |-> b.this.numTx, numEvmLogs |-> b.this.numEvmLogs,
                  numLogs |-> b.this.numLogs, numSends |-> b.this.numSends]
    BY <1>1, Zenon DEF Block, Stats
  <2> QED
    BY <2>1, <2>2, Zenon DEF Added
<1> QED
  BY <1>0, <1>8, <1>9, <1>10, <1>11, ZenonT(30) DEF Sums

\* The tally starts anew after a block summary.
LEMMA BlockTally ==
  ASSUME NEW L, NEW p, NEW all, NEW data, NEW arb, NEW eth, NEW time, NEW Q, NEW q, NEW s, NEW b,
         Ends(L, p, all, data, arb, eth, time, Q, q, s, b)
  PROVE  Tally(L \o Append(Q, b), Len(L) + Len(Q) + 1, b.all, NoData, arb + 1)
<1>0. PICK M, N : M = L \o Append(Q, b) /\ N = Len(L) + Len(Q) + 1
  BY Zenon
<1>1. /\ L \in Seq(Log) /\ Trees(Q, s) /\ b \in Block /\ s \in {0, 1}
      /\ arb \in Nat /\ Tally(L, p, all, data, arb)
  BY Zenon DEF Ends
<1>2. /\ M \in Seq(Log) /\ Len(M) = N /\ M[N] = b /\ N \in Nat /\ Len(L) < N
      /\ At(M, "block") = At(L, "block") \cup {N} /\ Evm(M) = Evm(L)
  <2>1. Grown(L, Q, b, s, M, N)
    BY <1>0, <1>1, BlockAt, Zenon
  <2> QED
    BY <2>1, Zenon DEF Grown
<1>3. /\ Len(L) \in Nat /\ At(L, "block") \subseteq 1 .. Len(L) /\ IsFiniteSet(At(L, "block"))
      /\ Evm(L) \subseteq 1 .. Len(L)
  BY <1>1, LogFacts, Zenon
<1>4. /\ b.all.numLogs = N
      /\ b.all.numTx = Cardinality(At(M, "receipt"))
      /\ b.all.numSends = Cardinality(At(M, "tree"))
      /\ b.all.numEvmLogs = Cardinality(Evm(M))
  <2>1. Sums(M, N, all, b)
    BY <1>0, EndFacts, Zenon
  <2> QED
    BY <2>1, Zenon DEF Sums
<1>5. Cardinality(At(M, "block")) = arb + 1
  <2>1. N \notin At(L, "block")
    BY <1>2, <1>3
  <2>2. Cardinality(At(L, "block")) = arb
    BY <1>1, Zenon DEF Tally
  <2> QED
    BY <1>2, <1>3, <2>1, <2>2, FS_AddElement
<1>6. Above(Evm(M), N) = {} /\ Cardinality({}) = 0
  BY <1>2, <1>3, FS_EmptySet DEF Above
<1>7. NoData.numTx = 0 /\ NoData.numEvmLogs = 0
  BY Zenon DEF NoData
<1>8. /\ b.all.numTx \in Nat /\ b.all.numEvmLogs \in Nat
  BY <1>1, Zenon DEF Block, Stats
<1>9. /\ N \in 0 .. Len(M) /\ N # 0 /\ NoData.numTx = Len(M) - N
      /\ \A j \in N + 1 .. Len(M) : j \in At(M, "receipt")
      /\ Cardinality(At(M, "receipt")) = b.all.numTx + NoData.numTx
      /\ Cardinality(Evm(M)) = b.all.numEvmLogs + NoData.numEvmLogs
  BY <1>2, <1>3, <1>4, <1>7, <1>8
<1>10. N \in At(M, "block")
  BY <1>2
<1>11. N # 0
  BY <1>2, <1>3
<1> QED
  BY <1>0, <1>2, <1>4, <1>5, <1>6, <1>7, <1>9, <1>10, <1>11, ZenonT(30) DEF Tally

\* The new block summary continues the chain.
LEMMA NewBlock ==
  ASSUME NEW L, NEW p, NEW all, NEW data, NEW arb, NEW eth, NEW time, NEW Q, NEW q, NEW s, NEW b,
         Ends(L, p, all, data, arb, eth, time, Q, q, s, b), Latest(L, eth, time)
  PROVE  BlockOK(L \o Append(Q, b), Len(L) + Len(Q) + 1)
<1>0. PICK M, N : M = L \o Append(Q, b) /\ N = Len(L) + Len(Q) + 1
  BY Zenon
<1> DEFINE B == At(L, "block")
<1>1. /\ L \in Seq(Log) /\ Trees(Q, s) /\ b \in Block /\ s \in {0, 1}
      /\ Tally(L, p, all, data, arb) /\ b.arb = arb /\ b.last = arb - 1
      /\ b.eth = eth /\ b.time = time
  BY Zenon DEF Ends
<1>2. /\ M[N] = b /\ N \in Nat /\ Len(L) < N /\ Prefix(L, M) /\ Len(M) = N /\ M \in Seq(Log)
      /\ At(M, "block") = B \cup {N} /\ At(M, "receipt") = At(L, "receipt") /\ Evm(M) = Evm(L)
      /\ s = 1 => At(M, "tree") = At(L, "tree") \cup {N - 1}
      /\ s = 0 => At(M, "tree") = At(L, "tree")
  <2>1. Grown(L, Q, b, s, M, N)
    BY <1>0, <1>1, BlockAt, Zenon
  <2> QED
    BY <2>1, Zenon DEF Grown
<1>3. /\ Len(L) \in Nat /\ B \subseteq 1 .. Len(L) /\ At(L, "receipt") \subseteq 1 .. Len(L)
      /\ Evm(L) \subseteq 1 .. Len(L) /\ At(L, "tree") \subseteq 1 .. Len(L)
  BY <1>1, LogFacts, Zenon
<1>4. /\ b.all.numLogs = N /\ b.this = Added(all, b.all)
      /\ b.all.numTx = Cardinality(At(M, "receipt"))
      /\ b.all.numSends = Cardinality(At(M, "tree"))
      /\ b.all.numEvmLogs = Cardinality(Evm(M))
  <2>1. Sums(M, N, all, b)
    BY <1>0, EndFacts, Zenon
  <2> QED
    BY <2>1, Zenon DEF Sums
<1>5. Cardinality(B) = arb /\ (p = 0 => all = outputStats_new) /\ (p # 0 => p \in B /\ L[p].all = all)
      /\ p \in 0 .. Len(L)
  BY <1>1, Zenon DEF Tally
<1>6. \A j \in B : j <= p
  BY <1>1, OpenBlock, Zenon
<1>7. (\A j \in B : M[j] = L[j]) /\ (\A j \in B : L[j].eth <= eth /\ L[j].time <= time)
  BY <1>2, Zenon DEF Prefix, At, Latest
<1>8. At(M, "tree") = At(L, "tree") \cup {N - 1} \/ At(M, "tree") = At(L, "tree")
  BY <1>1, <1>2
<1> DEFINE T == At(M, "tree")
           TL == At(L, "tree")
           R == At(L, "receipt")
           E == Evm(L)
<1> HIDE DEF B, T, R, TL, E
<1>9. Below(B \cup {N}, N) = B /\ Below(R, N) = R /\ Below(E, N) = E /\ Below(T, N) = T
  <2>1. \A j \in T : j < N
    BY <1>2, <1>3, <1>8 DEF T, TL
  <2>2. (\A j \in B : j < N) /\ (\A j \in R : j < N) /\ (\A j \in E : j < N) /\ ~ (N < N)
    BY <1>2, <1>3 DEF R, E
  <2> QED
    BY <2>1, <2>2, Zenon DEF Below
<1>10. ASSUME B = {} PROVE b.this = Added(outputStats_new, b.all)
  BY <1>4, <1>5, <1>10
<1>11. ASSUME NEW j \in B, Between(B \cup {N}, j, N) = {}
       PROVE  b.this = Added(M[j].all, b.all)
  <2>1. j \in Nat \ {0} /\ j <= p
    BY <1>3, <1>6
  <2>2. p # 0 /\ p \in Nat /\ p < N
    BY <1>2, <1>3, <1>5, <2>1
  <2>3. ~ (j < p)
    BY <1>5, <1>11, <2>2 DEF Between
  <2>4. j = p
    BY <2>1, <2>2, <2>3
  <2> QED
    BY <1>4, <1>5, <1>7, <2>2, <2>4, ZenonT(30)
<1> QED
  BY <1>0, <1>1, <1>2, <1>4, <1>5, <1>7, <1>9, <1>10, <1>11, ZenonT(30) DEF BlockOK, T, R, E

\* What is logged as a block is a block.
LEMMA BlockRecord ==
  ASSUME NEW L \in Seq(Log), NEW j \in At(L, "block")
  PROVE  L[j] \in Block
<1>1. L[j] \in Log /\ L[j].t = "block"
  BY DEF At
<1>2. L[j] \notin Receipt /\ L[j] \notin Send /\ L[j] \notin Tree
  BY <1>1 DEF Receipt, Send, Tree
<1> QED
  BY <1>1, <1>2, Zenon DEF Log

\* The end of a block leaves every receipt in the block it names.
LEMMA BlockPlaced ==
  ASSUME NEW L, NEW p, NEW all, NEW data, NEW arb, NEW eth, NEW time, NEW Q, NEW q, NEW s, NEW b,
         Ends(L, p, all, data, arb, eth, time, Q, q, s, b),
         Placed(L, eth, time), Latest(L, eth, time),
         NEW eth2 \in Nat, NEW time2 \in Nat, eth <= eth2, time <= time2
  PROVE  Placed(L \o Append(Q, b), eth2, time2) /\ Latest(L \o Append(Q, b), eth2, time2)
<1>0. PICK M, N : M = L \o Append(Q, b) /\ N = Len(L) + Len(Q) + 1
  BY Zenon
<1> DEFINE B == At(L, "block")
           R == At(L, "receipt")
<1>1. /\ L \in Seq(Log) /\ Trees(Q, s) /\ b \in Block /\ s \in {0, 1}
      /\ b.eth = eth /\ b.time = time /\ eth \in Nat /\ time \in Nat
  BY Zenon DEF Ends
<1>2. /\ M[N] = b /\ N \in Nat /\ Len(L) < N /\ Prefix(L, M)
      /\ At(M, "block") = B \cup {N} /\ At(M, "receipt") = R
  <2>1. Grown(L, Q, b, s, M, N)
    BY <1>0, <1>1, BlockAt, Zenon
  <2> QED
    BY <2>1, Zenon DEF Grown
<1>3. /\ Len(L) \in Nat /\ B \subseteq 1 .. Len(L) /\ R \subseteq 1 .. Len(L)
  BY <1>1, LogFacts, Zenon
<1>4. (\A j \in B : M[j] = L[j]) /\ (\A j \in R : M[j] = L[j])
  BY <1>2, Zenon DEF Prefix, At
<1>5. \A j \in B : L[j].eth \in Nat /\ L[j].time \in Nat /\ L[j].eth <= eth /\ L[j].time <= time
  <2>1. \A j \in B : L[j].eth \in Nat /\ L[j].time \in Nat
    BY <1>1, BlockRecord, Zenon DEF Block
  <2> QED
    BY <2>1, Zenon DEF Latest
<1>6. \A i \in R : /\ Above(B, i) = {} => Within(L[i], eth, time)
                   /\ \A j \in B : i < j /\ Between(B, i, j) = {} => Within(L[i], L[j].eth, L[j].time)
  BY Zenon DEF Placed
<1> HIDE DEF B, R
<1>7. /\ \A j \in B : j < N /\ ~ (N < j)
      /\ \A i \in R : i < N
  BY <1>2, <1>3
<1>8. ASSUME NEW i \in R
      PROVE  /\ \A j \in B : Between(B \cup {N}, i, j) = Between(B, i, j)
             /\ Between(B \cup {N}, i, N) = {} => Above(B, i) = {}
             /\ Above(B \cup {N}, i) # {}
  <2>1. \A j \in B : Between(B \cup {N}, i, j) = Between(B, i, j)
    BY <1>7, Zenon DEF Between
  <2>2. Between(B \cup {N}, i, N) = {} => Above(B, i) = {}
    BY <1>7, Zenon DEF Between, Above
  <2>3. Above(B \cup {N}, i) # {}
    BY <1>7, Zenon DEF Above
  <2> QED
    BY <2>1, <2>2, <2>3
<1>9. Placed(M, eth2, time2)
  <2>1. ASSUME NEW i \in R, NEW j \in B \cup {N}, i < j, Between(B \cup {N}, i, j) = {}
        PROVE  Within(M[i], M[j].eth, M[j].time)
    <3>1. CASE j = N
      BY <1>1, <1>2, <1>4, <1>6, <1>8, <2>1, <3>1, ZenonT(30)
    <3>2. CASE j \in B
      BY <1>4, <1>6, <1>8, <2>1, <3>2, Zenon
    <3> QED
      BY <3>1, <3>2
  <2> QED
    BY <1>2, <1>8, <2>1, Zenon DEF Placed
<1>10. Latest(M, eth2, time2)
  <2>1. \A j \in B : L[j].eth <= eth2 /\ L[j].time <= time2
    BY <1>1, <1>5
  <2> QED
    BY <1>1, <1>2, <1>4, <2>1, Zenon DEF Latest
<1> QED
  BY <1>0, <1>9, <1>10, Zenon

-----------------------------------------------------------------------------
(* The operations.                                                         *)
LEMMA SameStats ==
  ASSUME NEW s \in Stats
  PROVE  s = [numTx |-> s.numTx, numEvmLogs |-> s.numEvmLogs,
              numLogs |-> s.numLogs, numSends |-> s.numSends]
  BY Zenon DEF Stats

\* The data of a block by its fields.
LEMMA SameData ==
  ASSUME NEW d \in Data
  PROVE  d = [numTx |-> d.numTx, numEvmLogs |-> d.numEvmLogs]
  BY Zenon DEF Data

\* A receipt of the message msg is emitted in its block.
Booked(e, o, arb, eth, time) == Books(e, arb, eth, time) /\ e.all = o.all

\* emitTxReceipt keeps the books.
LEMMA EmitOK ==
  ASSUME NEW o, NEW arb \in Nat, NEW eth, NEW time, Books(o, arb, eth, time),
         NEW msg, msg.arb = arb, msg.eth \in Nat, msg.time \in Nat, msg.side \in BOOLEAN,
         Within(msg, eth, time), NEW n \in {0, 1}
  PROVE  Booked(emitTxReceipt(o, msg, n), o, arb, eth, time)
<1> DEFINE r == [t |-> "receipt", arb |-> msg.arb, eth |-> msg.eth, time |-> msg.time,
                 side |-> msg.side, index |-> o.data.numTx,
                 firstLog |-> o.data.numEvmLogs, evmLogs |-> n]
           a == outputStats_addTxLog(o, n)
           u == update_txReceiptsForBlock(a, n)
           e == emitTxReceipt(o, msg, n)
<1>1. o \in OutputState /\ o.this \in Stats /\ o.data \in Data /\ o.all \in Stats /\ o.logs \in Seq(Log)
  BY Zenon DEF Books, OutputState
<1>2. /\ o.this.numTx \in Nat /\ o.this.numEvmLogs \in Nat /\ o.this.numLogs \in Nat
      /\ o.data.numTx \in Nat /\ o.data.numEvmLogs \in Nat
  BY <1>1, Zenon DEF Stats, Data
<1>3. /\ o.this.numTx + 1 \in Nat /\ o.this.numEvmLogs + n \in Nat /\ o.this.numLogs + 1 \in Nat
      /\ o.data.numTx + 1 \in Nat /\ o.data.numEvmLogs + n \in Nat
  BY <1>2
<1>4. /\ a \in OutputState /\ a.this.numTx = o.this.numTx + 1 /\ a.this.numLogs = o.this.numLogs + 1
      /\ a.this.numEvmLogs = o.this.numEvmLogs + n /\ a.this.numSends = o.this.numSends
      /\ a.all = o.all /\ a.data = o.data /\ a.lastBlockNum = o.lastBlockNum
      /\ a.queued = o.queued /\ a.logs = o.logs
  BY <1>1, <1>3, Zenon DEF outputStats_addTxLog, OutputState, Stats
<1> HIDE DEF a
<1>5. /\ u \in OutputState /\ u.this = a.this
      /\ u.data.numTx = o.data.numTx + 1 /\ u.data.numEvmLogs = o.data.numEvmLogs + n
      /\ u.all = o.all /\ u.lastBlockNum = o.lastBlockNum
      /\ u.queued = o.queued /\ u.logs = o.logs
  BY <1>3, <1>4, Zenon DEF update_txReceiptsForBlock, OutputState, Data
<1>6. /\ r \in Receipt /\ r.arb = arb /\ r.index = o.data.numTx
      /\ r.firstLog = o.data.numEvmLogs /\ r.evmLogs = n
      /\ r.eth = msg.eth /\ r.time = msg.time /\ r.side = msg.side
  BY <1>2, Zenon DEF Receipt
<1>7. Within(r, eth, time)
  BY <1>6, Zenon DEF Within
<1>8. e = [u EXCEPT !.logs = Append(@, r)]
  BY Zenon DEF emitTxReceipt, a
<1> HIDE DEF r, u, e
<1>9. Append(o.logs, r) \in Seq(Log) /\ Prefix(o.logs, Append(o.logs, r))
      /\ At(Append(o.logs, r), "block") = At(o.logs, "block")
      /\ At(Append(o.logs, r), "receipt") = At(o.logs, "receipt") \cup {Len(o.logs) + 1}
  BY <1>1, <1>6, ReceiptAt, Zenon
<1>10. /\ e \in OutputState /\ e.logs = Append(o.logs, r) /\ e.this = u.this /\ e.data = u.data
       /\ e.all = o.all /\ e.lastBlockNum = o.lastBlockNum /\ e.queued = o.queued
  BY <1>5, <1>8, <1>9, Zenon DEF OutputState
<1>11. /\ Chain(o.logs) /\ Placed(o.logs, eth, time) /\ Latest(o.logs, eth, time)
       /\ Tally(o.logs, o.all.numLogs, o.all, o.data, arb)
       /\ o.this = This(o.data, Len(o.queued)) /\ o.lastBlockNum = arb - 1
  BY Zenon DEF Books
<1>12. Chain(e.logs)
  <2>1. ReceiptOK(e.logs, Len(o.logs) + 1)
    BY <1>1, <1>6, <1>10, <1>11, NewReceipt, Zenon
  <2>2. \A i \in At(e.logs, "block") : i \in DOMAIN o.logs
    BY <1>9, <1>10, Zenon DEF At
  <2>3. \A i \in At(e.logs, "receipt") : i \notin DOMAIN o.logs => i = Len(o.logs) + 1
    BY <1>9, <1>10, Zenon DEF At
  <2> QED
    BY <1>9, <1>10, <1>11, <2>1, <2>2, <2>3, ChainStays, ZenonT(30)
<1>13. Placed(e.logs, eth, time) /\ Latest(e.logs, eth, time)
  BY <1>1, <1>6, <1>7, <1>10, <1>11, ReceiptPlaced, ZenonT(30)
<1>14. e.data = [numTx |-> o.data.numTx + 1, numEvmLogs |-> o.data.numEvmLogs + n]
  <2>1. u.data \in Data
    BY <1>5, Zenon DEF OutputState
  <2> QED
    BY <1>5, <1>10, <2>1, SameData, Zenon
<1>15. Tally(e.logs, e.all.numLogs, e.all, e.data, arb)
  BY <1>1, <1>6, <1>10, <1>11, <1>14, ReceiptTally, ZenonT(30)
<1>16. e.this = This(e.data, Len(e.queued))
  <2>1. Len(o.queued) \in Nat
    BY <1>1 DEF OutputState
  <2>2. /\ o.this.numTx = o.data.numTx /\ o.this.numEvmLogs = o.data.numEvmLogs
        /\ o.this.numLogs = o.data.numTx + Len(o.queued) /\ o.this.numSends = 0
    <3>1. /\ This(o.data, Len(o.queued)).numTx = o.data.numTx
          /\ This(o.data, Len(o.queued)).numEvmLogs = o.data.numEvmLogs
          /\ This(o.data, Len(o.queued)).numLogs = o.data.numTx + Len(o.queued)
          /\ This(o.data, Len(o.queued)).numSends = 0
      BY ThisFields, Zenon
    <3> QED
      BY <1>11, <3>1, Zenon
  <2>3. o.this.numLogs + 1 = (o.data.numTx + 1) + Len(o.queued)
    BY <1>2, <2>1, <2>2
  <2>4. /\ e.this \in Stats /\ e.this.numTx = e.data.numTx /\ e.this.numEvmLogs = e.data.numEvmLogs
        /\ e.this.numLogs = e.data.numTx + Len(e.queued) /\ e.this.numSends = 0
    BY <1>4, <1>5, <1>10, <2>2, <2>3, Zenon DEF OutputState
  <2> QED
    BY <2>4, SameStats, Zenon DEF This
<1>17. Books(e, arb, eth, time)
  BY <1>10, <1>11, <1>12, <1>13, <1>15, <1>16, ZenonT(30) DEF Books
<1> QED
  BY <1>10, <1>17, Zenon DEF e, Booked

\* A message to L1 queues a log.
LEMMA OutboxOK ==
  ASSUME NEW o, NEW arb \in Nat, NEW eth, NEW time, Books(o, arb, eth, time)
  PROVE  Books(outbox_append(o), arb, eth, time) /\ outbox_append(o).all = o.all
<1> DEFINE x == [t |-> "send", batch |-> o.batchNumber, n |-> o.numInBatch]
           a == outputStats_addNonTxLog(o)
           e == outbox_append(o)
<1>1. /\ o \in OutputState /\ o.this \in Stats /\ o.data \in Data /\ o.queued \in Seq(Send)
      /\ o.numInBatch \in Nat /\ o.batchNumber \in Nat
  BY Zenon DEF Books, OutputState
<1>2. o.this.numLogs \in Nat /\ o.data.numTx \in Nat
  BY <1>1, Zenon DEF Stats, Data
<1>3. o.this.numLogs + 1 \in Nat /\ o.numInBatch + 1 \in Nat
  BY <1>1, <1>2
<1>4. /\ a \in OutputState /\ a.this.numTx = o.this.numTx /\ a.this.numLogs = o.this.numLogs + 1
      /\ a.this.numEvmLogs = o.this.numEvmLogs /\ a.this.numSends = o.this.numSends
      /\ a.all = o.all /\ a.data = o.data /\ a.lastBlockNum = o.lastBlockNum
      /\ a.queued = o.queued /\ a.logs = o.logs /\ a.numInBatch = o.numInBatch
  BY <1>1, <1>3, Zenon DEF outputStats_addNonTxLog, OutputState, Stats
<1>5. x \in Send
  BY <1>1, Zenon DEF Send
<1>6. e = [a EXCEPT !.numInBatch = @ + 1, !.queued = Append(@, x)]
  BY Zenon DEF outbox_append
<1> HIDE DEF x, a, e
<1>7. Append(o.queued, x) \in Seq(Send) /\ Len(Append(o.queued, x)) = Len(o.queued) + 1
      /\ Len(o.queued) \in Nat
  BY <1>1, <1>5
<1>8. /\ e \in OutputState /\ e.queued = Append(o.queued, x) /\ e.this = a.this /\ e.data = o.data
      /\ e.all = o.all /\ e.lastBlockNum = o.lastBlockNum /\ e.logs = o.logs
  BY <1>3, <1>4, <1>6, <1>7, Zenon DEF OutputState
<1>9. o.this = This(o.data, Len(o.queued))
  BY Zenon DEF Books
<1>10. e.this = This(e.data, Len(e.queued))
  <2>1. /\ o.this.numTx = o.data.numTx /\ o.this.numEvmLogs = o.data.numEvmLogs
        /\ o.this.numLogs = o.data.numTx + Len(o.queued) /\ o.this.numSends = 0
    <3>1. /\ This(o.data, Len(o.queued)).numTx = o.data.numTx
          /\ This(o.data, Len(o.queued)).numEvmLogs = o.data.numEvmLogs
          /\ This(o.data, Len(o.queued)).numLogs = o.data.numTx + Len(o.queued)
          /\ This(o.data, Len(o.queued)).numSends = 0
      BY ThisFields, Zenon
    <3> QED
      BY <1>9, <3>1, Zenon
  <2>2. o.this.numLogs + 1 = o.data.numTx + (Len(o.queued) + 1)
    BY <1>2, <1>7, <2>1
  <2>3. /\ e.this \in Stats /\ e.this.numTx = e.data.numTx /\ e.this.numEvmLogs = e.data.numEvmLogs
        /\ e.this.numLogs = e.data.numTx + Len(e.queued) /\ e.this.numSends = 0
    BY <1>4, <1>7, <1>8, <2>1, <2>2, ZenonT(30) DEF OutputState
  <2> QED
    BY <2>3, SameStats, Zenon DEF This
<1>11. Books(e, arb, eth, time)
  BY <1>8, <1>10, Zenon DEF Books
<1> QED
  BY <1>8, <1>11, Zenon DEF e

\* The output when a due batch has been sent (s = 1) or not.
ClosedState ==
  [this : Stats, all : Stats, data : Data, lastBlockNum : Int, nextSendTime : Nat,
   batchNumber : Nat, numInBatch : Nat, queued : Seq(Send \cup Tree), logs : Seq(Log),
   sends : Seq([batch : Nat, n : Nat])]

Closed(o, v, s) ==
  /\ v \in ClosedState
  /\ v.all = o.all /\ v.data = o.data /\ v.logs = o.logs /\ v.lastBlockNum = o.lastBlockNum
  /\ v.this = Final(o.data, Len(o.queued), s)
  /\ Trees(v.queued, s) /\ Len(v.queued) = Len(o.queued) + s

\* The messages that are queued are no batch roots.
LEMMA NoTrees ==
  ASSUME NEW Q \in Seq(Send)
  PROVE  Q \in Seq(Send \cup Tree) /\ At(Q, "tree") = {}
<1>1. \A j \in DOMAIN Q : Q[j].t = "send"
  <2>1. \A j \in DOMAIN Q : Q[j] \in Send
    OBVIOUS
  <2> QED
    BY <2>1, Zenon DEF Send
<1>2. \A j \in DOMAIN Q : Q[j].t # "tree"
  BY <1>1
<1> QED
  BY <1>2 DEF At

\* outbox_send, or nothing, at the end of a block.
LEMMA SendOK ==
  ASSUME NEW o \in OutputState, o.this = This(o.data, Len(o.queued)),
         NEW time \in Nat, NEW gap \in Nat
  PROVE  /\ Closed(o, o, 0)
         /\ Closed(o, [outbox_send(o) EXCEPT !.nextSendTime = time + gap], 1)
<1>1. /\ o.this \in Stats /\ o.data \in Data /\ o.queued \in Seq(Send) /\ o.batchNumber \in Nat
      /\ o.numInBatch \in Nat /\ o.sends \in Seq([batch : Nat, n : Nat])
  BY Zenon DEF OutputState
<1>2. o.queued \in Seq(Send \cup Tree) /\ At(o.queued, "tree") = {}
  BY <1>1, NoTrees, Zenon
<1>3. o.data.numTx \in Nat /\ o.data.numEvmLogs \in Nat /\ Len(o.queued) \in Nat
      /\ o.this.numLogs \in Nat /\ o.this.numSends \in Nat
  <2>1. Len(o.queued) \in Nat
    BY <1>1
  <2> QED
    BY <1>1, <2>1, Zenon DEF Data, Stats
<1>4. o \in ClosedState
  BY <1>2, Zenon DEF OutputState, ClosedState
<1>5. /\ o.this.numTx = o.data.numTx /\ o.this.numEvmLogs = o.data.numEvmLogs
      /\ o.this.numLogs = o.data.numTx + Len(o.queued) /\ o.this.numSends = 0
  <2>1. /\ This(o.data, Len(o.queued)).numTx = o.data.numTx
        /\ This(o.data, Len(o.queued)).numEvmLogs = o.data.numEvmLogs
        /\ This(o.data, Len(o.queued)).numLogs = o.data.numTx + Len(o.queued)
        /\ This(o.data, Len(o.queued)).numSends = 0
    BY ThisFields, Zenon
  <2> QED
    BY <2>1, Zenon
<1>6. Closed(o, o, 0)
  <2>1. o.data.numTx + Len(o.queued) + 0 = o.data.numTx + Len(o.queued) /\ ~ (0 = 1)
        /\ Len(o.queued) + 0 = Len(o.queued)
    BY <1>3
  <2>2. o.this = Final(o.data, Len(o.queued), 0)
    BY <1>1, <1>5, <2>1, SameStats, Zenon DEF Final
  <2>3. Trees(o.queued, 0)
    BY <1>2, <2>1, Zenon DEF Trees
  <2> QED
    BY <1>4, <2>1, <2>2, <2>3, Zenon DEF Closed
<1> DEFINE x == [t |-> "tree", batch |-> o.batchNumber, n |-> o.numInBatch]
           y == [batch |-> o.batchNumber, n |-> o.numInBatch]
           a == outputStats_addNonTxLog(o)
           c == outputStats_addSend(a)
           d == outbox_send(o)
           v == [d EXCEPT !.nextSendTime = time + gap]
           Q == Append(o.queued, x)
<1>7. /\ o.this.numLogs + 1 \in Nat /\ o.this.numSends + 1 \in Nat /\ o.batchNumber + 1 \in Nat
      /\ 0 \in Nat /\ time + gap \in Nat
  BY <1>1, <1>3
<1>8. /\ a \in ClosedState /\ a.this.numTx = o.this.numTx /\ a.this.numLogs = o.this.numLogs + 1
      /\ a.this.numEvmLogs = o.this.numEvmLogs /\ a.this.numSends = o.this.numSends
      /\ a.all = o.all /\ a.data = o.data /\ a.lastBlockNum = o.lastBlockNum
      /\ a.queued = o.queued /\ a.logs = o.logs /\ a.sends = o.sends
      /\ a.batchNumber = o.batchNumber
  BY <1>4, <1>7, Zenon DEF outputStats_addNonTxLog, ClosedState, Stats
<1> HIDE DEF a
<1>9. /\ c \in ClosedState /\ c.this.numTx = o.this.numTx /\ c.this.numLogs = o.this.numLogs + 1
      /\ c.this.numEvmLogs = o.this.numEvmLogs /\ c.this.numSends = o.this.numSends + 1
      /\ c.all = o.all /\ c.data = o.data /\ c.lastBlockNum = o.lastBlockNum
      /\ c.queued = o.queued /\ c.logs = o.logs /\ c.sends = o.sends
      /\ c.batchNumber = o.batchNumber
  BY <1>7, <1>8, Zenon DEF outputStats_addSend, ClosedState, Stats
<1>10. x \in Tree /\ x.t = "tree" /\ y \in [batch : Nat, n : Nat]
  BY <1>1, Zenon DEF Tree
<1>11. d = [c EXCEPT !.queued = Append(@, x), !.sends = Append(@, y),
                     !.batchNumber = @ + 1, !.numInBatch = 0]
  BY Zenon DEF outbox_send, a
<1> HIDE DEF c, d, x, y
<1>12. /\ Q \in Seq(Send \cup Tree) /\ Len(Q) = Len(o.queued) + 1
       /\ At(Q, "tree") = {Len(Q)} /\ Append(o.sends, y) \in Seq([batch : Nat, n : Nat])
  <2>1. /\ Q \in Seq(Send \cup Tree) /\ Len(Q) = Len(o.queued) + 1 /\ Q[Len(Q)] = x
        /\ \A j \in 1 .. Len(o.queued) : Q[j] = o.queued[j]
        /\ Append(o.sends, y) \in Seq([batch : Nat, n : Nat])
    BY <1>1, <1>2, <1>10, AppendProperties
  <2>2. DOMAIN Q = 1 .. Len(Q) /\ DOMAIN o.queued = 1 .. Len(o.queued)
    BY <1>1, <2>1, LenProperties
  <2>3. DOMAIN Q = DOMAIN o.queued \cup {Len(Q)}
    BY <1>3, <2>1, <2>2
  <2> HIDE DEF Q
  <2>4. At(Q, "tree") = {Len(Q)}
    BY <1>2, <1>10, <2>1, <2>2, <2>3, ZenonT(30) DEF At
  <2> QED
    BY <2>1, <2>4
<1> HIDE DEF Q
<1>13. /\ d \in ClosedState /\ d.this = c.this /\ d.all = o.all /\ d.data = o.data
       /\ d.lastBlockNum = o.lastBlockNum /\ d.logs = o.logs /\ d.queued = Q
  BY <1>7, <1>9, <1>11, <1>12, ZenonT(30) DEF ClosedState, Q
<1>14. /\ v \in ClosedState /\ v.this = c.this /\ v.all = o.all /\ v.data = o.data
       /\ v.lastBlockNum = o.lastBlockNum /\ v.logs = o.logs /\ v.queued = Q
  BY <1>7, <1>13, Zenon DEF ClosedState
<1> HIDE DEF v
<1>15. v.this = Final(o.data, Len(o.queued), 1)
  <2>1. o.this.numLogs + 1 = o.data.numTx + Len(o.queued) + 1 /\ o.this.numSends + 1 = 1
    BY <1>3, <1>5
  <2>2. c.this \in Stats
    BY <1>9, Zenon DEF ClosedState
  <2> QED
    BY <1>5, <1>9, <1>14, <2>1, <2>2, SameStats, ZenonT(30) DEF Final
<1>16. Trees(v.queued, 1)
  <2>1. Len(Q) # 0 /\ ~ (1 = 0)
    BY <1>3, <1>12
  <2> QED
    BY <1>12, <1>14, <2>1, Zenon DEF Trees
<1>17. Closed(o, v, 1)
  BY <1>12, <1>14, <1>15, <1>16, Zenon DEF Closed
<1> QED
  BY <1>6, <1>17, Zenon DEF d, v

\* The block arb ends, and the next one begins at eth2 and time2.
Ended(e, arb, eth, time) == Books(e, arb, eth, time) /\ e.this.numLogs = 0 /\ e.all.numLogs # 0

\* outputStats_endOfBlock keeps the books.
LEMMA EndOK ==
  ASSUME NEW o, NEW arb \in Nat, NEW eth \in Nat, NEW time \in Nat, Books(o, arb, eth, time),
         NEW gap \in Nat, NEW eth2 \in Nat, NEW time2 \in Nat, eth <= eth2, time <= time2
  PROVE  Ended(outputStats_endOfBlock(o, arb, eth, time, gap), arb + 1, eth2, time2)
<1>1. /\ o \in OutputState /\ Chain(o.logs) /\ Placed(o.logs, eth, time)
      /\ Latest(o.logs, eth, time) /\ Tally(o.logs, o.all.numLogs, o.all, o.data, arb)
      /\ o.this = This(o.data, Len(o.queued)) /\ o.lastBlockNum = arb - 1
  BY Zenon DEF Books
<1>0. PICK v : v = IF time >= o.nextSendTime /\ ~outbox_isEmpty(o)
                     THEN [outbox_send(o) EXCEPT !.nextSendTime = time + gap] ELSE o
  BY Zenon
<1>2. PICK s \in {0, 1} : Closed(o, v, s)
  <2>1. Closed(o, o, 0) /\ Closed(o, [outbox_send(o) EXCEPT !.nextSendTime = time + gap], 1)
    BY <1>1, SendOK, Zenon
  <2> QED
    BY <1>0, <2>1
<1> DEFINE all == [outputStats_add(v.this, v.all) EXCEPT !.numLogs = @ + 1]
           b == [t |-> "block", arb |-> arb, eth |-> eth, time |-> time,
                 this |-> v.this, all |-> all, last |-> v.lastBlockNum]
           e == outputStats_endOfBlock(o, arb, eth, time, gap)
           q == Len(o.queued)
           L == o.logs
<1>3. /\ v \in ClosedState /\ v.all = o.all /\ v.logs = L /\ v.lastBlockNum = arb - 1
      /\ v.this = Final(o.data, q, s) /\ Trees(v.queued, s) /\ Len(v.queued) = q + s
      /\ v.this \in Stats /\ v.all \in Stats /\ arb - 1 \in Int /\ o.data \in Data
      /\ L \in Seq(Log)
  BY <1>1, <1>2, Zenon DEF Closed, ClosedState, OutputState
<1>4. e = [v EXCEPT !.all = all, !.logs = @ \o Append(v.queued, b), !.queued = <<>>,
                    !.lastBlockNum = arb, !.this = outputStats_new, !.data = NoData]
  BY <1>0, Zenon DEF outputStats_endOfBlock, NoData
<1>5. /\ all \in Stats /\ all = Total(o.all, v.this)
  <2> DEFINE w == outputStats_add(v.this, v.all)
  <2>1. /\ v.this.numTx \in Nat /\ v.this.numEvmLogs \in Nat /\ v.this.numLogs \in Nat
        /\ v.this.numSends \in Nat
        /\ v.all.numTx \in Nat /\ v.all.numEvmLogs \in Nat /\ v.all.numLogs \in Nat
        /\ v.all.numSends \in Nat
    BY <1>3, Zenon DEF Stats
  <2>2. /\ v.this.numTx + v.all.numTx \in Nat /\ v.this.numEvmLogs + v.all.numEvmLogs \in Nat
        /\ v.this.numLogs + v.all.numLogs \in Nat /\ v.this.numSends + v.all.numSends \in Nat
        /\ v.this.numLogs + v.all.numLogs + 1 \in Nat
    BY <2>1
  <2>3. /\ w \in Stats /\ w.numTx = v.this.numTx + v.all.numTx
        /\ w.numEvmLogs = v.this.numEvmLogs + v.all.numEvmLogs
        /\ w.numLogs = v.this.numLogs + v.all.numLogs /\ w.numSends = v.this.numSends + v.all.numSends
    BY <2>2, Zenon DEF outputStats_add, Stats
  <2> HIDE DEF w
  <2>4. /\ all \in Stats /\ all.numTx = w.numTx /\ all.numEvmLogs = w.numEvmLogs
        /\ all.numLogs = w.numLogs + 1 /\ all.numSends = w.numSends
    BY <2>2, <2>3, Zenon DEF Stats, w
  <2> HIDE DEF all
  <2> QED
    <3>1. /\ all.numTx = v.this.numTx + o.all.numTx
          /\ all.numEvmLogs = v.this.numEvmLogs + o.all.numEvmLogs
          /\ all.numLogs = v.this.numLogs + o.all.numLogs + 1
          /\ all.numSends = v.this.numSends + o.all.numSends
      BY <1>3, <2>3, <2>4, Zenon
    <3>2. all = [numTx |-> all.numTx, numEvmLogs |-> all.numEvmLogs,
                 numLogs |-> all.numLogs, numSends |-> all.numSends]
      BY <2>4, SameStats, Zenon
    <3> QED
      BY <2>4, <3>1, <3>2, Zenon DEF Total
<1>6. /\ b \in Block /\ b.arb = arb /\ b.eth = eth /\ b.time = time /\ b.this = v.this /\ b.all = all
      /\ b.last = arb - 1
  BY <1>3, <1>5, Zenon DEF Block
<1> HIDE DEF all, b, e
<1>7. q \in Nat /\ s \in {0, 1}
  BY <1>1 DEF OutputState
<1>8. Ends(L, o.all.numLogs, o.all, o.data, arb, eth, time, v.queued, q, s, b)
  BY <1>1, <1>2, <1>3, <1>5, <1>6, <1>7, ZenonT(30) DEF Ends
<1> DEFINE M == L \o Append(v.queued, b)
           N == Len(L) + Len(v.queued) + 1
<1>9. Prefix(L, M) /\ M \in Seq(Log) /\ At(M, "block") = At(L, "block") \cup {N}
      /\ At(M, "receipt") = At(L, "receipt")
  <2>1. Grown(L, v.queued, b, s, M, N)
    BY <1>2, <1>3, <1>6, BlockAt, ZenonT(30)
  <2> QED
    BY <2>1, Zenon DEF Grown
<1>10. BlockOK(M, N)
  BY <1>1, <1>8, NewBlock, Zenon
<1>11. Tally(M, N, all, NoData, arb + 1)
  BY <1>6, <1>8, BlockTally, Zenon
<1>12. Placed(M, eth2, time2) /\ Latest(M, eth2, time2)
  BY <1>1, <1>8, BlockPlaced, Zenon
<1> HIDE DEF M, N
<1>13. Chain(M)
  <2>1. \A i \in At(L, "block") \cup At(L, "receipt") : i \in DOMAIN L
    BY Zenon DEF At
  <2> QED
    BY <1>1, <1>9, <1>10, <2>1, ChainStays, ZenonT(30)
<1>14. /\ NoData \in Data /\ outputStats_new \in Stats /\ <<>> \in Seq(Send) /\ arb \in Int
       /\ NoData.numTx = 0 /\ NoData.numEvmLogs = 0 /\ outputStats_new.numLogs = 0
  <2>1. 0 \in Nat /\ <<>> \in Seq(Send) /\ arb \in Int
    OBVIOUS
  <2> QED
    BY <2>1, Zenon DEF Data, Stats, outputStats_new, NoData
<1>15. /\ e \in OutputState /\ e.all = all /\ e.logs = M /\ e.queued = <<>>
       /\ e.lastBlockNum = arb /\ e.this = outputStats_new /\ e.data = NoData
  BY <1>3, <1>4, <1>5, <1>9, <1>14, ZenonT(30) DEF OutputState, ClosedState, M
<1>16. outputStats_new = This(NoData, Len(<<>>))
  <2>1. Len(<<>>) = 0 /\ 0 + 0 = 0
    OBVIOUS
  <2> QED
    BY <1>14, <2>1, Zenon DEF This, outputStats_new
<1>17. N = all.numLogs /\ arb = (arb + 1) - 1
  <2>1. N = all.numLogs
    BY <1>11, Zenon DEF Tally
  <2> QED
    BY <2>1
<1>19. all.numLogs # 0
  <2>1. Grown(L, v.queued, b, s, M, N)
    BY <1>2, <1>3, <1>6, BlockAt, Zenon DEF M, N
  <2>2. Len(L) \in Nat /\ Len(L) < N
    BY <1>3, <2>1, LogFacts, Zenon DEF Grown
  <2> QED
    BY <1>17, <2>2
<1>18. Books(e, arb + 1, eth2, time2) /\ e.this.numLogs = 0 /\ e.all.numLogs # 0
  BY <1>11, <1>12, <1>13, <1>14, <1>15, <1>16, <1>17, <1>19, ZenonT(30) DEF Books
<1> QED
  BY <1>18, Zenon DEF e, Ended

\* output_init, before the summary of the genesis block.
LEMMA FirstBooks == Books(output_init, 0, 0, 0)
<1> DEFINE o == output_init
           zero == [numTx |-> 0, numEvmLogs |-> 0]
<1>1. /\ o.this = outputStats_new /\ o.all = outputStats_new /\ o.data = zero
      /\ o.lastBlockNum = -1 /\ o.queued = <<>> /\ o.logs = <<>>
  BY Zenon DEF output_init
<1>2. /\ outputStats_new \in Stats /\ outputStats_new.numLogs = 0 /\ outputStats_new.numTx = 0
      /\ outputStats_new.numEvmLogs = 0 /\ outputStats_new.numSends = 0
      /\ zero \in Data /\ zero.numTx = 0 /\ zero.numEvmLogs = 0
  <2>1. 0 \in Nat
    OBVIOUS
  <2> QED
    BY <2>1, Zenon DEF Data, Stats, outputStats_new
<1>3. o \in OutputState
  <2>1. /\ -1 \in Int /\ 0 \in Nat /\ <<>> \in Seq(Send) /\ <<>> \in Seq(Log)
        /\ <<>> \in Seq([batch : Nat, n : Nat])
    OBVIOUS
  <2> QED
    BY <1>2, <2>1, Zenon DEF OutputState, output_init
<1>4. (\A t : At(<<>>, t) = {}) /\ Evm(<<>>) = {} /\ Above({}, 0) = {}
  BY DEF At, Evm, Above
<1>5. Chain(<<>>) /\ Placed(<<>>, 0, 0) /\ Latest(<<>>, 0, 0)
  BY <1>4, Zenon DEF Chain, Placed, Latest
<1>6. Cardinality({}) = 0 /\ Len(<<>>) = 0
  BY FS_EmptySet
<1> HIDE DEF zero
<1>7. Tally(<<>>, 0, outputStats_new, zero, 0)
  <2>1. 0 \in 0 .. 0 /\ 0 = 0 - 0 /\ 0 = 0 + 0 /\ \A j \in 0 + 1 .. 0 : FALSE
    OBVIOUS
  <2> QED
    BY <1>2, <1>4, <1>6, <2>1, Zenon DEF Tally
<1>8. outputStats_new = This(zero, Len(<<>>))
  <2>1. 0 + 0 = 0
    OBVIOUS
  <2> QED
    BY <1>2, <1>6, <2>1, Zenon DEF This, outputStats_new
<1>9. -1 = 0 - 1
  OBVIOUS
<1> HIDE DEF o
<1>10. Books(o, 0, 0, 0)
  BY <1>1, <1>2, <1>3, <1>5, <1>7, <1>8, <1>9, ZenonT(30) DEF Books
<1> QED
  BY <1>10, Zenon DEF o

\* Nothing in the block yet: it may begin at a later L1 block or timestamp.
LEMMA RestartOK ==
  ASSUME NEW o, NEW arb \in Nat, NEW eth \in Nat, NEW time \in Nat, Books(o, arb, eth, time),
         o.this.numLogs = 0, o.all.numLogs # 0,
         NEW eth2 \in Nat, NEW time2 \in Nat, eth <= eth2, time <= time2
  PROVE  Books(o, arb, eth2, time2)
<1> DEFINE L == o.logs
           p == o.all.numLogs
<1>1. /\ o \in OutputState /\ Chain(L) /\ Placed(L, eth, time) /\ Latest(L, eth, time)
      /\ Tally(L, p, o.all, o.data, arb) /\ o.this = This(o.data, Len(o.queued))
      /\ o.lastBlockNum = arb - 1
  BY Zenon DEF Books
<1>2. /\ L \in Seq(Log) /\ o.data \in Data /\ o.queued \in Seq(Send)
  BY <1>1, Zenon DEF OutputState
<1>3. o.data.numTx + Len(o.queued) = 0 /\ o.data.numTx \in Nat
  <2>1. This(o.data, Len(o.queued)).numLogs = o.data.numTx + Len(o.queued)
    BY ThisFields, Zenon
  <2> QED
    BY <1>1, <1>2, <2>1, Zenon DEF Data
<1>4. Len(o.queued) \in Nat
  BY <1>2
<1>5. o.data.numTx = 0 /\ Len(o.queued) = 0
  BY <1>3, <1>4
<1>6. Len(L) \in Nat /\ At(L, "receipt") \subseteq 1 .. Len(L)
  BY <1>2, LogFacts, Zenon
<1>7. p \in 0 .. Len(L) /\ o.data.numTx = Len(L) - p /\ p \in At(L, "block")
  BY <1>1, Zenon DEF Tally
<1> HIDE DEF L, p
<1>8. p = Len(L)
  BY <1>5, <1>6, <1>7
<1>9. ASSUME NEW i \in At(L, "receipt") PROVE Above(At(L, "block"), i) # {}
  <2>1. i <= p /\ i \in Nat /\ p \in Nat
    BY <1>6, <1>8
  <2>2. i # p
    BY <1>7, Apart, Zenon
  <2>3. i < p
    BY <2>1, <2>2
  <2> QED
    BY <1>7, <2>3, Zenon DEF Above
<1>10. Placed(L, eth2, time2)
  BY <1>1, <1>9, Zenon DEF Placed
<1>11. Latest(L, eth2, time2)
  <2>1. \A j \in At(L, "block") : L[j].eth \in Nat /\ L[j].time \in Nat
    BY <1>2, BlockRecord, Zenon DEF Block
  <2>2. \A j \in At(L, "block") : L[j].eth <= eth /\ L[j].time <= time
    BY <1>1, Zenon DEF Latest
  <2>3. \A j \in At(L, "block") : L[j].eth <= eth2 /\ L[j].time <= time2
    BY <2>1, <2>2
  <2> QED
    BY <2>3, Zenon DEF Latest
<1> QED
  BY <1>1, <1>10, <1>11, Zenon DEF Books, L, p
=============================================================================
