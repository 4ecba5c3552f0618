-------------------------- MODULE GasPaymentProofs --------------------------
(***************************************************************************)
(* Lemmas about the congestion of blocks and about what a transaction pays *)
(* before it starts.                                                       *)
(***************************************************************************)
EXTENDS GasAccounting, AccountStoreProofs, WellFoundedInduction, TLAPS

-----------------------------------------------------------------------------
(***************************************************************************)
(* What the loop of updateCongestionState computes, for every number of    *)
(* seconds: its result is typed, never below the base price, and does not  *)
(* depend on where the seconds are cut into blocks.                        *)
(*                                                                         *)
(* The induction over the seconds takes a set of numbers where other       *)
(* statements of induction take a predicate.                               *)
(***************************************************************************)

\* Every non-empty set of natural numbers has a least element.
LEMMA Least ==
  ASSUME NEW T, T \subseteq Nat, T # {}
  PROVE  \E m \in T : \A k \in T : m <= k
<1>1. PICK m \in T : \A k \in T : ~ (<<k, m>> \in OpToRel(<, Nat))
  BY NatLessThanWellFounded, WFMin, Zenon
<1>2. \A k \in T : ~ (k < m)
  BY <1>1, Zenon DEF OpToRel
<1> QED
  BY <1>2

\* Induction over the natural numbers.
LEMMA Inductive ==
  ASSUME NEW T, 0 \in T, \A n \in Nat : n \in T => n + 1 \in T
  PROVE  Nat \subseteq T
<1> SUFFICES ASSUME Nat \ T # {}
             PROVE  FALSE
  OBVIOUS
<1>1. PICK m \in Nat \ T : \A k \in Nat \ T : m <= k
  BY Least, Zenon
<1>2. m # 0 /\ m - 1 \in Nat /\ (m - 1) + 1 = m
  BY <1>1
<1>3. m - 1 \in T
  BY <1>1, <1>2
<1> QED
  BY <1>1, <1>2, <1>3

-----------------------------------------------------------------------------
\* f gives the pool and the price at each second up to n, from s.
Follows(f, s, base, n) ==
  f = [k \in 0 .. n |-> IF k = 0 THEN s ELSE Turn(f[k - 1], base)]

\* The turns of the loop can be listed.
LEMMA SomeFollows ==
  ASSUME NEW s, NEW base, NEW n \in Nat
  PROVE  \E f : Follows(f, s, base, n)
<1> DEFINE T == {m \in Nat : \E f : Follows(f, s, base, m)}
<1>1. 0 \in T
  <2> DEFINE f == [k \in 0 .. 0 |-> s]
  <2>1. Follows(f, s, base, 0)
    BY DEF Follows
  <2> QED
    BY <2>1
<1>2. ASSUME NEW m \in Nat, m \in T
      PROVE  m + 1 \in T
  <2>1. PICK f : Follows(f, s, base, m)
    BY <1>2
  <2> DEFINE g == [k \in 0 .. (m + 1) |-> IF k = m + 1 THEN Turn(f[m], base) ELSE f[k]]
  <2>2. \A k \in 0 .. m : f[k] = IF k = 0 THEN s ELSE Turn(f[k - 1], base)
    BY <2>1 DEF Follows
  <2>3. \A k \in 0 .. (m + 1) : g[k] = IF k = 0 THEN s ELSE Turn(g[k - 1], base)
    <3> SUFFICES ASSUME NEW k \in 0 .. (m + 1)
                 PROVE  g[k] = IF k = 0 THEN s ELSE Turn(g[k - 1], base)
      OBVIOUS
    <3>1. CASE k = 0
      BY <3>1, <2>2
    <3>2. CASE k # 0 /\ k = m + 1
      <4>1. g[k] = Turn(f[m], base) /\ g[k - 1] = f[m]
        BY <3>2
      <4> QED
        BY <4>1, <3>2
    <3>3. CASE k # 0 /\ k # m + 1
      <4>1. g[k] = f[k] /\ g[k - 1] = f[k - 1] /\ k \in 0 .. m
        BY <3>3
      <4> QED
        BY <4>1, <3>3, <2>2
    <3> QED
      BY <3>1, <3>2, <3>3
  <2>4. Follows(g, s, base, m + 1)
    <3> HIDE DEF g
    <3>1. g = [k \in 0 .. (m + 1) |-> g[k]]
      BY DEF g
    <3> QED
      BY <2>3, <3>1, Zenon DEF Follows
  <2> QED
    BY <2>4
<1>3. Nat \subseteq T
  <2> HIDE DEF T
  <2> QED
    BY <1>1, <1>2, Inductive
<1> QED
  BY <1>3

\* Seconds is the last of that list.
LEMMA SecondsFollow ==
  ASSUME NEW pool, NEW total, NEW base, NEW n \in Nat
  PROVE  \E f : Follows(f, <<pool, total>>, base, n) /\ Seconds(pool, total, base, n) = f[n]
<1> DEFINE F(f) == [k \in 0 .. n |-> IF k = 0 THEN <<pool, total>> ELSE Turn(f[k - 1], base)]
           at == CHOOSE f : f = F(f)
<1>1. \E f : f = F(f)
  <2>1. PICK f : Follows(f, <<pool, total>>, base, n)
    BY SomeFollows
  <2>2. f = F(f)
    BY <2>1, Zenon DEF Follows
  <2> QED
    BY <2>2
<1>2. at = F(at)
  <2> HIDE DEF F
  <2> QED
    BY <1>1
<1>3. Seconds(pool, total, base, n) = at[n]
  BY DEF Seconds
<1>4. Follows(at, <<pool, total>>, base, n)
  BY <1>2, Zenon DEF Follows
<1> QED
  BY <1>3, <1>4, Zenon

\* One second more is one turn of the loop more.
LEMMA SecondsUnfold ==
  ASSUME NEW pool, NEW total, NEW base, NEW n \in Nat
  PROVE  /\ Seconds(pool, total, base, 0) = <<pool, total>>
         /\ Seconds(pool, total, base, n + 1) = Turn(Seconds(pool, total, base, n), base)
<1> DEFINE s == <<pool, total>>
<1>1. Seconds(pool, total, base, 0) = s
  <2>1. PICK f : Follows(f, s, base, 0) /\ Seconds(pool, total, base, 0) = f[0]
    BY SecondsFollow
  <2> QED
    BY <2>1 DEF Follows
<1>2. PICK f : Follows(f, s, base, n) /\ Seconds(pool, total, base, n) = f[n]
  BY SecondsFollow
<1>3. PICK g : Follows(g, s, base, n + 1) /\ Seconds(pool, total, base, n + 1) = g[n + 1]
  BY SecondsFollow
<1> DEFINE T == {k \in Nat : k <= n => f[k] = g[k]}
<1>4. 0 \in T
  BY <1>2, <1>3 DEF Follows
<1>5. ASSUME NEW k \in Nat, k \in T
      PROVE  k + 1 \in T
  <2> SUFFICES ASSUME k + 1 <= n
               PROVE  f[k + 1] = g[k + 1]
    OBVIOUS
  <2>1. f[k] = g[k]
    BY <1>5
  <2>2. /\ k + 1 \in 0 .. n /\ k + 1 \in 0 .. (n + 1)
        /\ k + 1 # 0 /\ (k + 1) - 1 = k
    OBVIOUS
  <2>3. f[k + 1] = Turn(f[k], base)
    BY <2>2, <1>2, Zenon DEF Follows
  <2>4. g[k + 1] = Turn(g[k], base)
    BY <2>2, <1>3, Zenon DEF Follows
  <2> QED
    BY <2>1, <2>3, <2>4
<1>6. Nat \subseteq T
  <2> HIDE DEF T
  <2> QED
    BY <1>4, <1>5, Inductive
<1>7. f[n] = g[n]
  BY <1>6
<1>8. g[n + 1] = Turn(g[n], base)
  <2>1. n + 1 \in 0 .. (n + 1) /\ n + 1 # 0 /\ (n + 1) - 1 = n
    OBVIOUS
  <2> QED
    BY <2>1, <1>3 DEF Follows
<1> QED
  BY <1>1, <1>2, <1>3, <1>7, <1>8

-----------------------------------------------------------------------------
\* A pool and a total price that the loop may have.
Reached(base) == {s \in Int \X Int : s[1] <= GasPoolMax /\ s[2] >= base}

\* A turn of the loop leads from a state it can be in to another.
LEMMA TurnReached ==
  ASSUME NEW base \in Int, NEW s \in Reached(base)
  PROVE  Turn(s, base) \in Reached(base)
<1>1. SpeedLimit \in Nat /\ GasPoolMax \in Nat \ {0}
  BY AmountsAssumption
<1>2. s \in Int \X Int /\ s[1] \in Int /\ s[2] \in Int /\ s[2] >= base
  BY DEF Reached
<1> DEFINE pool == Smaller(s[1] + SpeedLimit, GasPoolMax)
           num == s[2] * (121 * GasPoolMax - 2 * Larger(pool, 0))
           price == num \div (120 * GasPoolMax)
<1>3. pool \in Int /\ pool <= GasPoolMax
  BY <1>1, <1>2 DEF Smaller
<1>4. Larger(pool, 0) \in Int
  BY <1>3 DEF Larger
<1>5. num \in Int /\ 120 * GasPoolMax \in Nat \ {0}
  BY <1>1, <1>2, <1>4
<1>6. price \in Int
  BY <1>5
<1>7. Larger(price, base) \in Int /\ Larger(price, base) >= base
  BY <1>6 DEF Larger
<1>8. Second(s[1], s[2], base) = <<pool, Larger(price, base)>>
  BY DEF Second
<1>9. Second(s[1], s[2], base) \in Reached(base)
  <2> HIDE DEF pool, price
  <2> QED
    BY <1>3, <1>7, <1>8 DEF Reached
<1> QED
  BY <1>9 DEF Turn

\* The loop of updateCongestionState keeps the pool within its maximum and the
\* total price at the base price or above it, however many seconds pass.
LEMMA SecondsReached ==
  ASSUME NEW base \in Int, NEW pool, NEW total, <<pool, total>> \in Reached(base),
         NEW n \in Nat
  PROVE  Seconds(pool, total, base, n) \in Reached(base)
<1> DEFINE T == {k \in Nat : Seconds(pool, total, base, k) \in Reached(base)}
<1>1. 0 \in T
  BY SecondsUnfold
<1>2. ASSUME NEW k \in Nat, k \in T
      PROVE  k + 1 \in T
  BY <1>2, SecondsUnfold, TurnReached
<1>3. Nat \subseteq T
  <2> HIDE DEF T
  <2> QED
    BY <1>1, <1>2, Inductive
<1> QED
  BY <1>3

\* Seconds that pass in two parts are seconds that pass at once, although the
\* loop may stop early in either part.
LEMMA SecondsAdd ==
  ASSUME NEW pool, NEW total, NEW base, NEW m \in Nat, NEW n \in Nat,
         NEW x, NEW y, Seconds(pool, total, base, m) = <<x, y>>
  PROVE  Seconds(x, y, base, n) = Seconds(pool, total, base, m + n)
<1> DEFINE T == {k \in Nat : Seconds(x, y, base, k) = Seconds(pool, total, base, m + k)}
<1>1. 0 \in T
  <2>1. Seconds(x, y, base, 0) = <<x, y>>
    BY SecondsUnfold
  <2> QED
    BY <2>1
<1>2. ASSUME NEW k \in Nat, k \in T
      PROVE  k + 1 \in T
  <2>1. m + k \in Nat /\ m + (k + 1) = (m + k) + 1
    OBVIOUS
  <2>2. Seconds(pool, total, base, m + (k + 1)) = Turn(Seconds(pool, total, base, m + k), base)
    BY <2>1, SecondsUnfold
  <2>3. Seconds(x, y, base, k + 1) = Turn(Seconds(x, y, base, k), base)
    BY SecondsUnfold
  <2> QED
    BY <1>2, <2>2, <2>3
<1>3. Nat \subseteq T
  <2> HIDE DEF T
  <2> QED
    BY <1>1, <1>2, Inductive
<1> QED
  BY <1>3

-----------------------------------------------------------------------------
(* The information that gas accounting keeps.                              *)

Prices == [calldata : Nat, storage : Nat, base : Nat, total : Nat]
Tx == [reserve : Nat, forStorage : Nat, max : Nat, price : Nat, held : Nat, refundTo : User]
Info == [tx : Tx \cup {NoTx}, prices : Prices, remaining : 0 .. GasPoolMax, pool : Int,
         lastBlock : Nat, lastTime : Nat, congestion : Nat]

\* What TypeOK says of the information, and the types of its fields.
InfoOK(i, enabled) ==
  /\ i \in Info
  /\ i.pool <= GasPoolMax
  /\ enabled => i.prices.total = i.prices.base + i.congestion

\* setPrices returns prices, and with fees enabled their total includes the
\* congestion.
LEMMA PricesType ==
  ASSUME NEW enabled \in BOOLEAN, NEW l1 \in Nat, NEW congestion \in Nat
  PROVE  LET p == setPrices(enabled, l1, congestion)
         IN  p \in Prices /\ (enabled => p.total = p.base + congestion)
<1>1. /\ L1GasPerL1CalldataUnit \in Nat /\ L1GasPerStorage \in Nat
      /\ ArbGasDivisor \in Nat \ {0}
  BY AmountsAssumption
<1>2. /\ L1GasPerL1CalldataUnit * l1 \in Nat /\ L1GasPerStorage * l1 \in Nat
      /\ l1 \div ArbGasDivisor \in Nat
  BY <1>1
<1> QED
  BY <1>2 DEF setPrices, Prices

\* setupParameters sets up well-formed information.
LEMMA SetupOK ==
  ASSUME NEW enabled \in BOOLEAN, NEW l1 \in Nat, NEW tx \in Tx \cup {NoTx},
         NEW block \in Nat, NEW time \in Nat
  PROVE  /\ InfoOK(setupParameters(enabled, l1, tx, block, time), enabled)
         /\ setupParameters(enabled, l1, tx, block, time).tx = tx
<1>1. GasPoolMax \in Nat
  BY AmountsAssumption
<1>2. /\ setPrices(enabled, l1, 0) \in Prices
      /\ enabled => setPrices(enabled, l1, 0).total = setPrices(enabled, l1, 0).base + 0
  BY PricesType
<1>3. enabled => setPrices(enabled, l1, 0).base \in Nat
  BY <1>2, Zenon DEF Prices
<1> QED
  BY <1>1, <1>2, <1>3 DEF setupParameters, InfoOK, Info

\* The pool and the congestion at a later time.
LEMMA CongestionOK ==
  ASSUME NEW i \in Info, i.pool <= GasPoolMax, NEW block \in Nat, NEW time \in Nat
  PROVE  LET j == updateCongestionState(i, block, time)
         IN  j \in Info /\ j.pool <= GasPoolMax /\ j.tx = i.tx /\ j.prices = i.prices
<1> DEFINE base == i.prices.base
           n == Larger(time - i.lastTime, 0)
           after == Seconds(i.pool, base + i.congestion, base, n)
<1>1. /\ base \in Nat /\ i.congestion \in Nat /\ i.pool \in Int /\ i.lastTime \in Nat
      /\ base + i.congestion >= base /\ base + i.congestion \in Nat
  BY DEF Info, Prices
<1>2. n \in Nat
  BY <1>1 DEF Larger
<1>3. <<i.pool, base + i.congestion>> \in Reached(base)
  BY <1>1 DEF Reached
<1>4. after \in Reached(base)
  <2> HIDE DEF base, n
  <2> QED
    BY <1>1, <1>2, <1>3, SecondsReached
<1>5. after[1] \in Int /\ after[1] <= GasPoolMax /\ after[2] - base \in Nat
  <2> HIDE DEF base, after
  <2> QED
    BY <1>1, <1>4 DEF Reached
<1>6. updateCongestionState(i, block, time) =
        [i EXCEPT !.pool = after[1], !.lastBlock = block, !.lastTime = time,
                  !.congestion = after[2] - base]
  BY DEF updateCongestionState
<1> HIDE DEF after, base
<1> QED
  BY <1>5, <1>6, Zenon DEF Info

\* gasAccounting_startNewBlock keeps the information well formed and the
\* transaction as it is.
LEMMA NewBlockOK ==
  ASSUME NEW i, InfoOK(i, fees), fees \in BOOLEAN, estimate \in Nat,
         NEW block \in Nat, NEW time \in Nat
  PROVE  /\ InfoOK(gasAccounting_startNewBlock(i, block, time), fees)
         /\ gasAccounting_startNewBlock(i, block, time).tx = i.tx
<1> DEFINE j == updateCongestionState(i, block, time)
<1>1. j \in Info /\ j.pool <= GasPoolMax /\ j.tx = i.tx
  BY CongestionOK DEF InfoOK
<1>2. gasAccounting_startNewBlock(i, block, time) =
        [j EXCEPT !.prices = setPrices(fees, estimate, j.congestion),
                  !.remaining = Larger(j.pool, 0)]
  BY DEF gasAccounting_startNewBlock
<1> HIDE DEF j
<1>3. j.pool \in Int /\ j.congestion \in Nat /\ GasPoolMax \in Nat
  BY <1>1, AmountsAssumption DEF Info
<1>4. Larger(j.pool, 0) \in 0 .. GasPoolMax
  BY <1>1, <1>3 DEF Larger
<1>5. /\ setPrices(fees, estimate, j.congestion) \in Prices
      /\ fees => setPrices(fees, estimate, j.congestion).total
                   = setPrices(fees, estimate, j.congestion).base + j.congestion
  BY <1>3, PricesType
<1> QED
  BY <1>1, <1>2, <1>4, <1>5, Zenon DEF InfoOK, Info

\* updateCongestionState for two intervals in turn is the same as for both at
\* once.
LEMMA TimesAdd ==
  ASSUME NEW i \in Info, i.pool <= GasPoolMax, NEW t \in Nat, NEW u \in Nat,
         i.lastTime <= t, t <= u
  PROVE  updateCongestionState(updateCongestionState(i, 0, t), 0, u)
           = updateCongestionState(i, 0, u)
<1> DEFINE base == i.prices.base
           total == base + i.congestion
           m == t - i.lastTime
           n == u - t
           mid == Seconds(i.pool, total, base, m)
           end == Seconds(i.pool, total, base, m + n)
           j == updateCongestionState(i, 0, t)
<1>1. /\ base \in Nat /\ i.congestion \in Nat /\ i.pool \in Int /\ i.lastTime \in Nat
      /\ base + i.congestion >= base /\ base + i.congestion \in Nat
  BY DEF Info, Prices
<1>2. m \in Nat /\ n \in Nat /\ m + n = u - i.lastTime
  BY <1>1
<1>3. Larger(m, 0) = m /\ Larger(n, 0) = n /\ Larger(u - i.lastTime, 0) = m + n
  BY <1>1, <1>2 DEF Larger
<1>4. <<i.pool, total>> \in Reached(base)
  BY <1>1 DEF Reached
<1>5. mid \in Reached(base)
  <2> HIDE DEF base, m, total
  <2> QED
    BY <1>1, <1>2, <1>4, SecondsReached
<1>6. mid[2] \in Int /\ base + (mid[2] - base) = mid[2]
  <2> HIDE DEF base, mid
  <2> QED
    BY <1>1, <1>5 DEF Reached
<1>7. Seconds(mid[1], mid[2], base, n) = end
  <2>1. PICK x, y : mid = <<x, y>>
    BY <1>5 DEF Reached
  <2>2. m \in Nat /\ n \in Nat
    BY <1>2
  <2> DEFINE p == i.pool
  <2> HIDE DEF base, m, n, total, p
  <2>3. Seconds(x, y, base, n) = Seconds(p, total, base, m + n)
    BY <2>1, <2>2, SecondsAdd DEF p
  <2> QED
    BY <2>1, <2>3 DEF p
<1>8. j = [i EXCEPT !.pool = mid[1], !.lastBlock = 0, !.lastTime = t, !.congestion = mid[2] - base]
  <2> HIDE DEF mid
  <2> QED
    BY <1>3, Zenon DEF updateCongestionState, mid
<1>9. updateCongestionState(i, 0, u)
        = [i EXCEPT !.pool = end[1], !.lastBlock = 0, !.lastTime = u, !.congestion = end[2] - base]
  BY <1>3, Zenon DEF updateCongestionState
<1> HIDE DEF mid, end, j
<1>10. /\ j.pool = mid[1] /\ j.lastTime = t /\ j.congestion = mid[2] - base /\ j.prices = i.prices
  BY <1>8 DEF Info
<1>11. /\ j.prices.base = base /\ base + j.congestion = mid[2] /\ u - j.lastTime = n
  BY <1>6, <1>10
<1>12. updateCongestionState(j, 0, u)
         = [j EXCEPT !.pool = end[1], !.lastBlock = 0, !.lastTime = u, !.congestion = end[2] - base]
  <2>1. Seconds(j.pool, j.prices.base + j.congestion, j.prices.base, Larger(u - j.lastTime, 0)) = end
    <3> HIDE DEF base, n
    <3> QED
      BY <1>3, <1>7, <1>10, <1>11
  <2> QED
    BY <1>11, <2>1, Zenon DEF updateCongestionState
<1> HIDE DEF base
<1>13. [j EXCEPT !.pool = end[1], !.lastBlock = 0, !.lastTime = u, !.congestion = end[2] - base]
         = [i EXCEPT !.pool = end[1], !.lastBlock = 0, !.lastTime = u, !.congestion = end[2] - base]
  BY <1>8, Zenon DEF Info
<1> QED
  BY <1>9, <1>12, <1>13 DEF j

-----------------------------------------------------------------------------
(***************************************************************************)
(* The inductive invariant IInv of gas accounting, and the proof that the  *)
(* start of a transaction preserves it: what it pays for L1 resources, what *)
(* is held for its gas, and what becomes of it when it cannot start.       *)
(***************************************************************************)

Register == Nat \cup {OS}
Call == [given : Nat, saved : Nat]

\* The stores that hold all the ETH there is, in accounts and for gas.
Supply == Funds * Cardinality(User)
Whole == {st \in Store : Total(st.bal) + st.escrow[EscrowStoreID_txGas] = Supply}

\* A bill to one of the users, who had so much before.
BillOK(b) ==
  b \in [payer : User, before : UInt, limit : Nat, l1 : Nat, held : Nat, gas : Nat,
         status : {"running", "ended", "not applied", "rejected", "unfunded", "error",
                   "below minimum", "price too low"}]

\* A payer is poorer by n at most, and exactly by n when fees are paid to others.
Costs(b, st, n) ==
  /\ b.before - st.bal[b.payer] <= n
  /\ b.payer \notin FeeTaker => b.before - st.bal[b.payer] = n

\* While a transaction runs its payer is poorer by the L1 fees and what is
\* held, and both are within the limit.
Charged ==
  /\ bill.status = "running"
  /\ BillOK(bill)
  /\ bill.gas = 0
  /\ bill.held = info.tx.max * info.tx.price /\ bill.held = info.tx.held
  /\ bill.payer = info.tx.refundTo
  /\ Costs(bill, store, bill.l1 + bill.held)
  /\ bill.l1 + bill.held <= bill.limit

IInv ==
  /\ store \in Whole
  /\ InfoOK(info, fees)
  /\ fees \in BOOLEAN /\ estimate \in Nat
  /\ clock.arb \in Nat /\ clock.time \in Nat
  /\ reg \in Register
  /\ calls \in Seq(Call)
  /\ unsettled \in Nat
  /\ (Running <=> calls # <<>>) /\ (~Running => reg = OS)
  /\ HeldExactly
  /\ GasWithinMax
  /\ Running => info.tx.forStorage <= info.tx.max /\ Charged
  /\ ~Running => bill.status = "none" \/ (BillOK(bill) /\ bill.status # "running")
  /\ ChargedAsReceipted

-----------------------------------------------------------------------------
(* Arithmetic.                                                             *)

\* The smaller and the larger of two numbers.
LEMMA SmallerLarger ==
  ASSUME NEW x \in Int, NEW y \in Int
  PROVE  /\ Smaller(x, y) \in Int /\ Smaller(x, y) <= x /\ Smaller(x, y) <= y
         /\ Smaller(x, y) \in {x, y}
         /\ Larger(x, y) \in Int /\ Larger(x, y) >= x /\ Larger(x, y) >= y
         /\ Larger(x, y) \in {x, y}
  BY DEF Smaller, Larger

\* Products of natural numbers are natural numbers.
LEMMA ProductNat == \A x, y \in Nat : x * y \in Nat
  OBVIOUS

\* Multiplication keeps the order.
LEMMA ProductOrder ==
  ASSUME NEW x \in Int, NEW y \in Int, NEW p \in Nat, x <= y
  PROVE  x * p <= y * p
<1>1. (y - x) \in Nat
  OBVIOUS
<1>2. (y - x) * p \in Nat
  BY <1>1, ProductNat
<1>3. (y - x) * p = y * p - x * p
  OBVIOUS
<1> QED
  BY <1>2, <1>3

\* A division rounded up covers the dividend.
LEMMA RoundedUp ==
  ASSUME NEW n \in Nat, NEW p \in Nat \ {0}
  PROVE  /\ (n + p - 1) \div p \in Nat
         /\ n <= ((n + p - 1) \div p) * p
<1> DEFINE x == n + p - 1
<1>1. x \in Nat
  OBVIOUS
<1>2. x \div p \in Nat /\ x = p * (x \div p) + (x % p) /\ x % p \in 0 .. (p - 1)
  BY <1>1
<1> QED
  BY <1>2

\* Refund, network fee and congestion fee add up to what was held.
LEMMA Settled ==
  ASSUME NEW max \in Int, NEW used \in Int, NEW extra \in Int, NEW price \in Int, NEW base \in Int
  PROVE  (max - (used + extra)) * price + (used * base + extra * price) + used * (price - base)
           = max * price
  OBVIOUS

-----------------------------------------------------------------------------
(* The sum of all balances.                                                *)

\* A function on fewer accounts.
Part(f, s) == [x \in s |-> f[x]]

\* A part of a sheet is an entry of it and the rest.
LEMMA PartSplit ==
  ASSUME NEW S, IsFiniteSet(S), NEW f \in Balances(S), NEW s \in SUBSET S, NEW x \in s
  PROVE  Total(Part(f, s)) = f[x] + Total(Part(f, s \ {x}))
<1> DEFINE g == Part(f, s)
           rest == {c \in Coins(g) : c[1] # x}
<1>1. IsFiniteSet(s)
  BY FS_Subset
<1>2. g \in Balances(s) /\ g[x] = f[x]
  BY DEF Part, Balances
<1>3. Cardinality(rest) \in Nat /\ Total(g) = Cardinality(rest) + g[x]
  <2> HIDE DEF g
  <2> QED
    BY <1>1, <1>2, CoinsSplit
<1>4. rest = Coins(Part(f, s \ {x}))
  BY DEF Coins, Part
<1>5. f[x] \in Nat
  BY UIntFacts, Zenon DEF Balances
<1> HIDE DEF g, rest
<1> QED
  BY <1>2, <1>3, <1>4, <1>5 DEF Total, g

\* The sum of the balances, in whatever order they are added up, is their total.
LEMMA SumIsTotal ==
  ASSUME NEW S, IsFiniteSet(S), NEW f \in Balances(S)
  PROVE  FoldFunction(LAMBDA x, y : x + y, 0, f) = Total(f)
<1> DEFINE F(g) == [s \in SUBSET S |-> IF s = {} THEN 0
                      ELSE f[CHOOSE x \in s : TRUE] + g[s \ {CHOOSE x \in s : TRUE}]]
           w == [s \in SUBSET S |-> Total(Part(f, s))]
           iter == CHOOSE g : g = F(g)
           T == {n \in Nat : \A s \in SUBSET S : Cardinality(s) = n => iter[s] = w[s]}
<1>1. Total(Part(f, {})) = 0
  <2>1. Coins(Part(f, {})) = {}
    BY DEF Coins, Part
  <2> QED
    BY <2>1, FS_EmptySet DEF Total
<1>2. ASSUME NEW s \in SUBSET S, s # {}
      PROVE  w[s] = f[CHOOSE x \in s : TRUE] + w[s \ {CHOOSE x \in s : TRUE}]
  <2> DEFINE x == CHOOSE x \in s : TRUE
  <2>1. x \in s
    BY <1>2
  <2> HIDE DEF x
  <2>2. Total(Part(f, s)) = f[x] + Total(Part(f, s \ {x}))
    BY <2>1, PartSplit
  <2>3. s \ {x} \in SUBSET S
    OBVIOUS
  <2>4. w[s] = f[x] + w[s \ {x}]
    BY <2>2, <2>3
  <2> QED
    BY <2>4 DEF x
<1>3. w = F(w)
  BY <1>1, <1>2, Zenon
<1>4. iter = F(iter)
  <2> HIDE DEF F
  <2> QED
    BY <1>3
<1> HIDE DEF iter, w
<1>5. 0 \in T
  <2> SUFFICES ASSUME NEW s \in SUBSET S, Cardinality(s) = 0
               PROVE  iter[s] = w[s]
    OBVIOUS
  <2>1. s = {}
    BY FS_Subset, FS_EmptySet
  <2>2. {} \in SUBSET S
    OBVIOUS
  <2> QED
    BY <1>1, <1>4, <2>1, <2>2 DEF w
<1>6. ASSUME NEW n \in Nat, n \in T
      PROVE  n + 1 \in T
  <2> SUFFICES ASSUME NEW s \in SUBSET S, Cardinality(s) = n + 1
               PROVE  iter[s] = w[s]
    OBVIOUS
  <2> DEFINE x == CHOOSE x \in s : TRUE
  <2>1. s # {}
    BY FS_EmptySet
  <2>2. x \in s
    BY <2>1
  <2>3. Cardinality(s \ {x}) = n /\ s \ {x} \in SUBSET S
    <3> HIDE DEF x
    <3>1. IsFiniteSet(s)
      BY FS_Subset
    <3>2. Cardinality(s \ {x}) = Cardinality(s) - 1
      BY <2>2, <3>1, FS_RemoveElement, Zenon
    <3> QED
      BY <3>2
  <2>4. iter[s \ {x}] = w[s \ {x}]
    <3> HIDE DEF x
    <3> QED
      BY <1>6, <2>3
  <2>5. iter[s] = f[x] + iter[s \ {x}]
    BY <1>4, <2>1
  <2>6. w[s] = f[x] + w[s \ {x}]
    BY <1>2, <2>1
  <2> QED
    BY <2>4, <2>5, <2>6
<1>7. Nat \subseteq T
  <2> HIDE DEF T
  <2> QED
    BY <1>5, <1>6, Inductive
<1>8. iter[S] = w[S]
  <2>1. Cardinality(S) \in Nat /\ S \in SUBSET S
    BY FS_CardinalityType
  <2> QED
    BY <1>7, <2>1
<1>9. w[S] = Total(f)
  <2>1. Part(f, S) = f
    BY DEF Part, Balances
  <2> QED
    BY <2>1 DEF w
<1>10. FoldFunction(LAMBDA x, y : x + y, 0, f) = iter[S]
  <2>1. DOMAIN f = S
    BY DEF Balances
  <2> QED
    BY <2>1 DEF FoldFunction, FoldFunctionOnSet, MapThenFoldSet, iter
<1> QED
  BY <1>8, <1>9, <1>10, Zenon

-----------------------------------------------------------------------------
(* Payments.                                                               *)

\* Wrapped numbers are unsigned integers.
LEMMA WrapType == \A n \in Int : Wrap(n) \in UInt
  BY UintAssumption DEF Wrap, UInt

\* The gas is held under a key of its own.
LEMMA Key0 == EscrowStoreID_txGas \in EscrowKey
  BY KeyAssumption DEF EscrowStoreID_txGas, EscrowKey

\* A whole store has the types of a store, and no balance can wrap when what
\* is held for gas is added to it.
LEMMA WholeFields ==
  ASSUME NEW st \in Whole
  PROVE  /\ st \in Store
         /\ st.bal \in Balances(Addr)
         /\ Total(st.bal) \in Nat /\ st.escrow[EscrowStoreID_txGas] \in UInt
         /\ Total(st.bal) + st.escrow[EscrowStoreID_txGas] <= MaxUint
         /\ \A a \in Addr : st.bal[a] \in UInt /\ st.bal[a] <= Total(st.bal)
<1>1. st \in Store /\ Total(st.bal) + st.escrow[EscrowStoreID_txGas] = Supply
  BY DEF Whole
<1>2. st.bal \in Balances(Addr) /\ st.escrow[EscrowStoreID_txGas] \in UInt
  BY <1>1, Key0 DEF Store, Balances
<1>3. \A a \in Addr : st.bal[a] \in UInt /\ st.bal[a] <= Total(st.bal)
  BY <1>2, AddrAssumption, TotalBounds DEF Balances
<1>4. Total(st.bal) \in Nat
  BY <1>2, AddrAssumption, TotalType
<1> QED
  BY <1>1, <1>2, <1>3, <1>4, SupplyAssumption DEF Supply

\* The store with another balance of a and another amount held for gas.
Updated(st, a, x, y) == [st EXCEPT !.bal[a] = x, !.escrow[EscrowStoreID_txGas] = y]

\* Wei between an account and the gas escrow: none is lost.
LEMMA UpdatedOK ==
  ASSUME NEW st \in Whole, NEW a \in Addr, NEW x \in UInt, NEW y \in UInt,
         x + y = st.bal[a] + st.escrow[EscrowStoreID_txGas]
  PROVE  /\ Updated(st, a, x, y) \in Whole
         /\ Updated(st, a, x, y).bal[a] = x
         /\ Updated(st, a, x, y).escrow[EscrowStoreID_txGas] = y
         /\ \A c \in Addr \ {a} : Updated(st, a, x, y).bal[c] = st.bal[c]
<1> DEFINE k == EscrowStoreID_txGas
           r == Updated(st, a, x, y)
           bal == [st.bal EXCEPT ![a] = x]
<1>1. st \in Store /\ k \in EscrowKey
  BY WholeFields, Key0
<1>2. r \in Store /\ r.bal = bal /\ r.escrow = [st.escrow EXCEPT ![k] = y]
  BY <1>1, Zenon DEF Updated, Store
<1>3. st.bal \in [Addr -> UInt] /\ st.escrow \in [EscrowKey -> UInt]
  BY <1>1 DEF Store
<1>4. /\ bal[a] = x /\ (\A c \in Addr \ {a} : bal[c] = st.bal[c])
      /\ [st.escrow EXCEPT ![k] = y][k] = y
  BY <1>1, <1>3
<1>5. Total(bal) + st.bal[a] = Total(st.bal) + x /\ bal \in Balances(Addr)
  BY <1>3, AddrAssumption, TotalUpdate DEF Balances
<1>6. Total(bal) \in Nat /\ Total(st.bal) \in Nat /\ st.bal[a] \in Nat /\ st.escrow[k] \in Nat
  BY <1>5, AddrAssumption, TotalType, WholeFields, UIntFacts, Zenon
<1>7. Total(st.bal) + st.escrow[k] = Supply
  BY DEF Whole
<1> HIDE DEF bal, r, k
<1>8. x + y = st.bal[a] + st.escrow[k] /\ x \in Nat /\ y \in Nat
  BY UIntFacts DEF k
<1>9. Total(bal) + y = Supply
  BY <1>5, <1>6, <1>7, <1>8
<1> QED
  BY <1>2, <1>4, <1>9, Zenon DEF Whole, r, k

\* What is held for gas can be paid to anyone.
LEMMA HeldFits ==
  ASSUME NEW st \in Whole, NEW a \in Addr, NEW n \in Nat, n <= st.escrow[EscrowStoreID_txGas]
  PROVE  st.bal[a] + n \in UInt /\ Wrap(st.bal[a] + n) = st.bal[a] + n
<1> DEFINE held == st.escrow[EscrowStoreID_txGas]
<1>1. /\ st.bal[a] \in Nat /\ Total(st.bal) \in Nat /\ held \in Nat
      /\ st.bal[a] <= Total(st.bal) /\ Total(st.bal) + held <= MaxUint
  BY WholeFields, UIntFacts, Zenon
<1> HIDE DEF held
<1>2. st.bal[a] + n \in Nat /\ st.bal[a] + n <= MaxUint
  BY <1>1, UintAssumption DEF held
<1> QED
  BY <1>2, UIntFacts

\* accountStore_transferEthBalance to someone else loses no wei.
LEMMA MoveOK ==
  ASSUME NEW st \in Whole, NEW from \in Addr, NEW to \in Addr, from # to,
         NEW n \in Nat, n <= st.bal[from]
  PROVE  LET r == accountStore_transferEthBalance(st, from, to, n)
         IN  r \in Whole /\ r.bal[from] = st.bal[from] - n /\ r.escrow = st.escrow
<1> DEFINE less == [st.bal EXCEPT ![from] = st.bal[from] - n]
           bal == [less EXCEPT ![to] = st.bal[to] + n]
<1>1. /\ st \in Store /\ st.bal \in Balances(Addr) /\ st.bal[from] \in UInt /\ st.bal[to] \in UInt
      /\ Total(st.bal) \in Nat /\ Total(st.bal) <= MaxUint
  <2> DEFINE held == st.escrow[EscrowStoreID_txGas]
             total == Total(st.bal)
  <2>1. total \in Nat /\ held \in Nat /\ total + held <= MaxUint
    BY WholeFields, UIntFacts, Zenon
  <2> HIDE DEF held, total
  <2>2. total <= MaxUint
    BY <2>1, UintAssumption
  <2> QED
    BY <2>1, <2>2, WholeFields DEF total
<1>2. st.bal[from] - n \in UInt
  BY <1>1, UintAssumption DEF UInt
<1>3. less \in Balances(Addr) /\ Total(less) + st.bal[from] = Total(st.bal) + (st.bal[from] - n)
  BY <1>1, <1>2, AddrAssumption, TotalUpdate
<1>4. less[to] = st.bal[to] /\ less[to] <= Total(less) /\ Total(less) \in Nat
  <2>1. less[to] = st.bal[to]
    BY <1>1 DEF Balances
  <2> HIDE DEF less
  <2> QED
    BY <1>3, <2>1, AddrAssumption, TotalBounds, TotalType
<1> HIDE DEF less
<1>5. st.bal[from] \in Nat /\ st.bal[to] \in Nat
  BY <1>1, UIntFacts, ZenonT(30)
<1>6. st.bal[to] + n <= MaxUint /\ st.bal[to] + n \in Nat
  BY <1>1, <1>3, <1>4, <1>5, UintAssumption
<1>7. st.bal[to] + n \in UInt /\ Wrap(st.bal[to] + n) = st.bal[to] + n
  BY <1>6, UIntFacts
<1>8. Total(bal) + less[to] = Total(less) + (st.bal[to] + n) /\ bal \in Balances(Addr)
  BY <1>3, <1>7, AddrAssumption, TotalUpdate
<1>9. Total(bal) = Total(st.bal)
  <2>1. Total(bal) \in Nat
    BY <1>8, AddrAssumption, TotalType
  <2> HIDE DEF bal
  <2> QED
    BY <1>1, <1>3, <1>4, <1>5, <1>8, <2>1
<1>10. bal[from] = st.bal[from] - n
  BY <1>1, <1>3 DEF Balances, less
<1>11. CASE n = 0
  BY <1>5, <1>11 DEF accountStore_transferEthBalance
<1>12. CASE n # 0
  <2>1. accountStore_transferEthBalance(st, from, to, n) = [st EXCEPT !.bal = bal]
    <3>1. accountStore_transferEthBalance(st, from, to, n) =
            [st EXCEPT !.bal = [less EXCEPT ![to] = Wrap(@ + n)]]
      BY <1>1, <1>12, Zenon DEF accountStore_transferEthBalance, account_addToEthBalance, Store, less
    <3>2. [less EXCEPT ![to] = Wrap(@ + n)] = bal
      BY <1>4, <1>7, ZenonT(30)
    <3> HIDE DEF bal
    <3> QED
      BY <3>1, <3>2
  <2> HIDE DEF bal
  <2>2. /\ [st EXCEPT !.bal = bal] \in Store /\ [st EXCEPT !.bal = bal].bal = bal
        /\ [st EXCEPT !.bal = bal].escrow = st.escrow
    BY <1>1, <1>8, SMTT(30) DEF Store, Balances
  <2> QED
    BY <1>9, <1>10, <2>1, <2>2, Zenon DEF Whole
<1> QED
  BY <1>11, <1>12

\* accountStore_transferEthBalance costs its sender what is transferred, unless
\* it is to the sender.
LEMMA TransferOK ==
  ASSUME NEW st \in Whole, NEW from \in Addr, NEW to \in Addr,
         NEW n \in Nat, n <= st.bal[from]
  PROVE  LET r == accountStore_transferEthBalance(st, from, to, n)
         IN  /\ r \in Whole /\ r.escrow = st.escrow
             /\ r.bal[from] \in Nat /\ r.bal[from] >= st.bal[from] - n
             /\ from # to => r.bal[from] = st.bal[from] - n
<1>1. st.bal[from] \in Nat
  BY WholeFields, UIntFacts, Zenon
<1>2. CASE from = to
  <2>1. accountStore_transferEthBalance(st, from, to, n) = st
    BY <1>2, Zenon DEF accountStore_transferEthBalance
  <2> QED
    BY <1>1, <1>2, <2>1
<1>3. CASE from # to
  BY <1>1, <1>3, MoveOK
<1> QED
  BY <1>2, <1>3

\* A payment for L1 gas leaves a payer with what was not paid.
PaymentOK(p, payer, limit) ==
  /\ p.store \in Whole /\ p.store.escrow = store.escrow
  /\ p.tx \in Int /\ p.calldata \in Int
  /\ p.tx + p.calldata \in 0 .. limit
  /\ p.store.bal[payer] >= store.bal[payer] - (p.tx + p.calldata)
  /\ payer \notin FeeTaker => p.store.bal[payer] = store.bal[payer] - (p.tx + p.calldata)

\* Of what a was, b is left after n was paid, and c after d more.
LEMMA MorePaid ==
  ASSUME NEW a \in Nat, NEW b \in Nat, NEW c \in Nat, NEW n \in Int, NEW d \in Nat,
         NEW limit \in Nat, n \in 0 .. limit, d <= limit - n
  PROVE  /\ n + d \in 0 .. limit
         /\ b >= a - n /\ c >= b - d => c >= a - (n + d)
         /\ b = a - n /\ c = b - d => c = a - (n + d)
  OBVIOUS

\* What is not left of a was paid.
LEMMA PaidPart ==
  ASSUME NEW a \in Nat, NEW b \in Nat, NEW limit \in Nat, NEW n \in 0 .. limit
  PROVE  /\ n \in Nat /\ n <= limit
         /\ b >= a - n => a - b <= n
         /\ b = a - n => a - b = n
  OBVIOUS

\* tryToPayForL1Gas takes no more than what is left of the limit.
LEMMA PayMore ==
  ASSUME store \in Whole, NEW payer \in User, NEW to \in FeeTaker, NEW limit \in Nat,
         NEW p, PaymentOK(p, payer, limit), NEW weiForTx \in Nat, NEW weiForCalldata \in Nat,
         NEW rest, rest = limit - (p.tx + p.calldata)
  PROVE  PaymentOK(tryToPayForL1Gas(p, payer, to, weiForTx, weiForCalldata, rest), payer, limit)
<1> DEFINE asked == weiForTx + weiForCalldata
           due == Smaller(Smaller(asked, rest), p.store.bal[payer])
           forTx == IF due = asked THEN weiForTx ELSE (due * weiForTx) \div asked
           q == tryToPayForL1Gas(p, payer, to, weiForTx, weiForCalldata, rest)
<1>1. /\ payer \in Addr /\ to \in Addr /\ (payer \notin FeeTaker => payer # to)
      /\ p.store.bal[payer] \in Nat /\ store.bal[payer] \in Nat
  BY AccountsAssumption, UintAssumption DEF PaymentOK, Store, Whole, UInt
<1>2. rest \in Nat /\ asked \in Nat
  BY DEF PaymentOK
<1>3. due \in Nat /\ due <= asked /\ due <= rest /\ due <= p.store.bal[payer]
  <2> HIDE DEF asked
  <2> QED
    BY <1>1, <1>2 DEF Smaller
<1>4. forTx \in Int
  <2>1. CASE due = asked
    BY <2>1
  <2>2. CASE due # asked
    <3> HIDE DEF due, asked
    <3>1. due * weiForTx \in Nat /\ asked \in Nat \ {0}
      BY <2>2, <1>2, <1>3
    <3> QED
      BY <3>1, <2>2
  <2> QED
    BY <2>1, <2>2, ZenonT(30)
<1>5. /\ q.store = accountStore_transferEthBalance(p.store, payer, to, due)
      /\ q.tx = p.tx + forTx
      /\ q.calldata = p.calldata + due - forTx
  BY ZenonT(30) DEF tryToPayForL1Gas
<1> HIDE DEF q, due, forTx, asked
<1>6. /\ q.store \in Whole /\ q.store.escrow = store.escrow /\ q.store.bal[payer] \in Nat
      /\ q.store.bal[payer] >= p.store.bal[payer] - due
      /\ payer \notin FeeTaker => q.store.bal[payer] = p.store.bal[payer] - due
  BY <1>1, <1>3, <1>5, TransferOK DEF PaymentOK
<1>7. q.tx \in Int /\ q.calldata \in Int /\ q.tx + q.calldata = (p.tx + p.calldata) + due
  BY <1>3, <1>4, <1>5 DEF PaymentOK
<1> DEFINE n == p.tx + p.calldata
           was == store.bal[payer]
           left == p.store.bal[payer]
           now == q.store.bal[payer]
<1>8. /\ n \in 0 .. limit /\ left >= was - n /\ (payer \notin FeeTaker => left = was - n)
      /\ due <= limit - n /\ due \in Nat
  BY <1>3, ZenonT(30) DEF PaymentOK
<1>9. /\ was \in Nat /\ left \in Nat /\ now \in Nat
      /\ now >= left - due /\ (payer \notin FeeTaker => now = left - due)
  BY <1>1, <1>6, ZenonT(30)
<1>10. /\ n + due \in 0 .. limit
       /\ now >= was - (n + due)
       /\ payer \notin FeeTaker => now = was - (n + due)
  <2> HIDE DEF n, was, left, now
  <2>1. n \in Int
    BY <1>8
  <2> QED
    BY <1>8, <1>9, <2>1, MorePaid
<1>11. PaymentOK(q, payer, limit)
  BY <1>6, <1>7, <1>10, ZenonT(30) DEF PaymentOK
<1> QED
  BY <1>11, Zenon DEF q

\* payForTxAndL1Gas takes no more than the limit.
LEMMA L1Paid ==
  ASSUME store \in Whole, estimate \in Nat, NEW payer \in User, NEW preferred,
         NEW prices \in Prices, NEW units \in Nat, NEW limit \in Nat
  PROVE  PaymentOK(payForTxAndL1Gas(payer, preferred, prices, units, limit), payer, limit)
<1> DEFINE price == estimate * BaseTxFeeL1Gas
           start == [store |-> store, full |-> TRUE, tx |-> 0, calldata |-> 0]
           net == tryToPayForL1Gas(start, payer, NetworkFeeRecipient, shareForNetFee(price),
                                   units * shareForNetFee(prices.calldata), limit)
           more == tryToPayForL1Gas(net, payer, Aggregator, price, units * prices.calldata,
                                    limit - (net.tx + net.calldata))
<1>1. \A n \in Nat : shareForNetFee(n) \in Nat
  <2> SUFFICES ASSUME NEW n \in Nat PROVE shareForNetFee(n) \in Nat
    OBVIOUS
  <2>1. /\ NetworkFeeShare[1] \in Nat /\ NetworkFeeShare[2] \in Nat
        /\ NetworkFeeShare[1] + NetworkFeeShare[2] \in Nat \ {0}
    BY AmountsAssumption
  <2>2. NetworkFeeShare[1] * n \in Nat
    BY <2>1
  <2> QED
    BY <2>1, <2>2 DEF shareForNetFee
<1>2. prices.calldata \in Nat /\ BaseTxFeeL1Gas \in Nat
  BY AmountsAssumption DEF Prices
<1>3. /\ price \in Nat /\ units * prices.calldata \in Nat
      /\ shareForNetFee(price) \in Nat /\ units * shareForNetFee(prices.calldata) \in Nat
  BY <1>1, <1>2, ProductNat
<1>4. NetworkFeeRecipient \in FeeTaker /\ Aggregator \in FeeTaker
  BY DEF FeeTaker
<1>5. PaymentOK(start, payer, limit) /\ limit = limit - (start.tx + start.calldata)
  <2>1. payer \in Addr /\ store.bal[payer] \in Int
    BY AccountsAssumption, UintAssumption DEF Store, Whole, UInt
  <2> QED
    BY <2>1 DEF PaymentOK
<1>6. PaymentOK(net, payer, limit)
  <2> HIDE DEF start, price
  <2> QED
    BY <1>3, <1>4, <1>5, PayMore
<1>7. PaymentOK(more, payer, limit)
  <2> HIDE DEF net, price
  <2> QED
    BY <1>3, <1>4, <1>6, PayMore
<1>8. payForTxAndL1Gas(payer, preferred, prices, units, limit) =
        IF ~net.full \/ ~preferred THEN net ELSE more
  BY Zenon DEF payForTxAndL1Gas
<1> HIDE DEF net, more
<1> QED
  BY <1>6, <1>7, <1>8

-----------------------------------------------------------------------------
(* A transaction starts.                                                   *)

\* A transaction is not the absence of one.
LEMMA TxNotNoTx == \A tx \in Tx : tx # NoTx
  BY DEF Tx, NoTx

\* The bill of a transaction that does not run, with the store it leaves.
NotRun(b, st) ==
  /\ BillOK(b)
  /\ b.status \in {"rejected", "unfunded", "error", "below minimum", "price too low"}
  /\ b.before - st.bal[b.payer] <= b.limit
  /\ b.payer \notin FeeTaker =>
       IF b.status = "unfunded" THEN st.bal[b.payer] = 0
       ELSE b.before - st.bal[b.payer] = b.l1 + b.gas

\* A transaction that does not start keeps the invariant.
LEMMA RejectedStep ==
  ASSUME IInv, NEW i, InfoOK(i, fees), i.tx = NoTx, info.tx = NoTx,
         NEW st \in Whole, unsettled' \in Nat, st.escrow[EscrowStoreID_txGas] = unsettled',
         NEW b, NotRun(b, st), Rejected(i, st, b), UNCHANGED <<fees, estimate, clock>>
  PROVE  IInv'
<1>1. /\ store' = st /\ info' = i /\ bill' = b /\ reg' = reg /\ calls' = calls
      /\ fees' = fees /\ estimate' = estimate /\ clock' = clock
  BY ZenonT(30) DEF Rejected
<1>2. ~Running /\ ~Running' /\ calls = <<>> /\ reg = OS
  BY <1>1, ZenonT(30) DEF IInv, Running
<1>3. BillOK(b)' /\ b.status \notin {"running", "ended", "not applied"}
  BY ZenonT(30) DEF NotRun, BillOK
<1>4. HeldExactly' /\ GasWithinMax'
  BY <1>1, <1>2 DEF HeldExactly, GasWithinMax, EscrowStoreID_txGas
<1>5. ChargedAsReceipted'
  <2>1. Loss' = b.before - st.bal[b.payer]
    BY <1>1, Zenon DEF Loss
  <2>2. NeverOvercharged'
    BY <1>1, <2>1, Zenon DEF NeverOvercharged, NotRun
  <2>3. ASSUME b.payer \notin FeeTaker
        PROVE  /\ b.status # "unfunded" => Loss' = b.l1 + b.gas
               /\ b.status = "unfunded" => st.bal[b.payer] = 0
    BY <2>1, <2>3, Zenon DEF NotRun
  <2>4. PaidAsReported'
    BY <1>1, <1>3, <2>3, ZenonT(30) DEF PaidAsReported
  <2> QED
    BY <2>2, <2>4, Zenon DEF ChargedAsReceipted
<1>6. BillOK(bill)'
  BY <1>1, ZenonT(30) DEF NotRun, BillOK
<1>7. InfoOK(info, fees)'
  BY <1>1 DEF InfoOK, Info
<1> QED
  BY <1>1, <1>2, <1>3, <1>4, <1>5, <1>6, <1>7, ZenonT(30) DEF IInv

\* accountStore_addToEscrowUpToMax holds what the payer can afford.
LEMMA EscrowUpToMaxOK ==
  ASSUME NEW st \in Whole, NEW payer \in Addr, NEW n \in Nat
  PROVE  LET r == accountStore_addToEscrowUpToMax(st, EscrowStoreID_txGas, payer, n)
             m == escrowUpToMax(st, payer, n)
         IN  /\ m \in Nat /\ m <= n /\ m <= st.bal[payer] /\ (m # n => m = st.bal[payer])
             /\ r \in Whole /\ r.bal[payer] = st.bal[payer] - m
             /\ r.escrow[EscrowStoreID_txGas] = st.escrow[EscrowStoreID_txGas] + m
<1> DEFINE m == escrowUpToMax(st, payer, n)
           e == st.escrow[EscrowStoreID_txGas]
           x == st.bal[payer] - m
           y == e + m
<1>1. /\ st.bal[payer] \in UInt /\ EscrowStoreID_txGas \in EscrowKey /\ st \in Store
      /\ e \in UInt /\ Total(st.bal) \in Nat /\ Total(st.bal) + e <= MaxUint
      /\ st.bal[payer] <= Total(st.bal)
  BY Key0, WholeFields
<1>2. m \in Nat /\ m <= n /\ m <= st.bal[payer] /\ (m # n => m = st.bal[payer])
  BY <1>1, UintAssumption DEF escrowUpToMax, UInt
<1> HIDE DEF m, e
<1>3. y \in UInt /\ x \in UInt /\ x + y = st.bal[payer] + e
  BY <1>1, <1>2, UintAssumption DEF UInt
<1>4. Wrap(y) = y
  <2> HIDE DEF y
  <2> QED
    BY <1>3, UIntFacts
<1>5. accountStore_addToEscrowUpToMax(st, EscrowStoreID_txGas, payer, n) = Updated(st, payer, x, y)
  <2>1. accountStore_addToEscrowUpToMax(st, EscrowStoreID_txGas, payer, n) =
          [st EXCEPT !.bal[payer] = x, !.escrow[EscrowStoreID_txGas] = Wrap(e + m)]
    BY Zenon DEF accountStore_addToEscrowUpToMax, m, e
  <2> QED
    BY <1>4, <2>1, Zenon DEF Updated, y
<1> HIDE DEF x, y
<1>6. /\ Updated(st, payer, x, y) \in Whole
      /\ Updated(st, payer, x, y).bal[payer] = x
      /\ Updated(st, payer, x, y).escrow[EscrowStoreID_txGas] = y
  BY <1>3, UpdatedOK DEF e
<1> QED
  BY <1>2, <1>5, <1>6, ZenonT(30) DEF m, e, x, y

\* accountStore_payFullyFromEscrow leaves the escrow for gas empty and other
\* accounts alone.
LEMMA EmptiedOK ==
  ASSUME NEW st \in Whole, NEW u \in Addr
  PROVE  LET r == accountStore_payFullyFromEscrow(st, EscrowStoreID_txGas, NetworkFeeRecipient)
         IN  /\ r \in Whole
             /\ r.escrow[EscrowStoreID_txGas] = 0
             /\ r.bal[u] \in Nat /\ r.bal[u] >= st.bal[u]
             /\ u # NetworkFeeRecipient => r.bal[u] = st.bal[u]
<1> DEFINE k == EscrowStoreID_txGas
           x == st.bal[NetworkFeeRecipient] + st.escrow[k]
           r == accountStore_payFullyFromEscrow(st, k, NetworkFeeRecipient)
<1>1. NetworkFeeRecipient \in Addr /\ k \in EscrowKey
  BY AccountsAssumption, Key0 DEF FeeTaker
<1>2. x \in UInt /\ Wrap(x) = x
  <2>1. st.escrow[k] \in Nat
    BY <1>1, WholeFields, UIntFacts, Zenon
  <2>2. st.escrow[k] <= st.escrow[k]
    BY <2>1
  <2> QED
    BY <1>1, <2>1, <2>2, HeldFits
<1>3. 0 \in UInt /\ x + 0 = st.bal[NetworkFeeRecipient] + st.escrow[k]
  BY <1>2, UintAssumption DEF UInt
<1>4. r = Updated(st, NetworkFeeRecipient, x, 0)
  BY <1>2, Zenon DEF accountStore_payFullyFromEscrow, account_addToEthBalance, Updated
<1>5. st.bal[u] \in Nat /\ st.bal[NetworkFeeRecipient] \in Nat /\ st.escrow[k] \in Nat
  BY <1>1, WholeFields, UIntFacts, Zenon
<1>6. x >= st.bal[NetworkFeeRecipient]
  BY <1>5
<1> HIDE DEF r, x
<1>7. /\ r \in Whole /\ r.bal[NetworkFeeRecipient] = x /\ r.escrow[k] = 0
      /\ \A c \in Addr \ {NetworkFeeRecipient} : r.bal[c] = st.bal[c]
  BY <1>1, <1>2, <1>3, <1>4, UpdatedOK DEF x
<1>8. r.bal[u] \in Nat
  BY <1>7, WholeFields, UIntFacts, Zenon
<1>9. CASE u = NetworkFeeRecipient
  BY <1>6, <1>7, <1>8, <1>9 DEF r
<1>10. CASE u # NetworkFeeRecipient
  BY <1>5, <1>7, <1>8, <1>10 DEF r
<1> QED
  BY <1>9, <1>10

\* gasAccounting_startTxCharges when the payer cannot cover the gas.
LEMMA UnfundedStep ==
  ASSUME IInv, NEW i, InfoOK(i, fees), i.tx = NoTx, info.tx = NoTx,
         NEW uas \in Whole, NEW b, BillOK(b), NEW held \in Nat, uas.bal[b.payer] = 0,
         b.before <= b.l1 + held, b.l1 + held <= b.limit, unsettled' = 0,
         Rejected(i, accountStore_payFullyFromEscrow(uas, EscrowStoreID_txGas,
                       NetworkFeeRecipient), [b EXCEPT !.status = "unfunded"]),
         UNCHANGED <<fees, estimate, clock>>
  PROVE  IInv'
<1> DEFINE r == accountStore_payFullyFromEscrow(uas, EscrowStoreID_txGas, NetworkFeeRecipient)
           c == [b EXCEPT !.status = "unfunded"]
<1>1. /\ b.payer \in User /\ b.payer \in Addr
      /\ b.before \in Nat /\ b.l1 \in Nat /\ b.limit \in Nat
  <2>1. b.payer \in User /\ b.before \in UInt /\ b.l1 \in Nat /\ b.limit \in Nat
    BY Zenon DEF BillOK
  <2> QED
    BY <2>1, AccountsAssumption, UIntFacts
<1>2. /\ r \in Whole /\ r.escrow[EscrowStoreID_txGas] = 0 /\ r.bal[b.payer] \in Nat
      /\ b.payer \notin FeeTaker => r.bal[b.payer] = 0
  BY <1>1, EmptiedOK DEF FeeTaker
<1>3. /\ BillOK(c) /\ c.status = "unfunded" /\ c.payer = b.payer /\ c.before = b.before
      /\ c.limit = b.limit
  BY Zenon DEF BillOK
<1>4. Rejected(i, r, c)
  OBVIOUS
<1> HIDE DEF r, c
<1>6. b.before - r.bal[b.payer] <= b.limit
  BY <1>1, <1>2
<1>7. NotRun(c, r)
  BY <1>2, <1>3, <1>6, Zenon DEF NotRun
<1>8. unsettled' \in Nat /\ r.escrow[EscrowStoreID_txGas] = unsettled'
  BY <1>2
<1> QED
  BY <1>2, <1>4, <1>7, <1>8, RejectedStep, Zenon

\* gasAccounting_startTxCharges when the price of the gas is no uint.
LEMMA ErrorStep ==
  ASSUME IInv, NEW i, InfoOK(i, fees), i.tx = NoTx, info.tx = NoTx,
         NEW st \in Whole, st.escrow[EscrowStoreID_txGas] = unsettled, unsettled' = unsettled,
         NEW b, BillOK(b), b.gas = 0, Costs(b, st, b.l1), b.l1 <= b.limit,
         Rejected(i, st, [b EXCEPT !.status = "error"]), UNCHANGED <<fees, estimate, clock>>
  PROVE  IInv'
<1> DEFINE c == [b EXCEPT !.status = "error"]
<1>1. b.before \in Nat /\ b.l1 \in Nat /\ b.limit \in Nat /\ st.bal[b.payer] \in Nat
  <2>1. b.payer \in User /\ b.before \in UInt /\ b.l1 \in Nat /\ b.limit \in Nat
    BY Zenon DEF BillOK
  <2> QED
    BY <2>1, AccountsAssumption, WholeFields, UIntFacts
<1>2. /\ BillOK(c) /\ c.status = "error" /\ c.payer = b.payer /\ c.before = b.before
      /\ c.limit = b.limit /\ c.l1 = b.l1 /\ c.gas = 0
  BY ZenonT(30) DEF BillOK
<1>3. Rejected(i, st, c)
  OBVIOUS
<1> HIDE DEF c
<1>4. /\ b.before - st.bal[b.payer] <= b.limit
      /\ b.payer \notin FeeTaker => b.before - st.bal[b.payer] = b.l1 + 0
  BY <1>1 DEF Costs
<1>5. NotRun(c, st)
  BY <1>2, <1>4, Zenon DEF NotRun
<1>6. unsettled' \in Nat /\ st.escrow[EscrowStoreID_txGas] = unsettled'
  BY DEF IInv
<1> QED
  BY <1>3, <1>5, <1>6, RejectedStep, Zenon

\* gasAccounting_startTxCharges keeps the invariant.
LEMMA StartStep ==
  ASSUME IInv, NEW i, InfoOK(i, fees), i.tx = NoTx, info.tx = NoTx,
         NEW st \in Whole, st.escrow[EscrowStoreID_txGas] = unsettled,
         NEW max \in Nat, NEW price \in Nat, NEW overhead \in Nat,
         NEW b, BillOK(b), b.status = "running", b.gas = 0,
         Costs(b, st, b.l1), b.l1 + max * price <= b.limit,
         gasAccounting_startTxCharges(i, st, max, price, b, overhead),
         unsettled' = IF bill'.status = "unfunded" THEN 0 ELSE unsettled,
         UNCHANGED <<fees, estimate, clock>>
  PROVE  IInv'
<1> DEFINE held == max * price
           comp == Smaller(max, TxGasLimit)
           k == EscrowStoreID_txGas
           uas == accountStore_addToEscrowUpToMax(st, k, b.payer, held)
           m == escrowUpToMax(st, b.payer, held)
           tx == [reserve |-> 0, forStorage |-> max - comp, max |-> max,
                  price |-> price, held |-> held, refundTo |-> b.payer]
<1>1. held \in Nat /\ unsettled \in Nat
  BY ProductNat DEF IInv
<1>2. /\ b.payer \in User /\ b.payer \in Addr /\ st.bal[b.payer] \in Nat /\ b.before \in Nat
      /\ b.l1 \in Nat /\ b.limit \in Nat
  <2>1. b.payer \in User /\ b.before \in UInt /\ b.l1 \in Nat /\ b.limit \in Nat
    BY Zenon DEF BillOK
  <2> QED
    BY <2>1, AccountsAssumption, UintAssumption DEF Store, Whole, UInt
<1>3. /\ m \in Nat /\ m <= held /\ m <= st.bal[b.payer] /\ (m # held => m = st.bal[b.payer])
      /\ uas \in Whole /\ uas.bal[b.payer] = st.bal[b.payer] - m
      /\ uas.escrow[k] = st.escrow[k] + m
  <2> HIDE DEF held
  <2> QED
    BY <1>1, <1>2, EscrowUpToMaxOK, ZenonT(30)
<1>4. \/ Rejected(i, st, [b EXCEPT !.status = "error"])
      \/ /\ m # held
         /\ Rejected(i, accountStore_payFullyFromEscrow(uas, k, NetworkFeeRecipient),
                     [b EXCEPT !.status = "unfunded"])
      \/ /\ m = held
         /\ store' = uas /\ reg' = comp /\ bill' = [b EXCEPT !.held = held]
         /\ info' = [i EXCEPT !.pool = @ - overhead, !.tx = tx]
         /\ calls' = <<[given |-> comp, saved |-> 0]>>
  BY Zenon DEF gasAccounting_startTxCharges
<1>5. CASE Rejected(i, st, [b EXCEPT !.status = "error"])
  <2>1. bill'.status = "error"
    BY <1>5, Zenon DEF Rejected, BillOK
  <2>2. unsettled' = unsettled
    BY <2>1
  <2>3. b.l1 <= b.limit
    <3> HIDE DEF held
    <3>1. b.l1 + held <= b.limit
      BY DEF held
    <3> QED
      BY <1>1, <1>2, <3>1
  <2> QED
    BY <1>5, <2>2, <2>3, ErrorStep, Zenon
<1>6. CASE /\ m # held
           /\ Rejected(i, accountStore_payFullyFromEscrow(uas, k, NetworkFeeRecipient),
                       [b EXCEPT !.status = "unfunded"])
  <2>1. bill'.status = "unfunded"
    BY <1>6, Zenon DEF Rejected, BillOK
  <2>2. unsettled' = 0
    BY <2>1
  <2> HIDE DEF uas, m
  <2>3. uas.bal[b.payer] = 0 /\ b.before <= b.l1 + held
    <3> HIDE DEF held, k
    <3> QED
      BY <1>1, <1>2, <1>3, <1>6 DEF Costs
  <2> HIDE DEF held, comp, tx
  <2> QED
    BY <1>1, <1>3, <1>6, <2>2, <2>3, UnfundedStep, Zenon DEF held
<1>7. CASE /\ m = held
           /\ store' = uas /\ reg' = comp /\ bill' = [b EXCEPT !.held = held]
           /\ info' = [i EXCEPT !.pool = @ - overhead, !.tx = tx]
           /\ calls' = <<[given |-> comp, saved |-> 0]>>
  <2>1. /\ store' = uas /\ reg' = comp /\ bill' = [b EXCEPT !.held = held]
        /\ info' = [i EXCEPT !.pool = @ - overhead, !.tx = tx]
        /\ calls' = <<[given |-> comp, saved |-> 0]>>
        /\ fees' = fees /\ estimate' = estimate /\ clock' = clock
    BY <1>7
  <2>2. comp \in Nat /\ comp <= max /\ max - comp \in Nat
    BY AmountsAssumption DEF Smaller
  <2>3. tx \in Tx
    <3> HIDE DEF comp, held
    <3> QED
      BY <1>1, <1>2, <2>2, ZenonT(30) DEF Tx
  <2>4. tx.max = max /\ tx.price = price /\ tx.reserve = 0 /\ tx.refundTo = b.payer
        /\ tx.forStorage = max - comp /\ tx.held = held
    BY ZenonT(30)
  <2> HIDE DEF tx, comp
  <2>5. i \in Info /\ i.pool \in Int /\ i.pool <= GasPoolMax
    BY Zenon DEF InfoOK, Info
  <2>6. /\ info'.tx = tx /\ info'.pool = i.pool - overhead /\ info'.prices = i.prices
        /\ info'.congestion = i.congestion /\ info' \in Info
    <3>1. i.pool - overhead \in Int
      BY <2>5
    <3>2. [i EXCEPT !.pool = i.pool - overhead, !.tx = tx] \in Info
      BY <2>3, <2>5, <3>1, ZenonT(30) DEF Info
    <3>3. info' = [i EXCEPT !.pool = i.pool - overhead, !.tx = tx]
      BY <2>1
    <3>4. {"tx", "pool", "prices", "congestion"} \subseteq DOMAIN i
      BY <2>5, Zenon DEF Info
    <3> QED
      BY <3>2, <3>3, <3>4, SMTT(30)
  <2>7. InfoOK(info, fees)'
    <3>1. info'.pool <= GasPoolMax
      BY <2>5, <2>6, AmountsAssumption
    <3> QED
      BY <2>1, <2>6, <3>1, SMTT(30) DEF InfoOK
  <2>8. Running'
    BY <2>3, <2>6, TxNotNoTx, ZenonT(30) DEF Running
  <2>9. calls' \in Seq(Call) /\ calls' # <<>>
    BY <2>1, <2>2, SMTT(30) DEF Call
  <2> HIDE DEF held
  <2>10. /\ BillOK(bill)' /\ bill'.status = "running" /\ bill'.gas = 0 /\ bill'.held = held
         /\ bill'.payer = b.payer /\ bill'.before = b.before
         /\ bill'.limit = b.limit /\ bill'.l1 = b.l1
    BY <1>1, <2>1, ZenonT(30) DEF BillOK
  <2>11. unsettled' = unsettled
    BY <2>10
  <2>12. HeldExactly'
    <3>1. store'.escrow[EscrowStoreID_txGas] = unsettled' + held
      BY <1>3, <1>7, <2>1, <2>11
    <3> QED
      BY <2>4, <2>6, <2>8, <3>1 DEF HeldExactly, held
  <2>13. GasWithinMax'
    BY <2>1, <2>2, <2>4, <2>6 DEF GasWithinMax, Larger
  <2>14. /\ bill'.before - store'.bal[bill'.payer] <= bill'.l1 + held
         /\ bill'.payer \notin FeeTaker =>
              bill'.before - store'.bal[bill'.payer] = bill'.l1 + held
         /\ bill'.l1 + held <= bill'.limit
    <3>1. /\ b.before - uas.bal[b.payer] <= b.l1 + held
          /\ b.payer \notin FeeTaker => b.before - uas.bal[b.payer] = b.l1 + held
          /\ b.l1 + held <= b.limit
      <4> HIDE DEF uas, m, k
      <4>1. b.l1 + held <= b.limit
        BY DEF held
      <4> QED
        BY <1>1, <1>2, <1>3, <1>7, <4>1 DEF Costs
    <3> QED
      BY <2>1, <2>10, <3>1, Zenon
  <2>15. Charged'
    <3>1. bill'.held = info'.tx.max * info'.tx.price /\ bill'.held = info'.tx.held
      BY <2>4, <2>6, <2>10 DEF held
    <3> QED
      BY <2>4, <2>6, <2>10, <2>14, <3>1, Zenon DEF Charged, Costs
  <2>16. ChargedAsReceipted'
    <3>1. Loss' = bill'.before - store'.bal[bill'.payer]
      BY Zenon DEF Loss
    <3>2. bill'.payer \in Addr /\ bill'.l1 \in Nat /\ bill'.limit \in Nat
      BY <1>2, <2>10
    <3>3. store'.bal[bill'.payer] \in Nat /\ bill'.before \in Nat
      BY <1>2, <1>3, <2>1, <2>10, WholeFields, UIntFacts
    <3>4. Loss' <= bill'.limit
      BY <1>1, <2>14, <3>1, <3>2, <3>3
    <3> QED
      BY <2>10, <2>14, <3>1, <3>4, ZenonT(30)
        DEF ChargedAsReceipted, NeverOvercharged, PaidAsReported
  <2>17. info'.tx.forStorage <= info'.tx.max
    <3>1. max - comp <= max
      BY <2>2
    <3> QED
      BY <2>4, <2>6, <3>1, ZenonT(30)
  <2>18. store' \in Whole /\ reg' \in Register /\ unsettled' \in Nat
    BY <1>1, <1>3, <2>1, <2>2, <2>11 DEF Register
  <2> QED
    BY <2>1, <2>7, <2>8, <2>9, <2>12, <2>13, <2>15, <2>16, <2>17, <2>18, SMTT(30) DEF IInv
<1> QED
  BY <1>4, <1>5, <1>6, <1>7, ZenonT(30)

\* What a user holds is a uint.
LEMMA UserBalance ==
  ASSUME store \in Whole, NEW u \in User
  PROVE  store.bal[u] \in UInt /\ store.bal[u] \in Nat
<1>1. store.bal[u] \in UInt
  BY AccountsAssumption DEF Whole, Store
<1> QED
  BY <1>1, UIntFacts, Zenon

\* Adding nothing.
LEMMA NoneMore == \A n \in Nat : n + 0 = n
  OBVIOUS

\* Gas whose price covers the L1 fees leaves less gas to hold for, and what is
\* held and the L1 fees are within the price of all of it.
LEMMA LeftForGas ==
  ASSUME NEW max \in Nat, NEW delta \in Nat, NEW price \in Nat, NEW l1 \in Nat,
         ~(max <= delta), l1 <= delta * price
  PROVE  max - delta \in Nat /\ l1 + (max - delta) * price <= max * price
<1>1. max - delta \in Nat /\ delta * price \in Nat /\ max * price \in Nat
  BY SMTT(30)
<1>2. (max - delta) * price = max * price - delta * price
  OBVIOUS
<1> DEFINE x == max * price
           y == delta * price
<1>3. l1 + (x - y) <= x
  <2>1. x \in Nat /\ y \in Nat /\ l1 <= y
    BY <1>1
  <2> HIDE DEF x, y
  <2> QED
    BY <2>1
<1> QED
  BY <1>1, <1>2, <1>3

\* A loss within the L1 fees is within the limit they are paid from.
LEMMA LossWithin ==
  ASSUME NEW before \in Nat, NEW now \in Nat, NEW l1 \in Nat, NEW limit \in Nat,
         before - now <= l1, l1 <= limit
  PROVE  before - now <= limit
  OBVIOUS

\* A payer who pays nothing is charged nothing.
LEMMA NothingTaken == \A n \in Nat : n - n <= 0 /\ n - n = 0 + 0
  OBVIOUS

\* gasAccounting_prepareTx turning a transaction away before any payment.
LEMMA TurnedAway ==
  ASSUME IInv, NEW i, InfoOK(i, fees), i.tx = NoTx, info.tx = NoTx,
         store.escrow[EscrowStoreID_txGas] = unsettled, NEW u \in User,
         NEW status \in {"below minimum", "price too low"},
         Rejected(i, store, Bill(u, 0, 0, status)), unsettled' = unsettled,
         UNCHANGED <<fees, estimate, clock>>
  PROVE  IInv'
<1> DEFINE b == Bill(u, 0, 0, status)
<1>1. store \in Whole /\ unsettled' \in Nat
  BY Zenon DEF IInv
<1>2. 0 \in Nat /\ b = Bill(u, 0, 0, status)
  BY Zenon
<1> HIDE DEF b
<1>3. /\ BillOK(b) /\ b.payer = u /\ b.before = store.bal[u] /\ b.before \in Nat
      /\ b.limit = 0 /\ b.l1 = 0 /\ b.gas = 0 /\ b.status = status
  BY <1>1, <1>2, UserBalance, Zenon DEF Bill, BillOK
<1>5. b.before - store.bal[b.payer] <= b.limit /\ b.before - store.bal[b.payer] = b.l1 + b.gas
  BY <1>3, NothingTaken, Zenon
<1>6. NotRun(b, store)
  BY <1>3, <1>5, ZenonT(30) DEF NotRun
<1>7. store.escrow[EscrowStoreID_txGas] = unsettled'
  BY Zenon
<1> QED
  BY <1>1, <1>2, <1>6, <1>7, RejectedStep, Zenon

\* The rest of gasAccounting_prepareTx, once the L1 fees are paid.
LEMMA PaidStep ==
  ASSUME IInv, NEW i, InfoOK(i, fees), i.tx = NoTx, info.tx = NoTx,
         store.escrow[EscrowStoreID_txGas] = unsettled, NEW u \in User, NEW max \in Nat,
         NEW overhead \in Nat, NEW price \in Nat \ {0}, NEW limit, limit = max * price,
         NEW pay, PaymentOK(pay, u, limit), NEW l1, l1 = pay.tx + pay.calldata,
         NEW delta, delta = (l1 + price - 1) \div price,
         unsettled' = IF bill'.status = "unfunded" THEN 0 ELSE unsettled,
         UNCHANGED <<fees, estimate, clock>>,
         \/ Rejected(i, pay.store, Bill(u, limit, l1, "rejected"))
         \/ /\ ~(max <= delta)
            /\ gasAccounting_startTxCharges(i, pay.store, max - delta, price,
                 Bill(u, limit, l1, "running"), overhead)
  PROVE  IInv'
<1>1. store \in Whole /\ store.bal[u] \in Nat
  <2>1. store \in Whole
    BY DEF IInv
  <2> QED
    BY <2>1, UserBalance, Zenon
<1>2. limit \in Nat
  BY ProductNat
<1>3. /\ l1 \in Nat /\ l1 <= limit /\ pay.store \in Whole
      /\ pay.store.escrow[EscrowStoreID_txGas] = unsettled
      /\ store.bal[u] - pay.store.bal[u] <= l1
      /\ u \notin FeeTaker => store.bal[u] - pay.store.bal[u] = l1
  <2>1. /\ pay.store \in Whole /\ pay.store.escrow = store.escrow
        /\ pay.tx \in Int /\ pay.calldata \in Int /\ l1 \in 0 .. limit
        /\ pay.store.bal[u] >= store.bal[u] - l1
        /\ u \notin FeeTaker => pay.store.bal[u] = store.bal[u] - l1
    BY Zenon DEF PaymentOK
  <2>2. u \in Addr
    BY AccountsAssumption
  <2>3. pay.store.bal[u] \in Nat
    BY <2>1, <2>2, WholeFields, UIntFacts, Zenon
  <2> DEFINE was == store.bal[u]
             left == pay.store.bal[u]
  <2>4. /\ was \in Nat /\ left \in Nat /\ l1 \in 0 .. limit /\ left >= was - l1
        /\ (u \notin FeeTaker => left = was - l1)
    BY <1>1, <2>1, <2>3, Zenon
  <2>5. l1 \in Nat /\ l1 <= limit /\ was - left <= l1 /\ (u \notin FeeTaker => was - left = l1)
    <3> HIDE DEF was, left
    <3> QED
      BY <1>2, <2>4, PaidPart
  <2> QED
    BY <2>1, <2>5, Zenon
<1>4. delta \in Nat /\ l1 <= delta * price
  BY <1>3, RoundedUp, ZenonT(30)
<1>5. CASE Rejected(i, pay.store, Bill(u, limit, l1, "rejected"))
  <2> DEFINE b == Bill(u, limit, l1, "rejected")
  <2>0. b = Bill(u, limit, l1, "rejected")
    OBVIOUS
  <2> HIDE DEF b
  <2>1. /\ BillOK(b) /\ b.payer = u /\ b.before = store.bal[u] /\ b.limit = limit
        /\ b.l1 = l1 /\ b.gas = 0 /\ b.status = "rejected"
    BY <1>1, <1>2, <1>3, <2>0, UserBalance, Zenon DEF Bill, BillOK
  <2>2. pay.store.bal[u] \in Nat
    <3>1. u \in Addr
      BY AccountsAssumption
    <3> QED
      BY <1>3, <3>1, WholeFields, UIntFacts, Zenon
  <2>3. /\ b.payer \notin FeeTaker => b.before - pay.store.bal[b.payer] = b.l1 + b.gas
        /\ b.before - pay.store.bal[b.payer] <= b.limit
    <3>1. store.bal[u] - pay.store.bal[u] <= limit
      BY <1>1, <1>2, <1>3, <2>2, LossWithin, ZenonT(30)
    <3>2. u \notin FeeTaker => store.bal[u] - pay.store.bal[u] = l1 + 0
      BY <1>3, NoneMore, ZenonT(30)
    <3> QED
      BY <2>1, <3>1, <3>2, ZenonT(30)
  <2>4. NotRun(b, pay.store)
    BY <2>1, <2>3, Zenon DEF NotRun
  <2>5. bill'.status = "rejected"
    BY <1>5, Zenon DEF Rejected, Bill
  <2>6. unsettled' \in Nat /\ pay.store.escrow[EscrowStoreID_txGas] = unsettled'
    BY <1>3, <2>5 DEF IInv
  <2> QED
    BY <1>3, <1>5, <2>4, <2>6, RejectedStep, Zenon DEF b
<1>6. CASE /\ ~(max <= delta)
           /\ gasAccounting_startTxCharges(i, pay.store, max - delta, price,
                Bill(u, limit, l1, "running"), overhead)
  <2> DEFINE b == Bill(u, limit, l1, "running")
  <2>0. b = Bill(u, limit, l1, "running")
    OBVIOUS
  <2> HIDE DEF b
  <2>1. /\ BillOK(b) /\ b.payer = u /\ b.before = store.bal[u] /\ b.limit = limit
        /\ b.l1 = l1 /\ b.gas = 0 /\ b.status = "running"
    BY <1>1, <1>2, <1>3, <2>0, UserBalance, Zenon DEF Bill, BillOK
  <2>2. gasAccounting_startTxCharges(i, pay.store, max - delta, price, b, overhead)
    BY <1>6, <2>0, ZenonT(30)
  <2>3. ~(max <= delta)
    BY <1>6, Zenon
  <2>4. max - delta \in Nat /\ l1 + (max - delta) * price <= limit
    BY <1>3, <1>4, <2>3, LeftForGas, ZenonT(30)
  <2>5. price \in Nat
    OBVIOUS
  <2>6. Costs(b, pay.store, b.l1)
    BY <1>3, <2>1, Zenon DEF Costs
  <2> QED
    BY <1>3, <2>1, <2>2, <2>4, <2>5, <2>6, StartStep, ZenonT(30)
<1> QED
  BY <1>5, <1>6, Zenon

\* A wrapped limit is a lower limit.
LEMMA WrapLower ==
  ASSUME NEW n \in Nat
  PROVE  Wrap(n) \in Nat /\ Wrap(n) <= n
<1> DEFINE d == MaxUint + 1
<1>1. d \in Nat \ {0}
  BY UintAssumption
<1> HIDE DEF d
<1>2. n % d \in 0 .. (d - 1) /\ n = d * (n \div d) + (n % d) /\ n \div d \in Nat
  BY <1>1
<1>3. d * (n \div d) \in Nat
  BY <1>1, <1>2, ProductNat
<1>4. n % d \in Nat /\ n % d <= n
  BY <1>1, <1>2, <1>3
<1> QED
  BY <1>4 DEF Wrap, d

\* A payment within a lower limit is within the limit.
LEMMA PaidLess ==
  ASSUME NEW n \in Nat, NEW limit \in Nat, n <= limit, NEW pay, NEW u, PaymentOK(pay, u, n)
  PROVE  PaymentOK(pay, u, limit)
<1>1. pay.tx + pay.calldata \in 0 .. limit
  BY DEF PaymentOK
<1> QED
  BY <1>1, Zenon DEF PaymentOK

\* gasAccounting_prepareTx and the start of charges.
LEMMA BeginStep ==
  ASSUME IInv, NEW u \in User, NEW max \in MaxGases, NEW bid \in Bids, NEW units \in Units,
         NEW preferred \in BOOLEAN, NEW overhead \in Overheads,
         Begin(u, max, bid, units, preferred, overhead)
  PROVE  IInv'
<1> DEFINE i == IF clock.arb > info.lastBlock
                  THEN gasAccounting_startNewBlock(info, clock.arb, clock.time) ELSE info
           price == i.prices.total
           pay == payForTxAndL1Gas(u, preferred, i.prices, units, Wrap(max * price))
           l1 == pay.tx + pay.calldata
           delta == (l1 + price - 1) \div price
           limit == max * price
<1>1. max \in Nat /\ units \in Nat /\ overhead \in Nat /\ bid \in Nat
  BY AmountsAssumption, SMTT(30)
<1>2. store \in Whole /\ fees \in BOOLEAN /\ estimate \in Nat /\ unsettled \in Nat
  BY DEF IInv
<1>3. /\ info.tx = NoTx /\ UNCHANGED <<fees, estimate, clock>>
      /\ unsettled' = IF bill'.status = "unfunded" THEN 0 ELSE unsettled
  BY Zenon DEF Begin
<1>4. InfoOK(i, fees) /\ i.tx = NoTx
  BY <1>2, <1>3, NewBlockOK, Zenon DEF IInv
<1>5. store.escrow[EscrowStoreID_txGas] = unsettled
  <2>1. store.escrow[EscrowStoreID_txGas] = unsettled + 0
    BY <1>3, Zenon DEF IInv, HeldExactly, Running
  <2> QED
    BY <1>2, <2>1, NoneMore, Zenon
<1>6. \/ Rejected(i, store, Bill(u, 0, 0, "below minimum"))
      \/ gasAccounting_startTxCharges(i, store, max, 0, Bill(u, 0, 0, "running"), overhead)
      \/ Rejected(i, store, Bill(u, 0, 0, "price too low"))
      \/ /\ price > 0
         /\ \/ Rejected(i, pay.store, Bill(u, limit, l1, "rejected"))
            \/ /\ ~(max <= delta)
               /\ gasAccounting_startTxCharges(i, pay.store, max - delta, price,
                    Bill(u, limit, l1, "running"), overhead)
  BY Zenon DEF Begin
<1> HIDE DEF i, price, pay, l1, delta, limit
<1>7. ASSUME NEW status \in {"below minimum", "price too low"},
             Rejected(i, store, Bill(u, 0, 0, status))
      PROVE  IInv'
  <2>1. bill'.status # "unfunded"
    BY <1>7, Zenon DEF Rejected, Bill
  <2>2. unsettled' = unsettled
    BY <1>3, <2>1, Zenon
  <2> QED
    BY <1>3, <1>4, <1>5, <1>7, <2>2, TurnedAway, Zenon
<1>8. CASE gasAccounting_startTxCharges(i, store, max, 0, Bill(u, 0, 0, "running"), overhead)
  <2> DEFINE b == Bill(u, 0, 0, "running")
  <2>1. 0 \in Nat /\ b = Bill(u, 0, 0, "running")
    OBVIOUS
  <2> HIDE DEF b
  <2>2. /\ BillOK(b) /\ b.payer = u /\ b.before = store.bal[u] /\ b.before \in Nat
        /\ b.limit = 0 /\ b.l1 = 0 /\ b.gas = 0 /\ b.status = "running"
    BY <1>2, <2>1, UserBalance, Zenon DEF Bill, BillOK
  <2>3. Costs(b, store, b.l1) /\ b.l1 + max * 0 <= b.limit
    BY <1>1, <2>1, <2>2 DEF Costs
  <2>4. gasAccounting_startTxCharges(i, store, max, 0, b, overhead)
    BY <1>8, <2>1, Zenon
  <2> QED
    BY <1>1, <1>2, <1>3, <1>4, <1>5, <2>1, <2>2, <2>3, <2>4, StartStep, ZenonT(30)
<1>9. CASE /\ price > 0
           /\ \/ Rejected(i, pay.store, Bill(u, limit, l1, "rejected"))
              \/ /\ ~(max <= delta)
                 /\ gasAccounting_startTxCharges(i, pay.store, max - delta, price,
                      Bill(u, limit, l1, "running"), overhead)
  <2>1. i.prices \in Prices /\ price \in Nat
    BY <1>4 DEF InfoOK, Info, Prices, price
  <2>2. price \in Nat \ {0}
    BY <1>9, <2>1
  <2>3. limit \in Nat /\ limit = max * price /\ Wrap(limit) \in Nat /\ Wrap(limit) <= limit
    <3>1. limit \in Nat /\ limit = max * price
      BY <1>1, <2>1, ProductNat DEF limit
    <3> QED
      BY <3>1, WrapLower
  <2>4. PaymentOK(pay, u, Wrap(limit))
    BY <1>1, <1>2, <2>1, <2>3, L1Paid, Zenon DEF pay
  <2>5. PaymentOK(pay, u, limit)
    BY <2>3, <2>4, PaidLess
  <2>6. l1 = pay.tx + pay.calldata /\ delta = (l1 + price - 1) \div price
    BY Zenon DEF l1, delta
  <2> QED
    BY <1>1, <1>3, <1>4, <1>5, <1>9, <2>2, <2>3, <2>5, <2>6, PaidStep, ZenonT(30)
<1> QED
  BY <1>6, <1>7, <1>8, <1>9, ZenonT(30)
=============================================================================
