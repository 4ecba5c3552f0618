------------------------ MODULE GasAccountingProofs -------------------------
(***************************************************************************)
(* Proofs about gas accounting, for every set of accounts, every choice of *)
(* prices, limits and inputs, and every depth of calls: what is held for   *)
(* gas is the maximum of the running transaction and what non-mutating     *)
(* ones left, nested calls create no gas, what a payer pays follows from   *)
(* the receipt and the way the transaction ended and is never more than    *)
(* the limit, and the congestion does not depend on where blocks are cut.  *)
(*                                                                         *)
(* The inductive invariant IInv adds the types of the prices and of the    *)
(* running transaction, and what its payer is poorer by while it runs: the *)
(* L1 fees, and what is held; less when some of the fees are the payer's.  *)
(***************************************************************************)
EXTENDS GasPaymentProofs

-----------------------------------------------------------------------------
(* It runs.                                                                *)

\* The information keeps what was fixed when the transaction started.
SameTx(j) ==
  /\ j \in Info /\ j.tx \in Tx /\ j.pool <= GasPoolMax
  /\ j.prices = info.prices /\ j.congestion = info.congestion
  /\ j.tx.max = info.tx.max /\ j.tx.price = info.tx.price
  /\ j.tx.forStorage = info.tx.forStorage /\ j.tx.refundTo = info.tx.refundTo
  /\ j.tx.held = info.tx.held

\* The transaction goes on with some gas moved, given out or used up.
GoesOn ==
  /\ SameTx(info')
  /\ reg' \in Register /\ calls' \in Seq(Call) /\ calls' # <<>>
  /\ info'.tx.reserve + Larger(reg', 0) <= info.tx.reserve + Larger(reg, 0)
  /\ UNCHANGED <<store, bill, unsettled, fees, estimate, clock>>

\* A running transaction that goes on keeps the invariant.
LEMMA RunOn ==
  ASSUME IInv, Running, GoesOn
  PROVE  IInv'
<1>1. /\ store' = store /\ bill' = bill /\ fees' = fees /\ estimate' = estimate /\ clock' = clock
      /\ unsettled' = unsettled
  BY DEF GoesOn
<1>2. Running'
  BY TxNotNoTx DEF Running, GoesOn, SameTx
<1>3. InfoOK(info, fees)'
  BY <1>1 DEF IInv, InfoOK, GoesOn, SameTx
<1>4. HeldExactly'
  BY <1>1, <1>2 DEF IInv, HeldExactly, GoesOn, SameTx
<1>5. info.tx \in Tx
  BY DEF IInv, InfoOK, Info, Running
<1>6. GasWithinMax'
  <2>1. info.tx.reserve + Larger(reg, 0) <= info.tx.max - info.tx.forStorage
    BY DEF IInv, GasWithinMax
  <2>2. /\ info.tx.reserve \in Nat /\ info'.tx.reserve \in Nat
        /\ info.tx.max \in Nat /\ info.tx.forStorage \in Nat
    BY <1>5 DEF Tx, GoesOn, SameTx
  <2>3. Larger(reg, 0) \in Nat /\ Larger(reg', 0) \in Nat
    BY DEF IInv, GoesOn, Register, Larger, OS
  <2>4. /\ info'.tx.reserve + Larger(reg', 0) <= info.tx.reserve + Larger(reg, 0)
        /\ info'.tx.max = info.tx.max /\ info'.tx.forStorage = info.tx.forStorage
    BY DEF GoesOn, SameTx
  <2>5. info'.tx.reserve + Larger(reg', 0) <= info'.tx.max - info'.tx.forStorage
    BY <2>1, <2>2, <2>3, <2>4
  <2> QED
    BY <2>5 DEF GasWithinMax
<1>7. Charged'
  <2>1. Charged
    BY DEF IInv
  <2>2. BillOK(bill)'
    BY <1>1, <2>1, Zenon DEF Charged, BillOK
  <2> QED
    BY <1>1, <2>1, <2>2 DEF Charged, Costs, GoesOn, SameTx
<1>8. ChargedAsReceipted'
  BY <1>1, Zenon DEF IInv, ChargedAsReceipted, NeverOvercharged, PaidAsReported, Loss
<1>9. info'.tx.forStorage <= info'.tx.max
  BY DEF IInv, GoesOn, SameTx
<1>10. reg' \in Register /\ calls' \in Seq(Call) /\ calls' # <<>>
  BY DEF GoesOn
<1> QED
  BY <1>1, <1>2, <1>3, <1>4, <1>6, <1>7, <1>8, <1>9, <1>10 DEF IInv

\* What is known of the running transaction and its gas.
LEMMA RunningType ==
  ASSUME IInv, Running
  PROVE  /\ info \in Info /\ info.tx \in Tx
         /\ info.tx.reserve \in Nat /\ info.tx.forStorage \in Nat /\ info.tx.max \in Nat
         /\ info.tx.price \in Nat /\ info.tx.refundTo \in User /\ info.tx.held \in Nat
         /\ info.pool \in Int /\ info.pool <= GasPoolMax
         /\ reg \in Register /\ Larger(reg, 0) \in Nat
         /\ calls \in Seq(Call) /\ calls # <<>>
<1>1. info \in Info /\ info.pool <= GasPoolMax /\ reg \in Register /\ calls \in Seq(Call)
  BY DEF IInv, InfoOK
<1>2. info.tx \in Tx /\ info.pool \in Int
  BY <1>1 DEF Info, Running
<1>3. Larger(reg, 0) \in Nat
  BY <1>1 DEF Register, Larger, OS
<1> QED
  BY <1>1, <1>2, <1>3 DEF IInv, Tx

\* Using gas keeps the invariant.
LEMMA BurnStep ==
  ASSUME IInv, NEW n \in Burns, Burn(n)
  PROVE  IInv'
<1>1. /\ Running /\ n <= reg /\ reg' = reg - n
      /\ info' = info /\ calls' = calls /\ UNCHANGED <<store, bill, unsettled, fees, estimate, clock>>
  BY DEF Burn, Outside
<1>2. n \in Nat
  BY AmountsAssumption
<1>3. reg \in Nat /\ reg' \in Nat /\ Larger(reg', 0) <= Larger(reg, 0)
  BY <1>1, <1>2, RunningType DEF Register, Larger, OS
<1>4. Larger(reg', 0) \in Nat
  BY <1>3 DEF Larger
<1>5. info'.tx.reserve + Larger(reg', 0) <= info.tx.reserve + Larger(reg, 0)
  BY <1>1, <1>3, <1>4, RunningType
<1>6. reg' \in Register
  BY <1>3 DEF Register
<1>7. SameTx(info')
  BY <1>1, RunningType DEF SameTx
<1>8. GoesOn
  BY <1>1, <1>5, <1>6, <1>7, RunningType DEF GoesOn
<1> QED
  BY <1>1, <1>8, RunOn

\* The record of the transaction with another reserve, and a lower pool.
LEMMA Moved ==
  ASSUME IInv, Running, NEW r \in Nat, NEW o \in Nat
  PROVE  LET j == [info EXCEPT !.tx.reserve = r, !.pool = @ - o]
         IN  SameTx(j) /\ j.tx.reserve = r
<1> DEFINE tx == [info.tx EXCEPT !.reserve = r]
           j == [info EXCEPT !.tx = tx, !.pool = info.pool - o]
<1>1. /\ tx \in Tx /\ tx.max = info.tx.max /\ tx.price = info.tx.price
      /\ tx.forStorage = info.tx.forStorage /\ tx.refundTo = info.tx.refundTo
      /\ tx.reserve = r /\ tx.held = info.tx.held
  BY RunningType, SMTT(30) DEF Tx
<1>2. info.pool - o \in Int /\ info.pool - o <= GasPoolMax
  <2>1. info.pool \in Int /\ info.pool <= GasPoolMax
    BY RunningType
  <2>2. GasPoolMax \in Nat
    BY AmountsAssumption
  <2> QED
    BY <2>1, <2>2
<1>3. [info EXCEPT !.tx.reserve = r, !.pool = @ - o] = j
  OBVIOUS
<1> HIDE DEF tx
<1>4. /\ j \in Info /\ j.tx = tx /\ j.pool = info.pool - o
      /\ j.prices = info.prices /\ j.congestion = info.congestion
  BY <1>1, <1>2, RunningType, Zenon DEF Info
<1> QED
  BY <1>1, <1>2, <1>3, <1>4, Zenon DEF SameTx

\* gasAccounting_resumeTxCharges keeps the invariant.
LEMMA ResumeStep ==
  ASSUME IInv, Running, NEW available \in Nat, NEW requested \in Nat, NEW o \in Nat,
         available <= info.tx.reserve + Larger(reg, 0),
         gasAccounting_resumeTxCharges(available, requested, o),
         calls' \in Seq(Call), calls' # <<>>,
         UNCHANGED <<store, bill, unsettled, fees, estimate, clock>>
  PROVE  IInv'
<1> DEFINE given == Smaller(requested, available)
<1>1. given \in Nat /\ available - given \in Nat
  BY DEF Smaller
<1>2. reg' = given /\ info' = [info EXCEPT !.tx.reserve = available - given, !.pool = @ - o]
  BY DEF gasAccounting_resumeTxCharges
<1> HIDE DEF given
<1>3. info'.tx.reserve = available - given
  BY <1>1, <1>2, Moved, Zenon
<1>4. Larger(reg', 0) = given
  BY <1>1, <1>2 DEF Larger
<1>5. info'.tx.reserve + Larger(reg', 0) <= info.tx.reserve + Larger(reg, 0)
  BY <1>1, <1>3, <1>4
<1>6. SameTx(info')
  BY <1>1, <1>2, Moved, Zenon
<1>7. reg' \in Register
  BY <1>1, <1>2 DEF Register
<1>8. GoesOn
  BY <1>5, <1>6, <1>7 DEF GoesOn
<1> QED
  BY <1>8, RunOn

\* gasAccounting_pauseTxCharges returns no more gas than there is.
LEMMA AvailableType ==
  ASSUME IInv, Running, NEW r \in {reg, OS}
  PROVE  /\ gasAccounting_pauseTxCharges(r) \in Nat
         /\ gasAccounting_pauseTxCharges(r) <= info.tx.reserve + Larger(reg, 0)
<1>1. info.tx.reserve \in Nat /\ reg \in Register
  BY RunningType
<1>2. Larger(reg, 0) \in Nat
  BY <1>1 DEF Register, Larger, OS
<1>3. Larger(OS, 0) = 0
  BY DEF Larger, OS
<1>4. Larger(r, 0) \in Nat /\ Larger(r, 0) <= Larger(reg, 0)
  BY <1>2, <1>3
<1> QED
  BY <1>1, <1>2, <1>4 DEF gasAccounting_pauseTxCharges

\* The calls with one more.
LEMMA OneMoreCall ==
  ASSUME NEW s \in Seq(Call), NEW c \in Call
  PROVE  Append(s, c) \in Seq(Call) /\ Append(s, c) # <<>>
<1>1. Append(s, c) \in Seq(Call) /\ Len(Append(s, c)) = Len(s) + 1 /\ Len(s) \in Nat
  OBVIOUS
<1>2. Len(Append(s, c)) # 0
  BY <1>1
<1>3. Len(<<>>) = 0
  OBVIOUS
<1> QED
  BY <1>1, <1>2, <1>3

\* The calls with one less.
LEMMA OneCallLess ==
  ASSUME NEW s \in Seq(Call), Len(s) > 1
  PROVE  SubSeq(s, 1, Len(s) - 1) \in Seq(Call) /\ SubSeq(s, 1, Len(s) - 1) # <<>>
<1>1. Len(s) \in Nat
  OBVIOUS
<1> DEFINE t == SubSeq(s, 1, Len(s) - 1)
<1>2. t \in Seq(Call)
  OBVIOUS
<1>3. Len(t) = Len(s) - 1
  BY <1>1
<1>4. 1 \in DOMAIN t
  BY <1>1, <1>3, <1>2
<1>5. DOMAIN <<>> = {}
  OBVIOUS
<1> HIDE DEF t
<1> QED
  BY <1>2, <1>4, <1>5, Zenon DEF t

\* doCall keeps the invariant.
LEMMA CallStep ==
  ASSUME IInv, NEW gas \in Burns, NEW o \in Overheads, doCall(gas, o)
  PROVE  IInv'
<1> DEFINE available == gasAccounting_pauseTxCharges(reg)
           share == (63 * available) \div 64
           given == Smaller(gas, share)
<1>1. /\ Running
      /\ gasAccounting_resumeTxCharges(available, given, o)
      /\ calls' = Append(calls, [given |-> given, saved |-> available - given])
      /\ UNCHANGED <<store, bill, unsettled, fees, estimate, clock>>
  BY DEF doCall, Outside
<1>2. gas \in Nat /\ o \in Nat
  BY AmountsAssumption
<1>3. available \in Nat /\ available <= info.tx.reserve + Larger(reg, 0)
  BY <1>1, AvailableType
<1> HIDE DEF available
<1>4. share \in Nat /\ share <= available
  BY <1>3
<1> HIDE DEF share
<1>5. given \in Nat /\ available - given \in Nat
  BY <1>2, <1>3, <1>4 DEF Smaller
<1> HIDE DEF given
<1>6. [given |-> given, saved |-> available - given] \in Call
  BY <1>5 DEF Call
<1>7. calls' \in Seq(Call) /\ calls' # <<>>
  <2> DEFINE c == [given |-> given, saved |-> available - given]
  <2>1. calls' = Append(calls, c) /\ c \in Call
    BY <1>1, <1>6
  <2> HIDE DEF c
  <2>2. calls \in Seq(Call)
    BY DEF IInv
  <2> QED
    BY <2>1, <2>2, OneMoreCall
<1> QED
  BY <1>1, <1>2, <1>3, <1>5, <1>7, ResumeStep

\* A call that cannot be paid for keeps the invariant.
LEMMA UnpaidStep ==
  ASSUME IInv, doCallUnpaid
  PROVE  IInv'
<1> DEFINE available == gasAccounting_pauseTxCharges(reg)
<1>1. /\ Running /\ reg' = OS /\ calls' = calls
      /\ info' = [info EXCEPT !.tx.reserve = available]
      /\ UNCHANGED <<store, bill, unsettled, fees, estimate, clock>>
  BY DEF doCallUnpaid, Outside
<1>2. available \in Nat /\ available <= info.tx.reserve + Larger(reg, 0)
  BY <1>1, AvailableType
<1> HIDE DEF available
<1> DEFINE tx == [info.tx EXCEPT !.reserve = available]
<1>3. /\ tx \in Tx /\ tx.max = info.tx.max /\ tx.price = info.tx.price
      /\ tx.forStorage = info.tx.forStorage /\ tx.refundTo = info.tx.refundTo
      /\ tx.reserve = available /\ tx.held = info.tx.held
  BY <1>1, <1>2, RunningType, Zenon DEF Tx
<1>4. info' = [info EXCEPT !.tx = tx]
  BY <1>1
<1> HIDE DEF tx
<1>5. /\ info' \in Info /\ info'.tx = tx /\ info'.pool = info.pool
      /\ info'.prices = info.prices /\ info'.congestion = info.congestion
  BY <1>1, <1>3, <1>4, RunningType, Zenon DEF Info
<1>6. SameTx(info') /\ info'.tx.reserve = available
  BY <1>1, <1>3, <1>5, RunningType, Zenon DEF SameTx
<1>7. Larger(reg', 0) = 0 /\ reg' \in Register
  BY <1>1 DEF Larger, OS, Register
<1>8. info'.tx.reserve + Larger(reg', 0) <= info.tx.reserve + Larger(reg, 0)
  BY <1>2, <1>6, <1>7
<1>9. GoesOn
  BY <1>1, <1>6, <1>7, <1>8, RunningType DEF GoesOn
<1> QED
  BY <1>1, <1>9, RunOn

\* returnFromCall keeps the invariant.
LEMMA ReturnStep ==
  ASSUME IInv, NEW r \in {reg, OS}, NEW o \in Overheads, returnFromCall(r, o)
  PROVE  IInv'
<1> DEFINE leftover == gasAccounting_pauseTxCharges(r)
           saved == calls[Len(calls)].saved
<1>1. /\ Running /\ Len(calls) > 1
      /\ gasAccounting_resumeTxCharges(leftover, leftover + saved, o)
      /\ calls' = SubSeq(calls, 1, Len(calls) - 1)
      /\ UNCHANGED <<store, bill, unsettled, fees, estimate, clock>>
  BY DEF returnFromCall, Outside
<1>2. o \in Nat
  BY AmountsAssumption
<1>3. leftover \in Nat /\ leftover <= info.tx.reserve + Larger(reg, 0)
  BY <1>1, AvailableType
<1> HIDE DEF leftover
<1>4. calls \in Seq(Call)
  BY DEF IInv
<1>5. calls[Len(calls)] \in Call
  BY <1>1, <1>4
<1>6. saved \in Nat
  BY <1>5 DEF Call
<1> HIDE DEF saved
<1>7. leftover + saved \in Nat
  BY <1>3, <1>6
<1>8. calls' \in Seq(Call) /\ calls' # <<>>
  BY <1>1, <1>4, OneCallLess, SMTT(30)
<1> QED
  BY <1>1, <1>2, <1>3, <1>7, <1>8, ResumeStep

-----------------------------------------------------------------------------
(* It ends: refund and fees are paid out of what is held.                  *)

\* A payment out of the gas escrow leaves everyone else's balance alone.
LEMMA PayFromEscrowOK ==
  ASSUME NEW st \in Whole, NEW to \in Addr, NEW n \in Nat, n <= st.escrow[EscrowStoreID_txGas]
  PROVE  LET r == accountStore_payFromEscrow(st, EscrowStoreID_txGas, to, n)
         IN  /\ r \in Whole
             /\ r.escrow[EscrowStoreID_txGas] = st.escrow[EscrowStoreID_txGas] - n
             /\ r.bal[to] = st.bal[to] + n
             /\ \A a \in Addr \ {to} : r.bal[a] = st.bal[a]
<1> DEFINE k == EscrowStoreID_txGas
           x == st.bal[to] + n
           y == st.escrow[k] - n
<1>1. /\ k \in EscrowKey /\ st \in Store /\ st.bal[to] \in UInt /\ st.escrow[k] \in UInt
  BY Key0, WholeFields
<1>2. x \in UInt /\ Wrap(x) = x
  BY HeldFits
<1> HIDE DEF k
<1>3. y \in UInt /\ x + y = st.bal[to] + st.escrow[k]
  <2>1. n <= st.escrow[k]
    BY DEF k
  <2> QED
    BY <1>1, <2>1, UintAssumption DEF UInt
<1>4. accountStore_payFromEscrow(st, k, to, n) = Updated(st, to, x, y)
  BY <1>1, <1>2, Zenon DEF accountStore_payFromEscrow, account_addToEthBalance, Updated, Store, k
<1> HIDE DEF x, y
<1>5. /\ Updated(st, to, x, y) \in Whole
      /\ Updated(st, to, x, y).bal[to] = x
      /\ Updated(st, to, x, y).escrow[k] = y
      /\ \A a \in Addr \ {to} : Updated(st, to, x, y).bal[a] = st.bal[a]
  BY <1>2, <1>3, UpdatedOK DEF k
<1> QED
  BY <1>4, <1>5 DEF k, x, y

\* A payment out of the gas escrow makes nobody poorer.
LEMMA PayToAnyone ==
  ASSUME NEW st \in Whole, NEW to \in Addr, NEW n \in Nat, n <= st.escrow[EscrowStoreID_txGas],
         NEW u \in Addr
  PROVE  LET r == accountStore_payFromEscrow(st, EscrowStoreID_txGas, to, n)
         IN  /\ r \in Whole
             /\ r.escrow[EscrowStoreID_txGas] = st.escrow[EscrowStoreID_txGas] - n
             /\ r.bal[u] \in Nat /\ r.bal[u] >= st.bal[u]
             /\ u # to => r.bal[u] = st.bal[u]
<1> DEFINE r == accountStore_payFromEscrow(st, EscrowStoreID_txGas, to, n)
<1>1. /\ r \in Whole
      /\ r.escrow[EscrowStoreID_txGas] = st.escrow[EscrowStoreID_txGas] - n
      /\ r.bal[to] = st.bal[to] + n
      /\ \A a \in Addr \ {to} : r.bal[a] = st.bal[a]
  BY PayFromEscrowOK
<1> HIDE DEF r
<1>2. st.bal[u] \in Nat /\ r.bal[u] \in Nat
  BY <1>1, WholeFields, UIntFacts, Zenon
<1>3. CASE u = to
  BY <1>1, <1>2, <1>3 DEF r
<1>4. CASE u # to
  BY <1>1, <1>2, <1>4 DEF r
<1> QED
  BY <1>3, <1>4

\* The three payments at the end leave in the escrow what was there besides, and
\* the payer gets the refund, and the fees too if they are the payer's.
LEMMA SettlementOK ==
  ASSUME NEW st \in Whole, NEW tx, tx.refundTo \in User,
         NEW refund \in Nat, NEW network \in Nat, NEW fee \in Nat, NEW rest \in Nat,
         st.escrow[EscrowStoreID_txGas] = rest + (refund + network + fee)
  PROVE  LET r == deferredPayments_apply(st, tx, refund, network, fee)
         IN  /\ r \in Whole
             /\ r.escrow[EscrowStoreID_txGas] = rest
             /\ r.bal[tx.refundTo] >= st.bal[tx.refundTo] + refund
             /\ tx.refundTo \notin FeeTaker =>
                  r.bal[tx.refundTo] = st.bal[tx.refundTo] + refund
<1> DEFINE k == EscrowStoreID_txGas
           u == tx.refundTo
           s1 == accountStore_payFromEscrow(st, k, CongestionFeeRecipient, fee)
           s2 == accountStore_payFromEscrow(s1, k, NetworkFeeRecipient, network)
           s3 == accountStore_payFromEscrow(s2, k, u, refund)
<1>1. /\ u \in Addr /\ CongestionFeeRecipient \in Addr /\ NetworkFeeRecipient \in Addr
  BY AccountsAssumption DEF FeeTaker
<1>2. st.escrow[k] \in Nat /\ st.escrow[k] = rest + (refund + network + fee)
  BY WholeFields, UIntFacts
<1>3. deferredPayments_apply(st, tx, refund, network, fee) = s3
  <2>1. CanPayFromEscrow(st, k, refund + network + fee)
    BY <1>2 DEF CanPayFromEscrow
  <2> QED
    BY <2>1, Zenon DEF deferredPayments_apply
<1> HIDE DEF k
<1>4. /\ s1 \in Whole /\ s1.escrow[k] = st.escrow[k] - fee
      /\ s1.bal[u] \in Nat /\ s1.bal[u] >= st.bal[u]
      /\ u \notin FeeTaker => s1.bal[u] = st.bal[u]
  <2>1. fee <= st.escrow[k]
    BY <1>2
  <2> HIDE DEF u
  <2> QED
    BY <1>1, <2>1, PayToAnyone DEF k, FeeTaker
<1> HIDE DEF s1
<1>5. s1.escrow[k] = rest + (refund + network)
  BY <1>2, <1>4
<1>6. /\ s2 \in Whole /\ s2.escrow[k] = s1.escrow[k] - network
      /\ s2.bal[u] \in Nat /\ s2.bal[u] >= s1.bal[u]
      /\ u \notin FeeTaker => s2.bal[u] = s1.bal[u]
  <2>1. network <= s1.escrow[k]
    BY <1>5
  <2> HIDE DEF u
  <2> QED
    BY <1>1, <1>4, <2>1, PayToAnyone DEF k, FeeTaker
<1> HIDE DEF s2
<1>7. s2.escrow[k] = rest + refund
  BY <1>5, <1>6
<1>8. s2.bal[u] >= st.bal[u] /\ (u \notin FeeTaker => s2.bal[u] = st.bal[u]) /\ st.bal[u] \in Nat
  <2>1. st.bal[u] \in Nat
    <3> HIDE DEF u
    <3> QED
      BY <1>1, WholeFields, UIntFacts, Zenon
  <2> HIDE DEF u
  <2> QED
    BY <1>4, <1>6, <2>1
<1>9. s3 \in Whole /\ s3.escrow[k] = s2.escrow[k] - refund /\ s3.bal[u] = s2.bal[u] + refund
  <2>1. refund <= s2.escrow[k]
    BY <1>7
  <2> HIDE DEF u
  <2> QED
    BY <1>1, <1>6, <2>1, PayFromEscrowOK DEF k
<1>10. s3.escrow[k] = rest
  BY <1>7, <1>9
<1> HIDE DEF s3
<1>11. /\ s3.bal[u] >= st.bal[u] + refund
       /\ u \notin FeeTaker => s3.bal[u] = st.bal[u] + refund
  <2> HIDE DEF u
  <2> QED
    BY <1>6, <1>8, <1>9
<1> QED
  BY <1>3, <1>9, <1>10, <1>11 DEF k

\* The gas that storage needs.
LEMMA StorageNeedOK ==
  ASSUME IInv, Running, NEW delta \in Int
  PROVE  StorageNeed(info.tx, delta) \in Nat
<1> DEFINE cells == (info.prices.storage + info.tx.price - 1) \div info.tx.price
<1>1. info.tx.price \in Nat /\ info.prices.storage \in Nat
  BY RunningType DEF Info, Prices
<1>2. CASE delta > 0 /\ info.tx.price > 0
  <2>1. cells \in Nat
    <3>1. info.tx.price \in Nat \ {0}
      BY <1>1, <1>2
    <3> QED
      BY <1>1, <3>1, RoundedUp, SMTT(30)
  <2>2. StorageNeed(info.tx, delta) = delta * cells
    BY <1>2 DEF StorageNeed
  <2> HIDE DEF cells
  <2> QED
    BY <1>2, <2>1, <2>2, ProductNat
<1>3. CASE ~(delta > 0 /\ info.tx.price > 0)
  BY <1>3 DEF StorageNeed
<1> QED
  BY <1>2, <1>3

\* Nothing more is held.
LEMMA NothingMore == \A n \in Nat : n = n + 0
  OBVIOUS

\* c is the bill b with the gas that was used, and a new status.
EndStatus == {"ended", "not applied"}
Closed(c, b, gas, status) == c = [b EXCEPT !.gas = gas, !.status = status]

\* A bill with these fields, and the others as in b.
ClosedOK(c, b, gas, status) ==
  /\ BillOK(c) /\ c.status = status /\ c.gas = gas
  /\ c.payer = b.payer /\ c.before = b.before
  /\ c.limit = b.limit /\ c.l1 = b.l1 /\ c.held = b.held

\* A closed bill is a bill, and the rest of it is as it was.
LEMMA BillClosed ==
  ASSUME NEW b, BillOK(b), NEW gas \in Nat, NEW status \in EndStatus,
         NEW c, Closed(c, b, gas, status)
  PROVE  ClosedOK(c, b, gas, status)
  BY ZenonT(30) DEF BillOK, Closed, ClosedOK, EndStatus

\* gasAccounting_endTxCharges keeps the invariant.
LEMMA EndStep ==
  ASSUME IInv, NEW r \in {reg, OS}, NEW delta \in Deltas, NEW applied \in BOOLEAN,
         gasAccounting_endTxCharges(r, delta, applied)
  PROVE  IInv'
<1> DEFINE tx == info.tx
           available == gasAccounting_pauseTxCharges(r)
           used == tx.max - tx.forStorage - available
           need == StorageNeed(tx, delta)
           storageGas == Smaller(need, tx.max - used)
           base == Smaller(info.prices.base, tx.price)
           refund == (tx.max - (used + storageGas)) * tx.price
           network == used * base + storageGas * tx.price
           fee == used * (tx.price - base)
           spent == (used + storageGas) * tx.price
<1>1. /\ Running
      /\ store' = IF applied THEN deferredPayments_apply(store, tx, refund, network, fee) ELSE store
      /\ unsettled' = IF applied THEN unsettled ELSE unsettled + tx.held
      /\ info' = [info EXCEPT !.tx = NoTx, !.pool = @ - used, !.remaining = Larger(@ - used, 0)]
      /\ reg' = OS /\ calls' = <<>>
      /\ bill' = [bill EXCEPT !.gas = spent, !.status = IF applied THEN "ended" ELSE "not applied"]
      /\ fees' = fees /\ estimate' = estimate /\ clock' = clock
  BY Zenon DEF gasAccounting_endTxCharges, Outside
<1>2. /\ tx.max \in Nat /\ tx.forStorage \in Nat /\ tx.price \in Nat /\ tx.refundTo \in User
      /\ tx.forStorage <= tx.max
  BY <1>1, RunningType DEF IInv
<1>3. available \in Nat /\ available <= tx.max - tx.forStorage
  <2>1. available \in Nat /\ available <= tx.reserve + Larger(reg, 0)
    BY <1>1, AvailableType
  <2>2. tx.reserve + Larger(reg, 0) <= tx.max - tx.forStorage
    BY <1>1 DEF IInv, GasWithinMax
  <2>3. tx.reserve \in Nat /\ Larger(reg, 0) \in Nat
    BY <1>1, RunningType
  <2> HIDE DEF available
  <2> QED
    BY <1>2, <2>1, <2>2, <2>3
<1> HIDE DEF available
<1>4. used \in Nat /\ used <= tx.max
  BY <1>2, <1>3
<1>5. storageGas \in 0 .. (tx.max - used)
  <2>1. delta \in Int
    BY AmountsAssumption
  <2>2. need \in Nat
    BY <1>1, <2>1, StorageNeedOK
  <2> HIDE DEF need, used
  <2> QED
    BY <1>2, <1>4, <2>2 DEF Smaller
<1>6. info.prices.base \in Nat /\ info.pool \in Int /\ info.remaining \in 0 .. GasPoolMax
  BY <1>1, RunningType DEF Info, Prices
<1>7. base \in Nat /\ tx.price - base \in Nat
  BY <1>2, <1>6 DEF Smaller
<1> HIDE DEF base, storageGas, used, need
<1>8. storageGas \in Nat /\ used + storageGas \in Nat /\ tx.max - (used + storageGas) \in Nat
  BY <1>2, <1>4, <1>5
<1>9. refund \in Nat /\ network \in Nat /\ fee \in Nat /\ spent \in Nat
  <2>1. refund \in Nat /\ fee \in Nat /\ spent \in Nat
    BY <1>2, <1>4, <1>7, <1>8, ProductNat
  <2>2. used * base \in Nat /\ storageGas * tx.price \in Nat
    BY <1>2, <1>4, <1>7, <1>8, ProductNat
  <2> QED
    BY <2>1, <2>2
<1>10. refund + network + fee = tx.max * tx.price
  BY <1>2, <1>4, <1>7, <1>8, Settled
<1>11. refund + spent = tx.max * tx.price
  <2> DEFINE x == used + storageGas
  <2> HIDE DEF x
  <2>1. x \in Nat
    BY <1>8 DEF x
  <2>2. (tx.max - x) * tx.price + x * tx.price = tx.max * tx.price
    BY <1>2, <2>1
  <2> QED
    BY <2>2 DEF x
<1> DEFINE held == tx.max * tx.price
<1>12. held \in Nat
  BY <1>2, ProductNat
<1> HIDE DEF held, refund, network, fee, spent, tx
<1>13. refund + network + fee = held /\ refund + spent = held
  BY <1>10, <1>11 DEF held
<1>14. /\ BillOK(bill) /\ bill.payer = tx.refundTo /\ bill.held = held /\ tx.held = held
       /\ Costs(bill, store, bill.l1 + held) /\ bill.l1 + held <= bill.limit
       /\ store.escrow[EscrowStoreID_txGas] = unsettled + held
       /\ store \in Whole /\ unsettled \in Nat
  BY <1>1 DEF IInv, Charged, HeldExactly, tx, held
<1>15. /\ bill.before \in Nat /\ bill.l1 \in Nat /\ bill.limit \in Nat
       /\ store.bal[tx.refundTo] \in Nat
  <2>1. bill.before \in UInt /\ bill.l1 \in Nat /\ bill.limit \in Nat
    BY <1>14, Zenon DEF BillOK
  <2>2. tx.refundTo \in Addr
    BY <1>2, AccountsAssumption
  <2> QED
    BY <1>14, <2>1, <2>2, WholeFields, UIntFacts, Zenon
<1>16. /\ bill.before - store.bal[tx.refundTo] <= bill.l1 + held
       /\ tx.refundTo \notin FeeTaker => bill.before - store.bal[tx.refundTo] = bill.l1 + held
  BY <1>14, Zenon DEF Costs
<1>17. /\ store' \in Whole /\ unsettled' \in Nat
       /\ store'.escrow[EscrowStoreID_txGas] = unsettled'
  <2>1. CASE applied
    <3>1. store' = deferredPayments_apply(store, tx, refund, network, fee) /\ unsettled' = unsettled
      BY <1>1, <2>1, Zenon
    <3>2. store.escrow[EscrowStoreID_txGas] = unsettled + (refund + network + fee)
      BY <1>13, <1>14
    <3> QED
      BY <1>2, <1>9, <1>14, <3>1, <3>2, SettlementOK, SMTT(30)
  <2>2. CASE ~applied
    <3>1. store' = store /\ unsettled' = unsettled + held
      BY <1>1, <1>14, <2>2, Zenon
    <3> QED
      BY <1>12, <1>14, <3>1
  <2> QED
    BY <2>1, <2>2
<1>18. LET loss == bill.before - store'.bal[tx.refundTo]
       IN  /\ loss <= bill.limit
           /\ tx.refundTo \notin FeeTaker =>
                loss = bill.l1 + IF applied THEN spent ELSE held
  <2>1. CASE applied
    <3>1. store' = deferredPayments_apply(store, tx, refund, network, fee)
      BY <1>1, <2>1, Zenon
    <3>2. store.escrow[EscrowStoreID_txGas] = unsettled + (refund + network + fee)
      BY <1>13, <1>14
    <3>3. /\ store'.bal[tx.refundTo] >= store.bal[tx.refundTo] + refund
          /\ tx.refundTo \notin FeeTaker =>
               store'.bal[tx.refundTo] = store.bal[tx.refundTo] + refund
      BY <1>2, <1>9, <1>14, <3>1, <3>2, SettlementOK, SMTT(30)
    <3>4. store'.bal[tx.refundTo] \in Nat
      <4>1. tx.refundTo \in Addr
        BY <1>2, AccountsAssumption
      <4> QED
        BY <1>17, <4>1, WholeFields, UIntFacts, Zenon
    <3> QED
      BY <1>9, <1>12, <1>13, <1>14, <1>15, <1>16, <2>1, <3>3, <3>4, SMTT(30)
  <2>2. CASE ~applied
    <3>1. store' = store
      BY <1>1, <2>2, Zenon
    <3> QED
      BY <1>12, <1>14, <1>15, <1>16, <2>2, <3>1, SMTT(30)
  <2> QED
    BY <2>1, <2>2
<1>19. ~Running'
  <2>1. info'.tx = NoTx
    BY <1>1 DEF IInv, InfoOK, Info
  <2> QED
    BY <2>1 DEF Running
<1>20. InfoOK(info, fees)'
  <2> DEFINE p == info.pool - used
             n == Larger(info.remaining - used, 0)
  <2>1. p \in Int /\ p <= GasPoolMax /\ n \in 0 .. GasPoolMax
    <3>1. info.pool <= GasPoolMax /\ GasPoolMax \in Nat
      BY AmountsAssumption DEF IInv, InfoOK
    <3> QED
      BY <1>4, <1>6, <3>1, SMTT(30) DEF Larger
  <2>2. info' = [info EXCEPT !.tx = NoTx, !.pool = p, !.remaining = n]
    BY <1>1
  <2> HIDE DEF p, n
  <2>3. info \in Info
    BY DEF IInv, InfoOK
  <2>4. /\ info' \in Info /\ info'.pool = p
        /\ info'.prices = info.prices /\ info'.congestion = info.congestion
    BY <2>1, <2>2, <2>3, Zenon DEF Info
  <2>5. fees => info.prices.total = info.prices.base + info.congestion
    BY DEF IInv, InfoOK
  <2> QED
    BY <1>1, <2>1, <2>4, <2>5 DEF InfoOK
<1>21. HeldExactly' /\ GasWithinMax'
  <2>1. store'.escrow[EscrowStoreID_txGas] = unsettled' + 0
    BY <1>17, NothingMore, Zenon
  <2>2. EscrowStoreID_txGas' = EscrowStoreID_txGas
    BY DEF EscrowStoreID_txGas
  <2> QED
    BY <1>19, <2>1, <2>2, Zenon DEF HeldExactly, GasWithinMax
<1>22. /\ BillOK(bill') /\ bill'.status = IF applied THEN "ended" ELSE "not applied"
       /\ bill'.payer = tx.refundTo /\ bill'.before = bill.before
       /\ bill'.limit = bill.limit /\ bill'.l1 = bill.l1 /\ bill'.gas = spent /\ bill'.held = held
  <2> DEFINE status == IF applied THEN "ended" ELSE "not applied"
  <2>1. status \in EndStatus
    BY Zenon DEF EndStatus
  <2>2. Closed(bill', bill, spent, status)
    BY <1>1, Zenon DEF Closed
  <2>3. BillOK(bill) /\ spent \in Nat
    BY <1>9, <1>14, Zenon
  <2> HIDE DEF status
  <2>4. ClosedOK(bill', bill, spent, status)
    BY <2>1, <2>2, <2>3, BillClosed, Zenon
  <2> QED
    BY <1>14, <2>4, Zenon DEF ClosedOK, status
<1>23. BillOK(bill)'
  BY <1>22, Zenon DEF BillOK
<1>24. Loss' = bill.before - store'.bal[tx.refundTo]
  BY <1>22, Zenon DEF Loss
<1>25. NeverOvercharged'
  BY <1>18, <1>22, <1>24, Zenon DEF NeverOvercharged
<1>26. ChargedAsReceipted'
  <2>1. CASE applied
    <3>1. bill'.status = "ended"
      BY <1>22, <2>1, Zenon
    <3>2. tx.refundTo \notin FeeTaker => Loss' = bill'.l1 + bill'.gas
      BY <1>18, <1>22, <1>24, <2>1, Zenon
    <3> QED
      BY <1>22, <1>25, <3>1, <3>2, ZenonT(30) DEF ChargedAsReceipted, PaidAsReported
  <2>2. CASE ~applied
    <3>1. bill'.status = "not applied"
      BY <1>22, <2>2, Zenon
    <3>2. tx.refundTo \notin FeeTaker => Loss' = bill'.l1 + bill'.held
      BY <1>18, <1>22, <1>24, <2>2, Zenon
    <3> QED
      BY <1>22, <1>25, <3>1, <3>2, ZenonT(30) DEF ChargedAsReceipted, PaidAsReported
  <2> QED
    BY <2>1, <2>2
<1>27. reg' \in Register /\ calls' \in Seq(Call) /\ calls' = <<>>
  BY <1>1 DEF Register
<1>28. bill'.status # "running"
  BY <1>22, Zenon
<1> QED
  BY <1>1, <1>17, <1>19, <1>20, <1>21, <1>23, <1>26, <1>27, <1>28, Zenon DEF IInv

-----------------------------------------------------------------------------
(* The world around, and the theorems.                                     *)

\* Prices, clock, parameters and counters may change under a transaction.
LEMMA Unaffected ==
  ASSUME IInv, UNCHANGED <<store, reg, calls, bill, unsettled>>, InfoOK(info', fees'), info'.tx = info.tx,
         fees' \in BOOLEAN, estimate' \in Nat, clock'.arb \in Nat, clock'.time \in Nat
  PROVE  IInv'
<1>1. /\ store' = store /\ reg' = reg /\ calls' = calls /\ bill' = bill /\ info'.tx = info.tx
      /\ unsettled' = unsettled
  OBVIOUS
<1>2. Running' <=> Running
  BY <1>1 DEF Running
<1>3. HeldExactly' /\ GasWithinMax' /\ ChargedAsReceipted'
  BY <1>1, <1>2, Zenon DEF IInv, HeldExactly, GasWithinMax, ChargedAsReceipted, NeverOvercharged,
    PaidAsReported, Loss, EscrowStoreID_txGas
<1>4. BillOK(bill)' <=> BillOK(bill)
  BY <1>1 DEF BillOK
<1>5. Running => Charged'
  BY <1>1, <1>4 DEF IInv, Charged, Costs
<1>6. InfoOK(info, fees)'
  BY DEF InfoOK, Info
<1> QED
  BY <1>1, <1>2, <1>3, <1>4, <1>5, <1>6, SMTT(30) DEF IInv

\* The invariant holds at first.
LEMMA Initially == gasAccounting_init => IInv
<1> SUFFICES ASSUME gasAccounting_init PROVE IInv
  OBVIOUS
<1>1. FirstL1Price \in Nat /\ Funds \in UInt /\ 0 \in UInt
  BY AmountsAssumption, UintAssumption DEF UInt
<1>2. store \in Whole /\ store.escrow[EscrowStoreID_txGas] = 0
  <2> DEFINE bal == [a \in Addr |-> IF a \in User THEN Funds ELSE 0]
             escrow == [k \in EscrowKey |-> 0]
  <2>1. bal \in [Addr -> UInt] /\ escrow \in [EscrowKey -> UInt]
    BY <1>1
  <2>2. escrow[EscrowStoreID_txGas] = 0
    BY Key0
  <2>3. store = [bal |-> bal, escrow |-> escrow, nextKey |-> 1]
    BY DEF gasAccounting_init, accountStore_init
  <2>4. 1 \in 1 .. (MaxKey + 1)
    BY KeyAssumption
  <2>5. Total(bal) = Supply
    <3>1. Coins(bal) = User \X (1 .. Funds)
      <4>1. Funds \in Nat /\ Funds <= MaxUint
        BY <1>1, UIntFacts
      <4>2. \A i \in 1 .. MaxUint : i \in 1 .. Funds <=> i <= Funds
        BY <4>1, UintAssumption
      <4>3. \A i \in 1 .. Funds : i \in 1 .. MaxUint
        BY <4>1, UintAssumption
      <4>4. \A i \in 1 .. MaxUint : ~(i <= 0)
        BY UintAssumption
      <4> QED
        BY <4>2, <4>3, <4>4, AccountsAssumption DEF Coins
    <3>2. IsFiniteSet(User) /\ IsFiniteSet(1 .. Funds) /\ Cardinality(1 .. Funds) = Funds
      <4>1. Funds \in Nat
        BY <1>1, UIntFacts
      <4>2. IsFiniteSet(1 .. Funds) /\ Cardinality(1 .. Funds) = Funds
        BY <4>1, FS_Interval
      <4> QED
        BY <4>2, AccountsAssumption, AddrAssumption, FS_Subset
    <3>3. Cardinality(User \X (1 .. Funds)) = Cardinality(User) * Funds
      BY <3>2, FS_Product, Zenon
    <3>4. Cardinality(User) \in Nat /\ Funds \in Nat
      BY <3>2, <1>1, UIntFacts, FS_CardinalityType
    <3> HIDE DEF bal
    <3> QED
      BY <3>1, <3>3, <3>4 DEF Total, Supply
  <2>6. Supply \in Nat
    BY <1>1, UIntFacts, AccountsAssumption, AddrAssumption, FS_Subset, FS_CardinalityType DEF Supply
  <2> HIDE DEF bal, escrow
  <2> QED
    BY <2>1, <2>2, <2>3, <2>4, <2>5, <2>6 DEF Store, Whole
<1>3. InfoOK(info, fees) /\ info.tx = NoTx /\ fees = TRUE /\ estimate \in Nat
  <2>1. fees = TRUE /\ estimate \in Nat
    BY <1>1 DEF gasAccounting_init
  <2>2. info = setupParameters(fees, estimate, NoTx, 0, 0)
    BY Zenon DEF gasAccounting_init
  <2>3. PICK f \in BOOLEAN : f = fees
    BY <2>1, Zenon
  <2>4. PICK z \in Nat : z = 0
    OBVIOUS
  <2>5. NoTx \in Tx \cup {NoTx}
    OBVIOUS
  <2>6. /\ InfoOK(setupParameters(f, estimate, NoTx, z, z), f)
        /\ setupParameters(f, estimate, NoTx, z, z).tx = NoTx
    BY <2>1, <2>5, SetupOK
  <2> QED
    BY <2>1, <2>2, <2>3, <2>4, <2>6, Zenon
<1>4. ~Running /\ reg = OS /\ calls = <<>> /\ bill.status = "none" /\ unsettled = 0
  BY <1>3, Zenon DEF gasAccounting_init, Running
<1>5. clock.arb \in Nat /\ clock.time \in Nat
  BY DEF gasAccounting_init
<1>6. HeldExactly /\ GasWithinMax
  BY <1>2, <1>4 DEF HeldExactly, GasWithinMax
<1>7. ChargedAsReceipted
  BY <1>4 DEF ChargedAsReceipted, NeverOvercharged, PaidAsReported, Loss
<1> QED
  BY <1>2, <1>3, <1>4, <1>5, <1>6, <1>7 DEF IInv, Register

\* Blocks, estimates and parameters keep the invariant.
LEMMA WorldStep ==
  ASSUME IInv,
         \/ \E n \in 0 .. MaxTime : NextBlock(n)
         \/ \E p \in L1Prices : updateL1GasPriceEstimate(p)
         \/ \E p \in L1Prices : setL1GasPriceEstimate(p)
         \/ \E f \in BOOLEAN : gasAccounting_notifyParamsChanged(f)
         \/ UNCHANGED vars
  PROVE  IInv'
<1>1. /\ InfoOK(info, fees) /\ fees \in BOOLEAN /\ estimate \in Nat
      /\ clock.arb \in Nat /\ clock.time \in Nat
  BY DEF IInv
<1>2. CASE \E n \in 0 .. MaxTime : NextBlock(n)
  <2>1. PICK n \in 0 .. MaxTime : NextBlock(n)
    BY <1>2
  <2>2. /\ clock' = [arb |-> clock.arb + 1, time |-> clock.time + n]
        /\ UNCHANGED <<store, info, reg, calls, fees, estimate, bill, unsettled>>
    BY <2>1 DEF NextBlock
  <2>3. n \in Nat
    BY AmountsAssumption
  <2>4. clock'.arb \in Nat /\ clock'.time \in Nat
    BY <1>1, <2>2, <2>3
  <2> QED
    BY <1>1, <2>2, <2>4, Unaffected
<1>3. CASE \E p \in L1Prices : updateL1GasPriceEstimate(p)
  <2>1. PICK p \in L1Prices : updateL1GasPriceEstimate(p)
    BY <1>3
  <2> DEFINE q == Larger(Smaller(p, 5 * estimate), estimate \div 5)
  <2>2. /\ estimate' = (q + 19 * estimate) \div 20
        /\ UNCHANGED <<store, info, reg, calls, fees, clock, bill, unsettled>>
    BY <2>1 DEF updateL1GasPriceEstimate
  <2>3. p \in Nat
    BY AmountsAssumption
  <2>4. q \in Nat
    BY <1>1, <2>3 DEF Larger, Smaller
  <2> HIDE DEF q
  <2>5. estimate' \in Nat
    BY <1>1, <2>2, <2>4
  <2> QED
    BY <1>1, <2>2, <2>5, Unaffected
<1>4. CASE \E p \in L1Prices : setL1GasPriceEstimate(p)
  <2>1. estimate' \in Nat /\ UNCHANGED <<store, info, reg, calls, fees, clock, bill, unsettled>>
    BY <1>4, AmountsAssumption DEF setL1GasPriceEstimate
  <2> QED
    BY <1>1, <2>1, Unaffected
<1>5. CASE \E f \in BOOLEAN : gasAccounting_notifyParamsChanged(f)
  <2>1. PICK f \in BOOLEAN : gasAccounting_notifyParamsChanged(f)
    BY <1>5
  <2>2. /\ fees' = f /\ info' = setupParameters(f, estimate, info.tx, clock.arb, clock.time)
        /\ UNCHANGED <<store, reg, calls, estimate, clock, bill, unsettled>>
    BY <2>1 DEF gasAccounting_notifyParamsChanged
  <2>3. info.tx \in Tx \cup {NoTx}
    BY <1>1 DEF InfoOK, Info
  <2>4. InfoOK(info', fees') /\ info'.tx = info.tx
    BY <1>1, <2>2, <2>3, SetupOK
  <2> QED
    BY <1>1, <2>2, <2>4, Unaffected
<1>6. CASE UNCHANGED vars
  BY <1>1, <1>6, Unaffected, SMTT(30) DEF vars
<1> QED
  BY <1>2, <1>3, <1>4, <1>5, <1>6, SMTT(30)

\* Every step keeps the invariant.
LEMMA EveryStep == IInv /\ [Next]_vars => IInv'
<1> SUFFICES ASSUME IInv, [Next]_vars PROVE IInv'
  OBVIOUS
<1>1. CASE \E u \in User, max \in MaxGases, bid \in Bids, units \in Units,
             preferred \in BOOLEAN, o \in Overheads : Begin(u, max, bid, units, preferred, o)
  BY <1>1, BeginStep
<1>2. CASE \E n \in Burns : Burn(n)
  BY <1>2, BurnStep
<1>3. CASE \E gas \in Burns, o \in Overheads : doCall(gas, o)
  BY <1>3, CallStep
<1>4. CASE doCallUnpaid
  BY <1>4, UnpaidStep
<1>5. CASE \E r \in {reg, OS}, o \in Overheads : returnFromCall(r, o)
  BY <1>5, ReturnStep
<1>6. CASE \E r \in {reg, OS}, delta \in Deltas, applied \in BOOLEAN :
             gasAccounting_endTxCharges(r, delta, applied)
  BY <1>6, EndStep, Zenon
<1> QED
  BY <1>1, <1>2, <1>3, <1>4, <1>5, <1>6, WorldStep, SMTT(30) DEF Next

\* The invariant holds in every behaviour.
LEMMA InvHolds == Spec => []IInv
<1>1. gasAccounting_init => IInv
  BY Initially
<1>2. IInv /\ [Next]_vars => IInv'
  BY EveryStep
<1> QED
  BY <1>1, <1>2, PTL DEF Spec

\* Charges are on exactly while calls are on the stack, and the total price is
\* the base price and a congestion price that is never negative.
THEOREM GasTypeCorrect == Spec => []TypeOK
<1>1. IInv => TypeOK
  <2> SUFFICES ASSUME IInv PROVE TypeOK
    OBVIOUS
  <2>1. /\ info.pool \in Int /\ info.pool <= GasPoolMax /\ info.remaining \in 0 .. GasPoolMax
        /\ info.congestion \in Nat /\ (fees => info.prices.total = info.prices.base + info.congestion)
    BY DEF IInv, InfoOK, Info
  <2>2. store \in Store
    BY WholeFields DEF IInv
  <2> QED
    BY <2>1, <2>2 DEF IInv, TypeOK, Register
<1> QED
  BY <1>1, InvHolds, PTL

\* What is held for gas is exactly the running transaction's maximum at its
\* price, and what non-mutating transactions left: gasAccounting_endTxCharges
\* has all of it paid out for any other transaction.
THEOREM GasHeldExactly == Spec => []HeldExactly
<1>1. IInv => HeldExactly
  BY DEF IInv
<1> QED
  BY <1>1, InvHolds, PTL

\* Calls that pause and resume charges, at any depth, create no gas:
\* gasAccounting_endTxCharges never subtracts too much.
THEOREM NestedCallsCreateNoGas == Spec => []GasWithinMax
<1>1. IInv => GasWithinMax
  BY DEF IInv
<1> QED
  BY <1>1, InvHolds, PTL

\* However a transaction ends, it costs no payer more than the maximum gas at
\* the price of the block; a payer who takes no fees pays what the receipt says,
\* with the two exceptions that PaidAsReported names: a payer who cannot cover
\* the gas is left with nothing, and a non-mutating transaction that succeeds
\* costs all that was held for it.
THEOREM PayerChargedAsReceipted == Spec => []ChargedAsReceipted
<1>1. IInv => ChargedAsReceipted
  BY DEF IInv
<1> QED
  BY <1>1, InvHolds, PTL

\* Where the blocks are cut does not matter for the congestion: the loop of
\* updateCongestionState, run for two stretches of time, does what it does for
\* both at once, though it stops early.
THEOREM BlocksCutAnywhere == Spec => []TimeAddsUp
<1>1. IInv => TimeAddsUp
  <2> SUFFICES ASSUME IInv, NEW t \in info.lastTime .. MaxTime, NEW u \in t .. MaxTime
               PROVE  updateCongestionState(updateCongestionState(info, 0, t), 0, u)
                        = updateCongestionState(info, 0, u)
    BY DEF TimeAddsUp
  <2>1. info \in Info /\ info.pool <= GasPoolMax /\ info.lastTime \in Nat
    BY DEF IInv, InfoOK, Info
  <2>2. t \in Nat /\ u \in Nat /\ info.lastTime <= t /\ t <= u
    BY <2>1, AmountsAssumption
  <2> QED
    BY <2>1, <2>2, TimesAdd
<1> QED
  BY <1>1, InvHolds, PTL

\* Fees move ETH between accounts and the gas escrow, and never create or
\* destroy it: the sum of the balances and what is held stays what the users
\* had at the start.
THEOREM GasConserved == Spec => []Conservation
<1>1. IInv => Conservation
  <2> SUFFICES ASSUME IInv PROVE Conservation
    OBVIOUS
  <2>1. store \in Whole
    BY DEF IInv
  <2>2. store.bal \in Balances(Addr)
    BY <2>1, WholeFields
  <2>3. FoldFunction(LAMBDA x, y : x + y, 0, store.bal) = Total(store.bal)
    BY <2>2, AddrAssumption, SumIsTotal, Zenon
  <2> QED
    BY <2>1, <2>3, ZenonT(30) DEF Conservation, Whole, Supply
<1> QED
  BY <1>1, InvHolds, PTL

=============================================================================
