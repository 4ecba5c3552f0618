--------------------------- MODULE GasAccounting ----------------------------
(***************************************************************************)
(* What a transaction pays (arb_os/gasAccounting.mini): the fees for L1    *)
(* resources before it starts, the funds held for its ArbGas while it runs *)
(* and its calls lend gas to each other, the settlement when it ends, and  *)
(* the prices, which follow the L1 gas price and the congestion.           *)
(*                                                                         *)
(* Gas is counted in ArbGas.  The ArbGasRemaining register holds the gas   *)
(* of the running call, or OS while ArbOS is charged.  A transaction may   *)
(* ask for any amount of gas, so what it costs need not fit in 256 bits;   *)
(* prices, fees and what is held are far below that limit.  safeSub would  *)
(* fail if gas were created, and GasWithinMax says that it is not.         *)
(***************************************************************************)
EXTENDS AccountStore, Sequences, Functions

CONSTANTS User, Aggregator,            \* accounts
          NetworkFeeRecipient, CongestionFeeRecipient,
          Funds,                       \* balance of every user at the start
          L1GasPerL1CalldataUnit, L1GasPerStorage, ArbGasDivisor,
          NetworkFeeShare,             \* <<numerator, denominator>>
          BaseTxFeeL1Gas,              \* of the default and of the aggregator
          SpeedLimit, GasPoolMax, TxGasLimit, MinArbGas,
          MaxGases, Bids, Units,       \* what a transaction may ask for
          Burns, Deltas, Overheads,    \* what running it may use
          FirstL1Price, L1Prices,      \* L1 gas price at boot, and reported
          MaxDepth, MaxTx, MaxBlock, MaxTime, MaxReports  \* bounds

\* Those who are paid fees.  They may send transactions too.
FeeTaker == {Aggregator, NetworkFeeRecipient, CongestionFeeRecipient}

ASSUME AccountsAssumption == User \cup FeeTaker \subseteq Addr

\* Amounts are natural numbers and divisors are positive; a delta of storage
\* cells may be negative.
ASSUME AmountsAssumption ==
  /\ Funds \in UInt
  /\ {L1GasPerL1CalldataUnit, L1GasPerStorage, BaseTxFeeL1Gas, SpeedLimit, TxGasLimit,
      FirstL1Price, MaxTime} \subseteq Nat
  /\ MaxGases \cup Bids \cup Units \cup Burns \cup Overheads \cup L1Prices \subseteq Nat
  /\ Deltas \subseteq Int
  /\ {ArbGasDivisor, GasPoolMax, NetworkFeeShare[1], NetworkFeeShare[2]} \subseteq Nat \ {0}

\* All the ETH there is fits in 256 bits.
ASSUME SupplyAssumption == Funds * Cardinality(User) <= MaxUint

VARIABLES store,    \* the account store
          info,     \* gasAccountingInfo: tx, prices, remaining, pool,
                    \*   lastBlock, lastTime, congestion
          reg,      \* the ArbGasRemaining register
          calls,    \* the running call and its callers: gas given and saved
          fees,     \* the FeesEnabled chain parameter
          estimate, \* globalL1GasPriceEstimator.estimateWei
          clock,    \* Arbitrum block number and timestamp of the inbox
          bill,     \* history: what the current or last transaction was told
          unsettled,  \* history: wei held for transactions that never settled
          ntx, nreports

vars == <<store, info, reg, calls, fees, estimate, clock, bill, unsettled, ntx, nreports>>

OS == -1
NoTx == [max |-> -1]
Smaller(x, y) == IF x < y THEN x ELSE y
Larger(x, y) == IF x < y THEN y ELSE x

(***************************************************************************)
(* Prices.                                                                 *)
(***************************************************************************)
setPrices(enabled, l1, congestion) ==
  IF enabled
    THEN [calldata |-> L1GasPerL1CalldataUnit * l1, storage |-> L1GasPerStorage * l1,
          base |-> l1 \div ArbGasDivisor, total |-> l1 \div ArbGasDivisor + congestion]
    ELSE [calldata |-> 0, storage |-> 0, base |-> 0, total |-> 0]

\* One second of updateCongestionState, from a pool p and a total price t.
Second(p, t, base) ==
  LET pool == Smaller(p + SpeedLimit, GasPoolMax)
      price == (t * (121 * GasPoolMax - 2 * Larger(pool, 0))) \div (120 * GasPoolMax)
  IN  <<pool, Larger(price, base)>>

\* The loop stops early once the pool is full and the price is down to the
\* base price.
Turn(now, base) ==
  IF now[1] < GasPoolMax \/ now[2] > base THEN Second(now[1], now[2], base) ELSE now

\* The pool and the total price after n seconds.
Seconds(pool, total, base, n) ==
  LET at[k \in 0 .. n] == IF k = 0 THEN <<pool, total>> ELSE Turn(at[k - 1], base)
  IN  at[n]

\* Mutant: time that passed is counted again by the next block.
updateCongestionState_again(i, block, time) ==
  LET after == Seconds(i.pool, i.prices.base + i.congestion, i.prices.base,
                       Larger(time - i.lastTime, 0))
  IN  [i EXCEPT !.pool = after[1], !.lastBlock = block,
                !.congestion = after[2] - i.prices.base]

updateCongestionState(i, block, time) ==
  LET after == Seconds(i.pool, i.prices.base + i.congestion, i.prices.base,
                       Larger(time - i.lastTime, 0))
  IN  [i EXCEPT !.pool = after[1], !.lastBlock = block, !.lastTime = time,
                !.congestion = after[2] - i.prices.base]

\* Mutant: an overdrawn pool gives a block a negative amount of gas.
gasAccounting_startNewBlock_overdrawn(i, block, time) ==
  LET j == updateCongestionState(i, block, time)
  IN  [j EXCEPT !.prices = setPrices(fees, estimate, j.congestion), !.remaining = j.pool]

gasAccounting_startNewBlock(i, block, time) ==
  LET j == updateCongestionState(i, block, time)
  IN  [j EXCEPT !.prices = setPrices(fees, estimate, j.congestion),
                !.remaining = Larger(j.pool, 0)]

\* setupParameters, at boot and when a chain parameter has changed.
setupParameters(enabled, l1, tx, block, time) ==
  [tx |-> tx, prices |-> setPrices(enabled, l1, 0), remaining |-> GasPoolMax,
   pool |-> GasPoolMax, lastBlock |-> block, lastTime |-> time, congestion |-> 0]

(***************************************************************************)
(* The fees for L1 resources.  A payment is the store after it, whether it *)
(* was in full, and the wei paid for the transaction and for calldata.     *)
(***************************************************************************)
\* Mutant: a partial payment is reported as a full one.
tryToPayForL1Gas_asked(p, payer, to, weiForTx, weiForCalldata, limit) ==
  LET asked == weiForTx + weiForCalldata
      due == Smaller(Smaller(asked, limit), p.store.bal[payer])
  IN  [store |-> accountStore_transferEthBalance(p.store, payer, to, due),
       full |-> due = asked, tx |-> p.tx + weiForTx, calldata |-> p.calldata + weiForCalldata]

tryToPayForL1Gas(p, payer, to, weiForTx, weiForCalldata, limit) ==
  LET asked == weiForTx + weiForCalldata
      due == Smaller(Smaller(asked, limit), p.store.bal[payer])
      forTx == IF due = asked THEN weiForTx ELSE (due * weiForTx) \div asked
  IN  [store |-> accountStore_transferEthBalance(p.store, payer, to, due),
       full |-> due = asked, tx |-> p.tx + forTx, calldata |-> p.calldata + due - forTx]

shareForNetFee(n) == (NetworkFeeShare[1] * n) \div (NetworkFeeShare[1] + NetworkFeeShare[2])

payForTxAndL1Gas(payer, preferred, prices, units, limit) ==
  LET price == estimate * BaseTxFeeL1Gas
      start == [store |-> store, full |-> TRUE, tx |-> 0, calldata |-> 0]
      net == tryToPayForL1Gas(start, payer, NetworkFeeRecipient, shareForNetFee(price),
                              units * shareForNetFee(prices.calldata), limit)
  IN  IF ~net.full \/ ~preferred THEN net
      ELSE tryToPayForL1Gas(net, payer, Aggregator, price, units * prices.calldata,
                            limit - (net.tx + net.calldata))

(***************************************************************************)
(* A transaction starts: handleArrivingTx, gasAccounting_prepareTx, and    *)
(* gasAccounting_startTxCharges as initEvmCallStack calls it.  Sequence    *)
(* numbers are left to Inbox.                                              *)
(***************************************************************************)
Bill(u, limit, l1, status) ==
  [payer |-> u, before |-> store.bal[u], limit |-> limit, l1 |-> l1,
   held |-> 0, gas |-> 0, status |-> status]

Rejected(i, st, b) == /\ store' = st
                      /\ info' = i
                      /\ bill' = b
                      /\ UNCHANGED <<reg, calls>>

\* Mutant: a payer who cannot cover the gas starts anyway.
gasAccounting_startTxCharges_unfunded(i, st, max, price, b, overhead) ==
  LET held == max * price
      comp == Smaller(max, TxGasLimit)
  IN  /\ store' = accountStore_addToEscrowUpToMax(st, EscrowStoreID_txGas, b.payer, held)
      /\ info' = [i EXCEPT !.pool = @ - overhead,
                           !.tx = [reserve |-> 0, forStorage |-> max - comp, max |-> max,
                                   price |-> price, held |-> held, refundTo |-> b.payer]]
      /\ reg' = comp
      /\ calls' = <<[given |-> comp, saved |-> 0]>>
      /\ bill' = [b EXCEPT !.held = held]

\* safeMul fails when the price of the gas is no uint: errorHandler goes back to
\* the main loop, with the L1 fees paid.  A payer who cannot cover the gas loses
\* what there is, along with all that is held for gas.
gasAccounting_startTxCharges(i, st, max, price, b, overhead) ==
  LET held == max * price
      comp == Smaller(max, TxGasLimit)
      uas == accountStore_addToEscrowUpToMax(st, EscrowStoreID_txGas, b.payer, held)
      funded == escrowUpToMax(st, b.payer, held) = held
  IN  \/ /\ held > MaxUint
         /\ Rejected(i, st, [b EXCEPT !.status = "error"])
      \/ /\ held <= MaxUint /\ ~funded
         /\ Rejected(i, accountStore_payFullyFromEscrow(uas, EscrowStoreID_txGas,
                                                        NetworkFeeRecipient),
                     [b EXCEPT !.status = "unfunded"])
      \/ /\ held <= MaxUint /\ funded
         /\ store' = uas
         /\ info' = [i EXCEPT !.pool = @ - overhead,
                       !.tx = [reserve |-> 0, forStorage |-> max - comp, max |-> max,
                               price |-> price, held |-> held, refundTo |-> b.payer]]
         /\ reg' = comp
         /\ calls' = <<[given |-> comp, saved |-> 0]>>
         /\ bill' = [b EXCEPT !.held = held]

\* With the price at zero, prepareTx ends in an error or finds the limit too low.
\* The product that limits the L1 fees is not checked, and wraps.
Begin(u, max, bid, units, preferred, overhead) ==
  LET i == IF clock.arb > info.lastBlock
             THEN gasAccounting_startNewBlock(info, clock.arb, clock.time) ELSE info
      price == i.prices.total
      pay == payForTxAndL1Gas(u, preferred, i.prices, units, Wrap(max * price))
      l1 == pay.tx + pay.calldata
      delta == (l1 + price - 1) \div price
  IN  /\ info.tx = NoTx
      /\ ntx < MaxTx
      /\ ntx' = ntx + 1
      /\ \/ /\ ~fees /\ max < MinArbGas
            /\ Rejected(i, store, Bill(u, 0, 0, "below minimum"))
         \/ /\ ~fees /\ max >= MinArbGas
            /\ gasAccounting_startTxCharges(i, store, max, 0, Bill(u, 0, 0, "running"), overhead)
         \/ /\ fees /\ (bid < price \/ price = 0)
            /\ Rejected(i, store, Bill(u, 0, 0, "price too low"))
         \/ /\ fees /\ bid >= price /\ price > 0
            /\ IF ~pay.full \/ max <= delta \/ i.remaining = 0 \/ max - delta < MinArbGas
                 THEN Rejected(i, pay.store, Bill(u, max * price, l1, "rejected"))
                 ELSE gasAccounting_startTxCharges(i, pay.store, max - delta, price,
                        Bill(u, max * price, l1, "running"), overhead)
      /\ unsettled' = IF bill'.status = "unfunded" THEN 0 ELSE unsettled
      /\ UNCHANGED <<fees, estimate, clock, nreports>>

(***************************************************************************)
(* It runs: evmCallStack_doCall and evmCallStack_returnFromCall pause and  *)
(* resume the charges.                                                     *)
(***************************************************************************)
Running == info.tx # NoTx
Outside == UNCHANGED <<fees, estimate, clock, ntx, nreports>>

Burn(n) ==
  /\ Running /\ n <= reg
  /\ reg' = reg - n
  /\ UNCHANGED <<store, info, calls, bill, unsettled>> /\ Outside

\* What gasAccounting_pauseTxCharges puts in reserve, r being the register.
gasAccounting_pauseTxCharges(r) == info.tx.reserve + Larger(r, 0)

\* Mutant: the gas given to a call also stays in reserve.
gasAccounting_resumeTxCharges_kept(available, requested, overhead) ==
  /\ reg' = Smaller(requested, available)
  /\ info' = [info EXCEPT !.tx.reserve = available, !.pool = @ - overhead]

gasAccounting_resumeTxCharges(available, requested, overhead) ==
  /\ reg' = Smaller(requested, available)
  /\ info' = [info EXCEPT !.tx.reserve = available - Smaller(requested, available),
                          !.pool = @ - overhead]

doCall(gas, overhead) ==
  LET available == gasAccounting_pauseTxCharges(reg)
      given == Smaller(gas, (63 * available) \div 64)
  IN  /\ Running /\ Len(calls) < MaxDepth
      /\ gasAccounting_resumeTxCharges(available, given, overhead)
      /\ calls' = Append(calls, [given |-> given, saved |-> available - given])
      /\ UNCHANGED <<store, bill, unsettled>> /\ Outside

\* The caller cannot pay the callvalue, and the charges stay paused.
doCallUnpaid ==
  /\ Running /\ Len(calls) < MaxDepth
  /\ info' = [info EXCEPT !.tx.reserve = gasAccounting_pauseTxCharges(reg)]
  /\ reg' = OS
  /\ UNCHANGED <<store, calls, bill, unsettled>> /\ Outside

\* A call returns, with r in the register: OS when it ran out of gas.
returnFromCall(r, overhead) ==
  LET leftover == gasAccounting_pauseTxCharges(r)
  IN  /\ Running /\ Len(calls) > 1
      /\ gasAccounting_resumeTxCharges(leftover, leftover + calls[Len(calls)].saved, overhead)
      /\ calls' = SubSeq(calls, 1, Len(calls) - 1)
      /\ UNCHANGED <<store, bill, unsettled>> /\ Outside

\* Mutant: the congestion fee leaves the escrow and arrives nowhere.
deferredPayments_apply_burnt(st, tx, refund, network, fee) ==
  LET Pay(s, to, n) == accountStore_payFromEscrow(s, EscrowStoreID_txGas, to, n)
  IN  [Pay(Pay(st, NetworkFeeRecipient, network), tx.refundTo, refund)
         EXCEPT !.escrow[EscrowStoreID_txGas] = 0]

deferredPayments_apply(st, tx, refund, network, fee) ==
  LET Pay(s, to, n) == accountStore_payFromEscrow(s, EscrowStoreID_txGas, to, n)
  IN  IF CanPayFromEscrow(st, EscrowStoreID_txGas, refund + network + fee)
        THEN Pay(Pay(Pay(st, CongestionFeeRecipient, fee),
                     NetworkFeeRecipient, network), tx.refundTo, refund)
        ELSE st

\* The gas that delta storage cells need; it is used as far as the maximum allows.
StorageNeed(tx, delta) ==
  IF delta > 0 /\ tx.price > 0
    THEN delta * ((info.prices.storage + tx.price - 1) \div tx.price)
    ELSE 0

\* The top-level call returns.  The payments are not applied when it was a
\* non-mutating transaction that succeeded (evmCallStack_returnFromCall).
gasAccounting_endTxCharges(r, delta, applied) ==
  LET tx == info.tx
      used == tx.max - tx.forStorage - gasAccounting_pauseTxCharges(r)
      need == StorageNeed(tx, delta)
      storageGas == Smaller(need, tx.max - used)
      base == Smaller(info.prices.base, tx.price)
  IN  /\ Running /\ Len(calls) = 1
      /\ applied \/ (r = reg /\ used + need <= tx.max)
      /\ store' = IF applied
                    THEN deferredPayments_apply(store, tx,
                           (tx.max - (used + storageGas)) * tx.price,
                           used * base + storageGas * tx.price,
                           used * (tx.price - base))
                    ELSE store
      /\ unsettled' = IF applied THEN unsettled ELSE unsettled + tx.held
      /\ info' = [info EXCEPT !.tx = NoTx, !.pool = @ - used,
                              !.remaining = Larger(@ - used, 0)]
      /\ reg' = OS
      /\ calls' = <<>>
      /\ bill' = [bill EXCEPT !.gas = (used + storageGas) * tx.price,
                              !.status = IF applied THEN "ended" ELSE "not applied"]
      /\ Outside

(***************************************************************************)
(* The world around: the inbox, the gas price oracle, the chain owner.     *)
(***************************************************************************)
\* The inbox goes on to the next block.
NextBlock(seconds) ==
  /\ ~Running
  /\ clock.arb < MaxBlock
  /\ clock.time + seconds <= MaxTime
  /\ clock' = [arb |-> clock.arb + 1, time |-> clock.time + seconds]
  /\ UNCHANGED <<store, info, reg, calls, fees, estimate, bill, unsettled, ntx, nreports>>

\* A message of a fair gas price sender reports an L1 gas price.
updateL1GasPriceEstimate(price) ==
  LET p == Larger(Smaller(price, 5 * estimate), estimate \div 5)
  IN  /\ ~Running
      /\ nreports < MaxReports
      /\ nreports' = nreports + 1
      /\ estimate' = (p + 19 * estimate) \div 20
      /\ UNCHANGED <<store, info, reg, calls, fees, clock, bill, unsettled, ntx>>

\* The oracle or the owner sets the estimate, in a transaction of theirs.
setL1GasPriceEstimate(price) ==
  /\ nreports < MaxReports
  /\ nreports' = nreports + 1
  /\ estimate' = price
  /\ UNCHANGED <<store, info, reg, calls, fees, clock, bill, unsettled, ntx>>

\* The owner sets a chain parameter, in a transaction or by a message.
gasAccounting_notifyParamsChanged(enabled) ==
  /\ nreports < MaxReports
  /\ nreports' = nreports + 1
  /\ fees' = enabled
  /\ info' = setupParameters(enabled, estimate, info.tx, clock.arb, clock.time)
  /\ UNCHANGED <<store, reg, calls, estimate, clock, bill, unsettled, ntx>>

gasAccounting_init ==
  /\ store = [accountStore_init EXCEPT !.bal =
                [a \in Addr |-> IF a \in User THEN Funds ELSE 0]]
  /\ fees = TRUE
  /\ estimate = FirstL1Price
  /\ info = setupParameters(TRUE, estimate, NoTx, 0, 0)
  /\ reg = OS
  /\ calls = <<>>
  /\ clock = [arb |-> 1, time |-> 0]
  /\ bill = [status |-> "none"]
  /\ unsettled = 0
  /\ ntx = 0
  /\ nreports = 0

Next ==
  \/ \E u \in User, max \in MaxGases, bid \in Bids, units \in Units,
        preferred \in BOOLEAN, o \in Overheads : Begin(u, max, bid, units, preferred, o)
  \/ \E n \in Burns : Burn(n)
  \/ \E gas \in Burns, o \in Overheads : doCall(gas, o)
  \/ doCallUnpaid
  \/ \E r \in {reg, OS}, o \in Overheads : returnFromCall(r, o)
  \/ \E r \in {reg, OS}, delta \in Deltas, applied \in BOOLEAN :
       gasAccounting_endTxCharges(r, delta, applied)
  \/ \E n \in 0 .. MaxTime : NextBlock(n)
  \/ \E p \in L1Prices : updateL1GasPriceEstimate(p)
  \/ \E p \in L1Prices : setL1GasPriceEstimate(p)
  \/ \E f \in BOOLEAN : gasAccounting_notifyParamsChanged(f)

Spec == gasAccounting_init /\ [][Next]_vars

-----------------------------------------------------------------------------
\* Charges are on exactly while calls are on the stack, and prices add up: the
\* total is the base price and the congestion price, which is never negative.
TypeOK ==
  /\ store \in Store
  /\ reg \in Nat \cup {OS}
  /\ Running <=> calls # <<>>
  /\ ~Running => reg = OS
  /\ info.pool \in Int /\ info.pool <= GasPoolMax
  /\ info.remaining \in 0 .. GasPoolMax
  /\ info.congestion \in Nat
  /\ fees => info.prices.total = info.prices.base + info.congestion

\* What is held for gas is the running transaction's maximum at its price, and
\* what non-mutating transactions that succeeded left there since the last
\* payer who could not cover the gas: for every other transaction, refund,
\* network fee, storage and congestion fee together pay out the whole amount,
\* whatever happened to the prices while it ran (gasAccounting_endTxCharges).
HeldExactly ==
  store.escrow[EscrowStoreID_txGas] =
    unsettled + IF Running THEN info.tx.max * info.tx.price ELSE 0

\* Pausing and resuming charges for nested calls never creates gas: what is in
\* reserve and in the register stays within what the transaction may compute
\* with, so that endTxCharges never subtracts too much.
GasWithinMax ==
  Running => info.tx.reserve + Larger(reg, 0) <= info.tx.max - info.tx.forStorage

\* Fees move ETH between accounts and never create or destroy it.
Conservation ==
  FoldFunction(LAMBDA x, y : x + y, 0, store.bal)
    + store.escrow[EscrowStoreID_txGas] = Funds * Cardinality(User)

\* How much poorer the last transaction made its payer.
Loss == bill.before - store.bal[bill.payer]

\* No transaction costs its payer more than its maximum gas at the price of the
\* block, L1 fees, storage and gas held included, at any moment and however it
\* ends; the rounding of L1 fees to gas is never in the payer's disfavour.
NeverOvercharged == bill.status # "none" => Loss <= bill.limit

\* A payer who takes no fees is poorer by the wei that the receipt reports, if
\* the transaction ran and its payments were applied, or if prepareTx turned it
\* away; a transaction lost to an error in safeMul, which has no receipt, costs
\* its L1 fees (tryToPayForL1Gas, gasAccounting_endTxCharges).  Two receipts
\* report less than was taken: that of a payer who could not cover the gas, who
\* is left with nothing, and that of a non-mutating transaction that succeeded,
\* which costs all that was held.
PaidAsReported ==
  (bill.status # "none" /\ bill.payer \notin FeeTaker) =>
    /\ bill.status \in {"ended", "rejected", "error", "below minimum", "price too low"}
         => Loss = bill.l1 + bill.gas
    /\ bill.status = "unfunded" => store.bal[bill.payer] = 0
    /\ bill.status \in {"running", "not applied"} => Loss = bill.l1 + bill.held

\* What a payer pays, next to what the receipt says and to the maximum.
ChargedAsReceipted == NeverOvercharged /\ PaidAsReported

\* Where the blocks are cut does not matter for the congestion: advancing to
\* one time and then to another is advancing to the other at once
\* (updateCongestionState, whose loop stops early).
TimeAddsUp ==
  \A t \in info.lastTime .. MaxTime : \A u \in t .. MaxTime :
    LET at == updateCongestionState(updateCongestionState(info, 0, t), 0, u)
        direct == updateCongestionState(info, 0, u)
    IN  at = direct
=============================================================================
