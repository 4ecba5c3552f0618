-------------------------- MODULE RetryablesProofs --------------------------
(***************************************************************************)
(* Proofs about retryable transactions, for every set of accounts, every   *)
(* width of the integers and every bound: the type invariant, that tickets *)
(* are backed and nothing is stranded in escrow, that wei are conserved,   *)
(* that every live ticket is queued, and that no step takes an unexpired   *)
(* ticket away without redeeming or cancelling it.                         *)
(*                                                                         *)
(* The inductive invariant IInv adds to them that key 0 and the keys not   *)
(* handed out yet hold nothing, that two tickets share no key but 0, and   *)
(* that only tickets without callvalue use key 0.                          *)
(***************************************************************************)
EXTENDS SubmissionProofs

\* The ticket of an accepted submission, and its escrow.
LEMMA NewTicket ==
  ASSUME IInv, NEW r \in Request, nextTicket <= MaxTicket, escrowKey(r) \in EscrowKey
  PROVE  /\ newTx(r) \in RetryableTx
         /\ newTx(r).callvalueEscrowKey = escrowKey(r)
         /\ newTx(r).callvalue = r.callvalue
         /\ nextTicket \in TxId
         /\ nextTicket \notin DOMAIN store.byTxId
<1>1. now + lifetime \in Nat
  BY IInvFacts
<1>2. r.destination \in Addr /\ r.beneficiary \in Addr /\ r.callvalue \in UInt
  BY AmountsAssumption, PartiesAssumption DEF Request
<1>3. nextTicket \in 1 .. (MaxTicket + 1)
  BY Zenon DEF IInv, TypeOK
<1>4. nextTicket \in TxId
  BY <1>3, TicketAssumption DEF TxId
<1>5. nextTicket \notin DOMAIN store.byTxId
  BY <1>3, IInvFacts
<1> QED
  BY <1>1, <1>2, <1>4, <1>5 DEF newTx, RetryableTx

\* A sum that covers a cost after wrapping has not wrapped.
LEMMA CostCovered ==
  ASSUME NEW v \in UInt, NEW cost \in UInt, NEW fee \in UInt, fee <= cost,
         NEW n, n = Wrap(v + cost), cost - fee <= n - fee
  PROVE  (n - fee) - (cost - fee) = v
<1>1. v \in Nat /\ cost \in Nat /\ fee \in Nat
  BY UIntFacts
<1>2. v + cost \in Nat
  BY <1>1
<1>3. n \in UInt
  BY <1>2, WrapFacts
<1>4. n \in Nat
  BY <1>3, UIntFacts
<1>5. n >= cost
  BY <1>1, <1>4
<1>6. n = v + cost
  BY <1>5, WrapFacts
<1> QED
  BY <1>1, <1>6

\* processRetryableTx accepting a submission: what is left of the escrow
\* after fee and refund is the callvalue, although totalDue may wrap.
LEMMA AcceptedGood ==
  ASSUME IInv, NEW r \in Request, NEW fee \in Fees,
         Holdable(r, fee), CanDistribute(r, fee)
  PROVE  LET a == Accepted(r, fee)
         IN  /\ Good(a, unbacked \cap DOMAIN Credited(r).byTxId, due + r.deposit)
             /\ DOMAIN a.byTxId = DOMAIN Credited(r).byTxId \cup {nextTicket}
             /\ DOMAIN a.byTxId \subseteq DOMAIN store.byTxId \cup {nextTicket}
<1> DEFINE c == Credited(r)
           n == totalDue(r)
           k == escrowKey(r)
           e == Escrowed(r)
           f == FeePaid(r, fee)
           cost == r.maxSubmissionCost
           m == cost - fee
           p == accountStore_payFromEscrow(f, k, creditBackOf(r), m)
           w == due + r.deposit
           v == r.callvalue
           ub == unbacked \cap DOMAIN c.byTxId
<1>1. /\ deposited + r.deposit <= MaxSupply
      /\ store.nextKey <= MaxKey
      /\ nextTicket <= MaxTicket
      /\ fee <= cost
      /\ CanNewEscrow(c, r.sender, n)
      /\ CanPayFromEscrow(e, k, fee)
      /\ CanPayFromEscrow(f, k, m)
  BY DEF Holdable, DepositArrives, CanDistribute
<1>2. /\ r.sender \in Addr /\ creditBackOf(r) \in Addr /\ NetFee \in Addr
      /\ v \in UInt /\ cost \in UInt /\ fee \in UInt
  BY AmountsAssumption, PartiesAssumption DEF Request, creditBackOf
<1>3. n = Wrap(v + cost) /\ n \in UInt
  <2> HIDE DEF v, cost
  <2>1. v \in Nat /\ cost \in Nat
    BY <1>2, UIntFacts, Zenon
  <2>2. v + cost \in Nat
    BY <2>1
  <2> QED
    BY <2>2, WrapFacts, Zenon DEF totalDue, v, cost
<1>4. m \in UInt
  BY <1>1, <1>2, UintAssumption DEF UInt
<1>5. /\ Good(c, ub, w)
      /\ DOMAIN c.byTxId \subseteq DOMAIN store.byTxId
      /\ c.nextKey <= MaxKey
      /\ w \in 0 .. MaxUint
  BY <1>1, CreditedGood, Zenon
<1>6. /\ e = accountStore_newEscrow(c, r.sender, n)
      /\ k = newEscrowKey(c, n)
      /\ f = accountStore_payFromEscrow(e, k, NetFee, fee)
      /\ Accepted(r, fee) = retryBuffer_insert(p, nextTicket, newTx(r))
  BY DEF Escrowed, escrowKey, FeePaid, Accepted
<1> HIDE DEF c, n, k, e, f, m, p, w, v, ub, cost
<1>7. /\ Escrows(c, e, k, n) /\ k \in EscrowKey
      /\ e.escrow[k] = n /\ Wealth(e) = w
  BY <1>1, <1>2, <1>3, <1>5, <1>6, NewEscrowGood
<1>8. IsStore(c) /\ w <= MaxUint
  BY <1>5, UintAssumption DEF Good
<1>9. /\ Escrows(c, f, k, n - fee) /\ f.escrow[k] = n - fee
      /\ n - fee \in UInt /\ Wealth(f) = w
  BY <1>1, <1>2, <1>3, <1>6, <1>7, <1>8, PayFromNewEscrow
<1>10. /\ Escrows(c, p, k, n - fee - m)
       /\ m <= n - fee /\ Wealth(p) = w
  BY <1>1, <1>2, <1>4, <1>7, <1>8, <1>9, PayFromNewEscrow DEF p
<1>11. n - fee - m = v
  BY <1>1, <1>2, <1>3, <1>10, CostCovered DEF m
<1>12. /\ newTx(r) \in RetryableTx
       /\ newTx(r).callvalueEscrowKey = k /\ newTx(r).callvalue = v
       /\ nextTicket \in TxId /\ nextTicket \notin DOMAIN c.byTxId
  BY <1>1, <1>5, <1>7, NewTicket DEF k, v
<1>13. Escrows(c, p, k, v)
  BY <1>10, <1>11
<1>14. /\ Good(Accepted(r, fee), ub, w)
       /\ DOMAIN Accepted(r, fee).byTxId = DOMAIN c.byTxId \cup {nextTicket}
  BY <1>2, <1>5, <1>6, <1>7, <1>10, <1>12, <1>13, InsertGood
<1> QED
  BY <1>5, <1>14 DEF ub, w, c

\* processRetryableTx accepting a submission, with the transfer of the gas
\* deposit that precedes an auto-redeem.
LEMMA SubmitAcceptedStep ==
  ASSUME IInv, NEW r \in Request, NEW fee \in Fees, SubmitAccepted(r, fee)
  PROVE  IInv' /\ Survive
<1> DEFINE a == Accepted(r, fee)
           n == gasDeposit(r)
           ub == unbacked \cap DOMAIN Credited(r).byTxId
           w == due + r.deposit
           x == accountStore_transferEthBalance(a, r.sender, creditBackOf(r), n)
           tx == [txId |-> nextTicket, gasPayer |-> creditBackOf(r),
                  maxGas |-> r.maxGas, gasPrice |-> r.gasPrice, transferred |-> n]
           funded == CanTransfer(a, r.sender, n)
<1>1. /\ Holdable(r, fee) /\ CanDistribute(r, fee)
      /\ deposited + r.deposit <= MaxSupply
      /\ deposited' = deposited + r.deposit
      /\ nextTicket <= MaxTicket
      /\ unbacked' = ub
      /\ nextTicket' = nextTicket + 1
      /\ lifetime' = lifetime /\ now' = now /\ dropped' = dropped
      /\ \/ funded /\ store' = x /\ autoRedeem' = {tx}
         \/ store' = a /\ autoRedeem' = {}
  BY DEF SubmitAccepted, Holdable, DepositArrives
<1>2. /\ Good(a, ub, w)
      /\ DOMAIN a.byTxId = DOMAIN Credited(r).byTxId \cup {nextTicket}
      /\ DOMAIN a.byTxId \subseteq DOMAIN store.byTxId \cup {nextTicket}
  BY <1>1, AcceptedGood
<1>3. /\ w \in 0 .. MaxUint /\ deposited + r.deposit \in 0 .. MaxSupply
      /\ Unexpired(store, now) \subseteq DOMAIN Credited(r).byTxId
  BY <1>1, CreditedGood, Zenon
<1>4. /\ r.sender \in Addr /\ creditBackOf(r) \in Addr
      /\ r.maxGas \in UInt /\ r.gasPrice \in UInt
      /\ r.deposit \in UInt
  BY AmountsAssumption, PartiesAssumption DEF Request, creditBackOf
<1>5. n \in UInt
  <2>1. r.maxGas \in Nat /\ r.gasPrice \in Nat
    BY <1>4, UIntFacts, Zenon
  <2>2. r.maxGas * r.gasPrice \in Nat
    BY <2>1
  <2> QED
    BY <2>2, WrapFacts DEF gasDeposit
<1> HIDE DEF a, n, ub, w
<1>7. Good(store', ub, w) /\ DOMAIN store'.byTxId = DOMAIN a.byTxId
  <2>1. CASE store' = a
    BY <1>2, <2>1
  <2>2. CASE funded /\ store' = x
    <3>1. Good(x, ub, w) /\ SameBuffer(a, x)
      <4>1. IsStore(a) /\ Wealth(a) = w /\ w <= MaxUint
        BY <1>2, <1>3, UintAssumption DEF Good
      <4>2. /\ IsStore(x) /\ SameEscrow(a, x) /\ SameBuffer(a, x)
            /\ Wealth(x) = Wealth(a)
        BY <1>4, <1>5, <2>2, <4>1, TransferStore
      <4> HIDE DEF x
      <4>3. Good(x, ub, Wealth(x))
        BY <1>2, <4>2, BalancesGood
      <4> QED
        BY <4>1, <4>2, <4>3, SMTT(30)
    <3> HIDE DEF x
    <3> QED
      BY <2>2, <3>1 DEF SameBuffer
  <2> QED
    BY <1>1, <2>1, <2>2
<1> HIDE DEF x, tx, funded
<1>8. due' = w
  <2>1. r.deposit \in Nat
    BY <1>4, UIntFacts, Zenon
  <2>2. deposited' = deposited + r.deposit /\ dropped' = dropped
    BY <1>1
  <2>3. deposited \in Nat /\ dropped \in Nat
    BY IInvFacts
  <2> QED
    BY <2>1, <2>2, <2>3, SMTT(60) DEF due, w
<1>9. nextTicket \in 1 .. MaxTicket /\ nextTicket' \in 1 .. (MaxTicket + 1)
  <2>1. nextTicket \in 1 .. (MaxTicket + 1)
    BY DEF IInv, TypeOK
  <2>2. nextTicket <= MaxTicket /\ nextTicket' = nextTicket + 1
    BY <1>1
  <2> QED
    BY <2>1, <2>2, TicketAssumption, SMTT(60)
<1>10. \A t \in DOMAIN store'.byTxId : t < nextTicket'
  <2>1. \A t \in DOMAIN store.byTxId : t \in Int /\ t < nextTicket
    BY IInvFacts DEF Good, IsStore, TxId
  <2>2. nextTicket' = nextTicket + 1 /\ nextTicket \in Int
    BY <1>1, <1>9
  <2>3. DOMAIN store'.byTxId \subseteq DOMAIN store.byTxId \cup {nextTicket}
    BY <1>2, <1>7
  <2> QED
    BY <2>1, <2>2, <2>3, SMTT(60)
<1>11. autoRedeem' \in SUBSET [txId : TxId, gasPayer : Addr, maxGas : UInt,
                               gasPrice : UInt, transferred : UInt]
  BY <1>1, <1>4, <1>5, <1>9, SMTT(60) DEF TxId, tx
<1>12. /\ lifetime' \in Lifetimes
       /\ now' \in Nat
       /\ deposited' \in 0 .. MaxSupply
       /\ dropped' \in Nat
  BY <1>1, <1>3 DEF IInv, TypeOK
<1>13. Good(store', unbacked', due')
  BY <1>1, <1>7, <1>8
<1>14. Survive
  BY <1>2, <1>3, <1>7 DEF Survive
<1> QED
  BY <1>9, <1>10, <1>11, <1>12, <1>13, <1>14, IInvNext

\* A deposit from L1 followed by the transfer it pays for.
LEMMA FundedTransferStep ==
  ASSUME IInv, NEW s \in Senders, NEW d \in Destinations, NEW n \in Deposits,
         FundedTransfer(s, d, n)
  PROVE  IInv' /\ Survive
<1> DEFINE a == account_addToEthBalance(store, s, n)
           x == accountStore_transferEthBalance(a, s, d, n)
<1>1. /\ deposited + n <= MaxSupply
      /\ deposited' = deposited + n
      /\ store' \in {a, x}
      /\ lifetime' = lifetime /\ now' = now /\ nextTicket' = nextTicket
      /\ autoRedeem' = autoRedeem /\ dropped' = dropped /\ unbacked' = unbacked
  BY DEF FundedTransfer
<1>2. n \in UInt /\ s \in Addr /\ d \in Addr
  BY AmountsAssumption, PartiesAssumption
<1>3. /\ n \in Nat
      /\ MaxSupply \in Nat /\ MaxSupply <= MaxUint /\ MaxUint \in Nat
  BY <1>2, SupplyAssumption, UintAssumption DEF UInt
<1>4. /\ Good(store, unbacked, due)
      /\ due \in Nat /\ deposited \in Nat /\ dropped \in Nat
      /\ \A t \in DOMAIN store.byTxId : t < nextTicket
  BY IInvFacts
<1>5. due + n <= MaxUint /\ deposited' \in 0 .. MaxSupply /\ due' = due + n
  BY <1>1, <1>3, <1>4 DEF due
<1>6. IsStore(store) /\ Wealth(store) = due /\ Wealth(store) + n <= MaxUint
  BY <1>4, <1>5 DEF Good
<1>7. /\ IsStore(a) /\ SameEscrow(store, a) /\ SameBuffer(store, a)
      /\ a.bal = [store.bal EXCEPT ![s] = store.bal[s] + n]
      /\ Wealth(a) = Wealth(store) + n
  BY <1>2, <1>6, AddToBalance
<1> HIDE DEF a
<1>8. a.bal[s] >= n
  <2>1. store.bal \in [Addr -> UInt] /\ store.bal[s] \in Nat
    BY <1>2, <1>6, UIntFacts DEF IsStore
  <2>2. a.bal[s] = store.bal[s] + n
    BY <1>2, <1>7, <2>1
  <2> QED
    BY <1>3, <2>1, <2>2
<1>9. /\ IsStore(x) /\ SameEscrow(a, x) /\ SameBuffer(a, x)
      /\ Wealth(x) = Wealth(a)
  <2>1. CanTransfer(a, s, n) /\ Wealth(a) <= MaxUint
    BY <1>6, <1>7, <1>8 DEF CanTransfer
  <2> QED
    BY <1>2, <1>7, <2>1, TransferStore
<1> HIDE DEF x
<1>10. Good(a, unbacked, Wealth(a))
  BY <1>4, <1>7, BalancesGood
<1>11. Good(x, unbacked, Wealth(x))
  BY <1>9, <1>10, BalancesGood
<1>12. Good(store', unbacked', due') /\ DOMAIN store'.byTxId = DOMAIN store.byTxId
  <2>1. Wealth(a) = due' /\ Wealth(x) = due'
    BY <1>5, <1>6, <1>7, <1>9
  <2> QED
    BY <1>1, <1>7, <1>9, <1>10, <1>11, <2>1 DEF SameBuffer
<1>13. /\ lifetime' \in Lifetimes
       /\ now' \in Nat
       /\ nextTicket' \in 1 .. (MaxTicket + 1)
       /\ autoRedeem' \in SUBSET [txId : TxId, gasPayer : Addr, maxGas : UInt,
                                  gasPrice : UInt, transferred : UInt]
       /\ dropped' \in Nat
  BY <1>1 DEF IInv, TypeOK
<1>14. \A t \in DOMAIN store'.byTxId : t < nextTicket'
  BY <1>1, <1>4, <1>12
<1>15. Survive
  BY <1>12 DEF Survive, Unexpired
<1> QED
  BY <1>5, <1>12, <1>13, <1>14, <1>15, IInvNext

\* The L2 transactions, and the auto-redeem transaction.
LEMMA TransactionStep ==
  ASSUME IInv, NEW payer \in Addr, NEW g \in GasCosts,
         CanTransfer(store, payer, g),
         autoRedeem' = autoRedeem \/ autoRedeem' = {},
         \/ Commit(PayGas(payer, g))
         \/ \E t \in TxId :
              \/ /\ CanRedeem(PayGas(payer, g), t)
                 /\ Commit(Redeemed(PayGas(payer, g), t))
              \/ /\ CanKeepalive(PayGas(payer, g), t)
                 /\ Commit(KeptAlive(PayGas(payer, g), t))
              \/ /\ t \in DOMAIN store.byTxId
                 /\ Commit(retryBuffer_delete(PayGas(payer, g), t, TRUE))
  PROVE  IInv'
<1> DEFINE p == PayGas(payer, g)
<1>1. Good(p, unbacked, due) /\ p.byTxId = store.byTxId
  BY PayGasGood
<1> HIDE DEF p
<1>2. CASE Commit(p)
  <2>1. unbacked = unbacked \cap DOMAIN p.byTxId
    BY <1>1 DEF Good
  <2> QED
    BY <1>1, <1>2, <2>1, CommitStep
<1>3. ASSUME NEW t \in TxId, CanRedeem(p, t), Commit(Redeemed(p, t))
      PROVE  IInv'
  <2> DEFINE r == Redeemed(p, t)
  <2>1. /\ Good(r, unbacked \cap DOMAIN r.byTxId, due)
        /\ DOMAIN r.byTxId \subseteq DOMAIN store.byTxId
    BY <1>1, <1>3, RedeemedGood
  <2> QED
    BY <1>3, <2>1, CommitStep, SMTT(30)
<1>4. ASSUME NEW t \in TxId, CanKeepalive(p, t), Commit(KeptAlive(p, t))
      PROVE  IInv'
  <2> DEFINE r == KeptAlive(p, t)
  <2>1. /\ Good(r, unbacked \cap DOMAIN r.byTxId, due)
        /\ DOMAIN r.byTxId \subseteq DOMAIN store.byTxId
    BY <1>1, <1>4, KeptAliveGood
  <2> QED
    BY <1>4, <2>1, CommitStep
<1>5. ASSUME NEW t \in DOMAIN store.byTxId, Commit(retryBuffer_delete(p, t, TRUE))
      PROVE  IInv'
  <2> DEFINE r == retryBuffer_delete(p, t, TRUE)
  <2>1. /\ Good(r, unbacked \cap DOMAIN r.byTxId, due)
        /\ DOMAIN r.byTxId \subseteq DOMAIN store.byTxId
    BY <1>1, IInvFacts, CancelGood, Zenon
  <2> QED
    BY <1>5, <2>1, CommitStep, Zenon
<1> QED
  BY <1>2, <1>3, <1>4, <1>5, ZenonT(30) DEF p

\* The clock and the chain parameters.
LEMMA EnvironmentStep ==
  ASSUME IInv, accounts_notifyParamsChanged \/ AdvanceTime \/ UNCHANGED vars
  PROVE  IInv'
<1>1. /\ store' = store /\ unbacked' = unbacked /\ nextTicket' = nextTicket
      /\ autoRedeem' = autoRedeem /\ deposited' = deposited
      /\ dropped' = dropped
      /\ lifetime' \in Lifetimes
      /\ now' \in Nat
  <2>1. now \in Nat /\ lifetime \in Lifetimes /\ MaxTime \in Nat
    BY TimeAssumption DEF IInv, TypeOK
  <2>2. CASE accounts_notifyParamsChanged
    BY <2>1, <2>2 DEF accounts_notifyParamsChanged
  <2>3. CASE AdvanceTime
    BY <2>1, <2>3 DEF AdvanceTime
  <2>4. CASE UNCHANGED vars
    BY <2>1, <2>4 DEF vars
  <2> QED
    BY <2>2, <2>3, <2>4
<1>2. due' = due
  BY <1>1 DEF due
<1>3. Good(store', unbacked', due') /\ \A t \in DOMAIN store'.byTxId : t < nextTicket'
  BY <1>1, <1>2, IInvFacts
<1>4. /\ nextTicket' \in 1 .. (MaxTicket + 1)
      /\ autoRedeem' \in SUBSET [txId : TxId, gasPayer : Addr, maxGas : UInt,
                                 gasPrice : UInt, transferred : UInt]
      /\ deposited' \in 0 .. MaxSupply
      /\ dropped' \in Nat
  BY <1>1 DEF IInv, TypeOK
<1> QED
  BY <1>1, <1>3, <1>4, IInvNext

\* The inductive invariant holds before the first message.
LEMMA InitStep == Init => IInv
<1> SUFFICES ASSUME Init PROVE IInv
  OBVIOUS
<1>1. /\ store.bal = [a \in Addr |-> 0]
      /\ store.escrow = [k \in EscrowKey |-> 0]
      /\ store.nextKey = 1
      /\ DOMAIN store.byTxId = {}
      /\ store.fifo = << >>
      /\ unbacked = {} /\ deposited = 0 /\ dropped = 0
  BY DEF Init, accountStore_init
<1>2. IsStore(store)
  BY KeyAssumption, UintAssumption
     DEF Init, accountStore_init, IsStore, EscrowKey, UInt
<1>3. Wealth(store) = 0
  <2>1. Total(store.bal) = 0 /\ Total(store.escrow) = 0
    BY <1>1, TotalZero
  <2> QED
    BY <2>1 DEF Wealth
<1>4. EscrowStoreID_txGas \in EscrowKey
  BY KeyAssumption DEF EscrowStoreID_txGas, EscrowKey
<1>5. Held(store, unbacked) /\ Queued(store)
  BY <1>1, <1>4 DEF Held, Queued
<1>6. TypeOK
  <2>1. 0 \in 0 .. MaxSupply
    BY SupplyAssumption DEF UInt
  <2>2. nextTicket \in 1 .. (MaxTicket + 1)
    BY TicketAssumption DEF Init
  <2> QED
    BY <1>1, <1>2, <2>1, <2>2 DEF Init, TypeOK
<1>7. Conservation
  BY <1>1, <1>3 DEF Conservation
<1> QED
  BY <1>1, <1>5, <1>6, <1>7 DEF IInv

\* Every message ArbOS handles preserves the inductive invariant.
LEMMA NextStep == IInv /\ [Next]_vars => IInv'
<1> SUFFICES ASSUME IInv, [Next]_vars PROVE IInv'
  OBVIOUS
<1>1. ASSUME NEW r \in Request, NEW fee \in Fees,
             \/ SubmitRejected(r, fee)
             \/ SubmitDropped(r, fee)
             \/ SubmitAccepted(r, fee)
      PROVE  IInv'
  BY <1>1, SubmitRejectedStep, SubmitDroppedStep, SubmitAcceptedStep
<1>2. ASSUME NEW payer \in Addr, NEW g \in GasCosts,
             \/ TxReverts(payer, g)
             \/ \E t \in TxId : \/ Redeem(payer, t, g)
                                \/ Keepalive(payer, t, g)
                                \/ Cancel(payer, t, g)
      PROVE  IInv'
  BY <1>2, TransactionStep, Zenon DEF TxReverts, Redeem, Keepalive, Cancel
<1>3. ASSUME NEW g \in GasCosts, AutoRedeem(g)
      PROVE  IInv'
  <2>1. PICK tx \in autoRedeem :
          /\ CanTransfer(store, tx.gasPayer, g)
          /\ \/ /\ CanRedeem(PayGas(tx.gasPayer, g), tx.txId)
                /\ Commit(Redeemed(PayGas(tx.gasPayer, g), tx.txId))
             \/ Commit(PayGas(tx.gasPayer, g))
          /\ autoRedeem' = {}
    BY <1>3 DEF AutoRedeem
  <2>2. tx.gasPayer \in Addr /\ tx.txId \in TxId
    BY DEF IInv, TypeOK
  <2> QED
    BY <2>1, <2>2, TransactionStep, Zenon
<1>4. ASSUME NEW s \in Senders, NEW d \in Destinations, NEW n \in Deposits,
             FundedTransfer(s, d, n)
      PROVE  IInv'
  BY <1>4, FundedTransferStep
<1>5. CASE accounts_notifyParamsChanged \/ AdvanceTime \/ UNCHANGED vars
  BY <1>5, EnvironmentStep
<1> QED
  BY <1>1, <1>2, <1>3, <1>4, <1>5 DEF Next, Submit, L2Tx

\* Of the L2 transactions, only the redemption and the cancellation of an
\* unexpired ticket remove it.
LEMMA TransactionKeeps ==
  ASSUME IInv, NEW payer \in Addr, NEW g \in GasCosts,
         NEW t \in Unexpired(store, now), t \notin DOMAIN store'.byTxId,
         \/ TxReverts(payer, g)
         \/ \E u \in TxId : \/ Redeem(payer, u, g)
                            \/ Keepalive(payer, u, g)
                            \/ Cancel(payer, u, g)
  PROVE  Redeem(payer, t, g) \/ Cancel(payer, t, g)
<1> DEFINE p == PayGas(payer, g)
<1>1. CanTransfer(store, payer, g)
  BY ZenonT(30) DEF TxReverts, Redeem, Keepalive, Cancel
<1>2. Good(p, unbacked, due) /\ p.byTxId = store.byTxId
  BY <1>1, PayGasGood
<1>3. t \in DOMAIN store.byTxId
  BY DEF Unexpired
<1> HIDE DEF p
<1>4. ~TxReverts(payer, g)
  BY <1>2, <1>3, ZenonT(30) DEF TxReverts, Commit, p
<1>5. ASSUME NEW u \in TxId, Redeem(payer, u, g)
      PROVE  u = t
  <2>1. CanRedeem(p, u) /\ store' = Redeemed(p, u)
    BY <1>5, Zenon DEF Redeem, Commit, p
  <2> QED
    BY <1>2, <2>1, RedeemedGood, Zenon
<1>6. ASSUME NEW u \in TxId
      PROVE  ~Keepalive(payer, u, g)
  <2>1. SUFFICES ASSUME CanKeepalive(p, u), store' = KeptAlive(p, u)
                 PROVE  FALSE
    BY Zenon DEF Keepalive, Commit, p
  <2> QED
    BY <1>2, <2>1, KeptAliveGood, Zenon
<1>7. ASSUME NEW u \in TxId, Cancel(payer, u, g)
      PROVE  u = t
  <2>1. u \in DOMAIN p.byTxId /\ store' = retryBuffer_delete(p, u, TRUE)
    BY <1>2, <1>7, Zenon DEF Cancel, Commit, p
  <2>2. DOMAIN store'.byTxId = DOMAIN p.byTxId \ {u}
    BY <1>2, <2>1, IInvFacts, CancelGood, Zenon
  <2> QED
    BY <1>2, <1>3, <2>2
<1> QED
  BY <1>4, <1>5, <1>6, <1>7, Zenon

\* The same for every step.
LEMMA KeepStep ==
  ASSUME IInv, [Next]_vars, NEW t \in Unexpired(store, now),
         t \notin DOMAIN store'.byTxId
  PROVE  \E p \in Addr, g \in GasCosts :
           Redeem(p, t, g) \/ Cancel(p, t, g) \/ AutoRedeem(g)
<1>1. ~Survive
  BY DEF Survive
<1>2. ~Submit
  BY <1>1, SubmitRejectedStep, SubmitDroppedStep, SubmitAcceptedStep, Zenon DEF Submit
<1>3. ~\E s \in Senders, d \in Destinations, n \in Deposits : FundedTransfer(s, d, n)
  BY <1>1, FundedTransferStep, Zenon
<1>4. store' # store
  BY DEF Unexpired
<1>5. \/ L2Tx
      \/ \E g \in GasCosts : AutoRedeem(g)
  BY <1>2, <1>3, <1>4, Zenon DEF Next, vars, accounts_notifyParamsChanged, AdvanceTime
<1>6. CASE L2Tx
  BY <1>6, TransactionKeeps, Zenon DEF L2Tx
<1>7. CASE \E g \in GasCosts : AutoRedeem(g)
  BY <1>7, PartiesAssumption, Zenon
<1> QED
  BY <1>5, <1>6, <1>7

-----------------------------------------------------------------------------
(***************************************************************************)
(* The theorems.                                                           *)
(***************************************************************************)

\* IInv holds in every state that ArbOS's retryable transactions can reach.
THEOREM Invariance == Spec => []IInv
  BY InitStep, NextStep, PTL DEF Spec

\* The store, the retry buffer and the counters keep their types: no
\* balance and no escrow ever wraps or goes below zero.
THEOREM TypeCorrect == Spec => []TypeOK
<1>1. IInv => TypeOK
  BY SMTT(30) DEF IInv
<1> QED
  BY <1>1, Invariance, PTL

\* Submission, trimming, redemption, cancellation and keepalive leave every
\* live ticket's callvalue under its escrow key, except for the tickets a
\* dropped submission leaves behind refunded.
THEOREM Backed == Spec => []TicketBacked
<1>1. IInv => TicketBacked
  BY DEF IInv, Held, TicketBacked, KeyOf, ValueOf
<1> QED
  BY <1>1, Invariance, PTL

\* No wei stays in escrow without a live ticket to pay it out.
THEOREM Unstranded == Spec => []NothingStranded
<1>1. IInv => NothingStranded
  BY DEF IInv, Held, NothingStranded, KeyOf
<1> QED
  BY <1>1, Invariance, PTL

\* Accounts and escrow together hold what L1 deposited, less the deposits of
\* dropped submissions.
THEOREM Conserved == Spec => []Conservation
<1>1. IInv => Conservation
  BY DEF IInv
<1> QED
  BY <1>1, Invariance, PTL

\* Every live ticket has a queue item with its current expiry time.
THEOREM AlwaysQueued == Spec => []LiveTicketQueued
<1>1. IInv => LiveTicketQueued
  BY DEF IInv, Queued, LiveTicketQueued
<1> QED
  BY <1>1, Invariance, PTL

\* A ticket that has not aged out leaves the retry buffer only by a
\* redemption of it that succeeds or a cancellation: trimming goes by the
\* queue item, and keepalive leaves items of earlier lives behind.
THEOREM Kept == Spec => UnexpiredTicketKept
<1> DEFINE Step == \A t \in DOMAIN store.byTxId :
                     /\ t \notin DOMAIN store'.byTxId
                     /\ store.byTxId[t].expiryTime >= now
                     => \E p \in Addr, g \in GasCosts :
                          Redeem(p, t, g) \/ Cancel(p, t, g) \/ AutoRedeem(g)
<1>1. IInv /\ [Next]_vars => [Step]_vars
  BY KeepStep, Zenon DEF Unexpired
<1>2. Spec => [][Step]_vars
  BY <1>1, Invariance, PTL DEF Spec
<1> QED
  BY <1>2 DEF UnexpiredTicketKept
=============================================================================
