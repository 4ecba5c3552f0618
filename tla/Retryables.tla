----------------------------- MODULE Retryables -----------------------------
(***************************************************************************)
(* Retryable transactions (arb_os/retrybuffer.mini, arb_os/arbretryable    *)
(* .mini): tickets submitted from L1 hold a callvalue in escrow until they *)
(* are redeemed, cancelled by their beneficiary, or aged out.              *)
(*                                                                         *)
(* globalAccountStore is `store`: an AccountStore with two more fields for *)
(* the retry buffer it contains,                                           *)
(*                                                                         *)
(*    byTxId   the live tickets                                            *)
(*    fifo     <<[txId, checkTime], ...>>, when to look at which ticket    *)
(*                                                                         *)
(* A step is one message ArbOS takes from its inbox, run to completion.  A *)
(* transaction that calls the ArbRetryableTx precompile either commits its *)
(* frame or reverts it and pays gas only (module EvmCallStack is about the *)
(* frames).  An accepted submission may create an auto-redeem transaction, *)
(* which handleUnpackedMessage runs before anything else.                  *)
(*                                                                         *)
(* Ticket ids are hashes of fresh request ids; here they are 1, 2, ...     *)
(***************************************************************************)
EXTENDS AccountStore, Sequences

CONSTANTS Zero,                 \* address(0)
          NetFee,               \* the NetworkFeeRecipient chain parameter
          MaxTicket,            \* bound: tickets 1 .. MaxTicket
          MaxTime,              \* bound: the clock stops there
          MaxSupply,            \* bound: wei that L1 ever deposits
          Lifetimes,            \* values of RetryableTxLifetimeSeconds
          Senders, Destinations, CreditBacks, Beneficiaries,
          Deposits, Callvalues, MaxCosts, Fees,
          GasLimits, GasPrices, \* of the immediate redemption
          GasCosts              \* what a transaction's gas may cost

ASSUME PartiesAssumption ==
         /\ {Zero, NetFee} \cup Senders \cup Destinations
              \cup CreditBacks \cup Beneficiaries \subseteq Addr
ASSUME AmountsAssumption ==
         Deposits \cup Callvalues \cup MaxCosts \cup Fees
           \cup GasLimits \cup GasPrices \cup GasCosts \subseteq UInt
ASSUME SupplyAssumption == MaxSupply \in UInt
ASSUME TicketAssumption == MaxTicket \in Nat
ASSUME TimeAssumption == MaxTime \in Nat /\ Lifetimes \subseteq Nat \ {0}

VARIABLES store,       \* globalAccountStore
          lifetime,    \* retryBuffer.txLifetimeSeconds
          now,         \* inbox_currentTimestamp()
          nextTicket,  \* the next ticket id
          autoRedeem,  \* {} or {the auto-redeem transaction to run next}
          deposited,   \* history: wei of all L1 deposits seen
          dropped,     \* history: the part of it never credited
          unbacked     \* history: live tickets whose callvalue is gone

vars == <<store, lifetime, now, nextTicket, autoRedeem,
          deposited, dropped, unbacked>>

TxId == 1 .. MaxTicket

RetryableTx == [destination : Addr, callvalue : UInt,
                callvalueEscrowKey : EscrowKey, beneficiary : Addr,
                expiryTime : Nat]

RetryQueueItem == [txId : TxId, checkTime : Nat]

(***************************************************************************)
(* Operations on the retry buffer.                                         *)
(***************************************************************************)
\* Mutant: a renewed ticket gets no fresh queue item.
retryBuffer_insert_once(st, t, rtx) ==
  [st EXCEPT !.byTxId = [u \in DOMAIN @ \cup {t} |->
                            IF u = t THEN rtx ELSE @[u]],
             !.fifo = IF t \in DOMAIN st.byTxId THEN @ ELSE
               Append(@, [txId |-> t, checkTime |-> rtx.expiryTime])]

retryBuffer_insert(st, t, rtx) ==
  [st EXCEPT !.byTxId = [u \in DOMAIN @ \cup {t} |->
                            IF u = t THEN rtx ELSE @[u]],
             !.fifo = Append(@, [txId |-> t, checkTime |-> rtx.expiryTime])]

\* Mutant: the refund is forgotten.
Refund_none(st, rtx) == st

\* A refund that the escrow cannot pay is silently skipped.
Refund(st, rtx) ==
  IF CanPayFromEscrow(st, rtx.callvalueEscrowKey, rtx.callvalue)
    THEN accountStore_payFromEscrow(st, rtx.callvalueEscrowKey,
                                    rtx.beneficiary, rtx.callvalue)
    ELSE st

retryBuffer_delete(st, t, withRefund) ==
  LET rbuf == [st EXCEPT !.byTxId = [u \in DOMAIN @ \ {t} |-> @[u]]]
  IN  IF withRefund THEN Refund(rbuf, st.byTxId[t]) ELSE rbuf

CanTrim(st, time) ==
  /\ st.fifo # << >>
  /\ Head(st.fifo).checkTime < time
  /\ Head(st.fifo).txId \in DOMAIN st.byTxId

\* Mutant: the ticket's own expiry time, moved by keepalive, is not read.
TrimHead_eager(st, time) ==
  [retryBuffer_delete(st, Head(st.fifo).txId, TRUE) EXCEPT !.fifo = Tail(@)]

TrimHead(st, time) ==
  LET t == Head(st.fifo).txId
      rbuf == IF st.byTxId[t].expiryTime < time
                THEN retryBuffer_delete(st, t, TRUE)
                ELSE st
  IN  [rbuf EXCEPT !.fifo = Tail(@)]

retryBuffer_trimOne(st, time) ==
  IF CanTrim(st, time) THEN TrimHead(st, time) ELSE st

retryBuffer_trimTwo(st, time) ==
  retryBuffer_trimOne(retryBuffer_trimOne(st, time), time)

(***************************************************************************)
(* The initial state: accountStore_init on a chain without accounts.       *)
(***************************************************************************)
Init ==
  /\ store = [bal |-> accountStore_init.bal,
              escrow |-> accountStore_init.escrow,
              nextKey |-> accountStore_init.nextKey,
              byTxId |-> [t \in {} |-> 0],
              fifo |-> << >>]
  /\ lifetime \in Lifetimes
  /\ now = 0
  /\ nextTicket = 1
  /\ autoRedeem = {}
  /\ deposited = 0
  /\ dropped = 0
  /\ unbacked = {}

(***************************************************************************)
(* processRetryableTx, a submission r that is quoted the price `fee`.  The *)
(* two trimmed tickets are refunded in the global store at once; the rest  *)
(* works on a local copy, Credited and so on, that is saved at the end.    *)
(***************************************************************************)
Request == [sender : Senders, destination : Destinations,
            callvalue : Callvalues, deposit : Deposits,
            maxSubmissionCost : MaxCosts, creditBack : CreditBacks,
            beneficiary : Beneficiaries,
            maxGas : GasLimits, gasPrice : GasPrices]

creditBackOf(r) == IF r.creditBack = Zero THEN r.sender ELSE r.creditBack

\* Mutant: a submission does not trim.
Credited_untrimmed(r) == account_addToEthBalance(store, r.sender, r.deposit)

Credited(r) ==
  account_addToEthBalance(retryBuffer_trimTwo(store, now), r.sender, r.deposit)

totalDue(r) == Wrap(r.callvalue + r.maxSubmissionCost)

Escrowed(r) == accountStore_newEscrow(Credited(r), r.sender, totalDue(r))
escrowKey(r) == newEscrowKey(Credited(r), totalDue(r))

FeePaid(r, fee) ==
  accountStore_payFromEscrow(Escrowed(r), escrowKey(r), NetFee, fee)

CanDistribute(r, fee) ==
  /\ CanPayFromEscrow(Escrowed(r), escrowKey(r), fee)
  /\ CanPayFromEscrow(FeePaid(r, fee), escrowKey(r), r.maxSubmissionCost - fee)

newTx(r) == [destination |-> r.destination, callvalue |-> r.callvalue,
             callvalueEscrowKey |-> escrowKey(r),
             beneficiary |-> r.beneficiary, expiryTime |-> now + lifetime]

Accepted(r, fee) ==
  retryBuffer_insert(
    accountStore_payFromEscrow(FeePaid(r, fee), escrowKey(r), creditBackOf(r),
                               r.maxSubmissionCost - fee),
    nextTicket, newTx(r))

\* The wei that the immediate redemption may cost, and when one is wanted.
gasDeposit(r) == Wrap(r.maxGas * r.gasPrice)
WantsAutoRedeem(r) == /\ r.maxGas > 0
                      /\ r.gasPrice > 0
                      /\ gasDeposit(r) >= r.gasPrice

DepositArrives(r) ==
  /\ autoRedeem = {}
  /\ deposited + r.deposit <= MaxSupply
  /\ deposited' = deposited + r.deposit

\* Only the trimming and the deposit take effect: the price is above the
\* limit, or the sender cannot cover the callvalue and the limit.
SubmitRejected(r, fee) ==
  /\ DepositArrives(r)
  /\ \/ fee > r.maxSubmissionCost
     \/ ~CanNewEscrow(Credited(r), r.sender, totalDue(r))
  /\ store' = Credited(r)
  /\ unbacked' = unbacked \cap DOMAIN Credited(r).byTxId
  /\ UNCHANGED <<lifetime, now, nextTicket, autoRedeem, dropped>>

Holdable(r, fee) ==
  /\ DepositArrives(r)
  /\ store.nextKey <= MaxKey
  /\ nextTicket <= MaxTicket
  /\ fee <= r.maxSubmissionCost
  /\ CanNewEscrow(Credited(r), r.sender, totalDue(r))

\* A payment out of the new escrow fails and `?' returns before the local
\* store is saved: of all the effects only the trimming's refunds remain.
SubmitDropped(r, fee) ==
  /\ Holdable(r, fee)
  /\ ~CanDistribute(r, fee)
  /\ LET trimmed == retryBuffer_trimTwo(store, now)
     IN  /\ store' = [trimmed EXCEPT !.byTxId = store.byTxId,
                                     !.fifo = store.fifo]
         /\ unbacked' = unbacked \cup
                          (DOMAIN store.byTxId \ DOMAIN trimmed.byTxId)
  /\ dropped' = dropped + r.deposit
  /\ UNCHANGED <<lifetime, now, nextTicket, autoRedeem>>

SubmitAccepted(r, fee) ==
  /\ Holdable(r, fee)
  /\ CanDistribute(r, fee)
  /\ LET st == Accepted(r, fee)
     IN  IF WantsAutoRedeem(r) /\ CanTransfer(st, r.sender, gasDeposit(r))
           THEN /\ store' = accountStore_transferEthBalance(
                              st, r.sender, creditBackOf(r), gasDeposit(r))
                /\ autoRedeem' = {[txId |-> nextTicket,
                                   gasPayer |-> creditBackOf(r),
                                   maxGas |-> r.maxGas,
                                   gasPrice |-> r.gasPrice,
                                   transferred |-> gasDeposit(r)]}
           ELSE /\ store' = st
                /\ autoRedeem' = {}
  /\ unbacked' = unbacked \cap DOMAIN Credited(r).byTxId
  /\ nextTicket' = nextTicket + 1
  /\ UNCHANGED <<lifetime, now, dropped>>

(***************************************************************************)
(* Transactions.  The gas comes out of the payer's account first; what the *)
(* payer finally paid, g, ends up with the network fee recipient.          *)
(***************************************************************************)
PayGas(payer, g) == accountStore_transferEthBalance(store, payer, NetFee, g)

\* redeemRetryableTxInTx with a call to the destination that succeeds.
CanRedeem(st, t) ==
  LET trimmed == retryBuffer_trimTwo(st, now)
  IN  /\ t \in DOMAIN trimmed.byTxId
      /\ CanPayFromEscrow(trimmed, trimmed.byTxId[t].callvalueEscrowKey,
                          trimmed.byTxId[t].callvalue)

Redeemed(st, t) ==
  LET trimmed == retryBuffer_trimTwo(st, now)
      rtx == trimmed.byTxId[t]
  IN  accountStore_payFromEscrow(retryBuffer_delete(trimmed, t, FALSE),
                                 rtx.callvalueEscrowKey, rtx.destination,
                                 rtx.callvalue)

Commit(st) == /\ store' = st
              /\ unbacked' = unbacked \cap DOMAIN st.byTxId
              /\ UNCHANGED <<lifetime, now, nextTicket, deposited, dropped>>

Redeem(payer, t, g) ==
  /\ autoRedeem = {}
  /\ CanTransfer(store, payer, g)
  /\ CanRedeem(PayGas(payer, g), t)
  /\ Commit(Redeemed(PayGas(payer, g), t))
  /\ UNCHANGED autoRedeem

CanKeepalive(st, t) ==
  LET trimmed == retryBuffer_trimTwo(st, now)
  IN  /\ t \in DOMAIN trimmed.byTxId
      /\ trimmed.byTxId[t].expiryTime + lifetime <= now + 2 * lifetime

KeptAlive(st, t) ==
  LET trimmed == retryBuffer_trimTwo(st, now)
  IN  retryBuffer_insert(trimmed, t,
        [trimmed.byTxId[t] EXCEPT !.expiryTime = @ + lifetime])

Keepalive(payer, t, g) ==
  /\ autoRedeem = {}
  /\ CanTransfer(store, payer, g)
  /\ CanKeepalive(PayGas(payer, g), t)
  /\ Commit(KeptAlive(PayGas(payer, g), t))
  /\ UNCHANGED autoRedeem

Cancel(caller, t, g) ==
  /\ autoRedeem = {}
  /\ CanTransfer(store, caller, g)
  /\ t \in DOMAIN store.byTxId
  /\ caller \in {store.byTxId[t].beneficiary, Zero}
  /\ Commit(retryBuffer_delete(PayGas(caller, g), t, TRUE))
  /\ UNCHANGED autoRedeem

\* Any transaction that reverts, or is refused after part of its fees were
\* collected, leaves nothing behind but the fees.
TxReverts(payer, g) ==
  /\ autoRedeem = {}
  /\ CanTransfer(store, payer, g)
  /\ Commit(PayGas(payer, g))
  /\ UNCHANGED autoRedeem

\* The auto-redeem transaction: runs, or reverts or is refused.
AutoRedeem(g) ==
  \E tx \in autoRedeem :
    /\ CanTransfer(store, tx.gasPayer, g)
    /\ \/ /\ CanRedeem(PayGas(tx.gasPayer, g), tx.txId)
          /\ Commit(Redeemed(PayGas(tx.gasPayer, g), tx.txId))
       \/ Commit(PayGas(tx.gasPayer, g))
    /\ autoRedeem' = {}

\* An L2 message funded by L1: the deposit is kept even when the transfer
\* that follows it is malformed, refused or fails.
FundedTransfer(sender, to, n) ==
  /\ autoRedeem = {}
  /\ deposited + n <= MaxSupply
  /\ deposited' = deposited + n
  /\ LET st == account_addToEthBalance(store, sender, n)
     IN  store' \in {st, accountStore_transferEthBalance(st, sender, to, n)}
  /\ UNCHANGED <<lifetime, now, nextTicket, autoRedeem, dropped, unbacked>>

accounts_notifyParamsChanged ==
  /\ autoRedeem = {}
  /\ lifetime' \in Lifetimes
  /\ UNCHANGED <<store, now, nextTicket, autoRedeem,
                 deposited, dropped, unbacked>>

\* A message with a later timestamp starts being processed.
AdvanceTime ==
  /\ autoRedeem = {}
  /\ now' \in (now + 1) .. MaxTime
  /\ UNCHANGED <<store, lifetime, nextTicket, autoRedeem,
                 deposited, dropped, unbacked>>

Submit == \E r \in Request, fee \in Fees :
            \/ SubmitRejected(r, fee)
            \/ SubmitDropped(r, fee)
            \/ SubmitAccepted(r, fee)

L2Tx == \E payer \in Addr, g \in GasCosts :
          \/ TxReverts(payer, g)
          \/ \E t \in TxId : \/ Redeem(payer, t, g)
                             \/ Keepalive(payer, t, g)
                             \/ Cancel(payer, t, g)

Next == \/ Submit
        \/ L2Tx
        \/ \E g \in GasCosts : AutoRedeem(g)
        \/ \E s \in Senders, d \in Destinations, n \in Deposits :
             FundedTransfer(s, d, n)
        \/ accounts_notifyParamsChanged
        \/ AdvanceTime

Spec == Init /\ [][Next]_vars
-----------------------------------------------------------------------------
(***************************************************************************)
(* Properties.                                                             *)
(***************************************************************************)

IsStore(st) ==
  /\ st \in [bal : [Addr -> UInt], escrow : [EscrowKey -> UInt],
             nextKey : 1 .. (MaxKey + 1),
             byTxId : [DOMAIN st.byTxId -> RetryableTx],
             fifo : Seq(RetryQueueItem)]
  /\ DOMAIN st.byTxId \subseteq TxId

\* The type invariant: the store's fields, the buffer's tickets and queue
\* items and the counters have the shapes the source declares for them.
TypeOK ==
  /\ IsStore(store)
  /\ lifetime \in Lifetimes
  /\ now \in Nat
  /\ nextTicket \in 1 .. (MaxTicket + 1)
  /\ autoRedeem \in SUBSET [txId : TxId, gasPayer : Addr, maxGas : UInt,
                            gasPrice : UInt, transferred : UInt]
  /\ deposited \in 0 .. MaxSupply
  /\ dropped \in Nat
  /\ unbacked \subseteq TxId

\* Every live ticket's callvalue lies untouched under its own escrow key
\* until the ticket goes, the tickets that SubmitDropped leaves behind
\* refunded excepted (retrybuffer.mini, newEscrow to delete).
TicketBacked ==
  \A t \in DOMAIN store.byTxId :
    LET rtx == store.byTxId[t]
    IN  store.escrow[rtx.callvalueEscrowKey] =
          IF t \in unbacked THEN 0 ELSE rtx.callvalue

\* Nothing stays in escrow once the ticket it was held for is gone:
\* redemption, cancellation and trimming pay out all there is.
NothingStranded ==
  \A k \in EscrowKey :
    store.escrow[k] > 0 =>
      \E t \in DOMAIN store.byTxId : store.byTxId[t].callvalueEscrowKey = k

\* Submission, redemption, refund and gas move wei and never create or
\* destroy it: accounts and escrow hold what L1 deposited, the deposits of
\* dropped submissions excepted.
Conservation == Wealth(store) + dropped = deposited

\* A live ticket always has a queue item that will make trimming look at it
\* when it ages out, however often it was kept alive (retryBuffer_insert,
\* and trimOne popping the items of earlier expiry times).
LiveTicketQueued ==
  \A t \in DOMAIN store.byTxId :
    \E i \in DOMAIN store.fifo :
      store.fifo[i] = [txId |-> t, checkTime |-> store.byTxId[t].expiryTime]

KeyOf(st, t) == st.byTxId[t].callvalueEscrowKey
ValueOf(st, t) == st.byTxId[t].callvalue

\* The escrow of a store and its tickets belong together; the tickets in ub
\* have been paid out already.
Held(st, ub) ==
  /\ st.escrow[EscrowStoreID_txGas] = 0
  /\ \A k \in EscrowKey : k >= st.nextKey => st.escrow[k] = 0
  /\ \A t \in DOMAIN st.byTxId :
       /\ KeyOf(st, t) < st.nextKey
       /\ KeyOf(st, t) = EscrowStoreID_txGas => ValueOf(st, t) = 0
       /\ st.escrow[KeyOf(st, t)] = IF t \in ub THEN 0 ELSE ValueOf(st, t)
  /\ \A t, u \in DOMAIN st.byTxId :
       KeyOf(st, t) = KeyOf(st, u) /\ t # u
         => KeyOf(st, t) = EscrowStoreID_txGas
  /\ \A k \in EscrowKey :
       st.escrow[k] > 0 => \E t \in DOMAIN st.byTxId : KeyOf(st, t) = k

Queued(st) ==
  \A t \in DOMAIN st.byTxId :
    \E i \in DOMAIN st.fifo :
      st.fifo[i] = [txId |-> t, checkTime |-> st.byTxId[t].expiryTime]

\* The invariant the proofs are about: beyond the properties above, key 0
\* and the keys not handed out yet hold nothing, two tickets share no key
\* but 0, and only tickets without callvalue use key 0 (newEscrow's keys
\* from submission to payout).
IInv ==
  /\ TypeOK
  /\ Held(store, unbacked)
  /\ Queued(store)
  /\ Conservation
  /\ unbacked \subseteq DOMAIN store.byTxId
  /\ \A t \in DOMAIN store.byTxId : t < nextTicket

\* A ticket that has not aged out leaves the buffer only by a redemption
\* of it that succeeds or by a cancellation of its beneficiary (or of
\* address 0), whatever queue items of its earlier lives are trimmed.
UnexpiredTicketKept ==
  [][\A t \in DOMAIN store.byTxId :
       /\ t \notin DOMAIN store'.byTxId
       /\ store.byTxId[t].expiryTime >= now
       => \E p \in Addr, g \in GasCosts :
            Redeem(p, t, g) \/ Cancel(p, t, g) \/ AutoRedeem(g)]_vars

(***************************************************************************)
(* Fairness for the one liveness question: time passes, and submissions    *)
(* keep arriving and being turned down.  Those trim the buffer and have no *)
(* other effect, so they may go on for ever.                               *)
(***************************************************************************)
SubmissionsGoOn ==
  \E r \in Request, fee \in Fees : r.deposit = 0 /\ SubmitRejected(r, fee)

FairSpec == /\ Spec
            /\ WF_vars(AdvanceTime)
            /\ WF_vars(\E g \in GasCosts : AutoRedeem(g))
            /\ WF_vars(SubmissionsGoOn)

\* An aged-out ticket whose queue item has come to the head of the queue is
\* removed while submissions go on (retryBuffer_trimTwo in
\* processRetryableTx), or kept alive.
AgedOutHeadRemoved ==
  \A t \in TxId :
    LET AtHead == /\ store.fifo # << >>
                  /\ Head(store.fifo).txId = t
                  /\ t \in DOMAIN store.byTxId
                  /\ store.byTxId[t].expiryTime < now
    IN  AtHead ~> ~AtHead

\* retrybuffer.mini:116, "We trim the buffer when it's modified. This
\* removes aged-out items from the buffer": a ticket that has aged out is
\* eventually removed, or kept alive.
AgedOutRemoved ==
  \A t \in TxId :
    (t \in DOMAIN store.byTxId /\ store.byTxId[t].expiryTime < now)
      ~> ~(t \in DOMAIN store.byTxId /\ store.byTxId[t].expiryTime < now)
=============================================================================
