-------------------------- MODULE SubmissionProofs --------------------------
(***************************************************************************)
(* Lemmas about the retry buffer and about submitting a retryable: what    *)
(* the operations on the buffer keep, and that a submission, whether it is *)
(* taken or turned down, keeps the invariant.                              *)
(***************************************************************************)
EXTENDS Retryables, AccountStoreProofs

(***************************************************************************)
(* What the operations on balances and escrow do to a store.               *)
(***************************************************************************)

SameBuffer(st, r) == r.byTxId = st.byTxId /\ r.fifo = st.fifo
SameEscrow(st, r) == r.escrow = st.escrow /\ r.nextKey = st.nextKey

\* There are finitely many escrow keys, so escrowed wei can be totalled.
LEMMA KeysFinite == IsFiniteSet(EscrowKey)
  BY KeyAssumption, FS_Interval DEF EscrowKey

\* The fields of a store, with the names the lemmas about totals use.
LEMMA StoreFields ==
  ASSUME NEW st, IsStore(st)
  PROVE  /\ st.bal \in Balances(Addr)
         /\ st.escrow \in Balances(EscrowKey)
         /\ st.nextKey \in Nat \ {0}
         /\ st.nextKey <= MaxKey + 1
         /\ Total(st.bal) \in Nat
         /\ Total(st.escrow) \in Nat
         /\ Wealth(st) \in Nat
<1>1. /\ st.bal \in Balances(Addr)
      /\ st.escrow \in Balances(EscrowKey)
      /\ st.nextKey \in Nat \ {0}
      /\ st.nextKey <= MaxKey + 1
  BY KeyAssumption DEF IsStore, Balances
<1>2. Total(st.bal) \in Nat /\ Total(st.escrow) \in Nat
  BY <1>1, AddrAssumption, KeysFinite, TotalType
<1> QED
  BY <1>1, <1>2 DEF Wealth

\* account_addToEthBalance adds to the wealth what it adds to the balance, as
\* long as the supply fits in a word.
LEMMA AddToBalance ==
  ASSUME NEW st, IsStore(st), NEW a \in Addr, NEW n \in UInt,
         Wealth(st) + n <= MaxUint
  PROVE  LET r == account_addToEthBalance(st, a, n)
         IN  /\ IsStore(r)
             /\ SameEscrow(st, r) /\ SameBuffer(st, r)
             /\ r.bal = [st.bal EXCEPT ![a] = st.bal[a] + n]
             /\ Wealth(r) = Wealth(st) + n
<1> DEFINE r == account_addToEthBalance(st, a, n)
           m == st.bal[a] + n
<1>1. st.bal[a] \in Nat /\ st.bal[a] <= Total(st.bal) /\ n \in Nat
  BY StoreFields, AddrAssumption, TotalBounds, UIntFacts DEF Balances
<1>2. m <= MaxUint
  BY <1>1, StoreFields, UintAssumption DEF Wealth
<1>3. m \in UInt /\ Wrap(m) = m
  BY <1>1, <1>2, UIntFacts
<1>4. /\ IsStore(r)
      /\ SameEscrow(st, r) /\ SameBuffer(st, r)
      /\ r.bal = [st.bal EXCEPT ![a] = m]
  BY <1>3, Zenon DEF IsStore, SameEscrow, SameBuffer, account_addToEthBalance
<1>5. Total(r.bal) + st.bal[a] = Total(st.bal) + m
  BY <1>3, <1>4, StoreFields, AddrAssumption, TotalUpdate
<1>6. Total(r.bal) \in Nat /\ Total(r.escrow) = Total(st.escrow)
  BY <1>4, StoreFields DEF SameEscrow
<1> HIDE DEF r
<1>7. Wealth(r) = Wealth(st) + n
  BY <1>1, <1>5, <1>6, StoreFields DEF Wealth
<1> QED
  BY <1>4, <1>7 DEF r

\* Taking n wei out of an account, whatever is done with them.
LEMMA Deduct ==
  ASSUME NEW st, IsStore(st), NEW a \in Addr, NEW n \in UInt, st.bal[a] >= n
  PROVE  LET r == [st EXCEPT !.bal[a] = @ - n]
         IN  /\ IsStore(r)
             /\ SameEscrow(st, r) /\ SameBuffer(st, r)
             /\ Wealth(r) + n = Wealth(st)
<1> DEFINE r == [st EXCEPT !.bal[a] = @ - n]
           m == st.bal[a] - n
<1>1. st.bal[a] \in UInt
  BY StoreFields DEF Balances
<1>2. m \in UInt /\ st.bal[a] \in Nat /\ n \in Nat
  BY <1>1, UintAssumption DEF UInt
<1>3. /\ IsStore(r)
      /\ SameEscrow(st, r) /\ SameBuffer(st, r)
      /\ r.bal = [st.bal EXCEPT ![a] = m]
  BY <1>2, Zenon DEF IsStore, SameEscrow, SameBuffer
<1>4. Total(r.bal) + st.bal[a] = Total(st.bal) + m
  BY <1>2, <1>3, StoreFields, AddrAssumption, TotalUpdate
<1>5. Total(r.bal) \in Nat /\ Total(r.escrow) = Total(st.escrow)
  BY <1>3, StoreFields, Zenon DEF SameEscrow
<1> HIDE DEF r
<1>6. Wealth(r) + n = Wealth(st)
  BY <1>2, <1>4, <1>5, StoreFields DEF Wealth
<1> QED
  BY <1>3, <1>6 DEF r

\* accountStore_transferEthBalance moves wei and creates none.
LEMMA TransferStore ==
  ASSUME NEW st, IsStore(st), NEW from \in Addr, NEW to \in Addr,
         NEW n \in UInt, CanTransfer(st, from, n), Wealth(st) <= MaxUint
  PROVE  LET r == accountStore_transferEthBalance(st, from, to, n)
         IN  /\ IsStore(r)
             /\ SameEscrow(st, r) /\ SameBuffer(st, r)
             /\ Wealth(r) = Wealth(st)
<1> DEFINE r == accountStore_transferEthBalance(st, from, to, n)
           d == [st EXCEPT !.bal[from] = @ - n]
<1>1. CASE n = 0 \/ from = to
  BY <1>1 DEF accountStore_transferEthBalance, SameEscrow, SameBuffer
<1>2. CASE ~(n = 0 \/ from = to)
  <2>1. st.bal[from] >= n
    BY <1>2 DEF CanTransfer
  <2>2. /\ IsStore(d)
        /\ SameEscrow(st, d) /\ SameBuffer(st, d)
        /\ Wealth(d) + n = Wealth(st)
    BY <2>1, Deduct
  <2>3. r = account_addToEthBalance(d, to, n)
    BY <1>2 DEF accountStore_transferEthBalance
  <2> HIDE DEF d, r
  <2>4. Wealth(d) + n <= MaxUint
    BY <2>2
  <2>5. /\ IsStore(r)
        /\ SameEscrow(d, r) /\ SameBuffer(d, r)
        /\ Wealth(r) = Wealth(d) + n
    BY <2>2, <2>3, <2>4, AddToBalance, Zenon
  <2>6. SameEscrow(st, r) /\ SameBuffer(st, r)
    BY <2>2, <2>5 DEF SameEscrow, SameBuffer
  <2>7. Wealth(r) = Wealth(st)
    BY <2>2, <2>5
  <2> QED
    BY <2>5, <2>6, <2>7 DEF r
<1> QED
  BY <1>1, <1>2

\* accountStore_newEscrow moves wei to a key that was not in use.
LEMMA NewEscrowStore ==
  ASSUME NEW st, IsStore(st), NEW payer \in Addr, NEW n \in UInt, n # 0,
         st.bal[payer] >= n, st.nextKey <= MaxKey,
         st.escrow[st.nextKey] = 0
  PROVE  LET r == accountStore_newEscrow(st, payer, n)
         IN  /\ IsStore(r)
             /\ SameBuffer(st, r)
             /\ r.nextKey = st.nextKey + 1
             /\ r.escrow = [st.escrow EXCEPT ![st.nextKey] = n]
             /\ Wealth(r) = Wealth(st)
<1> DEFINE r == accountStore_newEscrow(st, payer, n)
           m == st.bal[payer] - n
           k == st.nextKey
<1>1. st.bal[payer] \in UInt /\ k \in EscrowKey /\ k + 1 \in 1 .. (MaxKey + 1)
  BY StoreFields, KeyAssumption DEF Balances, EscrowKey
<1>2. m \in UInt /\ st.bal[payer] \in Nat /\ n \in Nat
  BY <1>1, UintAssumption DEF UInt
<1>3. /\ IsStore(r)
      /\ SameBuffer(st, r)
      /\ r.nextKey = k + 1
      /\ r.escrow = [st.escrow EXCEPT ![k] = n]
      /\ r.bal = [st.bal EXCEPT ![payer] = m]
  BY <1>1, <1>2, Zenon DEF IsStore, SameBuffer, accountStore_newEscrow
<1>4. Total(r.bal) + st.bal[payer] = Total(st.bal) + m
  BY <1>2, <1>3, StoreFields, AddrAssumption, TotalUpdate
<1>5. Total(r.escrow) + st.escrow[k] = Total(st.escrow) + n
  BY <1>1, <1>3, StoreFields, KeysFinite, TotalUpdate
<1>6. Total(r.bal) \in Nat /\ Total(r.escrow) \in Nat
  BY <1>3, StoreFields
<1> HIDE DEF r
<1>7. Wealth(r) = Wealth(st)
  BY <1>2, <1>4, <1>5, <1>6, StoreFields DEF Wealth
<1> QED
  BY <1>3, <1>7 DEF r

\* accountStore_payFromEscrow moves wei from one key to one account.
LEMMA PayFromEscrowStore ==
  ASSUME NEW st, IsStore(st), NEW k \in EscrowKey, NEW to \in Addr,
         NEW n \in UInt, CanPayFromEscrow(st, k, n), Wealth(st) <= MaxUint
  PROVE  LET r == accountStore_payFromEscrow(st, k, to, n)
         IN  /\ IsStore(r)
             /\ SameBuffer(st, r)
             /\ r.nextKey = st.nextKey
             /\ r.escrow = [st.escrow EXCEPT ![k] = st.escrow[k] - n]
             /\ Wealth(r) = Wealth(st)
<1> DEFINE r == accountStore_payFromEscrow(st, k, to, n)
           e == st.escrow[k] - n
           m == st.bal[to] + n
<1>1. st.escrow[k] \in UInt /\ st.bal[to] \in UInt
  BY StoreFields DEF Balances
<1>2. e \in UInt /\ st.escrow[k] \in Nat /\ st.bal[to] \in Nat /\ n \in Nat
  BY <1>1, UintAssumption DEF UInt, CanPayFromEscrow
<1>3. st.bal[to] <= Total(st.bal) /\ st.escrow[k] <= Total(st.escrow)
  BY StoreFields, AddrAssumption, KeysFinite, TotalBounds
<1>4. m <= MaxUint
  BY <1>2, <1>3, StoreFields, UintAssumption DEF Wealth, CanPayFromEscrow
<1>5. m \in UInt /\ Wrap(m) = m
  BY <1>2, <1>4, UIntFacts
<1>6. /\ IsStore(r)
      /\ SameBuffer(st, r)
      /\ r.nextKey = st.nextKey
      /\ r.escrow = [st.escrow EXCEPT ![k] = e]
      /\ r.bal = [st.bal EXCEPT ![to] = m]
  BY <1>2, <1>5, Zenon DEF IsStore, SameBuffer, accountStore_payFromEscrow,
                    account_addToEthBalance
<1>7. Total(r.bal) + st.bal[to] = Total(st.bal) + m
  BY <1>5, <1>6, StoreFields, AddrAssumption, TotalUpdate
<1>8. Total(r.escrow) + st.escrow[k] = Total(st.escrow) + e
  BY <1>2, <1>6, StoreFields, KeysFinite, TotalUpdate
<1>9. Total(r.bal) \in Nat /\ Total(r.escrow) \in Nat
  BY <1>6, StoreFields
<1>10. Total(st.bal) \in Nat /\ Total(st.escrow) \in Nat
  BY StoreFields
<1> HIDE DEF r
<1>11. Wealth(r) = Wealth(st)
  BY <1>2, <1>7, <1>8, <1>9, <1>10 DEF Wealth
<1> QED
  BY <1>6, <1>11 DEF r

-----------------------------------------------------------------------------
(***************************************************************************)
(* How the buffer and the escrow change together.                          *)
(***************************************************************************)

\* Held and Queued look at the escrow and at the buffer only.
LEMMA HeldSame ==
  ASSUME NEW st, NEW r, NEW ub, SameEscrow(st, r), SameBuffer(st, r)
  PROVE  /\ Held(st, ub) => Held(r, ub)
         /\ Queued(st) => Queued(r)
  BY DEF SameEscrow, SameBuffer, Held, Queued, KeyOf, ValueOf

\* The types of the fields of a live ticket.
LEMMA TicketFields ==
  ASSUME NEW st, IsStore(st), NEW t \in DOMAIN st.byTxId
  PROVE  /\ KeyOf(st, t) \in EscrowKey
         /\ ValueOf(st, t) \in UInt
         /\ ValueOf(st, t) \in Nat
         /\ st.byTxId[t].expiryTime \in Nat
         /\ st.byTxId[t].beneficiary \in Addr
         /\ st.byTxId[t].destination \in Addr
         /\ t \in TxId
<1>1. st.byTxId[t] \in RetryableTx /\ t \in TxId
  BY DEF IsStore
<1> QED
  BY <1>1, UIntFacts, Zenon DEF KeyOf, ValueOf, RetryableTx

\* r is st without ticket t and without the wei under t's key.
Settled(st, t, r) ==
  /\ r.byTxId = [u \in DOMAIN st.byTxId \ {t} |-> st.byTxId[u]]
  /\ r.escrow = [st.escrow EXCEPT ![KeyOf(st, t)] = 0]
  /\ r.nextKey = st.nextKey

\* Settling one ticket leaves every other ticket's callvalue in escrow.
LEMMA HeldSettled ==
  ASSUME NEW st, IsStore(st), NEW ub, Held(st, ub),
         NEW t \in DOMAIN st.byTxId, NEW r, Settled(st, t, r)
  PROVE  Held(r, ub \ {t})
<1> DEFINE D == DOMAIN st.byTxId \ {t}
<1>1. st.escrow \in [EscrowKey -> UInt]
  BY DEF IsStore
<1>2. /\ DOMAIN r.byTxId = D
      /\ \A u \in D : KeyOf(r, u) = KeyOf(st, u) /\ ValueOf(r, u) = ValueOf(st, u)
  BY DEF Settled, KeyOf, ValueOf
<1>3. KeyOf(st, t) \in EscrowKey /\ \A u \in D : KeyOf(st, u) \in EscrowKey
  BY TicketFields
<1>4. \A k \in EscrowKey :
        r.escrow[k] = IF k = KeyOf(st, t) THEN 0 ELSE st.escrow[k]
  BY <1>1, <1>3 DEF Settled
<1>5. EscrowStoreID_txGas \in EscrowKey
  BY KeyAssumption DEF EscrowStoreID_txGas, EscrowKey
<1>6. /\ r.escrow[EscrowStoreID_txGas] = 0
      /\ \A k \in EscrowKey : k >= r.nextKey => r.escrow[k] = 0
  BY <1>4, <1>5 DEF Held, Settled
<1>7. ASSUME NEW u \in D
      PROVE  /\ KeyOf(r, u) < r.nextKey
             /\ KeyOf(r, u) = EscrowStoreID_txGas => ValueOf(r, u) = 0
             /\ r.escrow[KeyOf(r, u)] =
                  IF u \in ub \ {t} THEN 0 ELSE ValueOf(r, u)
  <2>1. KeyOf(st, u) = KeyOf(st, t) => KeyOf(st, u) = EscrowStoreID_txGas
    BY DEF Held
  <2> QED
    BY <1>2, <1>3, <1>4, <2>1 DEF Held, Settled
<1>8. \A u, v \in D : KeyOf(r, u) = KeyOf(r, v) /\ u # v
                        => KeyOf(r, u) = EscrowStoreID_txGas
  BY <1>2 DEF Held
<1>9. ASSUME NEW k \in EscrowKey, r.escrow[k] > 0
      PROVE  \E u \in D : KeyOf(r, u) = k
  <2>1. k # KeyOf(st, t) /\ st.escrow[k] > 0
    BY <1>4, <1>9
  <2> QED
    BY <1>2, <2>1 DEF Held
<1> HIDE DEF D
<1> QED
  BY <1>2, <1>6, <1>7, <1>8, <1>9 DEF Held

\* Deleting a ticket with a refund settles it, whether or not the escrow
\* could pay.
LEMMA DeleteRefund ==
  ASSUME NEW st, IsStore(st), NEW ub, Held(st, ub), Wealth(st) <= MaxUint,
         NEW t \in DOMAIN st.byTxId
  PROVE  LET r == retryBuffer_delete(st, t, TRUE)
         IN  /\ IsStore(r)
             /\ Settled(st, t, r)
             /\ r.fifo = st.fifo
             /\ Wealth(r) = Wealth(st)
<1> DEFINE d == [st EXCEPT !.byTxId = [u \in DOMAIN @ \ {t} |-> @[u]]]
           r == retryBuffer_delete(st, t, TRUE)
           rtx == st.byTxId[t]
<1>1. /\ IsStore(d)
      /\ SameEscrow(st, d)
      /\ d.fifo = st.fifo
      /\ d.byTxId = [u \in DOMAIN st.byTxId \ {t} |-> st.byTxId[u]]
      /\ d.bal = st.bal
  BY DEF IsStore, SameEscrow
<1>2. Wealth(d) = Wealth(st)
  BY <1>1 DEF Wealth, SameEscrow
<1>3. r = Refund(d, rtx)
  BY DEF retryBuffer_delete
<1>4. /\ rtx.callvalueEscrowKey = KeyOf(st, t)
      /\ rtx.callvalue = ValueOf(st, t)
      /\ KeyOf(st, t) \in EscrowKey
      /\ ValueOf(st, t) \in UInt
      /\ ValueOf(st, t) \in Nat
      /\ rtx.beneficiary \in Addr
  BY TicketFields DEF KeyOf, ValueOf
<1>5. /\ st.escrow[KeyOf(st, t)] \in {0, ValueOf(st, t)}
      /\ d.escrow = st.escrow
  BY <1>1 DEF Held, SameEscrow
<1> HIDE DEF d, r, rtx
<1>6. CASE CanPayFromEscrow(d, KeyOf(st, t), ValueOf(st, t))
  <2>1. r = accountStore_payFromEscrow(d, KeyOf(st, t), rtx.beneficiary,
                                       ValueOf(st, t))
    BY <1>3, <1>4, <1>6 DEF Refund
  <2>2. /\ IsStore(r)
        /\ SameBuffer(d, r)
        /\ r.nextKey = d.nextKey
        /\ r.escrow = [d.escrow EXCEPT ![KeyOf(st, t)] = @ - ValueOf(st, t)]
        /\ Wealth(r) = Wealth(d)
    BY <1>1, <1>2, <1>4, <1>6, <2>1, PayFromEscrowStore
  <2>3. ValueOf(st, t) \in Nat /\ st.escrow[KeyOf(st, t)] \in Nat
    BY <1>4, <1>5
  <2>4. st.escrow[KeyOf(st, t)] = ValueOf(st, t)
    BY <1>5, <1>6, <2>3 DEF CanPayFromEscrow
  <2>5. st.escrow[KeyOf(st, t)] - ValueOf(st, t) = 0
    BY <2>3, <2>4
  <2>6. r.escrow = [st.escrow EXCEPT ![KeyOf(st, t)] = 0]
    BY <1>5, <2>2, <2>5
  <2> QED
    BY <1>1, <1>2, <2>2, <2>6, Zenon DEF Settled, SameBuffer, SameEscrow, r
<1>7. CASE ~CanPayFromEscrow(d, KeyOf(st, t), ValueOf(st, t))
  <2>1. r = d
    BY <1>3, <1>4, <1>7 DEF Refund
  <2>2. st.escrow[KeyOf(st, t)] = 0
    BY <1>4, <1>5, <1>7 DEF CanPayFromEscrow
  <2>3. st.escrow \in [EscrowKey -> UInt]
    BY DEF IsStore
  <2>4. st.escrow = [st.escrow EXCEPT ![KeyOf(st, t)] = 0]
    BY <1>4, <2>2, <2>3
  <2> QED
    BY <1>1, <1>2, <2>1, <2>4, Zenon DEF Settled, SameEscrow, r
<1> QED
  BY <1>6, <1>7, Zenon

-----------------------------------------------------------------------------

\* A queue item that is not the head survives popping the head.
LEMMA TailKeeps ==
  ASSUME NEW S, NEW q \in Seq(S), q # << >>, NEW i \in DOMAIN q, q[i] # Head(q)
  PROVE  \E j \in DOMAIN Tail(q) : Tail(q)[j] = q[i]
<1>1. i \in 1 .. Len(q) /\ i # 1
  OBVIOUS
<1>2. i - 1 \in DOMAIN Tail(q) /\ Tail(q)[i - 1] = q[i]
  BY <1>1
<1> QED
  BY <1>2

\* A store whose escrow, tickets and queue fit, that holds w wei.
Good(st, ub, w) ==
  /\ IsStore(st)
  /\ Held(st, ub)
  /\ Queued(st)
  /\ ub \subseteq DOMAIN st.byTxId
  /\ Wealth(st) = w

\* r is st after some tickets were removed and paid out.
Trimmed(st, r) ==
  /\ DOMAIN r.byTxId \subseteq DOMAIN st.byTxId
  /\ \A t \in DOMAIN r.byTxId : r.byTxId[t] = st.byTxId[t]
  /\ \A t \in DOMAIN st.byTxId \ DOMAIN r.byTxId : r.escrow[KeyOf(st, t)] = 0
  /\ \A k \in EscrowKey : r.escrow[k] \in {0, st.escrow[k]}
  /\ r.nextKey = st.nextKey

\* Settling a ticket (retryBuffer_delete with a refund) is a case of trimming.
LEMMA SettledTrimmed ==
  ASSUME NEW st, IsStore(st), NEW t \in DOMAIN st.byTxId, NEW r,
         Settled(st, t, r)
  PROVE  /\ Trimmed(st, r)
         /\ DOMAIN r.byTxId = DOMAIN st.byTxId \ {t}
<1>1. st.escrow \in [EscrowKey -> UInt] /\ KeyOf(st, t) \in EscrowKey
  BY TicketFields DEF IsStore
<1> QED
  BY <1>1 DEF Settled, Trimmed

\* Taking the head off the queue changes neither tickets nor wei.
LEMMA PopFifo ==
  ASSUME NEW st, IsStore(st), st.fifo # << >>
  PROVE  LET r == [st EXCEPT !.fifo = Tail(@)]
         IN  /\ IsStore(r)
             /\ r.fifo = Tail(st.fifo)
             /\ r.byTxId = st.byTxId
             /\ SameEscrow(st, r)
             /\ Wealth(r) = Wealth(st)
<1> DEFINE r == [st EXCEPT !.fifo = Tail(@)]
<1>1. Tail(st.fifo) \in Seq(RetryQueueItem)
  BY DEF IsStore
<1>2. /\ IsStore(r)
      /\ r.fifo = Tail(st.fifo)
      /\ r.byTxId = st.byTxId
      /\ r.bal = st.bal
      /\ SameEscrow(st, r)
  BY <1>1, Zenon DEF IsStore, SameEscrow
<1> QED
  BY <1>2 DEF Wealth, SameEscrow

\* retryBuffer_trimOne: whether or not the head's ticket is removed, the
\* other tickets and what is held for them stay as they are.
LEMMA TrimHeadGood ==
  ASSUME NEW st, NEW ub, NEW w \in 0 .. MaxUint, Good(st, ub, w),
         NEW time \in Nat, CanTrim(st, time)
  PROVE  LET r == TrimHead(st, time)
         IN  Good(r, ub \cap DOMAIN r.byTxId, w) /\ Trimmed(st, r)
<1> DEFINE t == Head(st.fifo).txId
           d == IF st.byTxId[t].expiryTime < time
                  THEN retryBuffer_delete(st, t, TRUE)
                  ELSE st
           p == [d EXCEPT !.fifo = Tail(@)]
           r == TrimHead(st, time)
<1>0. r = p
  BY DEF TrimHead
<1>1. /\ IsStore(st) /\ Held(st, ub) /\ Queued(st)
      /\ ub \subseteq DOMAIN st.byTxId
      /\ Wealth(st) = w
      /\ Wealth(st) <= MaxUint
      /\ t \in DOMAIN st.byTxId
      /\ st.fifo # << >>
      /\ Head(st.fifo).checkTime < time
      /\ st.fifo \in Seq(RetryQueueItem)
  BY UintAssumption DEF Good, CanTrim, IsStore
<1>2. /\ st.byTxId[t].expiryTime \in Nat
      /\ Head(st.fifo) \in RetryQueueItem
      /\ Head(st.fifo).checkTime \in Nat
  <2>1. Head(st.fifo) \in RetryQueueItem
    BY <1>1
  <2> QED
    BY <1>1, <2>1, TicketFields DEF RetryQueueItem
<1>3. ASSUME NEW u \in DOMAIN st.byTxId,
             u # t \/ ~(st.byTxId[t].expiryTime < time)
      PROVE  \E j \in DOMAIN Tail(st.fifo) :
               Tail(st.fifo)[j] = [txId |-> u, checkTime |-> st.byTxId[u].expiryTime]
  <2>1. PICK i \in DOMAIN st.fifo :
          st.fifo[i] = [txId |-> u, checkTime |-> st.byTxId[u].expiryTime]
    BY <1>1 DEF Queued
  <2>2. st.fifo[i] # Head(st.fifo)
    <3>1. SUFFICES ASSUME st.fifo[i] = Head(st.fifo) PROVE FALSE
      OBVIOUS
    <3>2. u = t /\ st.byTxId[t].expiryTime = Head(st.fifo).checkTime
      BY <2>1, <3>1
    <3> QED
      BY <1>1, <1>2, <1>3, <3>2
  <2> HIDE DEF t
  <2> QED
    BY <1>1, <2>1, <2>2, TailKeeps
<1>4. /\ IsStore(d)
      /\ d.fifo = st.fifo
      /\ Wealth(d) = w
      /\ Held(d, ub \cap DOMAIN d.byTxId)
      /\ Trimmed(st, d)
      /\ \A u \in DOMAIN d.byTxId :
           u # t \/ ~(st.byTxId[t].expiryTime < time)
  <2>1. CASE st.byTxId[t].expiryTime < time
    <3>1. d = retryBuffer_delete(st, t, TRUE)
      BY <2>1
    <3> HIDE DEF d, t
    <3>2. /\ IsStore(d) /\ Settled(st, t, d) /\ d.fifo = st.fifo
          /\ Wealth(d) = Wealth(st)
      BY <1>1, <3>1, DeleteRefund, ZenonT(30)
    <3>3. Held(d, ub \ {t})
      BY <1>1, <3>2, HeldSettled
    <3>4. Trimmed(st, d) /\ DOMAIN d.byTxId = DOMAIN st.byTxId \ {t}
      BY <1>1, <3>2, SettledTrimmed
    <3>5. ub \ {t} = ub \cap DOMAIN d.byTxId
      BY <1>1, <3>4
    <3> QED
      BY <1>1, <3>2, <3>3, <3>4, <3>5, ZenonT(30)
  <2>2. CASE ~(st.byTxId[t].expiryTime < time)
    <3>1. d = st
      BY <2>2
    <3>2. ub = ub \cap DOMAIN st.byTxId
      BY <1>1
    <3>3. Trimmed(st, st)
      BY DEF Trimmed
    <3> HIDE DEF d
    <3> QED
      BY <1>1, <2>2, <3>1, <3>2, <3>3, ZenonT(30)
  <2> QED
    BY <2>1, <2>2, ZenonT(30)
<1> HIDE DEF d, t
<1>5. /\ IsStore(p)
      /\ p.fifo = Tail(st.fifo)
      /\ p.byTxId = d.byTxId
      /\ SameEscrow(d, p)
      /\ Wealth(p) = w
  BY <1>1, <1>4, PopFifo, Zenon
<1> HIDE DEF p
<1>6. Held(p, ub \cap DOMAIN p.byTxId)
  BY <1>4, <1>5 DEF Held, SameEscrow, KeyOf, ValueOf
<1>7. Trimmed(st, p)
  BY <1>4, <1>5, Zenon DEF Trimmed, SameEscrow
<1>8. Queued(p)
  BY <1>3, <1>4, <1>5, <1>7 DEF Queued, Trimmed
<1> QED
  BY <1>0, <1>5, <1>6, <1>7, <1>8 DEF Good

\* retryBuffer_trimOne keeps the store good, whether or not it finds an item.
LEMMA TrimOneGood ==
  ASSUME NEW st, NEW ub, NEW w \in 0 .. MaxUint, Good(st, ub, w),
         NEW time \in Nat
  PROVE  LET r == retryBuffer_trimOne(st, time)
         IN  Good(r, ub \cap DOMAIN r.byTxId, w) /\ Trimmed(st, r)
<1>1. CASE CanTrim(st, time)
  BY <1>1, TrimHeadGood DEF retryBuffer_trimOne
<1>2. CASE ~CanTrim(st, time)
  <2>1. ub = ub \cap DOMAIN st.byTxId
    BY DEF Good
  <2>2. Trimmed(st, st)
    BY DEF Trimmed
  <2> QED
    BY <1>2, <2>1, <2>2 DEF retryBuffer_trimOne
<1> QED
  BY <1>1, <1>2, ZenonT(30)

\* retryBuffer_trimTwo.
LEMMA TrimTwoGood ==
  ASSUME NEW st, NEW ub, NEW w \in 0 .. MaxUint, Good(st, ub, w),
         NEW time \in Nat
  PROVE  LET r == retryBuffer_trimTwo(st, time)
         IN  Good(r, ub \cap DOMAIN r.byTxId, w) /\ Trimmed(st, r)
<1> DEFINE q == retryBuffer_trimOne(st, time)
           r == retryBuffer_trimOne(q, time)
           ub1 == ub \cap DOMAIN q.byTxId
<1>1. Good(q, ub1, w) /\ Trimmed(st, q)
  BY TrimOneGood
<1>2. retryBuffer_trimTwo(st, time) = r
  BY DEF retryBuffer_trimTwo
<1> HIDE DEF q
<1>3. Good(r, ub1 \cap DOMAIN r.byTxId, w) /\ Trimmed(q, r)
  BY <1>1, TrimOneGood
<1> HIDE DEF r
<1>4. ub1 \cap DOMAIN r.byTxId = ub \cap DOMAIN r.byTxId
  BY <1>3 DEF Trimmed
<1>5. Trimmed(st, r)
  <2>1. \A t \in DOMAIN st.byTxId : KeyOf(st, t) \in EscrowKey
    BY TicketFields DEF Good
  <2>2. \A t \in DOMAIN q.byTxId : KeyOf(q, t) = KeyOf(st, t)
    BY <1>1 DEF Trimmed, KeyOf
  <2>3. ASSUME NEW t \in DOMAIN st.byTxId \ DOMAIN r.byTxId
        PROVE  r.escrow[KeyOf(st, t)] = 0
    BY <1>1, <1>3, <2>1, <2>2 DEF Trimmed
  <2>4. \A k \in EscrowKey : r.escrow[k] \in {0, st.escrow[k]}
    BY <1>1, <1>3 DEF Trimmed
  <2> QED
    BY <1>1, <1>3, <2>3, <2>4 DEF Trimmed
<1> QED
  BY <1>2, <1>3, <1>4, <1>5

\* The tickets that have not aged out.
Unexpired(st, time) == {t \in DOMAIN st.byTxId : st.byTxId[t].expiryTime >= time}

\* retryBuffer_trimOne removes no ticket that has not aged out, although the
\* item it finds may be of an earlier life of the ticket.
LEMMA TrimOneKeeps ==
  ASSUME NEW st, NEW ub, NEW w \in 0 .. MaxUint, Good(st, ub, w),
         NEW time \in Nat
  PROVE  Unexpired(st, time) \subseteq DOMAIN retryBuffer_trimOne(st, time).byTxId
<1> DEFINE t == Head(st.fifo).txId
           d == retryBuffer_delete(st, t, TRUE)
<1>1. /\ IsStore(st) /\ Held(st, ub)
      /\ Wealth(st) <= MaxUint
  BY UintAssumption DEF Good
<1>2. CASE ~CanTrim(st, time)
  BY <1>2 DEF retryBuffer_trimOne, Unexpired
<1>3. CASE CanTrim(st, time) /\ ~(st.byTxId[t].expiryTime < time)
  <2>1. retryBuffer_trimOne(st, time) = [st EXCEPT !.fifo = Tail(@)]
    BY <1>3 DEF retryBuffer_trimOne, TrimHead
  <2>2. retryBuffer_trimOne(st, time).byTxId = st.byTxId
    BY <1>1, <1>3, <2>1, PopFifo DEF CanTrim
  <2> QED
    BY <2>2 DEF Unexpired
<1>4. CASE CanTrim(st, time) /\ st.byTxId[t].expiryTime < time
  <2>1. t \in DOMAIN st.byTxId /\ st.fifo # << >>
    BY <1>4 DEF CanTrim
  <2>2. st.byTxId[t].expiryTime \in Nat
    BY <1>1, <2>1, TicketFields
  <2>3. IsStore(d) /\ Settled(st, t, d) /\ d.fifo = st.fifo
    BY <1>1, <2>1, DeleteRefund, Zenon
  <2>4. retryBuffer_trimOne(st, time) = [d EXCEPT !.fifo = Tail(@)]
    BY <1>4 DEF retryBuffer_trimOne, TrimHead
  <2> HIDE DEF d
  <2>5. retryBuffer_trimOne(st, time).byTxId = d.byTxId
    BY <2>1, <2>3, <2>4, PopFifo
  <2>6. DOMAIN d.byTxId = DOMAIN st.byTxId \ {t}
    BY <1>1, <2>1, <2>3, SettledTrimmed
  <2>7. t \notin Unexpired(st, time)
    BY <1>4, <2>2 DEF Unexpired
  <2> QED
    BY <2>5, <2>6, <2>7 DEF Unexpired
<1> QED
  BY <1>2, <1>3, <1>4

\* retryBuffer_trimTwo neither.
LEMMA TrimKeeps ==
  ASSUME NEW st, NEW ub, NEW w \in 0 .. MaxUint, Good(st, ub, w),
         NEW time \in Nat
  PROVE  Unexpired(st, time) \subseteq DOMAIN retryBuffer_trimTwo(st, time).byTxId
<1> DEFINE q == retryBuffer_trimOne(st, time)
<1>1. Good(q, ub \cap DOMAIN q.byTxId, w) /\ Trimmed(st, q)
  BY TrimOneGood
<1>2. Unexpired(st, time) \subseteq DOMAIN q.byTxId
  BY TrimOneKeeps
<1>3. retryBuffer_trimTwo(st, time) = retryBuffer_trimOne(q, time)
  BY DEF retryBuffer_trimTwo
<1> HIDE DEF q
<1>4. Unexpired(q, time) \subseteq DOMAIN retryBuffer_trimOne(q, time).byTxId
  BY <1>1, TrimOneKeeps
<1>5. Unexpired(st, time) \subseteq Unexpired(q, time)
  BY <1>1, <1>2 DEF Unexpired, Trimmed
<1> QED
  BY <1>3, <1>4, <1>5

\* Changing balances alone, as deposits and gas payments do.
LEMMA BalancesGood ==
  ASSUME NEW st, NEW ub, NEW w, Good(st, ub, w),
         NEW r, IsStore(r), SameEscrow(st, r), SameBuffer(st, r)
  PROVE  Good(r, ub, Wealth(r))
<1>1. Held(r, ub) /\ Queued(r)
  BY HeldSame DEF Good
<1> QED
  BY <1>1 DEF Good, SameBuffer

\* retryBuffer_insert keeps the items that are queued and queues the new one.
LEMMA InsertStore ==
  ASSUME NEW st, IsStore(st), Queued(st), NEW t \in TxId,
         NEW rtx \in RetryableTx
  PROVE  LET r == retryBuffer_insert(st, t, rtx)
         IN  /\ IsStore(r)
             /\ SameEscrow(st, r)
             /\ r.byTxId = [u \in DOMAIN st.byTxId \cup {t} |->
                              IF u = t THEN rtx ELSE st.byTxId[u]]
             /\ Queued(r)
             /\ Wealth(r) = Wealth(st)
<1> DEFINE r == retryBuffer_insert(st, t, rtx)
           x == [txId |-> t, checkTime |-> rtx.expiryTime]
<1>1. x \in RetryQueueItem /\ st.fifo \in Seq(RetryQueueItem)
  BY DEF RetryQueueItem, RetryableTx, IsStore
<1>2. /\ r.byTxId = [u \in DOMAIN st.byTxId \cup {t} |->
                       IF u = t THEN rtx ELSE st.byTxId[u]]
      /\ r.fifo = Append(st.fifo, x)
      /\ r.bal = st.bal
      /\ SameEscrow(st, r)
  BY DEF IsStore, retryBuffer_insert, SameEscrow
<1>3. IsStore(r)
  <2>1. Append(st.fifo, x) \in Seq(RetryQueueItem)
    BY <1>1
  <2>2. [u \in DOMAIN st.byTxId \cup {t} |->
          IF u = t THEN rtx ELSE st.byTxId[u]]
            \in [DOMAIN st.byTxId \cup {t} -> RetryableTx]
    BY DEF IsStore
  <2> QED
    BY <2>1, <2>2, Zenon DEF IsStore, retryBuffer_insert
<1> HIDE DEF r, x
<1>4. Wealth(r) = Wealth(st)
  BY <1>2 DEF Wealth, SameEscrow
<1>5. ASSUME NEW i \in DOMAIN st.fifo
      PROVE  i \in DOMAIN r.fifo /\ r.fifo[i] = st.fifo[i]
  BY <1>1, <1>2
<1>6. \E i \in DOMAIN r.fifo : r.fifo[i] = x
  <2>1. Len(st.fifo) + 1 \in DOMAIN r.fifo /\ r.fifo[Len(st.fifo) + 1] = x
    BY <1>1, <1>2
  <2> QED
    BY <2>1
<1>7. Queued(r)
  <2>1. SUFFICES ASSUME NEW u \in DOMAIN r.byTxId
                 PROVE  \E i \in DOMAIN r.fifo : r.fifo[i] =
                          [txId |-> u, checkTime |-> r.byTxId[u].expiryTime]
    BY DEF Queued
  <2>2. CASE u = t
    BY <1>2, <1>6, <2>2 DEF x
  <2>3. CASE u # t
    <3>1. u \in DOMAIN st.byTxId /\ r.byTxId[u] = st.byTxId[u]
      BY <1>2, <2>3
    <3>2. PICK i \in DOMAIN st.fifo : st.fifo[i] =
                 [txId |-> u, checkTime |-> st.byTxId[u].expiryTime]
      BY <3>1 DEF Queued
    <3> QED
      BY <1>5, <3>1, <3>2
  <2> QED
    BY <2>2, <2>3
<1> QED
  BY <1>2, <1>3, <1>4, <1>7 DEF r

\* retryBuffer_keepalive: the ticket's key and callvalue do not change.
LEMMA KeepaliveGood ==
  ASSUME NEW st, NEW ub, NEW w, Good(st, ub, w), NEW t \in DOMAIN st.byTxId,
         NEW e \in Nat
  PROVE  LET r == retryBuffer_insert(st, t, [st.byTxId[t] EXCEPT !.expiryTime = e])
         IN  /\ Good(r, ub, w)
             /\ DOMAIN r.byTxId = DOMAIN st.byTxId
<1> DEFINE x == [st.byTxId[t] EXCEPT !.expiryTime = e]
           r == retryBuffer_insert(st, t, x)
<1>1. st.byTxId[t] \in RetryableTx /\ t \in TxId
  BY DEF Good, IsStore
<1>2. /\ x \in RetryableTx
      /\ x.callvalueEscrowKey = KeyOf(st, t)
      /\ x.callvalue = ValueOf(st, t)
  BY <1>1 DEF RetryableTx, KeyOf, ValueOf
<1> HIDE DEF x
<1>3. /\ IsStore(r)
      /\ SameEscrow(st, r)
      /\ r.byTxId = [u \in DOMAIN st.byTxId \cup {t} |->
                       IF u = t THEN x ELSE st.byTxId[u]]
      /\ Queued(r)
      /\ Wealth(r) = Wealth(st)
  BY <1>1, <1>2, InsertStore, ZenonT(30) DEF Good
<1> HIDE DEF r
<1>4. /\ DOMAIN r.byTxId = DOMAIN st.byTxId
      /\ \A u \in DOMAIN st.byTxId : /\ KeyOf(r, u) = KeyOf(st, u)
                                     /\ ValueOf(r, u) = ValueOf(st, u)
  BY <1>2, <1>3, ZenonT(30) DEF KeyOf, ValueOf
<1>5. Held(r, ub)
  BY <1>3, <1>4 DEF Good, Held, SameEscrow
<1> QED
  BY <1>3, <1>4, <1>5 DEF Good, r, x

\* retryBuffer_delete without refund and the payout of redeemRetryableTxInTx.
LEMMA RedeemGood ==
  ASSUME NEW st, NEW ub, NEW w \in 0 .. MaxUint, Good(st, ub, w),
         NEW t \in DOMAIN st.byTxId,
         CanPayFromEscrow(st, KeyOf(st, t), ValueOf(st, t))
  PROVE  LET r == accountStore_payFromEscrow(retryBuffer_delete(st, t, FALSE),
                    KeyOf(st, t), st.byTxId[t].destination, ValueOf(st, t))
         IN  /\ Good(r, ub \cap DOMAIN r.byTxId, w)
             /\ DOMAIN r.byTxId = DOMAIN st.byTxId \ {t}
<1> DEFINE d == retryBuffer_delete(st, t, FALSE)
           k == KeyOf(st, t)
           v == ValueOf(st, t)
           to == st.byTxId[t].destination
           r == accountStore_payFromEscrow(d, k, to, v)
<1>1. /\ IsStore(st) /\ Held(st, ub) /\ Queued(st)
      /\ ub \subseteq DOMAIN st.byTxId
      /\ Wealth(st) = w
      /\ w <= MaxUint
  BY UintAssumption DEF Good
<1>2. /\ IsStore(d)
      /\ SameEscrow(st, d)
      /\ d.fifo = st.fifo
      /\ d.byTxId = [u \in DOMAIN st.byTxId \ {t} |-> st.byTxId[u]]
      /\ d.bal = st.bal
  BY <1>1 DEF IsStore, SameEscrow, retryBuffer_delete
<1> HIDE DEF d
<1>3. Wealth(d) = w
  BY <1>1, <1>2 DEF Wealth, SameEscrow
<1>4. k \in EscrowKey /\ v \in UInt /\ v \in Nat /\ to \in Addr
  BY <1>1, TicketFields, Zenon
<1>5. st.escrow[k] \in {0, v} /\ CanPayFromEscrow(st, k, v)
  BY <1>1, Zenon DEF Held
<1> HIDE DEF k, v, to
<1>6. d.escrow[k] \in {0, v} /\ CanPayFromEscrow(d, k, v)
  BY <1>2, <1>5 DEF CanPayFromEscrow, SameEscrow
<1>7. d.escrow[k] - v = 0
  BY <1>4, <1>6, SMTT(30) DEF CanPayFromEscrow
<1>8. /\ IsStore(r)
      /\ SameBuffer(d, r)
      /\ r.nextKey = d.nextKey
      /\ r.escrow = [d.escrow EXCEPT ![k] = d.escrow[k] - v]
      /\ Wealth(r) = Wealth(d)
  BY <1>1, <1>2, <1>3, <1>4, <1>6, PayFromEscrowStore
<1> HIDE DEF r
<1>9. Settled(st, t, r)
  BY <1>2, <1>7, <1>8, Zenon DEF Settled, SameBuffer, SameEscrow, k
<1>10. Held(r, ub \ {t})
  BY <1>1, <1>9, HeldSettled
<1>11. DOMAIN r.byTxId = DOMAIN st.byTxId \ {t}
  BY <1>1, <1>9, SettledTrimmed, ZenonT(30)
<1>12. ub \ {t} = ub \cap DOMAIN r.byTxId
  BY <1>1, <1>11
<1>13. Queued(r)
  BY <1>1, <1>2, <1>8 DEF Queued, SameBuffer
<1> QED
  BY <1>3, <1>8, <1>10, <1>11, <1>12, <1>13, Zenon DEF Good, r, d, k, v, to

\* retryBuffer_delete with refund, the cancel call.
LEMMA CancelGood ==
  ASSUME NEW st, NEW ub, NEW w \in 0 .. MaxUint, Good(st, ub, w),
         NEW t \in DOMAIN st.byTxId
  PROVE  LET r == retryBuffer_delete(st, t, TRUE)
         IN  /\ Good(r, ub \cap DOMAIN r.byTxId, w)
             /\ DOMAIN r.byTxId = DOMAIN st.byTxId \ {t}
<1> DEFINE r == retryBuffer_delete(st, t, TRUE)
<1>1. /\ IsStore(st) /\ Held(st, ub) /\ Queued(st)
      /\ ub \subseteq DOMAIN st.byTxId
      /\ Wealth(st) = w
      /\ Wealth(st) <= MaxUint
  BY UintAssumption DEF Good
<1>2. /\ IsStore(r) /\ Settled(st, t, r) /\ r.fifo = st.fifo
      /\ Wealth(r) = Wealth(st)
  BY <1>1, DeleteRefund, ZenonT(30)
<1> HIDE DEF r
<1>3. Held(r, ub \ {t})
  BY <1>1, <1>2, HeldSettled
<1>4. DOMAIN r.byTxId = DOMAIN st.byTxId \ {t}
  BY <1>1, <1>2, SettledTrimmed
<1>5. ub \ {t} = ub \cap DOMAIN r.byTxId
  BY <1>1, <1>4
<1>6. Queued(r)
  BY <1>1, <1>2 DEF Queued, Settled
<1> QED
  BY <1>1, <1>2, <1>3, <1>4, <1>5, <1>6, ZenonT(30) DEF Good, r

-----------------------------------------------------------------------------
(***************************************************************************)
(* The invariant IInv of retryable transactions in the terms of the lemmas *)
(* about stores, the proofs that a rejected and a dropped submission       *)
(* preserve it, and the escrow of one that is accepted.                    *)
(***************************************************************************)

\* e is c after v wei were put under key k, a fresh key unless v is 0.
Escrows(c, e, k, v) ==
  /\ IsStore(e)
  /\ SameBuffer(c, e)
  /\ \/ /\ k = EscrowStoreID_txGas
        /\ v = 0
        /\ SameEscrow(c, e)
     \/ /\ k = c.nextKey
        /\ e.nextKey = c.nextKey + 1
        /\ e.escrow = [c.escrow EXCEPT ![k] = v]

\* retryBuffer_insertNew, after the callvalue was put in escrow.
LEMMA InsertGood ==
  ASSUME NEW c, NEW ub, NEW w, Good(c, ub, w), NEW e, NEW k \in EscrowKey,
         NEW v \in UInt, Escrows(c, e, k, v), Wealth(e) = w,
         NEW t \in TxId, t \notin DOMAIN c.byTxId, NEW rtx \in RetryableTx,
         rtx.callvalueEscrowKey = k, rtx.callvalue = v
  PROVE  LET r == retryBuffer_insert(e, t, rtx)
         IN  /\ Good(r, ub, w)
             /\ DOMAIN r.byTxId = DOMAIN c.byTxId \cup {t}
<1> DEFINE r == retryBuffer_insert(e, t, rtx)
           D == DOMAIN c.byTxId
<1>1. /\ IsStore(c) /\ Held(c, ub) /\ Queued(c)
      /\ ub \subseteq D
      /\ c.escrow \in [EscrowKey -> UInt]
      /\ c.nextKey \in Nat \ {0}
  BY StoreFields DEF Good, IsStore
<1>2. IsStore(e) /\ Queued(e)
  <2>1. IsStore(e) /\ SameBuffer(c, e)
    BY DEF Escrows
  <2>2. Queued(c)
    BY DEF Good
  <2>3. Queued(e)
    BY <2>1, <2>2, SMTT(60) DEF Queued, SameBuffer
  <2> QED
    BY <2>1, <2>3
<1>3. /\ IsStore(r)
      /\ SameEscrow(e, r)
      /\ r.byTxId = [u \in D \cup {t} |-> IF u = t THEN rtx ELSE c.byTxId[u]]
      /\ Queued(r)
      /\ Wealth(r) = w
  <2>1. e.byTxId = c.byTxId
    BY DEF Escrows, SameBuffer
  <2> QED
    BY <1>2, <2>1, InsertStore
<1> HIDE DEF r
<1>4. /\ DOMAIN r.byTxId = D \cup {t}
      /\ KeyOf(r, t) = k /\ ValueOf(r, t) = v
      /\ \A u \in D : KeyOf(r, u) = KeyOf(c, u) /\ ValueOf(r, u) = ValueOf(c, u)
  BY <1>3 DEF KeyOf, ValueOf
<1>5. \A u \in D : KeyOf(c, u) \in EscrowKey /\ KeyOf(c, u) < c.nextKey
  BY <1>1, TicketFields DEF Held
<1>6. EscrowKey \subseteq Nat /\ v \in Nat
  BY UIntFacts DEF EscrowKey
<1>7. Held(r, ub)
  <2>1. CASE k = EscrowStoreID_txGas /\ v = 0 /\ SameEscrow(c, e)
    <3>1. r.escrow = c.escrow /\ r.nextKey = c.nextKey
      BY <1>3, <2>1 DEF SameEscrow
    <3>2. k < c.nextKey
      <4>1. c.nextKey \in Nat \ {0} /\ k = 0
        BY <1>1, <2>1 DEF EscrowStoreID_txGas
      <4> QED
        BY <4>1, SMTT(60)
    <3> QED
      BY <1>1, <1>4, <2>1, <3>1, <3>2, SMTT(60) DEF Held
  <2>2. CASE /\ k = c.nextKey
             /\ e.nextKey = c.nextKey + 1
             /\ e.escrow = [c.escrow EXCEPT ![k] = v]
    <3>1. /\ r.nextKey = c.nextKey + 1
          /\ \A j \in EscrowKey : r.escrow[j] = IF j = k THEN v ELSE c.escrow[j]
      BY <1>1, <1>3, <2>2 DEF SameEscrow
    <3>2. k # EscrowStoreID_txGas /\ EscrowStoreID_txGas \in EscrowKey
      BY <1>1, <2>2, KeyAssumption DEF EscrowStoreID_txGas, EscrowKey
    <3>3. \A u \in D : KeyOf(c, u) # k /\ KeyOf(c, u) < r.nextKey
      BY <1>1, <1>5, <1>6, <2>2, <3>1
    <3>4. /\ r.escrow[EscrowStoreID_txGas] = 0
          /\ \A j \in EscrowKey : j >= r.nextKey => r.escrow[j] = 0
      <4>1. \A j \in EscrowKey : j >= r.nextKey => j # k /\ j >= c.nextKey
        BY <1>1, <1>6, <2>2, <3>1
      <4> QED
        BY <1>1, <3>1, <3>2, <4>1 DEF Held
    <3>5. \A u \in D : c.escrow[KeyOf(c, u)] = IF u \in ub THEN 0 ELSE ValueOf(c, u)
      BY <1>1 DEF Held
    <3>6. \A u \in D : r.escrow[KeyOf(r, u)] = IF u \in ub THEN 0 ELSE ValueOf(r, u)
      BY <1>4, <1>5, <3>1, <3>3, <3>5
    <3>7. ASSUME NEW u \in DOMAIN r.byTxId
          PROVE  /\ KeyOf(r, u) < r.nextKey
                 /\ KeyOf(r, u) = EscrowStoreID_txGas => ValueOf(r, u) = 0
                 /\ r.escrow[KeyOf(r, u)] = IF u \in ub THEN 0 ELSE ValueOf(r, u)
      <4>1. CASE u = t
        BY <1>1, <1>4, <1>6, <2>2, <3>1, <3>2, <4>1, SMTT(30)
      <4>2. CASE u # t
        BY <1>1, <1>4, <3>3, <3>6, <4>2 DEF Held
      <4> QED
        BY <4>1, <4>2
    <3>8. \A u, x \in DOMAIN r.byTxId :
            KeyOf(r, u) = KeyOf(r, x) /\ u # x => KeyOf(r, u) = EscrowStoreID_txGas
      BY <1>1, <1>4, <3>3 DEF Held
    <3>9. \A j \in EscrowKey :
            r.escrow[j] > 0 => \E u \in DOMAIN r.byTxId : KeyOf(r, u) = j
      BY <1>1, <1>4, <3>1 DEF Held
    <3> QED
      BY <3>4, <3>7, <3>8, <3>9 DEF Held
  <2> QED
    BY <2>1, <2>2 DEF Escrows
<1>8. ub \subseteq DOMAIN r.byTxId
  BY <1>1, <1>4
<1> QED
  BY <1>3, <1>4, <1>7, <1>8 DEF Good, r

\* Wrapped sums are words; one that is no smaller than a summand did not wrap.
LEMMA WrapFacts ==
  /\ \A n \in Nat : Wrap(n) \in UInt
  /\ \A a, b \in UInt : Wrap(a + b) >= b => Wrap(a + b) = a + b
<1>1. \A n \in Nat : Wrap(n) \in UInt
  BY UintAssumption DEF Wrap, UInt
<1>2. ASSUME NEW a \in UInt, NEW b \in UInt, Wrap(a + b) >= b
      PROVE  Wrap(a + b) = a + b
  <2>1. a \in Nat /\ b \in Nat /\ a <= MaxUint /\ b <= MaxUint /\ MaxUint \in Nat
    BY UintAssumption DEF UInt
  <2>2. CASE a + b <= MaxUint
    BY <2>1, <2>2, UIntFacts
  <2>3. CASE ~(a + b <= MaxUint)
    <3> DEFINE m == MaxUint + 1
               n == a + b - m
    <3>1. n \in Nat /\ n < m /\ n < b
      BY <2>1, <2>3
    <3>2. (n + m) % m = n
      BY <2>1, <3>1
    <3>3. Wrap(a + b) = n
      <4>1. a + b = n + m
        BY <2>1
      <4> HIDE DEF n
      <4> QED
        BY <3>2, <4>1 DEF Wrap
    <3> HIDE DEF n
    <3> QED
      BY <1>2, <2>1, <3>1, <3>3
  <2> QED
    BY <2>2, <2>3
<1> QED
  BY <1>1, <1>2

\* The wei that the store ought to hold.
due == deposited - dropped

\* The step removes no ticket that has not aged out.
Survive == Unexpired(store, now) \subseteq DOMAIN store'.byTxId

\* The invariant in the terms of the lemmas above.
LEMMA IInvFacts ==
  ASSUME IInv
  PROVE  /\ Good(store, unbacked, due)
         /\ due \in 0 .. MaxUint
         /\ deposited \in Nat /\ dropped \in Nat /\ due \in Nat
         /\ now \in Nat /\ lifetime \in Nat
         /\ \A t \in DOMAIN store.byTxId : t < nextTicket
<1>1. /\ IsStore(store) /\ Held(store, unbacked) /\ Queued(store)
      /\ unbacked \subseteq DOMAIN store.byTxId
      /\ Wealth(store) + dropped = deposited
      /\ deposited \in 0 .. MaxSupply
      /\ dropped \in Nat
      /\ now \in Nat /\ lifetime \in Lifetimes
      /\ \A t \in DOMAIN store.byTxId : t < nextTicket
  BY DEF IInv, TypeOK, Conservation
<1>2. Wealth(store) \in Nat
  BY <1>1, StoreFields
<1>3. MaxSupply \in Nat /\ MaxSupply <= MaxUint /\ MaxUint \in Nat
  BY SupplyAssumption, UintAssumption DEF UInt
<1>4. /\ Wealth(store) = due
      /\ due \in 0 .. MaxUint
      /\ deposited \in Nat
      /\ due \in Nat
  BY <1>1, <1>2, <1>3 DEF due
<1> QED
  BY <1>1, <1>4, TimeAssumption DEF Good

\* What a step must establish for the inductive invariant to hold after it.
LEMMA IInvNext ==
  ASSUME Good(store', unbacked', due'),
         lifetime' \in Lifetimes,
         now' \in Nat,
         nextTicket' \in 1 .. (MaxTicket + 1),
         autoRedeem' \in SUBSET [txId : TxId, gasPayer : Addr, maxGas : UInt,
                                 gasPrice : UInt, transferred : UInt],
         deposited' \in 0 .. MaxSupply,
         dropped' \in Nat,
         \A t \in DOMAIN store'.byTxId : t < nextTicket'
  PROVE  IInv'
<1>1. /\ IsStore(store') /\ Held(store', unbacked') /\ Queued(store')
      /\ unbacked' \subseteq DOMAIN store'.byTxId
      /\ Wealth(store') = deposited' - dropped'
  BY DEF Good, due
<1>2. unbacked' \subseteq TxId
  BY <1>1 DEF IsStore
<1>3. Wealth(store') + dropped' = deposited'
  <2>1. Wealth(store') \in Nat
    BY <1>1, StoreFields, Zenon
  <2>2. deposited' \in Nat
    BY SupplyAssumption DEF UInt
  <2>3. \A x, y, z \in Nat : x = y - z => x + z = y
    OBVIOUS
  <2> QED
    BY <1>1, <2>1, <2>2, <2>3, ZenonT(30)
<1>4. TypeOK'
  BY <1>1, <1>2 DEF TypeOK
<1>5. Conservation'
  BY <1>3 DEF Conservation
<1> QED
  BY <1>1, <1>4, <1>5 DEF IInv

\* A transaction that commits its frame.
LEMMA CommitStep ==
  ASSUME IInv, NEW st, Good(st, unbacked \cap DOMAIN st.byTxId, due),
         DOMAIN st.byTxId \subseteq DOMAIN store.byTxId,
         Commit(st), autoRedeem' = autoRedeem \/ autoRedeem' = {}
  PROVE  IInv'
<1>1. /\ store' = st
      /\ unbacked' = unbacked \cap DOMAIN st.byTxId
      /\ lifetime' = lifetime /\ now' = now /\ nextTicket' = nextTicket
      /\ deposited' = deposited /\ dropped' = dropped
  BY DEF Commit
<1>2. due' = due
  BY <1>1 DEF due
<1>3. Good(store', unbacked', due')
  BY <1>1, <1>2
<1>4. \A t \in DOMAIN store'.byTxId : t < nextTicket'
  BY <1>1, IInvFacts
<1>5. /\ lifetime' \in Lifetimes
      /\ now' \in Nat
      /\ nextTicket' \in 1 .. (MaxTicket + 1)
      /\ autoRedeem' \in SUBSET [txId : TxId, gasPayer : Addr, maxGas : UInt,
                                 gasPrice : UInt, transferred : UInt]
      /\ deposited' \in 0 .. MaxSupply
      /\ dropped' \in Nat
  BY <1>1 DEF IInv, TypeOK
<1> QED
  BY <1>3, <1>4, <1>5, IInvNext

\* Gas payments do not touch the tickets or the escrow.
LEMMA PayGasGood ==
  ASSUME IInv, NEW payer \in Addr, NEW g \in GasCosts,
         CanTransfer(store, payer, g)
  PROVE  /\ Good(PayGas(payer, g), unbacked, due)
         /\ PayGas(payer, g).byTxId = store.byTxId
<1> DEFINE r == PayGas(payer, g)
<1>1. g \in UInt /\ NetFee \in Addr
  BY AmountsAssumption, PartiesAssumption
<1>2. IsStore(store) /\ Wealth(store) = due /\ Wealth(store) <= MaxUint
  BY IInvFacts, UintAssumption DEF Good
<1>3. IsStore(r) /\ SameEscrow(store, r) /\ SameBuffer(store, r)
      /\ Wealth(r) = Wealth(store)
  BY <1>1, <1>2, TransferStore DEF PayGas
<1> HIDE DEF r
<1>4. Good(store, unbacked, due)
  BY IInvFacts
<1>5. Good(r, unbacked, Wealth(r))
  BY <1>3, <1>4, BalancesGood
<1> QED
  BY <1>2, <1>3, <1>5 DEF SameBuffer, r

\* Redeeming a ticket (redeemRetryableTxInTx) keeps the store good.
LEMMA RedeemedGood ==
  ASSUME IInv, NEW st, Good(st, unbacked, due), st.byTxId = store.byTxId,
         NEW t, CanRedeem(st, t)
  PROVE  LET r == Redeemed(st, t)
         IN  /\ Good(r, unbacked \cap DOMAIN r.byTxId, due)
             /\ DOMAIN r.byTxId \subseteq DOMAIN store.byTxId
             /\ Unexpired(store, now) \ {t} \subseteq DOMAIN r.byTxId
<1> DEFINE q == retryBuffer_trimTwo(st, now)
           r == Redeemed(st, t)
<1>1. due \in 0 .. MaxUint /\ now \in Nat
  BY IInvFacts
<1>2. Good(q, unbacked \cap DOMAIN q.byTxId, due) /\ Trimmed(st, q)
  BY <1>1, TrimTwoGood
<1>3. /\ t \in DOMAIN q.byTxId
      /\ CanPayFromEscrow(q, KeyOf(q, t), ValueOf(q, t))
      /\ r = accountStore_payFromEscrow(retryBuffer_delete(q, t, FALSE),
               KeyOf(q, t), q.byTxId[t].destination, ValueOf(q, t))
  BY DEF CanRedeem, Redeemed, KeyOf, ValueOf
<1> HIDE DEF q, r
<1>4. /\ Good(r, (unbacked \cap DOMAIN q.byTxId) \cap DOMAIN r.byTxId, due)
      /\ DOMAIN r.byTxId = DOMAIN q.byTxId \ {t}
  BY <1>1, <1>2, <1>3, RedeemGood, Zenon
<1>5. /\ DOMAIN q.byTxId \subseteq DOMAIN store.byTxId
      /\ Unexpired(store, now) \subseteq DOMAIN q.byTxId
  BY <1>1, <1>2, TrimKeeps DEF Trimmed, Unexpired, q
<1>6. (unbacked \cap DOMAIN q.byTxId) \cap DOMAIN r.byTxId
        = unbacked \cap DOMAIN r.byTxId
  BY <1>4
<1> QED
  BY <1>4, <1>5, <1>6 DEF r

\* Extending a ticket (retryBuffer_keepalive) keeps the store good.
LEMMA KeptAliveGood ==
  ASSUME IInv, NEW st, Good(st, unbacked, due), st.byTxId = store.byTxId,
         NEW t, CanKeepalive(st, t)
  PROVE  LET r == KeptAlive(st, t)
         IN  /\ Good(r, unbacked \cap DOMAIN r.byTxId, due)
             /\ DOMAIN r.byTxId \subseteq DOMAIN store.byTxId
             /\ Unexpired(store, now) \subseteq DOMAIN r.byTxId
<1> DEFINE q == retryBuffer_trimTwo(st, now)
           r == KeptAlive(st, t)
           e == q.byTxId[t].expiryTime + lifetime
<1>1. due \in 0 .. MaxUint /\ now \in Nat /\ lifetime \in Nat
  BY IInvFacts
<1>2. Good(q, unbacked \cap DOMAIN q.byTxId, due) /\ Trimmed(st, q)
  BY <1>1, TrimTwoGood
<1>3. /\ t \in DOMAIN q.byTxId
      /\ r = retryBuffer_insert(q, t, [q.byTxId[t] EXCEPT !.expiryTime = e])
  BY DEF CanKeepalive, KeptAlive
<1> HIDE DEF q, r
<1>4. e \in Nat
  BY <1>1, <1>2, <1>3, TicketFields DEF Good
<1> HIDE DEF e
<1>5. /\ Good(r, unbacked \cap DOMAIN q.byTxId, due)
      /\ DOMAIN r.byTxId = DOMAIN q.byTxId
  BY <1>2, <1>3, <1>4, KeepaliveGood
<1>6. Unexpired(store, now) \subseteq DOMAIN q.byTxId
  BY <1>1, TrimKeeps DEF Unexpired, q
<1> QED
  BY <1>2, <1>5, <1>6 DEF Trimmed, r

\* The state after a submission trimmed the buffer and credited the deposit.
LEMMA CreditedGood ==
  ASSUME IInv, NEW r \in Request, deposited + r.deposit <= MaxSupply
  PROVE  LET c == Credited(r)
         IN  /\ Good(c, unbacked \cap DOMAIN c.byTxId, due + r.deposit)
             /\ DOMAIN c.byTxId \subseteq DOMAIN store.byTxId
             /\ Unexpired(store, now) \subseteq DOMAIN c.byTxId
             /\ c.nextKey = store.nextKey
             /\ due + r.deposit \in 0 .. MaxUint
             /\ deposited + r.deposit \in 0 .. MaxSupply
<1> DEFINE q == retryBuffer_trimTwo(store, now)
           c == Credited(r)
           n == r.deposit
<1>1. /\ Good(store, unbacked, due)
      /\ due \in 0 .. MaxUint /\ due \in Nat
      /\ deposited \in Nat /\ dropped \in Nat /\ now \in Nat
  BY IInvFacts
<1>2. Good(q, unbacked \cap DOMAIN q.byTxId, due) /\ Trimmed(store, q)
  BY <1>1, TrimTwoGood
<1>3. n \in UInt /\ r.sender \in Addr
  BY AmountsAssumption, PartiesAssumption DEF Request
<1>4. /\ n \in Nat
      /\ MaxSupply \in Nat /\ MaxSupply <= MaxUint /\ MaxUint \in Nat
  BY <1>3, SupplyAssumption, UintAssumption DEF UInt
<1>5. c = account_addToEthBalance(q, r.sender, n)
  BY DEF Credited
<1> HIDE DEF q, c, n
<1>6. /\ due + n <= MaxUint
      /\ due + n \in 0 .. MaxUint
      /\ deposited + n \in 0 .. MaxSupply
  BY <1>1, <1>4 DEF due, n
<1>7. IsStore(q) /\ Wealth(q) + n <= MaxUint /\ Wealth(q) = due
  BY <1>2, <1>6 DEF Good
<1>8. /\ IsStore(c)
      /\ SameEscrow(q, c) /\ SameBuffer(q, c)
      /\ Wealth(c) = due + n
  BY <1>3, <1>5, <1>7, AddToBalance, Zenon
<1>9. Good(c, unbacked \cap DOMAIN q.byTxId, Wealth(c))
  BY <1>2, <1>8, BalancesGood
<1>10. Unexpired(store, now) \subseteq DOMAIN q.byTxId
  BY <1>1, TrimKeeps DEF q
<1> QED
  BY <1>2, <1>6, <1>8, <1>9, <1>10 DEF SameBuffer, SameEscrow, Trimmed, c, n

\* processRetryableTx turning a submission down.
LEMMA SubmitRejectedStep ==
  ASSUME IInv, NEW r \in Request, NEW fee \in Fees, SubmitRejected(r, fee)
  PROVE  IInv' /\ Survive
<1> DEFINE c == Credited(r)
<1>1. /\ deposited + r.deposit <= MaxSupply
      /\ deposited' = deposited + r.deposit
      /\ store' = c
      /\ unbacked' = unbacked \cap DOMAIN c.byTxId
      /\ lifetime' = lifetime /\ now' = now /\ nextTicket' = nextTicket
      /\ autoRedeem' = autoRedeem /\ dropped' = dropped
  BY DEF SubmitRejected, DepositArrives
<1>2. /\ Good(c, unbacked \cap DOMAIN c.byTxId, due + r.deposit)
      /\ DOMAIN c.byTxId \subseteq DOMAIN store.byTxId
      /\ Unexpired(store, now) \subseteq DOMAIN c.byTxId
      /\ deposited + r.deposit \in 0 .. MaxSupply
  BY <1>1, CreditedGood, Zenon
<1> HIDE DEF c
<1>3. due' = due + r.deposit
  <2>1. r.deposit \in Nat
    BY AmountsAssumption, UIntFacts, Zenon DEF Request
  <2> QED
    BY <1>1, <2>1, IInvFacts DEF due
<1>4. \A t \in DOMAIN store'.byTxId : t < nextTicket'
  BY <1>1, <1>2, IInvFacts
<1>5. /\ lifetime' \in Lifetimes
      /\ now' \in Nat
      /\ nextTicket' \in 1 .. (MaxTicket + 1)
      /\ autoRedeem' \in SUBSET [txId : TxId, gasPayer : Addr, maxGas : UInt,
                                 gasPrice : UInt, transferred : UInt]
      /\ deposited' \in 0 .. MaxSupply
      /\ dropped' \in Nat
  BY <1>1, <1>2 DEF IInv, TypeOK
<1>6. Survive
  BY <1>1, <1>2 DEF Survive
<1> QED
  BY <1>1, <1>2, <1>3, <1>4, <1>5, <1>6, IInvNext

-----------------------------------------------------------------------------

\* A dropped submission: the tickets that were trimmed are back, unbacked.
LEMMA SubmitDroppedStep ==
  ASSUME IInv, NEW r \in Request, NEW fee \in Fees, SubmitDropped(r, fee)
  PROVE  IInv' /\ Survive
<1> DEFINE q == retryBuffer_trimTwo(store, now)
           s == [q EXCEPT !.byTxId = store.byTxId, !.fifo = store.fifo]
           D == DOMAIN store.byTxId
           ub == unbacked \cup (D \ DOMAIN q.byTxId)
<1>1. /\ deposited + r.deposit <= MaxSupply
      /\ deposited' = deposited + r.deposit
      /\ store' = s
      /\ unbacked' = ub
      /\ dropped' = dropped + r.deposit
      /\ lifetime' = lifetime /\ now' = now /\ nextTicket' = nextTicket
      /\ autoRedeem' = autoRedeem
  BY DEF SubmitDropped, Holdable, DepositArrives
<1>2. /\ Good(store, unbacked, due)
      /\ due \in 0 .. MaxUint /\ due \in Nat
      /\ deposited \in Nat /\ dropped \in Nat /\ now \in Nat
      /\ \A t \in D : t < nextTicket
  BY IInvFacts
<1>3. Good(q, unbacked \cap DOMAIN q.byTxId, due) /\ Trimmed(store, q)
  BY <1>2, TrimTwoGood
<1>4. r.deposit \in Nat /\ deposited + r.deposit \in 0 .. MaxSupply
  <2>1. r.deposit \in Nat
    BY AmountsAssumption, UIntFacts, Zenon DEF Request
  <2>2. MaxSupply \in Nat
    BY SupplyAssumption, UintAssumption DEF UInt
  <2> QED
    BY <1>1, <1>2, <2>1, <2>2
<1> HIDE DEF q
<1>5. /\ IsStore(s)
      /\ SameEscrow(q, s) /\ SameBuffer(store, s)
      /\ s.bal = q.bal
  BY <1>2, <1>3, ZenonT(30) DEF Good, IsStore, SameEscrow, SameBuffer
<1> HIDE DEF s
<1>6. Wealth(s) = due
  BY <1>3, <1>5 DEF Good, Wealth, SameEscrow
<1>7. /\ \A t \in D : /\ KeyOf(s, t) = KeyOf(store, t)
                      /\ ValueOf(s, t) = ValueOf(store, t)
      /\ \A t \in DOMAIN q.byTxId : /\ KeyOf(q, t) = KeyOf(store, t)
                                    /\ ValueOf(q, t) = ValueOf(store, t)
      /\ DOMAIN s.byTxId = D
      /\ DOMAIN q.byTxId \subseteq D
      /\ s.escrow = q.escrow
      /\ s.nextKey = store.nextKey
      /\ q.nextKey = store.nextKey
  BY <1>3, <1>5 DEF SameBuffer, SameEscrow, Trimmed, KeyOf, ValueOf
<1>8. Held(s, ub)
  <2>1. /\ s.escrow[EscrowStoreID_txGas] = 0
        /\ \A k \in EscrowKey : k >= s.nextKey => s.escrow[k] = 0
        /\ \A k \in EscrowKey :
             s.escrow[k] > 0 => \E t \in DOMAIN q.byTxId : KeyOf(q, t) = k
    BY <1>3, <1>7 DEF Good, Held
  <2>2. ASSUME NEW t \in D
        PROVE  s.escrow[KeyOf(store, t)] = IF t \in ub THEN 0 ELSE ValueOf(store, t)
    <3>1. CASE t \in DOMAIN q.byTxId
      <4>1. t \in ub <=> t \in unbacked \cap DOMAIN q.byTxId
        BY <3>1
      <4> QED
        BY <1>3, <1>7, <3>1, <4>1, ZenonT(30) DEF Good, Held
    <3>2. CASE t \notin DOMAIN q.byTxId
      BY <1>3, <1>7, <3>2, SMTT(30) DEF Trimmed
    <3> QED
      BY <3>1, <3>2
  <2>3. \A t \in D : /\ KeyOf(store, t) < store.nextKey
                     /\ KeyOf(store, t) = EscrowStoreID_txGas
                          => ValueOf(store, t) = 0
    BY <1>2 DEF Good, Held
  <2>4. \A t, u \in D : KeyOf(store, t) = KeyOf(store, u) /\ t # u
                          => KeyOf(store, t) = EscrowStoreID_txGas
    BY <1>2, SMTT(30) DEF Good, Held
  <2> HIDE DEF ub, D
  <2> QED
    BY <1>7, <2>1, <2>2, <2>3, <2>4, SMTT(30) DEF Held
<1>9. Queued(s) /\ ub \subseteq DOMAIN s.byTxId
  BY <1>2, <1>5, <1>7, SMTT(30) DEF Good, Queued, SameBuffer
<1>10. due' = due
  BY <1>1, <1>2, <1>4 DEF due
<1>11. Good(store', unbacked', due')
  BY <1>1, <1>5, <1>6, <1>8, <1>9, <1>10, SMTT(30) DEF Good
<1>12. \A t \in DOMAIN store'.byTxId : t < nextTicket'
  BY <1>1, <1>2, <1>7, SMTT(30)
<1>13. /\ lifetime' \in Lifetimes
       /\ now' \in Nat
       /\ nextTicket' \in 1 .. (MaxTicket + 1)
       /\ autoRedeem' \in SUBSET [txId : TxId, gasPayer : Addr, maxGas : UInt,
                                  gasPrice : UInt, transferred : UInt]
       /\ deposited' \in 0 .. MaxSupply
       /\ dropped' \in Nat
  BY <1>1, <1>2, <1>4, SMTT(30) DEF IInv, TypeOK
<1>14. Survive
  BY <1>1, <1>7, SMTT(30) DEF Survive, Unexpired
<1> QED
  BY <1>11, <1>12, <1>13, <1>14, IInvNext

\* accountStore_newEscrow, whether or not there is anything to hold.
LEMMA NewEscrowGood ==
  ASSUME NEW c, NEW ub, NEW w \in 0 .. MaxUint, Good(c, ub, w),
         c.nextKey <= MaxKey, NEW from \in Addr, NEW n \in UInt,
         CanNewEscrow(c, from, n)
  PROVE  LET e == accountStore_newEscrow(c, from, n)
             k == newEscrowKey(c, n)
         IN  /\ Escrows(c, e, k, n)
             /\ k \in EscrowKey
             /\ e.escrow[k] = n
             /\ Wealth(e) = w
<1> DEFINE e == accountStore_newEscrow(c, from, n)
           k == newEscrowKey(c, n)
<1>1. IsStore(c) /\ Held(c, ub) /\ Wealth(c) = w
  BY DEF Good
<1>2. c.escrow \in [EscrowKey -> UInt] /\ c.nextKey \in Nat
  BY <1>1, StoreFields DEF IsStore
<1>3. c.nextKey \in EscrowKey /\ EscrowStoreID_txGas \in EscrowKey
  BY <1>2, KeyAssumption DEF EscrowKey, EscrowStoreID_txGas
<1>4. c.escrow[EscrowStoreID_txGas] = 0 /\ c.escrow[c.nextKey] = 0
  BY <1>1, <1>2, <1>3, SMTT(30) DEF Held
<1>5. CASE n = 0
  <2>1. k = EscrowStoreID_txGas /\ e = c
    BY <1>5, SMTT(30) DEF newEscrowKey, accountStore_newEscrow
  <2> QED
    BY <1>1, <1>3, <1>4, <1>5, <2>1 DEF Escrows, SameBuffer, SameEscrow
<1>6. CASE n # 0
  <2>1. k = c.nextKey /\ c.bal[from] >= n
    BY <1>6 DEF newEscrowKey, CanNewEscrow
  <2>2. /\ IsStore(e) /\ SameBuffer(c, e)
        /\ e.nextKey = c.nextKey + 1
        /\ e.escrow = [c.escrow EXCEPT ![c.nextKey] = n]
        /\ Wealth(e) = Wealth(c)
    BY <1>1, <1>4, <1>6, <2>1, NewEscrowStore, SMTT(30)
  <2> HIDE DEF e, k
  <2> QED
    BY <1>1, <1>2, <1>3, <2>1, <2>2 DEF Escrows, e, k
<1> QED
  BY <1>5, <1>6

\* A payment out of a new escrow leaves an escrow of what is left of it.
LEMMA PayFromNewEscrow ==
  ASSUME NEW c, IsStore(c), NEW e, NEW k \in EscrowKey, NEW n \in UInt,
         Escrows(c, e, k, n), e.escrow[k] = n, Wealth(e) <= MaxUint,
         NEW to \in Addr, NEW m \in UInt, CanPayFromEscrow(e, k, m)
  PROVE  LET f == accountStore_payFromEscrow(e, k, to, m)
         IN  /\ Escrows(c, f, k, n - m)
             /\ f.escrow[k] = n - m
             /\ n - m \in UInt
             /\ m <= n
             /\ Wealth(f) = Wealth(e)
<1> DEFINE f == accountStore_payFromEscrow(e, k, to, m)
<1>1. IsStore(e) /\ SameBuffer(c, e)
  BY DEF Escrows
<1>2. /\ IsStore(f) /\ SameBuffer(e, f)
      /\ f.nextKey = e.nextKey
      /\ f.escrow = [e.escrow EXCEPT ![k] = n - m]
      /\ Wealth(f) = Wealth(e)
  BY <1>1, PayFromEscrowStore
<1> HIDE DEF f
<1>3. e.escrow \in [EscrowKey -> UInt] /\ c.escrow \in [EscrowKey -> UInt]
  BY <1>1 DEF IsStore
<1>4. n - m \in UInt /\ m <= n /\ (n = 0 => n - m = 0)
  BY UintAssumption DEF CanPayFromEscrow, UInt
<1>5. SameBuffer(c, f)
  BY <1>1, <1>2 DEF SameBuffer
<1>6. f.escrow[k] = n - m
  BY <1>2, <1>3, SMTT(30)
<1>7. CASE k = EscrowStoreID_txGas /\ n = 0 /\ SameEscrow(c, e)
  <2>1. f.escrow = c.escrow
    BY <1>2, <1>3, <1>4, <1>7, SMTT(30) DEF SameEscrow
  <2>2. n - m = 0 /\ SameEscrow(c, f)
    BY <1>2, <1>4, <1>7, <2>1, Zenon DEF SameEscrow
  <2>3. Escrows(c, f, k, n - m)
    BY <1>2, <1>5, <1>7, <2>2, Zenon DEF Escrows
  <2> QED
    BY <1>2, <1>4, <1>6, <2>3, Zenon DEF f
<1>8. CASE /\ k = c.nextKey
           /\ e.nextKey = c.nextKey + 1
           /\ e.escrow = [c.escrow EXCEPT ![k] = n]
  <2>1. f.escrow = [c.escrow EXCEPT ![k] = n - m]
    BY <1>2, <1>3, <1>8
  <2>2. Escrows(c, f, k, n - m)
    BY <1>2, <1>5, <1>8, <2>1, Zenon DEF Escrows
  <2> QED
    BY <1>2, <1>4, <1>6, <2>2, Zenon DEF f
<1> QED
  BY <1>7, <1>8 DEF Escrows
=============================================================================
