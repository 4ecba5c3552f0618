---------------------------- MODULE EvmCallStack ----------------------------
(***************************************************************************)
(* The execution of transactions on the EVM call stack                     *)
(* (arb_os/evmCallStack.mini, arb_os/evmOps.mini, processL2Request of      *)
(* arb_os/messages.mini): `store` is globalAccountStore, `stack` is        *)
(* globalCallStack with the running frame last.                            *)
(*                                                                         *)
(* A step starts a transaction, runs one EVM instruction that touches      *)
(* accounts, or returns from a call.  EVM code is arbitrary: any frame may *)
(* take any of these steps and may fail at any time, be it a REVERT, an    *)
(* error or the end of its gas.  An instruction that a static frame must   *)
(* not execute reverts it, so it is one more way to fail.  Gas is kept     *)
(* only as the wei held for it, the part used, and whether the gas         *)
(* register charges the transaction; amounts are module GasAccounting's.   *)
(***************************************************************************)
EXTENDS CallFrames

CONSTANTS Callers,       \* accounts that send transactions
          Targets,       \* accounts that are called or inherit
          NewAddr,       \* addresses a creation may hash to
          Precompile,    \* the account of ArbOS's own contracts
          NetFee,        \* the NetworkFeeRecipient chain parameter
          ReserveFund,   \* getAddressForReserveFundsDeposit()
          Values,        \* callvalues
          Holds,         \* wei held for a transaction's maximal gas
          Mutability,    \* values of the request field nonMutating
          MaxTx,         \* bound: transactions
          MaxOps,        \* bound: EVM instructions, over all transactions
          MaxDepth,      \* bound: call frames
          InitStore      \* the store to start from

VARIABLES store,      \* globalAccountStore
          stack,      \* globalCallStack, innermost frame last
          tx,         \* globalCurrentTxRequest and its gas state
          charging,   \* the gas register charges the transaction
          outbox,     \* the callvalues of the messages sent to L1
          storage,    \* arbStats.storage
          receipts,   \* receipts emitted, not counting inner ones
          unsettled,  \* history: wei held for transactions that never settled
          txs, ops    \* transactions and instructions so far

vars == <<store, stack, tx, charging, outbox, storage, receipts, unsettled, txs, ops>>

NoTx == [payer |-> NetFee, hold |-> 0, ctor |-> FALSE, nonMut |-> FALSE]

Init == /\ store = InitStore
        /\ stack = <<>>
        /\ tx = NoTx
        /\ charging = FALSE
        /\ outbox = <<>>
        /\ storage = StorageSize(InitStore)
        /\ receipts = 0
        /\ unsettled = InitStore.escrow[EscrowStoreID_txGas]
        /\ txs = 0
        /\ ops = 0

Top == stack[Len(stack)]
WithTop(f) == [stack EXCEPT ![Len(stack)] = f]

(***************************************************************************)
(* Starting a transaction.                                                 *)
(***************************************************************************)
Arrives == /\ stack = <<>>
           /\ txs < MaxTx
           /\ txs' = txs + 1
           /\ UNCHANGED <<outbox, storage, ops>>

\* Mutant: a rejection without a receipt.
Rejected_silent(st) == /\ store' = st
                       /\ UNCHANGED <<stack, tx, charging, receipts, unsettled>>

\* A transaction that ends before any code runs, with a receipt.
Rejected(st) == /\ store' = st
                /\ receipts' = receipts + 1
                /\ UNCHANGED <<stack, tx, charging, unsettled>>

\* The payer cannot cover the gas: all that is held for gas, and that may be
\* more than this payer's, goes to the network.
NoGasFunds(held) ==
  /\ store' = accountStore_payFullyFromEscrow(held, EscrowStoreID_txGas, NetFee)
  /\ receipts' = receipts + 1
  /\ unsettled' = 0
  /\ UNCHANGED <<stack, tx, charging>>

Starts(st, f, request) == /\ store' = st
                          /\ stack' = <<f>>
                          /\ tx' = request
                          /\ charging' = TRUE
                          /\ UNCHANGED <<receipts, unsettled>>

\* Mutant: the unused part is not refunded.
Settle_unrefunded(st, payer, hold, used) ==
  accountStore_payFromEscrow(st, EscrowStoreID_txGas, NetFee, used)

\* deferredPayments_apply on what endTxCharges returns: the used part of the
\* wei held pays fees, the rest is refunded.
Settle(st, payer, hold, used) ==
  IF ~CanPayFromEscrow(st, EscrowStoreID_txGas, hold) THEN st
  ELSE accountStore_payFromEscrow(
         accountStore_payFromEscrow(st, EscrowStoreID_txGas, NetFee, used),
         EscrowStoreID_txGas, payer, hold - used)

Signed(st, c, signed) == IF signed THEN account_incrSeqNum(st, c) ELSE st

\* The sequence number is not the expected one, or the constructor call is
\* non-mutating.
WrongSeqNum == Arrives /\ Rejected(store)

\* initEvmCallStack, contract at the callee.
ContractTx(c, a, n, hold, signed, nonMut) ==
  LET held == accountStore_addToEscrowUpToMax(store, EscrowStoreID_txGas, c, hold)
      counted == Signed(held, c, signed)
  IN  /\ Arrives
      /\ store.code[a]
      /\ \/ Rejected(store)       \* belowMinimumTxGas
         \/ store.bal[c] < hold /\ NoGasFunds(held)
         \/ /\ store.bal[c] >= hold
            /\ ~CanTransfer(counted, c, n)
            /\ \E used \in 0 .. hold : Rejected(Settle(counted, c, hold, used))
         \/ /\ store.bal[c] >= hold
            /\ CanTransfer(counted, c, n)
            /\ Starts(counted,
                      TopFrame(a, accountStore_transferEthBalance(counted, c, a, n), n),
                      [payer |-> c, hold |-> hold, ctor |-> FALSE, nonMut |-> nonMut])

\* initEvmCallStack, no contract at the callee.
TransferTx(c, a, n, signed, nonMut) ==
  LET counted == Signed(store, c, signed)
  IN  /\ Arrives
      /\ ~store.code[a]
      /\ Rejected(IF CanTransfer(counted, c, n) /\ ~nonMut
                    THEN accountStore_transferEthBalance(counted, c, a, n)
                    ELSE counted)

\* The constructor branch of processL2Request, and
\* initEvmCallStackForConstructor.
ConstructorTx(c, a, n, hold, signed) ==
  LET fetched == Signed(store, c, ~signed)
      counted == account_incrSeqNum(fetched, c)
      paid == accountStore_transferEthBalance(counted, c, a, n)
      held == accountStore_addToEscrowUpToMax(paid, EscrowStoreID_txGas, c, hold)
  IN  /\ Arrives
      /\ \/ store.code[a] /\ Rejected(fetched)
         \/ ~store.code[a] /\ ~CanTransfer(counted, c, n) /\ Rejected(counted)
         \/ /\ ~store.code[a] /\ CanTransfer(counted, c, n)
            /\ Rejected(counted)   \* belowMinimumTxGas or noGasFunds
         \/ /\ ~store.code[a] /\ CanTransfer(counted, c, n)
            /\ paid.bal[c] >= hold
            /\ Starts(held,
                      TopFrame(a, accountStore_set(held, a,
                                    account_setContractInfo(
                                      accountStore_get(held, a), 0)), n),
                      [payer |-> c, hold |-> hold, ctor |-> TRUE, nonMut |-> FALSE])

(***************************************************************************)
(* Running EVM code.                                                       *)
(***************************************************************************)
Executes == /\ stack # <<>>
            /\ Top.then = Running
            /\ UNCHANGED txs

Instruction == Executes /\ ops < MaxOps /\ ops' = ops + 1

StaysInTx == UNCHANGED <<store, tx, outbox, storage, receipts, unsettled>>

\* Code of user contracts, and code of ArbOS's own contracts.
UserCode == Instruction /\ Top.codeFrom # Precompile
ArbOSCode == Instruction /\ Top.codeFrom = Precompile

evmOp_sstore(v) ==
  /\ UserCode
  /\ ~Top.static
  /\ stack' = WithTop(evmCallStack_setTopFrameStorageCell(Top, v))
  /\ UNCHANGED charging /\ StaysInTx

evmOp_log == /\ UserCode
             /\ ~Top.static
             /\ stack' = WithTop([Top EXCEPT !.logs = @ + 1])
             /\ UNCHANGED charging /\ StaysInTx

\* Mutant: the message is queued and its callvalue is not deducted.
arbsys_sendTxToL1_free ==
  /\ ArbOSCode
  /\ ~Top.static
  /\ Top.acct.bal >= Top.callvalue
  /\ stack' = WithTop([evmCallStack_setTopFrameStorageCell(Top, 1)
                         EXCEPT !.sends = Append(@, Top.callvalue),
                                !.logs = @ + 1, !.then = Resume("sent", NoKey)])
  /\ UNCHANGED charging /\ StaysInTx

\* arbsys_withdrawEth and arbsys_sendTxToL1: the callvalue leaves the account
\* that runs, the message is queued, the number of messages sent is kept in
\* storage.  The call returns next.
arbsys_sendTxToL1 ==
  LET paid == [Top EXCEPT !.acct.bal = @ - Top.callvalue]
  IN  /\ ArbOSCode
      /\ ~Top.static
      /\ Top.acct.bal >= Top.callvalue
      /\ stack' = WithTop([evmCallStack_setTopFrameStorageCell(paid, 1)
                             EXCEPT !.sends = Append(@, Top.callvalue),
                                    !.logs = @ + 1, !.then = Resume("sent", NoKey)])
      /\ UNCHANGED charging /\ StaysInTx

\* What the suspended frame f does once its subcall is over.
Continue(f, then, success) ==
  LET g == [f EXCEPT !.then = Running]
      new == evmCallStack_getAccount(g, then.a)
  IN  CASE then.k = "evm" -> g
        [] then.k = "create" /\ success ->
             [evmCallStack_setAccount(WithStore(g, View(g)), then.a,
                                      account_setContractInfo(new, new.cell))
                EXCEPT !.store.num = @ + 1, !.store.made = @ + 1]
        [] then.k = "create" /\ ~success ->
             evmCallStack_setAccount(g, then.a, pristineAccount)
        [] then.k = "redeem" ->
             [evmCallFrame_setRunningAsAddress(g, then.a)
                EXCEPT !.logs = 0,
                       !.then = Resume(IF success THEN "redeemed" ELSE "failed", then.a)]

\* evmCallStack_doCall.  The code to run is the callee's, or a constructor.
doCall(f, kind, callee, n, key, constructor, then) ==
  LET caller == Suspended(f, then)
      code == constructor \/ f.store.code[callee]
      funded == n = 0 \/ CanGrant(View(f), f.as, n, key)
      paid == IF key = NoKey THEN evmCallFrame_transferEth(f, f.as, callee, n)
                             ELSE evmCallStack_transferEthFromEscrow(f, key, callee, n)
  IN  /\ StaysInTx
      /\ \/ /\ code /\ funded
            /\ Len(stack) < MaxDepth
            /\ stack' = Append(WithTop(caller),
                               Subframe(caller, kind, callee,
                                        IF n = 0 THEN caller.store
                                        ELSE ethTransferOrGrant(
                                               caller.store, f.as, callee, n, key), n))
            /\ charging' = TRUE
         \/ /\ code /\ ~funded       \* charging was paused and is not resumed
            /\ stack' = WithTop(Continue(f, then, FALSE))
            /\ charging' = FALSE
         \/ /\ ~code
            /\ stack' = WithTop(Continue(IF funded /\ n > 0 THEN paid ELSE f,
                                         then, funded))
            /\ UNCHANGED charging

evmOp_call(kind, callee, n) ==
  /\ UserCode
  /\ kind \in {"delegatecall", "staticcall"} => n = 0
  /\ kind = "call" /\ n > 0 => ~Top.static
  /\ doCall(Top, kind, callee, n, NoKey, FALSE, Resume("evm", NoKey))

\* evmOp_create and evmOp_create2; only the first takes a sequence number.
evmOp_create(a, n, takesSeqNum) ==
  LET f == IF takesSeqNum THEN [Top EXCEPT !.acct.seq = @ + 1] ELSE Top
      old == evmCallStack_getAccount(f, a)
      blank == [evmCallStack_setAccount(
                  f, a, account_setContractInfo(pristineAccount, 0))
                  EXCEPT !.store.burnt = @ + old.bal]
  IN  /\ UserCode
      /\ ~Top.static
      /\ a # Top.as
      /\ \/ /\ old.code
            /\ stack' = WithTop(f)
            /\ UNCHANGED charging /\ StaysInTx
         \/ /\ ~old.code
            /\ doCall(blank, "call", a, n, NoKey, TRUE, Resume("create", a))

\* Mutant: the ticket is not deleted.
redeem_undeleted(t) ==
  /\ ArbOSCode
  /\ Len(stack) = 1
  /\ t \in Top.store.tickets
  /\ doCall([evmCallFrame_setRunningAsAddress(Top, t.sender) EXCEPT !.logs = 0],
            "call", t.destination, t.callvalue, t.key, FALSE,
            Resume("redeem", Top.as))

\* redeemRetryableTxInTx and evmCallStack_callRetryableTxAndReturn: the
\* ticket is deleted and its call is made in its sender's name.
redeem(t) ==
  LET f == [Top EXCEPT !.store.tickets = @ \ {t}]
  IN  /\ ArbOSCode
      /\ Len(stack) = 1
      /\ t \in Top.store.tickets
      /\ doCall([evmCallFrame_setRunningAsAddress(f, t.sender) EXCEPT !.logs = 0],
                "call", t.destination, t.callvalue, t.key, FALSE,
                Resume("redeem", Top.as))

(***************************************************************************)
(* evmCallStack_returnFromCall of frame f.                                 *)
(***************************************************************************)
returnToCaller(f, success) ==
  LET n == Len(stack)
      p == stack[n - 1]
  IN  /\ n > 1
      /\ stack' = Append(SubSeq(stack, 1, n - 2),
                         Continue(ReturnedTo(p, f, success), p.then, success))
      /\ charging' = TRUE
      /\ StaysInTx

\* What a successful transaction leaves: a constructor installs its code,
\* any other transaction carries out its self-destructs.
Outcome(f) ==
  IF tx.ctor
    THEN [accountStore_set(f.store, f.as, account_setContractInfo(f.acct, f.acct.cell))
            EXCEPT !.num = @ + 1, !.made = @ + 1]
    ELSE destroyAll(View(f), f.sdq)

\* units: storage charged for code that is new to the code table.
\* enough: the gas left covers the storage the transaction has allocated.
\* A non-mutating transaction that succeeds changes no account, and what was
\* held for its gas stays held.
endTx(f, success, units, enough, used) ==
  LET allocated == IF success THEN f.delta + units - storageReclaimedForSDQ(f) ELSE 0
      confirmed == success /\ enough
  IN  /\ Len(stack) = 1
      /\ units > 0 => success /\ tx.ctor
      /\ ~enough => allocated > 0 /\ tx.hold > 0 /\ used = tx.hold
      /\ storage' = storage + allocated
      /\ store' = IF confirmed /\ tx.nonMut THEN store
                  ELSE Settle(IF confirmed THEN Outcome(f) ELSE store,
                              tx.payer, tx.hold, used)
      /\ unsettled' = IF confirmed /\ tx.nonMut THEN unsettled + tx.hold ELSE unsettled
      /\ outbox' = outbox \o IF confirmed /\ ~tx.nonMut THEN f.sends ELSE <<>>
      /\ receipts' = receipts + 1
      /\ stack' = <<>>
      /\ tx' = NoTx
      /\ charging' = FALSE

returnFromCall(f, success) ==
  \/ returnToCaller(f, success)
  \/ \E units \in 0 .. 1, enough \in BOOLEAN, used \in 0 .. tx.hold :
       endTx(f, success, units, enough, used)

evmOp_return(success) == /\ stack # <<>>
                         /\ Top.then.k \in {"running", "sent"}
                         /\ returnFromCall(Top, success)
                         /\ UNCHANGED <<txs, ops>>

\* The account's balance goes to the recipient and it is queued for
\* destruction; then the call returns.
evmOp_selfdestruct(recipient) ==
  LET to == IF recipient = Top.as THEN ReserveFund ELSE recipient
      paid == IF Top.acct.bal > 0
                THEN evmCallFrame_transferEth(Top, Top.as, to, Top.acct.bal)
                ELSE Top
  IN  /\ UserCode
      /\ ~Top.static
      /\ returnFromCall([paid EXCEPT !.sdq = Append(@, Top.as),
                                     !.store.dead = @ \cup {Top.as}], TRUE)

\* The rest of arbRetryable_redeem: log the redemption, or revert.
finishRedeem(success) ==
  /\ stack # <<>>
  /\ Top.then.k \in {"redeemed", "failed"}
  /\ success => Top.then.k = "redeemed"
  /\ returnFromCall([Top EXCEPT !.logs = @ + 1], success)
  /\ UNCHANGED <<txs, ops>>

StartTx == \/ WrongSeqNum
           \/ \E c \in Callers, a \in Targets, n \in Values, hold \in Holds,
                 signed \in BOOLEAN, nonMut \in Mutability :
                 ContractTx(c, a, n, hold, signed, nonMut)
           \/ \E c \in Callers, a \in Targets, n \in Values,
                 signed \in BOOLEAN, nonMut \in Mutability :
                 TransferTx(c, a, n, signed, nonMut)
           \/ \E c \in Callers, a \in NewAddr, n \in Values, hold \in Holds,
                 signed \in BOOLEAN : ConstructorTx(c, a, n, hold, signed)

Step == \/ \E v \in 0 .. 1 : evmOp_sstore(v)
        \/ evmOp_log
        \/ arbsys_sendTxToL1
        \/ \E kind \in Kinds, a \in Targets, n \in Values : evmOp_call(kind, a, n)
        \/ \E a \in NewAddr, n \in Values, s \in BOOLEAN : evmOp_create(a, n, s)
        \/ \E a \in Targets : evmOp_selfdestruct(a)
        \/ \E t \in Ticket : redeem(t)
        \/ \E success \in BOOLEAN : evmOp_return(success)
        \/ \E success \in BOOLEAN : finishRedeem(success)

Next == StartTx \/ Step

Spec == Init /\ [][Next]_vars

(***************************************************************************)
(* Properties.                                                             *)
(***************************************************************************)
Account == [bal : UInt, seq : Nat, code : BOOLEAN, cell : 0 .. 1]

IsStore(st) == /\ \A a \in Addr : accountStore_get(st, a) \in Account
               /\ st.escrow \in [EscrowKey -> UInt]
               /\ st.num \in Int
               /\ st.tickets \subseteq Ticket
               /\ st.burnt \in Nat /\ st.made \in Nat /\ st.dead \subseteq Addr

IsFrame(f) == /\ {f.as, f.codeFrom} \subseteq Addr
              /\ IsStore(f.store) /\ f.acct \in Account
              /\ f.static \in BOOLEAN
              /\ f.delta \in Int /\ f.logs \in Nat /\ f.sends \in Seq(Nat)
              /\ f.sdq \in Seq(Addr)

\* The global store and every call frame have their types, and a frame
\* suspended in mid-call holds no stale cache: its store and its cached
\* account agree.
TypeOK == /\ IsStore(store)
          /\ \A i \in 1 .. Len(stack) : IsFrame(stack[i])
          /\ Len(stack) <= MaxDepth
          /\ charging \in BOOLEAN
          /\ storage \in Int
          /\ outbox \in Seq(Nat)
          /\ {receipts, txs, ops} \subseteq Nat
          /\ \A i \in 1 .. Len(stack) - 1 : View(stack[i]) = stack[i].store

Supply == Wealth(InitStore)

\* Calls, callvalues, gas, self-destructs, redemptions and withdrawals move
\* wei, they do not make or lose any: in the global store and in every frame,
\* with its cached account in place, balances, escrow, the wei of accounts
\* overwritten by a pristine one and the wei of messages to L1 add up to the
\* supply.  So a withdrawal undone by a failure sends no message, and one
\* that is sent was paid for.
Conservation ==
  /\ Wealth(store) + store.burnt + SentWei(outbox) = Supply
  /\ \A i \in 1 .. Len(stack) :
       LET st == View(stack[i])
       IN  Wealth(st) + st.burnt + SentWei(outbox) + SentWei(stack[i].sends) = Supply

\* storageDelta of every frame, kept by differences across sstore, subcalls,
\* reverts and creations, is what its store has gained over the global one.
StorageDeltaExact ==
  \A i \in 1 .. Len(stack) :
    stack[i].delta = StorageSize(View(stack[i])) - StorageSize(store)

\* Every transaction gets exactly one receipt of its own, whichever of the
\* many ways to reject, revert, run or redeem it ends with.
OneReceiptEach == receipts = IF stack = <<>> THEN txs ELSE txs - 1

\* Every transaction settles what was held for its gas, whichever way it ends,
\* except a non-mutating one that succeeds: in the global store and in every
\* frame, the escrow for gas is the running transaction's hold and what such
\* transactions left there since a payer last could not cover the gas.
GasHeldOnlyWhileRunning ==
  LET held == unsettled + tx.hold
  IN  /\ store.escrow[EscrowStoreID_txGas] = held
      /\ \A i \in 1 .. Len(stack) : stack[i].store.escrow[EscrowStoreID_txGas] = held

\* A ticket's callvalue stays in escrow as long as the ticket exists, in the
\* global store and in every frame: a redemption that fails at any depth
\* takes back both the payment and the deletion.  The frame that redeems has
\* deleted the ticket before it knows how the ticket's call ends.
TicketsFunded ==
  LET Funded(st) == \A t \in Ticket :
                      st.escrow[t.key] = IF t \in st.tickets THEN t.callvalue ELSE 0
  IN  /\ Funded(store)
      /\ \A i \in 1 .. Len(stack) :
           stack[i].then.k \in {"redeem", "failed"} \/ Funded(View(stack[i]))

-----------------------------------------------------------------------------
(***************************************************************************)
(* The abstract specification: a level is what a frame sees.  The logs of  *)
(* a redeemed ticket are set apart for a receipt of their own and belong   *)
(* to no level.                                                            *)
(***************************************************************************)
LevelOf(f) == [as |-> f.as, st |-> View(f), static |-> f.static, logs |-> f.logs,
               sends |-> f.sends]

Promise == INSTANCE Transactional
             WITH committed <- store,
                  levels <- [i \in 1 .. Len(stack) |-> LevelOf(stack[i])],
                  sent <- outbox

\* The frames with their cached accounts implement nested transactions:
\* levels below the running one never change, a failed or static call leaves
\* its caller the state from before the call, and only a successful
\* transaction changes contracts or sends messages.
ImplementsTransactional == Promise!TSpec

=============================================================================
