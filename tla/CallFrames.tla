----------------------------- MODULE CallFrames -----------------------------
(***************************************************************************)
(* Accounts with code, and the call frames that EVM code runs in           *)
(* (arb_os/accounts.mini, arb_os/evmCallStack.mini).                       *)
(*                                                                         *)
(* A store is an AccountStore with the fields                              *)
(*                                                                         *)
(*    seq      nextSeqNum of every account                                 *)
(*    code     which accounts hold a contract                              *)
(*    cell     a contract's storage, one cell; 0 is an absent cell         *)
(*    num      numContracts                                                *)
(*    tickets  the retryable tickets                                       *)
(*                                                                         *)
(* and three history fields, discarded and adopted with the store:         *)
(*                                                                         *)
(*    burnt    wei of accounts that were overwritten by a pristine one     *)
(*    dead     accounts that have executed SELFDESTRUCT and still exist    *)
(*    made     contracts created                                           *)
(*                                                                         *)
(* A frame holds a whole store of its own and, in acct, a cached copy of   *)
(* the account it runs as; sends are the callvalues of queued messages.    *)
(* Only storage, logs and sends are kept of what EVM code computes;        *)
(* memory, calldata and returndata are left out.                           *)
(***************************************************************************)
EXTENDS AccountStore, Sequences, Functions

CONSTANT Ticket     \* the retryable tickets there may be

NoKey == -1         \* None<uint>, for a callvalueEscrowKey

Kinds == {"call", "callcode", "delegatecall", "staticcall"}

accountStore_get(st, a) == [bal |-> st.bal[a], seq |-> st.seq[a],
                            code |-> st.code[a], cell |-> st.cell[a]]

accountStore_set(st, a, acct) ==
  [st EXCEPT !.bal[a] = acct.bal, !.seq[a] = acct.seq,
             !.code[a] = acct.code, !.cell[a] = acct.cell]

pristineAccount == [bal |-> 0, seq |-> 0, code |-> FALSE, cell |-> 0]

account_incrSeqNum(st, a) == [st EXCEPT !.seq[a] = @ + 1]

\* The account becomes a contract with empty storage; its sequence number
\* starts at 1 (forceNonce).
account_setContractInfo(acct, cell) ==
  [acct EXCEPT !.code = TRUE, !.cell = cell,
               !.seq = IF @ = 0 THEN 1 ELSE @]

\* The whole store as the frame's code sees it.
View(f) == accountStore_set(f.store, f.as, f.acct)

\* A frame whose store has been replaced, cache included.
WithStore(f, st) == [f EXCEPT !.store = st, !.acct = accountStore_get(st, f.as)]

evmCallStack_getAccount(f, a) ==
  IF a = f.as THEN f.acct ELSE accountStore_get(f.store, a)

evmCallStack_setAccount(f, a, acct) ==
  IF a = f.as THEN [f EXCEPT !.acct = acct]
              ELSE [f EXCEPT !.store = accountStore_set(@, a, acct)]

evmCallFrame_setRunningAsAddress(f, a) ==
  [f EXCEPT !.as = a, !.acct = accountStore_get(View(f), a), !.store = View(f)]

CanGrant(st, from, n, key) ==
  IF key = NoKey THEN CanTransfer(st, from, n) ELSE CanPayFromEscrow(st, key, n)

ethTransferOrGrant(st, from, to, n, key) ==
  IF key = NoKey THEN accountStore_transferEthBalance(st, from, to, n)
                 ELSE accountStore_payFromEscrow(st, key, to, n)

\* Mutant: the cached account is not saved before the transfer.
evmCallFrame_transferEth_stale(f, from, to, n) ==
  IF f.as \in {from, to}
    THEN WithStore(f, accountStore_transferEthBalance(f.store, from, to, n))
    ELSE [f EXCEPT !.store = accountStore_transferEthBalance(@, from, to, n)]

evmCallFrame_transferEth(f, from, to, n) ==
  IF f.as \in {from, to}
    THEN WithStore(f, accountStore_transferEthBalance(View(f), from, to, n))
    ELSE [f EXCEPT !.store = accountStore_transferEthBalance(@, from, to, n)]

evmCallStack_transferEthFromEscrow(f, key, to, n) ==
  IF to = f.as
    THEN WithStore(f, accountStore_payFromEscrow(View(f), key, to, n))
    ELSE [f EXCEPT !.store = accountStore_payFromEscrow(@, key, to, n)]

evmCallStack_setTopFrameStorageCell(f, v) ==
  [f EXCEPT !.acct.cell = v, !.delta = @ + v - f.acct.cell]

(***************************************************************************)
(* What a suspended frame does when its subcall returns: resume its EVM    *)
(* code, finish CREATE of account a, or finish the redemption of a ticket, *)
(* after which the frame runs as a again.  A frame that has queued its     *)
(* message to L1 can only return.                                          *)
(***************************************************************************)
Running == [k |-> "running", a |-> NoKey]
Resume(k, a) == [k |-> k, a |-> a]

TopFrame(a, st, n) ==
  [as |-> a, codeFrom |-> a, store |-> st, acct |-> accountStore_get(st, a),
   callvalue |-> n, static |-> FALSE, delta |-> 0, logs |-> 0, sends |-> <<>>,
   sdq |-> <<>>, then |-> Running]

\* Mutant: the caller's cached account is not saved.
Suspended_unsaved(f, then) == [f EXCEPT !.then = then]

\* The caller's frame once it is suspended: its cached account is saved.
Suspended(f, then) == [f EXCEPT !.store = View(f), !.then = then]

\* The callee's frame; st is the caller's store with the callvalue n moved.
Subframe(f, kind, callee, st, n) ==
  LET runningAs == IF kind \in {"callcode", "delegatecall"} THEN f.as ELSE callee
  IN  [f EXCEPT !.as = runningAs, !.codeFrom = callee, !.store = st,
                !.acct = accountStore_get(st, runningAs),
                !.callvalue = IF kind = "delegatecall" THEN @ ELSE n,
                !.static = @ \/ kind = "staticcall", !.then = Running]

\* Mutant: a failed call's store is adopted too.
Adopts_always(f, success) == ~f.static

Adopts(f, success) == success /\ ~f.static

\* The caller p after f returned: it takes over everything but the
\* self-destruct queue.
ReturnedTo(p, f, success) ==
  IF Adopts(f, success)
    THEN [WithStore(p, View(f)) EXCEPT !.delta = f.delta, !.logs = f.logs,
                                       !.sends = f.sends, !.then = Running]
    ELSE [p EXCEPT !.then = Running]

\* The queued self-destructs take effect, one after the other: each one makes
\* its account pristine and counts one contract less.
destroyAll(st, q) ==
  LET D == {q[i] : i \in 1 .. Len(q)}
      Pristine(g, v) == [a \in Addr |-> IF a \in D THEN v ELSE g[a]]
  IN  [st EXCEPT !.bal = Pristine(@, 0), !.seq = Pristine(@, 0),
                 !.code = Pristine(@, FALSE), !.cell = Pristine(@, 0),
                 !.num = @ - Len(q), !.dead = @ \ D,
                 !.burnt = @ + Total([a \in D |-> st.bal[a]])]

\* The wei that queued messages carry to L1.
SentWei(q) == FoldFunction(LAMBDA x, y : x + y, 0, q)

StorageSize(st) == Cardinality({a \in Addr : st.cell[a] # 0})

\* Storage that the queued self-destructs free, as read from the frame's
\* store: the cached account is not consulted.
storageReclaimedForSDQ(f) ==
  Cardinality({i \in 1 .. Len(f.sdq) : f.store.cell[f.sdq[i]] # 0})
=============================================================================
