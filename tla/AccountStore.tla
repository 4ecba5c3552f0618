---------------------------- MODULE AccountStore ----------------------------
(***************************************************************************)
(* The ETH side of ArbOS's account store (arb_os/accounts.mini): account   *)
(* balances and the escrow store.  A store is a record with the fields     *)
(*                                                                         *)
(*    bal      balance of every account, 0 for an account never written    *)
(*    escrow   escrowed wei by escrow key, 0 for a key never written       *)
(*    nextKey  the next fresh escrow key                                   *)
(*                                                                         *)
(* and possibly others, which these operators leave alone.  A Mini uint is *)
(* an unsigned 256-bit integer whose + and * wrap; here it is a member of  *)
(* UInt, and Wrap is the reduction.  An operation that returns an option   *)
(* in the source is a pair of operators, the condition for Some (Can...)   *)
(* and the value under Some.                                               *)
(***************************************************************************)
EXTENDS Integers, FiniteSets

CONSTANTS Addr,      \* accounts, a finite set
          MaxUint,   \* 2^256 - 1 in the source
          MaxKey     \* bound: escrow keys 0 .. MaxKey are available

ASSUME AddrAssumption == IsFiniteSet(Addr)
ASSUME UintAssumption == MaxUint \in Nat \ {0}
ASSUME KeyAssumption == MaxKey \in Nat

UInt == 0 .. MaxUint
EscrowKey == 0 .. MaxKey
Wrap(n) == n % (MaxUint + 1)

Store == [bal : [Addr -> UInt],
          escrow : [EscrowKey -> UInt],
          nextKey : 1 .. (MaxKey + 1)]

\* Key 0 is pre-reserved for the gas funds of the running transaction.
EscrowStoreID_txGas == 0

accountStore_init == [bal     |-> [a \in Addr |-> 0],
                      escrow  |-> [k \in EscrowKey |-> 0],
                      nextKey |-> 1]

account_addToEthBalance(st, a, n) == [st EXCEPT !.bal[a] = Wrap(@ + n)]

\* Mutant: no funds check.
CanTransfer_unchecked(st, from, n) == TRUE

CanTransfer(st, from, n) == n = 0 \/ st.bal[from] >= n

\* Mutant: both accounts are read before either is written.
accountStore_transferEthBalance_stale(st, from, to, n) ==
  [st EXCEPT !.bal = [@ EXCEPT ![from] = st.bal[from] - n,
                               ![to] = Wrap(st.bal[to] + n)]]

accountStore_transferEthBalance(st, from, to, n) ==
  IF n = 0 \/ from = to
    THEN st
    ELSE account_addToEthBalance([st EXCEPT !.bal[from] = @ - n], to, n)

(***************************************************************************)
(* newEscrow hands out key 0 when nothing is to be held.                   *)
(***************************************************************************)
CanNewEscrow(st, payer, n) == n = 0 \/ st.bal[payer] >= n

newEscrowKey(st, n) == IF n = 0 THEN EscrowStoreID_txGas ELSE st.nextKey

\* Mutant: the key is handed out again.
accountStore_newEscrow_sameKey(st, payer, n) ==
  IF n = 0
    THEN st
    ELSE [st EXCEPT !.bal[payer] = @ - n, !.escrow[st.nextKey] = n]

accountStore_newEscrow(st, payer, n) ==
  IF n = 0
    THEN st
    ELSE [st EXCEPT !.bal[payer] = @ - n,
                    !.escrow[st.nextKey] = n,
                    !.nextKey = @ + 1]

escrowUpToMax(st, payer, n) == IF st.bal[payer] < n THEN st.bal[payer] ELSE n

accountStore_addToEscrowUpToMax(st, key, payer, n) ==
  LET amount == escrowUpToMax(st, payer, n)
  IN  [st EXCEPT !.bal[payer] = @ - amount,
                 !.escrow[key] = Wrap(@ + amount)]

CanPayFromEscrow(st, key, n) == st.escrow[key] >= n

accountStore_payFromEscrow(st, key, to, n) ==
  [account_addToEthBalance(st, to, n) EXCEPT !.escrow[key] = @ - n]

accountStore_payFullyFromEscrow(st, key, to) ==
  [account_addToEthBalance(st, to, st.escrow[key]) EXCEPT !.escrow[key] = 0]

(***************************************************************************)
(* How much ETH a store holds.  The coins of a balance function are the    *)
(* pairs <<owner, i>> with i up to the owner's balance, and the total is   *)
(* their number: a sum that needs no recursion.                            *)
(***************************************************************************)
Coins(f) == {c \in (DOMAIN f) \X (1 .. MaxUint) : c[2] <= f[c[1]]}
Total(f) == Cardinality(Coins(f))
Wealth(st) == Total(st.bal) + Total(st.escrow)
=============================================================================
