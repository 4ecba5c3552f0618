--------------------------- MODULE MCEvmCallStack ---------------------------
EXTENDS EvmCallStack, TLC

CONSTANTS user, conA, conB,    \* an account without code, two contracts
          pre, fresh, fees     \* ArbOS's contracts, no account yet, fees

MCTicket == {[sender |-> user, destination |-> conB, callvalue |-> 1, key |-> 1],
             [sender |-> user, destination |-> user, callvalue |-> 1, key |-> 2]}

\* A non-mutating transaction before has left a wei in the gas escrow.
MCInitStore ==
  [bal     |-> [x \in Addr |-> CASE x = user -> 2 [] x = conA -> 1 [] OTHER -> 0],
   escrow  |-> [k \in EscrowKey |-> 1],
   nextKey |-> 3,
   seq     |-> [x \in Addr |-> IF x \in {conA, conB, pre} THEN 1 ELSE 0],
   code    |-> [x \in Addr |-> x \in {conA, conB, pre}],
   cell    |-> [x \in Addr |-> IF x = conB THEN 1 ELSE 0],
   num     |-> 0,
   tickets |-> MCTicket,
   burnt   |-> 0,
   dead    |-> {},
   made    |-> 0]
=============================================================================
