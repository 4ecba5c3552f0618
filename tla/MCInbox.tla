------------------------------ MODULE MCInbox -------------------------------
(***************************************************************************)
(* Inbox with one account and a few message contents.                      *)
(***************************************************************************)
EXTENDS Inbox

CONSTANT alice

Tx(n) == [type |-> "tx", caller |-> alice, seq |-> n]
Batch(items) == [type |-> "batch", sub |-> items]
Bls(items) == [type |-> "bls", sub |-> items]
Retryable == [type |-> "retryable", caller |-> alice, seq |-> NoSeqNum]

MCCaller == {alice}

\* A plain transaction, one that repeats its sequence number in a BLS batch, a
\* batch in a batch before more items, and a retryable.
MCLoad == {Tx(0), Bls(<<Tx(0), Tx(0)>>), Retryable,
           Batch(<<Batch(<<Tx(NoSeqNum)>>), Tx(0)>>)}

MCSideLoad == {Tx(1)}

MCContent == MCLoad \cup MCSideLoad \cup {Tx(NoSeqNum), Batch(<<Tx(NoSeqNum)>>)}

MCMoment == {<<0, 0>>, <<1, 0>>, <<0, 1>>}
MCEffects == {[redeems |-> FALSE, sends |-> FALSE], [redeems |-> TRUE, sends |-> TRUE]}
MCSpacings == {1}
=============================================================================
