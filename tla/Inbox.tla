------------------------------- MODULE Inbox --------------------------------
(***************************************************************************)
(* The main run loop (arb_os/inbox.mini): messages come from L1, or are    *)
(* sideloaded while an L1 message waits for the end of the block; they are *)
(* cut into Arbitrum blocks, batches are unpacked, transactions are        *)
(* checked and run.  One step is one round of the loop, or one round of    *)
(* the loop in inbox_get that waits for L1.                                *)
(*                                                                         *)
(* A message is [kind, arb, eth, time, id, load, side].  Its id stands     *)
(* for requestId: <<n>> for the n-th message from L1, the batch's id with  *)
(* one more number for a message in a batch.  Its load is what the L1 kind *)
(* and the L2 type make of msgData: a transaction, a batch, a BLS batch, a *)
(* retryable, or something that is ignored; side tells a sideloaded one.   *)
(***************************************************************************)
EXTENDS Output, FiniteSets

CONSTANTS Caller,        \* accounts that send transactions
          Content,       \* contents of messages, those in batches included
          Load,          \* contents of messages from L1
          SideLoad,      \* contents of sideloaded messages
          Moment,        \* pairs of an L1 block number and a timestamp
          Spacings,      \* values of the SecondsPerSend chain parameter
          Effects,       \* whether a transaction that runs redeems a
                         \* retryable, and whether it sends a message to L1
          MaxL1,         \* bound: messages from L1
          MaxHandled,    \* bound: after so many, L1 only ends blocks
          MaxSideload    \* bound: sideloaded messages

NoSeqNum == -1
Nothing == [type |-> "ignored"]
None == [kind |-> "none"]

\* What msgData unpacks to: transactions have a caller and a sequence number
\* or none, a BLS batch holds transactions, a batch any contents.
ASSUME ContentAssumption ==
  /\ Load \cup SideLoad \subseteq Content
  /\ \A c \in Content :
       /\ c.type \in {"tx", "retryable"} => c.caller \in Caller /\ c.seq \in Nat \cup {NoSeqNum}
       /\ c.type \in {"batch", "bls"} => c.sub \in Seq(Content)
       /\ c.type = "bls" => \A i \in DOMAIN c.sub : c.sub[i].type = "tx"

ASSUME ArrivalAssumption ==
  /\ Moment \subseteq Nat \X Nat
  /\ Spacings \subseteq Nat
  /\ Effects \subseteq [redeems : BOOLEAN, sends : BOOLEAN]

VARIABLES inbox,       \* globalInbox
          txQ, batchQ, \* globalInputQueue
          seqNum,      \* nextSeqNum of every account
          spacing,     \* the SecondsPerSend chain parameter
          out,         \* the output state
          l1, sideloads,  \* messages so far
          given,       \* history: messages from L1 that are not ends of blocks
          handled,     \* history: ids of L1's messages in the order handled
          unpacked,    \* history: batches unpacked, with their sizes
          executed     \* history: transactions with a sequence number run

vars == <<inbox, txQ, batchQ, seqNum, spacing, out, l1, sideloads,
          given, handled, unpacked, executed>>

\* inbox_init and emitGenesisBlockReceipt.
Init ==
  /\ inbox = [queue |-> <<>>, arb |-> 1, eth |-> 0, time |-> 0,
              atStart |-> TRUE, pending |-> None]
  /\ txQ = <<>>
  /\ batchQ = <<>>
  /\ seqNum = [c \in Caller |-> 0]
  /\ spacing \in Spacings
  /\ out = outputStats_endOfBlock(output_init, 0, 0, 0, spacing)
  /\ l1 = 0
  /\ sideloads = 0
  /\ given = {}
  /\ handled = <<>>
  /\ unpacked = {}
  /\ executed = <<>>

(***************************************************************************)
(* The queue stack of batches, innermost batch first (stdlib/queue.mini).  *)
(***************************************************************************)
queuestack_stripEmpties(qs) ==
  LET live == {i \in DOMAIN qs : qs[i] # <<>>}
  IN  IF live = {} THEN <<>>
      ELSE SubSeq(qs, CHOOSE i \in live : \A j \in live : i <= j, Len(qs))

queuestack_push(qs, q) == <<q>> \o queuestack_stripEmpties(qs)

queuestack_get(qs) == queuestack_push(Tail(queuestack_stripEmpties(qs)),
                                      Tail(Head(queuestack_stripEmpties(qs))))

(***************************************************************************)
(* Running a transaction.                                                  *)
(***************************************************************************)
Keeps == UNCHANGED <<inbox, spacing, l1, sideloads, given>>

Handled(m) == handled' = IF m.side THEN handled ELSE Append(handled, m.id)

\* account_checkAndIncrSeqNum, and account_incrSeqNum of a checked number.
Counted(tx) == IF tx.seq = seqNum[tx.caller]
                 THEN [seqNum EXCEPT ![tx.caller] = @ + 1] ELSE seqNum

\* fetchAndIncrSequenceNum, which a constructor without a number calls.
Numbered(tx) == {seqNum} \cup (IF tx.seq = NoSeqNum
                                 THEN {[seqNum EXCEPT ![tx.caller] = @ + 1]} ELSE {})

\* The outer receipt of a transaction that ran, after the receipt of the
\* retryable it redeemed, if any, and its messages to L1.
Ran(o, m, e) ==
  LET current == [m EXCEPT !.arb = inbox.arb, !.eth = inbox.eth, !.time = inbox.time]
      redeemed == IF e.redeems THEN emitTxReceipt(o, current, 1) ELSE o
      sent == IF e.sends THEN outbox_append(redeemed) ELSE redeemed
  IN  emitTxReceipt(sent, m, 1)

\* Mutant: a transaction runs whatever its sequence number is.
handleArrivingTx_unchecked(m, o) ==
  \E e \in Effects :
    /\ out' = Ran(o, m, e)
    /\ seqNum' = Counted(m.load)
    /\ executed' = IF m.load.seq = NoSeqNum THEN executed
                   ELSE Append(executed, <<m.load.caller, m.load.seq>>)

\* handleArrivingTx with gasAccounting_prepareTx and processL2Request: o is
\* the output so far.
handleArrivingTx(m, o) ==
  LET tx == m.load
      wrongSeqNum == tx.seq # NoSeqNum /\ tx.seq # seqNum[tx.caller]
  IN  \/ /\ out' = emitTxReceipt(o, m, 0)   \* sender, price, funds or congestion
         /\ seqNum' = Counted(tx)
         /\ UNCHANGED executed
      \/ /\ out' = emitTxReceipt(o, m, 0)   \* sequence number, or gas at start
         /\ seqNum' \in Numbered(tx)
         /\ UNCHANGED executed
      \/ /\ ~wrongSeqNum
         /\ \E e \in Effects : out' = Ran(o, m, e)
         /\ seqNum' \in IF tx.seq = NoSeqNum THEN Numbered(tx) ELSE {Counted(tx)}
         /\ executed' = IF tx.seq = NoSeqNum THEN executed
                        ELSE Append(executed, <<tx.caller, tx.seq>>)

\* A transaction of a BLS batch.
RunTx ==
  /\ txQ # <<>>
  /\ txQ' = Tail(txQ)
  /\ \/ handleArrivingTx(Head(txQ), out)
     \/ UNCHANGED <<out, seqNum, executed>>   \* an error, as in Drop
  /\ Handled(Head(txQ))
  /\ Keeps /\ UNCHANGED <<batchQ, unpacked>>

(***************************************************************************)
(* A message other than a chain parameter update; bq is what is left of    *)
(* the queue stack.                                                        *)
(***************************************************************************)
\* messageBatch_get, or a transaction of a BLS batch.
Item(m, i) == [m EXCEPT !.load = m.load.sub[i], !.id = Append(m.id, i)]
Items(m) == [i \in 1 .. Len(m.load.sub) |-> Item(m, i)]

Unpacks(m) == /\ unpacked' = IF m.side THEN unpacked
                             ELSE unpacked \cup {[id |-> m.id, n |-> Len(m.load.sub)]}
              /\ UNCHANGED <<seqNum, out, executed, handled>>

UnpackBatch(m, bq) ==
  /\ m.load.type = "batch"
  /\ batchQ' = queuestack_push(bq, Items(m))
  /\ Unpacks(m)
  /\ UNCHANGED txQ

UnpackBls(m, bq) ==
  /\ m.load.type = "bls"
  /\ batchQ' = bq
  /\ txQ' = txQ \o Items(m)
  /\ Unpacks(m)

\* Mutant: an error also throws away the rest of the batch.
Drop_all(m, bq) ==
  /\ m.load.type # "batch"
  /\ batchQ' = <<>>
  /\ Handled(m)
  /\ UNCHANGED <<txQ, seqNum, out, unpacked, executed>>

\* An ignored message, a BLS batch that is bad, or one that hit an error
\* outside the EVM: the error handler goes back to the main run loop.
Drop(m, bq) ==
  /\ m.load.type # "batch"
  /\ batchQ' = bq
  /\ Handled(m)
  /\ UNCHANGED <<txQ, seqNum, out, unpacked, executed>>

handleTx(m, bq) ==
  /\ m.load.type = "tx"
  /\ batchQ' = bq
  /\ handleArrivingTx(m, out)
  /\ Handled(m)
  /\ UNCHANGED <<txQ, unpacked>>

\* processRetryableTx emits a receipt for the submission; its auto-redeem,
\* if any, is a transaction without a sequence number.
handleRetryable(m, bq) ==
  /\ m.load.type = "retryable"
  /\ batchQ' = bq
  /\ \/ /\ out' = emitTxReceipt(out, m, 0)
        /\ UNCHANGED <<seqNum, executed>>
     \/ handleArrivingTx(m, emitTxReceipt(out, m, 0))
  /\ Handled(m)
  /\ UNCHANGED <<txQ, unpacked>>

dispatch(m, bq) == \/ UnpackBatch(m, bq) \/ UnpackBls(m, bq) \/ Drop(m, bq)
                   \/ handleTx(m, bq) \/ handleRetryable(m, bq)

NoBatchItem == queuestack_stripEmpties(batchQ) = <<>>

RunBatchItem ==
  /\ txQ = <<>>
  /\ ~NoBatchItem
  /\ dispatch(Head(Head(queuestack_stripEmpties(batchQ))), queuestack_get(batchQ))
  /\ Keeps

(***************************************************************************)
(* inbox_get.                                                              *)
(***************************************************************************)
FromInbox == /\ txQ = <<>>
             /\ NoBatchItem

RunInboxMessage ==
  /\ FromInbox
  /\ inbox.queue # <<>>
  /\ inbox' = [inbox EXCEPT !.queue = Tail(@)]
  /\ LET m == Head(inbox.queue)
     IN  \/ /\ m.kind = "L2"
            /\ dispatch(m, batchQ)
            /\ UNCHANGED spacing
         \/ /\ m.kind = "setChainParameters"
            /\ spacing' \in Spacings
            /\ Handled(m)
            /\ UNCHANGED <<txQ, batchQ, seqNum, out, unpacked, executed>>
  /\ UNCHANGED <<l1, sideloads, given>>

larger(x, y) == IF x < y THEN y ELSE x

incomingRequestFromRaw(kind, eth, time, load, id, side) ==
  [kind |-> kind, arb |-> inbox.arb, eth |-> larger(eth, inbox.eth),
   time |-> larger(time, inbox.time), id |-> id, load |-> load, side |-> side]

Waits == /\ FromInbox
         /\ inbox.queue = <<>>
         /\ UNCHANGED <<txQ, batchQ, seqNum, spacing, handled, unpacked, executed>>

\* getFromL1Inbox with a message pending: one is sideloaded.  The host decides
\* what; here it is an L2 message, as an L1 kind, which the code would take in
\* the same way, comes from L1 alone.  In particular no end of a block is
\* sideloaded, for which handleUnpackedMessage has a branch of its own.
Sideload(t, load) ==
  /\ Waits
  /\ inbox.pending # None
  /\ sideloads < MaxSideload
  /\ sideloads' = sideloads + 1
  /\ inbox' = [inbox EXCEPT !.queue =
                 Append(@, incomingRequestFromRaw("L2", t[1], t[2], load, <<0>>, TRUE))]
  /\ UNCHANGED <<out, l1, given>>

\* Mutant: the waiting message keeps the block number it arrived with.
EndBlock_sameBlock ==
  LET p == inbox.pending
  IN  /\ Waits
      /\ p # None
      /\ out' = outputStats_endOfBlock(out, inbox.arb, inbox.eth, inbox.time, spacing)
      /\ inbox' = [inbox EXCEPT !.pending = None, !.arb = @ + 1,
                                !.eth = p.eth, !.time = p.time,
                                !.queue = IF p.kind = "endOfBlock" THEN @ ELSE Append(@, p),
                                !.atStart = p.kind = "endOfBlock"]
      /\ UNCHANGED <<l1, sideloads, given>>

\* Mutant: an end-of-block message does not end the block it waits for.
EndBlock_awaited ==
  LET p == inbox.pending
  IN  /\ Waits
      /\ p # None /\ p.kind # "endOfBlock"
      /\ out' = outputStats_endOfBlock(out, inbox.arb, inbox.eth, inbox.time, spacing)
      /\ inbox' = [inbox EXCEPT !.pending = None, !.arb = @ + 1,
                                !.eth = p.eth, !.time = p.time,
                                !.queue = Append(@, [p EXCEPT !.arb = @ + 1])]
      /\ UNCHANGED <<l1, sideloads, given>>

\* getFromL1Inbox with a message pending and none sideloaded: the block
\* ends, and the message is the first one of the next block.
EndBlock ==
  LET p == inbox.pending
  IN  /\ Waits
      /\ p # None
      /\ out' = outputStats_endOfBlock(out, inbox.arb, inbox.eth, inbox.time, spacing)
      /\ inbox' = [inbox EXCEPT !.pending = None, !.arb = @ + 1,
                                !.eth = p.eth, !.time = p.time,
                                !.queue = IF p.kind = "endOfBlock" THEN @
                                          ELSE Append(@, [p EXCEPT !.arb = @ + 1]),
                                !.atStart = p.kind = "endOfBlock"]
      /\ UNCHANGED <<l1, sideloads, given>>

\* Mutant: the end of a block that has not begun is awaited too.
FromL1_emptyBlock(kind, t, load) ==
  LET m == incomingRequestFromRaw(kind, t[1], t[2], load, <<l1 + 1>>, FALSE)
      newBlock == m.eth > inbox.eth \/ m.time > inbox.time
  IN  /\ Waits
      /\ inbox.pending = None
      /\ l1 < MaxL1
      /\ Len(handled) < MaxHandled \/ kind = "endOfBlock"
      /\ l1' = l1 + 1
      /\ given' = IF kind = "endOfBlock" THEN given ELSE given \cup {l1 + 1}
      /\ inbox' = IF (~inbox.atStart /\ newBlock) \/ kind = "endOfBlock"
                   THEN [inbox EXCEPT !.pending = m]
                   ELSE [inbox EXCEPT !.queue = Append(@, m), !.eth = m.eth,
                                      !.arb = m.arb, !.time = m.time, !.atStart = FALSE]
      /\ UNCHANGED <<out, sideloads>>

\* getFromL1Inbox with no message pending.
FromL1(kind, t, load) ==
  LET m == incomingRequestFromRaw(kind, t[1], t[2], load, <<l1 + 1>>, FALSE)
      newBlock == m.eth > inbox.eth \/ m.time > inbox.time
  IN  /\ Waits
      /\ inbox.pending = None
      /\ l1 < MaxL1
      /\ Len(handled) < MaxHandled \/ kind = "endOfBlock"
      /\ l1' = l1 + 1
      /\ given' = IF kind = "endOfBlock" THEN given ELSE given \cup {l1 + 1}
      /\ \/ /\ ~inbox.atStart /\ (newBlock \/ kind = "endOfBlock")
            /\ inbox' = [inbox EXCEPT !.pending = m]
         \/ /\ inbox.atStart /\ kind = "endOfBlock"
            /\ UNCHANGED inbox
         \/ /\ kind # "endOfBlock" /\ (inbox.atStart \/ ~newBlock)
            /\ inbox' = [inbox EXCEPT !.queue = Append(@, m), !.eth = m.eth, !.arb = m.arb,
                                      !.time = m.time, !.atStart = FALSE]
      /\ UNCHANGED <<out, sideloads>>

Loop == RunTx \/ RunBatchItem \/ RunInboxMessage \/ EndBlock

Arrival == \/ \E t \in Moment, load \in SideLoad : Sideload(t, load)
           \/ \E t \in Moment, load \in Load : FromL1("L2", t, load)
           \/ \E t \in Moment : FromL1("setChainParameters", t, Nothing)
           \/ \E t \in Moment : FromL1("endOfBlock", t, Nothing)

Next == Loop \/ Arrival

Spec == Init /\ [][Next]_vars

\* The AVM keeps executing the loop as long as it does not wait for L1.
FairSpec == Spec /\ WF_vars(Loop)

-----------------------------------------------------------------------------
(***************************************************************************)
(* Properties.                                                             *)
(***************************************************************************)
Logs(t) == {i \in DOMAIN out.logs : out.logs[i].t = t}

\* How many logs of type t there are before position i.
Before(t, i) == Cardinality({j \in Logs(t) : j < i})

\* The state of the loop is well formed: getFromL1Inbox is only called with
\* an empty queue, so the queue never holds two messages; a message waits for
\* the end of a block only when the block has begun, so no end-of-block event
\* can close an empty block; and the waiting message has the number of the
\* block that is about to end.
TypeOK ==
  /\ Len(inbox.queue) <= 1
  /\ inbox.arb \in Nat /\ inbox.eth \in Nat /\ inbox.time \in Nat
  /\ inbox.pending # None => ~inbox.atStart /\ inbox.pending.arb = inbox.arb
  /\ inbox.atStart => inbox.queue = <<>> /\ out.this.numLogs = 0
  /\ seqNum \in [Caller -> Nat]
  /\ spacing \in Spacings

\* Block summaries number the Arbitrum blocks without a gap from 0, each one
\* naming its predecessor (outputStats_endOfBlock), and L1 block numbers and
\* timestamps never decrease from one block to the next (incomingRequestFromRaw).
SummariesInOrder ==
  \A i \in Logs("block") :
    LET b == out.logs[i]
    IN  /\ b.arb = Before("block", i)
        /\ b.last = b.arb - 1
        /\ \A j \in Logs("block") : j < i => /\ out.logs[j].eth <= b.eth
                                             /\ out.logs[j].time <= b.time

\* Every receipt is emitted in the block it names, between that block's
\* predecessor's summary and its own, and unless the message was sideloaded it
\* has the L1 block number and timestamp of that summary: a message that moves
\* either one waits until the block before it has ended (getFromL1Inbox).
ReceiptsInTheirBlock ==
  \A i \in Logs("receipt") :
    LET r == out.logs[i]
        later == {j \in Logs("block") : j > i}
        eth  == IF later = {} THEN inbox.eth
                ELSE out.logs[CHOOSE j \in later : \A k \in later : j <= k].eth
        time == IF later = {} THEN inbox.time
                ELSE out.logs[CHOOSE j \in later : \A k \in later : j <= k].time
    IN  /\ r.arb = Before("block", i)
        /\ ~r.side => r.eth = eth /\ r.time = time
        /\ r.side => r.eth >= eth /\ r.time >= time

\* The log of the AVM is a chain of blocks: the summaries are in order, and
\* every receipt is inside the block it names, although a message waits while
\* the block before it is ended and sideloaded messages come in between.  This
\* is the code: every block has a summary, which names the block before, and
\* the first one names ~0.  doc/DataFormats.md has no summary for a block
\* without activity (line 317; see NoEmptySummary) and 0 in the first (338).
BlocksInOrder == SummariesInOrder /\ ReceiptsInTheirBlock

\* doc/DataFormats.md:317, "No summary is emitted for a block that has no L2
\* activity": but for the genesis block's (emitGenesisBlockReceipt), a summary
\* counts a transaction, a log or a send of its block.
NoEmptySummary ==
  \A i \in Logs("block") : out.logs[i].arb > 0 => out.logs[i].this # outputStats_new

\* The running totals in a block summary count what the AVM really emitted:
\* its numLogs is the summary's own position among all logs, queued logs
\* included, and numTx, numSends and numEvmLogs count the receipts, the trees
\* and the EVM logs before it.
StatsCountLogs ==
  \A i \in Logs("block") :
    LET b == out.logs[i]
        prev == {j \in Logs("block") : j < i}
        all0 == IF prev = {} THEN outputStats_new
                ELSE out.logs[CHOOSE j \in prev : \A k \in prev : k <= j].all
    IN  /\ b.all.numLogs = i
        /\ b.all.numTx = Before("receipt", i)
        /\ b.all.numSends = Before("tree", i)
        /\ b.all.numEvmLogs = Cardinality({j \in Logs("receipt") :
                                             j < i /\ out.logs[j].evmLogs = 1})
        /\ b.this = Added(all0, b.all)

\* The receipts of a block have the indices 0, 1, 2... and say how many EVM
\* logs of the block precede theirs, also when a redeemed retryable's receipt
\* is emitted in the middle of a transaction (emitTxReceipt).
ReceiptsIndexed ==
  \A i \in Logs("receipt") :
    LET same == {j \in Logs("receipt") : j < i /\ Before("block", j) = Before("block", i)}
    IN  /\ out.logs[i].index = Cardinality(same)
        /\ out.logs[i].firstLog = Cardinality({j \in same : out.logs[j].evmLogs = 1})

\* What summaries and receipts say of counts and positions is what a reader of
\* the log counts, whatever was queued, redeemed or sent in between.
CountsExact == StatsCountLogs /\ ReceiptsIndexed

\* Messages to L1 are never lost or repeated: the send logs of a batch are
\* numbered 0, 1, 2... in emission order, its tree comes after all of them and
\* covers exactly these, the next batch starts from 0, and the AVM sends are
\* the trees, although the logs are queued until the end of the block and the
\* batch may wait for later blocks (outbox_append, outbox_send).
SendsInBatches ==
  LET all == SelectSeq(out.logs \o out.queued, LAMBDA e : e.t \in {"send", "tree"})
      trees == SelectSeq(all, LAMBDA e : e.t = "tree")
      First(e) == e.t = "send" /\ e.n = 0
  IN  /\ all # <<>> => First(all[1]) /\ all[1].batch = 0
      /\ \A i \in 1 .. Len(all) - 1 :
           IF all[i].t = "send"
             THEN all[i + 1].batch = all[i].batch /\ all[i + 1].n = all[i].n + 1
             ELSE all[i + 1].batch = all[i].batch + 1 /\ First(all[i + 1])
      /\ out.sends = [i \in DOMAIN trees |-> [batch |-> trees[i].batch, n |-> trees[i].n]]

Precedes(a, b) == \E k \in (DOMAIN a) \cap (DOMAIN b) :
                    a[k] < b[k] /\ \A j \in 1 .. k - 1 : a[j] = b[j]

\* Messages are handled in the order L1 has them, and the ones in a batch in
\* the place of the batch, whatever the nesting of batches and BLS batches:
\* the queues of mainRunLoop never let a later message overtake.
HandledInOrder ==
  \A j \in 2 .. Len(handled) : Precedes(handled[j - 1], handled[j])

Idle == /\ FromInbox
        /\ inbox.queue = <<>>
        /\ inbox.pending = None

\* When the loop waits for L1 with nothing pending, every message from L1 and
\* every item of every batch has been handled or unpacked; errors and ends of
\* blocks have lost none of those behind them.
NothingLost ==
  LET settled == {handled[i] : i \in DOMAIN handled} \cup {u.id : u \in unpacked}
  IN  Idle => /\ \A n \in given : <<n>> \in settled
              /\ \A u \in unpacked : \A i \in 1 .. u.n :
                   Append(u.id, i) \in settled

\* Every message is handled once and in its place: in order, and none is lost.
HandledOnce == HandledInOrder /\ NothingLost

\* An account's transactions run in the order of their sequence numbers, each
\* at most once, also when a BLS batch or two messages carry the same one
\* (gasAccounting_prepareTx, account_checkAndIncrSeqNum).
NoReplay ==
  \A i, j \in DOMAIN executed :
    i < j /\ executed[i][1] = executed[j][1] => executed[i][2] < executed[j][2]

\* The loop always gets back to waiting for L1 with nothing pending: batches
\* are finite and a waiting message is let in once sideloading stops.
ReturnsToL1 == []<>Idle
=============================================================================
