------------------------------- MODULE Output -------------------------------
(***************************************************************************)
(* What ArbOS emits: receipts, send logs, Merkle trees of outgoing         *)
(* messages and block summaries (arb_os/output.mini).  An output state is  *)
(* a record with the fields                                                *)
(*                                                                         *)
(*    this, all     statsThisBlock and statsAllTime, without gas           *)
(*    data          PerBlockReceiptData, without gas                       *)
(*    lastBlockNum  of the last block summary, -1 standing for ~0          *)
(*    nextSendTime                                                         *)
(*    batchNumber, numInBatch   globalOutbox                               *)
(*    queued        logsQueuedForEndOfBlock                                *)
(*    logs, sends   history: the AVM logs and AVM sends executed           *)
(***************************************************************************)
EXTENDS Integers, Sequences

outputStats_new == [numTx |-> 0, numEvmLogs |-> 0, numLogs |-> 0, numSends |-> 0]

outputStats_add(s, t) ==
  [numTx |-> s.numTx + t.numTx, numEvmLogs |-> s.numEvmLogs + t.numEvmLogs,
   numLogs |-> s.numLogs + t.numLogs, numSends |-> s.numSends + t.numSends]

\* What was added to the totals s to get t, the summary itself not counted.
Added(s, t) == [numTx |-> t.numTx - s.numTx, numEvmLogs |-> t.numEvmLogs - s.numEvmLogs,
                numLogs |-> (t.numLogs - s.numLogs) - 1, numSends |-> t.numSends - s.numSends]

\* txReceipts_init and output_init.
output_init ==
  [this |-> outputStats_new, all |-> outputStats_new,
   data |-> [numTx |-> 0, numEvmLogs |-> 0], lastBlockNum |-> -1,
   nextSendTime |-> 0, batchNumber |-> 0, numInBatch |-> 0,
   queued |-> <<>>, logs |-> <<>>, sends |-> <<>>]

outputStats_addNonTxLog(o) == [o EXCEPT !.this.numLogs = @ + 1]
outputStats_addSend(o) == [o EXCEPT !.this.numSends = @ + 1]

outputStats_addTxLog(o, n) ==
  [o EXCEPT !.this.numTx = @ + 1, !.this.numLogs = @ + 1, !.this.numEvmLogs = @ + n]

\* Mutant: only transactions that emit EVM logs are counted.
update_txReceiptsForBlock_logging(o, n) ==
  IF n = 0 THEN o ELSE [o EXCEPT !.data.numTx = @ + 1, !.data.numEvmLogs = @ + n]

update_txReceiptsForBlock(o, n) ==
  [o EXCEPT !.data.numTx = @ + 1, !.data.numEvmLogs = @ + n]

\* The receipt of msg, with n EVM logs, says how many receipts and EVM logs
\* of the block came before it.
emitTxReceipt(o, msg, n) ==
  [update_txReceiptsForBlock(outputStats_addTxLog(o, n), n)
     EXCEPT !.logs = Append(@, [t |-> "receipt", arb |-> msg.arb, eth |-> msg.eth,
                                time |-> msg.time, side |-> msg.side,
                                index |-> o.data.numTx,
                                firstLog |-> o.data.numEvmLogs, evmLogs |-> n])]

\* Mutant: the index in the batch is taken after it was counted.
outbox_append_late(o) ==
  [outputStats_addNonTxLog(o)
     EXCEPT !.numInBatch = @ + 1,
            !.queued = Append(@, [t |-> "send", batch |-> o.batchNumber,
                                  n |-> o.numInBatch + 1])]

outbox_append(o) ==
  [outputStats_addNonTxLog(o)
     EXCEPT !.numInBatch = @ + 1,
            !.queued = Append(@, [t |-> "send", batch |-> o.batchNumber,
                                  n |-> o.numInBatch])]

outbox_isEmpty(o) == o.numInBatch = 0

\* The batch is published as an AVM send, and its tree as a queued log.
outbox_send(o) ==
  [outputStats_addSend(outputStats_addNonTxLog(o))
     EXCEPT !.queued = Append(@, [t |-> "tree", batch |-> o.batchNumber,
                                  n |-> o.numInBatch]),
            !.sends = Append(@, [batch |-> o.batchNumber, n |-> o.numInBatch]),
            !.batchNumber = @ + 1,
            !.numInBatch = 0]

\* The end of block arb: a due batch is sent, the queued logs are emitted,
\* then the block summary, and the next block starts from zero.
outputStats_endOfBlock(o, arb, eth, time, spacing) ==
  LET p == IF time >= o.nextSendTime /\ ~outbox_isEmpty(o)
             THEN [outbox_send(o) EXCEPT !.nextSendTime = time + spacing]
             ELSE o
      all == [outputStats_add(p.this, p.all) EXCEPT !.numLogs = @ + 1]
  IN  [p EXCEPT !.all = all,
                !.logs = @ \o Append(p.queued,
                           [t |-> "block", arb |-> arb, eth |-> eth, time |-> time,
                            this |-> p.this, all |-> all, last |-> p.lastBlockNum]),
                !.queued = <<>>,
                !.lastBlockNum = arb,
                !.this = outputStats_new,
                !.data = [numTx |-> 0, numEvmLogs |-> 0]]
=============================================================================
