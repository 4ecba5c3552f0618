---------------------------- MODULE BlocksProofs ----------------------------
(***************************************************************************)
(* The log of the main loop: for every set of contents and every bound,    *)
(* the block summaries form a chain, every receipt is in the block it      *)
(* names, and the statistics and indices count what was emitted.           *)
(*                                                                         *)
(* QInv (module InboxProofs) says where messages wait, and LInv that the   *)
(* books of the output (Books of module OutputProofs) are kept for the     *)
(* block that the inbox is in.  A receipt belongs to that block because a  *)
(* message of a later one is held back until the block has ended.          *)
(***************************************************************************)
EXTENDS InboxProofs, OutputProofs

Open(o) == Books(o, inbox.arb, inbox.eth, inbox.time) /\ o.all.numLogs # 0

\* The books are kept for the block the inbox is in, and nothing is emitted
\* before the block has begun.
LInv == Open(out) /\ (inbox.atStart => out.this.numLogs = 0)

\* The types of the block that the inbox is in.
LEMMA InboxFields ==
  ASSUME inbox \in InboxState
  PROVE  inbox.arb \in Nat /\ inbox.eth \in Nat /\ inbox.time \in Nat
  BY Zenon DEF InboxState

\* A receipt keeps the books of the open block.
LEMMA EmitOpen ==
  ASSUME inbox \in InboxState, NEW o, Open(o), NEW m \in Message, InBlock(m), NEW n \in {0, 1}
  PROVE  Open(emitTxReceipt(o, m, n))
<1>1. m.eth \in Nat /\ m.time \in Nat /\ m.side \in BOOLEAN /\ m.arb = inbox.arb
  BY Zenon DEF Message, InBlock
<1>2. Within(m, inbox.eth, inbox.time)
  BY Zenon DEF Within, InBlock
<1>3. Books(o, inbox.arb, inbox.eth, inbox.time) /\ o.all.numLogs # 0
  BY Zenon DEF Open
<1>0. inbox.arb \in Nat
  BY InboxFields
<1>5. Booked(emitTxReceipt(o, m, n), o, inbox.arb, inbox.eth, inbox.time)
  BY <1>0, <1>1, <1>2, <1>3, EmitOK, ZenonT(30)
<1>4. /\ Books(emitTxReceipt(o, m, n), inbox.arb, inbox.eth, inbox.time)
      /\ emitTxReceipt(o, m, n).all = o.all
  BY <1>5, Zenon DEF Booked
<1> QED
  BY <1>3, <1>4, Zenon DEF Open

\* A message to L1 keeps the books of the open block.
LEMMA OutboxOpen ==
  ASSUME inbox \in InboxState, NEW o, Open(o)
  PROVE  Open(outbox_append(o))
<1>1. Books(o, inbox.arb, inbox.eth, inbox.time) /\ o.all.numLogs # 0
  BY Zenon DEF Open
<1>2. /\ Books(outbox_append(o), inbox.arb, inbox.eth, inbox.time)
      /\ outbox_append(o).all = o.all
  BY <1>1, InboxFields, OutboxOK, Zenon
<1> QED
  BY <1>1, <1>2, Zenon DEF Open

\* A transaction that runs, with the retryable it redeems and its message to
\* L1.
LEMMA RanOpen ==
  ASSUME inbox \in InboxState, NEW o, Open(o), NEW m \in Message, InBlock(m), NEW e \in Effects
  PROVE  Open(Ran(o, m, e))
<1>1. PICK c : c = [m EXCEPT !.arb = inbox.arb, !.eth = inbox.eth, !.time = inbox.time]
  BY Zenon
<1>2. PICK r : r = IF e.redeems THEN emitTxReceipt(o, c, 1) ELSE o
  BY Zenon
<1>3. PICK s : s = IF e.sends THEN outbox_append(r) ELSE r
  BY Zenon
<1>4. Ran(o, m, e) = emitTxReceipt(s, m, 1)
  BY <1>1, <1>2, <1>3, Zenon DEF Ran
<1>5. /\ c \in Message /\ c.arb = inbox.arb /\ c.eth = inbox.eth /\ c.time = inbox.time
  BY <1>1, InboxFields, Zenon DEF Message
<1>6. inbox.eth >= inbox.eth /\ inbox.time >= inbox.time /\ 1 \in {0, 1}
  BY InboxFields
<1>7. InBlock(c)
  BY <1>5, <1>6, Zenon DEF InBlock
<1>8. Open(emitTxReceipt(o, c, 1))
  BY <1>5, <1>6, <1>7, EmitOpen, ZenonT(30)
<1>9. Open(r)
  BY <1>2, <1>8, Zenon
<1>10. Open(outbox_append(r))
  BY <1>9, OutboxOpen, Zenon
<1>11. Open(s)
  BY <1>3, <1>9, <1>10, Zenon
<1> QED
  BY <1>4, <1>6, <1>11, EmitOpen, Zenon

\* handleArrivingTx keeps the books of the open block.
LEMMA ArrivingOpen ==
  ASSUME inbox \in InboxState, NEW o, Open(o), NEW m \in Message, InBlock(m),
         handleArrivingTx(m, o)
  PROVE  Open(out')
<1>1. out' = emitTxReceipt(o, m, 0) \/ \E e \in Effects : out' = Ran(o, m, e)
  BY Zenon DEF handleArrivingTx
<1>2. 0 \in {0, 1}
  OBVIOUS
<1>3. Open(emitTxReceipt(o, m, 0)) /\ \A e \in Effects : Open(Ran(o, m, e))
  BY <1>2, EmitOpen, RanOpen, Zenon
<1> QED
  BY <1>1, <1>3, Zenon

\* The dispatch of a message keeps the books of the open block.
LEMMA DispatchOpen ==
  ASSUME inbox \in InboxState, Open(out), NEW m \in Message, InBlock(m), NEW bq, dispatch(m, bq)
  PROVE  Open(out')
<1>1. 0 \in {0, 1}
  OBVIOUS
<1>2. Open(emitTxReceipt(out, m, 0))
  BY <1>1, EmitOpen, Zenon
<1>3. \/ out' = out \/ out' = emitTxReceipt(out, m, 0)
      \/ handleArrivingTx(m, out) \/ handleArrivingTx(m, emitTxReceipt(out, m, 0))
  BY Zenon DEF dispatch, UnpackBatch, UnpackBls, Unpacks, Drop, handleTx, handleRetryable
<1> QED
  BY <1>2, <1>3, ArrivingOpen, Zenon

\* A step of the loop inside a block.
Continues == /\ inbox'.arb = inbox.arb /\ inbox'.eth = inbox.eth /\ inbox'.time = inbox.time
           /\ inbox'.atStart = inbox.atStart

\* A step within a block keeps the books.
LEMMA SameBlock ==
  ASSUME Continues, Open(out'), inbox.atStart => out'.this.numLogs = 0
  PROVE  LInv'
  BY Zenon DEF Continues, Open, LInv

\* A transaction that runs keeps the books.
LEMMA RunTxOpen ==
  ASSUME QInv, LInv, RunTx
  PROVE  LInv'
<1>1. /\ txQ # <<>> /\ inbox' = inbox
      /\ handleArrivingTx(Head(txQ), out) \/ out' = out
  BY Zenon DEF RunTx, Keeps
<1>2. txQ \in Seq(TxMessage) /\ inbox \in InboxState /\ Open(out)
  BY Zenon DEF QInv, Typed, LInv
<1>3. Head(txQ) \in TxMessage /\ 1 \in DOMAIN txQ /\ Head(txQ) = txQ[1]
  BY <1>1, <1>2
<1>4. Head(txQ) \in Taken /\ Head(txQ) \in Message
  BY <1>3, Zenon DEF Taken, TxMessage, L2Message
<1>5. InBlock(Head(txQ)) /\ ~inbox.atStart
  BY <1>4, Zenon DEF QInv, Lined, Staged
<1>6. Open(out')
  BY <1>1, <1>2, <1>4, <1>5, ArrivingOpen, ZenonT(30)
<1> QED
  BY <1>1, <1>5, <1>6, SameBlock, Zenon DEF Continues

\* The next item of a batch keeps the books.
LEMMA RunBatchItemOpen ==
  ASSUME QInv, LInv, RunBatchItem
  PROVE  LInv'
<1>0. PICK m : m = Head(Head(queuestack_stripEmpties(batchQ)))
  BY Zenon
<1>00. PICK r : r = queuestack_get(batchQ)
  BY Zenon
<1>1. queuestack_stripEmpties(batchQ) # <<>> /\ inbox' = inbox /\ dispatch(m, r)
  BY <1>0, <1>00, Zenon DEF RunBatchItem, NoBatchItem, Keeps
<1>2. batchQ \in Seq(Seq(L2Message)) /\ inbox \in InboxState /\ Open(out)
  BY Zenon DEF QInv, Typed, LInv
<1>3. m \in L2Message /\ m \in Members(batchQ)
  <2>1. m \in L2Message /\ Members(batchQ) = Members(r) \cup {m}
    BY <1>0, <1>00, <1>1, <1>2, GetOK
  <2> QED
    BY <2>1
<1>4. m \in Taken /\ m \in Message
  BY <1>3, Zenon DEF Taken, L2Message
<1>5. InBlock(m) /\ ~inbox.atStart
  BY <1>4, Zenon DEF QInv, Lined, Staged
<1>6. Open(out')
  BY <1>1, <1>2, <1>4, <1>5, DispatchOpen, ZenonT(30)
<1> QED
  BY <1>1, <1>5, <1>6, SameBlock, Zenon DEF Continues

\* The next message of the inbox keeps the books.
LEMMA RunInboxOpen ==
  ASSUME QInv, LInv, RunInboxMessage
  PROVE  LInv'
<1>0. PICK m : m = Head(inbox.queue)
  BY Zenon
<1>1. /\ inbox.queue # <<>> /\ inbox' = [inbox EXCEPT !.queue = Tail(inbox.queue)]
      /\ dispatch(m, batchQ) \/ out' = out
  BY <1>0, Zenon DEF RunInboxMessage
<1>2. inbox \in InboxState /\ Open(out) /\ inbox.queue \in Seq(Message)
  BY Zenon DEF QInv, Typed, LInv, InboxState
<1>3. m \in Message /\ 1 \in DOMAIN inbox.queue /\ m = inbox.queue[1]
  BY <1>0, <1>1, <1>2
<1>4. m \in Queued
  BY <1>3, Zenon DEF Queued
<1>5. InBlock(m) /\ ~inbox.atStart
  BY <1>4, Zenon DEF QInv, Lined, Staged
<1>6. Open(out')
  BY <1>1, <1>2, <1>3, <1>5, DispatchOpen, ZenonT(30)
<1>7. Continues
  BY <1>1, <1>2, Zenon DEF Continues, InboxState
<1> QED
  BY <1>5, <1>6, <1>7, SameBlock, Zenon

\* A message of the node itself keeps the books.
LEMMA SideloadOpen ==
  ASSUME QInv, LInv, NEW t, NEW load, Sideload(t, load)
  PROVE  LInv'
<1>1. PICK q : inbox' = [inbox EXCEPT !.queue = q] /\ out' = out
  BY Zenon DEF Sideload
<1>2. inbox \in InboxState /\ Open(out) /\ (inbox.atStart => out.this.numLogs = 0)
  BY Zenon DEF QInv, Typed, LInv
<1>3. Continues
  BY <1>1, <1>2, Zenon DEF Continues, InboxState
<1> QED
  BY <1>1, <1>2, <1>3, SameBlock, Zenon

\* A message from L1 begins a block, belongs to the one that has begun, or
\* waits for its end.
LEMMA FromL1Open ==
  ASSUME QInv, LInv, NEW kind \in {"L2", "setChainParameters", "endOfBlock"}, NEW t \in Moment,
         NEW load \in Content \cup {Nothing}, FromL1(kind, t, load)
  PROVE  LInv'
<1>0. PICK m : m = incomingRequestFromRaw(kind, t[1], t[2], load, <<l1 + 1>>, FALSE)
  BY Zenon
<1>1. PICK q : /\ out' = out
               /\ \/ inbox' = [inbox EXCEPT !.pending = m]
                  \/ inbox' = inbox
                  \/ /\ inbox.atStart \/ ~ (m.eth > inbox.eth \/ m.time > inbox.time)
                     /\ inbox' = [inbox EXCEPT !.queue = q, !.eth = m.eth, !.arb = m.arb,
                                               !.time = m.time, !.atStart = FALSE]
  BY <1>0, Zenon DEF FromL1
<1>2. /\ inbox \in InboxState /\ l1 \in Nat /\ Open(out)
      /\ (inbox.atStart => out.this.numLogs = 0)
  BY Zenon DEF QInv, Typed, LInv
<1>3. <<l1 + 1>> \in Id /\ FALSE \in BOOLEAN
  BY <1>2 DEF Id
<1>4. m \in Message /\ m.arb = inbox.arb /\ m.eth >= inbox.eth /\ m.time >= inbox.time
  <2>1. Incoming(m, kind, load, <<l1 + 1>>, FALSE)
    BY <1>0, <1>2, <1>3, IncomingOK, Zenon
  <2> QED
    BY <2>1, Zenon DEF Incoming
<1>5. CASE inbox' = [inbox EXCEPT !.pending = m] \/ inbox' = inbox
  <2>1. Continues
    BY <1>2, <1>5, Zenon DEF Continues, InboxState
  <2> QED
    BY <1>1, <1>2, <2>1, SameBlock, ZenonT(30)
<1>6. CASE /\ inbox.atStart \/ ~ (m.eth > inbox.eth \/ m.time > inbox.time)
           /\ inbox' = [inbox EXCEPT !.queue = q, !.eth = m.eth, !.arb = m.arb,
                                     !.time = m.time, !.atStart = FALSE]
  <2>1. m.eth \in Nat /\ m.time \in Nat
    BY <1>4, Zenon DEF Message
  <2>2. /\ inbox'.arb = inbox.arb /\ inbox'.eth = m.eth /\ inbox'.time = m.time
        /\ inbox'.atStart = FALSE
    BY <1>2, <1>4, <1>6, ZenonT(30) DEF InboxState
  <2>3. inbox.arb \in Nat /\ inbox.eth \in Nat /\ inbox.time \in Nat
    BY <1>2, InboxFields
  <2>4. Books(out, inbox.arb, inbox.eth, inbox.time) /\ out.all.numLogs # 0
    BY <1>2, Zenon DEF Open
  <2>5. inbox.eth <= m.eth /\ inbox.time <= m.time
    BY <1>4, <2>1, <2>3
  <2>6. Books(out, inbox.arb, m.eth, m.time)
    <3>1. CASE inbox.atStart
      BY <1>2, <2>1, <2>3, <2>4, <2>5, <3>1, RestartOK, ZenonT(30)
    <3>2. CASE ~inbox.atStart
      <4>1. m.eth = inbox.eth /\ m.time = inbox.time
        BY <1>6, <2>1, <2>3, <2>5, <3>2
      <4> QED
        BY <2>4, <4>1, Zenon
    <3> QED
      BY <3>1, <3>2
  <2> QED
    BY <1>1, <2>2, <2>4, <2>6, ZenonT(30) DEF LInv, Open
<1> QED
  BY <1>1, <1>5, <1>6

\* The end of a block keeps the books.
LEMMA EndBlockOpen ==
  ASSUME QInv, LInv, EndBlock
  PROVE  LInv'
<1>0. PICK p : p = inbox.pending
  OBVIOUS
<1>1. PICK q, a :
        /\ p # None
        /\ out' = outputStats_endOfBlock(out, inbox.arb, inbox.eth, inbox.time, spacing)
        /\ inbox' = [inbox EXCEPT !.pending = None, !.arb = @ + 1, !.eth = p.eth,
                                  !.time = p.time, !.queue = q, !.atStart = a]
  BY <1>0, Zenon DEF EndBlock
<1>2. inbox \in InboxState /\ spacing \in Spacings
  BY Zenon DEF QInv, Typed
<1>3. Held = {p} /\ p \in Message
  BY <1>0, <1>1, <1>2, PendingHeld
<1>4. p.eth \in Nat /\ p.time \in Nat /\ p.eth >= inbox.eth /\ p.time >= inbox.time
  BY <1>3, Zenon DEF Message, QInv, Staged
<1>5. inbox.arb \in Nat /\ inbox.eth \in Nat /\ inbox.time \in Nat /\ spacing \in Nat
  BY <1>2, InboxFields, ArrivalAssumption
<1>6. inbox.eth <= p.eth /\ inbox.time <= p.time
  BY <1>4, <1>5
<1>7. Books(out, inbox.arb, inbox.eth, inbox.time)
  BY Zenon DEF LInv, Open
<1>8. Books(out', inbox.arb + 1, p.eth, p.time) /\ out'.this.numLogs = 0 /\ out'.all.numLogs # 0
  <2>1. Ended(outputStats_endOfBlock(out, inbox.arb, inbox.eth, inbox.time, spacing),
              inbox.arb + 1, p.eth, p.time)
    BY <1>4, <1>5, <1>6, <1>7, EndOK, ZenonT(30)
  <2> QED
    BY <1>1, <2>1, Zenon DEF Ended
<1>9. inbox'.arb = inbox.arb + 1 /\ inbox'.eth = p.eth /\ inbox'.time = p.time
  BY <1>1, <1>2, Zenon DEF InboxState
<1> QED
  BY <1>8, <1>9, Zenon DEF LInv, Open

\* The books are in order at first.
LEMMA InitOpen == Init => LInv
<1> SUFFICES ASSUME Init PROVE LInv
  OBVIOUS
<1>1. /\ inbox = [queue |-> <<>>, arb |-> 1, eth |-> 0, time |-> 0, atStart |-> TRUE,
                  pending |-> None]
      /\ out = outputStats_endOfBlock(output_init, 0, 0, 0, spacing) /\ spacing \in Spacings
  BY Zenon DEF Init
<1>2. inbox.arb = 1 /\ inbox.eth = 0 /\ inbox.time = 0
  BY <1>1, Zenon
<1>3. spacing \in Nat /\ 0 \in Nat /\ 0 <= 0 /\ 0 + 1 = 1
  BY <1>1, ArrivalAssumption
<1>4. Books(out, 0 + 1, 0, 0) /\ out.this.numLogs = 0 /\ out.all.numLogs # 0
  <2>1. Ended(outputStats_endOfBlock(output_init, 0, 0, 0, spacing), 0 + 1, 0, 0)
    BY <1>3, FirstBooks, EndOK, Zenon
  <2> QED
    BY <1>1, <2>1, Zenon DEF Ended
<1> QED
  BY <1>2, <1>3, <1>4, Zenon DEF LInv, Open

\* Every step keeps the books.
LEMMA NextOpen == QInv /\ LInv /\ [Next]_vars => LInv'
<1> SUFFICES ASSUME QInv, LInv, [Next]_vars PROVE LInv'
  OBVIOUS
<1>1. CASE UNCHANGED vars
  BY <1>1, Zenon DEF vars, LInv, Open
<1>2. CASE \E t \in Moment, load \in SideLoad : Sideload(t, load)
  BY <1>2, SideloadOpen, Zenon
<1>3. CASE \E t \in Moment, load \in Load : FromL1("L2", t, load)
  <2>1. PICK t \in Moment, load \in Load : FromL1("L2", t, load)
    BY <1>3
  <2>2. load \in Content \cup {Nothing}
    BY ContentAssumption
  <2>3. "L2" \in {"L2", "setChainParameters", "endOfBlock"}
    OBVIOUS
  <2> QED
    BY <2>1, <2>2, <2>3, FromL1Open, ZenonT(30)
<1>4. CASE \E t \in Moment : \/ FromL1("setChainParameters", t, Nothing)
                             \/ FromL1("endOfBlock", t, Nothing)
  <2>1. PICK t \in Moment : \/ FromL1("setChainParameters", t, Nothing)
                            \/ FromL1("endOfBlock", t, Nothing)
    BY <1>4
  <2>2. /\ Nothing \in Content \cup {Nothing}
        /\ "setChainParameters" \in {"L2", "setChainParameters", "endOfBlock"}
        /\ "endOfBlock" \in {"L2", "setChainParameters", "endOfBlock"}
    OBVIOUS
  <2> QED
    BY <2>1, <2>2, FromL1Open, Zenon
<1>5. CASE Loop
  BY <1>5, RunTxOpen, RunBatchItemOpen, RunInboxOpen, EndBlockOpen, ZenonT(30) DEF Loop
<1> QED
  BY <1>1, <1>2, <1>3, <1>4, <1>5, ZenonT(30) DEF Next, Arrival

\* The statistics and the receipt data of output.mini describe the log, and
\* the inbox's block is the one they are kept for, in every reachable state.
THEOREM BooksInvariant == Spec => [](QInv /\ LInv)
  BY InitLine, NextLine, InitOpen, NextOpen, PTL DEF Spec

\* The inbox (getFromL1Inbox): one message at a time, one waits only in a
\* block that has begun, and its number is that of the block about to end.
THEOREM InboxTypeCorrect == Spec => []TypeOK
<1>1. ASSUME QInv, LInv PROVE TypeOK
  <2>1. /\ inbox \in InboxState /\ Len(inbox.queue) <= 1 /\ spacing \in Spacings
        /\ inbox.atStart => Queued = {} /\ Held = {}
        /\ inbox.atStart => out.this.numLogs = 0
        /\ seqNum \in [Caller -> Nat]
        /\ \A p \in Held : p.arb = inbox.arb
    BY <1>1, Zenon DEF QInv, Typed, Staged, Counts, LInv
  <2>2. inbox.queue \in Seq(Message)
    BY <2>1, Zenon DEF InboxState
  <2>3. Queued = {} => inbox.queue = <<>>
    <3>1. PICK q : q = inbox.queue
      OBVIOUS
    <3>2. q \in Seq(Message) /\ Len(q) \in Nat /\ DOMAIN q = 1 .. Len(q)
      BY <2>2, <3>1, LenProperties
    <3>3. q # <<>> => Len(q) # 0
      BY <3>2, EmptySeq
    <3>4. q # <<>> => 1 \in DOMAIN q
      BY <3>2, <3>3
    <3> QED
      BY <3>1, <3>4, Zenon DEF Queued
  <2>4. inbox.pending # None => inbox.pending \in Held
    BY DEF Held
  <2> QED
    BY <2>1, <2>3, <2>4, InboxFields, ZenonT(30) DEF TypeOK
<1> QED
  BY <1>1, BooksInvariant, PTL

\* The logs of a kind, in the terms of the lemmas.
LEMMA LogsAt == \A t : Logs(t) = At(out.logs, t)
  BY Zenon DEF Logs, At

\* The logs of a kind before a position, in the terms of the lemmas.
LEMMA BeforeAt == \A t, i : Before(t, i) = Cardinality(Below(At(out.logs, t), i))
  BY LogsAt, Zenon DEF Before, Below

\* What the books say of the log.
LEMMA BooksFacts ==
  ASSUME LInv
  PROVE  /\ out.logs \in Seq(Log) /\ Chain(out.logs) /\ Placed(out.logs, inbox.eth, inbox.time)
         /\ \A t : At(out.logs, t) \subseteq Nat
<1>1. out.logs \in Seq(Log) /\ Chain(out.logs) /\ Placed(out.logs, inbox.eth, inbox.time)
  BY Zenon DEF LInv, Open, Books, OutputState
<1>2. DOMAIN out.logs \subseteq Nat
  BY <1>1
<1> QED
  BY <1>1, <1>2, Zenon DEF At

\* outputStats_endOfBlock and getFromL1Inbox: the summaries number the blocks
\* without a gap, time never goes back, and every receipt is inside the block
\* it names, although messages wait for the end of a block and others are
\* sideloaded before it.
THEOREM ChainOfBlocks == Spec => []BlocksInOrder
<1> DEFINE L == out.logs
           B == At(L, "block")
           R == At(L, "receipt")
<1>1. ASSUME LInv PROVE SummariesInOrder
  <2>1. \A i \in B : BlockOK(L, i)
    BY <1>1, BooksFacts, Zenon DEF Chain
  <2>2. \A i \in B : /\ L[i].arb = Cardinality(Below(B, i)) /\ L[i].last = L[i].arb - 1
                     /\ \A j \in B : j < i => L[j].eth <= L[i].eth /\ L[j].time <= L[i].time
    BY <2>1, Zenon DEF BlockOK, Below
  <2> QED
    BY <2>2, LogsAt, BeforeAt, Zenon DEF SummariesInOrder
<1>2. ASSUME LInv, NEW i \in R
      PROVE  /\ L[i].arb = Cardinality(Below(B, i))
             /\ Above(B, i) = {} => Within(L[i], inbox.eth, inbox.time)
             /\ \A j \in B : i < j /\ Between(B, i, j) = {} => Within(L[i], L[j].eth, L[j].time)
  BY <1>2, BooksFacts, ZenonT(30) DEF Chain, ReceiptOK, Placed
<1>3. ASSUME LInv, NEW i \in R
      PROVE  LET r == L[i]
                 later == {j \in B : j > i}
                 eth  == IF later = {} THEN inbox.eth
                         ELSE L[CHOOSE j \in later : \A k \in later : j <= k].eth
                 time == IF later = {} THEN inbox.time
                         ELSE L[CHOOSE j \in later : \A k \in later : j <= k].time
             IN  /\ ~r.side => r.eth = eth /\ r.time = time
                 /\ r.side => r.eth >= eth /\ r.time >= time
  <2> DEFINE later == {j \in B : j > i}
             n == CHOOSE j \in later : \A k \in later : j <= k
  <2>1. B \subseteq Nat /\ i \in Nat
    BY <1>3, BooksFacts, Zenon
  <2> HIDE DEF L, B, R
  <2>2. later = Above(B, i) /\ later \subseteq Nat
    BY <2>1, Zenon DEF Above
  <2>3. CASE later = {}
    <3>1. Within(L[i], inbox.eth, inbox.time)
      BY <1>2, <1>3, <2>2, <2>3, Zenon
    <3> QED
      BY <2>3, <3>1, Zenon DEF Within
  <2>4. CASE later # {}
    <3> HIDE DEF later
    <3>1. \E j \in later : \A k \in later : j <= k
      BY <2>2, <2>4, Least, Zenon
    <3>2. n \in later /\ \A k \in later : n <= k
      BY <3>1, Zenon
    <3> HIDE DEF n
    <3>3. n \in B /\ i < n /\ n \in Nat
      BY <2>2, <3>2, Zenon DEF Above
    <3>4. Between(B, i, n) = {}
      <4>1. \A j \in B : i < j => n <= j /\ j \in Nat
        BY <2>1, <2>2, <3>2, Zenon DEF Above
      <4>2. ASSUME NEW j \in B, i < j, j < n PROVE FALSE
        BY <2>1, <3>3, <4>1, <4>2
      <4> QED
        BY <4>2, Zenon DEF Between
    <3>5. Within(L[i], L[n].eth, L[n].time)
      BY <1>2, <1>3, <3>3, <3>4, ZenonT(30)
    <3> QED
      BY <2>4, <3>5, Zenon DEF Within, n, later
  <2> QED
    BY <2>3, <2>4
<1>4. ASSUME LInv PROVE ReceiptsInTheirBlock
  <2>1. Logs("block") = B /\ Logs("receipt") = R
    BY LogsAt, Zenon
  <2>2. \A i \in R : L[i].arb = Before("block", i)
    BY <1>2, <1>4, BeforeAt, Zenon
  <2> HIDE DEF B, R
  <2> QED
    BY <1>3, <1>4, <2>1, <2>2, ZenonT(30) DEF ReceiptsInTheirBlock
<1>5. LInv => BlocksInOrder
  BY <1>1, <1>4, Zenon DEF BlocksInOrder
<1> QED
  BY <1>5, BooksInvariant, PTL

\* A bounded set of natural numbers has a largest element.
LEMMA Largest ==
  ASSUME NEW T, NEW n \in Nat, T # {}, \A k \in T : k \in Nat /\ k < n
  PROVE  \E m \in T : \A k \in T : k <= m
<1> DEFINE D == {n - k : k \in T}
<1>1. D \subseteq Nat /\ D # {}
  OBVIOUS
<1>2. PICK d \in D : \A e \in D : d <= e
  <2> HIDE DEF D
  <2> QED
    BY <1>1, Least, Zenon
<1>3. PICK m \in T : d = n - m
  OBVIOUS
<1>4. ASSUME NEW k \in T PROVE k <= m
  <2>1. n - k \in D
    OBVIOUS
  <2>2. d <= n - k
    BY <1>2, <2>1
  <2> QED
    BY <1>3, <2>2
<1> QED
  BY <1>4

\* outputStats_endOfBlock and emitTxReceipt: the totals in a summary, and the
\* indices in a receipt, are what a reader of the log counts.
THEOREM CountsOfTheLog == Spec => []CountsExact
<1> DEFINE L == out.logs
           B == At(L, "block")
           R == At(L, "receipt")
<1>1. ASSUME LInv, NEW i \in R
      PROVE  LET same == {j \in R : j < i /\ Before("block", j) = Before("block", i)}
             IN  /\ L[i].index = Cardinality(same)
                 /\ L[i].firstLog = Cardinality({j \in same : L[j].evmLogs = 1})
  <2> DEFINE same == {j \in R : j < i /\ Before("block", j) = Before("block", i)}
  <2>1. L[i].index = Cardinality(Same(L, i)) /\ L[i].firstLog = Cardinality(Same(L, i) \cap Evm(L))
    BY <1>1, BooksFacts, Zenon DEF Chain, ReceiptOK
  <2>2. same = Same(L, i)
    BY BeforeAt, Zenon DEF Same, Below
  <2>3. {j \in same : L[j].evmLogs = 1} = Same(L, i) \cap Evm(L)
    <3>1. \A j \in same : j \in R
      BY Zenon
    <3> HIDE DEF same, L, R
    <3> QED
      BY <2>2, <3>1, Zenon DEF Evm, R
  <2> HIDE DEF same
  <2>4. L[i].index = Cardinality(same) /\ L[i].firstLog = Cardinality({j \in same : L[j].evmLogs = 1})
    BY <2>1, <2>2, <2>3, Zenon
  <2> QED
    BY <2>4, Zenon DEF same
<1>2. ASSUME LInv PROVE ReceiptsIndexed
  BY <1>1, <1>2, LogsAt, ZenonT(30) DEF ReceiptsIndexed
<1>3. ASSUME LInv, NEW i \in B
      PROVE  LET prev == {j \in B : j < i}
                 all0 == IF prev = {} THEN outputStats_new
                         ELSE L[CHOOSE j \in prev : \A k \in prev : k <= j].all
             IN  L[i].this = Added(all0, L[i].all)
  <2> DEFINE prev == {j \in B : j < i}
             n == CHOOSE j \in prev : \A k \in prev : k <= j
  <2>1. BlockOK(L, i) /\ B \subseteq Nat
    BY <1>3, BooksFacts, Zenon DEF Chain
  <2>2. prev = Below(B, i)
    BY Zenon DEF Below
  <2>3. /\ prev = {} => L[i].this = Added(outputStats_new, L[i].all)
        /\ \A j \in prev : Between(B, j, i) = {} => L[i].this = Added(L[j].all, L[i].all)
    BY <2>1, <2>2, Zenon DEF BlockOK
  <2>4. CASE prev = {}
    BY <2>3, <2>4, Zenon
  <2>5. CASE prev # {}
    <3>1. i \in Nat /\ \A k \in prev : k \in Nat /\ k < i
      BY <2>1, Zenon
    <3>2. prev \subseteq B /\ \A j \in B : j < i => j \in prev
      BY Zenon
    <3> HIDE DEF prev, L, B
    <3>3. \E j \in prev : \A k \in prev : k <= j
      BY <2>5, <3>1, Largest, Zenon
    <3>4. n \in prev /\ \A k \in prev : k <= n
      BY <3>3, Zenon
    <3> HIDE DEF n
    <3>5. Between(B, n, i) = {}
      <4>1. \A j \in B : j < i => j <= n /\ j \in Nat
        BY <3>1, <3>2, <3>4, ZenonT(30)
      <4>2. n \in Nat
        BY <3>1, <3>4, Zenon
      <4> QED
        BY <4>1, <4>2 DEF Between
    <3>6. L[i].this = Added(L[n].all, L[i].all)
      BY <2>3, <3>4, <3>5, ZenonT(30)
    <3> QED
      BY <2>5, <3>6, Zenon DEF n, prev
  <2> QED
    BY <2>4, <2>5
<1>4. ASSUME LInv, NEW i \in B
      PROVE  /\ L[i].all.numLogs = i /\ L[i].all.numTx = Before("receipt", i)
             /\ L[i].all.numSends = Before("tree", i)
             /\ L[i].all.numEvmLogs = Cardinality({j \in R : j < i /\ L[j].evmLogs = 1})
  <2>1. BlockOK(L, i)
    BY <1>4, BooksFacts, Zenon DEF Chain
  <2>2. {j \in R : j < i /\ L[j].evmLogs = 1} = Below(Evm(L), i)
    <3> HIDE DEF L
    <3> QED
      BY Zenon DEF Below, Evm
  <2> QED
    BY <2>1, <2>2, BeforeAt, Zenon DEF BlockOK
<1>5. ASSUME LInv PROVE StatsCountLogs
  <2>1. Logs("block") = B /\ Logs("receipt") = R
    BY LogsAt, Zenon
  <2> HIDE DEF B, R
  <2> QED
    BY <1>3, <1>4, <1>5, <2>1, ZenonT(30) DEF StatsCountLogs
<1>6. LInv => CountsExact
  BY <1>2, <1>5, Zenon DEF CountsExact
<1> QED
  BY <1>6, BooksInvariant, PTL
=============================================================================
