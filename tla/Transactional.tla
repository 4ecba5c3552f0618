---------------------------- MODULE Transactional ---------------------------
(***************************************************************************)
(* What the call stack promises (the comment on EvmCallFrame): a running   *)
(* transaction is a nest of levels, each with a whole state of its own.  A *)
(* level works on its state alone.  When it succeeds its caller goes on    *)
(* from that state; when it fails, or is static, its caller goes on from   *)
(* the state it had before the call.  Nothing reaches the committed store  *)
(* or the outbox before the outermost level has succeeded.  There are no   *)
(* cached accounts here.  A level is [as, st, static, logs, sends].        *)
(***************************************************************************)
EXTENDS CallFrames

VARIABLES committed, levels, sent

tvars == <<committed, levels, sent>>

depth == Len(levels)
top == levels[depth]
Below(n) == SubSeq(levels, 1, n)

\* ETH moves, with at most one account debited, contracts are added, tickets
\* used up.  Contracts keep their storage, and their code unless they are
\* empty, which is how a failed creation leaves them.
Rearranges(s, t) ==
  /\ Wealth(t) + t.burnt = Wealth(s) + s.burnt
  /\ \E debited \in Addr : \A a \in Addr \ {debited} : t.bal[a] >= s.bal[a]
  /\ \A a \in Addr : s.code[a] => /\ t.cell[a] = s.cell[a]
                                  /\ t.code[a] \/ (s.bal[a] = 0 /\ s.cell[a] = 0)
  /\ t.tickets \subseteq s.tickets

\* A message to L1 takes its wei from the account that runs.
Sends(l, m) ==
  \E n \in 0 .. l.st.bal[l.as] :
    m = [l EXCEPT !.st.bal[l.as] = @ - n, !.st.cell[l.as] = 1,
                  !.logs = @ + 1, !.sends = Append(@, n)]

\* One storage cell is written.
Writes(s, t) == \E a \in Addr, c \in 0 .. 1 : t = [s EXCEPT !.cell[a] = c]

\* Gas is settled: wei leave the gas escrow for some accounts, and contracts
\* in D, which executed SELFDESTRUCT, may be gone.
Settles(s, t, D) ==
  /\ Wealth(t) + t.burnt = Wealth(s) + s.burnt
  /\ t.escrow = [s.escrow EXCEPT ![EscrowStoreID_txGas] = t.escrow[EscrowStoreID_txGas]]
  /\ t.tickets = s.tickets
  /\ \A a \in Addr : \/ a \in D
                     \/ /\ t.code[a] = s.code[a]
                        /\ t.cell[a] = s.cell[a]
                        /\ t.bal[a] >= s.bal[a]
                        /\ t.seq[a] = s.seq[a]

TInit == levels = <<>> /\ sent = <<>>

\* A transaction that runs no code.
Pays == /\ levels = <<>>
        /\ Rearranges(committed, committed')
        /\ committed'.cell = committed.cell
        /\ UNCHANGED <<levels, sent>>

Begin == /\ levels = <<>>
         /\ Rearranges(committed, committed')
         /\ committed'.cell = committed.cell
         /\ depth' = 1
         /\ levels'[1].logs = 0 /\ levels'[1].sends = <<>>
         /\ Rearranges(committed', levels'[1].st)
         /\ UNCHANGED sent

Work == /\ depth > 0
        /\ depth' = depth
        /\ levels' = Append(Below(depth - 1), levels'[depth])
        /\ \/ Sends(top, top')
           \/ /\ Rearranges(top.st, top'.st) \/ Writes(top.st, top'.st)
              /\ top'.static = top.static
              /\ top'.sends = top.sends
        /\ UNCHANGED <<committed, sent>>

Call == /\ depth > 0
        /\ depth' = depth + 1
        /\ levels' = Below(depth - 1) \o <<levels'[depth], levels'[depth + 1]>>
        /\ Rearranges(top.st, levels'[depth].st)
        /\ levels'[depth] = [top EXCEPT !.st = levels'[depth].st,
                                        !.as = levels'[depth].as]
        /\ Rearranges(levels'[depth].st, levels'[depth + 1].st)
        /\ levels'[depth + 1] = [top EXCEPT !.st = levels'[depth + 1].st,
                                            !.as = levels'[depth + 1].as,
                                            !.static = levels'[depth + 1].static]
        /\ UNCHANGED <<committed, sent>>

\* The outcome of the innermost level, or the state from before the call.
\* The caller may set the call's logs apart.
Returns(adopt) ==
  LET from == IF adopt THEN top ELSE levels[depth - 1]
  IN  /\ depth > 1
      /\ adopt => ~top.static
      /\ levels' = Append(Below(depth - 2), levels'[depth - 1])
      /\ Rearranges(from.st, top'.st)
      /\ top' = [from EXCEPT !.st = top'.st, !.as = top'.as, !.logs = top'.logs,
                             !.static = levels[depth - 1].static]
      /\ top'.logs \in {from.logs, levels[depth - 1].logs}
      /\ UNCHANGED <<committed, sent>>

Commit == /\ depth = 1
          /\ levels' = <<>>
          /\ Settles(top.st, committed', top.st.dead \cup {top.as})
          /\ sent' = sent \o top.sends

Abort == /\ depth = 1
         /\ levels' = <<>>
         /\ Settles(committed, committed', {})
         /\ UNCHANGED sent

TNext == \/ Pays \/ Begin \/ Work \/ Call
         \/ \E adopt \in BOOLEAN : Returns(adopt)
         \/ Commit \/ Abort

TSpec == TInit /\ [][TNext]_tvars
=============================================================================
