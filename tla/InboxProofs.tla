----------------------------- MODULE InboxProofs ----------------------------
(***************************************************************************)
(* Proofs about the main run loop, for every set of callers, of contents,  *)
(* of moments and every bound.                                             *)
(***************************************************************************)
EXTENDS Inbox, NaturalsInduction, WellFoundedInduction, SequenceTheorems, TLAPS

-----------------------------------------------------------------------------
(* The queue stack of batches.                                             *)

\* Messages from L1 are handled in the order of their ids.
Goes(m, x) == m.side \/ x.side \/ Precedes(m.id, x.id)

Members(qs) == UNION {{qs[k][i] : i \in DOMAIN qs[k]} : k \in DOMAIN qs}

InTurn(q) == \A i, j \in DOMAIN q : i < j => Goes(q[i], q[j])

Sorted(qs) ==
  /\ \A k \in DOMAIN qs : InTurn(qs[k])
  /\ \A k, l \in DOMAIN qs : k < l =>
       \A i \in DOMAIN qs[k], j \in DOMAIN qs[l] : Goes(qs[k][i], qs[l][j])

\* A member of the queue stack is somewhere in it.
LEMMA MemberAt ==
  ASSUME NEW qs, NEW x \in Members(qs)
  PROVE  \E k \in DOMAIN qs : \E i \in DOMAIN qs[k] : x = qs[k][i]
  BY DEF Members

\* What is in the queue stack is a member of it.
LEMMA AtMember ==
  ASSUME NEW qs, NEW k \in DOMAIN qs, NEW i \in DOMAIN qs[k]
  PROVE  qs[k][i] \in Members(qs)
  BY DEF Members

\* A set of natural numbers has a least element.
LEMMA Least ==
  ASSUME NEW T, T \subseteq Nat, T # {}
  PROVE  \E m \in T : \A k \in T : m <= k
<1>1. PICK m \in T : \A k \in T : ~ (<<k, m>> \in OpToRel(<, Nat))
  BY NatLessThanWellFounded, WFMin, Zenon
<1>2. \A k \in T : ~ (k < m)
  BY <1>1, Zenon DEF OpToRel
<1> QED
  BY <1>2

\* queuestack_stripEmpties drops the empty queues before the first one that
\* is not, and nothing else.
LEMMA Stripped ==
  ASSUME NEW S, NEW qs \in Seq(Seq(S))
  PROVE  \/ queuestack_stripEmpties(qs) = <<>> /\ \A k \in DOMAIN qs : qs[k] = <<>>
         \/ \E p \in DOMAIN qs :
              /\ queuestack_stripEmpties(qs) = SubSeq(qs, p, Len(qs))
              /\ qs[p] # <<>>
              /\ \A k \in DOMAIN qs : qs[k] # <<>> => p <= k
<1> DEFINE live == {i \in DOMAIN qs : qs[i] # <<>>}
<1>1. CASE live = {}
  BY <1>1, Zenon DEF queuestack_stripEmpties
<1>2. CASE live # {}
  <2>1. \E i \in live : \A j \in live : i <= j
    <3>1. live \subseteq Nat
      OBVIOUS
    <3> HIDE DEF live
    <3> QED
      BY <1>2, <3>1, Least, Zenon
  <2> DEFINE p == CHOOSE i \in live : \A j \in live : i <= j
  <2>2. p \in live /\ \A j \in live : p <= j
    BY <2>1, Zenon
  <2>3. queuestack_stripEmpties(qs) = SubSeq(qs, p, Len(qs))
    BY <1>2, Zenon DEF queuestack_stripEmpties
  <2> HIDE DEF p
  <2> QED
    BY <2>2, <2>3, Zenon
<1> QED
  BY <1>1, <1>2

\* Positions that are counted from p.
LEMMA Shifted ==
  ASSUME NEW n \in Nat, NEW p \in Nat \ {0}, p <= n, NEW k \in 1 .. (n - p + 1)
  PROVE  p + k - 1 \in 1 .. n
  OBVIOUS

\* queuestack_stripEmpties drops empty queues and nothing else.
LEMMA StripOK ==
  ASSUME NEW S, NEW qs \in Seq(Seq(S)), NEW s, s = queuestack_stripEmpties(qs)
  PROVE  /\ s \in Seq(Seq(S))
         /\ Members(s) = Members(qs)
         /\ Sorted(qs) => Sorted(s)
         /\ s # <<>> => s[1] # <<>>
<1>1. CASE s = <<>> /\ \A k \in DOMAIN qs : qs[k] = <<>>
  BY <1>1 DEF Members, Sorted
<1>2. ASSUME NEW p \in DOMAIN qs, s = SubSeq(qs, p, Len(qs)), qs[p] # <<>>,
             \A k \in DOMAIN qs : qs[k] # <<>> => p <= k
      PROVE  /\ s \in Seq(Seq(S)) /\ Members(s) = Members(qs)
             /\ Sorted(qs) => Sorted(s)
             /\ s # <<>> => s[1] # <<>>
  <2>1. /\ s \in Seq(Seq(S)) /\ Len(s) = Len(qs) - p + 1
        /\ p \in Nat \ {0} /\ Len(qs) \in Nat /\ p <= Len(qs)
        /\ \A k \in 1 .. Len(s) : s[k] = qs[p + k - 1]
    <3>1. p \in Int /\ Len(qs) \in Int /\ \A i \in p .. Len(qs) : qs[i] \in Seq(S)
      OBVIOUS
    <3>2. p <= Len(qs) /\ p \in Nat \ {0}
      OBVIOUS
    <3>3. /\ s \in Seq(Seq(S)) /\ Len(s) = IF p <= Len(qs) THEN Len(qs) - p + 1 ELSE 0
          /\ \A i \in 1 .. Len(qs) - p + 1 : s[i] = qs[p + i - 1]
      BY <1>2, <3>1, SubSeqProperties
    <3> QED
      BY <3>2, <3>3
  <2>2. \A k \in DOMAIN s : p + k - 1 \in DOMAIN qs /\ s[k] = qs[p + k - 1]
    <3>1. DOMAIN s = 1 .. Len(s) /\ DOMAIN qs = 1 .. Len(qs)
      BY <2>1, LenProperties
    <3>2. ASSUME NEW k \in 1 .. Len(s) PROVE p + k - 1 \in 1 .. Len(qs)
      BY <2>1, Shifted, Zenon
    <3> QED
      BY <2>1, <3>1, <3>2, Zenon
  <2>3. \A k \in DOMAIN qs : qs[k] # <<>> => k - p + 1 \in DOMAIN s /\ s[k - p + 1] = qs[k]
    BY <1>2, <2>1
  <2>4. Members(s) = Members(qs)
    <3>1. ASSUME NEW x \in Members(s) PROVE x \in Members(qs)
      <4>1. PICK k \in DOMAIN s : \E i \in DOMAIN s[k] : x = s[k][i]
        BY MemberAt
      <4>2. PICK i \in DOMAIN s[k] : x = s[k][i]
        BY <4>1
      <4> QED
        BY <2>2, <4>2, AtMember
    <3>2. ASSUME NEW x \in Members(qs) PROVE x \in Members(s)
      <4>1. PICK k \in DOMAIN qs : \E i \in DOMAIN qs[k] : x = qs[k][i]
        BY MemberAt
      <4>2. PICK i \in DOMAIN qs[k] : x = qs[k][i]
        BY <4>1
      <4>3. qs[k] # <<>>
        BY <4>2
      <4> QED
        BY <2>3, <4>2, <4>3, AtMember
    <3> QED
      BY <3>1, <3>2, Zenon
  <2>5. ASSUME Sorted(qs) PROVE Sorted(s)
    <3>1. \A k \in DOMAIN s : InTurn(s[k])
      BY <2>2, <2>5, Zenon DEF Sorted
    <3>2. ASSUME NEW k \in DOMAIN s, NEW l \in DOMAIN s, k < l
          PROVE  \A i \in DOMAIN s[k], j \in DOMAIN s[l] : Goes(s[k][i], s[l][j])
      <4>1. p + k - 1 < p + l - 1
        BY <2>1, <3>2
      <4> QED
        BY <2>2, <2>5, <4>1, Zenon DEF Sorted
    <3> QED
      BY <3>1, <3>2, Zenon DEF Sorted
  <2>6. s[1] # <<>>
    BY <1>2, <2>1
  <2> QED
    BY <2>1, <2>4, <2>5, <2>6
<1> QED
  BY <1>1, <1>2, Stripped, Zenon

\* The queue q in front of what is left of the queue stack (queuestack_push).
LEMMA PushOK ==
  ASSUME NEW S, NEW qs \in Seq(Seq(S)), NEW q \in Seq(S), NEW r, r = queuestack_push(qs, q)
  PROVE  /\ r \in Seq(Seq(S))
         /\ Members(r) = Members(qs) \cup {q[i] : i \in DOMAIN q}
         /\ (/\ Sorted(qs) /\ InTurn(q)
             /\ \A i \in DOMAIN q, x \in Members(qs) : Goes(q[i], x)) => Sorted(r)
<1> DEFINE s == queuestack_stripEmpties(qs)
<1>1. s \in Seq(Seq(S)) /\ Members(s) = Members(qs) /\ (Sorted(qs) => Sorted(s))
  BY StripOK
<1>2. r = <<q>> \o s
  BY Zenon DEF queuestack_push
<1> HIDE DEF s
<1>3. /\ r \in Seq(Seq(S)) /\ Len(r) = Len(s) + 1 /\ r[1] = q
      /\ \A k \in 1 .. Len(s) : r[k + 1] = s[k]
  BY <1>1, <1>2
<1>4. /\ DOMAIN s = 1 .. Len(s) /\ DOMAIN r = 1 .. Len(r) /\ Len(s) \in Nat
  BY <1>1, <1>3, LenProperties
<1>5. /\ 1 \in DOMAIN r /\ r[1] = q
      /\ \A k \in DOMAIN s : k + 1 \in DOMAIN r /\ r[k + 1] = s[k]
      /\ \A k \in DOMAIN r : k # 1 => k - 1 \in DOMAIN s /\ r[k] = s[k - 1]
  BY <1>3, <1>4
<1>6. Members(r) = Members(qs) \cup {q[i] : i \in DOMAIN q}
  <2>1. ASSUME NEW x \in Members(r) PROVE x \in Members(s) \cup {q[i] : i \in DOMAIN q}
    <3>1. PICK k \in DOMAIN r : \E i \in DOMAIN r[k] : x = r[k][i]
      BY MemberAt
    <3>2. PICK i \in DOMAIN r[k] : x = r[k][i]
      BY <3>1
    <3>3. CASE k = 1
      BY <1>5, <3>2, <3>3
    <3>4. CASE k # 1
      BY <1>5, <3>2, <3>4, AtMember
    <3> QED
      BY <3>3, <3>4
  <2>2. ASSUME NEW x \in Members(s) PROVE x \in Members(r)
    <3>1. PICK k \in DOMAIN s : \E i \in DOMAIN s[k] : x = s[k][i]
      BY MemberAt
    <3>2. PICK i \in DOMAIN s[k] : x = s[k][i]
      BY <3>1
    <3> QED
      BY <1>5, <3>2, AtMember
  <2>3. ASSUME NEW i \in DOMAIN q PROVE q[i] \in Members(r)
    BY <1>5, AtMember
  <2> QED
    BY <1>1, <2>1, <2>2, <2>3
<1>7. ASSUME Sorted(qs), InTurn(q), \A i \in DOMAIN q, x \in Members(qs) : Goes(q[i], x)
      PROVE  Sorted(r)
  <2>1. \A k \in DOMAIN r : InTurn(r[k])
    BY <1>1, <1>5, <1>7, Zenon DEF Sorted
  <2>2. ASSUME NEW k \in DOMAIN r, NEW l \in DOMAIN r, k < l
        PROVE  \A i \in DOMAIN r[k], j \in DOMAIN r[l] : Goes(r[k][i], r[l][j])
    <3>1. l # 1 /\ (k # 1 => k - 1 < l - 1)
      BY <1>4, <2>2
    <3>2. l - 1 \in DOMAIN s /\ r[l] = s[l - 1]
      BY <1>5, <3>1, Zenon
    <3>3. CASE k = 1
      <4>1. \A j \in DOMAIN r[l] : r[l][j] \in Members(qs)
        BY <1>1, <3>2, AtMember
      <4> QED
        BY <1>5, <1>7, <3>3, <4>1, Zenon
    <3>4. CASE k # 1
      <4>1. k - 1 \in DOMAIN s /\ r[k] = s[k - 1]
        BY <1>5, <3>4, Zenon
      <4> QED
        BY <1>1, <1>7, <3>1, <3>2, <3>4, <4>1, Zenon DEF Sorted
    <3> QED
      BY <3>3, <3>4
  <2> QED
    BY <2>1, <2>2, Zenon DEF Sorted
<1> QED
  BY <1>3, <1>6, <1>7

\* queuestack_get takes the message whose turn it is.
LEMMA GetOK ==
  ASSUME NEW S, NEW qs \in Seq(Seq(S)), queuestack_stripEmpties(qs) # <<>>,
         NEW m, m = Head(Head(queuestack_stripEmpties(qs))),
         NEW r, r = queuestack_get(qs)
  PROVE  /\ m \in S
         /\ r \in Seq(Seq(S))
         /\ Members(qs) = Members(r) \cup {m}
         /\ Sorted(qs) => Sorted(r) /\ \A x \in Members(r) : Goes(m, x)
<1> DEFINE s == queuestack_stripEmpties(qs)
           q == Tail(Head(s))
           t == Tail(s)
<1>1. s \in Seq(Seq(S)) /\ Members(s) = Members(qs) /\ (Sorted(qs) => Sorted(s))
      /\ s[1] # <<>> /\ s # <<>>
  BY StripOK
<1>2. m = Head(Head(s)) /\ r = queuestack_push(t, q)
  BY Zenon DEF queuestack_get
<1> HIDE DEF s
<1>3. Head(s) = s[1] /\ s[1] \in Seq(S) /\ Len(s) \in Nat \ {0}
  BY <1>1
<1>4. /\ t \in Seq(Seq(S)) /\ Len(t) = Len(s) - 1 /\ \A k \in 1 .. Len(t) : t[k] = s[k + 1]
  BY <1>1, HeadTailProperties
<1>5. /\ q \in Seq(S) /\ Len(q) = Len(s[1]) - 1 /\ m \in S /\ m = s[1][1]
      /\ Len(s[1]) \in Nat \ {0} /\ \A i \in 1 .. Len(q) : q[i] = s[1][i + 1]
  BY <1>1, <1>2, <1>3, HeadTailProperties
<1> HIDE DEF q, t
<1>6. /\ DOMAIN s = 1 .. Len(s) /\ DOMAIN s[1] = 1 .. Len(s[1])
      /\ DOMAIN t = 1 .. Len(t) /\ DOMAIN q = 1 .. Len(q)
  BY <1>1, <1>3, <1>4, <1>5, LenProperties
<1>7. /\ 1 \in DOMAIN s
      /\ \A k \in DOMAIN t : k + 1 \in DOMAIN s /\ t[k] = s[k + 1] /\ 1 < k + 1
      /\ \A k \in DOMAIN s : k # 1 => k - 1 \in DOMAIN t /\ s[k] = t[k - 1]
      /\ \A k, l \in DOMAIN t : k < l => k + 1 < l + 1
  BY <1>3, <1>4, <1>6
<1>8. /\ 1 \in DOMAIN s[1]
      /\ \A i \in DOMAIN q : i + 1 \in DOMAIN s[1] /\ q[i] = s[1][i + 1] /\ 1 < i + 1
      /\ \A i \in DOMAIN s[1] : i # 1 => i - 1 \in DOMAIN q /\ s[1][i] = q[i - 1]
      /\ \A i, j \in DOMAIN q : i < j => i + 1 < j + 1
  BY <1>5, <1>6
<1>9. Members(r) = Members(t) \cup {q[i] : i \in DOMAIN q} /\ r \in Seq(Seq(S))
  BY <1>2, <1>4, <1>5, PushOK
<1>10. Members(s) = Members(r) \cup {m}
  <2>1. ASSUME NEW x \in Members(s) PROVE x \in Members(t) \cup {q[i] : i \in DOMAIN q} \cup {m}
    <3>1. PICK k \in DOMAIN s : \E i \in DOMAIN s[k] : x = s[k][i]
      BY MemberAt
    <3>2. PICK i \in DOMAIN s[k] : x = s[k][i]
      BY <3>1
    <3>3. CASE k = 1
      BY <1>5, <1>8, <3>2, <3>3
    <3>4. CASE k # 1
      BY <1>7, <3>2, <3>4, AtMember
    <3> QED
      BY <3>3, <3>4
  <2>2. ASSUME NEW x \in Members(t) PROVE x \in Members(s)
    <3>1. PICK k \in DOMAIN t : \E i \in DOMAIN t[k] : x = t[k][i]
      BY MemberAt
    <3>2. PICK i \in DOMAIN t[k] : x = t[k][i]
      BY <3>1
    <3> QED
      BY <1>7, <3>2, AtMember
  <2>3. ASSUME NEW i \in DOMAIN q PROVE q[i] \in Members(s)
    BY <1>7, <1>8, AtMember
  <2>4. m \in Members(s)
    BY <1>5, <1>7, <1>8, AtMember
  <2> QED
    BY <1>9, <2>1, <2>2, <2>3, <2>4
<1>11. ASSUME Sorted(s) PROVE Sorted(r) /\ \A x \in Members(r) : Goes(m, x)
  <2>1. InTurn(s[1]) /\ \A k \in DOMAIN t : \A i \in DOMAIN s[1], j \in DOMAIN t[k] :
                          Goes(s[1][i], t[k][j])
    BY <1>7, <1>11, Zenon DEF Sorted
  <2>2. InTurn(q) /\ \A i \in DOMAIN q : Goes(m, q[i])
    BY <1>5, <1>8, <2>1, Zenon DEF InTurn
  <2>3. Sorted(t)
    <3>1. \A k \in DOMAIN t : InTurn(t[k])
      BY <1>7, <1>11, Zenon DEF Sorted
    <3>2. ASSUME NEW k \in DOMAIN t, NEW l \in DOMAIN t, k < l
          PROVE  \A i \in DOMAIN t[k], j \in DOMAIN t[l] : Goes(t[k][i], t[l][j])
      BY <1>7, <1>11, <3>2, Zenon DEF Sorted
    <3> QED
      BY <3>1, <3>2, Zenon DEF Sorted
  <2>4. ASSUME NEW x \in Members(t)
        PROVE  Goes(m, x) /\ \A i \in DOMAIN q : Goes(q[i], x)
    <3>1. PICK k \in DOMAIN t : \E j \in DOMAIN t[k] : x = t[k][j]
      BY MemberAt
    <3>2. PICK j \in DOMAIN t[k] : x = t[k][j]
      BY <3>1
    <3> QED
      BY <1>5, <1>8, <2>1, <3>2, ZenonT(30)
  <2>5. Sorted(r)
    BY <1>2, <1>4, <1>5, <2>2, <2>3, <2>4, PushOK
  <2> QED
    BY <1>9, <2>2, <2>4, <2>5
<1> QED
  BY <1>1, <1>5, <1>9, <1>10, <1>11

-----------------------------------------------------------------------------
(* Ids, and what becomes of the messages behind the one that is handled.   *)
Id == Seq(Nat) \ {<<>>}

Message == [kind : {"L2", "setChainParameters", "endOfBlock"}, arb : Nat, eth : Nat,
            time : Nat, id : Id, load : Content \cup {Nothing}, side : BOOLEAN]

L2Message == {m \in Message : m.load \in Content}

TxMessage == {m \in L2Message : m.load.type = "tx"}

\* h are the ids handled, l is the last message from L1, W the messages that
\* wait: ids are in order, and those that wait come after those handled.
Order(h, l, W) ==
  /\ h \in Seq(Id)
  /\ \A i \in DOMAIN h : h[i][1] <= l
  /\ \A i, j \in DOMAIN h : i < j => Precedes(h[i], h[j])
  /\ \A x \in W : ~x.side => /\ x.id[1] <= l
                             /\ \A i \in DOMAIN h : Precedes(h[i], x.id)

Promised(g, u) == {<<n>> : n \in g} \cup UNION {{Append(b.id, i) : i \in 1 .. b.n} : b \in u}

Settled(h, u) == {h[i] : i \in DOMAIN h} \cup {b.id : b \in u}

Ids(W) == {x.id : x \in {w \in W : ~w.side}}

\* Every message of L1 and every item of a batch is settled or still waits.
Kept(h, g, u, W) == Promised(g, u) \subseteq Settled(h, u) \cup Ids(W)

\* The items of a message stand where the message stood.
LEMMA LaterItem ==
  ASSUME NEW a \in Id, NEW b \in Id, NEW i \in Nat, Precedes(a, b)
  PROVE  Precedes(a, Append(b, i)) /\ Precedes(Append(a, i), b)
<1>1. PICK k \in (DOMAIN a) \cap (DOMAIN b) : a[k] < b[k] /\ \A j \in 1 .. k - 1 : a[j] = b[j]
  BY Zenon DEF Precedes
<1>2. /\ k \in DOMAIN Append(a, i) /\ k \in DOMAIN Append(b, i)
      /\ \A j \in 1 .. k : Append(a, i)[j] = a[j] /\ Append(b, i)[j] = b[j]
  BY <1>1 DEF Id
<1>3. k \in 1 .. k /\ \A j \in 1 .. k - 1 : j \in 1 .. k
  BY <1>1 DEF Id
<1> QED
  BY <1>1, <1>2, <1>3 DEF Precedes

\* The items of a batch are in order.
LEMMA ItemOrder ==
  ASSUME NEW a \in Id, NEW i \in Nat, NEW j \in Nat, i < j
  PROVE  Precedes(Append(a, i), Append(a, j))
<1> DEFINE k == Len(a) + 1
<1>1. /\ k \in (DOMAIN Append(a, i)) \cap (DOMAIN Append(a, j))
      /\ Append(a, i)[k] = i /\ Append(a, j)[k] = j
      /\ \A n \in 1 .. k - 1 : Append(a, i)[n] = Append(a, j)[n]
  BY DEF Id
<1> HIDE DEF k
<1> QED
  BY <1>1 DEF Precedes

\* The next message in line is handled in order.
LEMMA HandleOne ==
  ASSUME NEW W, NEW m, m.id \in Id, NEW l \in Nat, NEW h, Order(h, l, W \cup {m}),
         \A x \in W : Goes(m, x),
         NEW h2, h2 = IF m.side THEN h ELSE Append(h, m.id)
  PROVE  /\ Order(h2, l, W)
         /\ \A g, u : Kept(h, g, u, W \cup {m}) => Kept(h2, g, u, W)
<1>1. CASE m.side
  <2>1. h2 = h /\ Ids(W \cup {m}) = Ids(W)
    BY <1>1 DEF Ids
  <2> QED
    BY <2>1, Zenon DEF Order, Kept
<1>2. CASE ~m.side
  <2> DEFINE a == m.id
  <2>1. /\ h2 = Append(h, a) /\ a \in Id /\ h \in Seq(Id)
        /\ a[1] <= l /\ \A i \in DOMAIN h : Precedes(h[i], a)
    BY <1>2, Zenon DEF Order
  <2>2. \A x \in W : ~x.side => Precedes(a, x.id)
    BY <1>2, Zenon DEF Goes
  <2>3. Ids(W \cup {m}) = Ids(W) \cup {a}
    BY <1>2 DEF Ids
  <2>4. /\ \A i \in DOMAIN h : h[i][1] <= l
        /\ \A i, j \in DOMAIN h : i < j => Precedes(h[i], h[j])
        /\ \A x \in W : ~x.side => x.id[1] <= l /\ \A i \in DOMAIN h : Precedes(h[i], x.id)
    BY Zenon DEF Order
  <2> HIDE DEF a
  <2>5. /\ h2 \in Seq(Id) /\ DOMAIN h2 = DOMAIN h \cup {Len(h) + 1}
        /\ h2[Len(h) + 1] = a
        /\ \A i \in DOMAIN h : h2[i] = h[i] /\ i < Len(h) + 1 /\ i # Len(h) + 1
                               /\ ~ (Len(h) + 1 < i)
        /\ ~ (Len(h) + 1 < Len(h) + 1)
    BY <2>1
  <2>6. \A i \in DOMAIN h2 : h2[i][1] <= l
    BY <2>1, <2>4, <2>5, Zenon
  <2>7. \A i, j \in DOMAIN h2 : i < j => Precedes(h2[i], h2[j])
    BY <2>1, <2>4, <2>5, Zenon
  <2>8. \A x \in W : ~x.side => x.id[1] <= l /\ \A i \in DOMAIN h2 : Precedes(h2[i], x.id)
    BY <2>2, <2>4, <2>5, Zenon
  <2>9. {h2[i] : i \in DOMAIN h2} = {h[i] : i \in DOMAIN h} \cup {a}
    BY <2>5
  <2> QED
    BY <2>3, <2>5, <2>6, <2>7, <2>8, <2>9, Zenon DEF Order, Kept, Settled
<1> QED
  BY <1>1, <1>2, Zenon

\* An item of a batch has the batch's block and place in the order.
LEMMA ItemOK ==
  ASSUME NEW m \in L2Message, m.load.sub \in Seq(Content), NEW i \in 1 .. Len(m.load.sub)
  PROVE  /\ Item(m, i) \in L2Message
         /\ Item(m, i).id = Append(m.id, i) /\ Item(m, i).side = m.side
         /\ Item(m, i).load = m.load.sub[i]
         /\ Item(m, i).arb = m.arb /\ Item(m, i).eth = m.eth /\ Item(m, i).time = m.time
<1>1. m \in Message /\ m.id \in Id
  BY Zenon DEF L2Message, Message
<1>2. Append(m.id, i) \in Id /\ m.load.sub[i] \in Content
  BY <1>1 DEF Id
<1> DEFINE c == m.load.sub[i]
           a == Append(m.id, i)
<1>3. Item(m, i) = [m EXCEPT !.load = c, !.id = a] /\ c \in Content /\ a \in Id
  BY <1>2, Zenon DEF Item
<1> HIDE DEF c, a
<1>4. /\ Item(m, i) \in Message /\ Item(m, i).id = a /\ Item(m, i).side = m.side
      /\ Item(m, i).load = c
      /\ Item(m, i).arb = m.arb /\ Item(m, i).eth = m.eth /\ Item(m, i).time = m.time
  BY <1>1, <1>3, Zenon DEF Message
<1> QED
  BY <1>3, <1>4, Zenon DEF L2Message, c, a

\* The items of a batch: their ids and their order.
LEMMA ItemsOK ==
  ASSUME NEW m \in L2Message, m.load.sub \in Seq(Content), NEW q, q = Items(m)
  PROVE  /\ q \in Seq(L2Message) /\ DOMAIN q = 1 .. Len(m.load.sub)
         /\ \A i \in DOMAIN q : q[i] = Item(m, i)
         /\ InTurn(q)
         /\ \A x : Goes(m, x) /\ x.id \in Id => \A i \in DOMAIN q : Goes(q[i], x)
<1> DEFINE n == Len(m.load.sub)
<1>1. n \in Nat /\ m.id \in Id
  BY Zenon, LenProperties DEF L2Message, Message
<1>2. q = [i \in 1 .. n |-> Item(m, i)]
  BY Zenon DEF Items
<1>3. \A i \in 1 .. n : Item(m, i) \in L2Message /\ i \in Nat
                        /\ Item(m, i).id = Append(m.id, i) /\ Item(m, i).side = m.side
  BY <1>1, ItemOK
<1> HIDE DEF n
<1>4. q \in Seq(L2Message) /\ DOMAIN q = 1 .. n /\ \A i \in DOMAIN q : q[i] = Item(m, i)
  BY <1>1, <1>2, <1>3
<1>5. ASSUME NEW i \in 1 .. n, NEW j \in 1 .. n, i < j PROVE Goes(q[i], q[j])
  <2>1. Precedes(Append(m.id, i), Append(m.id, j))
    BY <1>1, <1>3, <1>5, ItemOrder, Zenon
  <2> QED
    BY <1>3, <1>4, <2>1, Zenon DEF Goes
<1>6. ASSUME NEW x, Goes(m, x), x.id \in Id, NEW i \in 1 .. n PROVE Goes(q[i], x)
  <2>1. CASE m.side \/ x.side
    BY <1>3, <1>4, <2>1, Zenon DEF Goes
  <2>2. CASE Precedes(m.id, x.id)
    <3>1. Precedes(Append(m.id, i), x.id)
      BY <1>1, <1>3, <1>6, <2>2, LaterItem, Zenon
    <3> QED
      BY <1>3, <1>4, <3>1, Zenon DEF Goes
  <2> QED
    BY <1>6, <2>1, <2>2, Zenon DEF Goes
<1> QED
  BY <1>4, <1>5, <1>6, Zenon DEF InTurn, n

ItemsOf(m) == {Items(m)[i] : i \in DOMAIN Items(m)}

Noted(u, m) == IF m.side THEN u ELSE u \cup {[id |-> m.id, n |-> Len(m.load.sub)]}

\* A batch gives way to its items in order.
LEMMA UnpackOne ==
  ASSUME NEW W, NEW m \in L2Message, m.load.sub \in Seq(Content), NEW l \in Nat, NEW h,
         Order(h, l, W \cup {m}), NEW g, NEW u, Kept(h, g, u, W \cup {m})
  PROVE  Order(h, l, W \cup ItemsOf(m)) /\ Kept(h, g, Noted(u, m), W \cup ItemsOf(m))
<1> DEFINE q == Items(m)
           I == ItemsOf(m)
           u2 == Noted(u, m)
           n == Len(m.load.sub)
           a == m.id
           b == [id |-> a, n |-> n]
<1>1. n \in Nat /\ a \in Id
  BY Zenon, LenProperties DEF L2Message, Message
<1>2. DOMAIN q = 1 .. n /\ \A i \in DOMAIN q : q[i].id = Append(a, i) /\ q[i].side = m.side
  <2>1. DOMAIN q = 1 .. n /\ \A i \in DOMAIN q : q[i] = Item(m, i)
    BY ItemsOK
  <2>2. \A i \in 1 .. n : Item(m, i).id = Append(a, i) /\ Item(m, i).side = m.side
    BY ItemOK
  <2> QED
    BY <2>1, <2>2
<1>3. b.id = a /\ b.n = n
  OBVIOUS
<1>4. u2 = (IF m.side THEN u ELSE u \cup {b}) /\ I = {q[i] : i \in DOMAIN q}
  BY Zenon DEF Noted, ItemsOf
<1> HIDE DEF n, a, b, q, I, u2
<1>5. \A x \in I : \E i \in 1 .. n : x.id = Append(a, i) /\ x.side = m.side
  BY <1>2, <1>4
<1>6. ASSUME NEW x \in I, ~x.side
      PROVE  x.id[1] <= l /\ \A i \in DOMAIN h : Precedes(h[i], x.id)
  <2>1. PICK i \in 1 .. n : x.id = Append(a, i) /\ x.side = m.side
    BY <1>5, Zenon
  <2>2. a[1] <= l /\ \A j \in DOMAIN h : Precedes(h[j], a)
    BY <1>6, <2>1, Zenon DEF Order, a
  <2>3. Append(a, i)[1] = a[1] /\ i \in Nat
    BY <1>1 DEF Id
  <2>4. \A j \in DOMAIN h : h[j] \in Id
    BY DEF Order
  <2>5. \A j \in DOMAIN h : Precedes(h[j], Append(a, i))
    BY <1>1, <2>2, <2>3, <2>4, LaterItem, Zenon
  <2> QED
    BY <2>1, <2>2, <2>3, <2>5, Zenon
<1>7. Order(h, l, W \cup I)
  BY <1>6, Zenon DEF Order
<1>8. Kept(h, g, u2, W \cup I)
  <2>1. CASE m.side
    <3>1. Ids(W \cup {m}) = Ids(W) /\ Ids(W) \subseteq Ids(W \cup I)
      BY <2>1 DEF Ids
    <3> QED
      BY <1>4, <2>1, <3>1, Zenon DEF Kept
  <2>2. CASE ~m.side
    <3>1. Ids(W \cup {m}) = Ids(W) \cup {a}
      BY <2>2 DEF Ids, a
    <3>2. Ids(W \cup I) = Ids(W) \cup Ids(I)
      BY DEF Ids
    <3>3. \A i \in 1 .. n : Append(a, i) \in Ids(I)
      BY <1>2, <1>4, <2>2 DEF Ids
    <3>4. u2 = u \cup {b}
      BY <1>4, <2>2
    <3>5. Settled(h, u2) = Settled(h, u) \cup {a}
      BY <1>3, <3>4 DEF Settled
    <3>6. Promised(g, u2) = Promised(g, u) \cup {Append(a, i) : i \in 1 .. n}
      BY <1>3, <3>4 DEF Promised
    <3>7. {Append(a, i) : i \in 1 .. n} \subseteq Ids(I)
      BY <3>3, Zenon
    <3>8. Promised(g, u) \subseteq Settled(h, u) \cup Ids(W) \cup {a}
      BY <3>1, Zenon DEF Kept
    <3>9. Promised(g, u2) \subseteq Settled(h, u2) \cup Ids(W \cup I)
      BY <3>2, <3>5, <3>6, <3>7, <3>8, Zenon
    <3> QED
      BY <3>9, Zenon DEF Kept
  <2> QED
    BY <2>1, <2>2
<1> QED
  BY <1>7, <1>8 DEF I, u2

-----------------------------------------------------------------------------
(* Sequence numbers.                                                       *)

\* Every transaction that ran has a number below its account's next one.
Counts == /\ seqNum \in [Caller -> Nat]
          /\ executed \in Seq(Caller \X Nat)
          /\ \A i \in DOMAIN executed : executed[i][2] < seqNum[executed[i][1]]
          /\ NoReplay

\* A sequence number is used up once.
LEMMA OneMore ==
  ASSUME Counts, NEW c \in Caller, seqNum' = [seqNum EXCEPT ![c] = @ + 1],
         executed' = executed \/ executed' = Append(executed, <<c, seqNum[c]>>)
  PROVE  Counts'
<1>1. /\ seqNum' \in [Caller -> Nat] /\ seqNum'[c] = seqNum[c] + 1 /\ seqNum[c] \in Nat
      /\ \A d \in Caller : seqNum[d] <= seqNum'[d]
  BY DEF Counts
<1>2. ASSUME NEW i \in DOMAIN executed
      PROVE  /\ executed[i] \in Caller \X Nat /\ executed[i][2] < seqNum'[executed[i][1]]
             /\ executed[i][1] = c => executed[i][2] < seqNum[c]
  <2>1. executed[i] \in Caller \X Nat /\ executed[i][2] < seqNum[executed[i][1]]
    BY DEF Counts
  <2> QED
    BY <1>1, <2>1 DEF Counts
<1>3. CASE executed' = executed
  BY <1>1, <1>2, <1>3 DEF Counts, NoReplay
<1>4. CASE executed' = Append(executed, <<c, seqNum[c]>>)
  <2> DEFINE n == Len(executed) + 1
             e == <<c, seqNum[c]>>
  <2>1. executed \in Seq(Caller \X Nat) /\ e \in Caller \X Nat
    BY <1>1 DEF Counts
  <2>2. e[1] = c /\ e[2] = seqNum[c]
    OBVIOUS
  <2> HIDE DEF e
  <2>3. /\ executed' \in Seq(Caller \X Nat) /\ DOMAIN executed' = DOMAIN executed \cup {n}
        /\ executed'[n] = e
        /\ \A i \in DOMAIN executed : executed'[i] = executed[i] /\ i # n /\ ~ (n < i)
        /\ ~ (n < n)
    BY <1>4, <2>1 DEF e
  <2> HIDE DEF n
  <2>4. seqNum[c] < seqNum'[c]
    BY <1>1
  <2>5. \A i \in DOMAIN executed' : executed'[i][2] < seqNum'[executed'[i][1]]
    BY <1>2, <2>2, <2>3, <2>4, Zenon
  <2>6. NoReplay'
    <3>1. ASSUME NEW i \in DOMAIN executed', NEW j \in DOMAIN executed', i < j,
                 executed'[i][1] = executed'[j][1]
          PROVE  executed'[i][2] < executed'[j][2]
      <4>1. i \in DOMAIN executed /\ executed'[i] = executed[i]
        BY <2>3, <3>1, Zenon
      <4>2. CASE j = n
        BY <1>2, <2>2, <2>3, <3>1, <4>1, <4>2, Zenon
      <4>3. CASE j # n
        <5>1. j \in DOMAIN executed /\ executed'[j] = executed[j]
          BY <2>3, <4>3, Zenon
        <5> QED
          BY <3>1, <4>1, <5>1, Zenon DEF Counts, NoReplay
      <4> QED
        BY <4>2, <4>3
    <3> QED
      BY <3>1, Zenon DEF NoReplay
  <2> QED
    BY <1>1, <2>3, <2>5, <2>6 DEF Counts
<1> QED
  BY <1>3, <1>4

\* Sequence numbers that do not change are counted as before.
LEMMA SameCounts == Counts /\ UNCHANGED <<seqNum, executed>> => Counts'
  BY DEF Counts, NoReplay

\* handleArrivingTx uses up sequence numbers as it counts them.
LEMMA ArrivingCounts ==
  ASSUME Counts, NEW m, m.load.caller \in Caller, m.load.seq \in Nat \cup {NoSeqNum},
         NEW o, handleArrivingTx(m, o)
  PROVE  Counts'
<1> DEFINE c == m.load.caller
           n == m.load.seq
           more == [seqNum EXCEPT ![c] = @ + 1]
<1>1. \/ seqNum' = seqNum /\ executed' = executed
      \/ seqNum' = more /\ executed' = executed
      \/ seqNum' = more /\ n = seqNum[c] /\ executed' = Append(executed, <<c, n>>)
  <2>1. Counted(m.load) = IF n = seqNum[c] THEN more ELSE seqNum
    BY Zenon DEF Counted
  <2>2. \A x \in Numbered(m.load) : x = seqNum \/ x = more
    BY Zenon DEF Numbered
  <2>3. \/ seqNum' = Counted(m.load) /\ executed' = executed
        \/ seqNum' \in Numbered(m.load) /\ executed' = executed
        \/ /\ ~(n # NoSeqNum /\ n # seqNum[c])
           /\ seqNum' \in IF n = NoSeqNum THEN Numbered(m.load) ELSE {Counted(m.load)}
           /\ executed' = IF n = NoSeqNum THEN executed ELSE Append(executed, <<c, n>>)
    BY Zenon DEF handleArrivingTx
  <2> HIDE DEF c, n, more
  <2> QED
    BY <2>1, <2>2, <2>3, Zenon
<1>2. c \in Caller
  OBVIOUS
<1> HIDE DEF c, n
<1> QED
  BY <1>1, <1>2, OneMore, SameCounts

-----------------------------------------------------------------------------
(* The queues.                                                             *)
InboxState == [queue : Seq(Message), arb : Nat, eth : Nat, time : Nat,
               atStart : BOOLEAN, pending : Message \cup {None}]

\* Messages that are out of the inbox, in the inbox, and waiting for the end
\* of the block.
Taken == {txQ[i] : i \in DOMAIN txQ} \cup Members(batchQ)
Queued == {inbox.queue[i] : i \in DOMAIN inbox.queue}
Held == {inbox.pending} \ {None}

Typed ==
  /\ inbox \in InboxState /\ Len(inbox.queue) <= 1
  /\ \A x \in Queued \cup Held : x.kind = "L2" => x \in L2Message
  /\ txQ \in Seq(TxMessage)
  /\ batchQ \in Seq(Seq(L2Message))
  /\ spacing \in Spacings
  /\ l1 \in Nat /\ given \in SUBSET (1 .. l1)
  /\ unpacked \in SUBSET [id : Id, n : Nat]

\* Nothing is taken from a message that waits before its block is ended.
Staged ==
  /\ inbox.queue # <<>> => Taken = {}
  /\ inbox.atStart => Taken = {} /\ Queued = {} /\ Held = {}
  /\ \A p \in Held :
       /\ p.arb = inbox.arb /\ p.eth >= inbox.eth /\ p.time >= inbox.time
       /\ p.id = <<l1>> /\ ~p.side
       /\ p.kind = "endOfBlock" => l1 \notin given
       /\ \A x \in Taken \cup Queued : x.side

\* Messages are in the block that has begun.
InBlock(x) == /\ x.arb = inbox.arb
              /\ x.eth >= inbox.eth /\ x.time >= inbox.time
              /\ ~x.side => x.eth = inbox.eth /\ x.time = inbox.time

Lined ==
  /\ InTurn(txQ) /\ Sorted(batchQ)
  /\ \A i \in DOMAIN txQ, x \in Members(batchQ) : Goes(txQ[i], x)
  /\ \A x \in Taken \cup Queued : InBlock(x)
  /\ Order(handled, l1, Taken \cup Queued \cup Held)
  /\ Kept(handled, given, unpacked, Taken \cup Queued \cup Held)

QInv == Typed /\ Staged /\ Lined /\ Counts

\* A message is dispatched when no transaction of a BLS batch waits.
LEMMA DispatchLine ==
  ASSUME txQ = <<>>, NEW m \in L2Message, NEW bq \in Seq(Seq(L2Message)), Sorted(bq),
         \A x \in Members(bq) : Goes(m, x), dispatch(m, bq), l1 \in Nat,
         NEW P, \A x \in P : x.id \in Id /\ Goes(m, x),
         Order(handled, l1, (Members(bq) \cup P) \cup {m}),
         Kept(handled, given, unpacked, (Members(bq) \cup P) \cup {m}),
         unpacked \in SUBSET [id : Id, n : Nat]
  PROVE  /\ txQ' \in Seq(TxMessage) /\ batchQ' \in Seq(Seq(L2Message))
         /\ unpacked' \in SUBSET [id : Id, n : Nat]
         /\ InTurn(txQ') /\ Sorted(batchQ')
         /\ \A i \in DOMAIN txQ', x \in Members(batchQ') : Goes(txQ'[i], x)
         /\ Order(handled', l1, Taken' \cup P)
         /\ Kept(handled', given, unpacked', Taken' \cup P)
         /\ \A x \in Taken' : \/ x \in Members(bq)
                              \/ /\ x.arb = m.arb /\ x.eth = m.eth /\ x.time = m.time
                                 /\ x.side = m.side
<1> DEFINE W == Members(bq) \cup P
           q == Items(m)
           I == ItemsOf(m)
<1>1. m.id \in Id /\ m.load \in Content /\ \A x \in W : Goes(m, x)
  BY Zenon DEF L2Message, Message
<1>2. \A x \in Members(bq) : x.id \in Id
  <2>1. ASSUME NEW x \in Members(bq) PROVE x \in L2Message
    <3>1. PICK k \in DOMAIN bq : \E i \in DOMAIN bq[k] : x = bq[k][i]
      BY MemberAt
    <3> QED
      BY <3>1
  <2> QED
    BY <2>1, Zenon DEF L2Message, Message
<1>3. CASE batchQ' = bq /\ Handled(m) /\ UNCHANGED <<txQ, unpacked>>
  <2>1. handled' = IF m.side THEN handled ELSE Append(handled, m.id)
    BY <1>3, Zenon DEF Handled
  <2> HIDE DEF W
  <2>2. Order(handled', l1, W) /\ Kept(handled', given, unpacked, W)
    BY <1>1, <2>1, HandleOne, Zenon DEF W
  <2>3. txQ' = <<>> /\ DOMAIN txQ' = {}
    BY <1>3
  <2>4. Taken' = Members(bq)
    BY <1>3, <2>3 DEF Taken
  <2>5. InTurn(txQ') /\ txQ' \in Seq(TxMessage)
    BY <2>3 DEF InTurn
  <2> QED
    BY <1>3, <2>2, <2>3, <2>4, <2>5, Zenon DEF W
<1>4. ASSUME m.load.type \in {"batch", "bls"}, Unpacks(m)
      PROVE  /\ m.load.sub \in Seq(Content) /\ q \in Seq(L2Message) /\ InTurn(q)
             /\ \A x \in Members(bq) : \A i \in DOMAIN q : Goes(q[i], x)
             /\ Order(handled', l1, W \cup I) /\ Kept(handled', given, unpacked', W \cup I)
             /\ unpacked' \in SUBSET [id : Id, n : Nat]
             /\ \A x \in I : /\ x.arb = m.arb /\ x.eth = m.eth /\ x.time = m.time
                             /\ x.side = m.side
             /\ \A i \in DOMAIN q : i \in 1 .. Len(m.load.sub) /\ q[i].load = m.load.sub[i]
  <2>1. m.load.sub \in Seq(Content)
    BY <1>1, <1>4, ContentAssumption, Zenon
  <2>2. /\ q \in Seq(L2Message) /\ InTurn(q) /\ DOMAIN q = 1 .. Len(m.load.sub)
        /\ \A i \in DOMAIN q : q[i] = Item(m, i)
        /\ \A x : Goes(m, x) /\ x.id \in Id => \A i \in DOMAIN q : Goes(q[i], x)
    BY <2>1, ItemsOK, Zenon
  <2>0. /\ Order(handled, l1, W \cup {m}) /\ Kept(handled, given, unpacked, W \cup {m})
        /\ I = {q[i] : i \in DOMAIN q}
    BY Zenon DEF ItemsOf
  <2> HIDE DEF W, q, I
  <2>3. /\ handled' = handled
        /\ unpacked' = IF m.side THEN unpacked
                       ELSE unpacked \cup {[id |-> m.id, n |-> Len(m.load.sub)]}
    BY <1>4, Zenon DEF Unpacks
  <2>4. Order(handled, l1, W \cup I) /\ Kept(handled, given, unpacked', W \cup I)
    <3>1. unpacked' = Noted(unpacked, m)
      BY <2>3, Zenon DEF Noted
    <3> QED
      BY <2>0, <2>1, <3>1, UnpackOne, Zenon DEF I
  <2>5. [id |-> m.id, n |-> Len(m.load.sub)] \in [id : Id, n : Nat]
    BY <1>1, <2>1, LenProperties
  <2>6. unpacked' \in SUBSET [id : Id, n : Nat]
    BY <2>3, <2>5
  <2>7. \A i \in DOMAIN q : /\ q[i].load = m.load.sub[i] /\ q[i].arb = m.arb
                            /\ q[i].eth = m.eth /\ q[i].time = m.time /\ q[i].side = m.side
    <3>1. ASSUME NEW i \in DOMAIN q
          PROVE  /\ q[i].load = m.load.sub[i] /\ q[i].arb = m.arb
                 /\ q[i].eth = m.eth /\ q[i].time = m.time /\ q[i].side = m.side
      BY <2>1, <2>2, ItemOK
    <3> QED
      BY <3>1
  <2>8. \A x \in I : /\ x.arb = m.arb /\ x.eth = m.eth /\ x.time = m.time
                     /\ x.side = m.side
    <3>1. ASSUME NEW x \in I
          PROVE  x.arb = m.arb /\ x.eth = m.eth /\ x.time = m.time /\ x.side = m.side
      <4>1. PICK i \in DOMAIN q : x = q[i]
        BY <2>0
      <4> QED
        BY <2>7, <4>1
    <3> QED
      BY <3>1, Zenon
  <2> QED
    BY <1>1, <1>2, <2>1, <2>2, <2>3, <2>4, <2>6, <2>7, <2>8, Zenon DEF W
<1>5. CASE UnpackBatch(m, bq)
  <2>1. /\ m.load.type \in {"batch", "bls"} /\ Unpacks(m)
        /\ batchQ' = queuestack_push(bq, q) /\ txQ' = txQ
    BY <1>5, Zenon DEF UnpackBatch
  <2>0. I = {q[i] : i \in DOMAIN q}
    BY Zenon DEF ItemsOf
  <2> HIDE DEF q, W, I
  <2>2. /\ batchQ' \in Seq(Seq(L2Message)) /\ Members(batchQ') = Members(bq) \cup I
        /\ Sorted(batchQ')
    BY <1>4, <2>0, <2>1, PushOK
  <2>3. txQ' = <<>> /\ DOMAIN txQ' = {}
    BY <2>1
  <2>4. Taken' = Members(bq) \cup I
    BY <2>2, <2>3 DEF Taken
  <2>5. InTurn(txQ') /\ txQ' \in Seq(TxMessage)
    BY <2>3 DEF InTurn
  <2>6. Taken' \cup P = W \cup I
    BY <2>4 DEF W
  <2> QED
    BY <1>4, <2>1, <2>2, <2>3, <2>4, <2>5, <2>6, Zenon
<1>6. CASE UnpackBls(m, bq)
  <2>1. /\ m.load.type = "bls" /\ m.load.type \in {"batch", "bls"} /\ Unpacks(m)
        /\ batchQ' = bq /\ txQ' = <<>> \o q
    BY <1>6, ZenonT(30) DEF UnpackBls
  <2>0. I = {q[i] : i \in DOMAIN q}
    BY Zenon DEF ItemsOf
  <2> HIDE DEF q, W, I
  <2>2. txQ' = q
    BY <1>4, <2>1
  <2>3. \A i \in DOMAIN q : q[i].load.type = "tx"
    <3>1. \A i \in DOMAIN m.load.sub : m.load.sub[i].type = "tx"
      BY <1>1, <2>1, ContentAssumption, Zenon
    <3>2. DOMAIN m.load.sub = 1 .. Len(m.load.sub)
      BY <1>4, <2>1, LenProperties
    <3> QED
      BY <1>4, <2>1, <3>1, <3>2, ZenonT(30)
  <2>4. q \in Seq(TxMessage)
    <3>1. q \in Seq(L2Message)
      BY <1>4, <2>1
    <3>2. \A i \in DOMAIN q : q[i] \in TxMessage
      BY <2>3, <3>1 DEF TxMessage
    <3> QED
      BY <3>1, <3>2
  <2>5. Taken' = Members(bq) \cup I
    BY <2>0, <2>1, <2>2 DEF Taken
  <2>6. Taken' \cup P = W \cup I
    BY <2>5 DEF W
  <2>7. \A x \in Taken' : x \in Members(bq) \/ x \in I
    BY <2>5
  <2> QED
    BY <1>4, <2>1, <2>2, <2>4, <2>6, <2>7, Zenon
<1> QED
  BY <1>3, <1>5, <1>6, Zenon DEF dispatch, Drop, handleTx, handleRetryable

\* With no item to serve, the queue stack is empty.
LEMMA NoMembers ==
  ASSUME Typed, NoBatchItem
  PROVE  Members(batchQ) = {}
<1>1. batchQ \in Seq(Seq(L2Message)) /\ queuestack_stripEmpties(batchQ) = <<>>
  BY Zenon DEF Typed, NoBatchItem
<1>2. Members(<<>>) = {}
  BY DEF Members
<1> QED
  BY <1>1, <1>2, StripOK

\* A message has been taken from a queue and served, or put in its place its
\* items.
Served ==
  /\ inbox' \in InboxState /\ inbox'.queue = <<>> /\ inbox'.atStart = inbox.atStart
  /\ inbox'.arb = inbox.arb /\ inbox'.eth = inbox.eth /\ inbox'.time = inbox.time
  /\ inbox'.pending = inbox.pending
  /\ ~inbox.atStart
  /\ l1' = l1 /\ given' = given /\ spacing' \in Spacings
  /\ txQ' \in Seq(TxMessage) /\ batchQ' \in Seq(Seq(L2Message))
  /\ unpacked' \in SUBSET [id : Id, n : Nat]
  /\ InTurn(txQ') /\ Sorted(batchQ')
  /\ \A i \in DOMAIN txQ', x \in Members(batchQ') : Goes(txQ'[i], x)
  /\ Order(handled', l1, Taken' \cup Held)
  /\ Kept(handled', given, unpacked', Taken' \cup Held)
  /\ \A x \in Taken' : InBlock(x) /\ \A p \in Held : x.side

\* Serving an item keeps the types and the queues in order.
LEMMA ServedOK ==
  ASSUME QInv, Served
  PROVE  Typed' /\ Staged' /\ Lined'
<1>1. Held' = Held /\ DOMAIN inbox'.queue = {} /\ Len(inbox'.queue) = 0
  BY DEF Served, Held
<1>2. Queued' = {}
  BY <1>1 DEF Queued
<1>3. Typed'
  <2>1. l1 \in Nat /\ given \in SUBSET (1 .. l1)
    BY Zenon DEF QInv, Typed
  <2>2. Len(inbox'.queue) <= 1
    BY <1>1
  <2>3. \A x \in Queued' \cup Held' : x.kind = "L2" => x \in L2Message
    BY <1>1, <1>2, Zenon DEF QInv, Typed
  <2> QED
    BY <2>1, <2>2, <2>3, Zenon DEF Served, Typed
<1>4. Staged'
  <2>1. ASSUME NEW p \in Held
        PROVE  /\ p.arb = inbox.arb /\ p.eth >= inbox.eth /\ p.time >= inbox.time
               /\ p.id = <<l1>> /\ ~p.side
               /\ p.kind = "endOfBlock" => l1 \notin given
    BY Zenon DEF QInv, Staged
  <2>2. \A x \in Taken' \cup Queued' : \A p \in Held : x.side
    BY <1>2, Zenon DEF Served
  <2> QED
    BY <1>1, <2>1, <2>2, Zenon DEF Served, Staged
<1>5. Lined'
  <2>1. Taken' \cup Queued' \cup Held' = Taken' \cup Held
    BY <1>1, <1>2
  <2>2. \A x \in Taken' \cup Queued' : InBlock(x)'
    BY <1>2, Zenon DEF Served, InBlock
  <2> QED
    BY <2>1, <2>2, Zenon DEF Served, Lined
<1> QED
  BY <1>3, <1>4, <1>5

\* The types of a message's fields.
LEMMA MessageFields ==
  ASSUME NEW m \in TxMessage
  PROVE  /\ m \in L2Message /\ m.id \in Id /\ m.load \in Content
         /\ m.load.caller \in Caller /\ m.load.seq \in Nat \cup {NoSeqNum}
<1>1. m \in L2Message /\ m.id \in Id /\ m.load \in Content /\ m.load.type = "tx"
  BY Zenon DEF TxMessage, L2Message, Message
<1> QED
  BY <1>1, ContentAssumption, Zenon

\* A transaction that runs keeps the queues in order.
LEMMA RunTxLine ==
  ASSUME QInv, RunTx
  PROVE  QInv'
<1> DEFINE m == Head(txQ)
           T == {txQ'[i] : i \in DOMAIN txQ'}
           W == (T \cup Members(batchQ)) \cup Held
<1>1. /\ txQ # <<>> /\ txQ' = Tail(txQ) /\ batchQ' = batchQ /\ unpacked' = unpacked
      /\ inbox' = inbox /\ spacing' = spacing /\ l1' = l1 /\ given' = given
      /\ handled' = IF m.side THEN handled ELSE Append(handled, m.id)
      /\ handleArrivingTx(m, out) \/ UNCHANGED <<seqNum, executed>>
  BY Zenon DEF RunTx, Keeps, Handled
<1>2. txQ \in Seq(TxMessage) /\ inbox \in InboxState /\ spacing \in Spacings
      /\ batchQ \in Seq(Seq(L2Message)) /\ unpacked \in SUBSET [id : Id, n : Nat] /\ l1 \in Nat
  BY Zenon DEF QInv, Typed
<1>3. /\ m \in TxMessage /\ m = txQ[1] /\ 1 \in DOMAIN txQ
      /\ txQ' \in Seq(TxMessage)
      /\ \A i \in DOMAIN txQ' : i + 1 \in DOMAIN txQ /\ txQ'[i] = txQ[i + 1] /\ 1 < i + 1
      /\ \A i \in DOMAIN txQ : i # 1 => i - 1 \in DOMAIN txQ' /\ txQ[i] = txQ'[i - 1]
      /\ \A i, j \in DOMAIN txQ' : i < j => i + 1 < j + 1
  BY <1>1, <1>2
<1> HIDE DEF m
<1>4. {txQ[i] : i \in DOMAIN txQ} = T \cup {m}
  BY <1>3
<1>5. InTurn(txQ') /\ \A x \in T : Goes(m, x)
  <2>1. \A i, j \in DOMAIN txQ : i < j => Goes(txQ[i], txQ[j])
    BY Zenon DEF QInv, Lined, InTurn
  <2>2. InTurn(txQ')
    BY <1>3, <2>1, Zenon DEF InTurn
  <2>3. \A i \in DOMAIN txQ' : Goes(m, txQ'[i])
    BY <1>3, <2>1, Zenon
  <2> QED
    BY <2>2, <2>3, Zenon
<1>6. /\ \A x \in Members(batchQ) : Goes(m, x)
      /\ \A i \in DOMAIN txQ', x \in Members(batchQ) : Goes(txQ'[i], x)
      /\ Sorted(batchQ)
  BY <1>3, Zenon DEF QInv, Lined
<1>7. Taken = T \cup Members(batchQ) \cup {m} /\ Taken' = T \cup Members(batchQ)
  BY <1>1, <1>4, Zenon DEF Taken
<1>8. inbox.queue = <<>> /\ ~inbox.atStart
  BY <1>7, Zenon DEF QInv, Staged
<1>9. Queued = {}
  BY <1>8 DEF Queued
<1>10. \A p \in Held : \A x \in Taken : x.side
  BY <1>7, Zenon DEF QInv, Staged
<1>11. \A x \in W : Goes(m, x)
  BY <1>5, <1>6, <1>7, <1>10, Zenon DEF Goes
<1> HIDE DEF T
<1>12. Taken \cup Queued \cup Held = W \cup {m} /\ Taken' \cup Held = W
  BY <1>7, <1>9
<1>13. Order(handled, l1, W \cup {m}) /\ Kept(handled, given, unpacked, W \cup {m})
  BY <1>12, Zenon DEF QInv, Lined
<1> HIDE DEF W
<1>14. Order(handled', l1, W) /\ Kept(handled', given, unpacked, W)
  BY <1>1, <1>2, <1>3, <1>11, <1>13, MessageFields, HandleOne, Zenon
<1>15. \A x \in Taken' : InBlock(x) /\ \A p \in Held : x.side
  BY <1>7, <1>10, Zenon DEF QInv, Lined
<1>16. Served
  BY <1>1, <1>2, <1>3, <1>5, <1>6, <1>8, <1>12, <1>14, <1>15, Zenon DEF Served
<1>17. Counts'
  <2>1. Counts
    BY DEF QInv
  <2> QED
    BY <1>1, <1>3, <2>1, ArrivingCounts, SameCounts, MessageFields
<1> QED
  BY <1>16, <1>17, ServedOK, Zenon DEF QInv

\* What a dispatched message does to sequence numbers.
LEMMA DispatchCounts ==
  ASSUME Counts, NEW m \in L2Message, NEW bq, dispatch(m, bq)
  PROVE  Counts'
<1>1. CASE UNCHANGED <<seqNum, executed>>
  BY <1>1, SameCounts
<1>2. ASSUME m.load.type \in {"tx", "retryable"}, NEW o, handleArrivingTx(m, o)
      PROVE  Counts'
  <2>1. m.load \in Content
    BY Zenon DEF L2Message
  <2>2. m.load.caller \in Caller /\ m.load.seq \in Nat \cup {NoSeqNum}
    BY <1>2, <2>1, ContentAssumption, Zenon
  <2> QED
    BY <1>2, <2>2, ArrivingCounts
<1>3. CASE handleTx(m, bq)
  BY <1>2, <1>3, Zenon DEF handleTx
<1>4. CASE handleRetryable(m, bq)
  BY <1>1, <1>2, <1>4, Zenon DEF handleRetryable
<1> QED
  BY <1>1, <1>3, <1>4, Zenon DEF dispatch, UnpackBatch, UnpackBls, Drop, Unpacks

\* The next item of a batch keeps the queues in order.
LEMMA RunBatchItemLine ==
  ASSUME QInv, RunBatchItem
  PROVE  QInv'
<1> DEFINE m == Head(Head(queuestack_stripEmpties(batchQ)))
           bq == queuestack_get(batchQ)
           W == Members(bq) \cup Held
<1>1. /\ txQ = <<>> /\ queuestack_stripEmpties(batchQ) # <<>> /\ dispatch(m, bq)
      /\ inbox' = inbox /\ spacing' = spacing /\ l1' = l1 /\ given' = given
  BY Zenon DEF RunBatchItem, Keeps, NoBatchItem
<1>2. /\ inbox \in InboxState /\ spacing \in Spacings /\ l1 \in Nat
      /\ batchQ \in Seq(Seq(L2Message)) /\ unpacked \in SUBSET [id : Id, n : Nat]
      /\ Sorted(batchQ)
  BY Zenon DEF QInv, Typed, Lined
<1>3. /\ m \in L2Message /\ bq \in Seq(Seq(L2Message))
      /\ Members(batchQ) = Members(bq) \cup {m}
      /\ Sorted(bq) /\ \A x \in Members(bq) : Goes(m, x)
  BY <1>1, <1>2, GetOK
<1> HIDE DEF m, bq
<1>4. Taken = Members(bq) \cup {m} /\ Taken # {}
  BY <1>1, <1>3 DEF Taken
<1>5. inbox.queue = <<>> /\ ~inbox.atStart
  BY <1>4, Zenon DEF QInv, Staged
<1>6. Queued = {}
  BY <1>5 DEF Queued
<1>7. \A p \in Held : \A x \in Taken : x.side
  BY Zenon DEF QInv, Staged
<1>8. \A p \in Held : p.id \in Id /\ Goes(m, p)
  <2>1. \A p \in Held : p \in Message
    BY <1>2 DEF InboxState, Held
  <2> QED
    BY <1>4, <1>7, <2>1, Zenon DEF Goes, Message
<1>9. Taken \cup Queued \cup Held = W \cup {m}
  BY <1>4, <1>6
<1>10. Order(handled, l1, W \cup {m}) /\ Kept(handled, given, unpacked, W \cup {m})
  BY <1>9, Zenon DEF QInv, Lined
<1>11. /\ txQ' \in Seq(TxMessage) /\ batchQ' \in Seq(Seq(L2Message))
       /\ unpacked' \in SUBSET [id : Id, n : Nat]
       /\ InTurn(txQ') /\ Sorted(batchQ')
       /\ \A i \in DOMAIN txQ', x \in Members(batchQ') : Goes(txQ'[i], x)
       /\ Order(handled', l1, Taken' \cup Held)
       /\ Kept(handled', given, unpacked', Taken' \cup Held)
       /\ \A x \in Taken' : \/ x \in Members(bq)
                            \/ /\ x.arb = m.arb /\ x.eth = m.eth /\ x.time = m.time
                               /\ x.side = m.side
  BY <1>1, <1>2, <1>3, <1>8, <1>10, DispatchLine, Zenon
<1>12. \A x \in Taken' : InBlock(x) /\ \A p \in Held : x.side
  <2>1. \A x \in Taken : InBlock(x)
    BY Zenon DEF QInv, Lined
  <2>2. ASSUME NEW x \in Taken', x.arb = m.arb, x.eth = m.eth, x.time = m.time, x.side = m.side
        PROVE  InBlock(x) /\ \A p \in Held : x.side
    BY <1>4, <1>7, <2>1, <2>2, Zenon DEF InBlock
  <2>3. ASSUME NEW x \in Members(bq) PROVE InBlock(x) /\ \A p \in Held : x.side
    BY <1>4, <1>7, <2>1, Zenon
  <2> QED
    BY <1>11, <2>2, <2>3, Zenon
<1>13. Served
  BY <1>1, <1>2, <1>5, <1>11, <1>12, Zenon DEF Served
<1>14. Counts'
  BY <1>1, <1>3, DispatchCounts, Zenon DEF QInv
<1> QED
  BY <1>13, <1>14, ServedOK, Zenon DEF QInv

\* The next message of the inbox keeps the queues in order.
LEMMA RunInboxLine ==
  ASSUME QInv, RunInboxMessage
  PROVE  QInv'
<1> DEFINE m == Head(inbox.queue)
           rest == Tail(inbox.queue)
           W == Members(batchQ) \cup Held
<1>1. /\ txQ = <<>> /\ NoBatchItem /\ inbox.queue # <<>>
      /\ inbox' = [inbox EXCEPT !.queue = rest] /\ l1' = l1 /\ given' = given
      /\ \/ m.kind = "L2" /\ dispatch(m, batchQ) /\ spacing' = spacing
         \/ /\ spacing' \in Spacings /\ Handled(m)
            /\ UNCHANGED <<txQ, batchQ, seqNum, out, unpacked, executed>>
  BY Zenon DEF RunInboxMessage, FromInbox
<1>2. /\ inbox \in InboxState /\ spacing \in Spacings /\ l1 \in Nat
      /\ batchQ \in Seq(Seq(L2Message)) /\ unpacked \in SUBSET [id : Id, n : Nat]
      /\ Sorted(batchQ) /\ Typed /\ Len(inbox.queue) <= 1
      /\ \A x \in Queued : x.kind = "L2" => x \in L2Message
  BY Zenon DEF QInv, Typed, Lined
<1>3. Members(batchQ) = {}
  BY <1>1, <1>2, NoMembers
<1>4. inbox.queue \in Seq(Message)
  BY <1>2, Zenon DEF InboxState
<1>5. m \in Message /\ rest = <<>> /\ Queued = {m} /\ <<>> \in Seq(Message)
  BY <1>1, <1>2, <1>4 DEF Queued
<1> HIDE DEF m, rest
<1>6. /\ inbox' \in InboxState /\ inbox'.queue = <<>> /\ inbox'.pending = inbox.pending
      /\ inbox'.atStart = inbox.atStart
      /\ inbox'.arb = inbox.arb /\ inbox'.eth = inbox.eth /\ inbox'.time = inbox.time
  <2>1. rest \in Seq(Message)
    BY <1>5
  <2>2. inbox' = [inbox EXCEPT !.queue = rest]
    BY <1>1, Zenon
  <2> QED
    BY <1>2, <1>5, <2>1, <2>2, Zenon DEF InboxState
<1>7. Taken = {}
  BY <1>1, <1>3 DEF Taken
<1>8. ~inbox.atStart /\ \A p \in Held : m.side
  BY <1>5, Zenon DEF QInv, Staged
<1>9. m.id \in Id /\ \A p \in Held : p.id \in Id /\ Goes(m, p)
  <2>1. \A p \in Held : p \in Message
    BY <1>2 DEF InboxState, Held
  <2> QED
    BY <1>5, <1>8, <2>1, Zenon DEF Goes, Message
<1>10. Taken \cup Queued \cup Held = W \cup {m}
  BY <1>3, <1>5, <1>7
<1>11. Order(handled, l1, W \cup {m}) /\ Kept(handled, given, unpacked, W \cup {m})
  BY <1>10, Zenon DEF QInv, Lined
<1>12. InBlock(m)
  BY <1>5, Zenon DEF QInv, Lined
<1>13. CASE m.kind = "L2" /\ dispatch(m, batchQ) /\ spacing' = spacing
  <2>1. m \in L2Message
    BY <1>2, <1>5, <1>13, Zenon
  <2>2. /\ txQ' \in Seq(TxMessage) /\ batchQ' \in Seq(Seq(L2Message))
        /\ unpacked' \in SUBSET [id : Id, n : Nat]
        /\ InTurn(txQ') /\ Sorted(batchQ')
        /\ \A i \in DOMAIN txQ', x \in Members(batchQ') : Goes(txQ'[i], x)
        /\ Order(handled', l1, Taken' \cup Held)
        /\ Kept(handled', given, unpacked', Taken' \cup Held)
        /\ \A x \in Taken' : \/ x \in Members(batchQ)
                             \/ /\ x.arb = m.arb /\ x.eth = m.eth /\ x.time = m.time
                                /\ x.side = m.side
    BY <1>1, <1>2, <1>3, <1>9, <1>11, <1>13, <2>1, DispatchLine, Zenon
  <2>3. ASSUME NEW x \in Taken' PROVE InBlock(x) /\ \A p \in Held : x.side
    BY <1>3, <1>8, <1>12, <2>2, Zenon DEF InBlock
  <2>4. Served
    BY <1>1, <1>2, <1>6, <1>8, <1>13, <2>2, <2>3, Zenon DEF Served
  <2>5. Counts'
    BY <1>13, <2>1, DispatchCounts, Zenon DEF QInv
  <2> QED
    BY <2>4, <2>5, ServedOK, Zenon DEF QInv
<1>14. CASE /\ spacing' \in Spacings /\ Handled(m)
            /\ UNCHANGED <<txQ, batchQ, seqNum, out, unpacked, executed>>
  <2>1. handled' = (IF m.side THEN handled ELSE Append(handled, m.id))
    BY <1>14, Zenon DEF Handled
  <2>2. \A x \in W : Goes(m, x)
    BY <1>3, <1>9
  <2>3. Taken' = {} /\ Taken' \cup Held = W /\ DOMAIN txQ' = {}
    BY <1>1, <1>3, <1>14 DEF Taken
  <2> HIDE DEF W
  <2>4. Order(handled', l1, W) /\ Kept(handled', given, unpacked, W)
    BY <1>2, <1>9, <1>11, <2>1, <2>2, HandleOne, Zenon
  <2>5. InTurn(txQ') /\ txQ' \in Seq(TxMessage)
    BY <1>1, <1>14 DEF InTurn
  <2>6. Served
    BY <1>1, <1>2, <1>6, <1>8, <1>14, <2>3, <2>4, <2>5, Zenon DEF Served
  <2>7. Counts'
    BY <1>14, SameCounts DEF QInv
  <2> QED
    BY <2>6, <2>7, ServedOK, Zenon DEF QInv
<1> QED
  BY <1>1, <1>13, <1>14, Zenon

\* inbox_get in getFromL1Inbox: every queue is empty, and what is let in now
\* is all that waits.
Refilled ==
  /\ inbox' \in InboxState /\ Len(inbox'.queue) <= 1
  /\ \A x \in Queued' \cup Held' : x.kind = "L2" => x \in L2Message
  /\ \A x \in Queued' : InBlock(x)' /\ \A p \in Held' : x.side
  /\ inbox'.atStart => Queued' = {} /\ Held' = {}
  /\ \A p \in Held' :
       /\ p.arb = inbox'.arb /\ p.eth >= inbox'.eth /\ p.time >= inbox'.time
       /\ p.id = <<l1'>> /\ ~p.side
       /\ p.kind = "endOfBlock" => l1' \notin given'
  /\ l1' \in Nat /\ given' \in SUBSET (1 .. l1')
  /\ Order(handled, l1', Queued' \cup Held')
  /\ Kept(handled, given', unpacked, Queued' \cup Held')

\* When the loop asks for a message, only the inbox holds one back.
LEMMA WaitsFacts ==
  ASSUME QInv, Waits
  PROVE  /\ Members(batchQ) = {} /\ Taken = {} /\ Queued = {} /\ Taken' = {}
         /\ Order(handled, l1, Held) /\ Kept(handled, given, unpacked, Held)
<1>1. /\ txQ = <<>> /\ NoBatchItem /\ inbox.queue = <<>> /\ txQ' = txQ /\ batchQ' = batchQ
  BY Zenon DEF Waits, FromInbox
<1>2. Members(batchQ) = {}
  BY <1>1, NoMembers, Zenon DEF QInv
<1>3. Taken = {} /\ Queued = {} /\ Taken' = {}
  BY <1>1, <1>2 DEF Taken, Queued
<1>4. Taken \cup Queued \cup Held = Held
  BY <1>3
<1> QED
  BY <1>2, <1>3, <1>4, Zenon DEF QInv, Lined

\* A message that comes in keeps the queues in order.
LEMMA WaitStep ==
  ASSUME QInv, Waits, Refilled
  PROVE  QInv'
<1>1. /\ txQ = <<>> /\ txQ' = txQ /\ batchQ' = batchQ /\ seqNum' = seqNum
      /\ spacing' = spacing /\ handled' = handled /\ unpacked' = unpacked /\ executed' = executed
  BY Zenon DEF Waits, FromInbox
<1>2. Taken' = {} /\ Members(batchQ') = {}
  BY <1>1, WaitsFacts, Zenon
<1>3. Typed'
  BY <1>1, Zenon DEF Refilled, QInv, Typed
<1>4. Staged'
  BY <1>2, Zenon DEF Refilled, Staged
<1>5. Lined'
  <2>1. Taken' \cup Queued' \cup Held' = Queued' \cup Held'
    BY <1>2
  <2>2. \A x \in Taken' \cup Queued' : InBlock(x)'
    BY <1>2, Zenon DEF Refilled
  <2>3. InTurn(txQ') /\ Sorted(batchQ')
    BY <1>1, Zenon DEF QInv, Lined
  <2>4. \A i \in DOMAIN txQ', x \in Members(batchQ') : Goes(txQ'[i], x)
    BY <1>2, Zenon
  <2>5. Order(handled', l1', Queued' \cup Held') /\ Kept(handled', given', unpacked', Queued' \cup Held')
    BY <1>1, Zenon DEF Refilled
  <2> QED
    BY <2>1, <2>2, <2>3, <2>4, <2>5, Zenon DEF Lined
<1>6. Counts'
  BY <1>1, SameCounts, Zenon DEF QInv
<1> QED
  BY <1>3, <1>4, <1>5, <1>6 DEF QInv

Incoming(m, kind, load, id, side) ==
  /\ m \in Message /\ (load \in Content => m \in L2Message)
  /\ m.kind = kind /\ m.id = id /\ m.side = side /\ m.arb = inbox.arb
  /\ m.eth >= inbox.eth /\ m.time >= inbox.time

\* incomingRequestFromRaw: the block number is the inbox's, and neither the
\* L1 block number nor the timestamp goes back.
LEMMA IncomingOK ==
  ASSUME inbox \in InboxState, NEW kind \in {"L2", "setChainParameters", "endOfBlock"},
         NEW t \in Moment, NEW load \in Content \cup {Nothing}, NEW id \in Id,
         NEW side \in BOOLEAN
  PROVE  Incoming(incomingRequestFromRaw(kind, t[1], t[2], load, id, side), kind, load, id, side)
<1> DEFINE eth == larger(t[1], inbox.eth)
           time == larger(t[2], inbox.time)
           r == [kind |-> kind, arb |-> inbox.arb, eth |-> eth, time |-> time, id |-> id,
                 load |-> load, side |-> side]
<1>1. inbox.arb \in Nat /\ inbox.eth \in Nat /\ inbox.time \in Nat
  BY Zenon DEF InboxState
<1>2. t[1] \in Nat /\ t[2] \in Nat
  BY ArrivalAssumption
<1>3. /\ eth \in Nat /\ eth >= inbox.eth /\ time \in Nat /\ time >= inbox.time
  BY <1>1, <1>2 DEF larger
<1>4. incomingRequestFromRaw(kind, t[1], t[2], load, id, side) = r
  BY Zenon DEF incomingRequestFromRaw
<1> HIDE DEF eth, time
<1>5. /\ r.kind = kind /\ r.id = id /\ r.side = side /\ r.arb = inbox.arb /\ r.load = load
      /\ r.eth = eth /\ r.time = time
  BY Zenon
<1>6. r \in Message
  BY <1>1, <1>3, Zenon DEF Message
<1> HIDE DEF r
<1> QED
  BY <1>3, <1>4, <1>5, <1>6, Zenon DEF L2Message, Incoming

\* The message that the inbox holds back.
LEMMA PendingHeld ==
  ASSUME inbox \in InboxState, inbox.pending # None
  PROVE  Held = {inbox.pending} /\ inbox.pending \in Message
  BY DEF InboxState, Held

\* A message of the node itself keeps the queues in order.
LEMMA SideloadLine ==
  ASSUME QInv, NEW t \in Moment, NEW load \in SideLoad, Sideload(t, load)
  PROVE  QInv'
<1>0. PICK m : m = incomingRequestFromRaw("L2", t[1], t[2], load, <<0>>, TRUE)
  BY Zenon
<1> DEFINE q == Append(inbox.queue, m)
<1>1. /\ Waits /\ inbox.queue = <<>> /\ inbox.pending # None
      /\ inbox' = [inbox EXCEPT !.queue = q] /\ l1' = l1 /\ given' = given
  BY <1>0, Zenon DEF Sideload, Waits
<1>2. inbox \in InboxState /\ l1 \in Nat /\ given \in SUBSET (1 .. l1)
  BY Zenon DEF QInv, Typed
<1>3. load \in Content /\ <<0>> \in Id
  BY ContentAssumption DEF Id
<1>4. /\ m \in Message /\ m \in L2Message /\ m.side = TRUE /\ m.arb = inbox.arb
      /\ m.eth >= inbox.eth /\ m.time >= inbox.time
  <2>1. "L2" \in {"L2", "setChainParameters", "endOfBlock"} /\ TRUE \in BOOLEAN
        /\ load \in Content \cup {Nothing}
    BY <1>3
  <2>2. Incoming(m, "L2", load, <<0>>, TRUE)
    BY <1>0, <1>2, <1>3, <2>1, IncomingOK, Zenon
  <2> QED
    BY <1>3, <2>2, Zenon DEF Incoming
<1>5. q \in Seq(Message) /\ q = <<m>> /\ Len(q) = 1 /\ {q[i] : i \in DOMAIN q} = {m}
  BY <1>1, <1>4
<1> HIDE DEF q
<1>6. /\ inbox' \in InboxState /\ inbox'.queue = q /\ inbox'.pending = inbox.pending
      /\ inbox'.atStart = inbox.atStart
      /\ inbox'.arb = inbox.arb /\ inbox'.eth = inbox.eth /\ inbox'.time = inbox.time
  BY <1>1, <1>2, <1>5, Zenon DEF InboxState
<1>7. Queued' = {m} /\ Held' = Held /\ Len(inbox'.queue) <= 1
  BY <1>5, <1>6 DEF Queued, Held
<1>8. Held # {} /\ ~inbox.atStart
  BY <1>1, <1>2, PendingHeld, Zenon DEF QInv, Staged
<1>9. Order(handled, l1, Held) /\ Kept(handled, given, unpacked, Held)
  BY <1>1, WaitsFacts
<1>10. Order(handled, l1, {m} \cup Held)
  BY <1>4, <1>9, Zenon DEF Order
<1>11. Kept(handled, given, unpacked, {m} \cup Held)
  <2>1. Ids({m} \cup Held) = Ids(Held)
    BY <1>4 DEF Ids
  <2> QED
    BY <1>9, <2>1, Zenon DEF Kept
<1>12. InBlock(m)'
  BY <1>4, <1>6, Zenon DEF InBlock
<1>13. \A x \in Queued' \cup Held' : x.kind = "L2" => x \in L2Message
  BY <1>4, <1>7, Zenon DEF QInv, Typed
<1>14. Refilled
  BY <1>1, <1>2, <1>4, <1>6, <1>7, <1>8, <1>10, <1>11, <1>12, <1>13, Zenon
     DEF Refilled, QInv, Staged
<1> QED
  BY <1>1, <1>14, WaitStep

\* A message of L1 comes after all that was handled.
LEMMA NewestLast ==
  ASSUME NEW h, NEW l \in Nat, Order(h, l, {}), NEW m, m.id = <<l + 1>>
  PROVE  Order(h, l + 1, {}) /\ Order(h, l + 1, {m})
<1>1. h \in Seq(Id) /\ \A i \in DOMAIN h : h[i][1] <= l
  BY Zenon DEF Order
<1>2. ASSUME NEW i \in DOMAIN h
      PROVE  h[i][1] <= l + 1 /\ Precedes(h[i], <<l + 1>>)
  <2>1. h[i] \in Id /\ h[i][1] <= l
    BY <1>1
  <2>2. h[i][1] \in Nat /\ 1 \in (DOMAIN h[i]) \cap (DOMAIN <<l + 1>>) /\ <<l + 1>>[1] = l + 1
    BY <2>1 DEF Id
  <2>3. h[i][1] < l + 1
    BY <2>1, <2>2
  <2>4. \A j \in 1 .. 1 - 1 : h[i][j] = <<l + 1>>[j]
    OBVIOUS
  <2>5. Precedes(h[i], <<l + 1>>)
    BY <2>2, <2>3, <2>4 DEF Precedes
  <2> QED
    BY <2>2, <2>3, <2>5
<1>3. m.id[1] <= l + 1
  OBVIOUS
<1> QED
  BY <1>2, <1>3, Zenon DEF Order

\* It is one more that must not be lost.
LEMMA NewestKept ==
  ASSUME NEW h, NEW g, NEW u, NEW n, Kept(h, g, u, {}), NEW m, ~m.side, m.id = <<n>>
  PROVE  Kept(h, g \cup {n}, u, {m})
<1>1. Ids({m}) = {<<n>>} /\ Ids({}) = {}
  BY DEF Ids
<1>2. Promised(g \cup {n}, u) = Promised(g, u) \cup {<<n>>}
  BY DEF Promised
<1> QED
  BY <1>1, <1>2, Zenon DEF Kept

\* A message from L1 keeps the queues in order.
LEMMA FromL1Line ==
  ASSUME QInv, NEW kind \in {"L2", "setChainParameters", "endOfBlock"}, NEW t \in Moment,
         NEW load \in Content \cup {Nothing}, kind = "L2" => load \in Content,
         FromL1(kind, t, load)
  PROVE  QInv'
<1>0. PICK m : m = incomingRequestFromRaw(kind, t[1], t[2], load, <<l1 + 1>>, FALSE)
  BY Zenon
<1> DEFINE q == Append(inbox.queue, m)
<1>1. /\ Waits /\ inbox.queue = <<>> /\ inbox.pending = None
      /\ l1' = l1 + 1
      /\ given' = IF kind = "endOfBlock" THEN given ELSE given \cup {l1 + 1}
      /\ \/ ~inbox.atStart /\ inbox' = [inbox EXCEPT !.pending = m]
         \/ inbox.atStart /\ kind = "endOfBlock" /\ inbox' = inbox
         \/ inbox' = [inbox EXCEPT !.queue = q, !.eth = m.eth, !.arb = m.arb,
                                   !.time = m.time, !.atStart = FALSE]
  BY <1>0, Zenon DEF FromL1, Waits
<1>2. inbox \in InboxState /\ l1 \in Nat /\ given \in SUBSET (1 .. l1)
  BY Zenon DEF QInv, Typed
<1>3. <<l1 + 1>> \in Id /\ FALSE \in BOOLEAN
  BY <1>2 DEF Id
<1>4. /\ m \in Message /\ (kind = "L2" => m \in L2Message) /\ m.kind = kind /\ m.id = <<l1 + 1>>
      /\ m.side = FALSE /\ m.arb = inbox.arb /\ m.eth >= inbox.eth /\ m.time >= inbox.time
  <2>1. Incoming(m, kind, load, <<l1 + 1>>, FALSE)
    BY <1>0, <1>2, <1>3, IncomingOK, Zenon
  <2> QED
    BY <2>1, Zenon DEF Incoming
<1>5. Held = {} /\ Order(handled, l1, {}) /\ Kept(handled, given, unpacked, {})
  <2>1. Held = {}
    BY <1>1 DEF Held
  <2> QED
    BY <1>1, <2>1, WaitsFacts, Zenon
<1>6. Order(handled, l1', {}) /\ Order(handled, l1', {m})
  BY <1>1, <1>2, <1>4, <1>5, NewestLast, Zenon
<1>7. /\ kind = "endOfBlock" => Kept(handled, given', unpacked, {})
      /\ Kept(handled, given', unpacked, {m})
  <2>1. CASE kind = "endOfBlock"
    <3>1. given' = given
      BY <1>1, <2>1, Zenon
    <3> QED
      BY <1>5, <2>1, <3>1 DEF Kept, Ids
  <2>2. CASE kind # "endOfBlock"
    BY <1>1, <1>4, <1>5, <2>2, NewestKept, Zenon
  <2> QED
    BY <2>1, <2>2
<1>8. /\ l1' \in Nat /\ given' \in SUBSET (1 .. l1')
      /\ kind = "endOfBlock" => l1' \notin given'
  BY <1>1, <1>2
<1>9. m # None
  <2>1. m.kind # "none"
    BY <1>4
  <2>2. None.kind = "none"
    BY DEF None
  <2> QED
    BY <2>1, <2>2, Zenon
<1>10. CASE ~inbox.atStart /\ inbox' = [inbox EXCEPT !.pending = m]
  <2>1. /\ inbox' \in InboxState /\ inbox'.queue = inbox.queue /\ inbox'.pending = m
        /\ inbox'.atStart = inbox.atStart
        /\ inbox'.arb = inbox.arb /\ inbox'.eth = inbox.eth /\ inbox'.time = inbox.time
    BY <1>2, <1>4, <1>10, Zenon DEF InboxState
  <2>2. Queued' = {} /\ Held' = {m} /\ Len(inbox'.queue) <= 1 /\ Queued' \cup Held' = {m}
    BY <1>1, <1>9, <2>1 DEF Queued, Held
  <2>3. Refilled
    BY <1>1, <1>4, <1>6, <1>7, <1>8, <1>10, <2>1, <2>2, Zenon DEF Refilled
  <2> QED
    BY <1>1, <2>3, WaitStep
<1>11. CASE inbox.atStart /\ kind = "endOfBlock" /\ inbox' = inbox
  <2>1. Queued' = {} /\ Held' = {} /\ Len(inbox'.queue) <= 1 /\ Queued' \cup Held' = {}
    BY <1>1, <1>11 DEF Queued, Held
  <2>2. Refilled
    BY <1>1, <1>2, <1>6, <1>7, <1>8, <1>11, <2>1, Zenon DEF Refilled
  <2> QED
    BY <1>1, <2>2, WaitStep
<1>12. CASE inbox' = [inbox EXCEPT !.queue = q, !.eth = m.eth, !.arb = m.arb,
                                   !.time = m.time, !.atStart = FALSE]
  <2>1. q \in Seq(Message) /\ q = <<m>> /\ Len(q) <= 1 /\ {q[i] : i \in DOMAIN q} = {m}
    BY <1>1, <1>4
  <2>2. m.arb \in Nat /\ m.eth \in Nat /\ m.time \in Nat
    BY <1>4, Zenon DEF Message
  <2>3. m.eth >= m.eth /\ m.time >= m.time
    BY <2>2
  <2> HIDE DEF q
  <2>4. /\ inbox' \in InboxState /\ inbox'.queue = q /\ inbox'.pending = inbox.pending
        /\ inbox'.atStart = FALSE
        /\ inbox'.arb = m.arb /\ inbox'.eth = m.eth /\ inbox'.time = m.time
    BY <1>2, <1>4, <1>12, <2>1, <2>2, Zenon DEF InboxState
  <2>5. Queued' = {m} /\ Held' = {} /\ Len(inbox'.queue) <= 1 /\ Queued' \cup Held' = {m}
    BY <1>1, <2>1, <2>4 DEF Queued, Held
  <2>6. InBlock(m)'
    BY <2>3, <2>4, Zenon DEF InBlock
  <2>7. Refilled
    BY <1>1, <1>4, <1>6, <1>7, <1>8, <2>4, <2>5, <2>6, Zenon DEF Refilled
  <2> QED
    BY <1>1, <2>7, WaitStep
<1> QED
  BY <1>1, <1>10, <1>11, <1>12

\* The end of a block keeps the queues in order.
LEMMA EndBlockLine ==
  ASSUME QInv, EndBlock
  PROVE  QInv'
<1>0. PICK p : p = inbox.pending
  OBVIOUS
<1>1. PICK m : m = [p EXCEPT !.arb = @ + 1]
  BY Zenon
<1> DEFINE q == IF p.kind = "endOfBlock" THEN inbox.queue ELSE Append(inbox.queue, m)
<1>2. /\ Waits /\ inbox.queue = <<>> /\ p # None /\ l1' = l1 /\ given' = given
      /\ inbox' = [inbox EXCEPT !.pending = None, !.arb = @ + 1, !.eth = p.eth,
                                !.time = p.time, !.queue = q,
                                !.atStart = p.kind = "endOfBlock"]
  BY <1>0, <1>1, Zenon DEF EndBlock, Waits
<1>3. inbox \in InboxState /\ l1 \in Nat /\ given \in SUBSET (1 .. l1)
  BY Zenon DEF QInv, Typed
<1>4. Held = {p} /\ p \in Message
  BY <1>0, <1>2, <1>3, PendingHeld
<1>5. /\ p.arb = inbox.arb /\ p.id = <<l1>> /\ ~p.side
      /\ p.kind = "endOfBlock" => l1 \notin given
      /\ p.kind = "L2" => p \in L2Message
  BY <1>4, Zenon DEF QInv, Staged, Typed
<1>6. inbox.arb + 1 \in Nat /\ p.arb + 1 = inbox.arb + 1
  <2>1. inbox.arb \in Nat
    BY <1>3, Zenon DEF InboxState
  <2> QED
    BY <1>5, <2>1
<1>7. /\ m \in Message /\ m.kind = p.kind /\ m.id = p.id /\ m.side = p.side
      /\ m.load = p.load /\ m.eth = p.eth /\ m.time = p.time /\ m.arb = inbox.arb + 1
  BY <1>1, <1>4, <1>6, Zenon DEF Message
<1>8. m.kind = "L2" => m \in L2Message
  BY <1>5, <1>7, Zenon DEF L2Message
<1>9. Order(handled, l1, {p}) /\ Kept(handled, given, unpacked, {p})
  BY <1>2, <1>4, WaitsFacts, Zenon
<1>10. Order(handled, l1, {m}) /\ Kept(handled, given, unpacked, {m})
  <2>1. Ids({m}) = Ids({p})
    BY <1>7 DEF Ids
  <2> QED
    BY <1>7, <1>9, <2>1, Zenon DEF Order, Kept
<1>11. Order(handled, l1, {})
  BY <1>9, Zenon DEF Order
<1>12. p.kind = "endOfBlock" => Kept(handled, given, unpacked, {})
  <2>1. ASSUME p.kind = "endOfBlock", NEW a \in Promised(given, unpacked)
        PROVE  a # <<l1>>
    <3>1. CASE a \in {<<n>> : n \in given}
      <4>1. PICK n \in given : a = <<n>>
        BY <3>1
      <4> QED
        BY <1>5, <2>1, <4>1
    <3>2. ASSUME NEW b \in unpacked, NEW i \in 1 .. b.n, a = Append(b.id, i)
          PROVE  a # <<l1>>
      <4>1. b.id \in Id
        BY Zenon DEF QInv, Typed
      <4>2. b.id \in Seq(Nat) /\ b.id # <<>> /\ i \in Int
        BY <4>1 DEF Id
      <4>3. Len(Append(b.id, i)) # 1
        BY <4>2
      <4> QED
        BY <3>2, <4>3
    <3> QED
      BY <3>1, <3>2 DEF Promised
  <2>2. Ids({p}) = {<<l1>>}
    BY <1>5 DEF Ids
  <2>3. Promised(given, unpacked) \subseteq Settled(handled, unpacked) \cup {<<l1>>}
    BY <1>9, <2>2, Zenon DEF Kept
  <2>4. ASSUME p.kind = "endOfBlock"
        PROVE  Promised(given, unpacked) \subseteq Settled(handled, unpacked)
    BY <2>1, <2>3, <2>4
  <2> QED
    BY <2>4 DEF Kept
<1>13. q \in Seq(Message) /\ Len(q) <= 1 /\ {q[i] : i \in DOMAIN q} \subseteq {m}
       /\ (p.kind = "endOfBlock" => {q[i] : i \in DOMAIN q} = {})
       /\ (p.kind # "endOfBlock" => {q[i] : i \in DOMAIN q} = {m})
  <2>1. Append(<<>>, m) = <<m>> /\ <<m>> \in Seq(Message) /\ <<>> \in Seq(Message)
    BY <1>7
  <2>2. CASE p.kind = "endOfBlock"
    <3>1. q = <<>>
      BY <1>2, <2>2, Zenon
    <3> HIDE DEF q
    <3>2. <<>> \in Seq(Message) /\ Len(<<>>) = 0 /\ DOMAIN <<>> = {}
      OBVIOUS
    <3> QED
      BY <2>2, <3>1, <3>2
  <2>3. CASE p.kind # "endOfBlock"
    <3>1. q = <<m>>
      BY <1>2, <2>1, <2>3, Zenon
    <3> HIDE DEF q
    <3> QED
      BY <2>1, <2>3, <3>1
  <2> QED
    BY <2>2, <2>3, Zenon
<1> HIDE DEF q
<1>14. p.eth \in Nat /\ p.time \in Nat /\ p.eth >= p.eth /\ p.time >= p.time
  <2>1. p.eth \in Nat /\ p.time \in Nat
    BY <1>4, Zenon DEF Message
  <2> QED
    BY <2>1
<1>15. /\ inbox' \in InboxState /\ inbox'.queue = q /\ inbox'.pending = None
       /\ inbox'.arb = inbox.arb + 1 /\ inbox'.eth = p.eth /\ inbox'.time = p.time
       /\ inbox'.atStart = (p.kind = "endOfBlock")
  BY <1>2, <1>3, <1>6, <1>13, <1>14, Zenon DEF InboxState
<1>16. Held' = {} /\ Queued' = {q[i] : i \in DOMAIN q} /\ Queued' \cup Held' = Queued'
  BY <1>15 DEF Held, Queued
<1>17. InBlock(m)'
  BY <1>7, <1>14, <1>15, Zenon DEF InBlock
<1>18. /\ Order(handled, l1', Queued' \cup Held')
       /\ Kept(handled, given', unpacked, Queued' \cup Held')
  <2>1. Queued' \cup Held' = {} \/ Queued' \cup Held' = {m}
    BY <1>13, <1>16, Zenon
  <2>2. Queued' \cup Held' = {} => p.kind = "endOfBlock"
    BY <1>13, <1>16
  <2> QED
    BY <1>2, <1>10, <1>11, <1>12, <2>1, <2>2, Zenon
<1>19. \A x \in Queued' \cup Held' : x = m
  BY <1>13, <1>16
<1>20. inbox'.atStart => Queued' = {} /\ Held' = {}
  BY <1>13, <1>15, <1>16, Zenon
<1>21. Refilled
  BY <1>2, <1>3, <1>8, <1>13, <1>15, <1>16, <1>17, <1>18, <1>19, <1>20, Zenon DEF Refilled
<1> QED
  BY <1>2, <1>21, WaitStep

\* The queues are in order at first.
LEMMA InitLine == Init => QInv
<1> SUFFICES ASSUME Init PROVE QInv
  OBVIOUS
<1>1. /\ inbox = [queue |-> <<>>, arb |-> 1, eth |-> 0, time |-> 0, atStart |-> TRUE,
                  pending |-> None]
      /\ txQ = <<>> /\ batchQ = <<>> /\ seqNum = [c \in Caller |-> 0]
      /\ spacing \in Spacings /\ l1 = 0 /\ given = {} /\ handled = <<>>
      /\ unpacked = {} /\ executed = <<>>
  BY Zenon DEF Init
<1>2. /\ inbox.queue = <<>> /\ inbox.arb = 1 /\ inbox.eth = 0 /\ inbox.time = 0
      /\ inbox.atStart = TRUE /\ inbox.pending = None
  BY <1>1, Zenon
<1>3. inbox \in InboxState
  <2>1. <<>> \in Seq(Message) /\ 1 \in Nat /\ 0 \in Nat /\ TRUE \in BOOLEAN
    OBVIOUS
  <2> QED
    BY <1>1, <2>1, Zenon DEF InboxState
<1>4. Queued = {} /\ Held = {} /\ Taken = {} /\ Members(batchQ) = {}
  BY <1>1, <1>2 DEF Queued, Held, Taken, Members
<1>5. Typed
  <2>1. Len(inbox.queue) <= 1
    BY <1>2
  <2>2. txQ \in Seq(TxMessage) /\ batchQ \in Seq(Seq(L2Message)) /\ l1 \in Nat
    BY <1>1
  <2> QED
    BY <1>1, <1>3, <1>4, <2>1, <2>2, Zenon DEF Typed
<1>6. Staged
  BY <1>4, Zenon DEF Staged
<1>7. Lined
  <2>1. InTurn(txQ) /\ Sorted(batchQ)
    BY <1>1 DEF InTurn, Sorted
  <2>2. \A i \in DOMAIN txQ, x \in Members(batchQ) : Goes(txQ[i], x)
    BY <1>4
  <2>3. Order(handled, l1, {})
    BY <1>1 DEF Order
  <2>4. Kept(handled, given, unpacked, {})
    BY <1>1 DEF Kept, Promised
  <2>5. Taken \cup Queued \cup Held = {}
    BY <1>4
  <2> QED
    BY <1>4, <2>1, <2>2, <2>3, <2>4, <2>5, Zenon DEF Lined
<1>8. Counts
  BY <1>1 DEF Counts, NoReplay
<1> QED
  BY <1>5, <1>6, <1>7, <1>8 DEF QInv

\* Every step keeps the queues in order.
LEMMA NextLine == QInv /\ [Next]_vars => QInv'
<1> SUFFICES ASSUME QInv, [Next]_vars PROVE QInv'
  OBVIOUS
<1>1. CASE UNCHANGED vars
  <2>1. /\ inbox' = inbox /\ txQ' = txQ /\ batchQ' = batchQ /\ seqNum' = seqNum
        /\ spacing' = spacing /\ l1' = l1 /\ given' = given /\ handled' = handled
        /\ unpacked' = unpacked /\ executed' = executed
    BY <1>1, Zenon DEF vars
  <2>2. Taken' = Taken /\ Queued' = Queued /\ Held' = Held
    BY <2>1, Zenon DEF Taken, Queued, Held
  <2>3. Typed'
    BY <2>1, <2>2, Zenon DEF QInv, Typed
  <2>4. Staged'
    BY <2>1, <2>2, Zenon DEF QInv, Staged
  <2>5. Lined'
    BY <2>1, <2>2, Zenon DEF QInv, Lined, InBlock
  <2>6. Counts'
    BY <2>1, SameCounts, Zenon DEF QInv
  <2> QED
    BY <2>3, <2>4, <2>5, <2>6, Zenon DEF QInv
<1>2. CASE \E t \in Moment, load \in SideLoad : Sideload(t, load)
  BY <1>2, SideloadLine, Zenon
<1>3. CASE \E t \in Moment, load \in Load : FromL1("L2", t, load)
  <2>1. PICK t \in Moment, load \in Load : FromL1("L2", t, load)
    BY <1>3
  <2>2. load \in Content /\ load \in Content \cup {Nothing}
    BY ContentAssumption
  <2>3. "L2" \in {"L2", "setChainParameters", "endOfBlock"}
    OBVIOUS
  <2> QED
    BY <2>1, <2>2, <2>3, FromL1Line, Zenon
<1>4. CASE \E t \in Moment : \/ FromL1("setChainParameters", t, Nothing)
                             \/ FromL1("endOfBlock", t, Nothing)
  <2>1. PICK t \in Moment : \/ FromL1("setChainParameters", t, Nothing)
                            \/ FromL1("endOfBlock", t, Nothing)
    BY <1>4
  <2>2. /\ Nothing \in Content \cup {Nothing}
        /\ "setChainParameters" \in {"L2", "setChainParameters", "endOfBlock"}
        /\ "endOfBlock" \in {"L2", "setChainParameters", "endOfBlock"}
        /\ "setChainParameters" # "L2" /\ "endOfBlock" # "L2"
    OBVIOUS
  <2> QED
    BY <2>1, <2>2, FromL1Line, Zenon
<1>5. CASE Loop
  BY <1>5, RunTxLine, RunBatchItemLine, RunInboxLine, EndBlockLine, Zenon DEF Loop
<1> QED
  BY <1>1, <1>2, <1>3, <1>4, <1>5, Zenon DEF Next, Arrival

\* What waits and what was handled make up, in order and without a gap, what
\* the loop was given, in every reachable state.
THEOREM QueuesInvariant == Spec => []QInv
  BY InitLine, NextLine, PTL DEF Spec

\* The sequence-number check of gasAccounting_prepareTx: an account's
\* transactions run in the order of their numbers, none twice, however they
\* reach the loop.
THEOREM NeverReplayed == Spec => []NoReplay
<1>1. QInv => NoReplay
  BY Zenon DEF QInv, Counts
<1> QED
  BY <1>1, QueuesInvariant, PTL

\* mainRunLoop with its queues, the inbox and the waiting message: every
\* message of L1 and every item of a batch is handled once, in the order of
\* L1, and none is lost by errors, ends of blocks or nested batches.
THEOREM InOrderAndComplete == Spec => []HandledOnce
<1>1. ASSUME QInv PROVE HandledInOrder
  <2>1. handled \in Seq(Id) /\ \A i, j \in DOMAIN handled : i < j => Precedes(handled[i], handled[j])
    BY <1>1, Zenon DEF QInv, Lined, Order
  <2>2. ASSUME NEW j \in 2 .. Len(handled)
        PROVE  j \in DOMAIN handled /\ j - 1 \in DOMAIN handled /\ j - 1 < j
    BY <2>1
  <2> QED
    BY <2>1, <2>2, Zenon DEF HandledInOrder
<1>2. ASSUME QInv, Idle PROVE Promised(given, unpacked) \subseteq Settled(handled, unpacked)
  <2>1. txQ = <<>> /\ NoBatchItem /\ inbox.queue = <<>> /\ inbox.pending = None
    BY <1>2, Zenon DEF Idle, FromInbox
  <2>2. Members(batchQ) = {}
    BY <1>2, <2>1, NoMembers, Zenon DEF QInv
  <2>3. Taken \cup Queued \cup Held = {}
    BY <2>1, <2>2 DEF Taken, Queued, Held
  <2>4. Kept(handled, given, unpacked, {})
    BY <1>2, <2>3, Zenon DEF QInv, Lined
  <2> QED
    BY <2>4 DEF Kept, Ids
<1>3. ASSUME QInv PROVE NothingLost
  <2>1. /\ \A n \in given : <<n>> \in Promised(given, unpacked)
        /\ \A u \in unpacked : \A i \in 1 .. u.n : Append(u.id, i) \in Promised(given, unpacked)
    BY DEF Promised
  <2> QED
    BY <1>2, <1>3, <2>1, Zenon DEF NothingLost, Settled
<1>4. QInv => HandledOnce
  BY <1>1, <1>3, Zenon DEF HandledOnce
<1> QED
  BY <1>4, QueuesInvariant, PTL
=============================================================================
