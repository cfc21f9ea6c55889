-------------------------- MODULE TagExchangeProofs --------------------------
(***************************************************************************)
(* The tag-based exchange, for any peers, any number of messages and of    *)
(* consecutive exchanges with the same op_id: what recv() returns is in    *)
(* order, with the right payloads and of this exchange, the counts of      *)
(* waiting messages are exact, an idle exchange is complete, and the       *)
(* exchange does what MetadataPayloadExchange promises.  Below them, the   *)
(* transfers of the communicators: no message overtakes another.           *)
(***************************************************************************)
EXTENDS MCTagExchange, ProofLemmas

MsgRecord ==
    [marker : {FALSE}, exch : Nat, id : 1 .. MaxId, payload : BOOLEAN, buffer : BOOLEAN,
     arrival : Nat, forced : BOOLEAN, got : (Nat \X Nat) \cup {<<>>}]
MarkerRecord == [marker : {TRUE}, exch : Nat, count : 0 .. MaxId]
Metadata == MsgRecord \cup MarkerRecord

\* A position in a peer's program: the exchange, and the messages sent in it.
Spots == Nat \X Nat

Types ==
    /\ pexch \in [Peer -> 1 .. MaxExchanges + 1]
    /\ messages_sent \in [Peer -> 0 .. MaxId]
    /\ exch \in 1 .. MaxExchanges
    /\ pc \in {"out", "receive", "setup", "cleanup", "recv"}
    /\ todo \subseteq Peer
    /\ done \in [Peer -> SUBSET (1 .. MaxId)]
    /\ stale \in [Peer -> SUBSET (1 .. MaxId)]
    /\ \A p \in Peer : stale[p] \subseteq done[p]
    /\ peer_received \in [Peer -> 0 .. MaxId]
    /\ peer_expected \in [Peer -> 0 .. MaxId]
    /\ peer_terminated \in [Peer -> BOOLEAN]
    /\ num_awaiting_buffer \in [Peer -> Int]
    /\ {stalled, finished, fire, fault} \subseteq BOOLEAN

QueueTypes ==
    /\ meta \in [Peer -> Seq(Metadata)]
    /\ data \in [Peer -> Seq(Spots)]
    /\ incoming \in [Peer -> Seq(MsgRecord)]
    /\ in_transit \in [Peer -> Seq(MsgRecord)]
    /\ received \in [Peer -> Seq(MsgRecord)]
    /\ delivered \in [Peer -> Seq(MsgRecord)]

-----------------------------------------------------------------------------
(* The parts of the inductive invariant, as facts about the sequences.     *)

\* The messages of exchange x that follow the n-th one.
Numbered(x, q, n) == \A i \in DOMAIN q : q[i].exch = x /\ q[i].id = n + i

\* The n messages taken of a peer: handed out, in transit and incoming.
Numbering(x, out, transit, inc, n) ==
    /\ Numbered(x, out, 0)
    /\ Numbered(x, transit, Len(out))
    /\ Numbered(x, inc, Len(out) + Len(transit))
    /\ n = Len(out) + Len(transit) + Len(inc)

\* The metadata on the wire lead from one position of the peer's program, the exchange
\* and the number of messages sent in it, to another.
Before(e) == IF e.marker THEN <<e.exch, e.count>> ELSE <<e.exch, e.id - 1>>
After(e) == IF e.marker THEN <<e.exch + 1, 0>> ELSE <<e.exch, e.id>>
Less(a, b) == a[1] < b[1] \/ (a[1] = b[1] /\ a[2] < b[2])
AtMost(a, b) == a = b \/ Less(a, b)

Stream(q, from, to) ==
    /\ q = <<>> => from = to
    /\ q # <<>> => Before(q[1]) = from /\ After(q[Len(q)]) = to
    /\ \A i \in 1 .. Len(q) - 1 : Before(q[i + 1]) = After(q[i])
    /\ \A i, j \in DOMAIN q : i < j => Less(After(q[i]), After(q[j]))
    /\ \A i \in DOMAIN q : Less(from, After(q[i])) /\ AtMost(After(q[i]), to)

\* The payloads on the wire are those of the messages that have not got theirs.
Key(m) == <<m.exch, m.id>>
PayloadKeys(q) == {Key(m) : m \in {m \in Range(q) : ~ m.marker /\ m.payload}}

Payloads(d, inc, q) ==
    /\ Range(d) = PayloadKeys(inc) \cup PayloadKeys(q)
    /\ \A i, j \in DOMAIN d : i < j => Less(d[i], d[j])

\* A message that is handed out or in transit has its own payload.
Matched(out, transit) ==
    /\ \A i \in DOMAIN out : out[i].payload => out[i].got = Key(out[i])
    /\ \A i \in DOMAIN transit : transit[i].got = Key(transit[i])

\* Buffers are for payloads, and given in the order of the messages.
Waiting(q) == {m.id : m \in {m \in Range(q) : is_awaiting_buffer(m)}}

Buffers(inc, n) ==
    /\ \A i \in DOMAIN inc : inc[i].buffer => inc[i].payload
    /\ \A i, j \in DOMAIN inc : i < j /\ is_awaiting_buffer(inc[i]) => ~ inc[j].buffer
    /\ n = Cardinality(Waiting(inc))

\* Where this rank is in the peer's program, and where the peer is.
Position(p) == IF peer_terminated[p] THEN <<exch + 1, 0>> ELSE <<exch, peer_received[p]>>
PeerAt(p) == <<pexch[p], messages_sent[p]>>

PeerInv(p) ==
    /\ Numbering(exch, Out(p), in_transit[p], incoming[p], peer_received[p])
    /\ Stream(meta[p], Position(p), PeerAt(p))
    /\ peer_terminated[p] => peer_expected[p] = peer_received[p]
    /\ Payloads(data[p], incoming[p], meta[p])
    /\ Matched(Out(p), in_transit[p])
    /\ Buffers(incoming[p], num_awaiting_buffer[p])

\* The messages of all peers that wait for a buffer, and those that have arrived.
Pairs(W) == UNION {{p} \X W[p] : p \in Peer}
AllWaiting(inc) == Pairs([p \in Peer |-> Waiting(inc[p])])
AllArrived(n) == Pairs([p \in Peer |-> 1 .. n[p]])

RankInv ==
    /\ pc \in {"out", "receive"} => \A p \in Peer : received[p] = <<>>
    /\ total_awaiting_buffer = Cardinality(AllWaiting(incoming))
    /\ stalled <=> total_awaiting_buffer > 0
    /\ next_arrival = Cardinality(AllArrived(peer_received))
    /\ ~ fault

IInv ==
    /\ Types /\ QueueTypes
    /\ \A p \in Peer : PeerInv(p)
    /\ RankInv

-----------------------------------------------------------------------------
(* Numbers of messages. *)

\* MaxId is a bound on the messages of every peer in every exchange.
LEMMA MaxIdBound ==
  MaxId \in Nat /\ \A p \in Peer, x \in 1 .. MaxExchanges : MaxMsgs(p, x) <= MaxId
<1> DEFINE X == 1 .. MaxExchanges
           f == [z \in Peer \X X |-> MaxMsgs(z[1], z[2])]
           S == {MaxMsgs(p, x) : p \in Peer, x \in X}
<1>1. IsFiniteSet(Peer) /\ IsFiniteSet(X) /\ Peer # {} /\ 1 \in X
  BY PeerAssumption, MaxExchangesAssumption, FS_Interval
<1>2. \A p \in Peer, x \in X : MaxMsgs(p, x) \in Nat
  BY MaxMsgsAssumption
<1> HIDE DEF X
<1>3. S \in SUBSET Nat /\ S # {}
  BY <1>1, <1>2
<1>4. IsFiniteSet(S)
  <2>1. IsFiniteSet(Peer \X X)
    BY <1>1, FS_Product
  <2>2. f \in [Peer \X X -> S]
    OBVIOUS
  <2>3. ASSUME NEW y \in S PROVE \E z \in Peer \X X : f[z] = y
    <3>1. PICK p \in Peer, x \in X : y = MaxMsgs(p, x)
      OBVIOUS
    <3>2. <<p, x>> \in Peer \X X /\ f[<<p, x>>] = y
      BY <3>1
    <3> QED
      BY <3>2
  <2>4. f \in Surjection(Peer \X X, S)
    BY <2>2, <2>3 DEF Surjection
  <2> QED
    BY <2>1, <2>4, FS_Surjection
<1>5. MaxId = Max(S)
  BY DEF MaxId, X
<1>6. Max(S) \in S /\ \A y \in S : Max(S) >= y
  <2> HIDE DEF S
  <2> QED
    BY <1>3, <1>4, FiniteMax
<1> QED
  BY <1>2, <1>3, <1>5, <1>6 DEF X

\* What Head, Tail and Append do to a sequence, element by element.
LEMMA HeadAndTail ==
  ASSUME NEW S, NEW q \in Seq(S), q # <<>>
  PROVE  /\ Len(q) \in Nat \ {0} /\ DOMAIN q = 1 .. Len(q)
         /\ Head(q) = q[1] /\ Head(q) \in S
         /\ Tail(q) \in Seq(S) /\ Len(Tail(q)) = Len(q) - 1
         /\ DOMAIN Tail(q) = 1 .. Len(q) - 1
         /\ \A i \in 1 .. Len(q) - 1 : Tail(q)[i] = q[i + 1]
OBVIOUS

LEMMA Appended ==
  ASSUME NEW S, NEW q \in Seq(S), NEW e \in S
  PROVE  /\ Len(q) \in Nat /\ DOMAIN q = 1 .. Len(q)
         /\ Append(q, e) \in Seq(S) /\ Len(Append(q, e)) = Len(q) + 1
         /\ DOMAIN Append(q, e) = 1 .. Len(q) + 1
         /\ \A i \in 1 .. Len(q) : Append(q, e)[i] = q[i]
         /\ Append(q, e)[Len(q) + 1] = e
OBVIOUS

\* A peer's next message arrives.
LEMMA NumberingArrives ==
  ASSUME NEW x \in Nat, NEW o \in Seq(MsgRecord), NEW t \in Seq(MsgRecord),
         NEW q \in Seq(MsgRecord), NEW n, Numbering(x, o, t, q, n),
         NEW m \in MsgRecord, m.exch = x, m.id = n + 1
  PROVE  Numbering(x, o, t, Append(q, m), n + 1)
<1>1. Len(o) \in Nat /\ Len(t) \in Nat
  OBVIOUS
<1> DEFINE r == Append(q, m)
<1>2. /\ Len(q) \in Nat /\ DOMAIN q = 1 .. Len(q) /\ Len(r) = Len(q) + 1
      /\ DOMAIN r = 1 .. Len(q) + 1
      /\ \A i \in 1 .. Len(q) : r[i] = q[i]
      /\ r[Len(q) + 1] = m
  BY Appended
<1> HIDE DEF r
<1>3. \A i \in 1 .. Len(q) : q[i].exch = x /\ q[i].id = Len(o) + Len(t) + i
  BY <1>2 DEF Numbering, Numbered
<1>4. n = Len(o) + Len(t) + Len(q)
  BY DEF Numbering
<1>5. Numbered(x, r, Len(o) + Len(t))
  <2> SUFFICES ASSUME NEW i \in 1 .. Len(q) + 1 PROVE r[i].exch = x /\ r[i].id = Len(o) + Len(t) + i
    BY <1>2 DEF Numbered
  <2>1. CASE i \in 1 .. Len(q)
    BY <1>2, <1>3, <2>1
  <2>2. CASE i = Len(q) + 1
    <3>1. r[i] = m /\ Len(o) + Len(t) + i = n + 1
      BY <1>1, <1>2, <1>4, <2>2
    <3> QED
      BY <3>1
  <2> QED
    BY <1>2, <2>1, <2>2
<1>6. n + 1 = Len(o) + Len(t) + Len(r)
  BY <1>1, <1>2, <1>4
<1> QED
  BY <1>5, <1>6 DEF Numbering, r

\* A change of the incoming messages that keeps their numbers.
LEMMA NumberingKept ==
  ASSUME NEW x \in Nat, NEW o \in Seq(MsgRecord), NEW t \in Seq(MsgRecord),
         NEW q \in Seq(MsgRecord), NEW n, Numbering(x, o, t, q, n),
         NEW r \in Seq(MsgRecord), Len(r) = Len(q),
         \A i \in 1 .. Len(q) : r[i].exch = q[i].exch /\ r[i].id = q[i].id
  PROVE  Numbering(x, o, t, r, n)
<1>1. DOMAIN q = 1 .. Len(q) /\ DOMAIN r = 1 .. Len(q)
  OBVIOUS
<1> QED
  BY <1>1 DEF Numbering, Numbered

\* The first incoming message is handed out, or its receive is posted.
LEMMA NumberingMoves ==
  ASSUME NEW x \in Nat, NEW o \in Seq(MsgRecord), NEW t \in Seq(MsgRecord),
         NEW q \in Seq(MsgRecord), NEW n, Numbering(x, o, t, q, n), q # <<>>,
         NEW m \in MsgRecord, m.exch = Head(q).exch, m.id = Head(q).id
  PROVE  /\ t = <<>> => Numbering(x, Append(o, m), t, Tail(q), n)
         /\ Numbering(x, o, Append(t, m), Tail(q), n)
         /\ m.exch = x /\ m.id = Len(o) + Len(t) + 1
         /\ \A i \in DOMAIN t : t[i].id # m.id
<1> DEFINE r == Tail(q)
           u == Append(t, m)
           v == Append(o, m)
<1>1. /\ Len(q) \in Nat \ {0} /\ DOMAIN q = 1 .. Len(q) /\ Head(q) = q[1]
      /\ Len(r) = Len(q) - 1 /\ DOMAIN r = 1 .. Len(q) - 1
      /\ \A i \in 1 .. Len(q) - 1 : r[i] = q[i + 1]
  BY HeadAndTail
<1>2. /\ Len(t) \in Nat /\ DOMAIN t = 1 .. Len(t) /\ Len(u) = Len(t) + 1
      /\ DOMAIN u = 1 .. Len(t) + 1
      /\ \A i \in 1 .. Len(t) : u[i] = t[i]
      /\ u[Len(t) + 1] = m
  BY Appended
<1>3. /\ Len(o) \in Nat /\ DOMAIN o = 1 .. Len(o) /\ Len(v) = Len(o) + 1
      /\ DOMAIN v = 1 .. Len(o) + 1
      /\ \A i \in 1 .. Len(o) : v[i] = o[i]
      /\ v[Len(o) + 1] = m
  BY Appended
<1> HIDE DEF r, u, v
<1>4. /\ \A i \in 1 .. Len(o) : o[i].exch = x /\ o[i].id = i
      /\ \A i \in 1 .. Len(t) : t[i].exch = x /\ t[i].id = Len(o) + i
      /\ \A i \in 1 .. Len(q) : q[i].exch = x /\ q[i].id = Len(o) + Len(t) + i
      /\ n = Len(o) + Len(t) + Len(q)
  <2>1. \A i \in 1 .. Len(o) : o[i].exch = x /\ o[i].id = 0 + i
    BY <1>3 DEF Numbering, Numbered
  <2>2. /\ \A i \in 1 .. Len(t) : t[i].exch = x /\ t[i].id = Len(o) + i
        /\ \A i \in 1 .. Len(q) : q[i].exch = x /\ q[i].id = Len(o) + Len(t) + i
        /\ n = Len(o) + Len(t) + Len(q)
    BY <1>1, <1>2 DEF Numbering, Numbered
  <2> QED
    BY <2>1, <2>2
<1>5. m.exch = x /\ m.id = Len(o) + Len(t) + 1
  BY <1>1, <1>4
<1>6. ASSUME NEW i \in 1 .. Len(q) - 1
      PROVE  r[i].exch = x /\ r[i].id = Len(o) + Len(t) + 1 + i
  <2>1. i + 1 \in 1 .. Len(q)
    BY <1>1
  <2>2. r[i].exch = x /\ r[i].id = Len(o) + Len(t) + (i + 1)
    BY <1>1, <1>4, <2>1
  <2> QED
    BY <1>2, <1>3, <2>2
<1>7. \A i \in DOMAIN t : t[i].id # m.id
  BY <1>2, <1>3, <1>4, <1>5
<1>8. Numbering(x, o, u, r, n)
  <2>1. Numbered(x, o, 0)
    BY DEF Numbering
  <2>2. Numbered(x, u, Len(o))
    <3> SUFFICES ASSUME NEW i \in 1 .. Len(t) + 1 PROVE u[i].exch = x /\ u[i].id = Len(o) + i
      BY <1>2 DEF Numbered
    <3>1. CASE i \in 1 .. Len(t)
      BY <1>2, <1>4, <3>1
    <3>2. CASE i = Len(t) + 1
      <4>1. u[i] = m /\ Len(o) + i = Len(o) + Len(t) + 1
        BY <1>2, <1>3, <3>2
      <4> QED
        BY <1>5, <4>1
    <3> QED
      BY <1>2, <3>1, <3>2
  <2>3. Numbered(x, r, Len(o) + Len(u))
    <3>1. Len(o) + Len(u) = Len(o) + Len(t) + 1
      BY <1>2, <1>3
    <3> QED
      BY <1>1, <1>6, <3>1 DEF Numbered
  <2>4. n = Len(o) + Len(u) + Len(r)
    BY <1>1, <1>2, <1>3, <1>4
  <2> QED
    BY <2>1, <2>2, <2>3, <2>4 DEF Numbering
<1>9. ASSUME t = <<>> PROVE Numbering(x, v, t, r, n)
  <2>1. Len(t) = 0
    BY <1>9
  <2>2. Numbered(x, v, 0)
    <3> SUFFICES ASSUME NEW i \in 1 .. Len(o) + 1 PROVE v[i].exch = x /\ v[i].id = i
      BY <1>3 DEF Numbered
    <3>1. CASE i \in 1 .. Len(o)
      BY <1>3, <1>4, <3>1
    <3>2. CASE i = Len(o) + 1
      BY <1>3, <1>5, <2>1, <3>2
    <3> QED
      BY <1>3, <3>1, <3>2
  <2>3. Numbered(x, t, Len(v))
    BY <1>2, <2>1 DEF Numbered
  <2>4. Numbered(x, r, Len(v) + Len(t))
    <3>1. Len(v) + Len(t) = Len(o) + Len(t) + 1
      BY <1>2, <1>3
    <3> QED
      BY <1>1, <1>6, <3>1 DEF Numbered
  <2>5. n = Len(v) + Len(t) + Len(r)
    BY <1>1, <1>2, <1>3, <1>4
  <2> QED
    BY <2>2, <2>3, <2>4, <2>5 DEF Numbering
<1> QED
  BY <1>5, <1>7, <1>8, <1>9 DEF r, u, v

\* The first k messages in transit are handed out.
LEMMA NumberingCompletes ==
  ASSUME NEW x \in Nat, NEW o \in Seq(MsgRecord), NEW t \in Seq(MsgRecord),
         NEW q \in Seq(MsgRecord), NEW n, Numbering(x, o, t, q, n), NEW k \in 0 .. Len(t)
  PROVE  Numbering(x, o \o SubSeq(t, 1, k), SubSeq(t, k + 1, Len(t)), q, n)
<1> DEFINE a == SubSeq(t, 1, k)
           b == SubSeq(t, k + 1, Len(t))
           u == o \o a
<1>0. /\ \A i \in DOMAIN o : o[i].exch = x /\ o[i].id = i
      /\ \A i \in DOMAIN t : t[i].exch = x /\ t[i].id = Len(o) + i
  BY DEF Numbering, Numbered
<1>1. /\ Len(t) \in Nat /\ DOMAIN t = 1 .. Len(t)
      /\ a \in Seq(MsgRecord) /\ Len(a) = k /\ \A i \in 1 .. k : a[i] = t[i]
      /\ b \in Seq(MsgRecord) /\ Len(b) = Len(t) - k
      /\ \A i \in 1 .. Len(t) - k : b[i] = t[k + i]
  BY SplitProperties
<1> HIDE DEF a, b
<1>2. /\ Len(o) \in Nat /\ DOMAIN o = 1 .. Len(o) /\ DOMAIN b = 1 .. Len(t) - k
      /\ u \in Seq(MsgRecord) /\ Len(u) = Len(o) + k
      /\ \A i \in 1 .. Len(o) + k : u[i] = IF i <= Len(o) THEN o[i] ELSE a[i - Len(o)]
  <2>1. Len(o) \in Nat /\ DOMAIN o = 1 .. Len(o) /\ DOMAIN b = 1 .. Len(t) - k
    BY <1>1
  <2>2. /\ u \in Seq(MsgRecord) /\ Len(u) = Len(o) + Len(a)
        /\ \A i \in 1 .. Len(o) + Len(a) : u[i] = IF i <= Len(o) THEN o[i] ELSE a[i - Len(o)]
    BY <1>1, ConcatProperties
  <2> QED
    BY <1>1, <2>1, <2>2
<1>3. DOMAIN u = 1 .. Len(o) + k
  BY <1>2
<1> HIDE DEF u
<1>4. Numbered(x, u, 0)
  <2> SUFFICES ASSUME NEW i \in 1 .. Len(o) + k PROVE u[i].exch = x /\ u[i].id = i
    BY <1>3 DEF Numbered
  <2>1. CASE i <= Len(o)
    <3>1. i \in DOMAIN o /\ u[i] = o[i]
      BY <1>2, <2>1
    <3> QED
      BY <1>0, <3>1
  <2>2. CASE i > Len(o)
    <3>1. i - Len(o) \in 1 .. k /\ u[i] = t[i - Len(o)] /\ i - Len(o) \in DOMAIN t
      BY <1>1, <1>2, <2>2
    <3>2. Len(o) + (i - Len(o)) = i
      BY <1>2
    <3> QED
      BY <1>0, <3>1, <3>2
  <2> QED
    BY <1>2, <2>1, <2>2
<1>5. Numbered(x, b, Len(o) + k)
  <2> SUFFICES ASSUME NEW i \in 1 .. Len(t) - k PROVE b[i].exch = x /\ b[i].id = Len(o) + k + i
    BY <1>2 DEF Numbered
  <2>1. k + i \in 1 .. Len(t) /\ b[i] = t[k + i]
    BY <1>1
  <2>2. t[k + i].exch = x /\ t[k + i].id = Len(o) + (k + i)
    BY <1>2, <2>1 DEF Numbering, Numbered
  <2> QED
    BY <1>1, <1>2, <2>1, <2>2
<1>6. Len(u) + Len(b) = Len(o) + Len(t) /\ Len(q) \in Nat
  BY <1>1, <1>2
<1> QED
  BY <1>1, <1>2, <1>4, <1>5, <1>6 DEF Numbering, a, b, u

-----------------------------------------------------------------------------
(* Positions in a peer's program. *)

\* The numbers in messages and markers.
LEMMA MsgNumbers ==
  ASSUME NEW m \in MsgRecord
  PROVE  /\ m.exch \in Nat /\ m.id \in Nat /\ m.id >= 1 /\ m.id <= MaxId
         /\ m.arrival \in Nat
<1>1. m.exch \in Nat /\ m.id \in 1 .. MaxId /\ m.arrival \in Nat
  BY DEF MsgRecord
<1> QED
  BY <1>1, MaxIdBound

LEMMA MarkerNumbers ==
  ASSUME NEW m \in MarkerRecord
  PROVE  m.exch \in Nat /\ m.count \in Nat /\ m.count <= MaxId
<1>1. m.exch \in Nat /\ m.count \in 0 .. MaxId
  BY DEF MarkerRecord
<1> QED
  BY <1>1, MaxIdBound

\* Their flags.
LEMMA MsgFlags ==
  ASSUME NEW m \in MsgRecord
  PROVE  m.marker = FALSE /\ m.payload \in BOOLEAN /\ m.buffer \in BOOLEAN
BY Zenon DEF MsgRecord

LEMMA MarkerFlags ==
  ASSUME NEW m \in MarkerRecord PROVE m.marker = TRUE
BY Zenon DEF MarkerRecord

\* The order of positions.
LEMMA Order ==
  ASSUME NEW a \in Spots, NEW b \in Spots, NEW c \in Spots
  PROVE  /\ AtMost(a, b) /\ Less(b, c) => Less(a, c)
         /\ Less(a, b) /\ AtMost(b, c) => Less(a, c)
         /\ AtMost(a, b) => ~ Less(b, a)
<1>1. /\ a[1] \in Nat /\ a[2] \in Nat /\ b[1] \in Nat /\ b[2] \in Nat
      /\ c[1] \in Nat /\ c[2] \in Nat
  BY DEF Spots
<1> QED
  BY <1>1 DEF Less, AtMost

\* A message or marker takes the peer from one position to a later one.
LEMMA Spot ==
  ASSUME NEW e \in Metadata
  PROVE  /\ Before(e) \in Spots /\ After(e) \in Spots /\ Less(Before(e), After(e))
         /\ e.marker \in BOOLEAN
         /\ ~ e.marker => e \in MsgRecord
         /\ e.marker => e \in MarkerRecord
<1>1. CASE e \in MsgRecord
  <2>1. /\ Before(e) = <<e.exch, e.id - 1>> /\ After(e) = <<e.exch, e.id>>
    BY <1>1, MsgFlags, Zenon DEF Before, After
  <2>2. e.exch \in Nat /\ e.id \in Nat /\ e.id - 1 \in Nat
    BY <1>1, MsgNumbers
  <2>3. Before(e) \in Spots /\ After(e) \in Spots /\ Less(Before(e), After(e))
    BY <2>1, <2>2 DEF Spots, Less
  <2> QED
    BY <1>1, <2>3, MsgFlags, Zenon
<1>2. CASE e \in MarkerRecord
  <2>1. /\ Before(e) = <<e.exch, e.count>> /\ After(e) = <<e.exch + 1, 0>>
    BY <1>2, MarkerFlags, Zenon DEF Before, After
  <2>2. e.exch \in Nat /\ e.count \in Nat
    BY <1>2, MarkerNumbers
  <2>3. Before(e) \in Spots /\ After(e) \in Spots /\ Less(Before(e), After(e))
    BY <2>1, <2>2 DEF Spots, Less
  <2> QED
    BY <1>2, <2>3, MarkerFlags, Zenon
<1> QED
  BY <1>1, <1>2 DEF Metadata

\* The peer is never behind this rank.
LEMMA StreamOrder ==
  ASSUME NEW q \in Seq(Metadata), NEW a \in Spots, NEW b \in Spots, Stream(q, a, b)
  PROVE  AtMost(a, b)
<1>1. CASE q = <<>>
  BY <1>1 DEF Stream, AtMost
<1>2. CASE q # <<>>
  <2>1. 1 \in DOMAIN q /\ q[1] \in Metadata
    BY <1>2
  <2>2. Less(a, After(q[1])) /\ AtMost(After(q[1]), b)
    BY <2>1 DEF Stream
  <2> QED
    BY <2>1, <2>2, Spot, Order DEF AtMost
<1> QED
  BY <1>1, <1>2

\* A peer sends.
LEMMA StreamGrows ==
  ASSUME NEW q \in Seq(Metadata), NEW a \in Spots, NEW b \in Spots, Stream(q, a, b),
         NEW e \in Metadata, Before(e) = b
  PROVE  Stream(Append(q, e), a, After(e))
<1> DEFINE r == Append(q, e)
           c == After(e)
<1>1. /\ Len(q) \in Nat /\ DOMAIN q = 1 .. Len(q) /\ r \in Seq(Metadata)
      /\ Len(r) = Len(q) + 1 /\ DOMAIN r = 1 .. Len(q) + 1
      /\ \A i \in 1 .. Len(q) : r[i] = q[i]
      /\ r[Len(q) + 1] = e
  BY Appended
<1>2. c \in Spots /\ Less(b, c)
  BY Spot
<1> HIDE DEF r, c
<1>3. ASSUME NEW i \in 1 .. Len(q)
      PROVE  /\ r[i] = q[i] /\ After(q[i]) \in Spots
             /\ Less(a, After(q[i])) /\ Less(After(q[i]), c)
  <2>1. q[i] \in Metadata
    BY <1>1
  <2>2. After(q[i]) \in Spots /\ Less(a, After(q[i])) /\ AtMost(After(q[i]), b)
    BY <1>1, <2>1, Spot DEF Stream
  <2> QED
    BY <1>1, <1>2, <2>2, Order
<1>4. Less(a, c)
  BY <1>2, StreamOrder, Order
<1>5. Before(r[1]) = a
  <2>1. CASE q = <<>>
    <3>1. r[1] = e /\ a = b
      BY <1>1, <2>1 DEF Stream
    <3> QED
      BY <3>1
  <2>2. CASE q # <<>>
    <3>1. Len(q) > 0
      BY <1>1, <2>2
    <3>2. r[1] = q[1]
      BY <1>1, <3>1
    <3> QED
      BY <2>2, <3>2 DEF Stream
  <2> QED
    BY <2>1, <2>2
<1>6. ASSUME NEW i \in 1 .. Len(q) PROVE Before(r[i + 1]) = After(r[i])
  <2>1. CASE i < Len(q)
    <3>1. i \in 1 .. Len(q) - 1 /\ r[i] = q[i] /\ r[i + 1] = q[i + 1]
      BY <1>1, <2>1
    <3> QED
      BY <3>1 DEF Stream
  <2>2. CASE i = Len(q)
    <3>1. r[i] = q[Len(q)] /\ r[i + 1] = e /\ q # <<>>
      BY <1>1, <2>2
    <3> QED
      BY <3>1 DEF Stream
  <2> QED
    BY <1>1, <2>1, <2>2
<1>7. ASSUME NEW i \in DOMAIN r, NEW j \in DOMAIN r, i < j PROVE Less(After(r[i]), After(r[j]))
  <2>1. i \in 1 .. Len(q) /\ r[i] = q[i]
    BY <1>1, <1>7
  <2>2. CASE j \in 1 .. Len(q)
    <3>1. r[j] = q[j]
      BY <1>1, <2>2
    <3> QED
      BY <1>1, <1>7, <2>1, <2>2, <3>1 DEF Stream
  <2>3. CASE j = Len(q) + 1
    BY <1>1, <1>3, <2>1, <2>3 DEF c
  <2> QED
    BY <1>1, <2>2, <2>3
<1>8. ASSUME NEW i \in DOMAIN r PROVE Less(a, After(r[i])) /\ AtMost(After(r[i]), c)
  <2>1. CASE i \in 1 .. Len(q)
    BY <1>3, <2>1 DEF AtMost
  <2>2. CASE i = Len(q) + 1
    BY <1>1, <1>4, <2>2 DEF AtMost, c
  <2> QED
    BY <1>1, <2>1, <2>2
<1>9. r # <<>> /\ After(r[Len(r)]) = c
  <2>1. After(r[Len(r)]) = c
    BY <1>1 DEF c
  <2>2. r # <<>>
    BY <1>1
  <2> QED
    BY <2>1, <2>2
<1>10. \A i \in 1 .. Len(r) - 1 : Before(r[i + 1]) = After(r[i])
  <2>1. Len(r) - 1 = Len(q)
    BY <1>1
  <2> QED
    BY <1>6, <2>1
<1>11. Stream(r, a, c)
  BY <1>5, <1>7, <1>8, <1>9, <1>10 DEF Stream
<1> QED
  BY <1>11 DEF r, c

\* This rank takes the first message or marker.
LEMMA StreamShrinks ==
  ASSUME NEW q \in Seq(Metadata), NEW a \in Spots, NEW b \in Spots, Stream(q, a, b), q # <<>>
  PROVE  Before(Head(q)) = a /\ Stream(Tail(q), After(Head(q)), b)
<1> DEFINE r == Tail(q)
           c == After(Head(q))
<1>1. /\ Len(q) \in Nat \ {0} /\ DOMAIN q = 1 .. Len(q)
      /\ Head(q) = q[1] /\ Head(q) \in Metadata
      /\ r \in Seq(Metadata) /\ Len(r) = Len(q) - 1 /\ DOMAIN r = 1 .. Len(q) - 1
      /\ \A i \in 1 .. Len(q) - 1 : r[i] = q[i + 1]
  BY HeadAndTail
<1>2. Before(q[1]) = a /\ After(q[Len(q)]) = b /\ c = After(q[1])
  BY <1>1 DEF Stream
<1> HIDE DEF r, c
<1>3. ASSUME NEW i \in 1 .. Len(q) - 1
      PROVE  i + 1 \in DOMAIN q /\ 1 \in DOMAIN q /\ 1 < i + 1 /\ r[i] = q[i + 1]
  BY <1>1
<1>4. ASSUME r = <<>> PROVE c = b
  <2>1. Len(r) = 0
    BY <1>4
  <2>2. Len(q) - 1 = 0 /\ Len(q) \in Nat
    BY <1>1, <2>1
  <2>3. Len(q) = 1
    BY <2>2
  <2> QED
    BY <1>2, <2>3
<1>5. ASSUME r # <<>> PROVE Before(r[1]) = c /\ After(r[Len(r)]) = b
  <2>1. Len(r) # 0
    BY <1>1, <1>5
  <2>2. 1 \in 1 .. Len(q) - 1 /\ Len(q) - 1 \in 1 .. Len(q) - 1
    BY <1>1, <2>1
  <2>3. r[1] = q[1 + 1] /\ r[Len(r)] = q[Len(q) - 1 + 1]
    BY <1>1, <2>2
  <2>4. Len(q) - 1 + 1 = Len(q)
    BY <1>1
  <2>5. Before(q[1 + 1]) = After(q[1])
    BY <2>2 DEF Stream
  <2> QED
    BY <1>2, <2>3, <2>4, <2>5
<1>6. ASSUME NEW i \in 1 .. Len(r) - 1 PROVE Before(r[i + 1]) = After(r[i])
  <2>1. i + 1 \in 1 .. Len(q) - 1 /\ i \in 1 .. Len(q) - 1
    BY <1>1
  <2>2. r[i] = q[i + 1] /\ r[i + 1] = q[i + 1 + 1]
    BY <1>1, <2>1
  <2> QED
    BY <2>1, <2>2 DEF Stream
<1>7. ASSUME NEW i \in DOMAIN r, NEW j \in DOMAIN r, i < j PROVE Less(After(r[i]), After(r[j]))
  <2>1. /\ i + 1 \in DOMAIN q /\ j + 1 \in DOMAIN q /\ i + 1 < j + 1
        /\ r[i] = q[i + 1] /\ r[j] = q[j + 1]
    BY <1>1, <1>7
  <2> QED
    BY <2>1 DEF Stream
<1>8. ASSUME NEW i \in DOMAIN r PROVE Less(c, After(r[i])) /\ AtMost(After(r[i]), b)
  BY <1>1, <1>2, <1>3 DEF Stream
<1> QED
  BY <1>1, <1>2, <1>4, <1>5, <1>6, <1>7, <1>8 DEF Stream, r, c

-----------------------------------------------------------------------------
(* Payloads. *)

\* The elements of a sequence are its head and those of its tail.
LEMMA HeadAndRest ==
  ASSUME NEW S, NEW q \in Seq(S), q # <<>> PROVE Range(q) = {Head(q)} \cup Range(Tail(q))
<1>1. /\ Len(q) \in Nat \ {0} /\ DOMAIN q = 1 .. Len(q) /\ Head(q) = q[1]
      /\ DOMAIN Tail(q) = 1 .. Len(q) - 1
      /\ \A i \in 1 .. Len(q) - 1 : Tail(q)[i] = q[i + 1]
  BY HeadAndTail
<1>2. ASSUME NEW i \in 1 .. Len(q) PROVE q[i] \in {q[1]} \cup Range(Tail(q))
  <2>1. CASE i = 1
    BY <2>1
  <2>2. CASE i # 1
    <3>1. i - 1 \in 1 .. Len(q) - 1 /\ i - 1 + 1 = i
      BY <1>1, <2>2
    <3>2. Tail(q)[i - 1] = q[i]
      BY <1>1, <3>1
    <3> QED
      BY <1>1, <3>1, <3>2 DEF Range
  <2> QED
    BY <2>1, <2>2
<1>3. ASSUME NEW i \in 1 .. Len(q) - 1 PROVE Tail(q)[i] \in Range(q)
  <2>1. i + 1 \in 1 .. Len(q) /\ Tail(q)[i] = q[i + 1]
    BY <1>1
  <2> QED
    BY <1>1, <2>1 DEF Range
<1>4. q[1] \in Range(q)
  BY <1>1 DEF Range
<1>5. Range(q) \subseteq {q[1]} \cup Range(Tail(q))
  BY <1>1, <1>2 DEF Range
<1>6. Range(Tail(q)) \subseteq Range(q)
  BY <1>1, <1>3 DEF Range
<1> QED
  BY <1>1, <1>4, <1>5, <1>6

\* A message is added or taken.
KeysOf(m) == IF ~ m.marker /\ m.payload THEN {Key(m)} ELSE {}

LEMMA PayloadKeysAre ==
  ASSUME NEW q PROVE PayloadKeys(q) = UNION {KeysOf(m) : m \in Range(q)}
BY DEF PayloadKeys, KeysOf

LEMMA PayloadKeysAppend ==
  ASSUME NEW S, NEW q \in Seq(S), NEW e \in S
  PROVE  PayloadKeys(Append(q, e)) = PayloadKeys(q) \cup KeysOf(e)
<1>1. Range(Append(q, e)) = Range(q) \cup {e}
  BY AppendFresh
<1> HIDE DEF KeysOf
<1> QED
  BY <1>1, PayloadKeysAre

LEMMA PayloadKeysTail ==
  ASSUME NEW S, NEW q \in Seq(S), q # <<>>
  PROVE  PayloadKeys(q) = KeysOf(Head(q)) \cup PayloadKeys(Tail(q))
<1>1. Range(q) = {Head(q)} \cup Range(Tail(q))
  BY HeadAndRest
<1> QED
  BY <1>1, PayloadKeysAre

\* A peer sends a message, with its payload if it has one, or a marker.
LEMMA PayloadSent ==
  ASSUME NEW q \in Seq(Metadata), NEW inc \in Seq(MsgRecord), NEW d \in Seq(Spots),
         NEW a \in Spots, NEW b \in Spots, Stream(q, a, b), Payloads(d, inc, q),
         \A m \in Range(inc) : AtMost(Key(m), a),
         NEW e \in MsgRecord, Before(e) = b
  PROVE  /\ e.payload => Payloads(Append(d, Key(e)), inc, Append(q, e))
         /\ ~ e.payload => Payloads(d, inc, Append(q, e))
<1> DEFINE k == Key(e)
           r == Append(q, e)
           c == Append(d, k)
<1>1. e \in Metadata /\ ~ e.marker
  BY MsgFlags, Zenon DEF Metadata
<1>2. After(e) = k /\ k \in Spots /\ Less(b, k)
  <2>1. After(e) = k
    BY <1>1, Zenon DEF After, Key
  <2> QED
    BY <1>1, <2>1, Spot
<1>3. ASSUME NEW i \in DOMAIN d PROVE d[i] \in Spots /\ Less(d[i], k)
  <2>1. d[i] \in Spots /\ d[i] \in Range(d)
    BY DEF Range
  <2>2. CASE d[i] \in PayloadKeys(inc)
    <3>1. PICK m \in Range(inc) : d[i] = Key(m)
      BY <2>2 DEF PayloadKeys
    <3>2. AtMost(d[i], a) /\ AtMost(a, b)
      BY <3>1, StreamOrder
    <3>3. Less(a, k)
      BY <1>2, <3>2, Order
    <3> QED
      BY <1>2, <2>1, <3>2, <3>3, Order
  <2>3. CASE d[i] \in PayloadKeys(q)
    <3>1. PICK m \in Range(q) : d[i] = Key(m) /\ ~ m.marker
      BY <2>3 DEF PayloadKeys
    <3>2. PICK j \in DOMAIN q : m = q[j]
      BY DEF Range
    <3>3. After(q[j]) = d[i]
      BY <3>1, <3>2 DEF After, Key
    <3>4. AtMost(d[i], b)
      BY <3>3 DEF Stream
    <3> QED
      BY <1>2, <2>1, <3>4, Order
  <2> QED
    BY <2>1, <2>2, <2>3 DEF Payloads
<1>4. PayloadKeys(r) = PayloadKeys(q) \cup KeysOf(e)
  BY <1>1, PayloadKeysAppend
<1>5. /\ Len(d) \in Nat /\ DOMAIN d = 1 .. Len(d) /\ c \in Seq(Spots)
      /\ DOMAIN c = 1 .. Len(d) + 1
      /\ \A i \in 1 .. Len(d) : c[i] = d[i]
      /\ c[Len(d) + 1] = k
  BY <1>2, Appended
<1>6. Range(c) = Range(d) \cup {k}
  BY <1>2, AppendFresh
<1> HIDE DEF k, r, c
<1>7. ASSUME NEW i \in DOMAIN c, NEW j \in DOMAIN c, i < j PROVE Less(c[i], c[j])
  <2>1. i \in DOMAIN d /\ c[i] = d[i]
    BY <1>5, <1>7
  <2>2. CASE j = Len(d) + 1
    BY <1>3, <1>5, <2>1, <2>2
  <2>3. CASE j \in 1 .. Len(d)
    <3>1. c[j] = d[j] /\ j \in DOMAIN d
      BY <1>5, <2>3
    <3> QED
      BY <1>7, <2>1, <3>1 DEF Payloads
  <2> QED
    BY <1>5, <2>2, <2>3
<1>8. ASSUME e.payload PROVE Payloads(c, inc, r)
  <2>1. KeysOf(e) = {k}
    BY <1>1, <1>8 DEF KeysOf, k
  <2>2. Range(c) = PayloadKeys(inc) \cup PayloadKeys(r)
    BY <1>4, <1>6, <2>1 DEF Payloads
  <2> QED
    BY <1>7, <2>2 DEF Payloads
<1>9. ASSUME ~ e.payload PROVE Payloads(d, inc, r)
  <2>1. KeysOf(e) = {}
    BY <1>9 DEF KeysOf
  <2> QED
    BY <1>4, <2>1 DEF Payloads
<1> QED
  BY <1>8, <1>9 DEF k, r, c

\* A marker has no payload, and an arrived message keeps its own.
LEMMA PayloadKept ==
  ASSUME NEW q \in Seq(Metadata), NEW inc \in Seq(MsgRecord), NEW d, Payloads(d, inc, q)
  PROVE  /\ \A e \in MarkerRecord : Payloads(d, inc, Append(q, e))
         /\ q # <<>> /\ Head(q).marker => Payloads(d, inc, Tail(q))
         /\ \A m \in MsgRecord :
               q # <<>> /\ KeysOf(m) = KeysOf(Head(q)) => Payloads(d, Append(inc, m), Tail(q))
         /\ inc # <<>> /\ ~ Head(inc).payload => Payloads(d, Tail(inc), q)
<1>1. ASSUME NEW e \in MarkerRecord PROVE Payloads(d, inc, Append(q, e))
  <2>1. KeysOf(e) = {}
    BY MarkerFlags, Zenon DEF KeysOf
  <2>2. e \in Metadata
    BY DEF Metadata
  <2>3. PayloadKeys(Append(q, e)) = PayloadKeys(q)
    BY <2>1, <2>2, PayloadKeysAppend, ZenonT(40)
  <2> QED
    BY <2>3 DEF Payloads
<1>2. ASSUME q # <<>>, Head(q).marker PROVE Payloads(d, inc, Tail(q))
  <2>1. KeysOf(Head(q)) = {}
    BY <1>2 DEF KeysOf
  <2>2. PayloadKeys(Tail(q)) = PayloadKeys(q)
    BY <1>2, <2>1, PayloadKeysTail
  <2> QED
    BY <2>2 DEF Payloads
<1>3. ASSUME NEW m \in MsgRecord, q # <<>>, KeysOf(m) = KeysOf(Head(q))
      PROVE  Payloads(d, Append(inc, m), Tail(q))
  <2>1. PayloadKeys(Append(inc, m)) = PayloadKeys(inc) \cup KeysOf(m)
    BY PayloadKeysAppend
  <2>2. PayloadKeys(q) = KeysOf(m) \cup PayloadKeys(Tail(q))
    BY <1>3, PayloadKeysTail
  <2>3. PayloadKeys(Append(inc, m)) \cup PayloadKeys(Tail(q)) = PayloadKeys(inc) \cup PayloadKeys(q)
    BY <2>1, <2>2
  <2> QED
    BY <2>3 DEF Payloads
<1>4. ASSUME inc # <<>>, ~ Head(inc).payload PROVE Payloads(d, Tail(inc), q)
  <2>1. KeysOf(Head(inc)) = {}
    BY <1>4 DEF KeysOf
  <2>2. PayloadKeys(Tail(inc)) = PayloadKeys(inc)
    BY <1>4, <2>1, PayloadKeysTail
  <2> QED
    BY <2>2 DEF Payloads
<1> QED
  BY <1>1, <1>2, <1>3, <1>4

\* A change of the incoming messages that keeps their payloads.
LEMMA PayloadSame ==
  ASSUME NEW d, NEW inc, NEW q, Payloads(d, inc, q), NEW r, DOMAIN r = DOMAIN inc,
         \A i \in DOMAIN inc : KeysOf(r[i]) = KeysOf(inc[i])
  PROVE  Payloads(d, r, q)
<1>1. PayloadKeys(r) = PayloadKeys(inc)
  BY PayloadKeysAre, ZenonT(40) DEF Range
<1> QED
  BY <1>1 DEF Payloads

\* In a queue of positions in order the least one comes first.
LEMMA FirstSpot ==
  ASSUME NEW d \in Seq(Spots), \A i, j \in DOMAIN d : i < j => Less(d[i], d[j]),
         NEW k \in Spots, NEW K \in SUBSET Spots, Range(d) = {k} \cup K,
         \A x \in K : Less(k, x)
  PROVE  /\ d # <<>> /\ Head(d) = k /\ Range(Tail(d)) = K
         /\ \A i, j \in DOMAIN Tail(d) : i < j => Less(Tail(d)[i], Tail(d)[j])
<1>1. d # <<>>
  <2>1. PICK j \in DOMAIN d : d[j] = k
    BY DEF Range
  <2> QED
    BY <2>1
<1> DEFINE c == Tail(d)
<1>2. /\ Len(d) \in Nat \ {0} /\ DOMAIN d = 1 .. Len(d) /\ Head(d) = d[1]
      /\ DOMAIN c = 1 .. Len(d) - 1 /\ \A i \in 1 .. Len(d) - 1 : c[i] = d[i + 1]
  BY <1>1, HeadAndTail
<1> HIDE DEF c
<1>3. \A x \in Spots : ~ Less(x, x)
  BY Order DEF AtMost
<1>4. d[1] = k
  <2>1. PICK j \in DOMAIN d : d[j] = k
    BY DEF Range
  <2>2. CASE j = 1
    BY <2>1, <2>2
  <2>3. CASE j # 1
    <3>1. 1 \in DOMAIN d /\ 1 < j
      BY <1>2, <2>3
    <3>2. Less(d[1], k) /\ d[1] \in Spots /\ d[1] \in Range(d)
      BY <2>1, <3>1 DEF Range
    <3>3. CASE d[1] = k
      BY <3>3
    <3>4. CASE d[1] \in K
      <4>1. Less(k, d[1])
        BY <3>4
      <4>2. Less(k, k)
        BY <3>2, <4>1, Order DEF AtMost
      <4> QED
        BY <1>3, <4>2
    <3> QED
      BY <3>2, <3>3, <3>4
  <2> QED
    BY <2>2, <2>3
<1>5. Range(d) = {k} \cup Range(c)
  BY <1>1, <1>2, <1>4, HeadAndRest DEF c
<1>6. k \notin K
  BY <1>3
<1>7. ASSUME NEW i \in 1 .. Len(d) - 1 PROVE c[i] # k
  <2>1. 1 \in DOMAIN d /\ i + 1 \in DOMAIN d /\ 1 < i + 1 /\ c[i] = d[i + 1]
    BY <1>2
  <2>2. Less(k, c[i])
    BY <1>4, <2>1
  <2> QED
    BY <1>3, <2>2
<1>8. k \notin Range(c)
  BY <1>2, <1>7 DEF Range
<1>9. Range(c) = K
  BY <1>5, <1>6, <1>8
<1>10. ASSUME NEW i \in DOMAIN c, NEW j \in DOMAIN c, i < j PROVE Less(c[i], c[j])
  <2>1. /\ i + 1 \in DOMAIN d /\ j + 1 \in DOMAIN d /\ i + 1 < j + 1
        /\ c[i] = d[i + 1] /\ c[j] = d[j + 1]
    BY <1>2, <1>10
  <2> QED
    BY <2>1
<1> QED
  BY <1>1, <1>2, <1>4, <1>9, <1>10 DEF c

\* The payload that the next receive gets is that of the first incoming message.
LEMMA PayloadTaken ==
  ASSUME NEW q \in Seq(Metadata), NEW inc \in Seq(MsgRecord), NEW d \in Seq(Spots),
         NEW a \in Spots, NEW b \in Spots, Stream(q, a, b), Payloads(d, inc, q),
         inc # <<>>, Head(inc).payload,
         \A m \in Range(Tail(inc)) : Less(Key(Head(inc)), Key(m)),
         AtMost(Key(Head(inc)), a)
  PROVE  d # <<>> /\ Head(d) = Key(Head(inc)) /\ Payloads(Tail(d), Tail(inc), q)
<1> DEFINE k == Key(Head(inc))
           K == PayloadKeys(Tail(inc)) \cup PayloadKeys(q)
<1>1. Head(inc) \in MsgRecord /\ Tail(inc) \in Seq(MsgRecord)
  BY HeadAndTail
<1>2. k \in Spots
  BY <1>1, MsgNumbers DEF Key, Spots
<1>3. KeysOf(Head(inc)) = {k}
  <2>1. ~ Head(inc).marker
    BY <1>1, MsgFlags, Zenon
  <2> QED
    BY <2>1, Zenon DEF KeysOf
<1>4. Range(d) = {k} \cup K
  <2>1. PayloadKeys(inc) = {k} \cup PayloadKeys(Tail(inc))
    BY <1>3, PayloadKeysTail
  <2> QED
    BY <2>1 DEF Payloads
<1>5. K \in SUBSET Spots
  <2>1. Range(d) \subseteq Spots
    BY DEF Range
  <2> QED
    BY <1>4, <2>1
<1>6. ASSUME NEW y \in PayloadKeys(q) PROVE Less(k, y)
  <2>1. PICK m \in Range(q) : y = Key(m) /\ ~ m.marker
    BY DEF PayloadKeys
  <2>2. PICK j \in DOMAIN q : m = q[j]
    BY DEF Range
  <2>3. After(q[j]) = y
    BY <2>1, <2>2, Zenon DEF After, Key
  <2>4. Less(a, y)
    BY <2>3 DEF Stream
  <2> QED
    BY <1>2, <1>5, <2>4, Order
<1>7. ASSUME NEW y \in PayloadKeys(Tail(inc)) PROVE Less(k, y)
  <2>1. PICK m \in Range(Tail(inc)) : y = Key(m)
    BY DEF PayloadKeys
  <2> QED
    BY <2>1
<1>8. \A x \in K : Less(k, x)
  BY <1>6, <1>7
<1>9. \A i, j \in DOMAIN d : i < j => Less(d[i], d[j])
  BY DEF Payloads
<1> HIDE DEF k, K
<1>10. /\ d # <<>> /\ Head(d) = k /\ Range(Tail(d)) = K
       /\ \A i, j \in DOMAIN Tail(d) : i < j => Less(Tail(d)[i], Tail(d)[j])
  BY <1>2, <1>4, <1>5, <1>8, <1>9, FirstSpot
<1> QED
  BY <1>10 DEF Payloads, k, K

\* A message without payload is handed out, or one with its payload is in transit.
LEMMA MatchedMoves ==
  ASSUME NEW o \in Seq(MsgRecord), NEW t \in Seq(MsgRecord), Matched(o, t),
         NEW m \in MsgRecord
  PROVE  /\ ~ m.payload => Matched(Append(o, m), t)
         /\ m.got = Key(m) => Matched(o, Append(t, m))
<1> DEFINE u == Append(t, m)
           v == Append(o, m)
<1>1. /\ Len(t) \in Nat /\ DOMAIN t = 1 .. Len(t) /\ DOMAIN u = 1 .. Len(t) + 1
      /\ \A i \in 1 .. Len(t) : u[i] = t[i]
      /\ u[Len(t) + 1] = m
  BY Appended
<1>2. /\ Len(o) \in Nat /\ DOMAIN o = 1 .. Len(o) /\ DOMAIN v = 1 .. Len(o) + 1
      /\ \A i \in 1 .. Len(o) : v[i] = o[i]
      /\ v[Len(o) + 1] = m
  BY Appended
<1> HIDE DEF u, v
<1>3. ASSUME ~ m.payload PROVE Matched(v, t)
  <2>1. ASSUME NEW i \in DOMAIN v, v[i].payload PROVE v[i].got = Key(v[i])
    <3>1. v[i] # m
      BY <1>3, <2>1
    <3>2. i \in DOMAIN o /\ v[i] = o[i]
      BY <1>2, <3>1
    <3> QED
      BY <2>1, <3>2 DEF Matched
  <2> QED
    BY <2>1 DEF Matched
<1>4. ASSUME m.got = Key(m) PROVE Matched(o, u)
  <2>1. ASSUME NEW i \in DOMAIN u PROVE u[i].got = Key(u[i])
    <3>1. CASE u[i] = m
      BY <1>4, <3>1
    <3>2. CASE u[i] # m
      <4>1. i \in DOMAIN t /\ u[i] = t[i]
        BY <1>1, <3>2
      <4> QED
        BY <4>1 DEF Matched
    <3> QED
      BY <3>1, <3>2
  <2> QED
    BY <2>1 DEF Matched
<1> QED
  BY <1>3, <1>4 DEF u, v

\* The first k messages in transit are handed out.
LEMMA MatchedCompletes ==
  ASSUME NEW o \in Seq(MsgRecord), NEW t \in Seq(MsgRecord), Matched(o, t), NEW k \in 0 .. Len(t)
  PROVE  Matched(o \o SubSeq(t, 1, k), SubSeq(t, k + 1, Len(t)))
<1> DEFINE a == SubSeq(t, 1, k)
           b == SubSeq(t, k + 1, Len(t))
           u == o \o a
<1>1. /\ Len(t) \in Nat /\ DOMAIN t = 1 .. Len(t)
      /\ a \in Seq(MsgRecord) /\ Len(a) = k /\ \A i \in 1 .. k : a[i] = t[i]
      /\ b \in Seq(MsgRecord) /\ Len(b) = Len(t) - k
      /\ \A i \in 1 .. Len(t) - k : b[i] = t[k + i]
  BY SplitProperties
<1> HIDE DEF a, b
<1>2. /\ Len(o) \in Nat /\ DOMAIN o = 1 .. Len(o) /\ DOMAIN b = 1 .. Len(t) - k
      /\ u \in Seq(MsgRecord) /\ Len(u) = Len(o) + Len(a)
      /\ \A i \in 1 .. Len(o) + Len(a) : u[i] = IF i <= Len(o) THEN o[i] ELSE a[i - Len(o)]
  <2>1. Len(o) \in Nat /\ DOMAIN o = 1 .. Len(o) /\ DOMAIN b = 1 .. Len(t) - k
    BY <1>1
  <2> QED
    BY <1>1, <2>1, ConcatProperties
<1>3. DOMAIN u = 1 .. Len(o) + k
  BY <1>1, <1>2
<1> HIDE DEF u
<1>4. ASSUME NEW i \in DOMAIN u PROVE u[i].payload => u[i].got = Key(u[i])
  <2>1. CASE i <= Len(o)
    <3>1. i \in DOMAIN o /\ u[i] = o[i]
      BY <1>1, <1>2, <1>3, <2>1
    <3> QED
      BY <3>1 DEF Matched
  <2>2. CASE i > Len(o)
    <3>1. i - Len(o) \in 1 .. k /\ u[i] = t[i - Len(o)] /\ i - Len(o) \in DOMAIN t
      BY <1>1, <1>2, <1>3, <2>2
    <3> QED
      BY <3>1 DEF Matched
  <2> QED
    BY <1>2, <1>3, <2>1, <2>2
<1>5. ASSUME NEW i \in DOMAIN b PROVE b[i].got = Key(b[i])
  <2>1. k + i \in DOMAIN t /\ b[i] = t[k + i]
    BY <1>1, <1>2
  <2> QED
    BY <2>1 DEF Matched
<1> QED
  BY <1>4, <1>5 DEF Matched, a, b, u

-----------------------------------------------------------------------------
(* Buffers. *)

\* What a message adds to the ones that wait.
WaitsFor(m) == IF is_awaiting_buffer(m) THEN {m.id} ELSE {}

LEMMA WaitingAre ==
  ASSUME NEW q PROVE Waiting(q) = UNION {WaitsFor(m) : m \in Range(q)}
BY DEF Waiting, WaitsFor

LEMMA WaitingAppend ==
  ASSUME NEW S, NEW q \in Seq(S), NEW e \in S
  PROVE  Waiting(Append(q, e)) = Waiting(q) \cup WaitsFor(e)
<1>1. Range(Append(q, e)) = Range(q) \cup {e}
  BY AppendFresh
<1> QED
  BY <1>1, WaitingAre

LEMMA WaitingTail ==
  ASSUME NEW S, NEW q \in Seq(S), q # <<>>
  PROVE  Waiting(q) = WaitsFor(Head(q)) \cup Waiting(Tail(q))
<1>1. Range(q) = {Head(q)} \cup Range(Tail(q))
  BY HeadAndRest
<1> QED
  BY <1>1, WaitingAre

\* The messages that wait are among those of the exchange.
LEMMA WaitingFinite ==
  ASSUME NEW q \in Seq(MsgRecord)
  PROVE  /\ Waiting(q) \subseteq 1 .. MaxId
         /\ IsFiniteSet(Waiting(q)) /\ Cardinality(Waiting(q)) \in Nat
         /\ Cardinality(Waiting(q)) <= MaxId
<1>1. Waiting(q) \subseteq 1 .. MaxId
  <2>1. \A m \in Range(q) : m \in MsgRecord
    BY DEF Range
  <2>2. \A m \in MsgRecord : m.id \in 1 .. MaxId
    BY DEF MsgRecord
  <2> QED
    BY <2>1, <2>2 DEF Waiting
<1>2. MaxId \in Nat
  BY MaxIdBound
<1>3. IsFiniteSet(1 .. MaxId) /\ Cardinality(1 .. MaxId) = MaxId
  <2>1. 1 \in Int /\ MaxId \in Int
    BY <1>2
  <2>2. IsFiniteSet(1 .. MaxId)
    BY <2>1, FS_Interval
  <2>3. Cardinality(1 .. MaxId) = IF 1 > MaxId THEN 0 ELSE MaxId - 1 + 1
    BY <2>1, FS_Interval
  <2> QED
    BY <1>2, <2>2, <2>3
<1> QED
  BY <1>1, <1>3, FS_Subset, FS_CardinalityType

\* A message arrives; it may have got a buffer if nothing before it waits.
LEMMA BuffersArrive ==
  ASSUME NEW q \in Seq(MsgRecord), NEW n, Buffers(q, n), NEW m \in MsgRecord,
         m.id \notin Waiting(q), m.buffer => m.payload /\ n = 0
  PROVE  /\ is_awaiting_buffer(m) => Buffers(Append(q, m), n + 1)
         /\ ~ is_awaiting_buffer(m) => Buffers(Append(q, m), n)
<1> DEFINE r == Append(q, m)
<1>1. /\ Len(q) \in Nat /\ DOMAIN q = 1 .. Len(q) /\ DOMAIN r = 1 .. Len(q) + 1
      /\ \A i \in 1 .. Len(q) : r[i] = q[i]
      /\ r[Len(q) + 1] = m
  BY Appended
<1>2. Waiting(r) = Waiting(q) \cup WaitsFor(m)
  BY WaitingAppend
<1>3. n = Cardinality(Waiting(q)) /\ IsFiniteSet(Waiting(q)) /\ n \in Nat
  BY WaitingFinite DEF Buffers
<1> HIDE DEF r
<1>4. ASSUME NEW i \in DOMAIN r PROVE r[i].buffer => r[i].payload
  <2>1. CASE i \in 1 .. Len(q)
    <3>1. i \in DOMAIN q /\ r[i] = q[i]
      BY <1>1, <2>1
    <3> QED
      BY <3>1 DEF Buffers
  <2>2. CASE i = Len(q) + 1
    BY <1>1, <2>2
  <2> QED
    BY <1>1, <2>1, <2>2
<1>5. ASSUME NEW i \in DOMAIN r, NEW j \in DOMAIN r, i < j, is_awaiting_buffer(r[i])
      PROVE  ~ r[j].buffer
  <2>1. i \in DOMAIN q /\ r[i] = q[i]
    BY <1>1, <1>5
  <2>2. CASE j \in 1 .. Len(q)
    <3>1. j \in DOMAIN q /\ r[j] = q[j]
      BY <1>1, <2>2
    <3> QED
      BY <1>5, <2>1, <3>1 DEF Buffers
  <2>3. CASE j = Len(q) + 1
    <3>1. q[i].id \in Waiting(q)
      BY <1>5, <2>1 DEF Waiting, Range
    <3>2. n # 0
      BY <1>3, <3>1, FS_EmptySet
    <3> QED
      BY <1>1, <2>3, <3>2
  <2> QED
    BY <1>1, <2>2, <2>3
<1>6. ASSUME is_awaiting_buffer(m) PROVE n + 1 = Cardinality(Waiting(r))
  <2>1. Waiting(r) = Waiting(q) \cup {m.id}
    BY <1>2, <1>6 DEF WaitsFor
  <2> QED
    BY <1>3, <2>1, FS_AddElement
<1>7. ASSUME ~ is_awaiting_buffer(m) PROVE n = Cardinality(Waiting(r))
  <2>1. Waiting(r) = Waiting(q)
    BY <1>2, <1>7 DEF WaitsFor
  <2> QED
    BY <1>3, <2>1
<1> QED
  BY <1>4, <1>5, <1>6, <1>7 DEF Buffers, r

\* The first message leaves and does not wait.
LEMMA BuffersLeave ==
  ASSUME NEW q \in Seq(MsgRecord), NEW n, Buffers(q, n), q # <<>>, ~ is_awaiting_buffer(Head(q))
  PROVE  Buffers(Tail(q), n) /\ Waiting(Tail(q)) = Waiting(q)
<1> DEFINE r == Tail(q)
<1>1. /\ Len(q) \in Nat \ {0} /\ DOMAIN q = 1 .. Len(q)
      /\ DOMAIN r = 1 .. Len(q) - 1
      /\ \A i \in 1 .. Len(q) - 1 : r[i] = q[i + 1]
  BY HeadAndTail
<1>2. Waiting(r) = Waiting(q)
  <2>1. WaitsFor(Head(q)) = {}
    BY DEF WaitsFor
  <2> QED
    BY <2>1, WaitingTail
<1> HIDE DEF r
<1>3. ASSUME NEW i \in DOMAIN r PROVE r[i].buffer => r[i].payload
  <2>1. i + 1 \in DOMAIN q /\ r[i] = q[i + 1]
    BY <1>1
  <2> QED
    BY <2>1 DEF Buffers
<1>4. ASSUME NEW i \in DOMAIN r, NEW j \in DOMAIN r, i < j, is_awaiting_buffer(r[i])
      PROVE  ~ r[j].buffer
  <2>1. /\ i + 1 \in DOMAIN q /\ j + 1 \in DOMAIN q /\ i + 1 < j + 1
        /\ r[i] = q[i + 1] /\ r[j] = q[j + 1]
    BY <1>1, <1>4
  <2> QED
    BY <1>4, <2>1 DEF Buffers
<1> QED
  BY <1>2, <1>3, <1>4 DEF Buffers, r

\* A message that gets its buffer.
Given(m, forced) == [m EXCEPT !.buffer = TRUE, !.forced = forced]

LEMMA GivenFields ==
  ASSUME NEW m \in MsgRecord, NEW forced \in BOOLEAN
  PROVE  /\ Given(m, forced) \in MsgRecord
         /\ Given(m, forced).exch = m.exch /\ Given(m, forced).id = m.id
         /\ Given(m, forced).payload = m.payload
         /\ Given(m, forced).buffer
         /\ ~ is_awaiting_buffer(Given(m, forced))
         /\ KeysOf(Given(m, forced)) = KeysOf(m)
<1> DEFINE g == Given(m, forced)
<1>1. g \in MsgRecord
  BY Zenon DEF MsgRecord, Given
<1>2. g.exch = m.exch /\ g.id = m.id /\ g.payload = m.payload /\ g.marker = m.marker
  BY Zenon DEF MsgRecord, Given
<1>3. g.buffer = TRUE
  BY Zenon DEF MsgRecord, Given
<1> HIDE DEF g
<1>4. ~ is_awaiting_buffer(g)
  BY <1>3, Zenon DEF is_awaiting_buffer
<1>5. KeysOf(g) = KeysOf(m)
  BY <1>2, Zenon DEF KeysOf, Key
<1> QED
  BY <1>1, <1>2, <1>3, <1>4, <1>5 DEF g

\* The first message that waits gets a buffer.
LEMMA BuffersGiven ==
  ASSUME NEW q \in Seq(MsgRecord), NEW n, Buffers(q, n),
         \A i, j \in DOMAIN q : q[i].id = q[j].id => i = j,
         NEW i \in DOMAIN q, is_awaiting_buffer(q[i]),
         \A j \in DOMAIN q : j < i => ~ is_awaiting_buffer(q[j]),
         NEW r \in Seq(MsgRecord), DOMAIN r = DOMAIN q,
         \A j \in DOMAIN q : j # i => r[j] = q[j],
         r[i].id = q[i].id, r[i].buffer, r[i].payload
  PROVE  Buffers(r, n - 1) /\ q[i].id \in Waiting(q) /\ Waiting(r) = Waiting(q) \ {q[i].id}
<1>1. ~ is_awaiting_buffer(r[i])
  BY DEF is_awaiting_buffer
<1>2. q[i].id \in Waiting(q)
  BY DEF Waiting, Range
<1>3. Waiting(r) = Waiting(q) \ {q[i].id}
  <2>1. ASSUME NEW x \in Waiting(r) PROVE x \in Waiting(q) /\ x # q[i].id
    <3>1. PICK j \in DOMAIN q : x = r[j].id /\ is_awaiting_buffer(r[j])
      BY DEF Waiting, Range
    <3>2. j # i /\ r[j] = q[j]
      BY <1>1, <3>1
    <3>3. q[j].id # q[i].id
      BY <3>2
    <3> QED
      BY <3>1, <3>2, <3>3 DEF Waiting, Range
  <2>2. ASSUME NEW x \in Waiting(q), x # q[i].id PROVE x \in Waiting(r)
    <3>1. PICK j \in DOMAIN q : x = q[j].id /\ is_awaiting_buffer(q[j])
      BY DEF Waiting, Range
    <3>2. j # i /\ r[j] = q[j]
      BY <2>2, <3>1
    <3> QED
      BY <3>1, <3>2 DEF Waiting, Range
  <2> QED
    BY <2>1, <2>2
<1>4. n - 1 = Cardinality(Waiting(r))
  <2>1. n = Cardinality(Waiting(q)) /\ IsFiniteSet(Waiting(q))
    BY WaitingFinite DEF Buffers
  <2>2. \A W, x : IsFiniteSet(W) /\ x \in W => Cardinality(W \ {x}) = Cardinality(W) - 1
    BY FS_RemoveElement
  <2> QED
    BY <1>2, <1>3, <2>1, <2>2
<1>5. ASSUME NEW j \in DOMAIN r PROVE r[j].buffer => r[j].payload
  <2>1. CASE j = i
    BY <2>1
  <2>2. CASE j # i
    BY <2>2 DEF Buffers
  <2> QED
    BY <2>1, <2>2
<1>6. ASSUME NEW j \in DOMAIN r, NEW l \in DOMAIN r, j < l, is_awaiting_buffer(r[j])
      PROVE  ~ r[l].buffer
  <2>1. j # i /\ r[j] = q[j]
    BY <1>1, <1>6
  <2>2. ~ (j < i)
    BY <1>6, <2>1
  <2>3. j \in Int /\ l \in Int /\ i \in Int
    OBVIOUS
  <2>4. l # i
    BY <1>6, <2>1, <2>2, <2>3
  <2>5. r[l] = q[l]
    BY <2>4
  <2> QED
    BY <1>6, <2>1, <2>5 DEF Buffers
<1> QED
  BY <1>2, <1>3, <1>4, <1>5, <1>6 DEF Buffers

-----------------------------------------------------------------------------
(* The messages of all peers. *)

\* There are at most MaxArrivals of them.
LEMMA PairsFinite ==
  ASSUME NEW W, \A p \in Peer : W[p] \subseteq 1 .. MaxId
  PROVE  /\ IsFiniteSet(Pairs(W)) /\ Cardinality(Pairs(W)) \in 0 .. MaxArrivals
         /\ Cardinality(Pairs(W)) \in Nat
         /\ Cardinality(Pairs(W)) > 0 <=> \E p \in Peer : W[p] # {}
<1> DEFINE I == 1 .. MaxId
<1>1. MaxId \in Nat /\ IsFiniteSet(Peer)
  BY MaxIdBound, PeerAssumption
<1>2. IsFiniteSet(I) /\ Cardinality(I) = MaxId
  <2>1. 1 \in Int /\ MaxId \in Int
    BY <1>1
  <2>2. IsFiniteSet(I)
    BY <2>1, FS_Interval
  <2>3. Cardinality(I) = IF 1 > MaxId THEN 0 ELSE MaxId - 1 + 1
    BY <2>1, FS_Interval
  <2> QED
    BY <1>1, <2>2, <2>3
<1>3. \A p \in Peer : W[p] \subseteq I
  OBVIOUS
<1> HIDE DEF I
<1>4. Pairs(W) \in SUBSET (Peer \X I)
  BY <1>3 DEF Pairs
<1>5. IsFiniteSet(Peer \X I) /\ Cardinality(Peer \X I) = MaxArrivals
  BY <1>1, <1>2, FS_Product DEF MaxArrivals
<1>6. /\ IsFiniteSet(Pairs(W)) /\ Cardinality(Pairs(W)) \in Nat
      /\ Cardinality(Pairs(W)) <= MaxArrivals
  BY <1>4, <1>5, FS_Subset, FS_CardinalityType
<1>7. MaxArrivals \in Nat
  BY <1>5, FS_CardinalityType
<1>8. Cardinality(Pairs(W)) \in 0 .. MaxArrivals
  BY <1>6, <1>7
<1>9. Cardinality(Pairs(W)) = 0 <=> Pairs(W) = {}
  BY <1>6, FS_EmptySet
<1>10. Pairs(W) = {} <=> \A p \in Peer : W[p] = {}
  <2>1. ASSUME NEW p \in Peer, NEW x \in W[p] PROVE <<p, x>> \in Pairs(W)
    BY DEF Pairs
  <2>2. ASSUME NEW z \in Pairs(W) PROVE \E p \in Peer : W[p] # {}
    BY DEF Pairs
  <2> QED
    BY <2>1, <2>2
<1> QED
  BY <1>6, <1>8, <1>9, <1>10

\* One more message of one peer.
LEMMA PairsAdd ==
  ASSUME NEW W, \A q \in Peer : W[q] \subseteq 1 .. MaxId, NEW V, NEW p \in Peer, NEW id,
         \A q \in Peer \ {p} : V[q] = W[q], V[p] = W[p] \cup {id}, id \notin W[p]
  PROVE  Cardinality(Pairs(V)) = Cardinality(Pairs(W)) + 1
<1>1. Pairs(V) = Pairs(W) \cup {<<p, id>>}
  <2>1. \A q \in Peer : {q} \X V[q] \subseteq Pairs(W) \cup {<<p, id>>}
    BY DEF Pairs
  <2>2. \A q \in Peer : {q} \X W[q] \subseteq Pairs(V)
    BY DEF Pairs
  <2>3. <<p, id>> \in Pairs(V)
    BY DEF Pairs
  <2>4. Pairs(V) \subseteq Pairs(W) \cup {<<p, id>>}
    BY <2>1 DEF Pairs
  <2>5. Pairs(W) \subseteq Pairs(V)
    BY <2>2 DEF Pairs
  <2> QED
    BY <2>3, <2>4, <2>5
<1>2. <<p, id>> \notin Pairs(W)
  BY DEF Pairs
<1>3. IsFiniteSet(Pairs(W))
  BY PairsFinite
<1> QED
  BY <1>1, <1>2, <1>3, FS_AddElement

\* The same messages, seen differently.
LEMMA PairsSame ==
  ASSUME NEW W, NEW V, \A q \in Peer : V[q] = W[q] PROVE Pairs(V) = Pairs(W)
BY DEF Pairs

-----------------------------------------------------------------------------
(* What the invariant says of one peer. *)

\* The numbers of the incoming messages.
LEMMA IncomingNumbers ==
  ASSUME NEW x \in Nat, NEW o \in Seq(MsgRecord), NEW t \in Seq(MsgRecord),
         NEW q \in Seq(MsgRecord), NEW n, Numbering(x, o, t, q, n)
  PROVE  /\ n \in Nat
         /\ \A i, j \in DOMAIN q : q[i].id = q[j].id => i = j
         /\ \A m \in Range(q) : m.exch = x /\ m.id <= n /\ AtMost(Key(m), <<x, n>>)
         /\ q # <<>> => \A m \in Range(Tail(q)) : Less(Key(Head(q)), Key(m))
         /\ n + 1 \notin Waiting(q)
<1>1. /\ Len(o) \in Nat /\ Len(t) \in Nat /\ Len(q) \in Nat /\ DOMAIN q = 1 .. Len(q)
  OBVIOUS
<1>2. /\ \A i \in 1 .. Len(q) : q[i].exch = x /\ q[i].id = Len(o) + Len(t) + i
      /\ n = Len(o) + Len(t) + Len(q)
  BY <1>1 DEF Numbering, Numbered
<1>3. n \in Nat
  BY <1>1, <1>2
<1>4. ASSUME NEW i \in DOMAIN q, NEW j \in DOMAIN q, q[i].id = q[j].id PROVE i = j
  BY <1>1, <1>2, <1>4
<1>5. ASSUME NEW m \in Range(q) PROVE m.exch = x /\ m.id <= n /\ AtMost(Key(m), <<x, n>>)
  <2>1. PICK i \in 1 .. Len(q) : m = q[i]
    BY <1>1 DEF Range
  <2>2. m.exch = x /\ m.id = Len(o) + Len(t) + i
    BY <1>2, <2>1
  <2>3. m.id <= n /\ m.id \in Nat
    BY <1>1, <1>2, <2>2
  <2> QED
    BY <1>3, <2>2, <2>3, SMTT(30) DEF AtMost, Less, Key
<1>6. ASSUME q # <<>>, NEW m \in Range(Tail(q)) PROVE Less(Key(Head(q)), Key(m))
  <2>1. /\ Head(q) = q[1] /\ 1 \in 1 .. Len(q)
        /\ DOMAIN Tail(q) = 1 .. Len(q) - 1
        /\ \A i \in 1 .. Len(q) - 1 : Tail(q)[i] = q[i + 1]
    BY <1>6, HeadAndTail
  <2>2. PICK i \in 1 .. Len(q) - 1 : m = q[i + 1]
    BY <2>1 DEF Range
  <2>3. i + 1 \in 1 .. Len(q) /\ 1 < i + 1
    BY <1>1
  <2>4. q[i + 1].exch = x /\ q[i + 1].id = Len(o) + Len(t) + (i + 1)
    BY <1>2, <2>3
  <2>5. q[1].exch = x /\ q[1].id = Len(o) + Len(t) + 1
    BY <1>2, <2>1
  <2> QED
    BY <1>1, <2>1, <2>2, <2>3, <2>4, <2>5 DEF Less, Key
<1>7. ASSUME n + 1 \in Waiting(q) PROVE FALSE
  <2>1. PICK m \in Range(q) : m.id = n + 1
    BY <1>7 DEF Waiting
  <2>2. n + 1 <= n
    BY <1>5, <2>1
  <2> QED
    BY <1>3, <2>2
<1> QED
  BY <1>3, <1>4, <1>5, <1>6, <1>7

\* The types of what the parts of the invariant are about.
LEMMA PeerTypes ==
  ASSUME IInv, NEW p \in Peer
  PROVE  /\ PeerInv(p)
         /\ exch \in Nat /\ pexch[p] \in Nat /\ messages_sent[p] \in 0 .. MaxId
         /\ peer_received[p] \in Nat /\ peer_terminated[p] \in BOOLEAN
         /\ meta[p] \in Seq(Metadata) /\ data[p] \in Seq(Spots)
         /\ incoming[p] \in Seq(MsgRecord) /\ in_transit[p] \in Seq(MsgRecord)
         /\ received[p] \in Seq(MsgRecord) /\ delivered[p] \in Seq(MsgRecord)
         /\ Out(p) \in Seq(MsgRecord)
         /\ Position(p) \in Spots /\ PeerAt(p) \in Spots
         /\ next_arrival \in Nat
<1>0. MaxExchanges \in Nat /\ MaxId \in Nat
  BY MaxExchangesAssumption, MaxIdBound
<1>1. exch \in Nat /\ pexch[p] \in Nat /\ messages_sent[p] \in 0 .. MaxId /\ peer_received[p] \in Nat
  BY <1>0 DEF IInv, Types
<1>2. peer_terminated[p] \in BOOLEAN
  BY DEF IInv, Types
<1>3. /\ meta[p] \in Seq(Metadata) /\ data[p] \in Seq(Spots)
      /\ incoming[p] \in Seq(MsgRecord) /\ in_transit[p] \in Seq(MsgRecord)
      /\ received[p] \in Seq(MsgRecord) /\ delivered[p] \in Seq(MsgRecord)
  BY DEF IInv, QueueTypes
<1>4. Out(p) \in Seq(MsgRecord)
  BY <1>3, ConcatProperties DEF Out
<1>5. Position(p) \in Spots /\ PeerAt(p) \in Spots
  <2>1. exch + 1 \in Nat /\ messages_sent[p] \in Nat
    BY <1>0, <1>1
  <2> QED
    BY <1>1, <2>1 DEF Position, PeerAt, Spots
<1>6. next_arrival \in Nat
  <2> DEFINE W == [q \in Peer |-> 1 .. peer_received[q]]
  <2>1. \A q \in Peer : W[q] \subseteq 1 .. MaxId
    BY <1>0 DEF IInv, Types
  <2>2. next_arrival = Cardinality(Pairs(W))
    BY DEF IInv, RankInv, AllArrived
  <2> HIDE DEF W
  <2> QED
    BY <2>1, <2>2, PairsFinite
<1> QED
  BY <1>1, <1>2, <1>3, <1>4, <1>5, <1>6 DEF IInv

\* An arrived message comes before anything this rank has not taken yet.
LEMMA ArrivedBefore ==
  ASSUME IInv, NEW p \in Peer
  PROVE  /\ \A m \in Range(incoming[p]) : AtMost(Key(m), Position(p))
         /\ ~ FullyDone(p) => ~ peer_terminated[p]
<1>1. /\ exch \in Nat /\ peer_received[p] \in Nat /\ peer_terminated[p] \in BOOLEAN
      /\ incoming[p] \in Seq(MsgRecord) /\ in_transit[p] \in Seq(MsgRecord)
      /\ Out(p) \in Seq(MsgRecord)
  BY PeerTypes
<1>2. Numbering(exch, Out(p), in_transit[p], incoming[p], peer_received[p])
  BY DEF IInv, PeerInv
<1>3. ASSUME NEW m \in Range(incoming[p]) PROVE AtMost(Key(m), Position(p))
  <2>1. m.exch = exch /\ AtMost(Key(m), <<exch, peer_received[p]>>)
    BY <1>1, <1>2, IncomingNumbers
  <2>2. CASE ~ peer_terminated[p]
    BY <2>1, <2>2 DEF Position
  <2>3. CASE peer_terminated[p]
    <3>1. Position(p) = <<exch + 1, 0>>
      BY <2>3 DEF Position
    <3>2. Key(m)[1] = exch
      BY <2>1 DEF Key
    <3>3. Less(Key(m), <<exch + 1, 0>>)
      BY <1>1, <3>2 DEF Less
    <3> QED
      BY <3>1, <3>3 DEF AtMost
  <2> QED
    BY <2>2, <2>3
<1>4. ~ FullyDone(p) => ~ peer_terminated[p]
  <2>1. peer_terminated[p] => peer_expected[p] = peer_received[p]
    BY DEF IInv, PeerInv
  <2>2. peer_terminated[p] => peer_received[p] >= peer_expected[p]
    BY <1>1, <2>1
  <2> QED
    BY <2>2 DEF FullyDone
<1> QED
  BY <1>3, <1>4

\* A step that leaves everything of a peer alone.
PeerState(q) ==
    <<delivered[q], received[q], in_transit[q], incoming[q], meta[q], data[q],
      peer_received[q], peer_terminated[q], peer_expected[q], num_awaiting_buffer[q],
      pexch[q], messages_sent[q]>>

LEMMA PeerKept ==
  ASSUME NEW q \in Peer, PeerInv(q), exch' = exch, PeerState(q)' = PeerState(q)
  PROVE  PeerInv(q)'
BY DEF PeerInv, PeerState, Out, Position, PeerAt

-----------------------------------------------------------------------------
(* Every step keeps the invariant. *)

\* A new message of a peer.
LEMMA MessageFields ==
  ASSUME NEW x \in Nat, NEW id \in 1 .. MaxId, NEW payload \in BOOLEAN
  PROVE  /\ Message(x, id, payload) \in MsgRecord
         /\ Before(Message(x, id, payload)) = <<x, id - 1>>
         /\ After(Message(x, id, payload)) = <<x, id>>
         /\ Key(Message(x, id, payload)) = <<x, id>>
         /\ Message(x, id, payload).payload = payload
<1>1. Message(x, id, payload) \in MsgRecord
  BY DEF Message, MsgRecord
<1> QED
  BY <1>1 DEF Message, Before, After, Key

LEMMA MarkerFields ==
  ASSUME NEW x \in Nat, NEW n \in 0 .. MaxId
  PROVE  /\ Marker(x, n) \in MarkerRecord
         /\ Before(Marker(x, n)) = <<x, n>>
         /\ After(Marker(x, n)) = <<x + 1, 0>>
<1>1. Marker(x, n) \in MarkerRecord
  BY DEF Marker, MarkerRecord
<1> QED
  BY <1>1 DEF Marker, Before, After

LEMMA SentNumber ==
  ASSUME IInv, NEW p \in Peer, NEW payload \in BOOLEAN, peer_send(p, payload)
  PROVE  messages_sent[p] + 1 \in 1 .. MaxId
<1>1. messages_sent[p] \in 0 .. MaxId
  BY PeerTypes
<1>2. pexch[p] \in 1 .. MaxExchanges
  BY MaxExchangesAssumption DEF IInv, Types, peer_send, MayBeIn
<1>3. messages_sent[p] < MaxMsgs(p, pexch[p])
  BY DEF peer_send
<1>4. MaxMsgs(p, pexch[p]) <= MaxId /\ MaxMsgs(p, pexch[p]) \in Nat /\ MaxId \in Nat
  BY <1>2, MaxIdBound, MaxMsgsAssumption
<1> QED
  BY <1>1, <1>3, <1>4

LEMMA PeerSendInv ==
  ASSUME IInv, NEW p \in Peer, NEW payload \in BOOLEAN, peer_send(p, payload)
  PROVE  IInv'
<1> DEFINE id == messages_sent[p] + 1
           m == Message(pexch[p], id, payload)
<1>1. /\ PeerInv(p) /\ exch \in Nat /\ pexch[p] \in Nat /\ messages_sent[p] \in 0 .. MaxId
      /\ meta[p] \in Seq(Metadata) /\ data[p] \in Seq(Spots) /\ incoming[p] \in Seq(MsgRecord)
      /\ Position(p) \in Spots /\ PeerAt(p) \in Spots
  BY PeerTypes
<1>2. id \in 1 .. MaxId
  BY SentNumber
<1>3. /\ m \in MsgRecord /\ Before(m) = <<pexch[p], id - 1>> /\ After(m) = <<pexch[p], id>>
      /\ Key(m) = <<pexch[p], id>> /\ m.payload = payload /\ m \in Metadata
  <2> HIDE DEF id
  <2> QED
    BY <1>1, <1>2, MessageFields DEF Metadata
<1>4. Before(m) = PeerAt(p)
  <2>1. id - 1 = messages_sent[p]
    BY <1>1
  <2> QED
    BY <1>3, <2>1 DEF PeerAt
<1>5. /\ messages_sent' = [messages_sent EXCEPT ![p] = id]
      /\ meta' = [meta EXCEPT ![p] = Append(@, m)]
      /\ data' = IF payload THEN [data EXCEPT ![p] = Append(@, Key(m))] ELSE data
      /\ UNCHANGED <<pexch, exch, pc, todo, incoming, in_transit, done, stale, received,
                     delivered, termVars, waitVars, next_arrival, finished, fire, fault>>
  BY <1>3 DEF peer_send
<1> HIDE DEF id, m
<1>6. /\ messages_sent'[p] = id /\ meta'[p] = Append(meta[p], m)
      /\ payload => data'[p] = Append(data[p], Key(m))
      /\ ~ payload => data'[p] = data[p]
  BY <1>5 DEF IInv, Types, QueueTypes
<1>7. Append(meta[p], m) \in Seq(Metadata) /\ Append(data[p], Key(m)) \in Seq(Spots)
  <2>1. Key(m) \in Spots
    BY <1>1, <1>2, <1>3, MaxIdBound DEF Spots
  <2> QED
    BY <1>1, <1>3, <2>1
<1>8. Types'
  BY <1>2, <1>5 DEF IInv, Types, termVars, waitVars
<1>9. QueueTypes'
  BY <1>5, <1>7 DEF IInv, QueueTypes
<1>10. PeerInv(p)'
  <2>1. /\ Stream(meta[p], Position(p), PeerAt(p)) /\ Payloads(data[p], incoming[p], meta[p])
    BY <1>1 DEF PeerInv
  <2>2. Stream(Append(meta[p], m), Position(p), After(m))
    BY <1>1, <1>3, <1>4, <2>1, StreamGrows
  <2>3. Position(p)' = Position(p) /\ PeerAt(p)' = After(m) /\ Out(p)' = Out(p)
    BY <1>3, <1>5, <1>6 DEF Position, PeerAt, Out, termVars
  <2>4. \A e \in Range(incoming[p]) : AtMost(Key(e), Position(p))
    BY ArrivedBefore
  <2>5. /\ m.payload => Payloads(Append(data[p], Key(m)), incoming[p], Append(meta[p], m))
        /\ ~ m.payload => Payloads(data[p], incoming[p], Append(meta[p], m))
    BY <1>1, <1>3, <1>4, <2>1, <2>4, PayloadSent
  <2>6. Payloads(data[p], incoming[p], meta[p])'
    <3>1. CASE payload
      BY <1>3, <1>5, <1>6, <2>5, <3>1
    <3>2. CASE ~ payload
      BY <1>3, <1>5, <1>6, <2>5, <3>2
    <3> QED
      BY <3>1, <3>2
  <2> QED
    BY <1>1, <1>5, <1>6, <2>2, <2>3, <2>6 DEF PeerInv, termVars, waitVars
<1>11. ASSUME NEW q \in Peer, q # p PROVE PeerInv(q)'
  <2>1. PeerState(q)' = PeerState(q)
    BY <1>5, <1>11 DEF PeerState, IInv, Types, QueueTypes, termVars, waitVars
  <2> QED
    BY <1>5, <2>1, PeerKept DEF IInv
<1>12. RankInv'
  BY <1>5 DEF IInv, RankInv, termVars, waitVars
<1> QED
  BY <1>8, <1>9, <1>10, <1>11, <1>12 DEF IInv

LEMMA PeerFinishInv ==
  ASSUME IInv, NEW p \in Peer, peer_finish(p)
  PROVE  IInv'
<1> DEFINE m == Marker(pexch[p], messages_sent[p])
<1>1. /\ PeerInv(p) /\ exch \in Nat /\ pexch[p] \in Nat /\ messages_sent[p] \in 0 .. MaxId
      /\ meta[p] \in Seq(Metadata) /\ data[p] \in Seq(Spots) /\ incoming[p] \in Seq(MsgRecord)
      /\ Position(p) \in Spots /\ PeerAt(p) \in Spots
  BY PeerTypes
<1>2. /\ m \in MarkerRecord /\ Before(m) = PeerAt(p) /\ After(m) = <<pexch[p] + 1, 0>>
      /\ m \in Metadata
  BY <1>1, MarkerFields DEF PeerAt, Metadata
<1>3. /\ meta' = [meta EXCEPT ![p] = Append(@, m)]
      /\ pexch' = [pexch EXCEPT ![p] = @ + 1]
      /\ messages_sent' = [messages_sent EXCEPT ![p] = 0]
      /\ UNCHANGED <<data, exch, pc, todo, incoming, in_transit, done, stale, received,
                     delivered, termVars, waitVars, next_arrival, finished, fire, fault>>
  BY DEF peer_finish
<1>4. pexch[p] + 1 \in 1 .. MaxExchanges + 1
  BY <1>1, MaxExchangesAssumption, SMTT(30) DEF IInv, Types, peer_finish, MayBeIn
<1> HIDE DEF m
<1>5. meta'[p] = Append(meta[p], m) /\ pexch'[p] = pexch[p] + 1 /\ messages_sent'[p] = 0
  BY <1>3 DEF IInv, Types, QueueTypes
<1>6. Types'
  BY <1>3, <1>4, MaxIdBound DEF IInv, Types, termVars, waitVars
<1>7. QueueTypes'
  BY <1>1, <1>2, <1>3 DEF IInv, QueueTypes
<1>8. PeerInv(p)'
  <2>1. /\ Stream(meta[p], Position(p), PeerAt(p)) /\ Payloads(data[p], incoming[p], meta[p])
    BY <1>1 DEF PeerInv
  <2>2. Stream(Append(meta[p], m), Position(p), After(m))
    BY <1>1, <1>2, <2>1, StreamGrows
  <2>3. Position(p)' = Position(p) /\ PeerAt(p)' = After(m) /\ Out(p)' = Out(p)
    BY <1>2, <1>3, <1>5 DEF Position, PeerAt, Out, termVars
  <2>4. Payloads(data[p], incoming[p], Append(meta[p], m))
    BY <1>1, <1>2, <2>1, PayloadKept
  <2> QED
    BY <1>1, <1>3, <1>5, <2>2, <2>3, <2>4 DEF PeerInv, termVars, waitVars
<1>9. ASSUME NEW q \in Peer, q # p PROVE PeerInv(q)'
  <2>1. PeerState(q)' = PeerState(q)
    BY <1>3, <1>9 DEF PeerState, IInv, Types, QueueTypes, termVars, waitVars
  <2> QED
    BY <1>3, <2>1, PeerKept DEF IInv
<1>10. RankInv'
  BY <1>3 DEF IInv, RankInv, termVars, waitVars
<1> QED
  BY <1>6, <1>7, <1>8, <1>9, <1>10 DEF IInv

\* A step that moves no message.
LEMMA ControlInv ==
  ASSUME IInv, Types',
         UNCHANGED <<peerVars, meta, data, exch, incoming, in_transit, received, delivered,
                     termVars, waitVars, next_arrival, fault>>,
         pc' \in {"out", "receive"} => pc \in {"out", "receive"}
  PROVE  IInv'
<1>1. QueueTypes'
  BY DEF IInv, QueueTypes
<1>2. ASSUME NEW q \in Peer PROVE PeerInv(q)'
  <2>1. PeerState(q)' = PeerState(q)
    BY DEF PeerState, peerVars, termVars, waitVars
  <2> QED
    BY <2>1, PeerKept DEF IInv
<1>3. RankInv'
  BY DEF IInv, RankInv, termVars, waitVars
<1> QED
  BY <1>1, <1>2, <1>3 DEF IInv

LEMMA ControlSteps ==
  ASSUME IInv
  PROVE  /\ \A p \in Peer, id \in 1 .. MaxId : transfer_done(p, id) => IInv'
         /\ progress => IInv'
         /\ \A p \in Peer : receive_nothing(p) => IInv'
         /\ force_not_due => IInv'
         /\ \A p \in Peer : setup_break(p) => IInv'
         /\ \A sent \in BOOLEAN : cleanup_completed_operations(sent) => IInv'
         /\ finish => IInv'
<1> DEFINE Kept == UNCHANGED <<peerVars, meta, data, exch, incoming, in_transit, received,
                               delivered, termVars, waitVars, next_arrival, fault>>
<1>1. ASSUME NEW p \in Peer, NEW id \in 1 .. MaxId, transfer_done(p, id) PROVE IInv'
  <2>1. Kept /\ pc' = pc /\ todo' = todo /\ stale' = stale /\ finished' = finished /\ fire' = fire
    BY <1>1 DEF transfer_done
  <2>2. done' = [done EXCEPT ![p] = @ \cup {id}]
    BY <1>1 DEF transfer_done
  <2>3. Types'
    BY <2>1, <2>2 DEF IInv, Types, peerVars, termVars, waitVars
  <2> QED
    BY <2>1, <2>3, ControlInv
<1>2. ASSUME progress PROVE IInv'
  <2>1. Kept /\ pc = "out" /\ pc' = "receive"
    BY <1>2 DEF progress, Goto
  <2>2. Types'
    BY <1>2 DEF progress, Goto, IInv, Types, peerVars, termVars, waitVars
  <2> QED
    BY <2>1, <2>2, ControlInv
<1>3. ASSUME NEW p \in Peer, receive_nothing(p) PROVE IInv'
  <2>1. Kept /\ pc' = pc
    BY <1>3 DEF receive_nothing
  <2>2. Types'
    BY <1>3 DEF receive_nothing, IInv, Types, peerVars, termVars, waitVars
  <2> QED
    BY <2>1, <2>2, ControlInv
<1>4. ASSUME force_not_due PROVE IInv'
  <2>1. Kept /\ pc' = "setup"
    BY <1>4 DEF force_not_due, AfterForce, Goto
  <2>2. Types'
    BY <1>4 DEF force_not_due, AfterForce, Goto, IInv, Types, peerVars, termVars, waitVars
  <2> QED
    BY <2>1, <2>2, ControlInv
<1>5. ASSUME NEW p \in Peer, setup_break(p) PROVE IInv'
  <2>1. Kept /\ pc' = pc
    BY <1>5 DEF setup_break
  <2>2. Types'
    BY <1>5 DEF setup_break, IInv, Types, peerVars, termVars, waitVars
  <2> QED
    BY <2>1, <2>2, ControlInv
<1>6. ASSUME NEW sent \in BOOLEAN, cleanup_completed_operations(sent) PROVE IInv'
  <2>1. Kept /\ pc' = "recv"
    BY <1>6 DEF cleanup_completed_operations, Goto
  <2>2. Types'
    BY <1>6 DEF cleanup_completed_operations, Goto, IInv, Types, peerVars, termVars, waitVars
  <2> QED
    BY <2>1, <2>2, ControlInv
<1>7. ASSUME finish PROVE IInv'
  <2>1. Kept /\ pc' = pc
    BY <1>7 DEF finish
  <2>2. Types'
    BY <1>7 DEF finish, IInv, Types, peerVars, termVars, waitVars
  <2> QED
    BY <2>1, <2>2, ControlInv
<1> QED
  BY <1>1, <1>2, <1>3, <1>4, <1>5, <1>6, <1>7

LEMMA RecvInv ==
  ASSUME IInv, recv
  PROVE  IInv'
<1>1. /\ pc' = "out" /\ todo' = {}
      /\ delivered' = [p \in Peer |-> delivered[p] \o received[p]]
      /\ received' = [p \in Peer |-> <<>>]
      /\ UNCHANGED <<peerVars, meta, data, exch, incoming, in_transit, done, stale,
                     termVars, waitVars, next_arrival, finished, fire, fault>>
  BY DEF recv, Goto
<1>2. Types'
  BY <1>1 DEF IInv, Types, peerVars, termVars, waitVars
<1>3. ASSUME NEW p \in Peer
      PROVE  /\ delivered[p] \in Seq(MsgRecord) /\ received[p] \in Seq(MsgRecord)
             /\ Out(p) \in Seq(MsgRecord) /\ Out(p)' = Out(p) /\ PeerInv(p)'
  <2>1. /\ PeerInv(p) /\ Out(p) \in Seq(MsgRecord)
        /\ delivered[p] \in Seq(MsgRecord) /\ received[p] \in Seq(MsgRecord)
    BY PeerTypes
  <2>2. delivered'[p] = Out(p) /\ received'[p] = <<>>
    BY <1>1 DEF Out
  <2>3. Out(p) \o <<>> = Out(p)
    BY <2>1, ConcatEmptySeq
  <2>4. Out(p)' = Out(p)
    BY <2>2, <2>3 DEF Out
  <2>5. Position(p)' = Position(p) /\ PeerAt(p)' = PeerAt(p)
    BY <1>1 DEF Position, PeerAt, peerVars, termVars
  <2> QED
    BY <1>1, <2>1, <2>4, <2>5 DEF PeerInv, termVars, waitVars
<1>4. QueueTypes'
  <2>1. delivered' \in [Peer -> Seq(MsgRecord)]
    BY <1>1, <1>3 DEF Out
  <2>2. received' \in [Peer -> Seq(MsgRecord)]
    BY <1>1
  <2> QED
    BY <1>1, <2>1, <2>2 DEF IInv, QueueTypes
<1>5. RankInv'
  BY <1>1 DEF IInv, RankInv, termVars, waitVars
<1> QED
  BY <1>2, <1>3, <1>4, <1>5 DEF IInv

\* The numbers of waiting and of arrived messages.
LEMMA WaitingCount ==
  ASSUME NEW inc \in [Peer -> Seq(MsgRecord)]
  PROVE  /\ Cardinality(AllWaiting(inc)) \in Nat
         /\ Cardinality(AllWaiting(inc)) \in 0 .. MaxArrivals
         /\ Cardinality(AllWaiting(inc)) > 0 <=> \E p \in Peer : Waiting(inc[p]) # {}
<1> DEFINE W == [p \in Peer |-> Waiting(inc[p])]
<1>1. \A p \in Peer : W[p] \subseteq 1 .. MaxId
  BY WaitingFinite
<1>2. \A p \in Peer : W[p] = Waiting(inc[p])
  OBVIOUS
<1>3. AllWaiting(inc) = Pairs(W)
  BY DEF AllWaiting
<1> HIDE DEF W
<1> QED
  BY <1>1, <1>2, <1>3, PairsFinite

LEMMA WaitingGrows ==
  ASSUME NEW inc \in [Peer -> Seq(MsgRecord)], NEW new \in [Peer -> Seq(MsgRecord)],
         NEW p \in Peer, \A q \in Peer : q # p => new[q] = inc[q]
  PROVE  /\ Waiting(new[p]) = Waiting(inc[p]) =>
               Cardinality(AllWaiting(new)) = Cardinality(AllWaiting(inc))
         /\ \A id : Waiting(new[p]) = Waiting(inc[p]) \cup {id} /\ id \notin Waiting(inc[p]) =>
               Cardinality(AllWaiting(new)) = Cardinality(AllWaiting(inc)) + 1
<1> DEFINE W == [q \in Peer |-> Waiting(inc[q])]
           V == [q \in Peer |-> Waiting(new[q])]
<1>1. \A q \in Peer : W[q] \subseteq 1 .. MaxId
  BY WaitingFinite
<1>2. \A q \in Peer \ {p} : V[q] = W[q]
  OBVIOUS
<1>3. W[p] = Waiting(inc[p]) /\ V[p] = Waiting(new[p])
  OBVIOUS
<1>4. AllWaiting(inc) = Pairs(W) /\ AllWaiting(new) = Pairs(V)
  BY DEF AllWaiting
<1> HIDE DEF W, V
<1>5. ASSUME Waiting(new[p]) = Waiting(inc[p])
      PROVE  Cardinality(AllWaiting(new)) = Cardinality(AllWaiting(inc))
  <2>1. \A q \in Peer : V[q] = W[q]
    BY <1>2, <1>3, <1>5
  <2> QED
    BY <1>4, <2>1, PairsSame
<1>6. ASSUME NEW id, Waiting(new[p]) = Waiting(inc[p]) \cup {id}, id \notin Waiting(inc[p])
      PROVE  Cardinality(AllWaiting(new)) = Cardinality(AllWaiting(inc)) + 1
  <2>1. V[p] = W[p] \cup {id} /\ id \notin W[p]
    BY <1>3, <1>6
  <2>2. Cardinality(Pairs(V)) = Cardinality(Pairs(W)) + 1
    BY <1>1, <1>2, <2>1, PairsAdd
  <2> QED
    BY <1>4, <2>2
<1> QED
  BY <1>5, <1>6

LEMMA ArrivedGrows ==
  ASSUME NEW n \in [Peer -> 0 .. MaxId], NEW p \in Peer, n[p] + 1 \in 1 .. MaxId
  PROVE  Cardinality(AllArrived([n EXCEPT ![p] = @ + 1])) = Cardinality(AllArrived(n)) + 1
<1> DEFINE new == [n EXCEPT ![p] = @ + 1]
           W == [q \in Peer |-> 1 .. n[q]]
           V == [q \in Peer |-> 1 .. new[q]]
<1>0. MaxId \in Nat
  BY MaxIdBound
<1>1. \A q \in Peer : W[q] \subseteq 1 .. MaxId
  BY <1>0
<1>2. \A q \in Peer \ {p} : V[q] = W[q]
  OBVIOUS
<1>3. W[p] = 1 .. n[p] /\ V[p] = 1 .. n[p] + 1
  OBVIOUS
<1>4. AllArrived(n) = Pairs(W) /\ AllArrived(new) = Pairs(V)
  BY DEF AllArrived
<1> HIDE DEF W, V, new
<1>5. n[p] \in Nat
  BY <1>0
<1>6. 1 .. n[p] + 1 = (1 .. n[p]) \cup {n[p] + 1} /\ n[p] + 1 \notin 1 .. n[p]
  BY <1>5
<1>7. V[p] = W[p] \cup {n[p] + 1} /\ n[p] + 1 \notin W[p]
  BY <1>3, <1>6
<1>8. Cardinality(Pairs(V)) = Cardinality(Pairs(W)) + 1
  BY <1>1, <1>2, <1>7, PairsAdd
<1> QED
  BY <1>4, <1>8 DEF new

\* A message as it arrives.
Arriving(m, arrival, attached) == [m EXCEPT !.arrival = arrival, !.buffer = attached]

LEMMA ArrivingFields ==
  ASSUME NEW m \in MsgRecord, NEW arrival \in Nat, NEW attached \in BOOLEAN
  PROVE  /\ Arriving(m, arrival, attached) \in MsgRecord
         /\ Arriving(m, arrival, attached).exch = m.exch
         /\ Arriving(m, arrival, attached).id = m.id
         /\ Arriving(m, arrival, attached).payload = m.payload
         /\ KeysOf(Arriving(m, arrival, attached)) = KeysOf(m)
<1> DEFINE new == Arriving(m, arrival, attached)
<1>1. new \in MsgRecord
  BY Zenon DEF MsgRecord, Arriving
<1>2. new.exch = m.exch /\ new.id = m.id /\ new.payload = m.payload /\ new.marker = m.marker
  BY Zenon DEF MsgRecord, Arriving
<1> HIDE DEF new
<1>3. KeysOf(new) = KeysOf(m)
  BY <1>2, Zenon DEF KeysOf, Key
<1> QED
  BY <1>1, <1>2, <1>3 DEF new

\* The peer's marker is taken: all its messages have arrived.
LEMMA ReceiveMarkerInv ==
  ASSUME IInv, NEW p \in Peer, NEW attached \in BOOLEAN, receive_metadata(p, attached),
         Head(meta[p]).marker
  PROVE  IInv'
<1> DEFINE m == Head(meta[p])
<1>1. /\ PeerInv(p) /\ exch \in Nat /\ peer_received[p] \in Nat
      /\ meta[p] \in Seq(Metadata) /\ incoming[p] \in Seq(MsgRecord)
      /\ Position(p) \in Spots /\ PeerAt(p) \in Spots
  BY PeerTypes
<1>2. meta[p] # <<>> /\ ~ FullyDone(p)
  BY DEF receive_metadata, poll
<1>3. ~ peer_terminated[p] /\ Position(p) = <<exch, peer_received[p]>>
  BY <1>2, ArrivedBefore DEF Position
<1>4. /\ meta' = [meta EXCEPT ![p] = Tail(@)]
      /\ peer_expected' = [peer_expected EXCEPT ![p] = m.count]
      /\ peer_terminated' = [peer_terminated EXCEPT ![p] = TRUE]
      /\ todo' = todo \ {p}
      /\ UNCHANGED <<incoming, waitVars, next_arrival, peer_received, peerVars, data, exch, pc,
                     in_transit, done, stale, received, delivered, finished, fire, fault>>
  BY DEF receive_metadata
<1>5. m \in Metadata /\ Tail(meta[p]) \in Seq(Metadata)
  BY <1>1, <1>2, HeadAndTail
<1>6. m \in MarkerRecord
  BY <1>5, Spot
<1>7. m.exch = exch /\ m.count = peer_received[p] /\ After(m) = <<exch + 1, 0>>
      /\ Stream(Tail(meta[p]), After(m), PeerAt(p))
  <2>1. Before(m) = Position(p) /\ Stream(Tail(meta[p]), After(m), PeerAt(p))
    BY <1>1, <1>2, StreamShrinks DEF PeerInv
  <2>2. Before(m) = <<m.exch, m.count>> /\ After(m) = <<m.exch + 1, 0>>
    BY <1>6, MarkerFlags, Zenon DEF Before, After
  <2>3. <<m.exch, m.count>> = <<exch, peer_received[p]>>
    BY <1>3, <2>1, <2>2
  <2>4. m.exch = exch /\ m.count = peer_received[p]
    BY <2>3
  <2> QED
    BY <2>1, <2>2, <2>4
<1> HIDE DEF m
<1>8. /\ meta'[p] = Tail(meta[p]) /\ peer_expected'[p] = peer_received[p]
      /\ peer_terminated'[p] = TRUE
  BY <1>4, <1>7 DEF IInv, Types, QueueTypes
<1>9. Types'
  <2>1. peer_received[p] \in 0 .. MaxId
    BY DEF IInv, Types
  <2> QED
    BY <1>4, <1>7, <2>1 DEF IInv, Types, peerVars, waitVars
<1>10. QueueTypes'
  BY <1>4, <1>5 DEF IInv, QueueTypes
<1>11. PeerInv(p)'
  <2>1. Position(p)' = After(m) /\ PeerAt(p)' = PeerAt(p) /\ Out(p)' = Out(p)
    BY <1>4, <1>7, <1>8 DEF Position, PeerAt, Out, peerVars
  <2>2. Payloads(data[p], incoming[p], meta[p])
    BY <1>1 DEF PeerInv
  <2>3. Payloads(data[p], incoming[p], Tail(meta[p]))
    BY <1>1, <1>2, <2>2, PayloadKept
  <2> QED
    BY <1>1, <1>4, <1>7, <1>8, <2>1, <2>3 DEF PeerInv, waitVars
<1>12. ASSUME NEW q \in Peer, q # p PROVE PeerInv(q)'
  <2>1. PeerState(q)' = PeerState(q)
    BY <1>4, <1>12 DEF PeerState, IInv, Types, QueueTypes, peerVars, waitVars
  <2> QED
    BY <1>4, <2>1, PeerKept DEF IInv
<1>13. RankInv'
  BY <1>4 DEF IInv, RankInv, waitVars
<1> QED
  BY <1>9, <1>10, <1>11, <1>12, <1>13 DEF IInv

\* A message is taken, with or without a buffer for it.
LEMMA ReceiveMessageInv ==
  ASSUME IInv, NEW p \in Peer, NEW attached \in BOOLEAN, receive_metadata(p, attached),
         ~ Head(meta[p]).marker
  PROVE  IInv'
<1> DEFINE m == Head(meta[p])
           new == Arriving(m, next_arrival, attached)
           waits == is_awaiting_buffer(new)
<1>1. /\ PeerInv(p) /\ exch \in Nat /\ peer_received[p] \in Nat /\ next_arrival \in Nat
      /\ meta[p] \in Seq(Metadata) /\ incoming[p] \in Seq(MsgRecord)
      /\ in_transit[p] \in Seq(MsgRecord) /\ Out(p) \in Seq(MsgRecord)
      /\ Position(p) \in Spots /\ PeerAt(p) \in Spots
  BY PeerTypes
<1>2. meta[p] # <<>> /\ ~ FullyDone(p)
  BY DEF receive_metadata, poll
<1>3. ~ peer_terminated[p] /\ Position(p) = <<exch, peer_received[p]>>
  BY <1>2, ArrivedBefore DEF Position
<1>4. m \in MsgRecord /\ Tail(meta[p]) \in Seq(Metadata)
  <2>1. m \in Metadata /\ Tail(meta[p]) \in Seq(Metadata)
    BY <1>1, <1>2, HeadAndTail
  <2> QED
    BY <2>1, Spot
<1>5. /\ new \in MsgRecord /\ new.exch = m.exch /\ new.id = m.id /\ new.payload = m.payload
      /\ new.buffer = attached
      /\ waits <=> m.payload /\ ~ attached
      /\ KeysOf(new) = KeysOf(m)
  <2> HIDE DEF m
  <2>1. /\ new \in MsgRecord /\ new.exch = m.exch /\ new.id = m.id /\ new.payload = m.payload
        /\ KeysOf(new) = KeysOf(m)
    BY <1>1, <1>4, ArrivingFields, SMTT(30)
  <2>2. new.buffer = attached
    BY <1>4, Zenon DEF MsgRecord, Arriving
  <2>3. waits <=> m.payload /\ ~ attached
    BY <2>1, <2>2, Zenon DEF is_awaiting_buffer
  <2> QED
    BY <2>1, <2>2, <2>3
<1>6. /\ m.exch = exch /\ m.id = peer_received[p] + 1 /\ After(m) = <<exch, peer_received[p] + 1>>
      /\ Stream(Tail(meta[p]), After(m), PeerAt(p))
  <2>1. Before(m) = Position(p) /\ Stream(Tail(meta[p]), After(m), PeerAt(p))
    BY <1>1, <1>2, StreamShrinks DEF PeerInv
  <2>2. Before(m) = <<m.exch, m.id - 1>> /\ After(m) = <<m.exch, m.id>>
    BY <1>4, MsgFlags, Zenon DEF Before, After
  <2>3. <<m.exch, m.id - 1>> = <<exch, peer_received[p]>>
    BY <1>3, <2>1, <2>2
  <2>4. m.exch = exch /\ m.id - 1 = peer_received[p] /\ m.id \in Nat
    BY <1>4, <2>3, MsgNumbers
  <2>5. m.id = peer_received[p] + 1
    BY <2>4
  <2> QED
    BY <2>1, <2>2, <2>4, <2>5
<1>7. peer_received[p] + 1 \in 1 .. MaxId
  BY <1>1, <1>4, <1>6, MsgNumbers, MaxIdBound
<1>8. /\ meta' = [meta EXCEPT ![p] = Tail(@)]
      /\ attached => m.payload /\ num_awaiting_buffer[p] = 0
      /\ peer_received' = [peer_received EXCEPT ![p] = @ + 1]
      /\ incoming' = [incoming EXCEPT ![p] = Append(@, new)]
      /\ next_arrival' = next_arrival + 1
      /\ UNCHANGED <<peer_expected, peer_terminated, todo, peerVars, data, exch, pc,
                     in_transit, done, stale, received, delivered, finished, fire, fault>>
  BY DEF receive_metadata, Arriving
<1>9. /\ waits => /\ num_awaiting_buffer' = [num_awaiting_buffer EXCEPT ![p] = @ + 1]
                  /\ total_awaiting_buffer' = total_awaiting_buffer + 1
                  /\ stalled' = TRUE
      /\ ~ waits => /\ num_awaiting_buffer' = num_awaiting_buffer
                    /\ total_awaiting_buffer' = total_awaiting_buffer
                    /\ stalled' <=> total_awaiting_buffer > 0
                    /\ stalled' \in BOOLEAN
  <2>0. total_awaiting_buffer \in Nat /\ num_awaiting_buffer \in [Peer -> Int]
    BY WaitingCount DEF IInv, RankInv, QueueTypes, Types
  <2>1. CASE m.payload /\ ~ attached
    BY <1>5, <2>1 DEF receive_metadata, stall_after
  <2>2. CASE m.payload /\ attached
    <3>1. /\ num_awaiting_buffer' = [num_awaiting_buffer EXCEPT ![p] = @ + 0]
          /\ total_awaiting_buffer' = total_awaiting_buffer + 0
          /\ stalled' = (total_awaiting_buffer' > 0)
      BY <2>2 DEF receive_metadata, stall_after
    <3>2. num_awaiting_buffer' = num_awaiting_buffer /\ total_awaiting_buffer' = total_awaiting_buffer
      BY <2>0, <3>1
    <3>3. ~ waits
      BY <1>5, <2>2, Zenon
    <3>4. stalled' = (total_awaiting_buffer > 0)
      BY <3>1, <3>2, Zenon
    <3>5. stalled' <=> total_awaiting_buffer > 0
      BY <3>4
    <3>6. stalled' \in BOOLEAN
      BY <3>4
    <3> QED
      BY <3>2, <3>3, <3>5, <3>6, Zenon
  <2>3. CASE ~ m.payload
    <3>1. UNCHANGED waitVars
      BY <2>3 DEF receive_metadata
    <3>2. stalled <=> total_awaiting_buffer > 0
      BY DEF IInv, RankInv
    <3>3. stalled \in BOOLEAN
      BY DEF IInv, Types
    <3> QED
      BY <1>5, <2>3, <3>1, <3>2, <3>3 DEF waitVars
  <2> QED
    BY <2>1, <2>2, <2>3
<1> HIDE DEF m, new, waits
<1>10. /\ meta'[p] = Tail(meta[p]) /\ incoming'[p] = Append(incoming[p], new)
       /\ peer_received'[p] = peer_received[p] + 1
       /\ Append(incoming[p], new) \in Seq(MsgRecord)
  BY <1>1, <1>5, <1>8 DEF IInv, Types, QueueTypes
<1>11. Types'
  <2>1. num_awaiting_buffer' \in [Peer -> Int] /\ stalled' \in BOOLEAN
    <3>1. CASE waits
      <4>1. stalled' \in BOOLEAN
        BY <1>9, <3>1, Zenon
      <4>2. num_awaiting_buffer' \in [Peer -> Int]
        BY <1>9, <3>1 DEF IInv, Types
      <4> QED
        BY <4>1, <4>2
    <3>2. CASE ~ waits
      <4>1. stalled' \in BOOLEAN
        BY <1>9, <3>2, Zenon
      <4>2. num_awaiting_buffer' \in [Peer -> Int]
        BY <1>9, <3>2 DEF IInv, Types
      <4> QED
        BY <4>1, <4>2
    <3> QED
      BY <3>1, <3>2
  <2>2. peer_received' \in [Peer -> 0 .. MaxId]
    <3>1. peer_received[p] + 1 \in 0 .. MaxId
      BY <1>7
    <3> QED
      BY <1>8, <3>1 DEF IInv, Types
  <2> QED
    BY <1>8, <2>1, <2>2 DEF IInv, Types, peerVars
<1>12. QueueTypes'
  BY <1>4, <1>8, <1>10 DEF IInv, QueueTypes
<1>13. /\ Numbering(exch, Out(p), in_transit[p], incoming[p], peer_received[p])
       /\ Payloads(data[p], incoming[p], meta[p])
       /\ Buffers(incoming[p], num_awaiting_buffer[p])
  BY <1>1 DEF PeerInv
<1>14. new.id \notin Waiting(incoming[p])
  <2>1. peer_received[p] + 1 \notin Waiting(incoming[p])
    BY <1>1, <1>13, IncomingNumbers
  <2> QED
    BY <1>5, <1>6, <2>1
<1>15. PeerInv(p)'
  <2>1. Position(p)' = After(m) /\ PeerAt(p)' = PeerAt(p) /\ Out(p)' = Out(p)
    BY <1>3, <1>6, <1>8, <1>10 DEF Position, PeerAt, Out, peerVars
  <2>2. Payloads(data[p], Append(incoming[p], new), Tail(meta[p]))
    BY <1>1, <1>2, <1>5, <1>13, PayloadKept DEF m
  <2>3. Numbering(exch, Out(p), in_transit[p], Append(incoming[p], new), peer_received[p] + 1)
    BY <1>1, <1>5, <1>6, <1>13, NumberingArrives
  <2>4. Buffers(Append(incoming[p], new), num_awaiting_buffer'[p])
    <3>1. new.buffer => new.payload /\ num_awaiting_buffer[p] = 0
      BY <1>5, <1>8
    <3>2. /\ waits => Buffers(Append(incoming[p], new), num_awaiting_buffer[p] + 1)
          /\ ~ waits => Buffers(Append(incoming[p], new), num_awaiting_buffer[p])
      BY <1>1, <1>5, <1>13, <1>14, <3>1, BuffersArrive DEF waits
    <3>3. /\ waits => num_awaiting_buffer'[p] = num_awaiting_buffer[p] + 1
          /\ ~ waits => num_awaiting_buffer'[p] = num_awaiting_buffer[p]
      BY <1>9 DEF IInv, Types
    <3> QED
      BY <3>2, <3>3
  <2>5. peer_terminated'[p] => FALSE
    BY <1>3, <1>8
  <2> QED
    BY <1>1, <1>6, <1>8, <1>10, <2>1, <2>2, <2>3, <2>4, <2>5 DEF PeerInv
<1>16. ASSUME NEW q \in Peer, q # p PROVE PeerInv(q)'
  <2>1. num_awaiting_buffer'[q] = num_awaiting_buffer[q]
    BY <1>9, <1>16 DEF IInv, Types
  <2>2. PeerState(q)' = PeerState(q)
    BY <1>8, <1>16, <2>1 DEF PeerState, IInv, Types, QueueTypes, peerVars
  <2> QED
    BY <1>8, <2>2, PeerKept DEF IInv
<1>17. RankInv'
  <2>1. next_arrival' = Cardinality(AllArrived(peer_received'))
    BY <1>7, <1>8, ArrivedGrows DEF IInv, Types, RankInv
  <2>2. Waiting(incoming'[p]) = Waiting(incoming[p]) \cup WaitsFor(new)
    BY <1>1, <1>5, <1>10, WaitingAppend
  <2>3. \A q \in Peer : q # p => incoming'[q] = incoming[q]
    BY <1>8 DEF IInv, QueueTypes
  <2>4. incoming \in [Peer -> Seq(MsgRecord)] /\ incoming' \in [Peer -> Seq(MsgRecord)]
    BY <1>12 DEF IInv, QueueTypes
  <2>5. total_awaiting_buffer = Cardinality(AllWaiting(incoming)) /\ total_awaiting_buffer \in Nat
    BY <2>4, WaitingCount DEF IInv, RankInv
  <2>6. /\ total_awaiting_buffer' = Cardinality(AllWaiting(incoming'))
        /\ stalled' <=> total_awaiting_buffer' > 0
    <3>1. CASE waits
      <4>1. Waiting(incoming'[p]) = Waiting(incoming[p]) \cup {new.id}
        BY <2>2, <3>1 DEF WaitsFor, waits
      <4>2. Cardinality(AllWaiting(incoming')) = Cardinality(AllWaiting(incoming)) + 1
        BY <1>14, <2>3, <2>4, <4>1, WaitingGrows
      <4> QED
        BY <1>9, <2>5, <3>1, <4>2
    <3>2. CASE ~ waits
      <4>1. Waiting(incoming'[p]) = Waiting(incoming[p])
        BY <2>2, <3>2 DEF WaitsFor, waits
      <4>2. Cardinality(AllWaiting(incoming')) = Cardinality(AllWaiting(incoming))
        BY <2>3, <2>4, <4>1, WaitingGrows
      <4> QED
        BY <1>9, <2>5, <3>2, <4>2
    <3> QED
      BY <3>1, <3>2
  <2> QED
    BY <1>8, <2>1, <2>6 DEF IInv, RankInv
<1> QED
  BY <1>11, <1>12, <1>15, <1>16, <1>17 DEF IInv

\* The first message of a peer that waits gets a buffer.
LEMMA AttachInv ==
  ASSUME IInv, NEW p \in Peer, NEW i \in DOMAIN incoming[p], NEW forced \in BOOLEAN,
         is_awaiting_buffer(incoming[p][i]),
         \A j \in DOMAIN incoming[p] : j < i => ~ is_awaiting_buffer(incoming[p][j]),
         attach(p, i, forced), pc' = "setup", todo' \subseteq Peer,
         UNCHANGED <<peerVars, meta, data, exch, in_transit, done, stale, received, delivered,
                     termVars, next_arrival, finished, fire, fault>>
  PROVE  IInv'
<1> DEFINE m == incoming[p][i]
           g == Given(m, forced)
           r == [incoming[p] EXCEPT ![i] = g]
<1>1. /\ PeerInv(p) /\ exch \in Nat /\ incoming[p] \in Seq(MsgRecord)
      /\ in_transit[p] \in Seq(MsgRecord) /\ Out(p) \in Seq(MsgRecord)
  BY PeerTypes
<1>2. m \in MsgRecord
  BY <1>1
<1>3. /\ g \in MsgRecord /\ g.exch = m.exch /\ g.id = m.id /\ g.payload = m.payload
      /\ g.buffer /\ KeysOf(g) = KeysOf(m)
  <2> HIDE DEF m
  <2> QED
    BY <1>2, GivenFields
<1>4. /\ incoming' = [incoming EXCEPT ![p][i].buffer = TRUE, ![p][i].forced = forced]
      /\ num_awaiting_buffer' = [num_awaiting_buffer EXCEPT ![p] = @ - 1]
      /\ total_awaiting_buffer' = total_awaiting_buffer - 1
      /\ stalled' = (total_awaiting_buffer' > 0)
  BY DEF attach, stall_after
<1>5. /\ incoming' = [incoming EXCEPT ![p] = r]
      /\ r \in Seq(MsgRecord) /\ DOMAIN r = DOMAIN incoming[p] /\ Len(r) = Len(incoming[p])
      /\ r[i] = g /\ \A j \in DOMAIN incoming[p] : j # i => r[j] = incoming[p][j]
  <2>1. r \in Seq(MsgRecord) /\ DOMAIN r = DOMAIN incoming[p] /\ Len(r) = Len(incoming[p])
    BY <1>1, <1>3, ExceptSeq
  <2>2. r[i] = g /\ \A j \in DOMAIN incoming[p] : j # i => r[j] = incoming[p][j]
    BY <1>1
  <2>3. incoming' = [incoming EXCEPT ![p] = r]
    BY <1>4 DEF Given, IInv, QueueTypes
  <2> QED
    BY <2>1, <2>2, <2>3
<1>6. m.payload
  BY DEF is_awaiting_buffer
<1>7. \A j, l \in DOMAIN incoming[p] : incoming[p][j].id = incoming[p][l].id => j = l
  <2>1. Numbering(exch, Out(p), in_transit[p], incoming[p], peer_received[p])
    BY <1>1 DEF PeerInv
  <2> QED
    BY <1>1, <2>1, IncomingNumbers
<1> HIDE DEF g, r
<1>8. /\ Buffers(r, num_awaiting_buffer[p] - 1) /\ m.id \in Waiting(incoming[p])
      /\ Waiting(r) = Waiting(incoming[p]) \ {m.id}
  <2>1. Buffers(incoming[p], num_awaiting_buffer[p])
    BY <1>1 DEF PeerInv
  <2>2. r[i].id = incoming[p][i].id /\ r[i].buffer /\ r[i].payload
    BY <1>3, <1>5, <1>6
  <2> DEFINE q == incoming[p]
             n == num_awaiting_buffer[p]
  <2>3. /\ q \in Seq(MsgRecord) /\ Buffers(q, n)
        /\ \A j, l \in DOMAIN q : q[j].id = q[l].id => j = l
        /\ i \in DOMAIN q /\ is_awaiting_buffer(q[i])
        /\ \A j \in DOMAIN q : j < i => ~ is_awaiting_buffer(q[j])
        /\ r \in Seq(MsgRecord) /\ DOMAIN r = DOMAIN q
        /\ \A j \in DOMAIN q : j # i => r[j] = q[j]
        /\ r[i].id = q[i].id /\ r[i].buffer /\ r[i].payload
    BY <1>1, <1>5, <1>7, <2>1, <2>2
  <2> HIDE DEF q, n
  <2>4. Buffers(r, n - 1) /\ q[i].id \in Waiting(q) /\ Waiting(r) = Waiting(q) \ {q[i].id}
    BY <2>3, BuffersGiven
  <2> QED
    BY <2>4 DEF q, n
<1> HIDE DEF m
<1>9. incoming'[p] = r /\ num_awaiting_buffer'[p] = num_awaiting_buffer[p] - 1
  BY <1>4, <1>5 DEF IInv, Types, QueueTypes
<1>10. Types'
  <2>1. num_awaiting_buffer' \in [Peer -> Int]
    BY <1>4 DEF IInv, Types
  <2>2. stalled' \in BOOLEAN
    BY <1>4
  <2> QED
    BY <2>1, <2>2 DEF IInv, Types, peerVars, termVars
<1>11. QueueTypes'
  BY <1>5 DEF IInv, QueueTypes
<1>12. PeerInv(p)'
  <2>1. Position(p)' = Position(p) /\ PeerAt(p)' = PeerAt(p) /\ Out(p)' = Out(p)
    BY DEF Position, PeerAt, Out, peerVars, termVars
  <2>2. Numbering(exch, Out(p), in_transit[p], r, peer_received[p])
    <3>1. \A j \in 1 .. Len(incoming[p]) :
             r[j].exch = incoming[p][j].exch /\ r[j].id = incoming[p][j].id
      BY <1>1, <1>3, <1>5, SMTT(30) DEF m
    <3> QED
      BY <1>1, <1>5, <3>1, NumberingKept DEF PeerInv
  <2>3. Payloads(data[p], r, meta[p])
    <3>1. \A j \in DOMAIN incoming[p] : KeysOf(r[j]) = KeysOf(incoming[p][j])
      BY <1>3, <1>5 DEF m
    <3> QED
      BY <1>1, <1>5, <3>1, PayloadSame DEF PeerInv
  <2> QED
    BY <1>1, <1>8, <1>9, <2>1, <2>2, <2>3 DEF PeerInv, termVars
<1>13. ASSUME NEW q \in Peer, q # p PROVE PeerInv(q)'
  <2>1. PeerState(q)' = PeerState(q)
    BY <1>4, <1>5, <1>13 DEF PeerState, IInv, Types, QueueTypes, peerVars, termVars
  <2> QED
    BY <2>1, PeerKept DEF IInv
<1>14. RankInv'
  <2>1. \A q \in Peer : q # p => incoming[q] = incoming'[q]
    BY <1>5 DEF IInv, QueueTypes
  <2>2. incoming \in [Peer -> Seq(MsgRecord)] /\ incoming' \in [Peer -> Seq(MsgRecord)]
    BY <1>11 DEF IInv, QueueTypes
  <2>3. Waiting(incoming[p]) = Waiting(incoming'[p]) \cup {m.id} /\ m.id \notin Waiting(incoming'[p])
    BY <1>8, <1>9
  <2>4. Cardinality(AllWaiting(incoming)) = Cardinality(AllWaiting(incoming')) + 1
    BY <2>1, <2>2, <2>3, WaitingGrows
  <2>5. Cardinality(AllWaiting(incoming')) \in Nat
    BY <2>2, WaitingCount
  <2>6. total_awaiting_buffer' = Cardinality(AllWaiting(incoming'))
    BY <1>4, <2>4, <2>5 DEF IInv, RankInv
  <2>7. stalled' <=> total_awaiting_buffer' > 0
    BY <1>4
  <2> QED
    BY <2>6, <2>7 DEF IInv, RankInv, termVars
<1> QED
  BY <1>10, <1>11, <1>12, <1>13, <1>14 DEF IInv

\* It is given in setup_data_receives().
LEMMA SetupAllocateInv ==
  ASSUME IInv, NEW p \in Peer, setup_allocate(p)
  PROVE  IInv'
<1>1. incoming[p] \in Seq(MsgRecord) /\ incoming[p] # <<>>
  BY PeerTypes DEF setup_allocate
<1>2. 1 \in DOMAIN incoming[p] /\ is_awaiting_buffer(incoming[p][1])
  BY <1>1, HeadAndTail DEF setup_allocate
<1>3. \A j \in DOMAIN incoming[p] : j < 1 => ~ is_awaiting_buffer(incoming[p][j])
  BY <1>1
<1>4. /\ attach(p, 1, FALSE) /\ pc' = "setup" /\ todo' = todo
      /\ UNCHANGED <<peerVars, meta, data, exch, in_transit, done, stale, received, delivered,
                     termVars, next_arrival, finished, fire, fault>>
  BY DEF setup_allocate
<1>5. todo' \subseteq Peer
  BY <1>4 DEF IInv, Types
<1> QED
  BY <1>2, <1>3, <1>4, <1>5, AttachInv

\* The first message of a peer that waits.
LEMMA FirstAwaitingIs ==
  ASSUME IInv, NEW p \in Peer
  PROVE  /\ FirstAwaiting(p) # 0 =>
              /\ FirstAwaiting(p) \in DOMAIN incoming[p]
              /\ is_awaiting_buffer(incoming[p][FirstAwaiting(p)])
              /\ \A j \in DOMAIN incoming[p] :
                    j < FirstAwaiting(p) => ~ is_awaiting_buffer(incoming[p][j])
         /\ Waiting(incoming[p]) # {} => FirstAwaiting(p) # 0
<1> DEFINE I == {i \in DOMAIN incoming[p] : is_awaiting_buffer(incoming[p][i])}
<1>1. incoming[p] \in Seq(MsgRecord)
  BY PeerTypes
<1>2. I \in SUBSET Nat /\ 0 \notin I
  BY <1>1
<1>3. FirstAwaiting(p) = IF I = {} THEN 0 ELSE Min(I)
  BY DEF FirstAwaiting
<1>4. \A i : i \in I <=> i \in DOMAIN incoming[p] /\ is_awaiting_buffer(incoming[p][i])
  OBVIOUS
<1>5. Waiting(incoming[p]) # {} => I # {}
  BY DEF Waiting, Range
<1> HIDE DEF I
<1>6. ASSUME I # {}
      PROVE  Min(I) \in I /\ Min(I) # 0 /\ \A j \in DOMAIN incoming[p] : j < Min(I) => j \notin I
  <2>1. Min(I) \in I /\ \A y \in I : Min(I) <= y
    BY <1>2, <1>6, MinIsLeast
  <2>2. ASSUME NEW j \in DOMAIN incoming[p], j < Min(I), j \in I PROVE FALSE
    <3>1. j \in Nat /\ Min(I) \in Nat /\ Min(I) <= j
      BY <1>2, <2>1, <2>2
    <3> QED
      BY <2>2, <3>1
  <2> QED
    BY <1>2, <2>1, <2>2
<1> QED
  BY <1>3, <1>4, <1>5, <1>6

\* While the stall timer runs, there is an oldest waiting message: the check in
\* force_allocation_progress_if_stalled() cannot throw.
LEMMA OldestExists ==
  ASSUME IInv, stalled
  PROVE  \E p \in Peer : oldest(p)
<1> DEFINE A == {p \in Peer : FirstAwaiting(p) # 0}
           age(p) == incoming[p][FirstAwaiting(p)].arrival
           Ages == {age(p) : p \in A}
<1>1. A # {}
  <2>1. Cardinality(AllWaiting(incoming)) > 0
    BY DEF IInv, RankInv
  <2>2. incoming \in [Peer -> Seq(MsgRecord)]
    BY DEF IInv, QueueTypes
  <2>3. PICK p \in Peer : Waiting(incoming[p]) # {}
    BY <2>1, <2>2, WaitingCount
  <2> QED
    BY <2>3, FirstAwaitingIs
<1>2. ASSUME NEW p \in A PROVE age(p) \in Nat
  <2>1. FirstAwaiting(p) \in DOMAIN incoming[p] /\ incoming[p] \in Seq(MsgRecord)
    BY FirstAwaitingIs, PeerTypes
  <2>2. incoming[p][FirstAwaiting(p)] \in MsgRecord
    BY <2>1
  <2> QED
    BY <2>2, MsgNumbers
<1>3. \A p \in Peer : p \in A <=> FirstAwaiting(p) # 0
  OBVIOUS
<1>4. \A p \in A : p \in Peer
  OBVIOUS
<1> HIDE DEF A
<1>5. PICK a \in Ages : \A b \in Ages : a <= b
  <2>1. Ages \in SUBSET Nat /\ Ages # {}
    BY <1>1, <1>2
  <2> HIDE DEF Ages
  <2> QED
    BY <2>1, LeastNatural
<1>6. PICK p \in A : a = age(p)
  OBVIOUS
<1>7. \A q \in A : age(p) <= age(q)
  BY <1>5, <1>6
<1>8. oldest(p)
  BY <1>3, <1>4, <1>7 DEF oldest
<1> QED
  BY <1>4, <1>8

LEMMA ForceAllocationInv ==
  ASSUME IInv, NEW forced \in BOOLEAN, force_allocation(forced)
  PROVE  IInv'
<1>1. \E p \in Peer : oldest(p)
  BY OldestExists DEF force_allocation
<1>2. PICK p \in Peer : oldest(p) /\ attach(p, FirstAwaiting(p), forced) /\ fault' = fault
  BY <1>1 DEF force_allocation
<1>3. /\ pc' = "setup" /\ todo' = {q \in Peer : incoming[q] # <<>>}
      /\ UNCHANGED <<peerVars, meta, data, exch, in_transit, done, stale, received, delivered,
                     termVars, next_arrival, finished, fire>>
  BY DEF force_allocation, AfterForce, Goto
<1>4. FirstAwaiting(p) # 0
  BY <1>2 DEF oldest
<1>5. todo' \subseteq Peer
  BY <1>3
<1> DEFINE i == FirstAwaiting(p)
<1>6. /\ i \in DOMAIN incoming[p] /\ is_awaiting_buffer(incoming[p][i])
      /\ \A j \in DOMAIN incoming[p] : j < i => ~ is_awaiting_buffer(incoming[p][j])
      /\ attach(p, i, forced)
  BY <1>2, <1>4, FirstAwaitingIs
<1> HIDE DEF i
<1> QED
  BY <1>2, <1>3, <1>5, <1>6, AttachInv

\* Appending to the second part of a sequence.
LEMMA ConcatAppend ==
  ASSUME NEW S, NEW a \in Seq(S), NEW b \in Seq(S), NEW e \in S
  PROVE  a \o Append(b, e) = Append(a \o b, e)
<1>1. <<e>> \in Seq(S) /\ a \o b \in Seq(S)
  BY ConcatProperties
<1>2. Append(b, e) = b \o <<e>> /\ Append(a \o b, e) = (a \o b) \o <<e>>
  BY <1>1, AppendIsConcat
<1>3. (a \o b) \o <<e>> = a \o (b \o <<e>>)
  BY <1>1, ConcatAssociative
<1> QED
  BY <1>2, <1>3

\* The first incoming message leaves: what stays the same of the rank.
LEMMA LeaveRankInv ==
  ASSUME IInv, NEW p \in Peer, incoming[p] # <<>>, ~ is_awaiting_buffer(Head(incoming[p])),
         incoming' = [incoming EXCEPT ![p] = Tail(@)], pc' = "setup", ~ fault',
         UNCHANGED <<termVars, waitVars, next_arrival>>
  PROVE  /\ incoming' \in [Peer -> Seq(MsgRecord)] /\ incoming'[p] = Tail(incoming[p])
         /\ Buffers(Tail(incoming[p]), num_awaiting_buffer[p])
         /\ RankInv'
<1>1. incoming \in [Peer -> Seq(MsgRecord)] /\ Buffers(incoming[p], num_awaiting_buffer[p])
  BY DEF IInv, QueueTypes, PeerInv
<1>2. /\ incoming[p] \in Seq(MsgRecord) /\ incoming'[p] = Tail(incoming[p])
      /\ \A q \in Peer : q # p => incoming'[q] = incoming[q]
  BY <1>1
<1>3. Buffers(Tail(incoming[p]), num_awaiting_buffer[p]) /\ Waiting(Tail(incoming[p])) = Waiting(incoming[p])
  BY <1>1, <1>2, BuffersLeave
<1>4. incoming' \in [Peer -> Seq(MsgRecord)]
  <2>1. Tail(incoming[p]) \in Seq(MsgRecord)
    BY <1>2, HeadAndTail
  <2> QED
    BY <1>1, <2>1
<1>5. Waiting(incoming'[p]) = Waiting(incoming[p])
  BY <1>2, <1>3
<1>6. Cardinality(AllWaiting(incoming')) = Cardinality(AllWaiting(incoming))
  BY <1>1, <1>2, <1>4, <1>5, WaitingGrows
<1>7. RankInv'
  BY <1>6 DEF IInv, RankInv, termVars, waitVars
<1> QED
  BY <1>2, <1>3, <1>4, <1>7

LEMMA SetupMetadataOnlyInv ==
  ASSUME IInv, NEW p \in Peer, setup_metadata_only(p)
  PROVE  IInv'
<1> DEFINE m == Head(incoming[p])
<1>1. /\ PeerInv(p) /\ exch \in Nat /\ meta[p] \in Seq(Metadata)
      /\ incoming[p] \in Seq(MsgRecord) /\ in_transit[p] \in Seq(MsgRecord)
      /\ received[p] \in Seq(MsgRecord) /\ delivered[p] \in Seq(MsgRecord)
      /\ Out(p) \in Seq(MsgRecord)
  BY PeerTypes
<1>2. /\ incoming[p] # <<>> /\ ~ m.payload /\ in_transit[p] = <<>> /\ pc' = "setup"
      /\ received' = [received EXCEPT ![p] = Append(@, m)]
      /\ incoming' = [incoming EXCEPT ![p] = Tail(@)]
      /\ UNCHANGED <<peerVars, meta, data, exch, pc, todo, in_transit, done, stale, delivered,
                     termVars, waitVars, next_arrival, finished, fire, fault>>
  BY DEF setup_metadata_only
<1>3. m \in MsgRecord /\ Append(received[p], m) \in Seq(MsgRecord)
  BY <1>1, <1>2, HeadAndTail
<1>4. ~ is_awaiting_buffer(m)
  BY <1>2 DEF is_awaiting_buffer
<1>5. /\ incoming' \in [Peer -> Seq(MsgRecord)] /\ incoming'[p] = Tail(incoming[p])
      /\ Buffers(Tail(incoming[p]), num_awaiting_buffer[p])
      /\ RankInv'
  <2>1. ~ fault'
    BY <1>2 DEF IInv, RankInv
  <2> QED
    BY <1>2, <1>4, <2>1, LeaveRankInv
<1> HIDE DEF m
<1>6. Types'
  BY <1>2 DEF IInv, Types, peerVars, termVars, waitVars
<1>7. QueueTypes'
  BY <1>2, <1>3, <1>5 DEF IInv, QueueTypes
<1>8. PeerInv(p)'
  <2>1. Position(p)' = Position(p) /\ PeerAt(p)' = PeerAt(p)
    BY <1>2 DEF Position, PeerAt, peerVars, termVars
  <2>2. Out(p)' = Append(Out(p), m)
    <3>1. received'[p] = Append(received[p], m)
      BY <1>2 DEF IInv, QueueTypes
    <3> DEFINE a == delivered[p]
               b == received[p]
    <3>2. a \in Seq(MsgRecord) /\ b \in Seq(MsgRecord)
      BY <1>1
    <3>3. Out(p) = a \o b /\ Out(p)' = a \o Append(b, m)
      BY <1>2, <3>1 DEF Out
    <3> HIDE DEF a, b
    <3>4. a \o Append(b, m) = Append(a \o b, m)
      BY <1>3, <3>2, ConcatAppend
    <3> QED
      BY <3>3, <3>4
  <2>3. Numbering(exch, Append(Out(p), m), in_transit[p], Tail(incoming[p]), peer_received[p])
    <3>1. Numbering(exch, Out(p), in_transit[p], incoming[p], peer_received[p])
      BY <1>1 DEF PeerInv
    <3>2. m.exch = Head(incoming[p]).exch /\ m.id = Head(incoming[p]).id
      BY DEF m
    <3> QED
      BY <1>1, <1>2, <1>3, <3>1, <3>2, NumberingMoves
  <2>4. Payloads(data[p], Tail(incoming[p]), meta[p])
    <3>1. Payloads(data[p], incoming[p], meta[p])
      BY <1>1 DEF PeerInv
    <3> QED
      BY <1>1, <1>2, <3>1, PayloadKept DEF m
  <2>5. Matched(Append(Out(p), m), in_transit[p])
    BY <1>1, <1>2, <1>3, MatchedMoves DEF PeerInv
  <2> QED
    BY <1>1, <1>2, <1>5, <2>1, <2>2, <2>3, <2>4, <2>5 DEF PeerInv, termVars, waitVars
<1>9. ASSUME NEW q \in Peer, q # p PROVE PeerInv(q)'
  <2>1. PeerState(q)' = PeerState(q)
    BY <1>2, <1>9 DEF PeerState, IInv, Types, QueueTypes, peerVars, termVars, waitVars
  <2> QED
    BY <1>2, <2>1, PeerKept DEF IInv
<1> QED
  BY <1>5, <1>6, <1>7, <1>8, <1>9 DEF IInv

\* A message whose receive is posted.
Posted(m, key) == [m EXCEPT !.got = key]

LEMMA PostedFields ==
  ASSUME NEW m \in MsgRecord, NEW key \in Spots
  PROVE  /\ Posted(m, key) \in MsgRecord
         /\ Posted(m, key).exch = m.exch /\ Posted(m, key).id = m.id
         /\ Posted(m, key).got = key /\ Key(Posted(m, key)) = Key(m)
<1>1. Posted(m, key) \in MsgRecord
  BY DEF MsgRecord, Posted, Spots
<1>2. Posted(m, key).exch = m.exch /\ Posted(m, key).id = m.id /\ Posted(m, key).got = key
  BY Zenon DEF MsgRecord, Posted
<1> QED
  BY <1>1, <1>2 DEF Key

LEMMA SetupReceiveInv ==
  ASSUME IInv, NEW p \in Peer, setup_receive(p)
  PROVE  IInv'
<1> DEFINE h == Head(incoming[p])
           m == Posted(h, Head(data[p]))
<1>1. /\ PeerInv(p) /\ exch \in Nat /\ meta[p] \in Seq(Metadata) /\ data[p] \in Seq(Spots)
      /\ incoming[p] \in Seq(MsgRecord) /\ in_transit[p] \in Seq(MsgRecord)
      /\ Out(p) \in Seq(MsgRecord) /\ Position(p) \in Spots /\ PeerAt(p) \in Spots
      /\ peer_received[p] \in Nat
  BY PeerTypes
<1>2. /\ incoming[p] # <<>> /\ h.buffer /\ data[p] # <<>> /\ pc' = "setup"
      /\ fault' = (fault \/ m.id \in Range(ids(in_transit[p])))
      /\ in_transit' = [in_transit EXCEPT ![p] = Append(@, m)]
      /\ data' = [data EXCEPT ![p] = Tail(@)]
      /\ incoming' = [incoming EXCEPT ![p] = Tail(@)]
      /\ todo' = todo \ {p}
      /\ UNCHANGED <<peerVars, meta, exch, pc, done, stale, received, delivered, termVars,
                     waitVars, next_arrival, finished, fire>>
  BY DEF setup_receive, Posted
<1>3. /\ Numbering(exch, Out(p), in_transit[p], incoming[p], peer_received[p])
      /\ Stream(meta[p], Position(p), PeerAt(p))
      /\ Payloads(data[p], incoming[p], meta[p])
      /\ Matched(Out(p), in_transit[p])
      /\ Buffers(incoming[p], num_awaiting_buffer[p])
  BY <1>1 DEF PeerInv
<1>4. h \in MsgRecord /\ h = incoming[p][1] /\ 1 \in DOMAIN incoming[p]
      /\ Head(data[p]) \in Spots /\ Tail(data[p]) \in Seq(Spots)
  <2>1. h \in MsgRecord /\ h = incoming[p][1] /\ 1 \in DOMAIN incoming[p]
    BY <1>1, <1>2, HeadAndTail
  <2>2. Head(data[p]) \in Spots /\ Tail(data[p]) \in Seq(Spots)
    BY <1>1, <1>2, HeadAndTail
  <2> QED
    BY <2>1, <2>2
<1>5. h.payload /\ ~ is_awaiting_buffer(h)
  <2>1. h.payload
    BY <1>2, <1>3, <1>4 DEF Buffers
  <2> QED
    BY <1>2, <2>1 DEF is_awaiting_buffer
<1>6. /\ m \in MsgRecord /\ m.exch = h.exch /\ m.id = h.id
      /\ m.got = Head(data[p]) /\ Key(m) = Key(h)
  <2> HIDE DEF h
  <2> QED
    BY <1>4, PostedFields
<1>7. Head(data[p]) = Key(h) /\ Payloads(Tail(data[p]), Tail(incoming[p]), meta[p])
  <2>1. \A e \in Range(Tail(incoming[p])) : Less(Key(h), Key(e))
    BY <1>1, <1>2, <1>3, IncomingNumbers
  <2>2. AtMost(Key(h), Position(p))
    <3>1. h \in Range(incoming[p])
      BY <1>4 DEF Range
    <3> QED
      BY <3>1, ArrivedBefore
  <2> QED
    BY <1>1, <1>2, <1>3, <1>5, <2>1, <2>2, PayloadTaken
<1>8. /\ Numbering(exch, Out(p), Append(in_transit[p], m), Tail(incoming[p]), peer_received[p])
      /\ \A i \in DOMAIN in_transit[p] : in_transit[p][i].id # m.id
  <2> DEFINE o == Out(p)
             t == in_transit[p]
             q == incoming[p]
             n == peer_received[p]
  <2>1. /\ o \in Seq(MsgRecord) /\ t \in Seq(MsgRecord) /\ q \in Seq(MsgRecord)
        /\ Numbering(exch, o, t, q, n) /\ q # <<>>
        /\ m \in MsgRecord /\ m.exch = Head(q).exch /\ m.id = Head(q).id
    BY <1>1, <1>2, <1>3, <1>6
  <2> HIDE DEF m, o, t, q, n
  <2>2. Numbering(exch, o, Append(t, m), Tail(q), n) /\ \A i \in DOMAIN t : t[i].id # m.id
    BY <1>1, <2>1, NumberingMoves
  <2> QED
    BY <2>2 DEF o, t, q, n
<1>9. ~ fault'
  <2>1. m.id \notin Range(ids(in_transit[p]))
    BY <1>8 DEF ids, Range
  <2>2. ~ fault
    BY DEF IInv, RankInv
  <2> QED
    BY <1>2, <2>1, <2>2
<1>10. /\ incoming' \in [Peer -> Seq(MsgRecord)] /\ incoming'[p] = Tail(incoming[p])
       /\ Buffers(Tail(incoming[p]), num_awaiting_buffer[p])
       /\ RankInv'
  BY <1>2, <1>5, <1>9, LeaveRankInv
<1>11. fault' \in BOOLEAN
  BY <1>2
<1> HIDE DEF m, h
<1>12. in_transit'[p] = Append(in_transit[p], m) /\ data'[p] = Tail(data[p])
  BY <1>2 DEF IInv, QueueTypes
<1>13. Types'
  BY <1>2, <1>11 DEF IInv, Types, peerVars, termVars, waitVars
<1>14. QueueTypes'
  <2>1. Append(in_transit[p], m) \in Seq(MsgRecord)
    BY <1>1, <1>6
  <2> QED
    BY <1>2, <1>4, <1>10, <2>1 DEF IInv, QueueTypes
<1>15. PeerInv(p)'
  <2>1. Position(p)' = Position(p) /\ PeerAt(p)' = PeerAt(p) /\ Out(p)' = Out(p)
    BY <1>2 DEF Position, PeerAt, Out, peerVars, termVars
  <2>2. Matched(Out(p), Append(in_transit[p], m))
    <3>1. m.got = Key(m)
      BY <1>6, <1>7
    <3> QED
      BY <1>1, <1>3, <1>6, <3>1, MatchedMoves
  <2> QED
    BY <1>1, <1>2, <1>7, <1>8, <1>10, <1>12, <2>1, <2>2 DEF PeerInv, termVars, waitVars
<1>16. ASSUME NEW q \in Peer, q # p PROVE PeerInv(q)'
  <2>1. PeerState(q)' = PeerState(q)
    BY <1>2, <1>16 DEF PeerState, IInv, Types, QueueTypes, peerVars, termVars, waitVars
  <2> QED
    BY <1>2, <2>1, PeerKept DEF IInv
<1> QED
  BY <1>10, <1>13, <1>14, <1>15, <1>16 DEF IInv

\* How many messages in transit are handed out.
LEMMA CompletePrefixIs ==
  ASSUME NEW p, NEW reported, in_transit[p] \in Seq(MsgRecord)
  PROVE  CompletePrefix(p, reported) \in 0 .. Len(in_transit[p])
<1> DEFINE n == Len(in_transit[p])
           S == {k \in 0 .. n : \A i \in 1 .. k : in_transit[p][i].id \in reported[p]}
<1>1. n \in Nat
  OBVIOUS
<1>2. S \in SUBSET Nat /\ S \subseteq 0 .. n /\ 0 \in S
  BY <1>1
<1>3. \A x \in S : x <= n
  BY <1>1
<1>4. CompletePrefix(p, reported) = Max(S)
  BY DEF CompletePrefix
<1> HIDE DEF S, n
<1>5. Max(S) \in S
  BY <1>1, <1>2, <1>3, MaxIsGreatest
<1> QED
  BY <1>2, <1>4, <1>5 DEF n

LEMMA CompleteDataTransfersInv ==
  ASSUME IInv, NEW reported \in [Peer -> SUBSET (1 .. MaxId)], complete_data_transfers(reported)
  PROVE  IInv'
<1> DEFINE k(p) == CompletePrefix(p, reported)
           ended(p) == {in_transit[p][i].id : i \in 1 .. k(p)}
           first(p) == SubSeq(in_transit[p], 1, k(p))
           rest(p) == SubSeq(in_transit[p], k(p) + 1, Len(in_transit[p]))
<1>1. /\ pc' = "cleanup" /\ todo' = {} /\ test_some(reported)
      /\ received' = [p \in Peer |-> received[p] \o first(p)]
      /\ in_transit' = [p \in Peer |-> rest(p)]
      /\ done' = [p \in Peer |-> done[p] \ ended(p)]
      /\ stale' = [p \in Peer |-> IF ReportsOnce THEN (stale[p] \cup reported[p]) \ ended(p)
                                  ELSE {}]
      /\ UNCHANGED <<peerVars, meta, data, exch, incoming, delivered, termVars, waitVars,
                     next_arrival, finished, fire, fault>>
  BY DEF complete_data_transfers, Goto
<1> HIDE DEF ended
<1>2. ASSUME NEW p \in Peer
      PROVE  /\ PeerInv(p) /\ exch \in Nat /\ incoming[p] \in Seq(MsgRecord)
             /\ in_transit[p] \in Seq(MsgRecord) /\ received[p] \in Seq(MsgRecord)
             /\ delivered[p] \in Seq(MsgRecord) /\ Out(p) \in Seq(MsgRecord)
             /\ k(p) \in 0 .. Len(in_transit[p])
             /\ first(p) \in Seq(MsgRecord) /\ rest(p) \in Seq(MsgRecord)
             /\ received[p] \o first(p) \in Seq(MsgRecord)
  <2>1. /\ PeerInv(p) /\ exch \in Nat /\ incoming[p] \in Seq(MsgRecord)
        /\ in_transit[p] \in Seq(MsgRecord) /\ received[p] \in Seq(MsgRecord)
        /\ delivered[p] \in Seq(MsgRecord) /\ Out(p) \in Seq(MsgRecord)
    BY PeerTypes
  <2>2. k(p) \in 0 .. Len(in_transit[p])
    BY <2>1, CompletePrefixIs
  <2> HIDE DEF k
  <2>3. first(p) \in Seq(MsgRecord) /\ rest(p) \in Seq(MsgRecord)
    BY <2>1, <2>2, SplitProperties
  <2> HIDE DEF first, rest
  <2>4. received[p] \o first(p) \in Seq(MsgRecord)
    BY <2>1, <2>3, ConcatProperties
  <2> QED
    BY <2>1, <2>2, <2>3, <2>4
<1>3. Types'
  <2>1. ASSUME NEW p \in Peer
        PROVE  done'[p] \subseteq done[p] /\ stale'[p] \subseteq done'[p]
    <3>1. done[p] \in SUBSET (1 .. MaxId) /\ stale[p] \subseteq done[p]
      BY DEF IInv, Types
    <3>2. CASE ReportsOnce
      <4>1. reported[p] \subseteq done[p]
        BY <1>1, <3>2 DEF test_some
      <4>2. stale'[p] = (stale[p] \cup reported[p]) \ ended(p) /\ done'[p] = done[p] \ ended(p)
        BY <1>1, <3>2
      <4> QED
        BY <3>1, <4>1, <4>2
    <3>3. CASE ~ ReportsOnce
      <4>1. stale'[p] = {} /\ done'[p] = done[p] \ ended(p)
        BY <1>1, <3>3
      <4> QED
        BY <4>1
    <3> QED
      BY <3>2, <3>3
  <2>2. /\ done' \in [Peer -> SUBSET (1 .. MaxId)] /\ stale' \in [Peer -> SUBSET (1 .. MaxId)]
        /\ \A p \in Peer : stale'[p] \subseteq done'[p]
    <3>1. \A p \in Peer : done[p] \in SUBSET (1 .. MaxId)
      BY DEF IInv, Types
    <3>2. \A p \in Peer : done'[p] \in SUBSET (1 .. MaxId) /\ stale'[p] \in SUBSET (1 .. MaxId)
      BY <2>1, <3>1
    <3>3. DOMAIN done' = Peer /\ DOMAIN stale' = Peer
      BY <1>1
    <3>4. done' = [p \in Peer |-> done'[p]] /\ stale' = [p \in Peer |-> stale'[p]]
      BY <1>1
    <3> QED
      BY <2>1, <3>2, <3>4
  <2> QED
    BY <1>1, <2>2 DEF IInv, Types, peerVars, termVars, waitVars
<1>4. QueueTypes'
  <2> HIDE DEF first, rest
  <2>1. received' \in [Peer -> Seq(MsgRecord)] /\ in_transit' \in [Peer -> Seq(MsgRecord)]
    BY <1>1, <1>2
  <2> QED
    BY <1>1, <2>1 DEF IInv, QueueTypes
<1>5. ASSUME NEW p \in Peer PROVE PeerInv(p)'
  <2>1. Position(p)' = Position(p) /\ PeerAt(p)' = PeerAt(p)
    BY <1>1 DEF Position, PeerAt, peerVars, termVars
  <2>2. Out(p)' = Out(p) \o first(p)
    <3> DEFINE a == delivered[p]
               b == received[p]
               c == first(p)
    <3>1. Out(p)' = a \o (b \o c) /\ Out(p) = a \o b
      BY <1>1 DEF Out
    <3>2. a \in Seq(MsgRecord) /\ b \in Seq(MsgRecord) /\ c \in Seq(MsgRecord)
      BY <1>2
    <3> HIDE DEF a, b, c
    <3>3. (a \o b) \o c = a \o (b \o c)
      BY <3>2, ConcatAssociative, SMTT(30)
    <3>4. Out(p)' = Out(p) \o c
      BY <3>1, <3>3
    <3> QED
      BY <3>4 DEF c
  <2>3. in_transit'[p] = rest(p)
    BY <1>1
  <2> DEFINE o == Out(p)
             t == in_transit[p]
             q == incoming[p]
             n == peer_received[p]
             j == k(p)
  <2>4. /\ o \in Seq(MsgRecord) /\ t \in Seq(MsgRecord) /\ q \in Seq(MsgRecord)
        /\ exch \in Nat /\ j \in 0 .. Len(t)
        /\ Numbering(exch, o, t, q, n) /\ Matched(o, t)
    BY <1>2 DEF PeerInv
  <2> HIDE DEF o, t, q, n, j, k
  <2>5. Numbering(exch, o \o SubSeq(t, 1, j), SubSeq(t, j + 1, Len(t)), q, n)
    BY <2>4, NumberingCompletes
  <2>6. Matched(o \o SubSeq(t, 1, j), SubSeq(t, j + 1, Len(t)))
    BY <2>4, MatchedCompletes
  <2>7. /\ Numbering(exch, Out(p) \o first(p), rest(p), incoming[p], peer_received[p])
        /\ Matched(Out(p) \o first(p), rest(p))
    BY <2>5, <2>6 DEF o, t, q, n, j
  <2> HIDE DEF first, rest
  <2> QED
    BY <1>1, <1>2, <2>1, <2>2, <2>3, <2>7 DEF PeerInv, termVars, waitVars
<1>6. RankInv'
  BY <1>1 DEF IInv, RankInv, termVars, waitVars
<1> QED
  BY <1>3, <1>4, <1>5, <1>6 DEF IInv

\* Nothing has arrived of an exchange that begins.
LEMMA NothingArrived ==
  Cardinality(AllArrived([p \in Peer |-> 0])) = 0
<1>1. AllArrived([p \in Peer |-> 0]) = {}
  BY DEF AllArrived, Pairs
<1> QED
  BY <1>1, FS_EmptySet

LEMMA NextExchangeInv ==
  ASSUME IInv, next_exchange
  PROVE  IInv'
<1>1. /\ pc = "out" /\ exch < MaxExchanges /\ finished /\ is_idle
      /\ exch' = exch + 1
      /\ delivered' = [p \in Peer |-> <<>>]
      /\ peer_received' = [p \in Peer |-> 0]
      /\ peer_expected' = [p \in Peer |-> 0]
      /\ peer_terminated' = [p \in Peer |-> FALSE]
      /\ next_arrival' = 0
      /\ finished' = FALSE
      /\ UNCHANGED <<peerVars, meta, data, pc, todo, incoming, in_transit, done, stale,
                     received, waitVars, fire, fault>>
  BY DEF next_exchange
<1>2. Types'
  <2>1. exch' \in 1 .. MaxExchanges
    BY <1>1, MaxExchangesAssumption DEF IInv, Types
  <2>2. 0 \in 0 .. MaxId
    BY MaxIdBound
  <2> QED
    BY <1>1, <2>1, <2>2 DEF IInv, Types, peerVars, waitVars
<1>3. QueueTypes'
  <2>1. delivered' \in [Peer -> Seq(MsgRecord)]
    BY <1>1
  <2> QED
    BY <1>1, <2>1 DEF IInv, QueueTypes
<1>4. ASSUME NEW p \in Peer PROVE PeerInv(p)'
  <2>1. incoming[p] = <<>> /\ in_transit[p] = <<>> /\ peer_terminated[p]
    BY <1>1 DEF is_idle, FullyDone
  <2>2. received[p] = <<>>
    BY <1>1 DEF IInv, RankInv
  <2>3. Out(p)' = <<>>
    BY <1>1, <2>2 DEF Out
  <2>4. Position(p)' = Position(p) /\ PeerAt(p)' = PeerAt(p)
    BY <1>1, <2>1 DEF Position, PeerAt, peerVars
  <2>5. Numbering(exch', <<>>, <<>>, <<>>, 0) /\ Matched(<<>>, <<>>)
    BY DEF Numbering, Numbered, Matched
  <2>6. PeerInv(p)
    BY DEF IInv
  <2>7. ~ peer_terminated'[p] /\ peer_received'[p] = 0
    BY <1>1
  <2> QED
    BY <1>1, <2>1, <2>3, <2>4, <2>5, <2>6, <2>7 DEF PeerInv, waitVars
<1>5. RankInv'
  BY <1>1, NothingArrived DEF IInv, RankInv, waitVars
<1> QED
  BY <1>2, <1>3, <1>4, <1>5 DEF IInv

-----------------------------------------------------------------------------
(* The theorems. *)

LEMMA InitInv == Init => IInv
<1> SUFFICES ASSUME Init PROVE IInv
  OBVIOUS
<1>1. MaxId \in Nat /\ MaxExchanges \in Nat \ {0}
  BY MaxIdBound, MaxExchangesAssumption
<1>2. Types
  <2>1. 1 \in 1 .. MaxExchanges + 1 /\ 1 \in 1 .. MaxExchanges /\ 0 \in 0 .. MaxId
    BY <1>1
  <2>2. /\ pexch \in [Peer -> 1 .. MaxExchanges + 1] /\ messages_sent \in [Peer -> 0 .. MaxId]
        /\ exch \in 1 .. MaxExchanges /\ peer_received \in [Peer -> 0 .. MaxId]
        /\ peer_expected \in [Peer -> 0 .. MaxId] /\ num_awaiting_buffer \in [Peer -> Int]
    BY <2>1 DEF Init
  <2>3. /\ done \in [Peer -> SUBSET (1 .. MaxId)] /\ stale \in [Peer -> SUBSET (1 .. MaxId)]
        /\ \A p \in Peer : stale[p] \subseteq done[p]
    BY DEF Init
  <2>4. peer_terminated \in [Peer -> BOOLEAN] /\ {stalled, finished, fire, fault} \subseteq BOOLEAN
    BY DEF Init
  <2>5. pc \in {"out", "receive", "setup", "cleanup", "recv"} /\ todo \subseteq Peer
    BY DEF Init
  <2> QED
    BY <2>2, <2>3, <2>4, <2>5 DEF Types
<1>3. QueueTypes
  BY DEF Init, QueueTypes
<1>5. ASSUME NEW p \in Peer PROVE PeerInv(p)
  <2>1. /\ Out(p) = <<>> /\ in_transit[p] = <<>> /\ incoming[p] = <<>> /\ meta[p] = <<>>
        /\ data[p] = <<>> /\ peer_received[p] = 0 /\ num_awaiting_buffer[p] = 0
        /\ ~ peer_terminated[p] /\ Position(p) = <<1, 0>> /\ PeerAt(p) = <<1, 0>>
    BY DEF Init, Out, Position, PeerAt
  <2>2. Waiting(<<>>) = {} /\ PayloadKeys(<<>>) = {} /\ Range(<<>>) = {}
    BY DEF Waiting, PayloadKeys, Range
  <2>3. Numbering(exch, <<>>, <<>>, <<>>, 0) /\ Matched(<<>>, <<>>)
    BY DEF Numbering, Numbered, Matched
  <2>4. Stream(<<>>, <<1, 0>>, <<1, 0>>)
    BY DEF Stream
  <2>5. Payloads(<<>>, <<>>, <<>>)
    BY <2>2 DEF Payloads
  <2>6. Buffers(<<>>, 0)
    <3>1. 0 = Cardinality(Waiting(<<>>))
      BY <2>2, FS_EmptySet
    <3>2. DOMAIN <<>> = {}
      OBVIOUS
    <3> QED
      BY <3>1, <3>2 DEF Buffers
  <2> QED
    BY <2>1, <2>3, <2>4, <2>5, <2>6 DEF PeerInv
<1>6. RankInv
  <2>1. AllWaiting(incoming) = {}
    BY DEF AllWaiting, Pairs, Waiting, Range, Init
  <2>2. total_awaiting_buffer = Cardinality(AllWaiting(incoming)) /\ total_awaiting_buffer = 0
    BY <2>1, FS_EmptySet DEF Init
  <2>3. next_arrival = Cardinality(AllArrived(peer_received))
    BY NothingArrived DEF Init
  <2> QED
    BY <2>2, <2>3 DEF Init, RankInv
<1> QED
  BY <1>2, <1>3, <1>5, <1>6 DEF IInv

LEMMA NextInv == IInv /\ [Next]_vars => IInv'
<1> SUFFICES ASSUME IInv, [Next]_vars PROVE IInv'
  OBVIOUS
<1>1. CASE UNCHANGED vars
  <2>1. Types'
    BY <1>1 DEF IInv, Types, vars, peerVars, termVars, waitVars
  <2> QED
    BY <1>1, <2>1, ControlInv DEF vars
<1>2. ASSUME NEW p \in Peer, NEW payload \in BOOLEAN, peer_send(p, payload) PROVE IInv'
  BY <1>2, PeerSendInv
<1>3. ASSUME NEW p \in Peer, peer_finish(p) PROVE IInv'
  BY <1>3, PeerFinishInv
<1>4. ASSUME NEW p \in Peer, NEW id \in 1 .. MaxId, transfer_done(p, id) PROVE IInv'
  BY <1>4, ControlSteps
<1>5. CASE progress
  BY <1>5, ControlSteps
<1>6. ASSUME NEW p \in Peer, NEW attached \in BOOLEAN, receive_metadata(p, attached) PROVE IInv'
  BY <1>6, ReceiveMarkerInv, ReceiveMessageInv
<1>7. ASSUME NEW p \in Peer, receive_nothing(p) PROVE IInv'
  BY <1>7, ControlSteps
<1>8. CASE force_not_due
  BY <1>8, ControlSteps
<1>9. ASSUME NEW forced \in BOOLEAN, force_allocation(forced) PROVE IInv'
  BY <1>9, ForceAllocationInv
<1>10. ASSUME NEW p \in Peer, setup_metadata_only(p) PROVE IInv'
  BY <1>10, SetupMetadataOnlyInv
<1>11. ASSUME NEW p \in Peer, setup_allocate(p) PROVE IInv'
  BY <1>11, SetupAllocateInv
<1>12. ASSUME NEW p \in Peer, setup_receive(p) PROVE IInv'
  BY <1>12, SetupReceiveInv
<1>13. ASSUME NEW p \in Peer, setup_break(p) PROVE IInv'
  BY <1>13, ControlSteps
<1>14. ASSUME NEW reported \in [Peer -> SUBSET (1 .. MaxId)], complete_data_transfers(reported)
       PROVE  IInv'
  BY <1>14, CompleteDataTransfersInv
<1>15. ASSUME NEW sent \in BOOLEAN, cleanup_completed_operations(sent) PROVE IInv'
  BY <1>15, ControlSteps
<1>16. CASE recv
  BY <1>16, RecvInv
<1>17. CASE finish
  BY <1>17, ControlSteps
<1>18. CASE next_exchange
  BY <1>18, NextExchangeInv
<1>19. CASE ThreadStep
  BY <1>5, <1>6, <1>7, <1>8, <1>9, <1>10, <1>11, <1>12, <1>13, <1>14, <1>15, <1>16, <1>17,
     <1>18, <1>19 DEF ThreadStep
<1> QED
  BY <1>1, <1>2, <1>3, <1>4, <1>19 DEF Next

(***************************************************************************)
(* The inductive invariant of TagMetadataPayloadExchange: per peer the     *)
(* messages handed out, in transit and incoming are numbered one after the *)
(* other, the metadata on the wire continue where they end, the payloads   *)
(* on the wire are those of the messages that have not got theirs, in      *)
(* order, and the counts of waiting and arrived messages are exact.        *)
(***************************************************************************)
THEOREM TagExchangeInvariant == Spec => []IInv
<1>1. Init => IInv
  BY InitInv
<1>2. IInv /\ [Next]_vars => IInv'
  BY NextInv
<1> QED
  BY <1>1, <1>2, PTL DEF Spec

\* The messages that wait, as the properties name them.
LEMMA AwaitingIs ==
  /\ \A p \in Peer : Awaiting(p) = Waiting(incoming[p])
  /\ AllAwaiting = AllWaiting(incoming)
<1>1. \A p \in Peer : Awaiting(p) = Waiting(incoming[p])
  BY DEF Awaiting, Waiting
<1> QED
  BY <1>1 DEF AllAwaiting, AllWaiting, Pairs

LEMMA BookkeepingFollows == IInv => BookkeepingIsExact
<1> SUFFICES ASSUME IInv PROVE BookkeepingIsExact
  OBVIOUS
<1>1. ASSUME NEW p \in Peer
      PROVE  /\ num_awaiting_buffer[p] = Cardinality(Awaiting(p))
             /\ num_awaiting_buffer[p] \in 0 .. MaxId
             /\ \A i, j \in DOMAIN incoming[p] :
                   i < j /\ is_awaiting_buffer(incoming[p][i]) => ~ incoming[p][j].buffer
  <2>1. incoming[p] \in Seq(MsgRecord) /\ Buffers(incoming[p], num_awaiting_buffer[p])
    BY PeerTypes DEF PeerInv
  <2>2. num_awaiting_buffer[p] = Cardinality(Waiting(incoming[p]))
    BY <2>1 DEF Buffers
  <2>3. num_awaiting_buffer[p] \in 0 .. MaxId
    BY <2>1, <2>2, WaitingFinite, MaxIdBound
  <2> QED
    BY <2>1, <2>2, <2>3, AwaitingIs DEF Buffers
<1>2. total_awaiting_buffer = Cardinality(AllAwaiting) /\ total_awaiting_buffer \in 0 .. MaxArrivals
  BY WaitingCount, AwaitingIs DEF IInv, RankInv, QueueTypes
<1>3. next_arrival \in 0 .. MaxArrivals
  <2> DEFINE W == [q \in Peer |-> 1 .. peer_received[q]]
  <2>1. \A q \in Peer : W[q] \subseteq 1 .. MaxId
    BY MaxIdBound DEF IInv, Types
  <2>2. next_arrival = Cardinality(Pairs(W))
    BY DEF IInv, RankInv, AllArrived
  <2> HIDE DEF W
  <2> QED
    BY <2>1, <2>2, PairsFinite
<1>4. TypeOK
  <2>1. num_awaiting_buffer \in [Peer -> 0 .. MaxId]
    BY <1>1 DEF IInv, Types
  <2>2. \A p \in Peer : done[p] \subseteq 1 .. MaxId /\ stale[p] \subseteq done[p]
    BY DEF IInv, Types
  <2> QED
    BY <1>2, <1>3, <2>1, <2>2 DEF IInv, Types, TypeOK
<1>5. AwaitingExact
  BY <1>1, <1>2 DEF AwaitingExact, IInv, RankInv
<1>6. NoFault
  BY DEF NoFault, IInv, RankInv
<1> QED
  BY <1>4, <1>5, <1>6 DEF BookkeepingIsExact

(***************************************************************************)
(* Over refused, late and forced allocations the counts of waiting         *)
(* messages stay exact, the stall timer runs exactly while one waits, and  *)
(* neither the check for a duplicate id in setup_data_receives() nor the   *)
(* one in force_allocation_progress_if_stalled() throws.                   *)
(***************************************************************************)
THEOREM BookkeepingHolds == Spec => []BookkeepingIsExact
BY TagExchangeInvariant, BookkeepingFollows, PTL

LEMMA DeliveryFollows == IInv => DeliveryIsSound
<1> SUFFICES ASSUME IInv, NEW p \in Peer
             PROVE  /\ \A i \in DOMAIN Out(p) :
                          /\ Out(p)[i].id = i
                          /\ Out(p)[i].payload => Out(p)[i].got = <<exch, i>>
                    /\ \A m \in Range(incoming[p] \o in_transit[p] \o Out(p)) : m.exch = exch
  BY DEF DeliveryIsSound, InOrderWithPayload, NoCrossTalk
<1> DEFINE o == Out(p)
           t == in_transit[p]
           q == incoming[p]
<1>1. /\ o \in Seq(MsgRecord) /\ t \in Seq(MsgRecord) /\ q \in Seq(MsgRecord)
      /\ Numbering(exch, o, t, q, peer_received[p]) /\ Matched(o, t)
  BY PeerTypes DEF PeerInv
<1> HIDE DEF o, t, q
<1>2. ASSUME NEW i \in DOMAIN o
      PROVE  o[i].exch = exch /\ o[i].id = i /\ (o[i].payload => o[i].got = <<exch, i>>)
  <2>1. o[i].exch = exch /\ o[i].id = 0 + i
    BY <1>1 DEF Numbering, Numbered
  <2>2. i \in Int
    BY <1>1
  <2>3. o[i].id = i
    BY <2>1, <2>2
  <2>4. o[i].payload => o[i].got = Key(o[i])
    BY <1>1 DEF Matched
  <2> QED
    BY <2>1, <2>3, <2>4 DEF Key
<1>3. \A m \in Range(o) \cup Range(t) \cup Range(q) : m.exch = exch
  BY <1>1, <1>2 DEF Numbering, Numbered, Range
<1>4. Range(q \o t \o o) = Range(q) \cup Range(t) \cup Range(o)
  <2> DEFINE u == q \o t
  <2>1. u \in Seq(MsgRecord) /\ Range(u) = Range(q) \cup Range(t)
    BY <1>1, ConcatProperties, RangeConcatenation
  <2> HIDE DEF u
  <2>2. Range(u \o o) = Range(u) \cup Range(o)
    BY <1>1, <2>1, RangeConcatenation
  <2> QED
    BY <2>1, <2>2 DEF u
<1> QED
  BY <1>2, <1>3, <1>4 DEF o, t, q

(***************************************************************************)
(* recv() returns the messages of a peer in the order they were sent, none *)
(* skipped or repeated, each with its own payload, and nothing of the next *)
(* exchange although it uses the same tags.                                *)
(***************************************************************************)
THEOREM DeliverySound == Spec => []DeliveryIsSound
BY TagExchangeInvariant, DeliveryFollows, PTL

LEMMA IdleFollows == IInv => IdleIsComplete
<1> SUFFICES ASSUME IInv, finished, is_idle, NEW p \in Peer
             PROVE  pexch[p] > exch /\ Len(Out(p)) = peer_expected[p]
  BY DEF IdleIsComplete
<1>1. incoming[p] = <<>> /\ in_transit[p] = <<>> /\ peer_terminated[p]
  BY DEF is_idle, FullyDone
<1>2. /\ PeerInv(p) /\ exch \in Nat /\ pexch[p] \in Nat /\ messages_sent[p] \in 0 .. MaxId
      /\ meta[p] \in Seq(Metadata) /\ Out(p) \in Seq(MsgRecord)
      /\ Position(p) \in Spots /\ PeerAt(p) \in Spots
  BY PeerTypes
<1>3. pexch[p] > exch
  <2>1. AtMost(Position(p), PeerAt(p))
    BY <1>2, StreamOrder DEF PeerInv
  <2>2. Position(p)[1] = exch + 1 /\ PeerAt(p)[1] = pexch[p]
    BY <1>1 DEF Position, PeerAt
  <2>3. exch + 1 <= pexch[p]
    BY <1>2, <2>1, <2>2 DEF AtMost, Less
  <2> QED
    BY <1>2, <2>3
<1>4. Len(Out(p)) = peer_expected[p]
  <2>1. peer_expected[p] = peer_received[p] /\ peer_received[p] = Len(Out(p)) + 0 + 0
    BY <1>1, <1>2 DEF PeerInv, Numbering
  <2>2. Len(Out(p)) \in Nat
    BY <1>2
  <2> QED
    BY <2>1, <2>2
<1> QED
  BY <1>3, <1>4

(***************************************************************************)
(* When is_idle() holds after finish(), every peer has ended the exchange  *)
(* and all it sent in it has been handed out.                              *)
(***************************************************************************)
THEOREM IdleComplete == Spec => []IdleIsComplete
BY TagExchangeInvariant, IdleFollows, PTL

-----------------------------------------------------------------------------
(* The exchange and its interface: sequences that are cut and joined. *)

\* The head of a sequence may as well end the one before it.
LEMMA MoveHead ==
  ASSUME NEW S, NEW a \in Seq(S), NEW b \in Seq(S), b # <<>>
  PROVE  Append(a, Head(b)) \o Tail(b) = a \o b
<1> DEFINE h == Head(b)
           t == Tail(b)
           c == <<h>>
<1>1. h \in S /\ t \in Seq(S) /\ b = c \o t
  BY HeadAndTail
<1>2. c \in Seq(S)
  BY <1>1
<1>3. Append(a, h) = a \o c
  BY <1>1, AppendIsConcat
<1> HIDE DEF h, t, c
<1>4. (a \o c) \o t = a \o (c \o t)
  BY <1>1, <1>2, ConcatAssociative
<1>5. Append(a, h) \o t = a \o b
  BY <1>1, <1>3, <1>4
<1> QED
  BY <1>5 DEF h, t

LEMMA MoveHeadInto ==
  ASSUME NEW S, NEW a \in Seq(S), NEW b \in Seq(S), NEW x \in Seq(S), b # <<>>
  PROVE  Append(a, Head(b)) \o (Tail(b) \o x) = a \o (b \o x)
<1> DEFINE h == Head(b)
           t == Tail(b)
           u == Append(a, h)
<1>1. h \in S
  BY HeadAndTail
<1>2. t \in Seq(S)
  BY HeadAndTail
<1>3. u \o t = a \o b
  BY MoveHead
<1> HIDE DEF h, t
<1>4. u \in Seq(S)
  BY <1>1
<1> HIDE DEF u
<1>5. (u \o t) \o x = u \o (t \o x)
  BY <1>2, <1>4, ConcatAssociative, SMTT(30)
<1>6. (a \o b) \o x = a \o (b \o x)
  BY ConcatAssociative
<1>7. u \o (t \o x) = a \o (b \o x)
  BY <1>3, <1>5, <1>6
<1> QED
  BY <1>7 DEF u, h, t

\* The first k elements of a joined sequence.
LEMMA CutConcat ==
  ASSUME NEW S, NEW a \in Seq(S), NEW b \in Seq(S), NEW k \in 0 .. Len(a)
  PROVE  /\ SubSeq(a \o b, 1, k) = SubSeq(a, 1, k)
         /\ SubSeq(a \o b, k + 1, Len(a \o b)) = SubSeq(a, k + 1, Len(a)) \o b
         /\ k <= Len(a \o b)
         /\ \A i \in 1 .. k : (a \o b)[i] = a[i]
<1> DEFINE c == a \o b
<1>1. Len(a) \in Nat /\ Len(b) \in Nat /\ k \in Nat /\ k <= Len(a)
  OBVIOUS
<1>2. /\ c \in Seq(S) /\ Len(c) = Len(a) + Len(b)
      /\ \A i \in 1 .. Len(a) + Len(b) : c[i] = IF i <= Len(a) THEN a[i] ELSE b[i - Len(a)]
  BY ConcatProperties
<1> HIDE DEF c
<1>3. k \in 0 .. Len(c)
  BY <1>1, <1>2
<1> DEFINE u == SubSeq(c, 1, k)
           v == SubSeq(a, 1, k)
           x == SubSeq(c, k + 1, Len(c))
           y == SubSeq(a, k + 1, Len(a))
           z == y \o b
<1>4. /\ u \in Seq(S) /\ Len(u) = k /\ \A i \in 1 .. k : u[i] = c[i]
      /\ x \in Seq(S) /\ Len(x) = Len(c) - k /\ \A i \in 1 .. Len(c) - k : x[i] = c[k + i]
  BY <1>2, <1>3, SplitProperties
<1>5. /\ v \in Seq(S) /\ Len(v) = k /\ \A i \in 1 .. k : v[i] = a[i]
      /\ y \in Seq(S) /\ Len(y) = Len(a) - k /\ \A i \in 1 .. Len(a) - k : y[i] = a[k + i]
  BY SplitProperties
<1> HIDE DEF u, v, x, y
<1>6. /\ z \in Seq(S) /\ Len(z) = Len(y) + Len(b)
      /\ \A i \in 1 .. Len(y) + Len(b) : z[i] = IF i <= Len(y) THEN y[i] ELSE b[i - Len(y)]
  BY <1>5, ConcatProperties
<1> HIDE DEF z
<1>7. \A i \in 1 .. k : c[i] = a[i]
  BY <1>1, <1>2
<1>8. u = v
  <2>1. \A i \in 1 .. Len(u) : u[i] = v[i]
    BY <1>4, <1>5, <1>7
  <2> QED
    BY <1>4, <1>5, <2>1, SeqEqual
<1>9. x = z
  <2>1. Len(x) = Len(z) /\ Len(x) = Len(a) + Len(b) - k
    BY <1>1, <1>2, <1>4, <1>5, <1>6
  <2>2. ASSUME NEW i \in 1 .. Len(x) PROVE x[i] = z[i]
    <3>1. /\ k + i \in 1 .. Len(a) + Len(b) /\ i \in 1 .. Len(c) - k
          /\ i \in 1 .. Len(y) + Len(b)
      BY <1>1, <1>2, <1>5, <2>1
    <3>2. CASE k + i <= Len(a)
      <4>1. x[i] = a[k + i]
        BY <1>2, <1>4, <3>1, <3>2
      <4>2. i <= Len(y) /\ i \in 1 .. Len(a) - k
        BY <1>1, <1>5, <3>1, <3>2
      <4>3. z[i] = a[k + i]
        BY <1>5, <1>6, <3>1, <4>2
      <4> QED
        BY <4>1, <4>3
    <3>3. CASE k + i > Len(a)
      <4>1. ~ (k + i <= Len(a)) /\ ~ (i <= Len(y)) /\ k + i - Len(a) = i - Len(y)
        BY <1>1, <1>5, <3>1, <3>3
      <4>2. x[i] = b[k + i - Len(a)]
        BY <1>2, <1>4, <3>1, <4>1, SMTT(30)
      <4>3. z[i] = b[i - Len(y)]
        BY <1>6, <3>1, <4>1
      <4> QED
        BY <4>1, <4>2, <4>3
    <3> QED
      BY <1>1, <3>1, <3>2, <3>3
  <2> QED
    BY <1>4, <1>6, <2>1, <2>2, SeqEqual
<1>10. k <= Len(c)
  BY <1>3
<1> QED
  BY <1>7, <1>8, <1>9, <1>10 DEF c, u, v, x, y, z

\* Names for what is done to a queue, so that the facts below are about names only.
Push(q, e) == Append(q, e)
First(q) == Head(q)
Rest(q) == Tail(q)
FirstN(q, k) == SubSeq(q, 1, k)
Drop(q, k) == SubSeq(q, k + 1, Len(q))

\* A queue of four parts: in transit, incoming, an end mark, on the wire.
Joined(a, b, c, d) == a \o (b \o (c \o d))

LEMMA JoinedParts ==
  ASSUME NEW S, NEW a \in Seq(S), NEW b \in Seq(S), NEW c \in Seq(S), NEW d \in Seq(S)
  PROVE  /\ c \o d \in Seq(S) /\ b \o (c \o d) \in Seq(S) /\ Joined(a, b, c, d) \in Seq(S)
         /\ <<>> \in Seq(S) /\ <<>> \o d = d
         /\ <<>> \o (b \o (c \o d)) = b \o (c \o d)
<1> DEFINE x == c \o d
           y == b \o x
           z == a \o y
<1>1. x \in Seq(S)
  BY ConcatProperties
<1> HIDE DEF x
<1>2. y \in Seq(S)
  BY <1>1, ConcatProperties
<1> HIDE DEF y
<1>3. z \in Seq(S) /\ <<>> \o y = y /\ <<>> \o d = d
  BY <1>2, ConcatProperties, ConcatEmptySeq
<1> QED
  BY <1>1, <1>2, <1>3 DEF x, y, Joined

\* A peer adds to the queue.
LEMMA JoinedAppend ==
  ASSUME NEW S, NEW a \in Seq(S), NEW b \in Seq(S), NEW c \in Seq(S), NEW d \in Seq(S), NEW e \in S
  PROVE  Joined(a, b, c, Push(d, e)) = Push(Joined(a, b, c, d), e)
<1> DEFINE x == c \o d
           y == b \o x
<1>1. x \in Seq(S) /\ y \in Seq(S)
  BY JoinedParts
<1>2. c \o Append(d, e) = Append(x, e)
  BY ConcatAppend
<1> HIDE DEF x
<1>3. b \o Append(x, e) = Append(y, e)
  BY <1>1, ConcatAppend
<1> HIDE DEF y
<1>4. a \o Append(y, e) = Append(a \o y, e)
  BY <1>1, ConcatAppend
<1>5. Joined(a, b, c, Append(d, e)) = a \o (b \o (c \o Append(d, e))) /\ Joined(a, b, c, d) = a \o y
  BY DEF Joined, x, y
<1> QED
  BY <1>2, <1>3, <1>4, <1>5 DEF Push

\* A message is taken from the wire, or a mark, or a receive is posted: the queue is the same.
LEMMA JoinedTake ==
  ASSUME NEW S, NEW a \in Seq(S), NEW b \in Seq(S), NEW d \in Seq(S), d # <<>>
  PROVE  Joined(a, Push(b, First(d)), <<>>, Rest(d)) = Joined(a, b, <<>>, d)
<1> DEFINE h == Head(d)
           t == Tail(d)
<1>1. t \in Seq(S)
  BY HeadAndTail
<1>2. Append(b, h) \o t = b \o d
  BY MoveHead
<1> HIDE DEF h, t
<1>3. <<>> \o t = t /\ <<>> \o d = d
  BY <1>1, ConcatEmptySeq
<1>4. a \o (Append(b, h) \o (<<>> \o t)) = a \o (b \o (<<>> \o d))
  BY <1>2, <1>3
<1> QED
  BY <1>4 DEF Joined, Push, First, Rest, h, t

LEMMA JoinedMark ==
  ASSUME NEW S, NEW a \in Seq(S), NEW b \in Seq(S), NEW d \in Seq(S), d # <<>>
  PROVE  Joined(a, b, <<First(d)>>, Rest(d)) = Joined(a, b, <<>>, d)
<1> DEFINE h == Head(d)
           t == Tail(d)
<1>1. d = <<h>> \o t
  BY HeadAndTail
<1>2. <<>> \o d = d
  BY ConcatEmptySeq
<1> HIDE DEF h, t
<1>3. a \o (b \o (<<h>> \o t)) = a \o (b \o (<<>> \o d))
  BY <1>1, <1>2
<1> QED
  BY <1>3 DEF Joined, First, Rest, h, t

LEMMA JoinedPost ==
  ASSUME NEW S, NEW a \in Seq(S), NEW b \in Seq(S), NEW c \in Seq(S), NEW d \in Seq(S), b # <<>>
  PROVE  Joined(Push(a, First(b)), Rest(b), c, d) = Joined(a, b, c, d)
<1> DEFINE x == c \o d
<1>1. x \in Seq(S)
  BY JoinedParts
<1> HIDE DEF x
<1>2. Append(a, Head(b)) \o (Tail(b) \o x) = a \o (b \o x)
  BY <1>1, MoveHeadInto, SMTT(30)
<1> QED
  BY <1>2 DEF Joined, Push, First, Rest, x

\* What is handed out of the queue: messages in transit, ...
LEMMA JoinedCompletes ==
  ASSUME NEW S, NEW a \in Seq(S), NEW b \in Seq(S), NEW c \in Seq(S), NEW d \in Seq(S),
         NEW k \in 0 .. Len(a)
  PROVE  /\ FirstN(Joined(a, b, c, d), k) = FirstN(a, k)
         /\ Drop(Joined(a, b, c, d), k) = Joined(Drop(a, k), b, c, d)
         /\ k <= Len(Joined(a, b, c, d))
         /\ \A i \in 1 .. k : Joined(a, b, c, d)[i] = a[i]
<1> DEFINE y == b \o (c \o d)
<1>1. y \in Seq(S)
  BY JoinedParts
<1>2. Joined(a, b, c, d) = a \o y /\ Joined(SubSeq(a, k + 1, Len(a)), b, c, d) = SubSeq(a, k + 1, Len(a)) \o y
  BY DEF Joined
<1> HIDE DEF y
<1>3. /\ SubSeq(a \o y, 1, k) = SubSeq(a, 1, k)
      /\ SubSeq(a \o y, k + 1, Len(a \o y)) = SubSeq(a, k + 1, Len(a)) \o y
      /\ k <= Len(a \o y)
      /\ \A i \in 1 .. k : (a \o y)[i] = a[i]
  BY <1>1, CutConcat
<1> QED
  BY <1>2, <1>3 DEF FirstN, Drop

\* ... or the first incoming message when none is in transit.
LEMMA JoinedFirst ==
  ASSUME NEW S, NEW b \in Seq(S), NEW c \in Seq(S), NEW d \in Seq(S), b # <<>>
  PROVE  /\ SubSeq(Joined(<<>>, b, c, d), 1, 1) = <<Head(b)>>
         /\ SubSeq(Joined(<<>>, b, c, d), 2, Len(Joined(<<>>, b, c, d))) = Joined(<<>>, Tail(b), c, d)
         /\ 1 <= Len(Joined(<<>>, b, c, d))
         /\ Joined(<<>>, b, c, d)[1] = Head(b)
<1> DEFINE x == c \o d
           z == b \o x
<1>1. x \in Seq(S) /\ Tail(b) \in Seq(S) /\ <<>> \in Seq(S)
  BY JoinedParts, HeadAndTail
<1>2. Joined(<<>>, b, c, d) = z
  BY JoinedParts DEF Joined
<1>3. Joined(<<>>, Tail(b), c, d) = Tail(b) \o x
  BY <1>1, JoinedParts DEF Joined
<1>4. 1 \in 0 .. Len(b) /\ 1 \in 1 .. 1 /\ Head(b) = b[1]
  BY HeadAndTail
<1> HIDE DEF x
<1>5. /\ SubSeq(z, 1, 1) = SubSeq(b, 1, 1)
      /\ SubSeq(z, 1 + 1, Len(z)) = SubSeq(b, 1 + 1, Len(b)) \o x
      /\ 1 <= Len(z) /\ z[1] = b[1]
  BY <1>1, <1>4, CutConcat
<1>6. SubSeq(b, 1, 1) = <<b[1]>> /\ SubSeq(b, 2, Len(b)) = Tail(b)
  <2>1. SubSeq(b, 2, Len(b)) = Tail(b)
    BY TailIsSubSeq
  <2> DEFINE y == SubSeq(b, 1, 1)
  <2>2. y \in Seq(S) /\ Len(y) = 1 /\ \A i \in 1 .. 1 : y[i] = b[i]
    BY <1>4, SplitProperties
  <2> HIDE DEF y
  <2>3. y = <<b[1]>>
    BY <1>4, <2>2
  <2> QED
    BY <2>1, <2>3 DEF y
<1>7. 1 + 1 = 2
  OBVIOUS
<1> HIDE DEF z
<1> QED
  BY <1>2, <1>3, <1>4, <1>5, <1>6, <1>7

\* The queue of an exchange that is over begins with the mark.
LEMMA JoinedEnd ==
  ASSUME NEW S, NEW e \in S, NEW d \in Seq(S)
  PROVE  /\ Joined(<<>>, <<>>, <<e>>, d) # <<>> /\ Head(Joined(<<>>, <<>>, <<e>>, d)) = e
         /\ Tail(Joined(<<>>, <<>>, <<e>>, d)) = d
         /\ Joined(<<>>, <<>>, <<>>, d) = d
<1> DEFINE z == <<e>> \o d
<1>1. z \in Seq(S) /\ z # <<>> /\ Head(z) = e /\ Tail(z) = d
  OBVIOUS
<1> HIDE DEF z
<1>2. <<>> \o z = z /\ <<>> \o d = d
  BY <1>1, ConcatEmptySeq
<1>3. Joined(<<>>, <<>>, <<e>>, d) = <<>> \o (<<>> \o z)
  BY DEF Joined, z
<1>4. Joined(<<>>, <<>>, <<>>, d) = <<>> \o (<<>> \o (<<>> \o d))
  BY DEF Joined
<1> QED
  BY <1>1, <1>2, <1>3, <1>4

\* The name of a message or marker in the queue.
NameOf(e) == <<e.exch, IF e.marker THEN 0 ELSE e.id>>

LEMMA NameIs ==
  /\ \A e \in MsgRecord : NameOf(e) = Key(e) /\ NameOf(e) \in Spots /\ e.id # 0
  /\ \A e \in MarkerRecord : NameOf(e) = <<e.exch, 0>> /\ NameOf(e) \in Spots
  /\ \A e \in Metadata : NameOf(e) \in Spots
<1>1. ASSUME NEW e \in MsgRecord PROVE NameOf(e) = Key(e) /\ NameOf(e) \in Spots /\ e.id # 0
  <2>1. NameOf(e) = Key(e)
    BY MsgFlags, Zenon DEF NameOf, Key
  <2> QED
    BY <2>1, MsgNumbers DEF Key, Spots
<1>2. ASSUME NEW e \in MarkerRecord PROVE NameOf(e) = <<e.exch, 0>> /\ NameOf(e) \in Spots
  <2>1. NameOf(e) = <<e.exch, 0>>
    BY MarkerFlags, Zenon DEF NameOf
  <2> QED
    BY <2>1, MarkerNumbers DEF Spots
<1> QED
  BY <1>1, <1>2 DEF Metadata

LEMMA KeysAre ==
  ASSUME NEW q \in Seq(Metadata)
  PROVE  /\ Keys(q) \in Seq(Spots) /\ Len(Keys(q)) = Len(q) /\ Len(q) \in Nat
         /\ DOMAIN q = 1 .. Len(q)
         /\ \A i \in 1 .. Len(q) : Keys(q)[i] = NameOf(q[i])
<1>1. Len(q) \in Nat /\ DOMAIN q = 1 .. Len(q) /\ \A i \in 1 .. Len(q) : q[i] \in Metadata
  OBVIOUS
<1>2. Keys(q) = [i \in 1 .. Len(q) |-> NameOf(q[i])]
  BY <1>1 DEF Keys, NameOf
<1>3. \A i \in 1 .. Len(q) : NameOf(q[i]) \in Spots
  BY <1>1, NameIs
<1>4. Keys(q) \in Seq(Spots) /\ Len(Keys(q)) = Len(q)
  BY <1>1, <1>2, <1>3, IsASeq
<1> QED
  BY <1>1, <1>2, <1>4

\* A sequence of messages is one of metadata.
LEMMA MessagesAreMetadata == \A q \in Seq(MsgRecord) : q \in Seq(Metadata)
<1>1. MsgRecord \subseteq Metadata
  BY DEF Metadata
<1> QED
  BY <1>1, SeqMonotonic

\* Names go with Append, Tail, \o and SubSeq.
LEMMA KeysMove ==
  ASSUME NEW q \in Seq(Metadata)
  PROVE  /\ \A e \in Metadata : Keys(Append(q, e)) = Append(Keys(q), NameOf(e))
         /\ q # <<>> => /\ Keys(q) # <<>> /\ Head(Keys(q)) = NameOf(Head(q))
                        /\ Keys(Tail(q)) = Tail(Keys(q))
<1> DEFINE k == Keys(q)
<1>0. /\ k \in Seq(Spots) /\ Len(k) = Len(q) /\ Len(q) \in Nat /\ DOMAIN q = 1 .. Len(q)
      /\ \A i \in 1 .. Len(q) : k[i] = NameOf(q[i])
  BY KeysAre
<1> HIDE DEF k
<1>1. ASSUME NEW e \in Metadata PROVE Keys(Append(q, e)) = Append(k, NameOf(e))
  <2> DEFINE r == Append(q, e)
             n == NameOf(e)
             u == Keys(r)
             v == Append(k, n)
  <2>1. /\ r \in Seq(Metadata) /\ Len(r) = Len(q) + 1
        /\ \A i \in 1 .. Len(q) : r[i] = q[i]
        /\ r[Len(q) + 1] = e
    BY Appended
  <2> HIDE DEF r
  <2>2. u \in Seq(Spots) /\ Len(u) = Len(q) + 1 /\ \A i \in 1 .. Len(q) + 1 : u[i] = NameOf(r[i])
    BY <2>1, KeysAre
  <2>3. n \in Spots
    BY NameIs
  <2> HIDE DEF n, u
  <2>4. /\ v \in Seq(Spots) /\ Len(v) = Len(q) + 1
        /\ \A i \in 1 .. Len(q) : v[i] = k[i]
        /\ v[Len(q) + 1] = n
    BY <1>0, <2>3, Appended
  <2> HIDE DEF v
  <2>5. ASSUME NEW i \in 1 .. Len(u) PROVE u[i] = v[i]
    <3>1. CASE i \in 1 .. Len(q)
      <4>1. u[i] = NameOf(q[i])
        BY <1>0, <2>1, <2>2, <3>1
      <4>2. v[i] = NameOf(q[i])
        BY <1>0, <2>4, <3>1
      <4> QED
        BY <4>1, <4>2
    <3>2. CASE i = Len(q) + 1
      <4>1. u[i] = NameOf(e)
        BY <2>1, <2>2, <3>2
      <4> QED
        BY <2>4, <3>2, <4>1 DEF n
    <3> QED
      BY <1>0, <2>2, <3>1, <3>2
  <2>6. u = v
    BY <2>2, <2>4, <2>5, SeqEqual
  <2> QED
    BY <2>6 DEF u, v, r, n
<1>2. ASSUME q # <<>> PROVE k # <<>> /\ Head(k) = NameOf(Head(q)) /\ Keys(Tail(q)) = Tail(k)
  <2> DEFINE r == Tail(q)
             u == Keys(r)
             v == Tail(k)
  <2>1. /\ Len(q) \in Nat \ {0} /\ Head(q) = q[1]
        /\ r \in Seq(Metadata) /\ Len(r) = Len(q) - 1
        /\ \A i \in 1 .. Len(q) - 1 : r[i] = q[i + 1]
    BY <1>2, HeadAndTail
  <2> HIDE DEF r
  <2>2. k # <<>>
    BY <1>0, <2>1
  <2>3. /\ Head(k) = k[1] /\ v \in Seq(Spots) /\ Len(v) = Len(q) - 1
        /\ \A i \in 1 .. Len(q) - 1 : v[i] = k[i + 1]
    BY <1>0, <2>2, HeadAndTail
  <2>4. u \in Seq(Spots) /\ Len(u) = Len(q) - 1 /\ \A i \in 1 .. Len(q) - 1 : u[i] = NameOf(r[i])
    BY <2>1, KeysAre
  <2> HIDE DEF u, v
  <2>5. ASSUME NEW i \in 1 .. Len(u) PROVE u[i] = v[i]
    <3>1. i \in 1 .. Len(q) - 1 /\ i + 1 \in 1 .. Len(q)
      BY <1>0, <2>4
    <3>2. u[i] = NameOf(q[i + 1])
      BY <2>1, <2>4, <3>1
    <3>3. v[i] = NameOf(q[i + 1])
      BY <1>0, <2>3, <3>1
    <3> QED
      BY <3>2, <3>3
  <2>6. u = v
    BY <2>3, <2>4, <2>5, SeqEqual
  <2>7. Head(k) = NameOf(Head(q))
    BY <1>0, <2>1, <2>3
  <2> QED
    BY <2>2, <2>6, <2>7 DEF u, v, r
<1> QED
  BY <1>1, <1>2 DEF k

LEMMA KeysCut ==
  ASSUME NEW q \in Seq(Metadata), NEW n \in 0 .. Len(q)
  PROVE  /\ Keys(SubSeq(q, 1, n)) = SubSeq(Keys(q), 1, n)
         /\ Keys(SubSeq(q, n + 1, Len(q))) = SubSeq(Keys(q), n + 1, Len(Keys(q)))
<1> DEFINE k == Keys(q)
           a == SubSeq(q, 1, n)
           b == SubSeq(q, n + 1, Len(q))
           u == SubSeq(k, 1, n)
           v == SubSeq(k, n + 1, Len(k))
<1>1. /\ k \in Seq(Spots) /\ Len(k) = Len(q) /\ Len(q) \in Nat
      /\ \A i \in 1 .. Len(q) : k[i] = NameOf(q[i])
  BY KeysAre
<1>2. /\ a \in Seq(Metadata) /\ Len(a) = n /\ \A i \in 1 .. n : a[i] = q[i]
      /\ b \in Seq(Metadata) /\ Len(b) = Len(q) - n
      /\ \A i \in 1 .. Len(q) - n : b[i] = q[n + i]
  BY SplitProperties
<1> HIDE DEF k, a, b
<1>3. /\ u \in Seq(Spots) /\ Len(u) = n /\ \A i \in 1 .. n : u[i] = k[i]
      /\ v \in Seq(Spots) /\ Len(v) = Len(q) - n
      /\ \A i \in 1 .. Len(q) - n : v[i] = k[n + i]
  BY <1>1, SplitProperties
<1>4. /\ Keys(a) \in Seq(Spots) /\ Len(Keys(a)) = n /\ \A i \in 1 .. n : Keys(a)[i] = NameOf(a[i])
  BY <1>2, KeysAre
<1>5. /\ Keys(b) \in Seq(Spots) /\ Len(Keys(b)) = Len(q) - n
      /\ \A i \in 1 .. Len(q) - n : Keys(b)[i] = NameOf(b[i])
  BY <1>2, KeysAre
<1> HIDE DEF u, v
<1>6. Keys(a) = u
  <2>1. ASSUME NEW i \in 1 .. n PROVE Keys(a)[i] = u[i]
    <3>1. i \in 1 .. Len(q)
      BY <1>1
    <3> QED
      BY <1>1, <1>2, <1>3, <1>4, <3>1
  <2> QED
    BY <1>3, <1>4, <2>1, SeqEqual
<1>7. Keys(b) = v
  <2>1. ASSUME NEW i \in 1 .. Len(q) - n PROVE Keys(b)[i] = v[i]
    <3>1. n + i \in 1 .. Len(q)
      BY <1>1
    <3> QED
      BY <1>1, <1>2, <1>3, <1>5, <3>1
  <2> QED
    BY <1>3, <1>5, <2>1, SeqEqual
<1> QED
  BY <1>6, <1>7 DEF k, a, b, u, v

LEMMA KeysConcat ==
  ASSUME NEW a \in Seq(Metadata), NEW b \in Seq(Metadata)
  PROVE  Keys(a \o b) = Keys(a) \o Keys(b)
<1> DEFINE c == a \o b
           u == Keys(a)
           v == Keys(b)
           w == u \o v
<1>1. /\ c \in Seq(Metadata) /\ Len(c) = Len(a) + Len(b)
      /\ \A i \in 1 .. Len(a) + Len(b) : c[i] = IF i <= Len(a) THEN a[i] ELSE b[i - Len(a)]
  BY ConcatProperties
<1> HIDE DEF c
<1>2. /\ u \in Seq(Spots) /\ Len(u) = Len(a) /\ Len(a) \in Nat
      /\ \A i \in 1 .. Len(a) : u[i] = NameOf(a[i])
      /\ v \in Seq(Spots) /\ Len(v) = Len(b) /\ Len(b) \in Nat
      /\ \A i \in 1 .. Len(b) : v[i] = NameOf(b[i])
  BY KeysAre
<1>3. /\ Keys(c) \in Seq(Spots) /\ Len(Keys(c)) = Len(a) + Len(b)
      /\ \A i \in 1 .. Len(a) + Len(b) : Keys(c)[i] = NameOf(c[i])
  BY <1>1, KeysAre
<1> HIDE DEF u, v
<1>4. /\ w \in Seq(Spots) /\ Len(w) = Len(u) + Len(v)
      /\ \A i \in 1 .. Len(u) + Len(v) : w[i] = IF i <= Len(u) THEN u[i] ELSE v[i - Len(u)]
  BY <1>2, ConcatProperties, SMTT(30)
<1> HIDE DEF w
<1>5. ASSUME NEW i \in 1 .. Len(a) + Len(b) PROVE Keys(c)[i] = w[i]
  <2>1. CASE i <= Len(a)
    <3>1. i \in 1 .. Len(a) /\ w[i] = u[i] /\ c[i] = a[i]
      BY <1>1, <1>2, <1>4, <2>1
    <3> QED
      BY <1>2, <1>3, <3>1
  <2>2. CASE ~ (i <= Len(a))
    <3>1. i - Len(a) \in 1 .. Len(b) /\ w[i] = v[i - Len(a)] /\ c[i] = b[i - Len(a)]
      BY <1>1, <1>2, <1>4, <2>2
    <3> QED
      BY <1>2, <1>3, <3>1
  <2> QED
    BY <2>1, <2>2
<1>6. Keys(c) = w
  BY <1>2, <1>3, <1>4, <1>5, SeqEqual
<1> QED
  BY <1>6 DEF c, u, v, w

-----------------------------------------------------------------------------
(* The queue and the output of the interface, and how the steps move them. *)

Queue(p) == Joined(Keys(in_transit[p]), Keys(incoming[p]), Ending(p), Keys(meta[p]))
Queues == [p \in Peer |-> Queue(p)]
Outputs == [p \in Peer |-> Keys(Out(p))]

\* The parts of the queue.
LEMMA QueueParts ==
  ASSUME IInv, NEW p \in Peer
  PROVE  /\ Keys(in_transit[p]) \in Seq(Spots) /\ Keys(incoming[p]) \in Seq(Spots)
         /\ Ending(p) \in Seq(Spots) /\ Keys(meta[p]) \in Seq(Spots)
         /\ Keys(Out(p)) \in Seq(Spots) /\ Queue(p) \in Seq(Spots)
         /\ meta[p] \in Seq(Metadata) /\ incoming[p] \in Seq(Metadata)
         /\ in_transit[p] \in Seq(Metadata) /\ Out(p) \in Seq(Metadata)
         /\ exch \in Nat /\ pexch[p] \in Nat
<1>1. /\ meta[p] \in Seq(Metadata) /\ incoming[p] \in Seq(MsgRecord)
      /\ in_transit[p] \in Seq(MsgRecord) /\ Out(p) \in Seq(MsgRecord)
      /\ exch \in Nat /\ pexch[p] \in Nat
  BY PeerTypes
<1>2. incoming[p] \in Seq(Metadata) /\ in_transit[p] \in Seq(Metadata) /\ Out(p) \in Seq(Metadata)
  BY <1>1, MessagesAreMetadata
<1>3. Keys(in_transit[p]) \in Seq(Spots) /\ Keys(incoming[p]) \in Seq(Spots)
  BY <1>2, KeysAre
<1>4. Keys(meta[p]) \in Seq(Spots) /\ Keys(Out(p)) \in Seq(Spots)
  BY <1>1, <1>2, KeysAre
<1>5. Ending(p) \in Seq(Spots)
  <2>1. <<exch, 0>> \in Spots
    BY <1>1 DEF Spots
  <2> DEFINE e == <<exch, 0>>
  <2> HIDE DEF e
  <2>2. <<e>> \in Seq(Spots) /\ <<>> \in Seq(Spots)
    BY <2>1 DEF e
  <2>3. Ending(p) = <<e>> \/ Ending(p) = <<>>
    BY DEF Ending, e
  <2> QED
    BY <2>2, <2>3
<1>6. Queue(p) \in Seq(Spots)
  BY <1>3, <1>4, <1>5, JoinedParts DEF Queue
<1> QED
  BY <1>1, <1>2, <1>3, <1>4, <1>5, <1>6

\* A step that leaves the queues and outputs alone is a stutter of the interface.
LEMMA InterfaceStutters ==
  ASSUME \A q \in Peer : Queue(q)' = Queue(q), \A q \in Peer : Keys(Out(q))' = Keys(Out(q)),
         exch' = exch, pexch' = pexch
  PROVE  UNCHANGED MPE!vars
<1>1. Queues' = Queues /\ Outputs' = Outputs
  BY DEF Queues, Outputs
<1> QED
  BY <1>1 DEF MPE!vars, Queues, Outputs, Queue, Joined

\* What a peer's part of the interface depends on.
LEMMA QueueKept ==
  ASSUME NEW q \in Peer, exch' = exch,
         in_transit'[q] = in_transit[q], incoming'[q] = incoming[q], meta'[q] = meta[q],
         peer_terminated'[q] = peer_terminated[q]
  PROVE  Queue(q)' = Queue(q)
BY DEF Queue, Ending

LEMMA OutputKept ==
  ASSUME UNCHANGED <<delivered, received>>, NEW q \in Peer
  PROVE  Out(q)' = Out(q) /\ Keys(Out(q))' = Keys(Out(q))
BY DEF Out

LEMMA PeerSendImplements ==
  ASSUME IInv, NEW p \in Peer, NEW payload \in BOOLEAN, peer_send(p, payload)
  PROVE  MPE!Next
<1> DEFINE id == messages_sent[p] + 1
           m == Message(pexch[p], id, payload)
           key == <<pexch[p], id>>
<1>1. messages_sent[p] \in 0 .. MaxId /\ pexch[p] \in Nat
  BY PeerTypes
<1>2. id \in 1 .. MaxId
  BY SentNumber
<1>3. m \in MsgRecord /\ Key(m) = key
  <2> HIDE DEF id
  <2> QED
    BY <1>1, <1>2, MessageFields
<1>4. meta' = [meta EXCEPT ![p] = Append(@, m)]
      /\ UNCHANGED <<pexch, exch, incoming, in_transit, received, delivered, peer_terminated>>
  BY DEF peer_send, termVars
<1> HIDE DEF id, m
<1>5. m \in Metadata /\ NameOf(m) = key /\ key \in Spots
  BY <1>3, NameIs DEF Metadata
<1>6. meta'[p] = Append(meta[p], m) /\ \A q \in Peer : q # p => meta'[q] = meta[q]
  BY <1>4 DEF IInv, QueueTypes
<1>7. Keys(meta[p])' = Append(Keys(meta[p]), key)
  BY <1>5, <1>6, QueueParts, KeysMove
<1>8. Queue(p)' = Append(Queue(p), key)
  <2> DEFINE a == Keys(in_transit[p])
             b == Keys(incoming[p])
             c == Ending(p)
             d == Keys(meta[p])
  <2>1. a \in Seq(Spots) /\ b \in Seq(Spots) /\ c \in Seq(Spots) /\ d \in Seq(Spots)
    BY QueueParts
  <2>2. Queue(p) = Joined(a, b, c, d)
    BY DEF Queue
  <2>3. Queue(p)' = Joined(a, b, c, Push(d, key))
    BY <1>4, <1>7 DEF Queue, Ending, Push
  <2> HIDE DEF a, b, c, d, key
  <2>4. Joined(a, b, c, Push(d, key)) = Push(Joined(a, b, c, d), key)
    BY <1>5, <2>1, JoinedAppend
  <2> QED
    BY <2>2, <2>3, <2>4 DEF Push
<1>9. Queues' = [Queues EXCEPT ![p] = Append(@, key)]
  <2>1. \A q \in Peer : q # p => Queue(q)' = Queue(q)
    BY <1>4, <1>6, QueueKept
  <2> HIDE DEF key
  <2> QED
    BY <1>8, <2>1 DEF Queues
<1>10. Outputs' = Outputs
  BY <1>4, OutputKept DEF Outputs
<1>11. MPE!send(p, id)
  BY <1>4, <1>9, <1>10 DEF MPE!send, Queues, Outputs, Queue, Joined
<1> QED
  BY <1>2, <1>11 DEF MPE!Next

LEMMA PeerFinishImplements ==
  ASSUME IInv, NEW p \in Peer, peer_finish(p)
  PROVE  MPE!Next
<1> DEFINE m == Marker(pexch[p], messages_sent[p])
           key == <<pexch[p], 0>>
<1>1. messages_sent[p] \in 0 .. MaxId /\ pexch[p] \in Nat
  BY PeerTypes
<1>2. m \in MarkerRecord /\ m.exch = pexch[p]
  <2>1. m \in MarkerRecord
    BY <1>1, MarkerFields
  <2> QED
    BY <2>1 DEF Marker
<1>3. /\ meta' = [meta EXCEPT ![p] = Append(@, m)]
      /\ pexch' = [pexch EXCEPT ![p] = @ + 1]
      /\ UNCHANGED <<exch, incoming, in_transit, received, delivered, peer_terminated>>
  BY DEF peer_finish, termVars
<1> HIDE DEF m
<1>4. m \in Metadata /\ NameOf(m) = key /\ key \in Spots
  BY <1>2, NameIs DEF Metadata
<1>5. meta'[p] = Append(meta[p], m) /\ \A q \in Peer : q # p => meta'[q] = meta[q]
  BY <1>3 DEF IInv, QueueTypes
<1>6. Keys(meta[p])' = Append(Keys(meta[p]), key)
  BY <1>4, <1>5, QueueParts, KeysMove
<1>7. Queue(p)' = Append(Queue(p), key)
  <2> DEFINE a == Keys(in_transit[p])
             b == Keys(incoming[p])
             c == Ending(p)
             d == Keys(meta[p])
  <2>1. a \in Seq(Spots) /\ b \in Seq(Spots) /\ c \in Seq(Spots) /\ d \in Seq(Spots)
    BY QueueParts
  <2>2. Queue(p) = Joined(a, b, c, d)
    BY DEF Queue
  <2>3. Queue(p)' = Joined(a, b, c, Push(d, key))
    BY <1>3, <1>6 DEF Queue, Ending, Push
  <2> HIDE DEF a, b, c, d, key
  <2>4. Joined(a, b, c, Push(d, key)) = Push(Joined(a, b, c, d), key)
    BY <1>4, <2>1, JoinedAppend
  <2> QED
    BY <2>2, <2>3, <2>4 DEF Push
<1>8. Queues' = [Queues EXCEPT ![p] = Append(@, key)]
  <2>1. \A q \in Peer : q # p => Queue(q)' = Queue(q)
    BY <1>3, <1>5, QueueKept
  <2> HIDE DEF key
  <2> QED
    BY <1>7, <2>1 DEF Queues
<1>9. Outputs' = Outputs
  BY <1>3, OutputKept DEF Outputs
<1>10. MPE!finish(p)
  BY <1>3, <1>8, <1>9 DEF MPE!finish, MPE!End, Queues, Outputs, Queue, Joined
<1> QED
  BY <1>10 DEF MPE!Next

\* The termination marker is taken: the mark stays where it was in the queue.
LEMMA ReceiveMarkerImplements ==
  ASSUME IInv, NEW p \in Peer, NEW attached \in BOOLEAN, receive_metadata(p, attached),
         Head(meta[p]).marker
  PROVE  UNCHANGED MPE!vars
<1> DEFINE m == Head(meta[p])
           a == Keys(in_transit[p])
           b == Keys(incoming[p])
           d == Keys(meta[p])
<1>1. /\ PeerInv(p) /\ Position(p) \in Spots /\ PeerAt(p) \in Spots /\ exch \in Nat
      /\ peer_received[p] \in Nat
  BY PeerTypes
<1>2. meta[p] # <<>> /\ ~ FullyDone(p) /\ meta[p] \in Seq(Metadata)
  BY PeerTypes DEF receive_metadata, poll
<1>3. ~ peer_terminated[p] /\ Position(p) = <<exch, peer_received[p]>>
  BY <1>2, ArrivedBefore DEF Position
<1>4. /\ meta' = [meta EXCEPT ![p] = Tail(@)]
      /\ peer_terminated' = [peer_terminated EXCEPT ![p] = TRUE]
      /\ UNCHANGED <<incoming, pexch, exch, in_transit, received, delivered>>
  BY DEF receive_metadata, peerVars
<1>5. m \in MarkerRecord
  <2>1. m \in Metadata
    BY <1>2, HeadAndTail
  <2> QED
    BY <2>1, Spot
<1>6. m.exch = exch
  <2>1. Before(m) = Position(p)
    BY <1>1, <1>2, StreamShrinks DEF PeerInv
  <2>2. Before(m) = <<m.exch, m.count>>
    BY <1>5, MarkerFlags, Zenon DEF Before
  <2> QED
    BY <1>3, <2>1, <2>2
<1>7. NameOf(m) = <<exch, 0>>
  BY <1>5, <1>6, NameIs
<1>8. d # <<>> /\ First(d) = NameOf(m) /\ Keys(Tail(meta[p])) = Rest(d)
  BY <1>2, KeysMove DEF First, Rest
<1>9. a \in Seq(Spots) /\ b \in Seq(Spots) /\ d \in Seq(Spots)
  BY QueueParts
<1>10. meta'[p] = Tail(meta[p]) /\ peer_terminated'[p]
  BY <1>4 DEF IInv, Types, QueueTypes
<1>11. Queue(p) = Joined(a, b, <<>>, d) /\ Queue(p)' = Joined(a, b, <<First(d)>>, Rest(d))
  <2>1. Ending(p) = <<>>
    BY <1>3 DEF Ending
  <2>2. Ending(p)' = <<First(d)>>
    BY <1>4, <1>7, <1>8, <1>10 DEF Ending
  <2>3. Keys(meta[p])' = Rest(d) /\ Keys(in_transit[p])' = a /\ Keys(incoming[p])' = b
    BY <1>4, <1>8, <1>10
  <2> QED
    BY <2>1, <2>2, <2>3 DEF Queue
<1> HIDE DEF a, b, d
<1>12. Queue(p)' = Queue(p)
  BY <1>8, <1>9, <1>11, JoinedMark
<1>13. ASSUME NEW q \in Peer, q # p PROVE Queue(q)' = Queue(q)
  <2>1. meta'[q] = meta[q] /\ peer_terminated'[q] = peer_terminated[q]
    BY <1>4, <1>13 DEF IInv, Types, QueueTypes
  <2> QED
    BY <1>4, <2>1, QueueKept
<1> QED
  BY <1>4, <1>12, <1>13, OutputKept, InterfaceStutters

\* A message is taken from the wire.
LEMMA ReceiveMessageImplements ==
  ASSUME IInv, NEW p \in Peer, NEW attached \in BOOLEAN, receive_metadata(p, attached),
         ~ Head(meta[p]).marker
  PROVE  UNCHANGED MPE!vars
<1> DEFINE m == Head(meta[p])
           new == Arriving(m, next_arrival, attached)
           a == Keys(in_transit[p])
           b == Keys(incoming[p])
           d == Keys(meta[p])
<1>1. /\ next_arrival \in Nat /\ meta[p] \in Seq(Metadata) /\ incoming[p] \in Seq(MsgRecord)
  BY PeerTypes
<1>2. meta[p] # <<>> /\ ~ FullyDone(p)
  BY DEF receive_metadata, poll
<1>3. ~ peer_terminated[p]
  BY <1>2, ArrivedBefore
<1>4. /\ meta' = [meta EXCEPT ![p] = Tail(@)]
      /\ incoming' = [incoming EXCEPT ![p] = Append(@, new)]
      /\ UNCHANGED <<peer_terminated, pexch, exch, in_transit, received, delivered>>
  BY DEF receive_metadata, peerVars, Arriving
<1>5. m \in MsgRecord
  <2>1. m \in Metadata
    BY <1>1, <1>2, HeadAndTail
  <2> QED
    BY <2>1, Spot
<1>6. new \in MsgRecord /\ NameOf(new) = NameOf(m)
  <2> HIDE DEF m
  <2>1. new \in MsgRecord /\ new.exch = m.exch /\ new.id = m.id
    BY <1>1, <1>5, ArrivingFields
  <2>2. NameOf(new) = Key(new) /\ NameOf(m) = Key(m)
    BY <1>5, <2>1, NameIs
  <2> QED
    BY <2>1, <2>2 DEF Key
<1> HIDE DEF new
<1>7. d # <<>> /\ First(d) = NameOf(m) /\ Keys(Tail(meta[p])) = Rest(d)
  BY <1>1, <1>2, KeysMove DEF First, Rest
<1>8. a \in Seq(Spots) /\ b \in Seq(Spots) /\ d \in Seq(Spots) /\ incoming[p] \in Seq(Metadata)
  BY QueueParts
<1>9. Keys(Append(incoming[p], new)) = Push(b, First(d))
  <2>1. new \in Metadata
    BY <1>6 DEF Metadata
  <2>2. Keys(Append(incoming[p], new)) = Append(b, NameOf(new))
    BY <1>8, <2>1, KeysMove
  <2> QED
    BY <1>6, <1>7, <2>2 DEF Push
<1>10. meta'[p] = Tail(meta[p]) /\ incoming'[p] = Append(incoming[p], new)
  BY <1>4 DEF IInv, QueueTypes
<1>11. Queue(p) = Joined(a, b, <<>>, d) /\ Queue(p)' = Joined(a, Push(b, First(d)), <<>>, Rest(d))
  <2>1. Ending(p) = <<>> /\ Ending(p)' = <<>>
    BY <1>3, <1>4 DEF Ending
  <2>2. /\ Keys(meta[p])' = Rest(d) /\ Keys(in_transit[p])' = a
        /\ Keys(incoming[p])' = Push(b, First(d))
    BY <1>4, <1>7, <1>9, <1>10
  <2> QED
    BY <2>1, <2>2 DEF Queue
<1> HIDE DEF a, b, d
<1>12. Queue(p)' = Queue(p)
  BY <1>7, <1>8, <1>11, JoinedTake
<1>13. ASSUME NEW q \in Peer, q # p PROVE Queue(q)' = Queue(q)
  <2>1. meta'[q] = meta[q] /\ incoming'[q] = incoming[q]
    BY <1>4, <1>13 DEF IInv, QueueTypes
  <2> QED
    BY <1>4, <2>1, QueueKept
<1> QED
  BY <1>4, <1>12, <1>13, OutputKept, InterfaceStutters

\* A buffer is attached, by force or not: the names stay.
LEMMA AttachImplements ==
  ASSUME IInv, NEW p \in Peer, NEW i \in DOMAIN incoming[p], NEW forced \in BOOLEAN,
         attach(p, i, forced),
         UNCHANGED <<pexch, meta, exch, in_transit, received, delivered, peer_terminated>>
  PROVE  UNCHANGED MPE!vars
<1> DEFINE m == incoming[p][i]
           g == Given(m, forced)
           r == [incoming[p] EXCEPT ![i] = g]
<1>1. incoming[p] \in Seq(MsgRecord) /\ m \in MsgRecord
  BY PeerTypes
<1>2. g \in MsgRecord /\ NameOf(g) = NameOf(m)
  <2> HIDE DEF m
  <2>1. g \in MsgRecord /\ g.exch = m.exch /\ g.id = m.id
    BY <1>1, GivenFields
  <2>2. NameOf(g) = Key(g) /\ NameOf(m) = Key(m)
    BY <1>1, <2>1, NameIs
  <2> QED
    BY <2>1, <2>2 DEF Key
<1>3. /\ r \in Seq(MsgRecord) /\ Len(r) = Len(incoming[p])
      /\ r[i] = g /\ \A j \in DOMAIN incoming[p] : j # i => r[j] = incoming[p][j]
  <2>1. r \in Seq(MsgRecord) /\ Len(r) = Len(incoming[p])
    BY <1>1, <1>2, ExceptSeq
  <2> QED
    BY <1>1, <2>1
<1>4. incoming' = [incoming EXCEPT ![p] = r]
  BY DEF attach, Given, IInv, QueueTypes
<1> HIDE DEF g, r
<1>5. Keys(r) = Keys(incoming[p])
  <2> DEFINE q == incoming[p]
  <2>1. r \in Seq(Metadata) /\ q \in Seq(Metadata)
    BY <1>1, <1>3, MessagesAreMetadata
  <2>2. /\ Len(r) = Len(q) /\ r[i] = g /\ NameOf(g) = NameOf(q[i])
        /\ \A j \in DOMAIN q : j # i => r[j] = q[j]
    BY <1>2, <1>3
  <2> HIDE DEF q
  <2>3. /\ Keys(r) \in Seq(Spots) /\ Len(Keys(r)) = Len(q)
        /\ \A j \in 1 .. Len(q) : Keys(r)[j] = NameOf(r[j])
    BY <2>1, <2>2, KeysAre
  <2>4. /\ Keys(q) \in Seq(Spots) /\ Len(Keys(q)) = Len(q) /\ DOMAIN q = 1 .. Len(q)
        /\ \A j \in 1 .. Len(q) : Keys(q)[j] = NameOf(q[j])
    BY <2>1, KeysAre
  <2>5. \A j \in 1 .. Len(q) : Keys(r)[j] = Keys(q)[j]
    BY <2>2, <2>3, <2>4
  <2>6. Keys(r) = Keys(q)
    BY <2>3, <2>4, <2>5, SeqEqual
  <2> QED
    BY <2>6 DEF q
<1>6. incoming'[p] = r /\ \A q \in Peer : q # p => incoming'[q] = incoming[q]
  BY <1>4 DEF IInv, QueueTypes
<1>7. Queue(p)' = Queue(p)
  BY <1>5, <1>6 DEF Queue, Ending
<1>8. \A q \in Peer : q # p => Queue(q)' = Queue(q)
  BY <1>6, QueueKept
<1> QED
  BY <1>7, <1>8, OutputKept, InterfaceStutters

\* A receive is posted.
LEMMA SetupReceiveImplements ==
  ASSUME IInv, NEW p \in Peer, setup_receive(p)
  PROVE  UNCHANGED MPE!vars
<1> DEFINE h == Head(incoming[p])
           m == Posted(h, Head(data[p]))
           a == Keys(in_transit[p])
           b == Keys(incoming[p])
           c == Ending(p)
           d == Keys(meta[p])
<1>1. incoming[p] \in Seq(MsgRecord) /\ data[p] \in Seq(Spots)
  BY PeerTypes
<1>2. /\ incoming[p] # <<>> /\ data[p] # <<>>
      /\ in_transit' = [in_transit EXCEPT ![p] = Append(@, m)]
      /\ incoming' = [incoming EXCEPT ![p] = Tail(@)]
      /\ UNCHANGED <<pexch, meta, exch, received, delivered, peer_terminated>>
  BY DEF setup_receive, Posted, peerVars, termVars
<1>3. h \in MsgRecord /\ Head(data[p]) \in Spots
  BY <1>1, <1>2, HeadAndTail
<1>4. m \in MsgRecord /\ NameOf(m) = NameOf(h)
  <2> HIDE DEF h
  <2>1. m \in MsgRecord /\ Key(m) = Key(h)
    BY <1>3, PostedFields
  <2> QED
    BY <1>3, <2>1, NameIs
<1> HIDE DEF m
<1>5. /\ a \in Seq(Spots) /\ b \in Seq(Spots) /\ c \in Seq(Spots) /\ d \in Seq(Spots)
      /\ incoming[p] \in Seq(Metadata) /\ in_transit[p] \in Seq(Metadata)
  BY QueueParts
<1>6. b # <<>> /\ First(b) = NameOf(h) /\ Keys(Tail(incoming[p])) = Rest(b)
  BY <1>2, <1>5, KeysMove DEF First, Rest
<1>7. Keys(Append(in_transit[p], m)) = Push(a, First(b))
  <2>1. m \in Metadata
    BY <1>4 DEF Metadata
  <2>2. Keys(Append(in_transit[p], m)) = Append(a, NameOf(m))
    BY <1>5, <2>1, KeysMove
  <2> QED
    BY <1>4, <1>6, <2>2 DEF Push
<1>8. in_transit'[p] = Append(in_transit[p], m) /\ incoming'[p] = Tail(incoming[p])
  BY <1>2 DEF IInv, QueueTypes
<1>9. Queue(p) = Joined(a, b, c, d) /\ Queue(p)' = Joined(Push(a, First(b)), Rest(b), c, d)
  <2>1. /\ Keys(in_transit[p])' = Push(a, First(b)) /\ Keys(incoming[p])' = Rest(b)
        /\ Ending(p)' = c /\ Keys(meta[p])' = d
    BY <1>2, <1>6, <1>7, <1>8 DEF Ending
  <2> QED
    BY <2>1 DEF Queue
<1> HIDE DEF a, b, c, d
<1>10. Queue(p)' = Queue(p)
  BY <1>5, <1>6, <1>9, JoinedPost
<1>11. ASSUME NEW q \in Peer, q # p PROVE Queue(q)' = Queue(q)
  <2>1. in_transit'[q] = in_transit[q] /\ incoming'[q] = incoming[q]
    BY <1>2, <1>11 DEF IInv, QueueTypes
  <2> QED
    BY <1>2, <2>1, QueueKept
<1> QED
  BY <1>2, <1>10, <1>11, OutputKept, InterfaceStutters

\* Messages are handed out, n[q] of each peer q.
LEMMA ProgressImplements ==
  ASSUME NEW n \in [Peer -> 0 .. MaxId], UNCHANGED <<exch, pexch>>,
         \A q \in Peer : n[q] <= Len(Queue(q)),
         \A q \in Peer : \A i \in 1 .. n[q] : Queue(q)[i][1] = exch /\ Queue(q)[i] # <<exch, 0>>,
         \A q \in Peer : Keys(Out(q))' = Keys(Out(q)) \o FirstN(Queue(q), n[q]),
         \A q \in Peer : Queue(q)' = Drop(Queue(q), n[q])
  PROVE  MPE!Next
<1>1. \A q \in Peer : Queues[q] = Queue(q) /\ Outputs[q] = Keys(Out(q))
  BY DEF Queues, Outputs
<1>2. /\ \A q \in Peer : n[q] <= Len(Queues[q])
      /\ \A q \in Peer : \A i \in 1 .. n[q] : Queues[q][i][1] = exch /\ Queues[q][i] # <<exch, 0>>
  BY <1>1
<1>3. Outputs' = [q \in Peer |-> Outputs[q] \o SubSeq(Queues[q], 1, n[q])]
  BY <1>1 DEF Outputs, FirstN
<1>4. Queues' = [q \in Peer |-> SubSeq(Queues[q], n[q] + 1, Len(Queues[q]))]
  BY <1>1 DEF Queues, Drop
<1>5. /\ Queues = [p \in Peer |->
            Keys(in_transit[p]) \o (Keys(incoming[p]) \o (Ending(p) \o Keys(meta[p])))]
      /\ Queues' = [p \in Peer |->
            Keys(in_transit[p]) \o (Keys(incoming[p]) \o (Ending(p) \o Keys(meta[p])))]'
  BY DEF Queues, Queue, Joined
<1>6. Outputs = [p \in Peer |-> Keys(Out(p))] /\ Outputs' = [p \in Peer |-> Keys(Out(p))]'
  BY DEF Outputs
<1>7. MPE!progress(n)
  BY <1>2, <1>3, <1>4, <1>5, <1>6 DEF MPE!progress, MPE!End
<1>8. (\A q \in Peer : n[q] <= Len(Queues[q])) /\ MPE!progress(n)
  BY <1>2, <1>7
<1> QED
  BY <1>5, <1>8 DEF MPE!Next

\* A peer of which nothing is handed out.
LEMMA TakeNothing ==
  ASSUME NEW S, NEW q \in Seq(S), NEW o \in Seq(S)
  PROVE  o \o FirstN(q, 0) = o /\ Drop(q, 0) = q /\ 0 <= Len(q)
<1>1. FirstN(q, 0) = <<>> /\ Drop(q, 0) = q
  BY SubSeqEmpty, SubSeqFull DEF FirstN, Drop
<1> QED
  BY <1>1, ConcatEmptySeq

\* A message without a payload is handed out.
LEMMA SetupMetadataOnlyImplements ==
  ASSUME IInv, NEW p \in Peer, setup_metadata_only(p)
  PROVE  MPE!Next
<1> DEFINE m == Head(incoming[p])
           n == [q \in Peer |-> IF q = p THEN 1 ELSE 0]
           b == Keys(incoming[p])
           c == Ending(p)
           d == Keys(meta[p])
           o == Keys(Out(p))
<1>1. /\ incoming[p] \in Seq(MsgRecord) /\ Out(p) \in Seq(MsgRecord)
      /\ received[p] \in Seq(MsgRecord) /\ delivered[p] \in Seq(MsgRecord)
      /\ in_transit[p] \in Seq(MsgRecord)
      /\ PeerInv(p) /\ exch \in Nat
  BY PeerTypes
<1>2. /\ incoming[p] # <<>> /\ in_transit[p] = <<>>
      /\ received' = [received EXCEPT ![p] = Append(@, m)]
      /\ incoming' = [incoming EXCEPT ![p] = Tail(@)]
      /\ UNCHANGED <<pexch, meta, exch, in_transit, delivered, peer_terminated>>
  BY DEF setup_metadata_only, peerVars, termVars
<1>3. m \in MsgRecord /\ m.exch = exch /\ m.id # 0 /\ m \in Metadata /\ MaxId \in Nat /\ 1 <= MaxId
  <2>1. m \in MsgRecord
    BY <1>1, <1>2, HeadAndTail
  <2>2. m.exch = exch
    <3>1. Numbering(exch, Out(p), in_transit[p], incoming[p], peer_received[p])
      BY <1>1 DEF PeerInv
    <3>2. 1 \in DOMAIN incoming[p] /\ m = incoming[p][1]
      BY <1>1, <1>2, HeadAndTail
    <3> QED
      BY <3>1, <3>2 DEF Numbering, Numbered
  <2> QED
    BY <2>1, <2>2, MsgNumbers, MaxIdBound DEF Metadata
<1>4. Out(p)' = Append(Out(p), m)
  <2>1. received'[p] = Append(received[p], m)
    BY <1>2 DEF IInv, QueueTypes
  <2> DEFINE u == delivered[p]
             v == received[p]
  <2>2. u \in Seq(MsgRecord) /\ v \in Seq(MsgRecord)
    BY <1>1
  <2>3. Out(p) = u \o v /\ Out(p)' = u \o Append(v, m)
    BY <1>2, <2>1 DEF Out
  <2> HIDE DEF u, v, m
  <2>4. u \o Append(v, m) = Append(u \o v, m)
    BY <1>3, <2>2, ConcatAppend
  <2> QED
    BY <2>3, <2>4
<1> HIDE DEF m
<1>5. /\ b \in Seq(Spots) /\ c \in Seq(Spots) /\ d \in Seq(Spots) /\ o \in Seq(Spots)
      /\ incoming[p] \in Seq(Metadata) /\ Out(p) \in Seq(Metadata)
  BY QueueParts
<1>6. b # <<>> /\ Head(b) = NameOf(m) /\ Keys(Tail(incoming[p])) = Tail(b)
  BY <1>2, <1>5, KeysMove DEF m
<1>7. Keys(in_transit[p]) = <<>> /\ Keys(in_transit[p])' = <<>>
  BY <1>2 DEF Keys
<1>8. Queue(p) = Joined(<<>>, b, c, d) /\ Queue(p)' = Joined(<<>>, Tail(b), c, d)
  <2>1. incoming'[p] = Tail(incoming[p])
    BY <1>2 DEF IInv, QueueTypes
  <2>2. Keys(incoming[p])' = Tail(b) /\ Ending(p)' = c /\ Keys(meta[p])' = d
    BY <1>2, <1>6, <2>1 DEF Ending
  <2> QED
    BY <1>7, <2>2 DEF Queue
<1>9. Keys(Out(p))' = o \o <<NameOf(m)>>
  <2>1. Keys(Append(Out(p), m)) = Append(o, NameOf(m))
    BY <1>3, <1>5, KeysMove
  <2>2. NameOf(m) \in Spots
    BY <1>3, NameIs
  <2> HIDE DEF o
  <2>3. Append(o, NameOf(m)) = o \o <<NameOf(m)>>
    BY <1>5, <2>2, AppendIsConcat
  <2> QED
    BY <1>4, <2>1, <2>3
<1>10. NameOf(m)[1] = exch /\ NameOf(m) # <<exch, 0>>
  <2>1. NameOf(m) = <<m.exch, m.id>>
    BY <1>3, NameIs DEF Key
  <2> QED
    BY <1>3, <2>1
<1> HIDE DEF b, c, d, o
<1>11. /\ FirstN(Queue(p), 1) = <<NameOf(m)>> /\ Queue(p)' = Drop(Queue(p), 1)
       /\ 1 <= Len(Queue(p)) /\ Queue(p)[1] = NameOf(m)
  <2> DEFINE z == Joined(<<>>, b, c, d)
  <2>1. /\ SubSeq(z, 1, 1) = <<Head(b)>>
        /\ SubSeq(z, 2, Len(z)) = Joined(<<>>, Tail(b), c, d)
        /\ 1 <= Len(z) /\ z[1] = Head(b)
    BY <1>5, <1>6, JoinedFirst
  <2>2. 1 + 1 = 2
    OBVIOUS
  <2> HIDE DEF z
  <2>3. Queue(p) = z
    BY <1>8 DEF z
  <2> QED
    BY <1>6, <1>8, <2>1, <2>2, <2>3 DEF FirstN, Drop
<1>12. ASSUME NEW q \in Peer
       PROVE  /\ n[q] <= Len(Queue(q))
              /\ \A i \in 1 .. n[q] : Queue(q)[i][1] = exch /\ Queue(q)[i] # <<exch, 0>>
              /\ Keys(Out(q))' = Keys(Out(q)) \o FirstN(Queue(q), n[q])
              /\ Queue(q)' = Drop(Queue(q), n[q])
  <2>1. CASE q = p
    <3>1. n[q] = 1
      BY <2>1
    <3>2. \A i \in 1 .. 1 : Queue(p)[i][1] = exch /\ Queue(p)[i] # <<exch, 0>>
      <4>1. \A i \in 1 .. 1 : i = 1
        OBVIOUS
      <4>2. Queue(p)[1][1] = exch /\ Queue(p)[1] # <<exch, 0>>
        BY <1>10, <1>11
      <4> QED
        BY <4>1, <4>2
    <3>3. Keys(Out(p))' = Keys(Out(p)) \o FirstN(Queue(p), 1)
      BY <1>9, <1>11 DEF o
    <3> HIDE DEF n
    <3> QED
      BY <1>11, <2>1, <3>1, <3>2, <3>3
  <2>2. CASE q # p
    <3>1. n[q] = 0 /\ 1 .. 0 = {}
      BY <2>2
    <3>2. incoming'[q] = incoming[q] /\ received'[q] = received[q]
      BY <1>2, <2>2 DEF IInv, QueueTypes
    <3>3. Queue(q)' = Queue(q) /\ Keys(Out(q))' = Keys(Out(q))
      BY <1>2, <3>2, QueueKept DEF Out
    <3>4. Queue(q) \in Seq(Spots) /\ Keys(Out(q)) \in Seq(Spots)
      BY QueueParts
    <3> DEFINE x == Queue(q)
               y == Keys(Out(q))
    <3>5. x \in Seq(Spots) /\ y \in Seq(Spots)
      BY <3>4
    <3> HIDE DEF x, y, n
    <3>6. y \o FirstN(x, 0) = y /\ Drop(x, 0) = x /\ 0 <= Len(x)
      BY <3>5, TakeNothing
    <3> QED
      BY <3>1, <3>3, <3>6 DEF x, y
  <2> QED
    BY <2>1, <2>2
<1>13. n \in [Peer -> 0 .. MaxId]
  BY <1>3
<1> HIDE DEF n
<1> QED
  BY <1>2, <1>12, <1>13, ProgressImplements

\* The transfers that are complete, up to the first one of a peer that is not.
LEMMA CompleteDataTransfersImplements ==
  ASSUME IInv, NEW reported \in [Peer -> SUBSET (1 .. MaxId)], complete_data_transfers(reported)
  PROVE  MPE!Next
<1> DEFINE k(q) == CompletePrefix(q, reported)
           n == [q \in Peer |-> k(q)]
<1>1. /\ received' = [q \in Peer |-> received[q] \o SubSeq(in_transit[q], 1, k(q))]
      /\ in_transit' = [q \in Peer |-> SubSeq(in_transit[q], k(q) + 1, Len(in_transit[q]))]
      /\ UNCHANGED <<pexch, meta, exch, incoming, delivered, peer_terminated>>
  BY DEF complete_data_transfers, peerVars, termVars
<1> HIDE DEF k
<1>2. ASSUME NEW q \in Peer
      PROVE  /\ n[q] \in 0 .. MaxId /\ n[q] <= Len(Queue(q))
             /\ \A i \in 1 .. n[q] : Queue(q)[i][1] = exch /\ Queue(q)[i] # <<exch, 0>>
             /\ Keys(Out(q))' = Keys(Out(q)) \o FirstN(Queue(q), n[q])
             /\ Queue(q)' = Drop(Queue(q), n[q])
  <2> DEFINE t == in_transit[q]
             j == n[q]
             a == Keys(in_transit[q])
             b == Keys(incoming[q])
             c == Ending(q)
             d == Keys(meta[q])
             first == SubSeq(t, 1, j)
             rest == SubSeq(t, j + 1, Len(t))
  <2>1. /\ PeerInv(q) /\ exch \in Nat /\ t \in Seq(MsgRecord) /\ incoming[q] \in Seq(MsgRecord)
        /\ received[q] \in Seq(MsgRecord) /\ delivered[q] \in Seq(MsgRecord)
        /\ Out(q) \in Seq(MsgRecord)
    BY PeerTypes
  <2>2. j \in 0 .. Len(t) /\ j = k(q)
    BY <2>1, CompletePrefixIs DEF k
  <2>3. Len(t) <= MaxId /\ \A i \in DOMAIN t : t[i].exch = exch
    <3> DEFINE x == Len(Out(q))
               y == Len(t)
               z == Len(incoming[q])
               r == peer_received[q]
    <3>1. r = x + y + z
      BY <2>1 DEF PeerInv, Numbering
    <3>2. r \in 0 .. MaxId /\ MaxId \in Nat
      BY MaxIdBound DEF IInv, Types
    <3>3. x \in Nat /\ y \in Nat /\ z \in Nat
      BY <2>1
    <3>4. \A i \in DOMAIN t : t[i].exch = exch
      BY <2>1 DEF PeerInv, Numbering, Numbered
    <3> HIDE DEF x, y, z, r
    <3>5. y <= MaxId
      BY <3>1, <3>2, <3>3
    <3> QED
      BY <3>4, <3>5 DEF y
  <2>4. j \in 0 .. MaxId
    BY <2>1, <2>2, <2>3, MaxIdBound
  <2>5. received'[q] = received[q] \o first /\ in_transit'[q] = rest
    BY <1>1
  <2> HIDE DEF j, n
  <2>6. first \in Seq(MsgRecord) /\ rest \in Seq(MsgRecord)
    BY <2>1, <2>2, SplitProperties
  <2>7. t \in Seq(Metadata) /\ first \in Seq(Metadata)
    BY <2>1, <2>6, MessagesAreMetadata
  <2>8. Keys(first) = FirstN(a, j) /\ Keys(rest) = Drop(a, j) /\ Len(a) = Len(t)
    BY <2>2, <2>7, KeysCut, KeysAre DEF FirstN, Drop
  <2>9. \A i \in 1 .. j : a[i][1] = exch /\ a[i] # <<exch, 0>>
    <3> SUFFICES ASSUME NEW i \in 1 .. j PROVE a[i][1] = exch /\ a[i] # <<exch, 0>>
      OBVIOUS
    <3>1. i \in 1 .. Len(t) /\ i \in DOMAIN t /\ t[i] \in MsgRecord
      BY <2>1, <2>2
    <3>2. a[i] = NameOf(t[i])
      BY <2>7, <3>1, KeysAre
    <3>3. NameOf(t[i]) = <<t[i].exch, t[i].id>> /\ t[i].id # 0
      BY <3>1, NameIs DEF Key
    <3> QED
      BY <2>3, <3>1, <3>2, <3>3
  <2>10. Keys(Out(q))' = Keys(Out(q)) \o FirstN(a, j)
    <3> DEFINE u == delivered[q]
               v == received[q]
    <3>1. Out(q)' = u \o (v \o first) /\ Out(q) = u \o v
      BY <1>1, <2>5 DEF Out
    <3>2. u \in Seq(MsgRecord) /\ v \in Seq(MsgRecord)
      BY <2>1
    <3> HIDE DEF u, v, first
    <3>3. (u \o v) \o first = u \o (v \o first)
      BY <2>6, <3>2, ConcatAssociative
    <3>4. Out(q)' = Out(q) \o first
      BY <3>1, <3>3
    <3>5. Out(q) \in Seq(Metadata)
      BY QueueParts
    <3>6. Keys(Out(q) \o first) = Keys(Out(q)) \o Keys(first)
      BY <2>7, <3>5, KeysConcat
    <3> QED
      BY <2>8, <3>4, <3>6
  <2>11. Queue(q) = Joined(a, b, c, d) /\ Queue(q)' = Joined(Drop(a, j), b, c, d)
    <3>1. Keys(in_transit[q])' = Drop(a, j)
      BY <2>5, <2>8
    <3>2. Keys(incoming[q])' = b /\ Ending(q)' = c /\ Keys(meta[q])' = d
      BY <1>1 DEF Ending
    <3> QED
      BY <3>1, <3>2 DEF Queue
  <2>12. /\ a \in Seq(Spots) /\ b \in Seq(Spots) /\ c \in Seq(Spots) /\ d \in Seq(Spots)
         /\ j \in 0 .. Len(a)
    BY <2>2, <2>8, QueueParts
  <2> HIDE DEF a, b, c, d, t, first, rest
  <2>13. /\ FirstN(Joined(a, b, c, d), j) = FirstN(a, j)
         /\ Drop(Joined(a, b, c, d), j) = Joined(Drop(a, j), b, c, d)
         /\ j <= Len(Joined(a, b, c, d))
         /\ \A i \in 1 .. j : Joined(a, b, c, d)[i] = a[i]
    BY <2>12, JoinedCompletes
  <2>14. /\ j \in 0 .. MaxId /\ j <= Len(Queue(q))
         /\ \A i \in 1 .. j : Queue(q)[i][1] = exch /\ Queue(q)[i] # <<exch, 0>>
         /\ Keys(Out(q))' = Keys(Out(q)) \o FirstN(Queue(q), j)
         /\ Queue(q)' = Drop(Queue(q), j)
    BY <2>4, <2>9, <2>10, <2>11, <2>13
  <2> QED
    BY <2>14 DEF j
<1>3. n \in [Peer -> 0 .. MaxId]
  <2>1. \A q \in Peer : n[q] \in 0 .. MaxId
    BY <1>2
  <2>2. n = [q \in Peer |-> n[q]]
    OBVIOUS
  <2> HIDE DEF n
  <2> QED
    BY <2>1, <2>2
<1> HIDE DEF n
<1> QED
  BY <1>1, <1>2, <1>3, ProgressImplements

\* The exchange is idle: of every peer only the mark is left, and the next exchange begins.
LEMMA NextExchangeImplements ==
  ASSUME IInv, next_exchange
  PROVE  MPE!Next
<1>1. /\ pc = "out" /\ finished /\ is_idle
      /\ exch' = exch + 1
      /\ delivered' = [p \in Peer |-> <<>>]
      /\ peer_terminated' = [p \in Peer |-> FALSE]
      /\ UNCHANGED <<pexch, meta, incoming, in_transit, received>>
  BY DEF next_exchange, peerVars
<1>2. ASSUME NEW q \in Peer
      PROVE  /\ Queue(q) # <<>> /\ Head(Queue(q)) = <<exch, 0>> /\ Queue(q)' = Tail(Queue(q))
             /\ Keys(Out(q))' = <<>>
  <2> DEFINE e == <<exch, 0>>
             d == Keys(meta[q])
  <2>1. incoming[q] = <<>> /\ in_transit[q] = <<>> /\ peer_terminated[q]
    BY <1>1 DEF is_idle, FullyDone
  <2>2. received[q] = <<>>
    BY <1>1 DEF IInv, RankInv
  <2>3. Keys(<<>>) = <<>>
    BY DEF Keys
  <2>4. Ending(q) = <<e>> /\ Ending(q)' = <<>>
    BY <1>1, <2>1 DEF Ending
  <2>5. Queue(q) = Joined(<<>>, <<>>, <<e>>, d) /\ Queue(q)' = Joined(<<>>, <<>>, <<>>, d)
    BY <1>1, <2>1, <2>3, <2>4 DEF Queue
  <2>6. e \in Spots /\ d \in Seq(Spots)
    BY QueueParts DEF Spots
  <2>7. Out(q)' = <<>>
    BY <1>1, <2>2 DEF Out
  <2> HIDE DEF e, d
  <2>8. /\ Joined(<<>>, <<>>, <<e>>, d) # <<>> /\ Head(Joined(<<>>, <<>>, <<e>>, d)) = e
        /\ Tail(Joined(<<>>, <<>>, <<e>>, d)) = d /\ Joined(<<>>, <<>>, <<>>, d) = d
    BY <2>6, JoinedEnd
  <2>9. /\ Queue(q) # <<>> /\ Head(Queue(q)) = e /\ Queue(q)' = Tail(Queue(q))
    BY <2>5, <2>8
  <2> QED
    BY <2>3, <2>7, <2>9 DEF e
<1>3. \A q \in Peer : Queues[q] = Queue(q)
  BY DEF Queues
<1>4. \A q \in Peer : Queues[q] # <<>> /\ Head(Queues[q]) = <<exch, 0>>
  BY <1>2, <1>3
<1>5. Queues' = [q \in Peer |-> Tail(Queues[q])] /\ Outputs' = [q \in Peer |-> <<>>]
  BY <1>2, <1>3 DEF Queues, Outputs
<1>6. /\ Queues = [p \in Peer |->
            Keys(in_transit[p]) \o (Keys(incoming[p]) \o (Ending(p) \o Keys(meta[p])))]
      /\ Queues' = [p \in Peer |->
            Keys(in_transit[p]) \o (Keys(incoming[p]) \o (Ending(p) \o Keys(meta[p])))]'
  BY DEF Queues, Queue, Joined
<1>7. Outputs = [p \in Peer |-> Keys(Out(p))] /\ Outputs' = [p \in Peer |-> Keys(Out(p))]'
  BY DEF Outputs
<1>8. MPE!next_exchange
  BY <1>1, <1>4, <1>5, <1>6, <1>7 DEF MPE!next_exchange, MPE!End
<1> QED
  BY <1>8 DEF MPE!Next

\* recv() hands over what has been counted as out.
LEMMA RecvImplements ==
  ASSUME IInv, recv
  PROVE  UNCHANGED MPE!vars
<1>1. /\ delivered' = [p \in Peer |-> delivered[p] \o received[p]]
      /\ received' = [p \in Peer |-> <<>>]
      /\ UNCHANGED <<pexch, meta, exch, incoming, in_transit, peer_terminated>>
  BY DEF recv, peerVars, termVars
<1>2. ASSUME NEW q \in Peer PROVE Out(q)' = Out(q)
  <2>1. Out(q)' = Out(q) \o <<>>
    BY <1>1 DEF Out
  <2>2. Out(q) \in Seq(MsgRecord)
    BY PeerTypes
  <2> QED
    BY <2>1, <2>2, ConcatEmptySeq
<1>3. \A q \in Peer : Queue(q)' = Queue(q)
  BY <1>1, QueueKept
<1>4. \A q \in Peer : Keys(Out(q))' = Keys(Out(q))
  BY <1>2
<1> QED
  BY <1>1, <1>3, <1>4, InterfaceStutters

\* A step that moves no message.
LEMMA ControlImplements ==
  ASSUME UNCHANGED <<pexch, meta, exch, incoming, in_transit, received, delivered, peer_terminated>>
  PROVE  UNCHANGED MPE!vars
<1>1. \A q \in Peer : Queue(q)' = Queue(q)
  BY QueueKept
<1> QED
  BY <1>1, OutputKept, InterfaceStutters

LEMMA StepImplements == IInv /\ [Next]_vars => [MPE!Next]_(MPE!vars)
<1> SUFFICES ASSUME IInv, [Next]_vars PROVE MPE!Next \/ UNCHANGED MPE!vars
  OBVIOUS
<1>1. CASE UNCHANGED vars
  BY <1>1, ControlImplements DEF vars, peerVars, termVars
<1>2. ASSUME NEW p \in Peer, NEW payload \in BOOLEAN, peer_send(p, payload) PROVE MPE!Next
  BY <1>2, PeerSendImplements
<1>3. ASSUME NEW p \in Peer, peer_finish(p) PROVE MPE!Next
  BY <1>3, PeerFinishImplements
<1>4. ASSUME NEW p \in Peer, NEW id \in 1 .. MaxId, transfer_done(p, id)
      PROVE  UNCHANGED MPE!vars
  BY <1>4, ControlImplements DEF transfer_done, peerVars, termVars
<1>5. CASE progress
  BY <1>5, ControlImplements DEF progress, peerVars, termVars
<1>6. ASSUME NEW p \in Peer, NEW attached \in BOOLEAN, receive_metadata(p, attached)
      PROVE  UNCHANGED MPE!vars
  BY <1>6, ReceiveMarkerImplements, ReceiveMessageImplements
<1>7. ASSUME NEW p \in Peer, receive_nothing(p) \/ setup_break(p) PROVE UNCHANGED MPE!vars
  BY <1>7, ControlImplements DEF receive_nothing, setup_break, peerVars, termVars
<1>8. CASE force_not_due
  BY <1>8, ControlImplements DEF force_not_due, peerVars, termVars
<1>9. ASSUME NEW forced \in BOOLEAN, force_allocation(forced) PROVE UNCHANGED MPE!vars
  <2>1. \E p \in Peer : oldest(p)
    BY <1>9, OldestExists DEF force_allocation
  <2>2. PICK p \in Peer : oldest(p) /\ attach(p, FirstAwaiting(p), forced)
    BY <1>9, <2>1 DEF force_allocation
  <2>3. FirstAwaiting(p) \in DOMAIN incoming[p]
    BY <2>2, FirstAwaitingIs DEF oldest
  <2>4. UNCHANGED <<pexch, meta, exch, in_transit, received, delivered, peer_terminated>>
    BY <1>9 DEF force_allocation, peerVars, termVars
  <2> DEFINE i == FirstAwaiting(p)
  <2>5. i \in DOMAIN incoming[p] /\ attach(p, i, forced)
    BY <2>2, <2>3
  <2> HIDE DEF i
  <2> QED
    BY <2>4, <2>5, AttachImplements
<1>10. ASSUME NEW p \in Peer, setup_metadata_only(p) PROVE MPE!Next
  BY <1>10, SetupMetadataOnlyImplements
<1>11. ASSUME NEW p \in Peer, setup_allocate(p) PROVE UNCHANGED MPE!vars
  <2>1. incoming[p] \in Seq(MsgRecord) /\ incoming[p] # <<>>
    BY <1>11, PeerTypes DEF setup_allocate
  <2>2. 1 \in DOMAIN incoming[p]
    BY <2>1
  <2>3. /\ attach(p, 1, FALSE)
        /\ UNCHANGED <<pexch, meta, exch, in_transit, received, delivered, peer_terminated>>
    BY <1>11 DEF setup_allocate, peerVars, termVars
  <2> QED
    BY <2>2, <2>3, AttachImplements
<1>12. ASSUME NEW p \in Peer, setup_receive(p) PROVE UNCHANGED MPE!vars
  BY <1>12, SetupReceiveImplements
<1>13. ASSUME NEW reported \in [Peer -> SUBSET (1 .. MaxId)], complete_data_transfers(reported)
       PROVE  MPE!Next
  BY <1>13, CompleteDataTransfersImplements
<1>14. ASSUME NEW sent \in BOOLEAN, cleanup_completed_operations(sent) PROVE UNCHANGED MPE!vars
  BY <1>14, ControlImplements DEF cleanup_completed_operations, peerVars, termVars
<1>15. CASE recv
  BY <1>15, RecvImplements
<1>16. CASE finish
  BY <1>16, ControlImplements DEF finish, peerVars, termVars
<1>17. CASE next_exchange
  BY <1>17, NextExchangeImplements
<1>18. CASE ThreadStep
  BY <1>5, <1>6, <1>7, <1>8, <1>9, <1>10, <1>11, <1>12, <1>13, <1>14, <1>15, <1>16, <1>17,
     <1>18 DEF ThreadStep
<1> QED
  BY <1>1, <1>2, <1>3, <1>4, <1>18 DEF Next

LEMMA InitImplements == Init => MPE!Init
<1> SUFFICES ASSUME Init PROVE MPE!Init
  OBVIOUS
<1>1. Keys(<<>>) = <<>> /\ <<>> \o <<>> = <<>>
  BY DEF Keys
<1>2. ASSUME NEW p \in Peer
      PROVE  /\ Keys(in_transit[p]) = <<>> /\ Keys(incoming[p]) = <<>> /\ Keys(meta[p]) = <<>>
             /\ Ending(p) = <<>> /\ Keys(Out(p)) = <<>>
  BY <1>1 DEF Init, Ending, Out
<1>3. Queues = [p \in Peer |-> <<>>] /\ Outputs = [p \in Peer |-> <<>>]
  BY <1>1, <1>2 DEF Queues, Outputs, Queue, Joined
<1> QED
  BY <1>3 DEF Init, MPE!Init, Queues, Outputs, Queue, Joined

(***************************************************************************)
(* TagMetadataPayloadExchange implements MetadataPayloadExchange: whatever *)
(* the allocator refuses and in whatever order transfers complete, the     *)
(* messages of a peer leave one FIFO queue in order, each exchange gets    *)
(* exactly those between two marks, and the op_id is used again only when  *)
(* nothing of the exchange is left in front of them.                       *)
(***************************************************************************)
THEOREM ContractHolds == Spec => ContractRefinement
<1>1. Init => MPE!Init
  BY InitImplements
<1>2. IInv /\ [Next]_vars => [MPE!Next]_(MPE!vars)
  BY StepImplements
<1> QED
  BY <1>1, <1>2, TagExchangeInvariant, PTL DEF Spec, ContractRefinement, MPE!Spec

-----------------------------------------------------------------------------
(* The transfers of the communicators.                                     *)

CommMessage == [tag : Nat, data : Nat]
Future == [kind : {"send", "recv"}, peer : CommRanks, tag : CommTags, n : Nat,
           at : {"posted", "matched", "complete"}]

\* Message m is of lane k, and how many of the first i messages of a queue are.
OfLane(k, m) == Matches(m, k[1], Tag(k[3], k[4]))
Number(q, k, i) == Cardinality({j \in 1 .. i : OfLane(k, q[j])})
OneIf(b) == IF b THEN 1 ELSE 0

CommTypes ==
    /\ posts \in [CommRanks -> Nat]
    /\ wire \in [Links -> Seq(CommMessage)]
    /\ unexpected \in [CommRanks -> Seq(CommMessage)]
    /\ futures \in [CommRanks -> Seq(Future)]
    /\ scan \in [CommRanks -> Nat]
    /\ taken \in [Lanes -> Seq(Nat)]
    /\ returned \in [CommRanks -> Seq(Future)]

\* A message is of a lane of its link.
SourcesInv ==
    /\ \A p \in Links : \A i \in 1 .. Len(wire[p]) :
          \E k \in Lanes : p = <<k[1], k[2]>> /\ OfLane(k, wire[p][i])
    /\ \A r \in CommRanks : \A i \in 1 .. Len(unexpected[r]) :
          \E k \in Lanes : k[2] = r /\ OfLane(k, unexpected[r][i])

\* The messages of lane k that were taken, that are kept in u and that are on the wire w are
\* numbered one after the other.
LaneIs(k, t, u, w) ==
    /\ \A i \in 1 .. Len(t) : t[i] = i
    /\ \A i \in 1 .. Len(u) : OfLane(k, u[i]) => u[i].data = Len(t) + Number(u, k, i)
    /\ \A i \in 1 .. Len(w) : OfLane(k, w[i]) =>
          w[i].data = Len(t) + Number(u, k, Len(u)) + Number(w, k, i)
LaneInv(k) == LaneIs(k, taken[k], unexpected[k[2]], wire[<<k[1], k[2]>>])

\* No receive waits for a message that is there.
PostedInv(r) ==
    \A i \in 1 .. Len(futures[r]), j \in 1 .. Len(unexpected[r]) :
        futures[r][i].at = "posted" => ~ Matches(unexpected[r][j], futures[r][i].peer, futures[r][i].tag)

\* The receives a rank holds are in the order in which they were posted.
HeldIs(fs, n) ==
    /\ \A i \in 1 .. Len(fs) : fs[i].kind = "recv" => fs[i].n <= n
    /\ \A i, j \in 1 .. Len(fs) :
          i < j /\ fs[i].kind = "recv" /\ fs[j].kind = "recv" => fs[i].n < fs[j].n
\* UCXX has returned those before all it holds.
ReturnedIs(ret, fs, n) ==
    /\ \A i \in 1 .. Len(ret) : ret[i].n <= n
    /\ \A i, j \in 1 .. Len(ret) : i < j => ret[i].n < ret[j].n
    /\ \A i \in 1 .. Len(ret), j \in 1 .. Len(fs) : fs[j].kind = "recv" => ret[i].n < fs[j].n
FuturesInv(r) ==
    /\ scan[r] <= Len(futures[r]) + 1
    /\ HeldIs(futures[r], posts[r])
    /\ transport = "ucxx" => ReturnedIs(returned[r], futures[r], posts[r])

CommInv ==
    /\ CommTypes /\ SourcesInv
    /\ \A k \in Lanes : LaneInv(k)
    /\ \A r \in CommRanks : PostedInv(r) /\ FuturesInv(r)

-----------------------------------------------------------------------------
(* Tags and lanes.                                                         *)

\* A number of two digits gives its digits back.
LEMMA DigitsOf ==
  ASSUME NEW B \in Nat, NEW s \in Nat, NEW k \in Nat, k < B
  PROVE  s * B + k \in Nat /\ (s * B + k) \div B = s /\ (s * B + k) % B = k
<1>1. s * B + k \in Nat /\ (s * B + k) \div B = s
  BY QuotientOfDigits
<1>2. (s * B + k) % B = k
  OBVIOUS
<1> QED BY <1>1, <1>2

LEMMA LaneFacts ==
  ASSUME NEW k \in Lanes
  PROVE  /\ k = <<k[1], k[2], k[3], k[4]>>
         /\ k[1] \in CommRanks /\ k[2] \in CommRanks /\ k[1] \in Nat
         /\ <<k[1], k[2]>> \in Links
         /\ Tag(k[3], k[4]) \in CommTags /\ Tag(k[3], k[4]) \in Nat /\ Tag(k[3], k[4]) < TagSpan
         /\ TagSpan \in Nat /\ tag_with_rank(k[1], Tag(k[3], k[4])) \in Nat
         /\ op_of(Tag(k[3], k[4])) = k[3] /\ stage_of(Tag(k[3], k[4])) = k[4]
<1>1. /\ k = <<k[1], k[2], k[3], k[4]>> /\ k[1] \in CommRanks /\ k[2] \in CommRanks /\ k[1] \in Nat
      /\ k[3] \in 0 .. OpSpan - 1 /\ k[4] \in 0 .. StageSpan - 1
      /\ OpSpan \in Nat /\ StageSpan \in Nat
  <2>1. k \in CommRanks \X CommRanks \X (0 .. OpSpan - 1) \X (0 .. StageSpan - 1)
    BY CommAssumption, Zenon
  <2>2. CommRanks \subseteq Nat /\ OpSpan \in Nat /\ StageSpan \in Nat
    BY CommAssumption, Zenon
  <2> DEFINE A == 0 .. OpSpan - 1
             B == 0 .. StageSpan - 1
  <2>3. k \in CommRanks \X CommRanks \X A \X B
    BY <2>1
  <2> HIDE DEF A, B
  <2>4. k = <<k[1], k[2], k[3], k[4]>> /\ k[1] \in CommRanks /\ k[2] \in CommRanks /\ k[3] \in A /\ k[4] \in B
    BY <2>3
  <2> QED BY <2>2, <2>4 DEF A, B
<1>2. <<k[1], k[2]>> \in Links /\ Tag(k[3], k[4]) \in CommTags
  BY DEF Links, CommTags
<1>3. /\ k[3] * StageSpan + k[4] \in Nat /\ (k[3] * StageSpan + k[4]) \div StageSpan = k[3]
      /\ (k[3] * StageSpan + k[4]) % StageSpan = k[4]
  BY <1>1, DigitsOf
<1>4. k[3] * StageSpan + k[4] < OpSpan * StageSpan /\ OpSpan * StageSpan \in Nat
  <2>1. \A a, b, c, d \in Nat : a + 1 <= c /\ b < d => a * d + b < c * d
    <3> SUFFICES ASSUME NEW a \in Nat, NEW b \in Nat, NEW c \in Nat, NEW d \in Nat, a + 1 <= c, b < d
                 PROVE  a * d + b < c * d
      OBVIOUS
    <3>1. PICK e \in Nat : c = a + 1 + e
      <4>1. c - a - 1 \in Nat /\ c = a + 1 + (c - a - 1)
        OBVIOUS
      <4> QED BY <4>1
    <3>2. c * d = a * d + d + e * d
      BY <3>1
    <3>3. e * d \in Nat /\ a * d \in Nat
      OBVIOUS
    <3> QED BY <3>2, <3>3
  <2>2. k[3] + 1 <= OpSpan /\ k[4] < StageSpan /\ k[3] \in Nat /\ k[4] \in Nat
    BY <1>1
  <2> QED BY <1>1, <2>1, <2>2
<1>5. k[1] * TagSpan + Tag(k[3], k[4]) \in Nat
  <2>1. \A a, b, c \in Nat : a * b + c \in Nat
    OBVIOUS
  <2> QED BY <1>1, <1>3, <1>4, <2>1 DEF TagSpan, Tag
<1> QED BY <1>1, <1>2, <1>3, <1>4, <1>5 DEF TagSpan, Tag, op_of, stage_of, tag_with_rank

\* The tag of a message tells its lane.
LEMMA LaneOfMessage ==
  ASSUME NEW k \in Lanes, NEW m, OfLane(k, m)
  PROVE  Lane(Sender(m), k[2], UserTag(m)) = k /\ UserTag(m) = Tag(k[3], k[4])
<1>1. m.tag = k[1] * TagSpan + Tag(k[3], k[4])
  BY DEF OfLane, Matches, tag_with_rank
<1>2. Sender(m) = k[1] /\ UserTag(m) = Tag(k[3], k[4])
  <2>1. /\ k[1] \in Nat /\ TagSpan \in Nat /\ Tag(k[3], k[4]) \in Nat /\ Tag(k[3], k[4]) < TagSpan
    BY LaneFacts
  <2> DEFINE t == Tag(k[3], k[4])
  <2>3. t \in Nat /\ t < TagSpan /\ m.tag = k[1] * TagSpan + t
    BY <1>1, <2>1
  <2> HIDE DEF t
  <2>2. m.tag \div TagSpan = k[1] /\ m.tag % TagSpan = t
    BY <2>1, <2>3, DigitsOf
  <2> QED BY <2>2 DEF Sender, UserTag, t
<1>3. /\ k = <<k[1], k[2], k[3], k[4]>>
      /\ op_of(Tag(k[3], k[4])) = k[3] /\ stage_of(Tag(k[3], k[4])) = k[4]
  BY LaneFacts
<1>4. Lane(Sender(m), k[2], UserTag(m)) = <<k[1], k[2], k[3], k[4]>>
  BY <1>2, <1>3 DEF Lane
<1> QED BY <1>2, <1>3, <1>4

LEMMA OneLane ==
  ASSUME NEW k \in Lanes, NEW l \in Lanes, NEW m, OfLane(k, m), OfLane(l, m), k[2] = l[2]
  PROVE  k = l
BY LaneOfMessage

LEMMA TakeIs ==
  ASSUME NEW k \in Lanes, NEW m, OfLane(k, m)
  PROVE  Take(m, k[2]) = [taken EXCEPT ![k] = Append(@, m.data)]
BY LaneOfMessage DEF Take

\* Messages with the same tag are of the same lanes.
LEMMA SameTag ==
  ASSUME NEW k, NEW l, NEW m, OfLane(k, m), OfLane(l, m), NEW x, OfLane(k, x)
  PROVE  OfLane(l, x)
BY DEF OfLane, Matches

-----------------------------------------------------------------------------
(* Numbers of messages in a queue.                                         *)

LEMMA NumberType ==
  ASSUME NEW q, NEW k, NEW i \in Nat
  PROVE  Number(q, k, i) \in Nat /\ IsFiniteSet({j \in 1 .. i : OfLane(k, q[j])})
<1>1. IsFiniteSet(1 .. i)
  BY FS_Interval
<1>2. {j \in 1 .. i : OfLane(k, q[j])} \in SUBSET (1 .. i)
  OBVIOUS
<1>3. IsFiniteSet({j \in 1 .. i : OfLane(k, q[j])})
  BY <1>1, <1>2, FS_Subset
<1> QED BY <1>3, FS_CardinalityType DEF Number

LEMMA NumberNone ==
  ASSUME NEW q, NEW k, NEW i \in Nat, \A j \in 1 .. i : ~ OfLane(k, q[j])
  PROVE  Number(q, k, i) = 0
<1>1. {j \in 1 .. i : OfLane(k, q[j])} = {}
  OBVIOUS
<1> QED BY <1>1, FS_EmptySet DEF Number

LEMMA NumberNext ==
  ASSUME NEW q, NEW k, NEW i \in Nat
  PROVE  Number(q, k, i + 1) = Number(q, k, i) + OneIf(OfLane(k, q[i + 1]))
<1> DEFINE A == {j \in 1 .. i : OfLane(k, q[j])}
           B == {j \in 1 .. i + 1 : OfLane(k, q[j])}
<1>0. i + 1 \notin A
  OBVIOUS
<1>1. IsFiniteSet(A) /\ Cardinality(A) \in Nat /\ i + 1 \notin A
  BY <1>0, NumberType, Zenon DEF Number
<1>2. CASE OfLane(k, q[i + 1])
  <2>1. B = A \cup {i + 1}
    BY <1>2
  <2>2. Cardinality(B) = Cardinality(A) + 1
    BY <1>1, <2>1, FS_AddElement
  <2> QED BY <1>2, <2>2 DEF Number, OneIf
<1>3. CASE ~ OfLane(k, q[i + 1])
  <2>1. B = A
    BY <1>3
  <2> QED BY <1>1, <1>3, <2>1 DEF Number, OneIf
<1> QED BY <1>2, <1>3

LEMMA NumberSame ==
  ASSUME NEW q, NEW u, NEW k, NEW i \in Nat, \A j \in 1 .. i : q[j] = u[j]
  PROVE  Number(q, k, i) = Number(u, k, i)
<1>1. {j \in 1 .. i : OfLane(k, q[j])} = {j \in 1 .. i : OfLane(k, u[j])}
  OBVIOUS
<1> QED BY <1>1 DEF Number

\* A message is cut out at c.
Cut(q, u, c) ==
    /\ Len(u) = Len(q) - 1
    /\ \A j \in 1 .. Len(u) : u[j] = IF j < c THEN q[j] ELSE q[j + 1]
LEMMA NumberCut ==
  ASSUME NEW q, NEW u, NEW k, NEW c \in Nat \ {0}, NEW i \in Nat, c <= i + 1,
         \A j \in 1 .. i : u[j] = IF j < c THEN q[j] ELSE q[j + 1]
  PROVE  Number(u, k, i) = Number(q, k, i + 1) - OneIf(OfLane(k, q[c]))
<1> DEFINE A == {j \in 1 .. i : OfLane(k, u[j])}
           B == {j \in 1 .. i + 1 : OfLane(k, q[j])}
           C == B \ {c}
           f == [j \in A |-> IF j < c THEN j ELSE j + 1]
<1>1. IsFiniteSet(A) /\ IsFiniteSet(B) /\ Cardinality(B) \in Nat
  <2>1. i + 1 \in Nat
    OBVIOUS
  <2> QED BY <2>1, NumberType DEF Number
<1>2. f \in Bijection(A, C)
  <2>1. f \in [A -> C]
    <3> SUFFICES ASSUME NEW j \in A PROVE (IF j < c THEN j ELSE j + 1) \in C
      OBVIOUS
    <3> QED OBVIOUS
  <2>2. \A x, y \in A : f[x] = f[y] => x = y
    OBVIOUS
  <2>3. \A z \in C : \E x \in A : f[x] = z
    <3> SUFFICES ASSUME NEW z \in C PROVE \E x \in A : f[x] = z
      OBVIOUS
    <3>1. CASE z < c
      <4>1. z \in A /\ f[z] = z
        BY <3>1
      <4> QED BY <4>1
    <3>2. CASE z > c
      <4>1. z - 1 \in 1 .. i /\ ~ (z - 1 < c) /\ (z - 1) + 1 = z
        BY <3>2
      <4>2. z - 1 \in A
        BY <4>1
      <4>3. f[z - 1] = z
        BY <4>1, <4>2
      <4> QED BY <4>2, <4>3
    <3> QED BY <3>1, <3>2
  <2>4. f \in Injection(A, C)
    BY <2>1, <2>2 DEF Injection, IsInjective
  <2>5. f \in Surjection(A, C)
    BY <2>1, <2>3 DEF Surjection
  <2> QED BY <2>4, <2>5 DEF Bijection
<1>3. Cardinality(C) = Cardinality(A)
  <2>1. ExistsBijection(A, C)
    BY <1>2 DEF ExistsBijection
  <2> QED BY <2>1, <1>1, FS_Bijection
<1>4. Cardinality(C) = IF c \in B THEN Cardinality(B) - 1 ELSE Cardinality(B)
  BY <1>1, FS_RemoveElement
<1>5. c \in B <=> OfLane(k, q[c])
  OBVIOUS
<1> HIDE DEF A, B, C, f
<1>6. Cardinality(A) = Cardinality(B) - OneIf(OfLane(k, q[c]))
  BY <1>1, <1>3, <1>4, <1>5 DEF OneIf
<1> QED BY <1>6 DEF A, B, Number

LEMMA RemoveIsCut ==
  ASSUME NEW S, NEW q \in Seq(S), NEW c \in 1 .. Len(q)
  PROVE  RemoveAt(q, c) \in Seq(S) /\ Cut(q, RemoveAt(q, c), c)
<1> DEFINE a == SubSeq(q, 1, c - 1)
           b == SubSeq(q, c + 1, Len(q))
<1>1. Len(q) \in Nat /\ c \in Nat /\ 1 <= c /\ c <= Len(q)
  OBVIOUS
<1>2. a \in Seq(S) /\ Len(a) = c - 1 /\ \A j \in 1 .. c - 1 : a[j] = q[j]
  BY <1>1
<1>3. b \in Seq(S) /\ Len(b) = Len(q) - c /\ \A j \in 1 .. Len(q) - c : b[j] = q[c + j]
  BY <1>1
<1> HIDE DEF a, b
<1>4. /\ a \o b \in Seq(S) /\ Len(a \o b) = Len(a) + Len(b)
      /\ \A j \in 1 .. Len(a) + Len(b) : (a \o b)[j] = IF j <= Len(a) THEN a[j] ELSE b[j - Len(a)]
  BY <1>2, <1>3, ConcatProperties, Zenon
<1>5. Len(a \o b) = Len(q) - 1
  BY <1>1, <1>2, <1>3, <1>4
<1>6. ASSUME NEW j \in 1 .. Len(a \o b) PROVE (a \o b)[j] = IF j < c THEN q[j] ELSE q[j + 1]
  <2>1. CASE j < c
    BY <1>1, <1>2, <1>3, <1>4, <1>5, <2>1
  <2>2. CASE j >= c
    <3>1. j - Len(a) \in 1 .. Len(q) - c /\ c + (j - Len(a)) = j + 1 /\ ~ (j <= Len(a))
      BY <1>1, <1>2, <1>5, <2>2
    <3> QED BY <1>1, <1>3, <1>4, <1>5, <2>2, <3>1, SMTT(30)
  <2> QED BY <1>1, <2>1, <2>2
<1> QED BY <1>4, <1>5, <1>6 DEF Cut, RemoveAt, a, b

LEMMA TailIsCut ==
  ASSUME NEW S, NEW q \in Seq(S), q # <<>>
  PROVE  /\ Tail(q) \in Seq(S) /\ Cut(q, Tail(q), 1) /\ Head(q) = q[1] /\ q[1] \in S
         /\ Len(q) \in Nat /\ Len(q) >= 1
<1>1. /\ Tail(q) \in Seq(S) /\ Len(q) \in Nat /\ Len(q) >= 1 /\ Len(Tail(q)) = Len(q) - 1
      /\ Head(q) = q[1] /\ q[1] \in S /\ \A i \in 1 .. Len(q) - 1 : Tail(q)[i] = q[i + 1]
  OBVIOUS
<1> QED BY <1>1 DEF Cut

\* What a queue without the message at c counts.
CutCounts(q, u, k, c) ==
    /\ \A i \in 1 .. Len(u) : i < c => Number(u, k, i) = Number(q, k, i)
    /\ \A i \in 1 .. Len(u) : i >= c => Number(u, k, i) = Number(q, k, i + 1) - OneIf(OfLane(k, q[c]))
    /\ Number(u, k, Len(u)) = Number(q, k, Len(q)) - OneIf(OfLane(k, q[c]))
LEMMA CutNumbers ==
  ASSUME NEW q, NEW u, NEW k, Len(q) \in Nat, NEW c \in 1 .. Len(q), Cut(q, u, c)
  PROVE  CutCounts(q, u, k, c)
<1>1. /\ Len(u) = Len(q) - 1 /\ Len(u) \in Nat
      /\ \A j \in 1 .. Len(u) : u[j] = IF j < c THEN q[j] ELSE q[j + 1]
  BY DEF Cut
<1>2. ASSUME NEW i \in 1 .. Len(u), i < c PROVE Number(u, k, i) = Number(q, k, i)
  <2>1. i \in Nat /\ \A j \in 1 .. i : u[j] = q[j]
    BY <1>1, <1>2
  <2> QED BY <2>1, NumberSame
<1>3. ASSUME NEW i \in Nat, i <= Len(u), c <= i + 1
      PROVE  Number(u, k, i) = Number(q, k, i + 1) - OneIf(OfLane(k, q[c]))
  <2>1. c \in Nat \ {0} /\ \A j \in 1 .. i : u[j] = IF j < c THEN q[j] ELSE q[j + 1]
    BY <1>1, <1>3
  <2> QED BY <1>3, <2>1, NumberCut
<1>4. \A i \in 1 .. Len(u) : i >= c => Number(u, k, i) = Number(q, k, i + 1) - OneIf(OfLane(k, q[c]))
  BY <1>1, <1>3
<1>5. Number(u, k, Len(u)) = Number(q, k, Len(q)) - OneIf(OfLane(k, q[c]))
  <2>1. c <= Len(u) + 1 /\ Len(u) <= Len(u) /\ Len(u) + 1 = Len(q)
    BY <1>1
  <2> QED BY <1>1, <1>3, <2>1
<1> QED BY <1>2, <1>4, <1>5 DEF CutCounts

\* What a queue u that is q with one more message m counts.
AppendCounts(q, u, m, k) ==
    /\ Len(u) = Len(q) + 1 /\ u[Len(q) + 1] = m
    /\ \A i \in 1 .. Len(q) : u[i] = q[i] /\ Number(u, k, i) = Number(q, k, i)
    /\ Number(u, k, Len(q) + 1) = Number(q, k, Len(q)) + OneIf(OfLane(k, m))
LEMMA AppendNumbers ==
  ASSUME NEW S, NEW q \in Seq(S), NEW m \in S, NEW k
  PROVE  Append(q, m) \in Seq(S) /\ AppendCounts(q, Append(q, m), m, k)
<1> DEFINE u == Append(q, m)
<1>1. /\ Len(q) \in Nat /\ Len(u) = Len(q) + 1 /\ u \in Seq(S)
      /\ (\A i \in 1 .. Len(q) : u[i] = q[i]) /\ u[Len(q) + 1] = m
  OBVIOUS
<1> HIDE DEF u
<1>2. ASSUME NEW i \in 0 .. Len(q) PROVE Number(u, k, i) = Number(q, k, i)
  <2>1. i \in Nat /\ \A j \in 1 .. i : u[j] = q[j]
    BY <1>1
  <2> QED BY <2>1, NumberSame
<1>3. Number(u, k, Len(q) + 1) = Number(u, k, Len(q)) + OneIf(OfLane(k, m))
  BY <1>1, NumberNext
<1>4. Number(u, k, Len(q)) = Number(q, k, Len(q))
  BY <1>1, <1>2
<1>5. \A i \in 1 .. Len(q) : Number(u, k, i) = Number(q, k, i)
  BY <1>1, <1>2
<1>6. AppendCounts(q, u, m, k)
  BY <1>1, <1>3, <1>4, <1>5 DEF AppendCounts
<1> QED BY <1>1, <1>6 DEF u

-----------------------------------------------------------------------------
(* What happens to the messages of one lane.                               *)

LEMMA NumbersAreNaturals ==
  ASSUME NEW k, NEW u \in Seq(CommMessage), NEW w \in Seq(CommMessage)
  PROVE  /\ Len(u) \in Nat /\ Len(w) \in Nat
         /\ \A i \in 0 .. Len(u) : Number(u, k, i) \in Nat
         /\ \A i \in 0 .. Len(w) : Number(w, k, i) \in Nat
<1>1. Len(u) \in Nat /\ Len(w) \in Nat
  OBVIOUS
<1>2. \A i \in Nat : Number(u, k, i) \in Nat /\ Number(w, k, i) \in Nat
  BY NumberType
<1>3. (\A i \in 0 .. Len(u) : i \in Nat) /\ (\A i \in 0 .. Len(w) : i \in Nat)
  BY <1>1
<1> QED BY <1>1, <1>2, <1>3, Zenon

LEMMA CountsOn ==
  ASSUME NEW t \in Seq(Nat), \A i \in 1 .. Len(t) : t[i] = i, NEW n, n = Len(t) + 1
  PROVE  Len(Append(t, n)) = Len(t) + 1 /\ \A i \in 1 .. Len(Append(t, n)) : Append(t, n)[i] = i
<1> DEFINE s == Append(t, n)
<1>1. Len(t) \in Nat /\ n \in Nat
  OBVIOUS
<1>2. Len(s) = Len(t) + 1 /\ s[Len(t) + 1] = n /\ \A i \in 1 .. Len(t) : s[i] = t[i]
  BY <1>1
<1> HIDE DEF s
<1>3. ASSUME NEW i \in 1 .. Len(s) PROVE s[i] = i
  <2>1. CASE i = Len(t) + 1
    BY <1>2, <2>1
  <2>2. CASE i \in 1 .. Len(t)
    BY <1>2, <2>2
  <2> QED BY <1>1, <1>2, <2>1, <2>2
<1> QED BY <1>2, <1>3 DEF s

LEMMA LaneSends ==
  ASSUME NEW k, NEW t \in Seq(Nat), NEW u \in Seq(CommMessage), NEW w \in Seq(CommMessage),
         NEW m \in CommMessage, LaneIs(k, t, u, w),
         OfLane(k, m) => m.data = Len(t) + Number(u, k, Len(u)) + Number(w, k, Len(w)) + 1
  PROVE  LaneIs(k, t, u, Append(w, m))
<1> DEFINE x == Append(w, m)
<1>1. /\ Len(x) = Len(w) + 1 /\ Len(w) \in Nat /\ x[Len(w) + 1] = m
      /\ \A i \in 1 .. Len(w) : x[i] = w[i] /\ Number(x, k, i) = Number(w, k, i)
      /\ Number(x, k, Len(w) + 1) = Number(w, k, Len(w)) + OneIf(OfLane(k, m))
  <2>1. AppendCounts(w, x, m, k) /\ Len(w) \in Nat
    BY AppendNumbers
  <2> QED BY <2>1 DEF AppendCounts
<1> HIDE DEF x
<1>2. ASSUME NEW i \in 1 .. Len(x), OfLane(k, x[i])
      PROVE  x[i].data = Len(t) + Number(u, k, Len(u)) + Number(x, k, i)
  <2>1. CASE i \in 1 .. Len(w)
    BY <1>1, <1>2, <2>1 DEF LaneIs
  <2>2. CASE i = Len(w) + 1
    <3>1. /\ Number(u, k, Len(u)) \in Nat /\ Number(w, k, Len(w)) \in Nat /\ Len(t) \in Nat
      BY NumbersAreNaturals
    <3> QED BY <1>1, <1>2, <2>2, <3>1 DEF OneIf
  <2> QED BY <1>1, <2>1, <2>2
<1> QED BY <1>2 DEF LaneIs, x

LEMMA LaneKeeps ==
  ASSUME NEW k, NEW t \in Seq(Nat), NEW u \in Seq(CommMessage), NEW w \in Seq(CommMessage),
         w # <<>>, LaneIs(k, t, u, w)
  PROVE  LaneIs(k, t, Append(u, Head(w)), Tail(w))
<1> DEFINE y == Append(u, Head(w))
           x == Tail(w)
           h == Head(w)
<1>1. x \in Seq(CommMessage) /\ Cut(w, x, 1) /\ h = w[1] /\ h \in CommMessage /\ Len(w) \in Nat /\ 1 \in 1 .. Len(w)
  BY TailIsCut
<1>2. /\ Len(y) = Len(u) + 1 /\ Len(u) \in Nat /\ y[Len(u) + 1] = h
      /\ \A i \in 1 .. Len(u) : y[i] = u[i] /\ Number(y, k, i) = Number(u, k, i)
      /\ Number(y, k, Len(u) + 1) = Number(u, k, Len(u)) + OneIf(OfLane(k, h))
  <2>1. Len(u) \in Nat
    OBVIOUS
  <2>2. AppendCounts(u, y, h, k)
    BY <1>1, AppendNumbers
  <2> HIDE DEF y, h
  <2> QED BY <2>1, <2>2 DEF AppendCounts
<1> HIDE DEF x, y, h
<1>3. /\ \A i \in 1 .. Len(x) : Number(x, k, i) = Number(w, k, i + 1) - OneIf(OfLane(k, h))
      /\ Len(x) = Len(w) - 1 /\ Len(x) \in Nat /\ \A i \in 1 .. Len(x) : x[i] = w[i + 1]
  <2>1. Len(x) = Len(w) - 1 /\ Len(x) \in Nat /\ \A i \in 1 .. Len(x) : x[i] = w[i + 1]
    BY <1>1 DEF Cut
  <2>2. CutCounts(w, x, k, 1)
    BY <1>1, CutNumbers
  <2>3. \A i \in 1 .. Len(x) : i >= 1 => Number(x, k, i) = Number(w, k, i + 1) - OneIf(OfLane(k, w[1]))
    BY <2>2 DEF CutCounts
  <2> QED BY <1>1, <2>1, <2>3
<1>4. /\ \A i \in 0 .. Len(u) : Number(u, k, i) \in Nat
      /\ \A i \in 0 .. Len(w) : Number(w, k, i) \in Nat
      /\ Len(t) \in Nat
  BY NumbersAreNaturals
<1>5. ASSUME NEW i \in 1 .. Len(y), OfLane(k, y[i]) PROVE y[i].data = Len(t) + Number(y, k, i)
  <2>1. CASE i \in 1 .. Len(u)
    BY <1>2, <1>5, <2>1 DEF LaneIs
  <2>2. CASE i = Len(u) + 1
    <3>1. OfLane(k, w[1]) /\ y[i] = w[1]
      BY <1>1, <1>2, <1>5, <2>2
    <3>2. w[1].data = Len(t) + Number(u, k, Len(u)) + Number(w, k, 1)
      BY <1>1, <3>1 DEF LaneIs
    <3>3. Number(w, k, 0 + 1) = Number(w, k, 0) + OneIf(OfLane(k, w[0 + 1]))
      BY NumberNext
    <3>4. Number(w, k, 0) = 0
      BY NumberNone
    <3>5. Number(w, k, 1) = 1
      BY <3>1, <3>3, <3>4 DEF OneIf
    <3>6. Number(y, k, i) = Number(u, k, Len(u)) + 1
      BY <1>1, <1>2, <2>2, <3>1 DEF OneIf
    <3>7. Number(u, k, Len(u)) \in Nat
      BY <1>2, <1>4
    <3> QED BY <1>4, <3>1, <3>2, <3>5, <3>6, <3>7
  <2> QED BY <1>2, <2>1, <2>2
<1>6. ASSUME NEW i \in 1 .. Len(x), OfLane(k, x[i])
      PROVE  x[i].data = Len(t) + Number(y, k, Len(y)) + Number(x, k, i)
  <2>1. i + 1 \in 1 .. Len(w) /\ x[i] = w[i + 1]
    BY <1>3
  <2>2. w[i + 1].data = Len(t) + Number(u, k, Len(u)) + Number(w, k, i + 1)
    BY <1>6, <2>1 DEF LaneIs
  <2>3. Number(x, k, i) = Number(w, k, i + 1) - OneIf(OfLane(k, h))
    BY <1>3
  <2>4. Number(y, k, Len(y)) = Number(u, k, Len(u)) + OneIf(OfLane(k, h))
    BY <1>2
  <2>5. Number(u, k, Len(u)) \in Nat /\ Number(w, k, i + 1) \in Nat /\ OneIf(OfLane(k, h)) \in Nat
    BY <1>2, <1>4, <2>1 DEF OneIf
  <2> QED BY <1>4, <2>1, <2>2, <2>3, <2>4, <2>5
<1> QED BY <1>5, <1>6 DEF LaneIs, x, y, h

LEMMA LaneLosesHead ==
  ASSUME NEW k, NEW t \in Seq(Nat), NEW u \in Seq(CommMessage), NEW w \in Seq(CommMessage),
         w # <<>>, LaneIs(k, t, u, w)
  PROVE  /\ ~ OfLane(k, Head(w)) => LaneIs(k, t, u, Tail(w))
         /\ OfLane(k, Head(w)) /\ (\A j \in 1 .. Len(u) : ~ OfLane(k, u[j])) =>
               LaneIs(k, Append(t, Head(w).data), u, Tail(w))
<1> DEFINE x == Tail(w)
           h == Head(w)
<1>1. x \in Seq(CommMessage) /\ Cut(w, x, 1) /\ h = w[1] /\ h \in CommMessage /\ Len(w) \in Nat /\ 1 \in 1 .. Len(w)
  BY TailIsCut
<1> HIDE DEF x, h
<1>2. /\ \A i \in 1 .. Len(x) : Number(x, k, i) = Number(w, k, i + 1) - OneIf(OfLane(k, h))
      /\ Len(x) = Len(w) - 1 /\ Len(x) \in Nat /\ \A i \in 1 .. Len(x) : x[i] = w[i + 1]
  <2>1. Len(x) = Len(w) - 1 /\ Len(x) \in Nat /\ \A i \in 1 .. Len(x) : x[i] = w[i + 1]
    BY <1>1 DEF Cut
  <2>2. CutCounts(w, x, k, 1)
    BY <1>1, CutNumbers
  <2>3. \A i \in 1 .. Len(x) : i >= 1 => Number(x, k, i) = Number(w, k, i + 1) - OneIf(OfLane(k, w[1]))
    BY <2>2 DEF CutCounts
  <2> QED BY <1>1, <2>1, <2>3
<1>3. /\ Len(u) \in Nat /\ Len(t) \in Nat /\ Number(u, k, Len(u)) \in Nat
      /\ \A i \in 0 .. Len(w) : Number(w, k, i) \in Nat
  BY NumbersAreNaturals
<1>4. ASSUME NEW i \in 1 .. Len(x), OfLane(k, x[i])
      PROVE  /\ x[i].data = Len(t) + Number(u, k, Len(u)) + Number(x, k, i) + OneIf(OfLane(k, h))
             /\ Number(x, k, i) \in Int
  <2>1. i + 1 \in 1 .. Len(w) /\ x[i] = w[i + 1]
    BY <1>2
  <2>2. w[i + 1].data = Len(t) + Number(u, k, Len(u)) + Number(w, k, i + 1)
    BY <1>4, <2>1 DEF LaneIs
  <2>3. Number(x, k, i) = Number(w, k, i + 1) - OneIf(OfLane(k, h))
    BY <1>2
  <2>4. Number(w, k, i + 1) \in Nat /\ OneIf(OfLane(k, h)) \in Nat
    BY <1>3, <2>1 DEF OneIf
  <2> QED BY <1>3, <2>1, <2>2, <2>3, <2>4
<1>5. CASE ~ OfLane(k, h)
  <2>1. OneIf(OfLane(k, h)) = 0
    BY <1>5 DEF OneIf
  <2>2. \A i \in 1 .. Len(x) : OfLane(k, x[i]) => x[i].data = Len(t) + Number(u, k, Len(u)) + Number(x, k, i)
    BY <1>3, <1>4, <2>1
  <2>3. LaneIs(k, t, u, x)
    BY <2>2 DEF LaneIs
  <2> QED BY <1>5, <2>3 DEF x, h
<1>6. CASE OfLane(k, h)
  <2> SUFFICES ASSUME \A j \in 1 .. Len(u) : ~ OfLane(k, u[j]) PROVE LaneIs(k, Append(t, h.data), u, x)
    BY <1>6 DEF x, h
  <2>1. OneIf(OfLane(k, h)) = 1 /\ Number(u, k, Len(u)) = 0
    BY <1>3, <1>6, NumberNone DEF OneIf
  <2>2. h.data = Len(t) + 1
    <3>1. w[1].data = Len(t) + Number(u, k, Len(u)) + Number(w, k, 1)
      BY <1>1, <1>6 DEF LaneIs
    <3>2. Number(w, k, 0 + 1) = Number(w, k, 0) + OneIf(OfLane(k, w[0 + 1]))
      BY NumberNext
    <3>3. Number(w, k, 0) = 0
      BY NumberNone
    <3> QED BY <1>1, <1>3, <2>1, <3>1, <3>2, <3>3
  <2> DEFINE s == Append(t, h.data)
  <2>3. \A i \in 1 .. Len(t) : t[i] = i
    BY DEF LaneIs
  <2>4. Len(s) = Len(t) + 1 /\ \A i \in 1 .. Len(s) : s[i] = i
    BY <2>2, <2>3, CountsOn
  <2> HIDE DEF s
  <2>5. \A i \in 1 .. Len(x) : OfLane(k, x[i]) => x[i].data = Len(s) + Number(u, k, Len(u)) + Number(x, k, i)
    BY <1>3, <1>4, <2>1, <2>4
  <2>6. LaneIs(k, s, u, x)
    BY <2>4, <2>5 DEF LaneIs
  <2> QED BY <2>6 DEF s
<1> QED BY <1>5, <1>6 DEF h

LEMMA LaneLosesKept ==
  ASSUME NEW k, NEW t \in Seq(Nat), NEW u \in Seq(CommMessage), NEW w \in Seq(CommMessage),
         NEW c \in 1 .. Len(u), LaneIs(k, t, u, w)
  PROVE  /\ ~ OfLane(k, u[c]) => LaneIs(k, t, RemoveAt(u, c), w)
         /\ OfLane(k, u[c]) /\ (\A j \in 1 .. c - 1 : ~ OfLane(k, u[j])) =>
               LaneIs(k, Append(t, u[c].data), RemoveAt(u, c), w)
<1> DEFINE x == RemoveAt(u, c)
           b == OneIf(OfLane(k, u[c]))
<1>1. /\ x \in Seq(CommMessage) /\ Cut(u, x, c) /\ Len(u) \in Nat /\ c \in Nat /\ 1 <= c /\ c <= Len(u)
      /\ b \in Nat
  BY RemoveIsCut DEF OneIf
<1> HIDE DEF x
<1>2. /\ \A i \in 1 .. Len(x) : i < c => Number(x, k, i) = Number(u, k, i)
      /\ \A i \in 1 .. Len(x) : i >= c => Number(x, k, i) = Number(u, k, i + 1) - b
      /\ Number(x, k, Len(x)) = Number(u, k, Len(u)) - b
  <2>1. CutCounts(u, x, k, c)
    BY <1>1, CutNumbers
  <2> QED BY <2>1 DEF CutCounts
<1> HIDE DEF b
<1>3. /\ Len(x) = Len(u) - 1 /\ Len(x) \in Nat
      /\ \A i \in 1 .. Len(x) : x[i] = IF i < c THEN u[i] ELSE u[i + 1]
  <2>1. /\ Len(x) = Len(u) - 1
        /\ \A i \in 1 .. Len(x) : x[i] = IF i < c THEN u[i] ELSE u[i + 1]
    BY <1>1, Zenon DEF Cut
  <2>2. Len(u) - 1 \in Nat
    BY <1>1
  <2> QED BY <2>1, <2>2, Zenon
<1>4. /\ Len(t) \in Nat
      /\ \A i \in 0 .. Len(u) : Number(u, k, i) \in Nat
      /\ \A i \in 0 .. Len(w) : Number(w, k, i) \in Nat
  BY NumbersAreNaturals
<1>5. ASSUME NEW i \in 1 .. Len(x), OfLane(k, x[i]), i >= c
      PROVE  x[i].data = Len(t) + Number(x, k, i) + b /\ Number(x, k, i) \in Int
  <2>1. i + 1 \in 1 .. Len(u) /\ x[i] = u[i + 1]
    BY <1>1, <1>3, <1>5
  <2>2. u[i + 1].data = Len(t) + Number(u, k, i + 1)
    BY <1>5, <2>1 DEF LaneIs
  <2>3. Number(x, k, i) = Number(u, k, i + 1) - b /\ Number(u, k, i + 1) \in Nat
    BY <1>2, <1>4, <1>5, <2>1
  <2> QED BY <1>1, <1>4, <2>1, <2>2, <2>3
<1>6. ASSUME NEW i \in 1 .. Len(w), OfLane(k, w[i])
      PROVE  /\ w[i].data = Len(t) + b + Number(x, k, Len(x)) + Number(w, k, i)
             /\ Number(x, k, Len(x)) \in Int /\ Number(w, k, i) \in Nat
  <2>1. w[i].data = Len(t) + Number(u, k, Len(u)) + Number(w, k, i)
    BY <1>6 DEF LaneIs
  <2>2. Number(u, k, Len(u)) \in Nat /\ Number(w, k, i) \in Nat
    BY <1>1, <1>4
  <2> QED BY <1>1, <1>2, <1>4, <2>1, <2>2
<1>7. CASE ~ OfLane(k, u[c])
  <2>1. b = 0
    BY <1>7 DEF b, OneIf
  <2>2. ASSUME NEW i \in 1 .. Len(x), OfLane(k, x[i]) PROVE x[i].data = Len(t) + Number(x, k, i)
    <3>1. CASE i < c
      <4>1. x[i] = u[i] /\ i \in 1 .. Len(u) /\ Number(x, k, i) = Number(u, k, i)
        BY <1>1, <1>2, <1>3, <3>1
      <4> QED BY <2>2, <4>1 DEF LaneIs
    <3>2. CASE i >= c
      BY <1>4, <1>5, <2>1, <2>2, <3>2
    <3> QED BY <1>1, <1>3, <3>1, <3>2
  <2>3. \A i \in 1 .. Len(w) : OfLane(k, w[i]) => w[i].data = Len(t) + Number(x, k, Len(x)) + Number(w, k, i)
    BY <1>4, <1>6, <2>1
  <2>4. LaneIs(k, t, x, w)
    BY <2>2, <2>3 DEF LaneIs
  <2> QED BY <1>7, <2>4 DEF x
<1>8. CASE OfLane(k, u[c])
  <2> SUFFICES ASSUME \A j \in 1 .. c - 1 : ~ OfLane(k, u[j]) PROVE LaneIs(k, Append(t, u[c].data), x, w)
    BY <1>8 DEF x
  <2>1. b = 1
    BY <1>8 DEF b, OneIf
  <2>2. u[c].data = Len(t) + 1
    <3>1. u[c].data = Len(t) + Number(u, k, c)
      BY <1>8 DEF LaneIs
    <3>2. c - 1 \in Nat /\ (c - 1) + 1 = c
      BY <1>1
    <3>3. Number(u, k, c) = Number(u, k, c - 1) + OneIf(OfLane(k, u[c]))
      BY <3>2, NumberNext
    <3>4. Number(u, k, c - 1) = 0
      BY <3>2, NumberNone
    <3> QED BY <1>4, <1>8, <3>1, <3>3, <3>4 DEF OneIf
  <2> DEFINE s == Append(t, u[c].data)
  <2>3. \A i \in 1 .. Len(t) : t[i] = i
    BY DEF LaneIs
  <2>4. Len(s) = Len(t) + 1 /\ \A i \in 1 .. Len(s) : s[i] = i
    BY <2>2, <2>3, CountsOn
  <2> HIDE DEF s
  <2>5. ASSUME NEW i \in 1 .. Len(x), OfLane(k, x[i]) PROVE x[i].data = Len(s) + Number(x, k, i)
    <3>1. i >= c
      <4>1. CASE i < c
        BY <1>1, <1>3, <2>5, <4>1
      <4> QED BY <1>1, <1>3, <4>1
    <3>2. x[i].data = Len(t) + Number(x, k, i) + b /\ Number(x, k, i) \in Int
      BY <1>5, <2>5, <3>1
    <3>3. Len(t) \in Nat /\ Len(s) = Len(t) + 1
      BY <1>4, <2>4
    <3> QED BY <2>1, <3>2, <3>3
  <2>6. \A i \in 1 .. Len(w) : OfLane(k, w[i]) => w[i].data = Len(s) + Number(x, k, Len(x)) + Number(w, k, i)
    BY <1>4, <1>6, <2>1, <2>4
  <2>7. LaneIs(k, s, x, w)
    BY <2>4, <2>5, <2>6 DEF LaneIs
  <2> QED BY <2>7 DEF s
<1> QED BY <1>7, <1>8

-----------------------------------------------------------------------------
(* The futures of a rank.                                                  *)

\* The members of a finite set of numbers in their order.
LEMMA NthFacts ==
  ASSUME NEW S \in SUBSET Nat, IsFiniteSet(S)
  PROVE  /\ Cardinality(S) \in Nat
         /\ \A k \in 1 .. Cardinality(S) : Nth(S, k) \in S
         /\ \A k, l \in 1 .. Cardinality(S) : k < l => Nth(S, k) < Nth(S, l)
<1> DEFINE U(i) == {j \in S : j <= i}
           n == Cardinality(S)
           f == [i \in S |-> Cardinality(U(i))]
<1>1. n \in Nat
  BY FS_CardinalityType
<1>2. ASSUME NEW i \in S PROVE IsFiniteSet(U(i)) /\ Cardinality(U(i)) \in 1 .. n
  <2>1. U(i) \in SUBSET S /\ U(i) # {}
    OBVIOUS
  <2> HIDE DEF U
  <2>2. IsFiniteSet(U(i)) /\ Cardinality(U(i)) <= n
    BY <2>1, FS_Subset
  <2>3. Cardinality(U(i)) \in Nat /\ Cardinality(U(i)) # 0
    BY <2>1, <2>2, FS_CardinalityType, FS_EmptySet
  <2> QED BY <1>1, <2>2, <2>3
<1>3. ASSUME NEW i \in S, NEW j \in S, i < j PROVE Cardinality(U(i)) < Cardinality(U(j))
  <2>0. j \in U(j) /\ j \notin U(i) /\ \A x \in U(i) : x \in U(j)
    BY <1>3
  <2>1. U(i) \in SUBSET U(j) /\ U(i) # U(j)
    BY <2>0, Zenon
  <2> HIDE DEF U
  <2>2. IsFiniteSet(U(j)) /\ Cardinality(U(i)) \in Nat /\ Cardinality(U(j)) \in Nat
    BY <1>1, <1>2
  <2> QED BY <2>1, <2>2, FS_Subset
<1> HIDE DEF U, n
<1>4. f \in Injection(S, 1 .. n)
  <2>1. f \in [S -> 1 .. n]
    BY <1>2
  <2>2. \A i, j \in S : Cardinality(U(i)) = Cardinality(U(j)) => i = j
    <3> SUFFICES ASSUME NEW i \in S, NEW j \in S, Cardinality(U(i)) = Cardinality(U(j)) PROVE i = j
      OBVIOUS
    <3>1. ~ (i < j) /\ ~ (j < i)
      BY <1>1, <1>2, <1>3
    <3> QED BY <3>1
  <2> QED BY <2>1, <2>2 DEF Injection, IsInjective
<1>5. IsFiniteSet(1 .. n) /\ Cardinality(1 .. n) = n
  <2>1. IsFiniteSet(1 .. n) /\ Cardinality(1 .. n) = IF 1 > n THEN 0 ELSE n - 1 + 1
    BY <1>1, FS_Interval
  <2> QED BY <1>1, <2>1
<1>6. f \in Surjection(S, 1 .. n)
  <2> HIDE DEF f
  <2> QED BY <1>4, <1>5, FS_Injection DEF n
<1>7. ASSUME NEW k \in 1 .. n PROVE Nth(S, k) \in S /\ Cardinality(U(Nth(S, k))) = k
  <2>1. \E i \in S : f[i] = k
    BY <1>6 DEF Surjection
  <2>2. \E i \in S : Cardinality(U(i)) = k
    BY <2>1
  <2> QED BY <2>2 DEF Nth, U
<1>8. ASSUME NEW k \in 1 .. n, NEW l \in 1 .. n, k < l PROVE Nth(S, k) < Nth(S, l)
  <2>1. /\ Nth(S, k) \in S /\ Nth(S, l) \in S
        /\ Cardinality(U(Nth(S, k))) = k /\ Cardinality(U(Nth(S, l))) = l
    BY <1>7
  <2> DEFINE a == Nth(S, k)
             b == Nth(S, l)
  <2>2. a \in S /\ b \in S /\ a \in Nat /\ b \in Nat /\ Cardinality(U(a)) = k /\ Cardinality(U(b)) = l
    BY <2>1
  <2> HIDE DEF a, b
  <2>3. a # b /\ ~ (b < a)
    BY <1>1, <1>3, <1>8, <2>2
  <2>4. a < b
    BY <2>2, <2>3
  <2> QED BY <2>4 DEF a, b
<1> QED BY <1>1, <1>7, <1>8 DEF n

\* The futures at the places S.
Picked(fs, S) == [k \in 1 .. Cardinality(S) |-> fs[Nth(S, k)]]
LEMMA PickedFacts ==
  ASSUME NEW fs \in Seq(Future), NEW S \in SUBSET (1 .. Len(fs))
  PROVE  /\ Picked(fs, S) \in Seq(Future)
         /\ \A k \in 1 .. Len(Picked(fs, S)) : Nth(S, k) \in S /\ Picked(fs, S)[k] = fs[Nth(S, k)]
         /\ \A k, l \in 1 .. Len(Picked(fs, S)) : k < l => Nth(S, k) < Nth(S, l)
<1>1. Len(fs) \in Nat /\ \A i \in 1 .. Len(fs) : fs[i] \in Future
  OBVIOUS
<1>2. S \in SUBSET Nat /\ IsFiniteSet(S)
  <2>1. IsFiniteSet(1 .. Len(fs))
    BY <1>1, FS_Interval
  <2>2. S \in SUBSET Nat
    BY <1>1
  <2> QED BY <2>1, <2>2, FS_Subset, Zenon
<1>3. /\ Cardinality(S) \in Nat /\ \A k \in 1 .. Cardinality(S) : Nth(S, k) \in S
      /\ \A k, l \in 1 .. Cardinality(S) : k < l => Nth(S, k) < Nth(S, l)
  BY <1>2, NthFacts
<1>4. \A k \in 1 .. Cardinality(S) : fs[Nth(S, k)] \in Future
  BY <1>1, <1>3
<1>5. Picked(fs, S) \in Seq(Future) /\ Len(Picked(fs, S)) = Cardinality(S)
  BY <1>3, <1>4 DEF Picked
<1>6. \A k \in 1 .. Cardinality(S) : Picked(fs, S)[k] = fs[Nth(S, k)]
  BY DEF Picked
<1> QED BY <1>3, <1>5, <1>6

LEMMA FutureTypes ==
  ASSUME NEW fs \in Seq(Future)
  PROVE  Len(fs) \in Nat /\ \A i \in 1 .. Len(fs) : fs[i] \in Future /\ fs[i].n \in Nat
<1>1. Len(fs) \in Nat /\ \A i \in 1 .. Len(fs) : fs[i] \in Future
  OBVIOUS
<1> QED BY <1>1 DEF Future

LEMMA PickedHeld ==
  ASSUME NEW fs \in Seq(Future), NEW S \in SUBSET (1 .. Len(fs)), NEW n \in Nat, HeldIs(fs, n)
  PROVE  HeldIs(Picked(fs, S), n)
<1> DEFINE g == Picked(fs, S)
<1>1. /\ \A k \in 1 .. Len(g) : Nth(S, k) \in S /\ g[k] = fs[Nth(S, k)]
      /\ \A k, l \in 1 .. Len(g) : k < l => Nth(S, k) < Nth(S, l)
  BY PickedFacts
<1>2. \A k \in 1 .. Len(g) : Nth(S, k) \in 1 .. Len(fs)
  BY <1>1
<1> HIDE DEF g
<1>3. ASSUME NEW i \in 1 .. Len(g), g[i].kind = "recv" PROVE g[i].n <= n
  BY <1>1, <1>2, <1>3 DEF HeldIs
<1>4. ASSUME NEW i \in 1 .. Len(g), NEW j \in 1 .. Len(g), i < j, g[i].kind = "recv", g[j].kind = "recv"
      PROVE  g[i].n < g[j].n
  BY <1>1, <1>2, <1>4 DEF HeldIs
<1> QED BY <1>3, <1>4 DEF HeldIs, g

LEMMA PickedReturned ==
  ASSUME NEW fs \in Seq(Future), NEW S \in SUBSET (1 .. Len(fs)), NEW n \in Nat, NEW ret,
         ReturnedIs(ret, fs, n)
  PROVE  ReturnedIs(ret, Picked(fs, S), n)
<1> DEFINE g == Picked(fs, S)
<1>1. \A k \in 1 .. Len(g) : Nth(S, k) \in S /\ g[k] = fs[Nth(S, k)]
  BY PickedFacts
<1>2. \A k \in 1 .. Len(g) : Nth(S, k) \in 1 .. Len(fs)
  BY <1>1
<1> HIDE DEF g
<1>3. \A i \in 1 .. Len(ret), j \in 1 .. Len(g) : g[j].kind = "recv" => ret[i].n < g[j].n
  BY <1>1, <1>2 DEF ReturnedIs
<1> QED BY <1>3 DEF ReturnedIs, g

\* The futures before a place are returned, the others are kept.
LEMMA PrefixReturned ==
  ASSUME NEW fs \in Seq(Future), NEW ret \in Seq(Future), NEW n \in Nat, NEW A, NEW B,
         HeldIs(fs, n), ReturnedIs(ret, fs, n),
         A \in SUBSET (1 .. Len(fs)), B \in SUBSET (1 .. Len(fs)),
         \A a \in A : fs[a].kind = "recv", \A a \in A, b \in B : a < b
  PROVE  ret \o Picked(fs, A) \in Seq(Future) /\ ReturnedIs(ret \o Picked(fs, A), Picked(fs, B), n)
<1> DEFINE g == Picked(fs, A)
           h == Picked(fs, B)
           x == ret \o g
<1>1. /\ g \in Seq(Future)
      /\ \A k \in 1 .. Len(g) : Nth(A, k) \in A /\ g[k] = fs[Nth(A, k)]
      /\ \A k, l \in 1 .. Len(g) : k < l => Nth(A, k) < Nth(A, l)
  BY PickedFacts
<1>2. \A k \in 1 .. Len(h) : Nth(B, k) \in B /\ h[k] = fs[Nth(B, k)]
  BY PickedFacts
<1> HIDE DEF g, h
<1>3. /\ x \in Seq(Future) /\ Len(x) = Len(ret) + Len(g)
      /\ \A i \in 1 .. Len(ret) + Len(g) : x[i] = IF i <= Len(ret) THEN ret[i] ELSE g[i - Len(ret)]
  BY <1>1, ConcatProperties, Zenon
<1> HIDE DEF x
<1>4. Len(ret) \in Nat /\ Len(g) \in Nat
  BY <1>1
<1>5. ASSUME NEW i \in 1 .. Len(g)
      PROVE  /\ Nth(A, i) \in A /\ Nth(A, i) \in 1 .. Len(fs) /\ fs[Nth(A, i)].kind = "recv"
             /\ g[i] = fs[Nth(A, i)] /\ g[i].n <= n
  BY <1>1 DEF HeldIs
<1>6. ASSUME NEW i \in 1 .. Len(g), NEW j \in 1 .. Len(g), i < j PROVE g[i].n < g[j].n
  BY <1>1, <1>5, <1>6 DEF HeldIs
<1>7. ASSUME NEW i \in 1 .. Len(ret), NEW j \in 1 .. Len(g) PROVE ret[i].n < g[j].n
  BY <1>5 DEF ReturnedIs
<1>8. ASSUME NEW i \in 1 .. Len(g), NEW j \in 1 .. Len(h), h[j].kind = "recv" PROVE g[i].n < h[j].n
  <2>1. Nth(B, j) \in B /\ Nth(B, j) \in 1 .. Len(fs) /\ h[j] = fs[Nth(B, j)]
    BY <1>2
  <2>2. Nth(A, i) < Nth(B, j)
    BY <1>5, <2>1
  <2> QED BY <1>5, <1>8, <2>1, <2>2 DEF HeldIs
<1>9. ASSUME NEW i \in 1 .. Len(ret), NEW j \in 1 .. Len(h), h[j].kind = "recv" PROVE ret[i].n < h[j].n
  <2>1. Nth(B, j) \in 1 .. Len(fs) /\ h[j] = fs[Nth(B, j)]
    BY <1>2
  <2> QED BY <1>9, <2>1 DEF ReturnedIs
<1>10. ASSUME NEW i \in 1 .. Len(x)
       PROVE  \/ i \in 1 .. Len(ret) /\ x[i] = ret[i]
              \/ i - Len(ret) \in 1 .. Len(g) /\ x[i] = g[i - Len(ret)] /\ i > Len(ret)
  BY <1>3, <1>4
<1>11. \A i \in 1 .. Len(x) : x[i].n <= n
  BY <1>5, <1>10 DEF ReturnedIs
<1>12. ASSUME NEW i \in 1 .. Len(x), NEW j \in 1 .. Len(x), i < j PROVE x[i].n < x[j].n
  <2>1. CASE i \in 1 .. Len(ret) /\ x[i] = ret[i] /\ j \in 1 .. Len(ret) /\ x[j] = ret[j]
    BY <1>12, <2>1 DEF ReturnedIs
  <2>2. CASE i \in 1 .. Len(ret) /\ x[i] = ret[i] /\ j - Len(ret) \in 1 .. Len(g) /\ x[j] = g[j - Len(ret)]
    BY <1>7, <2>2
  <2>3. CASE i > Len(ret) /\ i - Len(ret) \in 1 .. Len(g) /\ x[i] = g[i - Len(ret)]
    <3>1. j - Len(ret) \in 1 .. Len(g) /\ x[j] = g[j - Len(ret)] /\ i - Len(ret) < j - Len(ret)
      BY <1>4, <1>10, <1>12, <2>3
    <3> QED BY <1>6, <2>3, <3>1
  <2> QED BY <1>10, <2>1, <2>2, <2>3
<1>13. ASSUME NEW i \in 1 .. Len(x), NEW j \in 1 .. Len(h), h[j].kind = "recv" PROVE x[i].n < h[j].n
  BY <1>8, <1>9, <1>10, <1>13
<1>14. ReturnedIs(x, h, n)
  BY <1>11, <1>12, <1>13 DEF ReturnedIs
<1> QED BY <1>3, <1>14 DEF x, g, h

-----------------------------------------------------------------------------
(* Steps.  What a step does to the futures, and what it does to messages.  *)

\* Rank r holds the futures fs, has returned ret and has posted n receives after a step.
FuturesBecome(r, fs, ret, n) ==
    /\ futures' = [futures EXCEPT ![r] = fs] /\ fs \in Seq(Future)
    /\ returned' = [returned EXCEPT ![r] = ret] /\ ret \in Seq(Future)
    /\ posts' = [posts EXCEPT ![r] = n] /\ n \in Nat
    /\ transport' = transport
    /\ scan' = [scan EXCEPT ![r] = scan'[r]] /\ scan'[r] \in 0 .. Len(fs) + 1
    /\ HeldIs(fs, n)
    /\ transport = "ucxx" => ReturnedIs(ret, fs, n)

LEMMA FuturesKept ==
  ASSUME CommInv, NEW r \in CommRanks, NEW fs, NEW ret, NEW n, FuturesBecome(r, fs, ret, n)
  PROVE  /\ futures' \in [CommRanks -> Seq(Future)] /\ returned' \in [CommRanks -> Seq(Future)]
         /\ posts' \in [CommRanks -> Nat] /\ scan' \in [CommRanks -> Nat]
         /\ futures'[r] = fs /\ \A q \in CommRanks \ {r} : futures'[q] = futures[q]
         /\ \A q \in CommRanks : FuturesInv(q)'
<1>1. /\ futures \in [CommRanks -> Seq(Future)] /\ returned \in [CommRanks -> Seq(Future)]
      /\ posts \in [CommRanks -> Nat] /\ scan \in [CommRanks -> Nat]
      /\ \A q \in CommRanks : FuturesInv(q)
  BY DEF CommInv, CommTypes
<1>2. /\ futures' \in [CommRanks -> Seq(Future)] /\ returned' \in [CommRanks -> Seq(Future)]
      /\ posts' \in [CommRanks -> Nat]
      /\ futures'[r] = fs /\ returned'[r] = ret /\ posts'[r] = n
      /\ \A q \in CommRanks \ {r} : futures'[q] = futures[q] /\ returned'[q] = returned[q] /\ posts'[q] = posts[q]
  BY <1>1 DEF FuturesBecome
<1>4. /\ scan' \in [CommRanks -> Nat] /\ scan'[r] <= Len(fs) + 1
      /\ \A q \in CommRanks \ {r} : scan'[q] = scan[q]
  <2>1. Len(fs) \in Nat
    BY DEF FuturesBecome
  <2> DEFINE c == scan'[r]
  <2>2. c \in Nat /\ c <= Len(fs) + 1 /\ scan' = [scan EXCEPT ![r] = c]
    BY <2>1 DEF FuturesBecome
  <2> HIDE DEF c
  <2>3. scan' \in [CommRanks -> Nat] /\ scan'[r] = c /\ \A q \in CommRanks \ {r} : scan'[q] = scan[q]
    BY <1>1, <2>2
  <2> QED BY <2>2, <2>3
<1>3. ASSUME NEW q \in CommRanks PROVE FuturesInv(q)'
  <2>1. CASE q = r
    BY <1>2, <1>4, <2>1 DEF FuturesInv, FuturesBecome
  <2>2. CASE q # r
    <3>1. futures'[q] = futures[q] /\ returned'[q] = returned[q] /\ posts'[q] = posts[q] /\ scan'[q] = scan[q]
      BY <1>2, <1>4, <2>2
    <3> QED BY <1>1, <3>1 DEF FuturesInv, FuturesBecome
  <2> QED BY <2>1, <2>2
<1> QED BY <1>2, <1>3, <1>4

\* Only futures change: no receive is posted by this step.
LEMMA FuturesOnly ==
  ASSUME CommInv, NEW r \in CommRanks, NEW fs, NEW ret, NEW n, FuturesBecome(r, fs, ret, n),
         UNCHANGED <<wire, unexpected, taken>>,
         \A i \in 1 .. Len(fs) : fs[i].at = "posted" =>
             \E j \in 1 .. Len(futures[r]) :
                 futures[r][j].at = "posted" /\ futures[r][j].peer = fs[i].peer /\ futures[r][j].tag = fs[i].tag
  PROVE  CommInv'
<1>1. /\ futures' \in [CommRanks -> Seq(Future)] /\ returned' \in [CommRanks -> Seq(Future)]
      /\ posts' \in [CommRanks -> Nat] /\ scan' \in [CommRanks -> Nat]
      /\ futures'[r] = fs /\ \A q \in CommRanks \ {r} : futures'[q] = futures[q]
      /\ \A q \in CommRanks : FuturesInv(q)'
  BY FuturesKept
<1>2. CommTypes'
  BY <1>1 DEF CommInv, CommTypes
<1>3. SourcesInv' /\ \A k \in Lanes : LaneInv(k)'
  BY DEF CommInv, SourcesInv, LaneInv
<1>4. ASSUME NEW q \in CommRanks PROVE PostedInv(q)'
  <2>1. PostedInv(q) /\ unexpected'[q] = unexpected[q]
    BY DEF CommInv
  <2>2. CASE q = r
    BY <1>1, <2>1, <2>2 DEF PostedInv
  <2>3. CASE q # r
    BY <1>1, <2>1, <2>3 DEF PostedInv
  <2> QED BY <2>2, <2>3
<1> QED BY <1>1, <1>2, <1>3, <1>4 DEF CommInv

LEMMA CompleteKeeps ==
  ASSUME CommInv, NEW r \in CommRanks, NEW i \in DOMAIN futures[r], complete(r, i)
  PROVE  CommInv'
<1> DEFINE fs == [futures[r] EXCEPT ![i].at = "complete"]
<1>1. /\ futures \in [CommRanks -> Seq(Future)] /\ futures[r] \in Seq(Future) /\ returned[r] \in Seq(Future)
      /\ returned \in [CommRanks -> Seq(Future)] /\ posts \in [CommRanks -> Nat] /\ posts[r] \in Nat
      /\ FuturesInv(r) /\ scan \in [CommRanks -> Nat]
  BY DEF CommInv, CommTypes
<1>2. i \in 1 .. Len(futures[r]) /\ futures[r][i] \in Future
  BY <1>1
<1>3. [futures[r][i] EXCEPT !.at = "complete"] \in Future
  BY <1>2 DEF Future
<1>4. /\ fs \in Seq(Future) /\ Len(fs) = Len(futures[r])
      /\ \A j \in 1 .. Len(fs) : /\ fs[j].kind = futures[r][j].kind /\ fs[j].n = futures[r][j].n
                                 /\ fs[j].at = "posted" => fs[j] = futures[r][j]
  <2> DEFINE f == [futures[r][i] EXCEPT !.at = "complete"]
  <2>1. fs = [futures[r] EXCEPT ![i] = f]
    OBVIOUS
  <2>2. f.kind = futures[r][i].kind /\ f.n = futures[r][i].n /\ f.at = "complete"
    BY <1>2 DEF Future
  <2> HIDE DEF fs, f
  <2>3. fs \in Seq(Future) /\ Len(fs) = Len(futures[r]) /\ \A j \in 1 .. Len(fs) : fs[j] = IF j = i THEN f ELSE futures[r][j]
    BY <1>1, <1>2, <1>3, <2>1 DEF f
  <2> QED BY <2>2, <2>3
<1>5. futures' = [futures EXCEPT ![r] = fs] /\ UNCHANGED <<transport, posts, wire, unexpected, scan, taken, returned>>
  BY DEF complete
<1> HIDE DEF fs
<1>6. HeldIs(fs, posts[r]) /\ (transport = "ucxx" => ReturnedIs(returned[r], fs, posts[r]))
  BY <1>1, <1>4 DEF FuturesInv, HeldIs, ReturnedIs
<1>7. FuturesBecome(r, fs, returned[r], posts[r])
  <2>1. scan'[r] \in 0 .. Len(fs) + 1 /\ scan' = [scan EXCEPT ![r] = scan'[r]]
    BY <1>1, <1>4, <1>5 DEF FuturesInv
  <2> QED BY <1>1, <1>4, <1>5, <1>6, <2>1 DEF FuturesBecome
<1>8. \A j \in 1 .. Len(fs) : fs[j].at = "posted" =>
          \E l \in 1 .. Len(futures[r]) :
              futures[r][l].at = "posted" /\ futures[r][l].peer = fs[j].peer /\ futures[r][l].tag = fs[j].tag
  BY <1>4
<1> QED BY <1>1, <1>5, <1>7, <1>8, FuturesOnly

\* Futures are given up, and some of them may be returned.
LEMMA GiveUpKeeps ==
  ASSUME CommInv, NEW r \in CommRanks, NEW S, GiveUp(r, S), NEW ret \in Seq(Future),
         returned' = [returned EXCEPT ![r] = ret], scan' = [scan EXCEPT ![r] = 0],
         UNCHANGED <<transport, posts, wire, unexpected, taken>>,
         transport = "ucxx" => ReturnedIs(ret, Picked(futures[r], DOMAIN futures[r] \ S), posts[r])
  PROVE  CommInv'
<1> DEFINE T == DOMAIN futures[r] \ S
           fs == Picked(futures[r], T)
<1>1. /\ futures \in [CommRanks -> Seq(Future)] /\ futures[r] \in Seq(Future)
      /\ posts \in [CommRanks -> Nat] /\ posts[r] \in Nat /\ FuturesInv(r)
      /\ scan \in [CommRanks -> Nat]
  BY DEF CommInv, CommTypes
<1>2. T \in SUBSET (1 .. Len(futures[r]))
  BY <1>1
<1>3. futures' = [futures EXCEPT ![r] = fs]
  BY DEF GiveUp, At, Picked
<1> HIDE DEF T
<1>4. /\ fs \in Seq(Future)
      /\ \A k \in 1 .. Len(fs) : Nth(T, k) \in T /\ fs[k] = futures[r][Nth(T, k)]
  BY <1>1, <1>2, PickedFacts
<1>5. HeldIs(fs, posts[r])
  BY <1>1, <1>2, PickedHeld DEF FuturesInv
<1>6. FuturesBecome(r, fs, ret, posts[r])
  <2>1. scan'[r] \in 0 .. Len(fs) + 1 /\ scan' = [scan EXCEPT ![r] = scan'[r]]
    BY <1>1, <1>4
  <2> QED BY <1>1, <1>3, <1>4, <1>5, <2>1 DEF FuturesBecome, T
<1> HIDE DEF fs
<1>7. \A j \in 1 .. Len(fs) : fs[j].at = "posted" =>
          \E l \in 1 .. Len(futures[r]) :
              futures[r][l].at = "posted" /\ futures[r][l].peer = fs[j].peer /\ futures[r][l].tag = fs[j].tag
  BY <1>2, <1>4
<1> QED BY <1>6, <1>7, FuturesOnly

LEMMA DropKeeps ==
  ASSUME CommInv, NEW r \in CommRanks, NEW S, GiveUp(r, S),
         UNCHANGED <<transport, posts, wire, unexpected, taken, scan, returned>>, Idle(r)
  PROVE  CommInv'
<1>1. /\ futures[r] \in Seq(Future) /\ returned \in [CommRanks -> Seq(Future)] /\ returned[r] \in Seq(Future)
      /\ scan \in [CommRanks -> Nat] /\ posts[r] \in Nat /\ FuturesInv(r)
  BY DEF CommInv, CommTypes
<1>2. DOMAIN futures[r] \ S \in SUBSET (1 .. Len(futures[r]))
  BY <1>1
<1>3. transport = "ucxx" => ReturnedIs(returned[r], Picked(futures[r], DOMAIN futures[r] \ S), posts[r])
  BY <1>1, <1>2, PickedReturned DEF FuturesInv
<1>4. returned' = [returned EXCEPT ![r] = returned[r]] /\ scan' = [scan EXCEPT ![r] = 0]
  BY <1>1 DEF Idle
<1> QED BY <1>1, <1>3, <1>4, GiveUpKeeps

LEMMA TestsKeep ==
  ASSUME CommInv, NEW r \in CommRanks, test(r) \/ wait_all(r)
  PROVE  CommInv'
BY DropKeeps DEF test, wait_all

LEMMA MpiKeeps ==
  ASSUME CommInv, NEW r \in CommRanks, mpi_test_some(r)
  PROVE  CommInv'
<1> DEFINE A == {i \in Completed(r) : futures[r][i].kind = "recv"}
           ret == returned[r] \o Picked(futures[r], A)
<1>1. /\ futures[r] \in Seq(Future) /\ returned[r] \in Seq(Future) /\ scan \in [CommRanks -> Nat]
  BY DEF CommInv, CommTypes
<1>2. A \in SUBSET (1 .. Len(futures[r]))
  BY <1>1 DEF Completed
<1>3. /\ GiveUp(r, Completed(r)) /\ returned' = [returned EXCEPT ![r] = ret] /\ transport = "mpi"
      /\ UNCHANGED <<transport, posts, wire, unexpected, scan, taken>> /\ scan[r] = 0
  BY DEF mpi_test_some, Return, At, Picked, Idle
<1>4. ret \in Seq(Future)
  <2> HIDE DEF A
  <2>1. Picked(futures[r], A) \in Seq(Future)
    BY <1>1, <1>2, PickedFacts
  <2> QED BY <1>1, <2>1
<1>5. scan' = [scan EXCEPT ![r] = 0]
  BY <1>1, <1>3
<1> HIDE DEF ret
<1> QED BY <1>1, <1>3, <1>4, <1>5, GiveUpKeeps

LEMMA UcxxKeeps ==
  ASSUME CommInv, NEW r \in CommRanks, ucxx_test_some(r) \/ ucxx_test_some_look(r)
  PROVE  CommInv'
<1>1. /\ futures[r] \in Seq(Future) /\ returned[r] \in Seq(Future) /\ scan \in [CommRanks -> Nat]
      /\ posts[r] \in Nat /\ FuturesInv(r) /\ scan[r] \in Nat
  BY DEF CommInv, CommTypes
<1>2. ASSUME NEW c \in Nat, c <= Len(futures[r]) + 1, scan' = [scan EXCEPT ![r] = c],
             UNCHANGED <<transport, posts, wire, unexpected, futures, taken, returned>>
      PROVE  CommInv'
  <2>1. CommTypes' /\ SourcesInv'
    BY <1>2 DEF CommInv, CommTypes, SourcesInv
  <2>2. (\A k \in Lanes : LaneInv(k)') /\ \A q \in CommRanks : PostedInv(q)'
    BY <1>2 DEF CommInv, LaneInv, PostedInv
  <2>3. ASSUME NEW q \in CommRanks PROVE FuturesInv(q)'
    <3>1. scan'[q] = IF q = r THEN c ELSE scan[q]
      BY <1>1, <1>2
    <3>2. FuturesInv(q)
      BY DEF CommInv
    <3> QED BY <1>2, <3>1, <3>2 DEF FuturesInv
  <2> QED BY <2>1, <2>2, <2>3 DEF CommInv
<1>3. CASE ucxx_test_some(r)
  <2>1. 1 <= Len(futures[r]) + 1
    BY <1>1
  <2> QED BY <1>2, <1>3, <2>1 DEF ucxx_test_some
<1>4. CASE ucxx_test_some_look(r) /\ scan[r] \in Completed(r)
  <2>1. scan[r] + 1 <= Len(futures[r]) + 1 /\ scan[r] + 1 \in Nat
    BY <1>1, <1>4 DEF Completed
  <2>2. /\ scan' = [scan EXCEPT ![r] = scan[r] + 1]
        /\ UNCHANGED <<transport, posts, wire, unexpected, futures, taken, returned>>
    BY <1>4 DEF ucxx_test_some_look
  <2> QED BY <1>2, <2>1, <2>2
<1>5. CASE ucxx_test_some_look(r) /\ scan[r] \notin Completed(r)
  <2> DEFINE S == 1 .. (scan[r] - 1)
             A == {i \in S : futures[r][i].kind = "recv"}
             B == DOMAIN futures[r] \ S
             ret == returned[r] \o Picked(futures[r], A)
  <2>1. /\ GiveUp(r, S) /\ returned' = [returned EXCEPT ![r] = ret] /\ scan' = [scan EXCEPT ![r] = 0]
        /\ UNCHANGED <<transport, posts, wire, unexpected, taken>>
    BY <1>5 DEF ucxx_test_some_look, Return, At, Picked
  <2>2. /\ A \in SUBSET (1 .. Len(futures[r])) /\ B \in SUBSET (1 .. Len(futures[r]))
        /\ (\A a \in A : futures[r][a].kind = "recv") /\ \A a \in A, b \in B : a < b
    <3>1. Len(futures[r]) \in Nat /\ DOMAIN futures[r] = 1 .. Len(futures[r]) /\ scan[r] <= Len(futures[r]) + 1
      BY <1>1 DEF FuturesInv
    <3> QED BY <1>1, <3>1
  <2> HIDE DEF A, B
  <2>3. ret \in Seq(Future)
    <3>1. Picked(futures[r], A) \in Seq(Future)
      BY <1>1, <2>2, PickedFacts
    <3> QED BY <1>1, <3>1
  <2>4. transport = "ucxx" => ReturnedIs(ret, Picked(futures[r], B), posts[r])
    BY <1>1, <2>2, PrefixReturned DEF FuturesInv
  <2> HIDE DEF ret, S
  <2> QED BY <1>1, <2>1, <2>3, <2>4, GiveUpKeeps DEF B
<1> QED BY <1>3, <1>4, <1>5

-----------------------------------------------------------------------------
(* Steps that move messages.                                               *)

LEMMA LaneSkips ==
  ASSUME NEW k, NEW t \in Seq(Nat), NEW u \in Seq(CommMessage), NEW w \in Seq(CommMessage),
         NEW m \in CommMessage, LaneIs(k, t, u, w), ~ OfLane(k, m)
  PROVE  LaneIs(k, t, Append(u, m), w)
<1> DEFINE y == Append(u, m)
<1>1. /\ Len(y) = Len(u) + 1 /\ Len(u) \in Nat /\ y[Len(u) + 1] = m
      /\ \A i \in 1 .. Len(u) : y[i] = u[i] /\ Number(y, k, i) = Number(u, k, i)
      /\ Number(y, k, Len(u) + 1) = Number(u, k, Len(u)) + OneIf(OfLane(k, m))
  <2>1. AppendCounts(u, y, m, k) /\ Len(u) \in Nat
    BY AppendNumbers
  <2> QED BY <2>1 DEF AppendCounts
<1> HIDE DEF y
<1>2. Number(y, k, Len(y)) = Number(u, k, Len(u))
  <2>1. Number(u, k, Len(u)) \in Nat
    BY NumbersAreNaturals
  <2> QED BY <1>1, <2>1 DEF OneIf
<1>3. ASSUME NEW i \in 1 .. Len(y), OfLane(k, y[i]) PROVE y[i].data = Len(t) + Number(y, k, i)
  <2>1. i \in 1 .. Len(u)
    BY <1>1, <1>3
  <2> QED BY <1>1, <1>3, <2>1 DEF LaneIs
<1>4. LaneIs(k, t, y, w)
  BY <1>2, <1>3 DEF LaneIs
<1> QED BY <1>4 DEF y

\* The first place of a set, 0 if there is none.
FirstPlace(I) == IF I # {} THEN Min(I) ELSE 0
LEMMA FirstIs ==
  ASSUME NEW n \in Nat, NEW I \in SUBSET (1 .. n)
  PROVE  /\ FirstPlace(I) \in Nat
         /\ FirstPlace(I) = 0 => I = {}
         /\ FirstPlace(I) # 0 => FirstPlace(I) \in I /\ FirstPlace(I) \in 1 .. n /\ \A j \in 1 .. FirstPlace(I) - 1 : j \notin I
<1>1. CASE I = {}
  BY <1>1 DEF FirstPlace
<1>2. CASE I # {}
  <2> DEFINE a == Min(I)
  <2>1. a \in I /\ \A y \in I : a <= y
    BY <1>2, MinIsLeast
  <2>2. FirstPlace(I) = a
    BY <1>2 DEF FirstPlace
  <2> HIDE DEF a
  <2>3. a \in 1 .. n /\ a \in Nat /\ a # 0 /\ \A j \in 1 .. a - 1 : j \notin I
    BY <2>1
  <2> QED BY <2>1, <2>2, <2>3
<1> QED BY <1>1, <1>2

\* The messages are in order after a step.
MessagesKept ==
    /\ taken' \in [Lanes -> Seq(Nat)] /\ wire' \in [Links -> Seq(CommMessage)]
    /\ unexpected' \in [CommRanks -> Seq(CommMessage)]
    /\ SourcesInv' /\ \A k \in Lanes : LaneInv(k)'

LEMMA FuturesStay ==
  ASSUME CommInv, NEW r \in CommRanks, UNCHANGED <<transport, posts, futures, scan, returned>>
  PROVE  FuturesBecome(r, futures[r], returned[r], posts[r])
<1>1. /\ futures \in [CommRanks -> Seq(Future)] /\ returned \in [CommRanks -> Seq(Future)]
      /\ posts \in [CommRanks -> Nat] /\ scan \in [CommRanks -> Nat] /\ FuturesInv(r)
  BY DEF CommInv, CommTypes
<1>2. futures[r] \in Seq(Future) /\ returned[r] \in Seq(Future) /\ posts[r] \in Nat /\ scan[r] \in Nat
  BY <1>1
<1>3. scan' = [scan EXCEPT ![r] = scan'[r]] /\ scan'[r] \in 0 .. Len(futures[r]) + 1
  BY <1>1, <1>2 DEF FuturesInv
<1>4. /\ futures' = [futures EXCEPT ![r] = futures[r]] /\ returned' = [returned EXCEPT ![r] = returned[r]]
      /\ posts' = [posts EXCEPT ![r] = posts[r]]
  BY <1>1
<1> QED BY <1>1, <1>2, <1>3, <1>4 DEF FuturesBecome, FuturesInv

LEMMA MessagesMove ==
  ASSUME CommInv, NEW r \in CommRanks, NEW fs, NEW ret, NEW n, FuturesBecome(r, fs, ret, n),
         MessagesKept, \A q \in CommRanks : PostedInv(q)'
  PROVE  CommInv'
<1>1. /\ futures' \in [CommRanks -> Seq(Future)] /\ returned' \in [CommRanks -> Seq(Future)]
      /\ posts' \in [CommRanks -> Nat] /\ scan' \in [CommRanks -> Nat]
      /\ \A q \in CommRanks : FuturesInv(q)'
  BY FuturesKept
<1>2. CommTypes'
  BY <1>1 DEF MessagesKept, CommTypes
<1> QED BY <1>1, <1>2 DEF MessagesKept, CommInv

\* A future is added at the end.
LEMMA FutureAdded ==
  ASSUME NEW fs \in Seq(Future), NEW ret \in Seq(Future), NEW n \in Nat, NEW f \in Future, NEW m \in Nat,
         HeldIs(fs, n), n <= m, f.kind = "recv" => f.n = n + 1 /\ m = n + 1
  PROVE  /\ HeldIs(Append(fs, f), m)
         /\ ReturnedIs(ret, fs, n) => ReturnedIs(ret, Append(fs, f), m)
<1> DEFINE g == Append(fs, f)
<1>1. /\ Len(fs) \in Nat /\ Len(g) = Len(fs) + 1 /\ g[Len(fs) + 1] = f
      /\ \A i \in 1 .. Len(fs) : g[i] = fs[i] /\ fs[i].n \in Nat
  <2>1. \A i \in 1 .. Len(fs) : fs[i].n \in Nat
    BY FutureTypes
  <2> QED BY <2>1
<1>2. Len(ret) \in Nat /\ \A i \in 1 .. Len(ret) : ret[i].n \in Nat
  BY FutureTypes
<1> HIDE DEF g
<1>3. \A i \in 1 .. Len(g) : g[i].kind = "recv" => g[i].n <= m
  <2> SUFFICES ASSUME NEW i \in 1 .. Len(g), g[i].kind = "recv" PROVE g[i].n <= m
    OBVIOUS
  <2>1. CASE i \in 1 .. Len(fs)
    BY <1>1, <2>1 DEF HeldIs
  <2>2. CASE i = Len(fs) + 1
    BY <1>1, <2>2
  <2> QED BY <1>1, <2>1, <2>2
<1>4. ASSUME NEW i \in 1 .. Len(g), NEW j \in 1 .. Len(g), i < j, g[i].kind = "recv", g[j].kind = "recv"
      PROVE  g[i].n < g[j].n
  <2>1. i \in 1 .. Len(fs)
    BY <1>1, <1>4
  <2>2. CASE j \in 1 .. Len(fs)
    BY <1>1, <1>4, <2>1, <2>2 DEF HeldIs
  <2>3. CASE j = Len(fs) + 1
    <3>1. fs[i].n <= n /\ fs[i].n \in Nat /\ g[i] = fs[i]
      BY <1>1, <1>4, <2>1 DEF HeldIs
    <3>2. g[j].n = n + 1
      BY <1>1, <1>4, <2>3
    <3> QED BY <3>1, <3>2
  <2> QED BY <1>1, <2>2, <2>3
<1>5. ASSUME ReturnedIs(ret, fs, n) PROVE ReturnedIs(ret, g, m)
  <2>1. \A i \in 1 .. Len(ret) : ret[i].n <= n
    BY <1>5 DEF ReturnedIs
  <2>2. ASSUME NEW i \in 1 .. Len(ret), NEW j \in 1 .. Len(g), g[j].kind = "recv" PROVE ret[i].n < g[j].n
    <3>1. CASE j \in 1 .. Len(fs)
      BY <1>1, <1>5, <2>2, <3>1 DEF ReturnedIs
    <3>2. CASE j = Len(fs) + 1
      BY <1>1, <1>2, <2>1, <2>2, <3>2
    <3> QED BY <1>1, <3>1, <3>2
  <2>3. \A i \in 1 .. Len(ret) : ret[i].n <= m
    BY <1>2, <2>1
  <2> QED BY <1>5, <2>2, <2>3 DEF ReturnedIs
<1> QED BY <1>3, <1>4, <1>5 DEF HeldIs, g

\* The message at c, the first of its lane, is taken out of those that rank r keeps.
LEMMA KeptIsTaken ==
  ASSUME CommInv, NEW r \in CommRanks, NEW c \in 1 .. Len(unexpected[r]),
         taken' = Take(unexpected[r][c], r), wire' = wire,
         unexpected' = [unexpected EXCEPT ![r] = RemoveAt(@, c)],
         \A j \in 1 .. c - 1 : unexpected[r][j].tag # unexpected[r][c].tag
  PROVE  /\ MessagesKept
         /\ \A q \in CommRanks : \A j \in 1 .. Len(unexpected'[q]) :
               \E i \in 1 .. Len(unexpected[q]) : unexpected'[q][j] = unexpected[q][i]
<1> DEFINE u == unexpected[r]
           m == u[c]
<1>1. /\ taken \in [Lanes -> Seq(Nat)] /\ wire \in [Links -> Seq(CommMessage)]
      /\ unexpected \in [CommRanks -> Seq(CommMessage)] /\ u \in Seq(CommMessage)
      /\ SourcesInv /\ \A k \in Lanes : LaneInv(k)
  BY DEF CommInv, CommTypes
<1>2. PICK l \in Lanes : l[2] = r /\ OfLane(l, m)
  BY <1>1 DEF SourcesInv
<1>3. m \in CommMessage /\ m.data \in Nat
  <2>1. m \in CommMessage
    BY <1>1
  <2> QED BY <2>1 DEF CommMessage
<1>4. taken' = [taken EXCEPT ![l] = Append(@, m.data)]
  BY <1>2, TakeIs
<1> HIDE DEF m
<1>5. /\ taken' \in [Lanes -> Seq(Nat)] /\ taken'[l] = Append(taken[l], m.data)
      /\ \A k \in Lanes \ {l} : taken'[k] = taken[k]
  BY <1>1, <1>3, <1>4
<1> DEFINE x == RemoveAt(u, c)
<1>6. x \in Seq(CommMessage) /\ Cut(u, x, c) /\ Len(u) \in Nat
  BY <1>1, RemoveIsCut
<1> HIDE DEF x
<1>7. /\ unexpected' \in [CommRanks -> Seq(CommMessage)] /\ unexpected'[r] = x
      /\ \A q \in CommRanks \ {r} : unexpected'[q] = unexpected[q]
  BY <1>1, <1>6 DEF x
<1> HIDE DEF u
<1>8. \A j \in 1 .. Len(x) : \E i \in 1 .. Len(u) : x[j] = u[i]
  <2> SUFFICES ASSUME NEW j \in 1 .. Len(x) PROVE \E i \in 1 .. Len(u) : x[j] = u[i]
    OBVIOUS
  <2>1. Len(x) = Len(u) - 1 /\ x[j] = IF j < c THEN u[j] ELSE u[j + 1]
    BY <1>6 DEF Cut
  <2>2. j \in 1 .. Len(u) /\ j + 1 \in 1 .. Len(u)
    BY <1>6, <2>1
  <2> QED BY <2>1, <2>2
<1>9. \A q \in CommRanks : \A j \in 1 .. Len(unexpected'[q]) :
          \E i \in 1 .. Len(unexpected[q]) : unexpected'[q][j] = unexpected[q][i]
  <2> SUFFICES ASSUME NEW q \in CommRanks
               PROVE  \A j \in 1 .. Len(unexpected'[q]) :
                         \E i \in 1 .. Len(unexpected[q]) : unexpected'[q][j] = unexpected[q][i]
    OBVIOUS
  <2>1. CASE q = r
    BY <1>7, <1>8, <2>1 DEF u
  <2>2. CASE q # r
    BY <1>7, <2>2
  <2> QED BY <2>1, <2>2
<1>10. SourcesInv'
  <2>1. \A p \in Links : \A i \in 1 .. Len(wire'[p]) :
            \E k \in Lanes : p = <<k[1], k[2]>> /\ OfLane(k, wire'[p][i])
    BY <1>1 DEF SourcesInv
  <2>2. ASSUME NEW q \in CommRanks, NEW j \in 1 .. Len(unexpected'[q])
        PROVE  \E k \in Lanes : k[2] = q /\ OfLane(k, unexpected'[q][j])
    <3>1. PICK i \in 1 .. Len(unexpected[q]) : unexpected'[q][j] = unexpected[q][i]
      BY <1>9
    <3> QED BY <1>1, <3>1 DEF SourcesInv
  <2> QED BY <2>1, <2>2 DEF SourcesInv
<1>11. ASSUME NEW k \in Lanes PROVE LaneInv(k)'
  <2>1. /\ k[2] \in CommRanks /\ <<k[1], k[2]>> \in Links /\ LaneInv(k)
    BY <1>1, LaneFacts
  <2>2. taken[k] \in Seq(Nat) /\ wire[<<k[1], k[2]>>] \in Seq(CommMessage)
    BY <1>1, <2>1
  <2>3. CASE k[2] # r
    <3>1. k # l /\ unexpected'[k[2]] = unexpected[k[2]] /\ taken'[k] = taken[k]
      BY <1>2, <1>5, <1>7, <2>1, <2>3
    <3> QED BY <2>1, <3>1 DEF LaneInv
  <2>4. CASE k[2] = r
    <3> DEFINE w == wire[<<k[1], k[2]>>]
               t == taken[k]
    <3>0. u \in Seq(CommMessage) /\ w \in Seq(CommMessage) /\ t \in Seq(Nat) /\ c \in 1 .. Len(u)
      BY <1>1, <2>2 DEF u
    <3>1. LaneIs(k, t, u, w) /\ wire'[<<k[1], k[2]>>] = w /\ unexpected'[k[2]] = x
      BY <1>7, <2>1, <2>4 DEF LaneInv, u
    <3> HIDE DEF w, t
    <3>2. CASE k = l
      <4>1. \A j \in 1 .. c - 1 : ~ OfLane(k, u[j])
        BY <1>2, <3>2 DEF OfLane, Matches, u, m
      <4>2. LaneIs(k, Append(t, u[c].data), x, w)
        BY <1>2, <3>0, <3>1, <3>2, <4>1, LaneLosesKept DEF x, m
      <4>3. taken'[k] = Append(t, u[c].data)
        BY <1>5, <3>2 DEF t, m
      <4> QED BY <3>1, <4>2, <4>3 DEF LaneInv
    <3>3. CASE k # l
      <4>1. ~ OfLane(k, u[c])
        BY <1>2, <2>4, <3>3, OneLane DEF m
      <4>2. LaneIs(k, t, x, w)
        BY <3>0, <3>1, <4>1, LaneLosesKept DEF x
      <4>3. taken'[k] = t
        BY <1>5, <3>3 DEF t
      <4> QED BY <3>1, <4>2, <4>3 DEF LaneInv
    <3> QED BY <3>2, <3>3
  <2> QED BY <2>3, <2>4
<1> QED BY <1>1, <1>5, <1>7, <1>9, <1>10, <1>11 DEF MessagesKept

LEMMA ProbeKeeps ==
  ASSUME CommInv, NEW r \in CommRanks, NEW I \in SUBSET (1 .. Len(unexpected[r])), FirstPlace(I) # 0,
         taken' = Take(unexpected[r][FirstPlace(I)], r),
         unexpected' = [unexpected EXCEPT ![r] = RemoveAt(@, FirstPlace(I))],
         UNCHANGED <<transport, sends, posts, wire, futures, scan, returned>>,
         \A i \in I, j \in 1 .. Len(unexpected[r]) : unexpected[r][j].tag = unexpected[r][i].tag => j \in I
  PROVE  CommInv'
<1> DEFINE c == FirstPlace(I)
<1>1. unexpected[r] \in Seq(CommMessage)
  BY DEF CommInv, CommTypes
<1>2. c \in I /\ c \in 1 .. Len(unexpected[r]) /\ \A j \in 1 .. c - 1 : j \notin I
  BY <1>1, FirstIs
<1> HIDE DEF c
<1>3. \A j \in 1 .. c - 1 : unexpected[r][j].tag # unexpected[r][c].tag
  <2>1. \A j \in 1 .. c - 1 : j \in 1 .. Len(unexpected[r])
    BY <1>1, <1>2
  <2> QED BY <1>2, <2>1
<1>4. /\ MessagesKept
      /\ \A q \in CommRanks : \A j \in 1 .. Len(unexpected'[q]) :
            \E i \in 1 .. Len(unexpected[q]) : unexpected'[q][j] = unexpected[q][i]
  BY <1>2, <1>3, KeptIsTaken DEF c
<1>5. FuturesBecome(r, futures[r], returned[r], posts[r])
  BY FuturesStay
<1>6. \A q \in CommRanks : PostedInv(q)'
  <2>1. \A q \in CommRanks : PostedInv(q)
    BY DEF CommInv
  <2> QED BY <1>4, <2>1 DEF PostedInv
<1> QED BY <1>4, <1>5, <1>6, MessagesMove

LEMMA ProbesKeep ==
  ASSUME CommInv, NEW r \in CommRanks, NEW s, NEW t, recv_any(r, t) \/ recv_from(r, s, t)
  PROVE  CommInv'
<1>1. CASE recv_any(r, t)
  <2> DEFINE I == {i \in 1 .. Len(unexpected[r]) : MatchesAny(unexpected[r][i], t)}
  <2>1. /\ FirstPlace(I) > 0 /\ taken' = Take(unexpected[r][FirstPlace(I)], r)
        /\ unexpected' = [unexpected EXCEPT ![r] = RemoveAt(@, FirstPlace(I))]
        /\ UNCHANGED <<transport, sends, posts, wire, futures, scan, returned>>
    BY <1>1 DEF recv_any, Probe, SelectInSeq, FirstPlace
  <2>2. \A i \in I, j \in 1 .. Len(unexpected[r]) : unexpected[r][j].tag = unexpected[r][i].tag => j \in I
    BY DEF MatchesAny, UserTag
  <2>3. FirstPlace(I) # 0 /\ I \in SUBSET (1 .. Len(unexpected[r]))
    BY <2>1
  <2> HIDE DEF I
  <2> QED BY <2>1, <2>2, <2>3, ProbeKeeps
<1>2. CASE recv_from(r, s, t)
  <2> DEFINE I == {i \in 1 .. Len(unexpected[r]) : Matches(unexpected[r][i], s, t)}
  <2>1. /\ FirstPlace(I) > 0 /\ taken' = Take(unexpected[r][FirstPlace(I)], r)
        /\ unexpected' = [unexpected EXCEPT ![r] = RemoveAt(@, FirstPlace(I))]
        /\ UNCHANGED <<transport, sends, posts, wire, futures, scan, returned>>
    BY <1>2 DEF recv_from, Probe, SelectInSeq, FirstPlace
  <2>2. \A i \in I, j \in 1 .. Len(unexpected[r]) : unexpected[r][j].tag = unexpected[r][i].tag => j \in I
    BY DEF Matches
  <2>3. FirstPlace(I) # 0 /\ I \in SUBSET (1 .. Len(unexpected[r]))
    BY <2>1
  <2> HIDE DEF I
  <2> QED BY <2>1, <2>2, <2>3, ProbeKeeps
<1> QED BY <1>1, <1>2

\* A future for a send or a receive is held, and n receives have been posted.
LEMMA FutureIsHeld ==
  ASSUME CommInv, NEW r \in CommRanks, NEW f \in Future, NEW n \in Nat,
         futures' = [futures EXCEPT ![r] = Append(@, f)], posts' = [posts EXCEPT ![r] = n],
         UNCHANGED <<transport, scan, returned>>,
         posts[r] <= n, f.kind = "recv" => f.n = posts[r] + 1 /\ n = posts[r] + 1
  PROVE  FuturesBecome(r, Append(futures[r], f), returned[r], n)
<1>1. /\ futures \in [CommRanks -> Seq(Future)] /\ returned \in [CommRanks -> Seq(Future)]
      /\ posts \in [CommRanks -> Nat] /\ scan \in [CommRanks -> Nat] /\ FuturesInv(r)
  BY DEF CommInv, CommTypes
<1>2. futures[r] \in Seq(Future) /\ returned[r] \in Seq(Future) /\ posts[r] \in Nat /\ scan[r] \in Nat
  BY <1>1
<1> DEFINE fs == Append(futures[r], f)
<1>3. fs \in Seq(Future) /\ Len(fs) = Len(futures[r]) + 1 /\ Len(futures[r]) \in Nat
  BY <1>2
<1>4. HeldIs(fs, n) /\ (transport = "ucxx" => ReturnedIs(returned[r], fs, n))
  BY <1>1, <1>2, FutureAdded DEF FuturesInv
<1>5. futures' = [futures EXCEPT ![r] = fs]
  OBVIOUS
<1> HIDE DEF fs
<1>6. scan' = [scan EXCEPT ![r] = scan'[r]] /\ scan'[r] \in 0 .. Len(fs) + 1
  BY <1>1, <1>2, <1>3 DEF FuturesInv
<1>7. returned' = [returned EXCEPT ![r] = returned[r]]
  BY <1>1
<1>8. FuturesBecome(r, fs, returned[r], n)
  BY <1>2, <1>3, <1>4, <1>5, <1>6, <1>7 DEF FuturesBecome
<1> QED BY <1>8 DEF fs

LEMMA RecvKeeps ==
  ASSUME CommInv, NEW k \in Lanes, comm_recv(k[2], k[1], Tag(k[3], k[4]))
  PROVE  CommInv'
<1> DEFINE r == k[2]
           t == Tag(k[3], k[4])
           u == unexpected[r]
           I == {i \in 1 .. Len(u) : Matches(u[i], k[1], t)}
           c == FirstPlace(I)
           f(at) == RecvFuture(k[1], t, posts[r] + 1, at)
<1>1. /\ r \in CommRanks /\ k[1] \in CommRanks /\ t \in CommTags
  BY LaneFacts
<1>2. /\ u \in Seq(CommMessage) /\ posts \in [CommRanks -> Nat] /\ posts[r] \in Nat /\ PostedInv(r)
      /\ futures \in [CommRanks -> Seq(Future)] /\ futures[r] \in Seq(Future) /\ \A q \in CommRanks : PostedInv(q)
  BY <1>1 DEF CommInv, CommTypes
<1>3. /\ posts' = [posts EXCEPT ![r] = posts[r] + 1] /\ UNCHANGED <<transport, sends, wire, scan, returned>>
      /\ c = 0 => futures' = [futures EXCEPT ![r] = Append(@, f("posted"))] /\ UNCHANGED <<unexpected, taken>>
      /\ c # 0 => /\ futures' = [futures EXCEPT ![r] = Append(@, f("matched"))]
                  /\ taken' = Take(u[c], r) /\ unexpected' = [unexpected EXCEPT ![r] = RemoveAt(@, c)]
  BY DEF comm_recv, SelectInSeq, FirstPlace
<1>4. /\ f("posted") \in Future /\ f("matched") \in Future
      /\ f("posted").kind = "recv" /\ f("posted").n = posts[r] + 1 /\ f("posted").at = "posted"
      /\ f("posted").peer = k[1] /\ f("posted").tag = t
      /\ f("matched").kind = "recv" /\ f("matched").n = posts[r] + 1 /\ f("matched").at = "matched"
  BY <1>1, <1>2 DEF RecvFuture, Future
<1>5. /\ (c = 0 => I = {})
      /\ c # 0 => c \in I /\ c \in 1 .. Len(u) /\ \A j \in 1 .. c - 1 : j \notin I
  <2>1. Len(u) \in Nat /\ I \in SUBSET (1 .. Len(u))
    BY <1>2
  <2> HIDE DEF I, u
  <2> QED BY <2>1, FirstIs
<1> HIDE DEF f, c, r, t
<1>6. ASSUME NEW at \in {"posted", "matched"}, futures' = [futures EXCEPT ![r] = Append(@, f(at))]
      PROVE  /\ FuturesBecome(r, Append(futures[r], f(at)), returned[r], posts[r] + 1)
             /\ \A q \in CommRanks \ {r} : futures'[q] = futures[q]
             /\ Len(futures'[r]) = Len(futures[r]) + 1 /\ futures'[r][Len(futures[r]) + 1] = f(at)
             /\ \A i \in 1 .. Len(futures[r]) : futures'[r][i] = futures[r][i]
  <2>1. f(at) \in Future /\ f(at).kind = "recv" /\ f(at).n = posts[r] + 1
    BY <1>4
  <2>2. posts[r] + 1 \in Nat /\ posts[r] <= posts[r] + 1
    BY <1>2
  <2>3. FuturesBecome(r, Append(futures[r], f(at)), returned[r], posts[r] + 1)
    BY <1>1, <1>3, <1>6, <2>1, <2>2, FutureIsHeld
  <2>4. (\A q \in CommRanks \ {r} : futures'[q] = futures[q]) /\ futures'[r] = Append(futures[r], f(at))
    BY <1>1, <1>2, <1>6
  <2> QED BY <1>2, <2>1, <2>3, <2>4
<1>7. CASE c = 0
  <2>1. MessagesKept
    BY <1>3, <1>7 DEF MessagesKept, CommInv, CommTypes, SourcesInv, LaneInv
  <2>2. ASSUME NEW q \in CommRanks PROVE PostedInv(q)'
    <3>1. CASE q # r
      BY <1>2, <1>3, <1>6, <1>7, <3>1 DEF PostedInv
    <3>2. CASE q = r
      <4> SUFFICES ASSUME NEW i \in 1 .. Len(futures'[r]), NEW j \in 1 .. Len(u), futures'[r][i].at = "posted"
                   PROVE  ~ Matches(u[j], futures'[r][i].peer, futures'[r][i].tag)
        BY <1>3, <1>7, <3>2 DEF PostedInv
      <4>1. /\ Len(futures'[r]) = Len(futures[r]) + 1 /\ futures'[r][Len(futures[r]) + 1] = f("posted")
            /\ \A l \in 1 .. Len(futures[r]) : futures'[r][l] = futures[r][l]
        BY <1>3, <1>6, <1>7
      <4>2. CASE i \in 1 .. Len(futures[r])
        BY <1>2, <4>1, <4>2 DEF PostedInv
      <4>3. CASE i = Len(futures[r]) + 1
        BY <1>4, <1>5, <1>7, <4>1, <4>3
      <4>4. Len(futures[r]) \in Nat
        BY <1>2
      <4> QED BY <4>1, <4>2, <4>3, <4>4
    <3> QED BY <3>1, <3>2
  <2>3. FuturesBecome(r, Append(futures[r], f("posted")), returned[r], posts[r] + 1)
    BY <1>3, <1>6, <1>7
  <2> QED BY <1>1, <2>1, <2>2, <2>3, MessagesMove
<1>8. CASE c # 0
  <2>1. c \in 1 .. Len(u) /\ \A j \in 1 .. c - 1 : u[j].tag # u[c].tag
    <3>1. c \in I /\ c \in 1 .. Len(u) /\ \A j \in 1 .. c - 1 : j \notin I
      BY <1>5, <1>8
    <3>2. \A j \in 1 .. c - 1 : j \in 1 .. Len(u)
      BY <1>2, <3>1
    <3> QED BY <3>1, <3>2 DEF Matches
  <2>2. /\ MessagesKept
        /\ \A q \in CommRanks : \A j \in 1 .. Len(unexpected'[q]) :
              \E i \in 1 .. Len(unexpected[q]) : unexpected'[q][j] = unexpected[q][i]
    BY <1>1, <1>3, <1>8, <2>1, KeptIsTaken
  <2>3. /\ FuturesBecome(r, Append(futures[r], f("matched")), returned[r], posts[r] + 1)
        /\ \A q \in CommRanks \ {r} : futures'[q] = futures[q]
        /\ Len(futures'[r]) = Len(futures[r]) + 1 /\ futures'[r][Len(futures[r]) + 1] = f("matched")
        /\ \A i \in 1 .. Len(futures[r]) : futures'[r][i] = futures[r][i]
    BY <1>3, <1>6, <1>8
  <2>4. ASSUME NEW q \in CommRanks, NEW i \in 1 .. Len(futures'[q]), futures'[q][i].at = "posted"
        PROVE  i \in 1 .. Len(futures[q]) /\ futures'[q][i] = futures[q][i]
    <3>1. CASE q # r
      BY <2>3, <3>1
    <3>2. CASE q = r
      <4>1. i # Len(futures[r]) + 1
        BY <1>4, <2>3, <2>4, <3>2
      <4>2. Len(futures[r]) \in Nat
        BY <1>2
      <4> QED BY <2>3, <3>2, <4>1, <4>2
    <3> QED BY <3>1, <3>2
  <2>5. \A q \in CommRanks : PostedInv(q)'
    <3> SUFFICES ASSUME NEW q \in CommRanks, NEW i \in 1 .. Len(futures'[q]),
                        NEW j \in 1 .. Len(unexpected'[q]), futures'[q][i].at = "posted"
                 PROVE  ~ Matches(unexpected'[q][j], futures'[q][i].peer, futures'[q][i].tag)
      BY DEF PostedInv
    <3>1. i \in 1 .. Len(futures[q]) /\ futures'[q][i] = futures[q][i]
      BY <2>4
    <3>2. PICK l \in 1 .. Len(unexpected[q]) : unexpected'[q][j] = unexpected[q][l]
      BY <2>2
    <3>3. PostedInv(q)
      BY <1>2
    <3> QED BY <3>1, <3>2, <3>3 DEF PostedInv
  <2> QED BY <1>1, <2>2, <2>3, <2>5, MessagesMove
<1> QED BY <1>7, <1>8

LEMMA SendKeeps ==
  ASSUME CommInv, NEW l \in Lanes, comm_send(l[1], l[2], Tag(l[3], l[4]))
  PROVE  CommInv'
<1> DEFINE r == l[1]
           t == Tag(l[3], l[4])
           p == <<l[1], l[2]>>
           u == unexpected[l[2]]
           w == wire[p]
           m == [tag |-> tag_with_rank(r, t), data |-> Count(r, l[2], t) + 1]
           f == SendFuture(l[2], t)
<1>1. /\ l = <<l[1], l[2], l[3], l[4]>> /\ r \in CommRanks /\ l[2] \in CommRanks /\ p \in Links
      /\ t \in CommTags /\ t \in Nat
      /\ tag_with_rank(r, t) \in Nat /\ op_of(t) = l[3] /\ stage_of(t) = l[4]
  BY LaneFacts
<1>2. /\ taken \in [Lanes -> Seq(Nat)] /\ wire \in [Links -> Seq(CommMessage)]
      /\ unexpected \in [CommRanks -> Seq(CommMessage)] /\ posts \in [CommRanks -> Nat]
      /\ SourcesInv /\ (\A k \in Lanes : LaneInv(k)) /\ (\A q \in CommRanks : PostedInv(q))
      /\ futures \in [CommRanks -> Seq(Future)]
  BY DEF CommInv, CommTypes
<1>3. /\ wire' = [wire EXCEPT ![p] = Append(@, m)] /\ futures' = [futures EXCEPT ![r] = Append(@, f)]
      /\ UNCHANGED <<transport, posts, unexpected, scan, taken, returned>>
  BY DEF comm_send
<1>4. /\ taken[l] \in Seq(Nat) /\ u \in Seq(CommMessage) /\ w \in Seq(CommMessage)
      /\ posts[r] \in Nat /\ futures[r] \in Seq(Future)
  BY <1>1, <1>2
<1>5. Count(r, l[2], t) = Len(taken[l]) + Number(w, l, Len(w)) + Number(u, l, Len(u))
  <2>1. Lane(r, l[2], t) = l
    BY <1>1 DEF Lane
  <2>2. DOMAIN w = 1 .. Len(w) /\ DOMAIN u = 1 .. Len(u)
    BY <1>4
  <2> QED BY <2>1, <2>2 DEF Count, Number, OfLane
<1>6. /\ Len(taken[l]) \in Nat /\ Number(u, l, Len(u)) \in Nat /\ Number(w, l, Len(w)) \in Nat
  BY <1>4, NumbersAreNaturals
<1>7. /\ m \in CommMessage /\ OfLane(l, m)
      /\ m.data = Len(taken[l]) + Number(u, l, Len(u)) + Number(w, l, Len(w)) + 1
  BY <1>1, <1>5, <1>6 DEF CommMessage, OfLane, Matches
<1>8. f \in Future /\ f.kind = "send" /\ f.at = "matched"
  BY <1>1 DEF SendFuture, Future
<1> HIDE DEF m, f, r, t, u, w, p
<1>9. FuturesBecome(r, Append(futures[r], f), returned[r], posts[r])
  <2>1. posts' = [posts EXCEPT ![r] = posts[r]] /\ posts[r] <= posts[r] /\ f.kind # "recv"
    BY <1>2, <1>3, <1>4, <1>8
  <2> QED BY <1>1, <1>3, <1>4, <1>8, <2>1, FutureIsHeld
<1>10. /\ wire' \in [Links -> Seq(CommMessage)] /\ wire'[p] = Append(w, m)
       /\ \A q \in Links \ {p} : wire'[q] = wire[q]
  BY <1>1, <1>2, <1>3, <1>4, <1>7 DEF w
<1>11. SourcesInv'
  <2>1. \A q \in CommRanks : \A i \in 1 .. Len(unexpected'[q]) :
            \E k \in Lanes : k[2] = q /\ OfLane(k, unexpected'[q][i])
    BY <1>2, <1>3 DEF SourcesInv
  <2>2. ASSUME NEW q \in Links, NEW i \in 1 .. Len(wire'[q])
        PROVE  \E k \in Lanes : q = <<k[1], k[2]>> /\ OfLane(k, wire'[q][i])
    <3>1. CASE q # p
      BY <1>2, <1>10, <3>1 DEF SourcesInv
    <3>2. CASE q = p
      <4>1. /\ Len(wire'[p]) = Len(w) + 1 /\ Len(w) \in Nat /\ wire'[p][Len(w) + 1] = m
            /\ \A j \in 1 .. Len(w) : wire'[p][j] = w[j]
        BY <1>4, <1>7, <1>10
      <4>2. CASE i = Len(w) + 1
        BY <1>7, <3>2, <4>1, <4>2 DEF p, r
      <4>3. CASE i \in 1 .. Len(w)
        BY <1>1, <1>2, <3>2, <4>1, <4>3 DEF SourcesInv, w
      <4> QED BY <3>2, <4>1, <4>2, <4>3
    <3> QED BY <3>1, <3>2
  <2> QED BY <2>1, <2>2 DEF SourcesInv
<1>12. ASSUME NEW k \in Lanes PROVE LaneInv(k)'
  <2>1. k[2] \in CommRanks /\ <<k[1], k[2]>> \in Links /\ LaneInv(k)
    BY <1>2, LaneFacts
  <2>2. CASE <<k[1], k[2]>> # p
    BY <1>3, <1>10, <2>1, <2>2 DEF LaneInv
  <2>3. CASE <<k[1], k[2]>> = p
    <3>1. k[2] = l[2]
      BY <2>3 DEF p
    <3>2. LaneIs(k, taken[k], u, w) /\ taken[k] \in Seq(Nat)
      BY <1>2, <2>1, <2>3, <3>1 DEF LaneInv, u, w
    <3>3. OfLane(k, m) => m.data = Len(taken[k]) + Number(u, k, Len(u)) + Number(w, k, Len(w)) + 1
      BY <1>7, <3>1, OneLane
    <3>4. LaneIs(k, taken[k], u, Append(w, m))
      BY <1>4, <1>7, <3>2, <3>3, LaneSends
    <3> QED BY <1>3, <1>10, <2>3, <3>1, <3>4 DEF LaneInv, u
  <2> QED BY <2>2, <2>3
<1>13. MessagesKept
  BY <1>2, <1>3, <1>10, <1>11, <1>12 DEF MessagesKept
<1>14. ASSUME NEW q \in CommRanks PROVE PostedInv(q)'
  <2>1. PostedInv(q) /\ unexpected'[q] = unexpected[q]
    BY <1>2, <1>3
  <2>2. CASE q # r
    <3>1. futures'[q] = futures[q]
      BY <1>2, <1>3, <2>2
    <3> QED BY <2>1, <3>1 DEF PostedInv
  <2>3. CASE q = r
    <3>1. /\ Len(futures'[r]) = Len(futures[r]) + 1 /\ Len(futures[r]) \in Nat
          /\ futures'[r][Len(futures[r]) + 1] = f
          /\ \A j \in 1 .. Len(futures[r]) : futures'[r][j] = futures[r][j]
      <4>1. futures'[r] = Append(futures[r], f)
        BY <1>1, <1>2, <1>3
      <4> QED BY <1>4, <1>8, <4>1
    <3>2. ASSUME NEW i \in 1 .. Len(futures'[r]), futures'[r][i].at = "posted"
          PROVE  i \in 1 .. Len(futures[r]) /\ futures'[r][i] = futures[r][i]
      BY <1>8, <3>1, <3>2
    <3> QED BY <2>1, <2>3, <3>2 DEF PostedInv
  <2> QED BY <2>2, <2>3
<1> QED BY <1>1, <1>9, <1>13, <1>14, MessagesMove

\* A message arrives that no receive waits for.
LEMMA UnexpectedKeeps ==
  ASSUME CommInv, NEW p \in Links, wire[p] # <<>>, wire' = [wire EXCEPT ![p] = Tail(@)],
         unexpected' = [unexpected EXCEPT ![p[2]] = Append(@, Head(wire[p]))],
         UNCHANGED <<transport, posts, futures, scan, returned, taken>>,
         \A i \in 1 .. Len(futures[p[2]]) : futures[p[2]][i].at = "posted" =>
             ~ Matches(Head(wire[p]), futures[p[2]][i].peer, futures[p[2]][i].tag)
  PROVE  CommInv'
<1> DEFINE d == p[2]
           u == unexpected[d]
           w == wire[p]
           m == Head(w)
<1>1. d \in CommRanks
  BY LaneFacts DEF Links
<1>2. /\ taken \in [Lanes -> Seq(Nat)] /\ wire \in [Links -> Seq(CommMessage)]
      /\ unexpected \in [CommRanks -> Seq(CommMessage)]
      /\ SourcesInv /\ (\A k \in Lanes : LaneInv(k)) /\ (\A q \in CommRanks : PostedInv(q))
  BY DEF CommInv, CommTypes
<1>3. u \in Seq(CommMessage) /\ w \in Seq(CommMessage)
  BY <1>1, <1>2
<1>4. /\ Tail(w) \in Seq(CommMessage) /\ Cut(w, Tail(w), 1) /\ m = w[1] /\ m \in CommMessage
      /\ Len(w) \in Nat /\ Len(w) >= 1
  BY <1>3, TailIsCut
<1>5. PICK l \in Lanes : p = <<l[1], l[2]>> /\ OfLane(l, m)
  <2>1. 1 \in 1 .. Len(w)
    BY <1>4
  <2> QED BY <1>2, <1>4, <2>1 DEF SourcesInv
<1>5a. l[2] = d
  BY <1>5
<1> HIDE DEF d, u, w, m
<1>6. /\ wire' \in [Links -> Seq(CommMessage)] /\ wire'[p] = Tail(w)
      /\ \A q \in Links \ {p} : wire'[q] = wire[q]
  BY <1>2, <1>4 DEF w
<1>7. /\ unexpected' \in [CommRanks -> Seq(CommMessage)] /\ unexpected'[d] = Append(u, m)
      /\ \A q \in CommRanks \ {d} : unexpected'[q] = unexpected[q]
  <2> DEFINE x == Append(u, m)
  <2>1. x \in Seq(CommMessage)
    BY <1>3, <1>4
  <2>2. unexpected' = [unexpected EXCEPT ![d] = x]
    BY DEF d, u, m, w
  <2> HIDE DEF x
  <2>3. /\ unexpected' \in [CommRanks -> Seq(CommMessage)] /\ unexpected'[d] = x
        /\ \A q \in CommRanks \ {d} : unexpected'[q] = unexpected[q]
    BY <1>1, <1>2, <2>1, <2>2
  <2> QED BY <2>3 DEF x
<1>8. /\ Len(unexpected'[d]) = Len(u) + 1 /\ Len(u) \in Nat /\ unexpected'[d][Len(u) + 1] = m
      /\ \A j \in 1 .. Len(u) : unexpected'[d][j] = u[j]
  <2> DEFINE x == Append(u, m)
  <2>1. /\ Len(x) = Len(u) + 1 /\ Len(u) \in Nat /\ x[Len(u) + 1] = m
        /\ \A j \in 1 .. Len(u) : x[j] = u[j]
    <3>1. u \in Seq(CommMessage) /\ m \in CommMessage
      BY <1>3, <1>4
    <3> QED BY <3>1
  <2>2. unexpected'[d] = x
    BY <1>7
  <2> HIDE DEF x
  <2> QED BY <2>1, <2>2
<1>9. SourcesInv'
  <2>1. ASSUME NEW q \in CommRanks, NEW i \in 1 .. Len(unexpected'[q])
        PROVE  \E k \in Lanes : k[2] = q /\ OfLane(k, unexpected'[q][i])
    <3>1. CASE q # d
      BY <1>2, <1>7, <3>1 DEF SourcesInv
    <3>2. CASE q = d /\ i = Len(u) + 1
      BY <1>5, <1>5a, <1>8, <3>2
    <3>3. CASE q = d /\ i \in 1 .. Len(u)
      BY <1>1, <1>2, <1>8, <3>3 DEF SourcesInv, u
    <3> QED BY <1>8, <3>1, <3>2, <3>3
  <2>2. ASSUME NEW q \in Links, NEW i \in 1 .. Len(wire'[q])
        PROVE  \E k \in Lanes : q = <<k[1], k[2]>> /\ OfLane(k, wire'[q][i])
    <3>1. CASE q # p
      BY <1>2, <1>6, <3>1 DEF SourcesInv
    <3>2. CASE q = p
      <4>1. Len(Tail(w)) = Len(w) - 1 /\ Tail(w)[i] = w[i + 1] /\ i + 1 \in 1 .. Len(w)
        BY <1>4, <1>6, <3>2 DEF Cut
      <4> QED BY <1>2, <1>6, <3>2, <4>1 DEF SourcesInv, w
    <3> QED BY <3>1, <3>2
  <2> QED BY <2>1, <2>2 DEF SourcesInv
<1>10. ASSUME NEW k \in Lanes PROVE LaneInv(k)'
  <2>1. k[2] \in CommRanks /\ <<k[1], k[2]>> \in Links /\ LaneInv(k) /\ taken[k] \in Seq(Nat)
    BY <1>2, LaneFacts
  <2>2. CASE k[2] # d
    <3>1. <<k[1], k[2]>> # p
      BY <2>2 DEF d
    <3> QED BY <1>6, <1>7, <2>1, <2>2, <3>1 DEF LaneInv
  <2>3. CASE <<k[1], k[2]>> = p
    <3>1. k[2] = d
      BY <2>3 DEF d
    <3>2. LaneIs(k, taken[k], u, w)
      BY <2>1, <2>3, <3>1 DEF LaneInv, u, w
    <3>3. LaneIs(k, taken[k], Append(u, m), Tail(w))
      BY <1>3, <2>1, <3>2, LaneKeeps DEF m, w
    <3> QED BY <1>6, <1>7, <2>3, <3>1, <3>3 DEF LaneInv
  <2>4. CASE k[2] = d /\ <<k[1], k[2]>> # p
    <3> DEFINE x == wire[<<k[1], k[2]>>]
    <3>1. LaneIs(k, taken[k], u, x) /\ x \in Seq(CommMessage)
      BY <1>2, <2>1, <2>4 DEF LaneInv, u
    <3>2. ~ OfLane(k, m)
      BY <1>5, <1>5a, <2>4, OneLane
    <3> HIDE DEF x
    <3>3. LaneIs(k, taken[k], Append(u, m), x)
      BY <1>3, <1>4, <2>1, <3>1, <3>2, LaneSkips
    <3> QED BY <1>6, <1>7, <2>1, <2>4, <3>3 DEF LaneInv, x
  <2> QED BY <2>2, <2>3, <2>4
<1>11. MessagesKept
  BY <1>2, <1>6, <1>7, <1>9, <1>10 DEF MessagesKept
<1>12. ASSUME NEW q \in CommRanks PROVE PostedInv(q)'
  <2>1. PostedInv(q) /\ futures'[q] = futures[q]
    BY <1>2
  <2>2. CASE q # d
    <3>1. unexpected'[q] = unexpected[q]
      BY <1>7, <2>2
    <3> QED BY <2>1, <3>1 DEF PostedInv
  <2>3. CASE q = d
    <3> SUFFICES ASSUME NEW i \in 1 .. Len(futures[d]), NEW j \in 1 .. Len(unexpected'[d]), futures[d][i].at = "posted"
                 PROVE  ~ Matches(unexpected'[d][j], futures[d][i].peer, futures[d][i].tag)
      BY <2>1, <2>3 DEF PostedInv
    <3>1. CASE j = Len(u) + 1
      BY <1>8, <3>1 DEF d, m, w
    <3>2. CASE j \in 1 .. Len(u)
      BY <1>8, <2>1, <2>3, <3>2 DEF PostedInv, u
    <3> QED BY <1>8, <3>1, <3>2
  <2> QED BY <2>2, <2>3
<1>13. FuturesBecome(d, futures[d], returned[d], posts[d])
  BY <1>1, FuturesStay
<1> QED BY <1>1, <1>11, <1>12, <1>13, MessagesMove

\* A message arrives that the receive at i waits for.
LEMMA ExpectedKeeps ==
  ASSUME CommInv, NEW p \in Links, wire[p] # <<>>, wire' = [wire EXCEPT ![p] = Tail(@)],
         NEW i \in 1 .. Len(futures[p[2]]), futures[p[2]][i].at = "posted",
         Matches(Head(wire[p]), futures[p[2]][i].peer, futures[p[2]][i].tag),
         futures' = [futures EXCEPT ![p[2]][i].at = "matched"],
         taken' = Take(Head(wire[p]), p[2]),
         UNCHANGED <<transport, posts, unexpected, scan, returned>>
  PROVE  CommInv'
<1> DEFINE d == p[2]
           u == unexpected[d]
           w == wire[p]
           m == Head(w)
           fs == [futures[d] EXCEPT ![i].at = "matched"]
<1>1. d \in CommRanks
  BY LaneFacts DEF Links
<1>2. /\ taken \in [Lanes -> Seq(Nat)] /\ wire \in [Links -> Seq(CommMessage)]
      /\ unexpected \in [CommRanks -> Seq(CommMessage)]
      /\ futures \in [CommRanks -> Seq(Future)] /\ returned \in [CommRanks -> Seq(Future)]
      /\ posts \in [CommRanks -> Nat] /\ scan \in [CommRanks -> Nat]
      /\ SourcesInv /\ (\A k \in Lanes : LaneInv(k)) /\ (\A q \in CommRanks : PostedInv(q) /\ FuturesInv(q))
  BY DEF CommInv, CommTypes
<1>3. /\ u \in Seq(CommMessage) /\ w \in Seq(CommMessage) /\ futures[d] \in Seq(Future)
      /\ returned[d] \in Seq(Future) /\ posts[d] \in Nat /\ scan[d] \in Nat
  BY <1>1, <1>2
<1>4. /\ Tail(w) \in Seq(CommMessage) /\ Cut(w, Tail(w), 1) /\ m = w[1] /\ m \in CommMessage
      /\ Len(w) \in Nat /\ Len(w) >= 1
  BY <1>3, TailIsCut
<1>5. PICK l \in Lanes : p = <<l[1], l[2]>> /\ OfLane(l, m)
  <2>1. 1 \in 1 .. Len(w)
    BY <1>4
  <2>2. \E k \in Lanes : p = <<k[1], k[2]>> /\ OfLane(k, w[1])
    <3> HIDE DEF d, u, m, fs
    <3> QED BY <1>2, <2>1 DEF SourcesInv
  <2>3. w[1] = m
    BY <1>4
  <2> HIDE DEF d, u, w, m, fs
  <2> QED BY <2>2, <2>3, Zenon
<1>6. l[2] = d /\ m.data \in Nat /\ taken' = [taken EXCEPT ![l] = Append(@, m.data)]
  <2>1. l[2] = d
    BY <1>5
  <2>2. m.data \in Nat
    BY <1>4 DEF CommMessage
  <2> QED BY <1>5, <2>1, <2>2, TakeIs
<1>7. /\ fs \in Seq(Future) /\ Len(fs) = Len(futures[d])
      /\ \A j \in 1 .. Len(fs) : /\ fs[j].kind = futures[d][j].kind /\ fs[j].n = futures[d][j].n
                                 /\ fs[j].at = "posted" => fs[j] = futures[d][j]
  <2> DEFINE f == [futures[d][i] EXCEPT !.at = "matched"]
  <2>1. fs = [futures[d] EXCEPT ![i] = f] /\ futures[d][i] \in Future
    BY <1>3
  <2>2. f.kind = futures[d][i].kind /\ f.n = futures[d][i].n /\ f.at = "matched" /\ f \in Future
    BY <2>1 DEF Future
  <2> HIDE DEF fs, f
  <2>3. fs \in Seq(Future) /\ Len(fs) = Len(futures[d]) /\ \A j \in 1 .. Len(fs) : fs[j] = IF j = i THEN f ELSE futures[d][j]
    BY <1>3, <2>1, <2>2
  <2> QED BY <2>2, <2>3
<1>8. futures' = [futures EXCEPT ![d] = fs]
  OBVIOUS
<1> HIDE DEF d, u, w, m, fs
<1>9. FuturesBecome(d, fs, returned[d], posts[d])
  <2>1. HeldIs(fs, posts[d]) /\ (transport = "ucxx" => ReturnedIs(returned[d], fs, posts[d]))
    BY <1>1, <1>2, <1>7, ZenonT(40) DEF FuturesInv, HeldIs, ReturnedIs
  <2>2. scan[d] <= Len(futures[d]) + 1 /\ Len(futures[d]) \in Nat
    BY <1>1, <1>2, <1>3 DEF FuturesInv
  <2>3. scan'[d] \in 0 .. Len(fs) + 1 /\ scan' = [scan EXCEPT ![d] = scan'[d]]
    BY <1>2, <1>3, <1>7, <2>2
  <2>4. returned' = [returned EXCEPT ![d] = returned[d]] /\ posts' = [posts EXCEPT ![d] = posts[d]]
    BY <1>2
  <2> QED BY <1>3, <1>7, <1>8, <2>1, <2>3, <2>4 DEF FuturesBecome
<1>10. /\ wire' \in [Links -> Seq(CommMessage)] /\ wire'[p] = Tail(w)
       /\ \A q \in Links \ {p} : wire'[q] = wire[q]
  BY <1>2, <1>4 DEF w
<1>11. /\ taken' \in [Lanes -> Seq(Nat)] /\ taken'[l] = Append(taken[l], m.data)
       /\ \A k \in Lanes \ {l} : taken'[k] = taken[k]
  <2>1. taken[l] \in Seq(Nat)
    BY <1>2
  <2>2. Append(taken[l], m.data) \in Seq(Nat)
    BY <1>6, <2>1
  <2> DEFINE t == Append(taken[l], m.data)
  <2>3. t \in Seq(Nat) /\ taken' = [taken EXCEPT ![l] = t]
    BY <1>6, <2>2
  <2> HIDE DEF t
  <2>4. taken' \in [Lanes -> Seq(Nat)] /\ taken'[l] = t /\ \A k \in Lanes \ {l} : taken'[k] = taken[k]
    BY <1>2, <2>3
  <2> QED BY <2>4 DEF t
<1>12. SourcesInv'
  <2>1. \A q \in CommRanks : \A j \in 1 .. Len(unexpected'[q]) :
            \E k \in Lanes : k[2] = q /\ OfLane(k, unexpected'[q][j])
    BY <1>2 DEF SourcesInv
  <2>2. ASSUME NEW q \in Links, NEW j \in 1 .. Len(wire'[q])
        PROVE  \E k \in Lanes : q = <<k[1], k[2]>> /\ OfLane(k, wire'[q][j])
    <3>1. CASE q # p
      BY <1>2, <1>10, <3>1 DEF SourcesInv
    <3>2. CASE q = p
      <4>1. Len(Tail(w)) = Len(w) - 1 /\ Tail(w)[j] = w[j + 1] /\ j + 1 \in 1 .. Len(w)
        BY <1>4, <1>10, <3>2 DEF Cut
      <4> QED BY <1>2, <1>10, <3>2, <4>1 DEF SourcesInv, w
    <3> QED BY <3>1, <3>2
  <2> QED BY <2>1, <2>2 DEF SourcesInv
<1>13. \A j \in 1 .. Len(u) : ~ OfLane(l, u[j])
  BY <1>1, <1>2, <1>5 DEF PostedInv, OfLane, Matches, u, m, w, d
<1>14. ASSUME NEW k \in Lanes PROVE LaneInv(k)'
  <2>1. k[2] \in CommRanks /\ <<k[1], k[2]>> \in Links /\ LaneInv(k) /\ taken[k] \in Seq(Nat)
    BY <1>2, LaneFacts
  <2>2. CASE <<k[1], k[2]>> # p
    <3>1. k # l
      BY <1>5, <2>2
    <3> QED BY <1>10, <1>11, <2>1, <2>2, <3>1 DEF LaneInv
  <2>3. CASE <<k[1], k[2]>> = p
    <3>1. k[2] = d
      BY <2>3 DEF d
    <3>2. LaneIs(k, taken[k], u, w) /\ w # <<>>
      BY <2>1, <2>3, <3>1 DEF LaneInv, u, w
    <3>3. CASE k = l
      <4>1. LaneIs(k, Append(taken[k], m.data), u, Tail(w))
        BY <1>3, <1>5, <1>13, <2>1, <3>2, <3>3, LaneLosesHead DEF m
      <4> QED BY <1>10, <1>11, <2>3, <3>1, <3>3, <4>1 DEF LaneInv, u
    <3>4. CASE k # l
      <4>1. ~ OfLane(k, m)
        BY <1>5, <1>6, <3>1, <3>4, OneLane
      <4>2. LaneIs(k, taken[k], u, Tail(w))
        BY <1>3, <2>1, <3>2, <4>1, LaneLosesHead DEF m
      <4> QED BY <1>10, <1>11, <2>3, <3>1, <3>4, <4>2 DEF LaneInv, u
    <3> QED BY <3>3, <3>4
  <2> QED BY <2>2, <2>3
<1>15. MessagesKept
  BY <1>2, <1>10, <1>11, <1>12, <1>14 DEF MessagesKept
<1>16. ASSUME NEW q \in CommRanks PROVE PostedInv(q)'
  <2>1. PostedInv(q) /\ unexpected'[q] = unexpected[q]
    BY <1>2
  <2>2. futures'[q] = IF q = d THEN fs ELSE futures[q]
    BY <1>1, <1>2, <1>8
  <2>3. ASSUME NEW j \in 1 .. Len(futures'[q]), futures'[q][j].at = "posted"
        PROVE  j \in 1 .. Len(futures[q]) /\ futures'[q][j] = futures[q][j]
    BY <1>7, <2>2, <2>3
  <2> QED BY <2>1, <2>3 DEF PostedInv
<1> QED BY <1>1, <1>9, <1>15, <1>16, MessagesMove

LEMMA ArriveKeeps ==
  ASSUME CommInv, NEW p \in Links, arrive(p)
  PROVE  CommInv'
<1> DEFINE d == p[2]
           m == Head(wire[p])
           I == {i \in 1 .. Len(futures[d]) :
                    futures[d][i].at = "posted" /\ Matches(m, futures[d][i].peer, futures[d][i].tag)}
           c == FirstPlace(I)
<1>1. d \in CommRanks /\ futures[d] \in Seq(Future)
  <2>1. d \in CommRanks
    BY LaneFacts DEF Links
  <2>2. futures \in [CommRanks -> Seq(Future)]
    BY DEF CommInv, CommTypes
  <2> QED BY <2>1, <2>2
<1>2. /\ wire[p] # <<>> /\ wire' = [wire EXCEPT ![p] = Tail(@)]
      /\ UNCHANGED <<transport, sends, posts, scan, returned>>
      /\ c = 0 => unexpected' = [unexpected EXCEPT ![d] = Append(@, m)] /\ UNCHANGED <<futures, taken>>
      /\ c # 0 => /\ futures' = [futures EXCEPT ![d][c].at = "matched"]
                  /\ taken' = Take(m, d) /\ UNCHANGED unexpected
  BY DEF arrive, SelectInSeq, FirstPlace
<1>3. /\ (c = 0 => I = {})
      /\ c # 0 => c \in I /\ c \in 1 .. Len(futures[d])
  <2>1. Len(futures[d]) \in Nat /\ I \in SUBSET (1 .. Len(futures[d]))
    BY <1>1
  <2> HIDE DEF I
  <2> QED BY <2>1, FirstIs
<1> HIDE DEF c
<1>4. CASE c = 0
  BY <1>2, <1>3, <1>4, UnexpectedKeeps
<1>5. CASE c # 0
  BY <1>2, <1>3, <1>5, ExpectedKeeps
<1> QED BY <1>4, <1>5

LEMMA CommInitHolds ==
  ASSUME CommInit
  PROVE  CommInv
<1>1. CommTypes
  BY DEF CommInit, CommTypes
<1>2. SourcesInv
  BY DEF CommInit, SourcesInv
<1>3. ASSUME NEW k \in Lanes PROVE LaneInv(k)
  <2>1. k[2] \in CommRanks /\ <<k[1], k[2]>> \in Links
    BY LaneFacts
  <2>2. taken[k] = <<>> /\ unexpected[k[2]] = <<>> /\ wire[<<k[1], k[2]>>] = <<>>
    BY <2>1 DEF CommInit
  <2> QED BY <2>2 DEF LaneInv, LaneIs
<1>4. ASSUME NEW r \in CommRanks PROVE PostedInv(r) /\ FuturesInv(r)
  BY DEF CommInit, PostedInv, FuturesInv, HeldIs, ReturnedIs
<1> QED BY <1>1, <1>2, <1>3, <1>4 DEF CommInv

LEMMA CommStutters ==
  ASSUME CommInv, UNCHANGED commVars
  PROVE  CommInv'
<1>1. CommTypes' /\ SourcesInv'
  BY DEF CommInv, CommTypes, SourcesInv, commVars
<1>2. (\A k \in Lanes : LaneInv(k)') /\ \A r \in CommRanks : PostedInv(r)' /\ FuturesInv(r)'
  BY DEF CommInv, LaneInv, PostedInv, FuturesInv, commVars
<1> QED BY <1>1, <1>2 DEF CommInv

LEMMA CommSteps ==
  ASSUME CommInv, CommNext
  PROVE  CommInv'
<1>1. CASE \E p \in Links : arrive(p)
  BY <1>1, ArriveKeeps
<1>2. CASE \E r \in CommRanks : \E i \in DOMAIN futures[r] : complete(r, i)
  BY <1>2, CompleteKeeps
<1>3. CASE \E r \in CommRanks : test(r) \/ wait_all(r)
  BY <1>3, TestsKeep
<1>4. CASE \E r \in CommRanks : mpi_test_some(r)
  BY <1>4, MpiKeeps
<1>5. CASE \E r \in CommRanks : ucxx_test_some(r) \/ ucxx_test_some_look(r)
  BY <1>5, UcxxKeeps
<1>6. CASE \E r \in CommRanks, t \in CommTags : recv_any(r, t)
  BY <1>6, ProbesKeep
<1>7. CASE \E k \in Lanes : comm_send(k[1], k[2], Tag(k[3], k[4]))
  BY <1>7, SendKeeps
<1>8. CASE \E k \in Lanes : comm_recv(k[2], k[1], Tag(k[3], k[4]))
  BY <1>8, RecvKeeps
<1>9. CASE \E k \in Lanes : recv_from(k[2], k[1], Tag(k[3], k[4]))
  <2>1. PICK k \in Lanes : recv_from(k[2], k[1], Tag(k[3], k[4]))
    BY <1>9
  <2>2. k[2] \in CommRanks
    BY LaneFacts
  <2> QED BY <2>1, <2>2, ProbesKeep
<1> QED BY <1>1, <1>2, <1>3, <1>4, <1>5, <1>6, <1>7, <1>8, <1>9 DEF CommNext

LEMMA CommInvSays ==
  ASSUME CommInv
  PROVE  NoOvertaking
<1>1. /\ taken \in [Lanes -> Seq(Nat)] /\ unexpected \in [CommRanks -> Seq(CommMessage)]
      /\ futures \in [CommRanks -> Seq(Future)] /\ returned \in [CommRanks -> Seq(Future)]
  BY DEF CommInv, CommTypes
<1>2. ASSUME NEW k \in DOMAIN taken, NEW i \in DOMAIN taken[k] PROVE taken[k][i] = i
  <2>1. k \in Lanes /\ i \in 1 .. Len(taken[k])
    BY <1>1
  <2>2. LaneInv(k)
    BY <2>1 DEF CommInv
  <2> QED BY <2>1, <2>2 DEF LaneInv, LaneIs
<1>3. ASSUME NEW r \in CommRanks, NEW i \in DOMAIN futures[r], NEW m \in ToSet(unexpected[r]),
             futures[r][i].at = "posted"
      PROVE  ~ Matches(m, futures[r][i].peer, futures[r][i].tag)
  <2>1. i \in 1 .. Len(futures[r])
    BY <1>1
  <2>2. PICK j \in 1 .. Len(unexpected[r]) : m = unexpected[r][j]
    BY <1>1 DEF ToSet
  <2>3. PostedInv(r)
    BY DEF CommInv
  <2> QED BY <1>3, <2>1, <2>2, <2>3 DEF PostedInv
<1>4. ASSUME transport = "ucxx", NEW r \in CommRanks, NEW i \in DOMAIN returned[r], NEW j \in DOMAIN returned[r], i < j
      PROVE  returned[r][i].n < returned[r][j].n
  <2>1. i \in 1 .. Len(returned[r]) /\ j \in 1 .. Len(returned[r])
    BY <1>1
  <2>2. FuturesInv(r)
    BY DEF CommInv
  <2> QED BY <1>4, <2>1, <2>2 DEF FuturesInv, ReturnedIs
<1> QED BY <1>2, <1>3, <1>4 DEF NoOvertaking

(***************************************************************************)
(* For every number of ranks, every set of lanes and every number of       *)
(* transfers: the messages of a lane are taken in the order in which they  *)
(* were sent, no posted receive waits for a message that is there, and     *)
(* test_some() of UCXX returns the receives of a rank in the order in      *)
(* which they were posted.                                                 *)
(***************************************************************************)
THEOREM TransfersInOrder == PartSpec => []NoOvertaking
<1>1. PartInit => CommInv
  BY CommInitHolds DEF PartInit
<1>2. CommInv /\ [PartNext]_partVars => CommInv'
  BY CommSteps, CommStutters DEF PartNext, partVars
<1>3. CommInv => NoOvertaking
  BY CommInvSays
<1> QED BY <1>1, <1>2, <1>3, PTL DEF PartSpec
=============================================================================
