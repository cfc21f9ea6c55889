--------------------------- MODULE ServiceProofs ----------------------------
(***************************************************************************)
(* The streaming layer and the services under it.  Accesses to buffers run *)
(* in the order in which the host has issued them, for any buffers and     *)
(* streams, any number of calls and any pace of the streams.  The counts of *)
(* the statistics of a copy agree once nothing is on its way, for any      *)
(* threads, any number of copies and resets and any delay of the callbacks. *)
(* What the profilers report has happened, for any nesting of scopes.  The *)
(* fanouts, the lineariser, the throttling adaptor and the collective actors *)
(* bring every message to the consumers that stay, for any outputs and     *)
(* messages and whenever the other consumers leave.                        *)
(***************************************************************************)
EXTENDS MCStreaming, ProofLemmas

-----------------------------------------------------------------------------
(* Buffers: the operations on the streams. *)


AccessOps == [kind : {"access"}, n : Nat, reads : SUBSET Buffers, writes : SUBSET Buffers]
RecordOps == [kind : {"record"}, event : Nat]
WaitOps == [kind : {"wait"}, event : Nat]
Ops == AccessOps \cup RecordOps \cup WaitOps

BufferTypes ==
    /\ stream \in [Buffers -> Streams]
    /\ latest \in [Buffers -> Nat]
    /\ storage \in [Buffers -> {"held", "locked", "released", "freed"}]
    /\ work \in [Streams -> Seq(Ops)]
    /\ recorded \in Nat /\ calls \in Nat
    /\ done \subseteq 0 .. recorded

-----------------------------------------------------------------------------
(* The order that the streams impose on the operations w enqueued on them. *)

In(w, s, x) == \E i \in 1 .. Len(w[s]) : w[s][i] = x
Queued(w, x) == \E s \in Streams : In(w, s, x)
Ahead(w, x, y) == \E s \in Streams : \E i, j \in 1 .. Len(w[s]) : i < j /\ w[s][i] = x /\ w[s][j] = y

\* The accesses that have not ended.
Accesses(w) == {x \in AccessOps : Queued(w, x)}

\* c cannot run before a has ended, because it is behind a on a stream, or behind a wait
\* for an event that is recorded behind a; the same of whatever is enqueued next on s.
Guarded(w, a, c) ==
    Ahead(w, a, c) \/ \E e \in Nat : Ahead(w, a, Record(e)) /\ Ahead(w, Wait(e), c)
Reaches(w, a, s) ==
    In(w, s, a) \/ \E e \in Nat : Ahead(w, a, Record(e)) /\ In(w, s, Wait(e))

Conflicts(a, c, b) == (b \in a.writes /\ b \in Touches(c)) \/ (b \in Touches(a) /\ b \in c.writes)

\* x is a, or comes after a and conflicts with it.
Follows(a, x, b) == x = a \/ (a.n < x.n /\ Conflicts(a, x, b))

(* The parts of the invariant.  An access or a record is enqueued once, and under a number that
   is used; an event whose record is enqueued has not happened. *)
Once(w) == \A s, t \in Streams : \A i \in 1 .. Len(w[s]), j \in 1 .. Len(w[t]) :
    w[s][i] = w[t][j] /\ w[s][i].kind # "wait" => s = t /\ i = j
Used(w, n, r, d) ==
    /\ \A x \in AccessOps : Queued(w, x) => x.n < n
    /\ \A e \in Nat : Queued(w, Record(e)) => e <= r /\ e \notin d

\* Of two accesses that conflict, the later is guarded by the earlier, or by one between them
\* that conflicts with the earlier.
Ordered(w, ex) ==
    \A a, c \in Accesses(w) : \A b \in Buffers \ ex :
        a.n < c.n /\ Conflicts(a, c, b) => \E x \in Accesses(w) : Follows(a, x, b) /\ Guarded(w, x, c)

\* What the stream of a buffer does next comes after the reads of the buffer ...
ReadsReach(w, ex, st) ==
    \A a \in Accesses(w) : \A b \in a.reads \ ex : Reaches(w, a, st[b])

\* ... and after its writes, which the latest write event covers too.
LastWrite(w, x, b, s, e) == b \in x.writes /\ Ahead(w, x, Record(e)) /\ Reaches(w, x, s)
WritesReach(w, ex, st, la, sto) ==
    \A a \in Accesses(w) : \A b \in a.writes \ ex :
        sto[b] # "freed" => \E x \in Accesses(w) : Follows(a, x, b) /\ LastWrite(w, x, b, st[b], la[b])

\* Locked memory is not accessed.
LockedIsFree(w, ex, sto) ==
    \A a \in Accesses(w) : \A b \in Touches(a) \ ex : sto[b] # "locked"

BufferInv ==
    /\ BufferTypes
    /\ Once(work)
    /\ Used(work, calls, recorded, done)
    /\ Ordered(work, exposed)
    /\ ReadsReach(work, exposed, stream)
    /\ WritesReach(work, exposed, stream, latest, storage)
    /\ LockedIsFree(work, exposed, storage)

-----------------------------------------------------------------------------
(* What enqueueing and ending an operation do to the order. *)

\* w2 has the operations ops behind those of w on s, in their order.
Added(w, s, ops, w2) ==
    /\ w2 \in [Streams -> Seq(Ops)]
    /\ \A t \in Streams : t # s => w2[t] = w[t]
    /\ Len(w2[s]) = Len(w[s]) + Len(ops)
    /\ \A i \in 1 .. Len(w[s]) : w2[s][i] = w[s][i]
    /\ \A i \in 1 .. Len(ops) : w2[s][Len(w[s]) + i] = ops[i]
    /\ \A i \in 1 .. Len(w2[s]) : i > Len(w[s]) => w2[s][i] = ops[i - Len(w[s])]

LEMMA EnqueueAdds ==
  ASSUME NEW w \in [Streams -> Seq(Ops)], NEW s \in Streams, NEW ops \in Seq(Ops),
         NEW w2, w2 = Enqueue(w, s, ops)
  PROVE  Added(w, s, ops, w2)
<1>1. w2 = [w EXCEPT ![s] = w[s] \o ops]
  BY DEF Enqueue
<1>2. w2[s] = w[s] \o ops /\ \A t \in Streams : t # s => w2[t] = w[t]
  BY <1>1
<1>3. w[s] \in Seq(Ops) /\ w[s] \o ops \in Seq(Ops)
  OBVIOUS
<1>4. w2 \in [Streams -> Seq(Ops)]
  BY <1>1, <1>3
<1> DEFINE q == w[s]
<1>5. q \in Seq(Ops) /\ w2[s] = q \o ops
  BY <1>2
<1> HIDE DEF q
<1>6. /\ Len(q \o ops) = Len(q) + Len(ops)
      /\ \A i \in 1 .. Len(q) : (q \o ops)[i] = q[i]
      /\ \A i \in 1 .. Len(ops) : (q \o ops)[Len(q) + i] = ops[i]
      /\ \A i \in 1 .. Len(q) + Len(ops) : i > Len(q) => (q \o ops)[i] = ops[i - Len(q)]
  BY <1>5
<1> QED
  BY <1>2, <1>4, <1>5, <1>6 DEF q, Added

\* w2 has every operation of w, in the same order.
Grows(w, w2) ==
    /\ \A s \in Streams : \A x \in Ops : In(w, s, x) => In(w2, s, x)
    /\ \A x, y \in Ops : Ahead(w, x, y) => Ahead(w2, x, y)

\* The new operations are behind those of s, and behind each other.
Behind(w, s, ops, w2) ==
    /\ w2 \in [Streams -> Seq(Ops)]
    /\ Grows(w, w2)
    /\ \A t \in Streams : \A x \in Ops :
           In(w2, t, x) <=> In(w, t, x) \/ (t = s /\ \E k \in 1 .. Len(ops) : ops[k] = x)
    /\ \A x \in Ops : In(w, s, x) => \A k \in 1 .. Len(ops) : Ahead(w2, x, ops[k])
    /\ \A k, l \in 1 .. Len(ops) : k < l => Ahead(w2, ops[k], ops[l])

LEMMA EnqueueGrows ==
  ASSUME NEW w \in [Streams -> Seq(Ops)], NEW s \in Streams, NEW ops \in Seq(Ops),
         NEW w2, w2 = Enqueue(w, s, ops)
  PROVE  Behind(w, s, ops, w2)
<1>1. /\ w2 \in [Streams -> Seq(Ops)]
      /\ \A t \in Streams : t # s => w2[t] = w[t]
      /\ Len(w2[s]) = Len(w[s]) + Len(ops)
      /\ \A i \in 1 .. Len(w[s]) : w2[s][i] = w[s][i]
      /\ \A i \in 1 .. Len(ops) : w2[s][Len(w[s]) + i] = ops[i]
      /\ \A i \in 1 .. Len(w2[s]) : i > Len(w[s]) => w2[s][i] = ops[i - Len(w[s])]
  <2>1. Added(w, s, ops, w2)
    BY EnqueueAdds
  <2> QED BY <2>1 DEF Added
<1>2. Len(w[s]) \in Nat /\ Len(ops) \in Nat /\ Len(w2[s]) \in Nat
  BY <1>1
<1>3. \A t \in Streams : Len(w[t]) \in Nat /\ Len(w[t]) <= Len(w2[t])
                         /\ \A i \in 1 .. Len(w[t]) : i \in 1 .. Len(w2[t]) /\ w2[t][i] = w[t][i]
  <2> TAKE t \in Streams
  <2>1. CASE t = s
    <3>1. \A i \in 1 .. Len(w[s]) : i \in 1 .. Len(w2[s])
      BY <1>1, <1>2
    <3> QED BY <2>1, <3>1, <1>1, <1>2
  <2>2. CASE t # s
    <3>1. w2[t] = w[t] /\ Len(w[t]) \in Nat
      BY <2>2, <1>1
    <3> QED BY <3>1
  <2> QED BY <2>1, <2>2
<1>4. Grows(w, w2)
  <2>1. \A t \in Streams : \A x \in Ops : In(w, t, x) => In(w2, t, x)
    BY <1>3, Zenon DEF In
  <2>2. \A x, y \in Ops : Ahead(w, x, y) => Ahead(w2, x, y)
    <3> SUFFICES ASSUME NEW x \in Ops, NEW y \in Ops, Ahead(w, x, y)
                 PROVE  Ahead(w2, x, y)
      OBVIOUS
    <3>0. PICK t \in Streams : \E i, j \in 1 .. Len(w[t]) : i < j /\ w[t][i] = x /\ w[t][j] = y
      BY Zenon DEF Ahead
    <3>2. PICK i \in 1 .. Len(w[t]), j \in 1 .. Len(w[t]) : i < j /\ w[t][i] = x /\ w[t][j] = y
      BY <3>0, Zenon
    <3>1. i \in 1 .. Len(w2[t]) /\ w2[t][i] = x /\ j \in 1 .. Len(w2[t]) /\ w2[t][j] = y
      BY <1>3, <3>2, Zenon
    <3> QED BY <3>1, <3>2, Zenon DEF Ahead
  <2> QED BY <2>1, <2>2 DEF Grows
<1>5. ASSUME NEW t \in Streams, NEW x \in Ops, In(w2, t, x)
      PROVE  In(w, t, x) \/ (t = s /\ \E k \in 1 .. Len(ops) : ops[k] = x)
  <2>1. PICK i \in 1 .. Len(w2[t]) : w2[t][i] = x
    BY <1>5 DEF In
  <2>2. CASE t # s
    BY <2>1, <2>2, <1>1 DEF In
  <2>3. CASE t = s /\ i <= Len(w[s])
    <3>1. i \in 1 .. Len(w[s]) /\ w[s][i] = x
      BY <2>1, <2>3, <1>1, <1>2
    <3> QED BY <3>1, <2>3, Zenon DEF In
  <2>4. CASE t = s /\ i > Len(w[s])
    <3>1. i - Len(w[s]) \in 1 .. Len(ops) /\ ops[i - Len(w[s])] = x
      BY <2>1, <2>4, <1>1, <1>2
    <3> QED BY <3>1, <2>4
  <2> QED BY <2>2, <2>3, <2>4, <1>2, <2>1
<1>6. ASSUME NEW k \in 1 .. Len(ops)
      PROVE  In(w2, s, ops[k]) /\ Len(w[s]) + k \in 1 .. Len(w2[s]) /\ w2[s][Len(w[s]) + k] = ops[k]
  BY <1>1, <1>2 DEF In
<1>7. \A t \in Streams : \A x \in Ops :
          In(w2, t, x) <=> In(w, t, x) \/ (t = s /\ \E k \in 1 .. Len(ops) : ops[k] = x)
  BY <1>4, <1>5, <1>6 DEF Grows
<1>8. ASSUME NEW x \in Ops, In(w, s, x), NEW k \in 1 .. Len(ops)
      PROVE  Ahead(w2, x, ops[k])
  <2>1. PICK i \in 1 .. Len(w[s]) : w[s][i] = x
    BY <1>8 DEF In
  <2>2. i < Len(w[s]) + k /\ i \in 1 .. Len(w2[s]) /\ w2[s][i] = x
    BY <2>1, <1>1, <1>2
  <2> QED BY <2>2, <1>6 DEF Ahead
<1>9. ASSUME NEW k \in 1 .. Len(ops), NEW l \in 1 .. Len(ops), k < l
      PROVE  Ahead(w2, ops[k], ops[l])
  <2>1. Len(w[s]) + k < Len(w[s]) + l
    BY <1>9, <1>2
  <2> QED BY <2>1, <1>6 DEF Ahead
<1> QED
  BY <1>1, <1>4, <1>7, <1>8, <1>9 DEF Behind

\* The operations ops are different, and none but waits is enqueued.
Fresh(w, ops) ==
    /\ \A k \in 1 .. Len(ops) : ops[k].kind # "wait" => ~ Queued(w, ops[k])
    /\ \A k, l \in 1 .. Len(ops) : ops[k] = ops[l] => k = l

\* New operations, other than what is there, keep operations unique.
LEMMA EnqueueOnce ==
  ASSUME NEW w \in [Streams -> Seq(Ops)], NEW s \in Streams, NEW ops \in Seq(Ops),
         NEW w2, w2 = Enqueue(w, s, ops), Once(w),
         Fresh(w, ops)
  PROVE  Once(w2)
<1>0. /\ \A k \in 1 .. Len(ops) : ops[k].kind # "wait" => ~ Queued(w, ops[k])
      /\ \A k, l \in 1 .. Len(ops) : ops[k] = ops[l] => k = l
  BY DEF Fresh
<1>1. /\ w2 \in [Streams -> Seq(Ops)]
      /\ \A t \in Streams : t # s => w2[t] = w[t]
      /\ Len(w2[s]) = Len(w[s]) + Len(ops)
      /\ \A i \in 1 .. Len(w[s]) : w2[s][i] = w[s][i]
      /\ \A i \in 1 .. Len(w2[s]) : i > Len(w[s]) => w2[s][i] = ops[i - Len(w[s])]
  <2>1. Added(w, s, ops, w2)
    BY EnqueueAdds
  <2> QED BY <2>1 DEF Added
<1>2. Len(w[s]) \in Nat /\ Len(ops) \in Nat /\ Len(w2[s]) \in Nat
  BY <1>1
<1> DEFINE Old(t, i) == i \in 1 .. Len(w[t]) /\ w2[t][i] = w[t][i]
           New(t, i) == t = s /\ i - Len(w[s]) \in 1 .. Len(ops) /\ w2[t][i] = ops[i - Len(w[s])]
<1>3. ASSUME NEW t \in Streams, NEW i \in 1 .. Len(w2[t])
      PROVE  Old(t, i) \/ New(t, i)
  <2>1. CASE t # s
    BY <2>1, <1>1
  <2>2. CASE t = s /\ i <= Len(w[s])
    BY <2>2, <1>1, <1>2
  <2>3. CASE t = s /\ i > Len(w[s])
    BY <2>3, <1>1, <1>2
  <2> QED BY <2>1, <2>2, <2>3, <1>2
<1>4. SUFFICES ASSUME NEW t \in Streams, NEW u \in Streams,
                      NEW i \in 1 .. Len(w2[t]), NEW j \in 1 .. Len(w2[u]),
                      w2[t][i] = w2[u][j], w2[t][i].kind # "wait"
               PROVE  t = u /\ i = j
  BY DEF Once
<1>5. i \in Nat /\ j \in Nat
  BY <1>1
<1>6. CASE Old(t, i) /\ Old(u, j)
  <2>1. w[t][i] = w[u][j] /\ w[t][i].kind # "wait"
    BY <1>4, <1>6
  <2>2. i \in 1 .. Len(w[t]) /\ j \in 1 .. Len(w[u])
    BY <1>6
  <2> HIDE DEF Old, New
  <2> QED BY <2>1, <2>2 DEF Once
<1>7. CASE Old(t, i) /\ New(u, j)
  <2>1. Queued(w, ops[j - Len(w[s])])
    BY <1>4, <1>7 DEF Queued, In
  <2> QED BY <2>1, <1>0, <1>4, <1>7
<1>8. CASE New(t, i) /\ Old(u, j)
  <2>1. Queued(w, ops[i - Len(w[s])])
    BY <1>4, <1>8 DEF Queued, In
  <2> QED BY <2>1, <1>0, <1>4, <1>8
<1>9. CASE New(t, i) /\ New(u, j)
  <2>1. i - Len(w[s]) = j - Len(w[s])
    BY <1>0, <1>4, <1>9
  <2> QED BY <2>1, <1>2, <1>5, <1>9
<1> QED
  BY <1>3, <1>6, <1>7, <1>8, <1>9

\* w2 is w without the operation h, which was the first on s.
Popped(w, s, h, w2) ==
    /\ w2 \in [Streams -> Seq(Ops)]
    /\ \A t \in Streams : \A x \in Ops : In(w2, t, x) => In(w, t, x)
    /\ \A t \in Streams : \A x \in Ops : In(w, t, x) /\ x # h => In(w2, t, x)
    /\ \A x, y \in Ops : Ahead(w, x, y) /\ x # h => Ahead(w2, x, y)
    /\ h \in Ops /\ In(w, s, h)
    /\ Once(w) => Once(w2)
    /\ Once(w) /\ h.kind # "wait" => ~ Queued(w2, h) /\ \A x \in Ops : ~ Ahead(w, x, h)

\* When a stream ends its next operation, the others stay in order.
LEMMA PopKeeps ==
  ASSUME NEW w \in [Streams -> Seq(Ops)], NEW s \in Streams, w[s] # <<>>,
         NEW w2, w2 = [w EXCEPT ![s] = Tail(@)]
  PROVE  Popped(w, s, Head(w[s]), w2)
<1>1. /\ w2[s] = Tail(w[s]) /\ \A t \in Streams : t # s => w2[t] = w[t]
      /\ w[s] \in Seq(Ops) /\ Tail(w[s]) \in Seq(Ops)
  OBVIOUS
<1>2. w2 \in [Streams -> Seq(Ops)]
  BY <1>1
<1> DEFINE q == w[s]
<1>3. q \in Seq(Ops) /\ q # <<>> /\ w2[s] = Tail(q)
  BY <1>1
<1>4. Len(q) \in Nat /\ Len(q) > 0
  <2> HIDE DEF q
  <2> QED BY <1>3
<1>5. /\ Len(Tail(q)) = Len(q) - 1 /\ Head(q) = q[1] /\ Head(q) \in Ops
      /\ \A i \in 1 .. Len(q) - 1 : Tail(q)[i] = q[i + 1]
  <2> HIDE DEF q
  <2> QED BY <1>3, <1>4
<1> DEFINE up(t, i) == IF t = s THEN i + 1 ELSE i
<1>6. \A t \in Streams : \A i \in 1 .. Len(w2[t]) :
          up(t, i) \in 1 .. Len(w[t]) /\ w2[t][i] = w[t][up(t, i)] /\ (t = s => up(t, i) > 1)
  BY <1>1, <1>3, <1>4, <1>5
<1>7. \A t \in Streams : \A i \in 1 .. Len(w[t]) : w[t][i] # Head(q) =>
          \E k \in 1 .. Len(w2[t]) : i = up(t, k)
  <2> SUFFICES ASSUME NEW t \in Streams, NEW i \in 1 .. Len(w[t]), w[t][i] # Head(q)
               PROVE  \E k \in 1 .. Len(w2[t]) : i = up(t, k)
    OBVIOUS
  <2>1. CASE t = s
    <3>1. i \in 1 .. Len(q) /\ i # 1
      BY <2>1, <1>5
    <3>2. i - 1 \in 1 .. Len(w2[s]) /\ i = (i - 1) + 1
      BY <3>1, <1>3, <1>4, <1>5
    <3> QED BY <3>2, <2>1
  <2>2. CASE t # s
    BY <2>2, <1>1
  <2> QED BY <2>1, <2>2
<1>8. \A t \in Streams : \A i \in 1 .. Len(w2[t]), j \in 1 .. Len(w2[t]) :
          (i < j <=> up(t, i) < up(t, j)) /\ (up(t, i) = up(t, j) => i = j)
  BY <1>2
<1>9. 1 \in 1 .. Len(w[s]) /\ w[s][1] = Head(w[s])
  BY <1>4, <1>5
<1>10. \A t \in Streams : \A x \in Ops : In(w2, t, x) => In(w, t, x)
  <2> HIDE DEF up
  <2> QED BY <1>6 DEF In
<1>11. \A t \in Streams : \A x \in Ops : In(w, t, x) /\ x # Head(w[s]) => In(w2, t, x)
  <2> SUFFICES ASSUME NEW t \in Streams, NEW x \in Ops, In(w, t, x), x # Head(w[s])
               PROVE  In(w2, t, x)
    OBVIOUS
  <2> HIDE DEF up
  <2>1. PICK i \in 1 .. Len(w[t]) : w[t][i] = x
    BY DEF In
  <2>2. PICK k \in 1 .. Len(w2[t]) : i = up(t, k)
    BY <2>1, <1>7
  <2> QED BY <2>1, <2>2, <1>6 DEF In
<1>12. ASSUME NEW x \in Ops, NEW y \in Ops, Ahead(w, x, y), x # Head(w[s])
       PROVE  Ahead(w2, x, y)
  <2>1. PICK t \in Streams : \E i, j \in 1 .. Len(w[t]) : i < j /\ w[t][i] = x /\ w[t][j] = y
    BY <1>12 DEF Ahead
  <2>2. PICK i \in 1 .. Len(w[t]), j \in 1 .. Len(w[t]) : i < j /\ w[t][i] = x /\ w[t][j] = y
    BY <2>1
  <2>3. PICK k \in 1 .. Len(w2[t]) : i = up(t, k)
    BY <2>2, <1>7, <1>12
  <2>4. \E l \in 1 .. Len(w2[t]) : j = up(t, l)
    <3>1. CASE t = s
      <4>1. j \in 1 .. Len(q) /\ j > 1
        BY <3>1, <2>2
      <4>2. j - 1 \in 1 .. Len(w2[s]) /\ j = (j - 1) + 1
        BY <4>1, <1>3, <1>4, <1>5
      <4> QED BY <4>2, <3>1
    <3>2. CASE t # s
      BY <3>2, <1>1
    <3> QED BY <3>1, <3>2
  <2>5. PICK l \in 1 .. Len(w2[t]) : j = up(t, l)
    BY <2>4
  <2>6. k < l /\ w2[t][k] = x /\ w2[t][l] = y
    BY <2>2, <2>3, <2>5, <1>6, <1>8
  <2> QED BY <2>6 DEF Ahead
<1>13. ASSUME Once(w) PROVE Once(w2)
  <2>1. \A t, u \in Streams : \A i \in 1 .. Len(w2[t]), j \in 1 .. Len(w2[u]) :
            w2[t][i] = w2[u][j] /\ w2[t][i].kind # "wait" => t = u /\ i = j
    <3> TAKE t, u \in Streams
    <3> TAKE i \in 1 .. Len(w2[t]), j \in 1 .. Len(w2[u])
    <3> HAVE w2[t][i] = w2[u][j] /\ w2[t][i].kind # "wait"
    <3>1. t = u /\ up(t, i) = up(u, j)
      <4> HIDE DEF up
      <4> QED BY <1>13, <1>6 DEF Once
    <3> QED BY <3>1, <1>8
  <2> QED BY <2>1 DEF Once
<1>14. ASSUME Once(w), Head(w[s]).kind # "wait" PROVE ~ Queued(w2, Head(w[s]))
  <2> SUFFICES ASSUME NEW t \in Streams, NEW i \in 1 .. Len(w2[t]), w2[t][i] = Head(w[s])
               PROVE  FALSE
    BY DEF Queued, In
  <2>1. t = s /\ up(t, i) = 1
    <3> HIDE DEF up
    <3> QED BY <1>14, <1>6, <1>9 DEF Once
  <2> QED BY <2>1, <1>6
<1>15. ASSUME Once(w), Head(w[s]).kind # "wait", NEW x \in Ops, Ahead(w, x, Head(w[s])) PROVE FALSE
  <2>1. PICK t \in Streams : \E i, j \in 1 .. Len(w[t]) : i < j /\ w[t][i] = x /\ w[t][j] = Head(w[s])
    BY <1>15 DEF Ahead
  <2>2. PICK i \in 1 .. Len(w[t]), j \in 1 .. Len(w[t]) : i < j /\ w[t][j] = Head(w[s])
    BY <2>1
  <2>3. t = s /\ j = 1
    BY <1>15, <1>9, <2>2 DEF Once
  <2> QED BY <2>2, <2>3
<1>16. Head(w[s]) \in Ops /\ In(w, s, Head(w[s]))
  BY <1>5, <1>9 DEF In
<1> QED
  BY <1>2, <1>10, <1>11, <1>12, <1>13, <1>14, <1>15, <1>16 DEF Popped

-----------------------------------------------------------------------------
(* The order of accesses, as the streams grow and shrink. *)

\* Records and waits are operations, and different from each other and from accesses.
LEMMA OpsAreTyped ==
  /\ \A e \in Nat : Record(e) \in Ops /\ Wait(e) \in Ops
  /\ \A e \in Nat : Record(e) \notin AccessOps /\ Wait(e) \notin AccessOps
  /\ \A e \in Nat : Record(e).kind # "wait" /\ Wait(e).kind = "wait"
  /\ \A e, f \in Nat : Record(e) # Wait(f) /\ (Record(e) = Record(f) => e = f)
                       /\ Record(e).event = e /\ Wait(e).event = e
  /\ AccessOps \subseteq Ops /\ \A x \in AccessOps : x.kind # "wait" /\ x.kind # "record"
  /\ \A x \in Ops : /\ x.kind = "access" => x \in AccessOps
                    /\ x.kind = "record" => x.event \in Nat /\ x = Record(x.event)
                    /\ x.kind = "wait" => x.event \in Nat /\ x = Wait(x.event)
BY DEF Ops, AccessOps, RecordOps, WaitOps, Record, Wait

\* What guards an access goes on to guard it when more is enqueued.
LEMMA GrowKeeps ==
  ASSUME NEW w, NEW w2, Grows(w, w2)
  PROVE  /\ \A a, c \in AccessOps : Guarded(w, a, c) => Guarded(w2, a, c)
         /\ \A a \in AccessOps, s \in Streams : Reaches(w, a, s) => Reaches(w2, a, s)
         /\ \A a \in AccessOps, e \in Nat : Ahead(w, a, Record(e)) => Ahead(w2, a, Record(e))
<1>1. /\ \A e \in Nat : Record(e) \in Ops /\ Wait(e) \in Ops
      /\ AccessOps \subseteq Ops
  BY OpsAreTyped
<1> QED
  BY <1>1 DEF Grows, Guarded, Reaches

\* What reaches a stream guards the access that is enqueued on it.
LEMMA ReachGuards ==
  ASSUME NEW w \in [Streams -> Seq(Ops)], NEW s \in Streams, NEW ops \in Seq(Ops),
         NEW w2, w2 = Enqueue(w, s, ops), NEW k \in 1 .. Len(ops), ops[k] \in AccessOps,
         NEW a \in AccessOps, Reaches(w, a, s)
  PROVE  Guarded(w2, a, ops[k])
<1>1. /\ Grows(w, w2)
      /\ \A x \in Ops : In(w, s, x) => Ahead(w2, x, ops[k])
  <2>1. Behind(w, s, ops, w2)
    BY EnqueueGrows
  <2> QED BY <2>1 DEF Behind
<1>2. /\ \A e \in Nat : Record(e) \in Ops /\ Wait(e) \in Ops
      /\ AccessOps \subseteq Ops
  BY OpsAreTyped
<1>3. CASE In(w, s, a)
  BY <1>1, <1>2, <1>3 DEF Guarded
<1>4. CASE \E e \in Nat : Ahead(w, a, Record(e)) /\ In(w, s, Wait(e))
  <2>1. PICK e \in Nat : Ahead(w, a, Record(e)) /\ In(w, s, Wait(e))
    BY <1>4
  <2>2. Ahead(w2, a, Record(e))
    BY <2>1, <1>1, <1>2 DEF Grows
  <2>3. Ahead(w2, Wait(e), ops[k])
    BY <2>1, <1>1, <1>2
  <2> QED BY <2>2, <2>3 DEF Guarded
<1> QED
  BY <1>3, <1>4 DEF Reaches

\* The parts of the invariant that are about the order of accesses.
OrderInv(w, ex, st, la, sto) ==
    /\ Ordered(w, ex)
    /\ ReadsReach(w, ex, st)
    /\ WritesReach(w, ex, st, la, sto)
    /\ LockedIsFree(w, ex, sto)

\* The access c is issued: it comes after everything that reaches the stream of the buffer
\* it writes, and after the latest write of the buffer it reads.
Issues(w, w2, c, st, la, la2, sto, sto2) ==
    /\ Grows(w, w2) /\ Accesses(w2) = Accesses(w) \cup {c} /\ \A a \in Accesses(w) : a.n < c.n
    /\ \A b \in c.writes, x \in Accesses(w) : Reaches(w, x, st[b]) => Guarded(w2, x, c)
    /\ \A b \in c.reads, x \in Accesses(w) : Ahead(w, x, Record(la[b])) => Guarded(w2, x, c)
    /\ \A b \in c.reads : Reaches(w2, c, st[b])
    /\ \A b \in c.writes : sto2[b] = "freed" \/ LastWrite(w2, c, b, st[b], la2[b])
    /\ \A b \in Buffers \ c.writes : la2[b] = la[b] /\ sto2[b] = sto[b]
    /\ \A b \in Touches(c) : sto[b] # "freed" /\ sto2[b] # "locked"

LEMMA Issued ==
  ASSUME NEW w, NEW w2, NEW c \in AccessOps, NEW ex,
         NEW st \in [Buffers -> Streams], NEW la \in [Buffers -> Nat], NEW la2,
         NEW sto, NEW sto2,
         Issues(w, w2, c, st, la, la2, sto, sto2), OrderInv(w, ex, st, la, sto)
  PROVE  OrderInv(w2, ex, st, la2, sto2)
<1>0. /\ Grows(w, w2) /\ Accesses(w2) = Accesses(w) \cup {c} /\ \A a \in Accesses(w) : a.n < c.n
      /\ \A b \in c.writes, x \in Accesses(w) : Reaches(w, x, st[b]) => Guarded(w2, x, c)
      /\ \A b \in c.reads, x \in Accesses(w) : Ahead(w, x, Record(la[b])) => Guarded(w2, x, c)
      /\ \A b \in c.reads : Reaches(w2, c, st[b])
      /\ \A b \in c.writes : sto2[b] = "freed" \/ LastWrite(w2, c, b, st[b], la2[b])
      /\ \A b \in Buffers \ c.writes : la2[b] = la[b] /\ sto2[b] = sto[b]
      /\ \A b \in Touches(c) : sto[b] # "freed" /\ sto2[b] # "locked"
  BY DEF Issues
<1> USE <1>0
<1> USE DEF OrderInv
<1>1. /\ \A a, x \in AccessOps : Guarded(w, a, x) => Guarded(w2, a, x)
      /\ \A a \in AccessOps, s \in Streams : Reaches(w, a, s) => Reaches(w2, a, s)
      /\ \A a \in AccessOps, e \in Nat : Ahead(w, a, Record(e)) => Ahead(w2, a, Record(e))
  BY GrowKeeps
<1>2. Accesses(w) \subseteq AccessOps /\ Accesses(w2) \subseteq AccessOps
  BY DEF Accesses
<1>3. \A a \in AccessOps : a.n \in Nat /\ a.reads \subseteq Buffers /\ a.writes \subseteq Buffers
  BY DEF AccessOps
<1>4. Ordered(w2, ex)
  <2> SUFFICES ASSUME NEW a \in Accesses(w2), NEW d \in Accesses(w2), NEW b \in Buffers \ ex,
                      a.n < d.n, Conflicts(a, d, b)
               PROVE  \E x \in Accesses(w2) : Follows(a, x, b) /\ Guarded(w2, x, d)
    BY DEF Ordered
  <2>1. CASE d # c
    <3>1. a \in Accesses(w) /\ d \in Accesses(w)
      BY <2>1, <1>2, <1>3
    <3>2. PICK x \in Accesses(w) : Follows(a, x, b) /\ Guarded(w, x, d)
      BY <3>1 DEF Ordered
    <3> QED BY <3>1, <3>2, <1>1, <1>2
  <2>2. CASE d = c
    <3>1. a \in Accesses(w)
      BY <2>2, <1>2, <1>3
    <3>2. CASE b \in a.writes
      <4>1. sto[b] # "freed"
        BY <2>2, <3>2 DEF Conflicts, Touches
      <4>2. PICK x \in Accesses(w) : Follows(a, x, b) /\ LastWrite(w, x, b, st[b], la[b])
        BY <3>1, <3>2, <4>1 DEF WritesReach
      <4>3. b \in c.writes \/ b \in c.reads
        BY <2>2 DEF Conflicts, Touches
      <4>4. Guarded(w2, x, c)
        BY <4>2, <4>3 DEF LastWrite
      <4> QED BY <4>2, <4>4, <2>2
    <3>3. CASE b \notin a.writes
      <4>1. b \in a.reads /\ b \in c.writes
        BY <2>2, <3>3 DEF Conflicts, Touches
      <4>2. Reaches(w, a, st[b])
        BY <3>1, <4>1 DEF ReadsReach
      <4> QED BY <3>1, <4>1, <4>2, <2>2 DEF Follows
    <3> QED BY <3>2, <3>3
  <2> QED BY <2>1, <2>2
<1>5. ReadsReach(w2, ex, st)
  <2> SUFFICES ASSUME NEW a \in Accesses(w2), NEW b \in a.reads \ ex
               PROVE  Reaches(w2, a, st[b])
    BY DEF ReadsReach
  <2>1. CASE a = c
    BY <2>1
  <2>2. CASE a # c
    <3>1. a \in Accesses(w) /\ st[b] \in Streams
      BY <2>2, <1>2, <1>3
    <3>2. Reaches(w, a, st[b])
      BY <3>1 DEF ReadsReach
    <3> QED BY <3>1, <3>2, <1>1, <1>2
  <2> QED BY <2>1, <2>2
<1>6. WritesReach(w2, ex, st, la2, sto2)
  <2> SUFFICES ASSUME NEW a \in Accesses(w2), NEW b \in a.writes \ ex, sto2[b] # "freed"
               PROVE  \E x \in Accesses(w2) : Follows(a, x, b) /\ LastWrite(w2, x, b, st[b], la2[b])
    BY DEF WritesReach
  <2>1. CASE b \in c.writes
    <3>1. LastWrite(w2, c, b, st[b], la2[b])
      BY <2>1
    <3>2. Follows(a, c, b)
      BY <2>1, <1>2 DEF Follows, Conflicts, Touches
    <3> QED BY <3>1, <3>2
  <2>2. CASE b \notin c.writes
    <3>1. a \in Accesses(w) /\ b \in Buffers /\ st[b] \in Streams /\ la[b] \in Nat
      BY <2>2, <1>2, <1>3
    <3>2. la2[b] = la[b] /\ sto2[b] = sto[b]
      BY <2>2, <3>1
    <3>3. PICK x \in Accesses(w) : Follows(a, x, b) /\ LastWrite(w, x, b, st[b], la[b])
      BY <3>1, <3>2 DEF WritesReach
    <3>4. LastWrite(w2, x, b, st[b], la2[b])
      BY <3>1, <3>2, <3>3, <1>1, <1>2 DEF LastWrite
    <3> QED BY <3>3, <3>4
  <2> QED BY <2>1, <2>2
<1>7. LockedIsFree(w2, ex, sto2)
  <2> SUFFICES ASSUME NEW a \in Accesses(w2), NEW b \in Touches(a) \ ex
               PROVE  sto2[b] # "locked"
    BY DEF LockedIsFree
  <2>1. CASE b \in Touches(c)
    BY <2>1
  <2>2. CASE b \notin Touches(c)
    <3>1. a \in Accesses(w) /\ b \in Buffers \ c.writes
      BY <2>2, <1>2, <1>3 DEF Touches
    <3> QED BY <3>1 DEF LockedIsFree
  <2> QED BY <2>1, <2>2
<1> QED
  BY <1>4, <1>5, <1>6, <1>7

\* An access that runs has nothing before it.
LEMMA HeadIsFirst ==
  ASSUME NEW w \in [Streams -> Seq(Ops)], NEW s \in Streams, w[s] # <<>>, NEW ex,
         Once(w), Ordered(w, ex), Head(w[s]) \in Accesses(w),
         NEW a \in Accesses(w), NEW b \in Buffers \ ex,
         a.n < Head(w[s]).n
  PROVE  ~ Conflicts(a, Head(w[s]), b)
<1> DEFINE h == Head(w[s])
<1>1. h \in Accesses(w) /\ a.n < h.n
  OBVIOUS
<1>2. \A x \in Ops : ~ Ahead(w, x, h)
  <2>1. h.kind # "wait"
    BY <1>1, OpsAreTyped DEF Accesses
  <2>2. Popped(w, s, Head(w[s]), [w EXCEPT ![s] = Tail(@)])
    BY PopKeeps
  <2>3. Once(w) /\ h.kind # "wait" => \A x \in Ops : ~ Ahead(w, x, h)
    BY <2>2 DEF Popped
  <2> QED BY <2>1, <2>3
<1> HIDE DEF h
<1>3. SUFFICES ASSUME Conflicts(a, h, b) PROVE FALSE
  BY DEF h
<1>4. PICK x \in Accesses(w) : Guarded(w, x, h)
  BY <1>1, <1>3 DEF Ordered
<1>5. x \in Ops /\ \A e \in Nat : Wait(e) \in Ops
  BY OpsAreTyped DEF Accesses
<1> QED
  BY <1>2, <1>4, <1>5 DEF Guarded

\* A stream ends its next operation: an access has nothing before it, a wait only what has ended.
LEMMA Ended ==
  ASSUME NEW w \in [Streams -> Seq(Ops)], NEW s \in Streams, w[s] # <<>>, NEW ex,
         NEW w2, w2 = [w EXCEPT ![s] = Tail(@)],
         NEW st, NEW la \in [Buffers -> Nat], NEW sto, NEW d, NEW n, NEW r,
         Once(w), Used(w, n, r, d), OrderInv(w, ex, st, la, sto), st \in [Buffers -> Streams],
         Head(w[s]).kind = "wait" => Head(w[s]).event \in d
  PROVE  OrderInv(w2, ex, st, la, sto)
<1> USE DEF OrderInv
<1> DEFINE h == Head(w[s])
<1>1. /\ \A t \in Streams : \A x \in Ops : In(w2, t, x) => In(w, t, x)
      /\ \A t \in Streams : \A x \in Ops : In(w, t, x) /\ x # h => In(w2, t, x)
      /\ \A x, y \in Ops : Ahead(w, x, y) /\ x # h => Ahead(w2, x, y)
      /\ h \in Ops /\ In(w, s, h)
      /\ h.kind # "wait" => ~ Queued(w2, h)
  <2>1. Popped(w, s, h, w2)
    BY PopKeeps
  <2> HIDE DEF h
  <2> QED BY <2>1 DEF Popped
<1>2. h.kind = "wait" => h.event \in d
  OBVIOUS
<1>3. \A a \in Accesses(w) : \A b \in Buffers \ ex : h \in Accesses(w) /\ a.n < h.n => ~ Conflicts(a, h, b)
  BY HeadIsFirst
<1> HIDE DEF h
<1>4. /\ \A e \in Nat : Record(e) \in Ops /\ Wait(e) \in Ops
      /\ AccessOps \subseteq Ops
      /\ \A e \in Nat : Record(e) \notin AccessOps /\ Wait(e) \notin AccessOps
      /\ \A e \in Nat : Wait(e).kind = "wait" /\ Wait(e).event = e
      /\ \A x \in AccessOps : x.kind # "wait"
  BY OpsAreTyped
<1>5. /\ Accesses(w) \subseteq AccessOps /\ Accesses(w2) \subseteq Accesses(w)
      /\ \A x \in Accesses(w) : x # h => x \in Accesses(w2)
      /\ h \notin Accesses(w2)
  BY <1>1, <1>4 DEF Accesses, Queued
\* A wait for an event whose record is enqueued is not the one that ends.
<1>6. \A a \in AccessOps, e \in Nat : Ahead(w, a, Record(e)) => Wait(e) # h
  <2> SUFFICES ASSUME NEW a \in AccessOps, NEW e \in Nat, Ahead(w, a, Record(e)), Wait(e) = h
               PROVE  FALSE
    OBVIOUS
  <2>1. Queued(w, Record(e))
    BY DEF Ahead, Queued, In
  <2> QED BY <2>1, <1>2, <1>4 DEF Used
<1>7. \A a, c \in AccessOps : Guarded(w, a, c) /\ a # h => Guarded(w2, a, c)
  BY <1>1, <1>4, <1>6 DEF Guarded
<1>8. \A a \in AccessOps, t \in Streams : Reaches(w, a, t) /\ a # h => Reaches(w2, a, t)
  BY <1>1, <1>4, <1>6 DEF Reaches
<1>9. \A a \in AccessOps, e \in Nat : Ahead(w, a, Record(e)) /\ a # h => Ahead(w2, a, Record(e))
  BY <1>1, <1>4
\* What follows an access that has not ended has not ended.
<1>10. ASSUME NEW a \in Accesses(w2), NEW b \in Buffers \ ex, NEW x \in Accesses(w), Follows(a, x, b)
       PROVE  x # h
  <2>1. CASE x = a
    BY <2>1, <1>5
  <2>2. CASE a.n < x.n /\ Conflicts(a, x, b)
    <3> SUFFICES ASSUME x = h PROVE FALSE
      OBVIOUS
    <3>1. a \in Accesses(w) /\ h \in Accesses(w) /\ a.n < h.n
      BY <2>2, <1>5
    <3> QED BY <3>1, <2>2, <1>3, Zenon
  <2> QED BY <2>1, <2>2, <1>10 DEF Follows
<1>11. \A a \in AccessOps : a.reads \subseteq Buffers /\ a.writes \subseteq Buffers
  BY DEF AccessOps
<1>12. Ordered(w2, ex)
  <2> SUFFICES ASSUME NEW a \in Accesses(w2), NEW c \in Accesses(w2), NEW b \in Buffers \ ex,
                      a.n < c.n, Conflicts(a, c, b)
               PROVE  \E x \in Accesses(w2) : Follows(a, x, b) /\ Guarded(w2, x, c)
    BY DEF Ordered
  <2>1. PICK x \in Accesses(w) : Follows(a, x, b) /\ Guarded(w, x, c)
    BY <1>5 DEF Ordered
  <2>2. x # h
    BY <2>1, <1>10
  <2> QED BY <2>1, <2>2, <1>5, <1>7
<1>13. ReadsReach(w2, ex, st)
  <2> SUFFICES ASSUME NEW a \in Accesses(w2), NEW b \in a.reads \ ex
               PROVE  Reaches(w2, a, st[b])
    BY DEF ReadsReach
  <2>1. Reaches(w, a, st[b]) /\ a # h /\ a \in AccessOps /\ st[b] \in Streams
    BY <1>5, <1>11 DEF ReadsReach
  <2> QED BY <2>1, <1>8
<1>14. WritesReach(w2, ex, st, la, sto)
  <2> SUFFICES ASSUME NEW a \in Accesses(w2), NEW b \in a.writes \ ex, sto[b] # "freed"
               PROVE  \E x \in Accesses(w2) : Follows(a, x, b) /\ LastWrite(w2, x, b, st[b], la[b])
    BY DEF WritesReach
  <2>1. PICK x \in Accesses(w) : Follows(a, x, b) /\ LastWrite(w, x, b, st[b], la[b])
    BY <1>5 DEF WritesReach
  <2>2. b \in Buffers \ ex /\ st[b] \in Streams /\ la[b] \in Nat
    BY <1>5, <1>11
  <2>3. x # h
    BY <2>1, <2>2, <1>10
  <2>4. LastWrite(w2, x, b, st[b], la[b])
    BY <2>1, <2>2, <2>3, <1>5, <1>8, <1>9 DEF LastWrite
  <2> QED BY <2>1, <2>3, <2>4, <1>5
<1>15. LockedIsFree(w2, ex, sto)
  BY <1>5 DEF LockedIsFree
<1> QED
  BY <1>12, <1>13, <1>14, <1>15

-----------------------------------------------------------------------------
(* The calls of the host, and the streams. *)

LEMMA InvParts ==
  BufferInv <=> /\ BufferTypes /\ Once(work) /\ Used(work, calls, recorded, done)
           /\ OrderInv(work, exposed, stream, latest, storage)
BY DEF BufferInv, OrderInv

\* The accesses that have not ended, as the model names them.
LEMMA PendingAccesses ==
  ASSUME BufferTypes
  PROVE  Pending = Accesses(work)
<1>1. work \in [Streams -> Seq(Ops)]
  BY DEF BufferTypes
<1>2. \A s \in Streams : DOMAIN work[s] = 1 .. Len(work[s])
                        /\ \A i \in 1 .. Len(work[s]) : work[s][i] \in Ops
  BY <1>1
<1>3. \A x \in Ops : x.kind = "access" <=> x \in AccessOps
  BY OpsAreTyped DEF AccessOps
<1>4. ASSUME NEW x \in Pending PROVE x \in Accesses(work)
  <2>1. PICK s \in Streams : x \in ToSet(work[s]) /\ x.kind = "access"
    BY <1>4 DEF Pending
  <2>2. PICK i \in 1 .. Len(work[s]) : work[s][i] = x
    BY <2>1, <1>2 DEF ToSet
  <2>3. x \in AccessOps
    BY <2>1, <2>2, <1>2, <1>3
  <2> QED BY <2>2, <2>3 DEF Accesses, Queued, In
<1>5. ASSUME NEW x \in Accesses(work) PROVE x \in Pending
  <2>1. x \in AccessOps /\ x.kind = "access"
    BY <1>5 DEF Accesses, AccessOps
  <2>2. PICK s \in Streams : \E i \in 1 .. Len(work[s]) : work[s][i] = x
    BY <1>5 DEF Accesses, Queued, In
  <2>3. x \in ToSet(work[s])
    BY <2>2, <1>2 DEF ToSet
  <2> QED BY <2>1, <2>3 DEF Pending
<1> QED BY <1>4, <1>5

\* Initially nothing is enqueued.
LEMMA InitInv == BufferInit => BufferInv
<1> SUFFICES ASSUME BufferInit PROVE BufferInv
  OBVIOUS
<1>1. \A s \in Streams : work[s] = <<>>
  BY DEF BufferInit
<1>2. BufferTypes
  BY DEF BufferInit, BufferTypes
<1>3. \A s \in Streams : \A x : ~ In(work, s, x)
  BY <1>1 DEF In
<1>4. \A x : ~ Queued(work, x)
  BY <1>3, Zenon DEF Queued
<1>5. Once(work)
  BY <1>1 DEF Once
<1>6. Accesses(work) = {}
  BY <1>4 DEF Accesses
<1> QED
  BY <1>2, <1>4, <1>5, <1>6 DEF BufferInv, Used, Ordered, ReadsReach, WritesReach, LockedIsFree

\* An access that the host issues is new, and its number is used now.
IsNew(w, c, n, reads, writes) ==
    /\ c \in AccessOps /\ c.reads = reads /\ c.writes = writes /\ c.n = n
    /\ ~ Queued(w, c)
    /\ \A a \in Accesses(w) : a.n < n

LEMMA NewAccess ==
  ASSUME NEW w, NEW n \in Nat, NEW r, NEW d, Used(w, n, r, d),
         NEW reads, NEW writes, reads \subseteq Buffers, writes \subseteq Buffers,
         NEW c, c = Access(n, reads, writes)
  PROVE  IsNew(w, c, n, reads, writes)
<1>1. c \in AccessOps /\ c.n = n /\ c.reads = reads /\ c.writes = writes
  BY DEF Access, AccessOps
<1>2. ~ (n < n)
  OBVIOUS
<1>3. ~ Queued(w, c)
  BY <1>1, <1>2 DEF Used
<1> QED
  BY <1>1, <1>3 DEF Used, Accesses, IsNew

\* The same of an event that is recorded.
LEMMA NewRecord ==
  ASSUME NEW w, NEW n, NEW r \in Nat, NEW d, d \subseteq 0 .. r, Used(w, n, r, d)
  PROVE  r + 1 \in Nat /\ ~ Queued(w, Record(r + 1)) /\ r + 1 \notin d /\ d \subseteq 0 .. r + 1
BY DEF Used

\* What is in use after an access and a record have been enqueued.
LEMMA StillUsed ==
  ASSUME NEW w, NEW w2, NEW n \in Nat, NEW r \in Nat, NEW d, NEW r2 \in {r, r + 1},
         d \subseteq 0 .. r, Used(w, n, r, d),
         NEW c \in AccessOps, c.n = n,
         \A x \in AccessOps : Queued(w2, x) => Queued(w, x) \/ x = c,
         \A e \in Nat : Queued(w2, Record(e)) => Queued(w, Record(e)) \/ (e = r + 1 /\ r2 = r + 1)
  PROVE  Used(w2, n + 1, r2, d)
<1>1. ASSUME NEW x \in AccessOps, Queued(w2, x) PROVE x.n < n + 1
  BY <1>1 DEF Used, AccessOps
<1>2. ASSUME NEW e \in Nat, Queued(w2, Record(e)) PROVE e <= r2 /\ e \notin d
  BY <1>2 DEF Used
<1> QED BY <1>1, <1>2 DEF Used

\* write_access() puts the write behind everything that concerns the buffer.
LEMMA WriteStep ==
  ASSUME BufferInv, NEW b \in Buffers, write_access(b)
  PROVE  BufferInv'
<1> DEFINE c == Access(calls, {}, {b})
           e == recorded + 1
           s == stream[b]
           ops == <<c, Record(e)>>
<1>1. BufferTypes /\ Once(work) /\ Used(work, calls, recorded, done)
      /\ OrderInv(work, exposed, stream, latest, storage)
  BY InvParts
<1>2. /\ work \in [Streams -> Seq(Ops)] /\ s \in Streams /\ recorded \in Nat /\ calls \in Nat
      /\ latest \in [Buffers -> Nat] /\ stream \in [Buffers -> Streams] /\ done \subseteq 0 .. recorded
  BY <1>1 DEF BufferTypes
<1>3. /\ work' = Enqueue(work, s, ops) /\ latest' = [latest EXCEPT ![b] = e]
      /\ recorded' = e /\ calls' = calls + 1 /\ storage[b] = "held"
      /\ stream' = stream /\ storage' = storage /\ done' = done /\ exposed' = exposed
  BY DEF write_access, Call, throw_if_locked
<1>4. /\ c \in AccessOps /\ ~ Queued(work, c) /\ \A a \in Accesses(work) : a.n < calls
      /\ c.reads = {} /\ c.writes = {b} /\ c.n = calls
  <2>1. {} \subseteq Buffers /\ {b} \subseteq Buffers /\ c = Access(calls, {}, {b})
    OBVIOUS
  <2> HIDE DEF c
  <2>2. IsNew(work, c, calls, {}, {b})
    BY <2>1, <1>1, <1>2, NewAccess
  <2> QED BY <2>2 DEF IsNew
<1>5. e \in Nat /\ ~ Queued(work, Record(e)) /\ e \notin done /\ done \subseteq 0 .. e
  BY <1>1, <1>2, NewRecord
<1> HIDE DEF c, e
<1>6. /\ Record(e) \in Ops /\ c \in Ops /\ c # Record(e)
      /\ \A f \in Nat : Record(f) \in Ops /\ Record(f) # c /\ (Record(f) = Record(e) => f = e)
      /\ AccessOps \subseteq Ops /\ Record(e) \notin AccessOps
  BY <1>4, <1>5, OpsAreTyped
<1>7. /\ ops \in Seq(Ops) /\ Len(ops) = 2 /\ ops[1] = c /\ ops[2] = Record(e)
      /\ 1 \in 1 .. Len(ops) /\ 2 \in 1 .. Len(ops) /\ \A k \in 1 .. Len(ops) : k = 1 \/ k = 2
  BY <1>6
<1> HIDE DEF ops
<1>8. /\ work' \in [Streams -> Seq(Ops)] /\ Grows(work, work')
      /\ \A t \in Streams : \A x \in Ops :
             In(work', t, x) <=> In(work, t, x) \/ (t = s /\ \E k \in 1 .. Len(ops) : ops[k] = x)
      /\ \A k, l \in 1 .. Len(ops) : k < l => Ahead(work', ops[k], ops[l])
  <2> HIDE DEF s
  <2>1. Behind(work, s, ops, work')
    BY <1>2, <1>3, <1>7, EnqueueGrows
  <2> QED BY <2>1 DEF Behind
<1>9. Once(work')
  <2> HIDE DEF s
  <2>1. Fresh(work, ops)
    BY <1>4, <1>5, <1>6, <1>7 DEF Fresh
  <2> QED BY <2>1, <1>1, <1>2, <1>3, <1>7, EnqueueOnce
<1>10. \A x \in Ops : Queued(work', x) <=> Queued(work, x) \/ x = c \/ x = Record(e)
  BY <1>2, <1>7, <1>8 DEF Queued
<1>11. Used(work', calls + 1, e, done)
  <2>1. \A x \in AccessOps : Queued(work', x) => Queued(work, x) \/ x = c
    BY <1>6, <1>10
  <2>2. \A f \in Nat : Queued(work', Record(f)) => Queued(work, Record(f)) \/ f = e
    BY <1>6, <1>10
  <2> QED BY <2>1, <2>2, <1>1, <1>2, <1>4, StillUsed DEF e
<1>12. Accesses(work') = Accesses(work) \cup {c}
  BY <1>4, <1>6, <1>10 DEF Accesses
<1>13. \A x \in Accesses(work) : Reaches(work, x, stream[b]) => Guarded(work', x, c)
  BY <1>2, <1>3, <1>4, <1>7, ReachGuards DEF Accesses
<1>14. LastWrite(work', c, b, stream[b], e)
  BY <1>4, <1>6, <1>7, <1>8, <1>2 DEF LastWrite, Reaches
<1>15. latest' \in [Buffers -> Nat] /\ latest'[b] = e /\ \A x \in Buffers : x # b => latest'[x] = latest[x]
  BY <1>2, <1>3, <1>5
<1>16. OrderInv(work', exposed, stream, latest', storage)
  <2>1. \A x \in Buffers \ c.writes : latest'[x] = latest[x]
    BY <1>4, <1>15
  <2>2. \A x \in Touches(c) : storage[x] # "freed" /\ storage[x] # "locked"
    BY <1>3, <1>4 DEF Touches
  <2>3. \A x \in c.writes : LastWrite(work', c, x, stream[x], latest'[x])
    BY <1>4, <1>14, <1>15
  <2>4. \A x \in c.writes, y \in Accesses(work) : Reaches(work, y, stream[x]) => Guarded(work', y, c)
    BY <1>4, <1>13
  <2>5. \A x \in c.reads : FALSE
    BY <1>4
  <2>6. Issues(work, work', c, stream, latest, latest', storage, storage)
    BY <2>1, <2>2, <2>3, <2>4, <2>5, <1>4, <1>8, <1>12 DEF Issues
  <2> QED
    BY <2>6, <1>1, <1>2, <1>4, Issued
<1>17. BufferTypes'
  BY <1>1, <1>2, <1>3, <1>5, <1>8, <1>15 DEF BufferTypes
<1> QED
  BY <1>3, <1>9, <1>11, <1>16, <1>17 DEF BufferInv, OrderInv

\* The memory is freed behind everything that concerns the buffer.
LEMMA FreeStep ==
  ASSUME BufferInv, NEW b \in Buffers, free(b)
  PROVE  BufferInv'
<1> DEFINE c == Access(calls, {}, {b})
           s == stream[b]
           ops == <<c>>
<1>1. BufferTypes /\ Once(work) /\ Used(work, calls, recorded, done)
      /\ OrderInv(work, exposed, stream, latest, storage)
  BY InvParts
<1>2. /\ work \in [Streams -> Seq(Ops)] /\ s \in Streams /\ recorded \in Nat /\ calls \in Nat
      /\ latest \in [Buffers -> Nat] /\ stream \in [Buffers -> Streams] /\ done \subseteq 0 .. recorded
      /\ storage \in [Buffers -> {"held", "locked", "released", "freed"}]
  BY <1>1 DEF BufferTypes
<1>3. /\ work' = Enqueue(work, s, ops) /\ storage' = [storage EXCEPT ![b] = "freed"]
      /\ calls' = calls + 1 /\ storage[b] \in {"held", "released"}
      /\ UNCHANGED <<stream, latest, recorded, done, exposed>>
  BY DEF free, Call
<1>4. /\ c \in AccessOps /\ ~ Queued(work, c) /\ \A a \in Accesses(work) : a.n < calls
      /\ c.reads = {} /\ c.writes = {b} /\ c.n = calls
  <2>1. {} \subseteq Buffers /\ {b} \subseteq Buffers /\ c = Access(calls, {}, {b})
    OBVIOUS
  <2> HIDE DEF c
  <2>2. IsNew(work, c, calls, {}, {b})
    BY <2>1, <1>1, <1>2, NewAccess
  <2> QED BY <2>2 DEF IsNew
<1> HIDE DEF c
<1>6. /\ c \in Ops /\ AccessOps \subseteq Ops
      /\ \A f \in Nat : Record(f) \in Ops /\ Record(f) # c
  BY <1>4, OpsAreTyped
<1>7. /\ ops \in Seq(Ops) /\ Len(ops) = 1 /\ ops[1] = c
      /\ 1 \in 1 .. Len(ops) /\ \A k \in 1 .. Len(ops) : k = 1
  BY <1>6
<1> HIDE DEF ops
<1>8. /\ work' \in [Streams -> Seq(Ops)] /\ Grows(work, work')
      /\ \A t \in Streams : \A x \in Ops :
             In(work', t, x) <=> In(work, t, x) \/ (t = s /\ \E k \in 1 .. Len(ops) : ops[k] = x)
  <2> HIDE DEF s
  <2>1. Behind(work, s, ops, work')
    BY <1>2, <1>3, <1>7, EnqueueGrows
  <2> QED BY <2>1 DEF Behind
<1>9. Once(work')
  <2> HIDE DEF s
  <2>1. Fresh(work, ops)
    BY <1>4, <1>7 DEF Fresh
  <2> QED BY <2>1, <1>1, <1>2, <1>3, <1>7, EnqueueOnce
<1>10. \A x \in Ops : Queued(work', x) <=> Queued(work, x) \/ x = c
  BY <1>2, <1>7, <1>8 DEF Queued
<1>11. Used(work', calls + 1, recorded, done)
  <2>1. \A x \in AccessOps : Queued(work', x) => Queued(work, x) \/ x = c
    BY <1>6, <1>10
  <2>2. \A f \in Nat : Queued(work', Record(f)) => Queued(work, Record(f))
    BY <1>6, <1>10
  <2> QED BY <2>1, <2>2, <1>1, <1>2, <1>4, StillUsed
<1>12. Accesses(work') = Accesses(work) \cup {c}
  BY <1>4, <1>6, <1>10 DEF Accesses
<1>13. \A x \in Accesses(work) : Reaches(work, x, stream[b]) => Guarded(work', x, c)
  BY <1>2, <1>3, <1>4, <1>7, ReachGuards DEF Accesses
<1>15. storage'[b] = "freed" /\ \A x \in Buffers : x # b => storage'[x] = storage[x]
  BY <1>2, <1>3
<1>16. OrderInv(work', exposed, stream, latest, storage')
  <2>1. \A x \in Buffers \ c.writes : storage'[x] = storage[x]
    BY <1>4, <1>15
  <2>2. \A x \in Touches(c) : storage[x] # "freed" /\ storage'[x] # "locked"
    BY <1>3, <1>4, <1>15 DEF Touches
  <2>3. \A x \in c.writes : storage'[x] = "freed"
    BY <1>4, <1>15
  <2>4. \A x \in c.writes, y \in Accesses(work) : Reaches(work, y, stream[x]) => Guarded(work', y, c)
    BY <1>4, <1>13
  <2>5. \A x \in c.reads : FALSE
    BY <1>4
  <2>6. Issues(work, work', c, stream, latest, latest, storage, storage')
    BY <2>1, <2>2, <2>3, <2>4, <2>5, <1>4, <1>8, <1>12 DEF Issues
  <2> QED
    BY <2>6, <1>1, <1>2, <1>4, Issued
<1>17. BufferTypes'
  BY <1>1, <1>2, <1>3, <1>8 DEF BufferTypes
<1> QED
  BY <1>3, <1>9, <1>11, <1>16, <1>17 DEF BufferInv, OrderInv

\* buffer_copy() waits for the latest write of the source; the stream of the source waits for it.
LEMMA CopyStep ==
  ASSUME BufferInv, NEW dst \in Buffers, NEW src \in Buffers, buffer_copy(dst, src)
  PROVE  BufferInv'
<1> DEFINE c == Access(calls, {src}, {dst})
           e == recorded + 1
           s == stream[dst]
           l == latest[src]
           ops == <<Wait(l), c, Record(e)>>
           wait == <<Wait(e)>>
           copied == Enqueue(work, s, ops)
<1>1. BufferTypes /\ Once(work) /\ Used(work, calls, recorded, done)
      /\ OrderInv(work, exposed, stream, latest, storage)
  BY InvParts
<1>2. /\ work \in [Streams -> Seq(Ops)] /\ s \in Streams /\ recorded \in Nat /\ calls \in Nat
      /\ latest \in [Buffers -> Nat] /\ stream \in [Buffers -> Streams] /\ done \subseteq 0 .. recorded
      /\ stream[src] \in Streams /\ l \in Nat
  BY <1>1 DEF BufferTypes
<1>3. /\ work' = Enqueue(copied, stream[src], wait) /\ latest' = [latest EXCEPT ![dst] = e]
      /\ recorded' = e /\ calls' = calls + 1 /\ storage[src] = "held" /\ storage[dst] = "held"
      /\ stream' = stream /\ storage' = storage /\ done' = done /\ exposed' = exposed
  BY DEF buffer_copy, Call, throw_if_locked, SourceWaits
<1>4. /\ c \in AccessOps /\ ~ Queued(work, c) /\ \A a \in Accesses(work) : a.n < calls
      /\ c.reads = {src} /\ c.writes = {dst} /\ c.n = calls
  <2>1. {src} \subseteq Buffers /\ {dst} \subseteq Buffers /\ c = Access(calls, {src}, {dst})
    OBVIOUS
  <2> HIDE DEF c
  <2>2. IsNew(work, c, calls, {src}, {dst})
    BY <2>1, <1>1, <1>2, NewAccess
  <2> QED BY <2>2 DEF IsNew
<1>5. e \in Nat /\ ~ Queued(work, Record(e)) /\ e \notin done /\ done \subseteq 0 .. e
  BY <1>1, <1>2, NewRecord
<1> HIDE DEF c, e, l
<1>6. /\ Record(e) \in Ops /\ c \in Ops /\ Wait(l) \in Ops /\ Wait(e) \in Ops
      /\ c # Record(e) /\ Wait(l) # Record(e) /\ Wait(l) # c /\ Wait(l).kind = "wait"
      /\ Wait(e).kind = "wait" /\ Wait(e) \notin AccessOps /\ Wait(l) \notin AccessOps
      /\ \A f \in Nat : Record(f) \in Ops /\ Record(f) # c /\ (Record(f) = Record(e) => f = e)
                        /\ Record(f) # Wait(l) /\ Record(f) # Wait(e)
      /\ AccessOps \subseteq Ops /\ Record(e) \notin AccessOps
  BY <1>2, <1>4, <1>5, OpsAreTyped
<1>7. /\ ops \in Seq(Ops) /\ Len(ops) = 3 /\ ops[1] = Wait(l) /\ ops[2] = c /\ ops[3] = Record(e)
      /\ 1 \in 1 .. Len(ops) /\ 2 \in 1 .. Len(ops) /\ 3 \in 1 .. Len(ops)
      /\ \A k \in 1 .. Len(ops) : k = 1 \/ k = 2 \/ k = 3
  BY <1>6
<1>8. /\ wait \in Seq(Ops) /\ Len(wait) = 1 /\ wait[1] = Wait(e)
      /\ 1 \in 1 .. Len(wait) /\ \A k \in 1 .. Len(wait) : k = 1
  BY <1>6
<1>9. copied = Enqueue(work, s, ops)
  OBVIOUS
<1> HIDE DEF ops, wait, copied
<1>10. /\ copied \in [Streams -> Seq(Ops)] /\ Grows(work, copied)
       /\ \A t \in Streams : \A x \in Ops :
              In(copied, t, x) <=> In(work, t, x) \/ (t = s /\ \E k \in 1 .. Len(ops) : ops[k] = x)
       /\ \A k, m \in 1 .. Len(ops) : k < m => Ahead(copied, ops[k], ops[m])
  <2> HIDE DEF s
  <2>1. Behind(work, s, ops, copied)
    BY <1>2, <1>7, <1>9, EnqueueGrows
  <2> QED BY <2>1 DEF Behind
<1>11. /\ work' \in [Streams -> Seq(Ops)] /\ Grows(copied, work')
       /\ \A t \in Streams : \A x \in Ops :
              In(work', t, x) <=>
                  In(copied, t, x) \/ (t = stream[src] /\ \E k \in 1 .. Len(wait) : wait[k] = x)
  <2>1. Behind(copied, stream[src], wait, work')
    BY <1>2, <1>3, <1>8, <1>10, EnqueueGrows
  <2> QED BY <2>1 DEF Behind
<1>12. Once(work')
  <2> HIDE DEF s
  <2>1. Fresh(work, ops)
    BY <1>4, <1>5, <1>6, <1>7 DEF Fresh
  <2>2. Once(copied)
    BY <2>1, <1>1, <1>2, <1>7, <1>9, EnqueueOnce
  <2>3. Fresh(copied, wait)
    BY <1>6, <1>8 DEF Fresh
  <2> QED BY <2>2, <2>3, <1>2, <1>3, <1>8, <1>10, EnqueueOnce
<1>13. \A x \in Ops : Queued(work', x) <=>
           Queued(work, x) \/ x = c \/ x = Record(e) \/ x = Wait(l) \/ x = Wait(e)
  <2>1. \A x \in Ops : Queued(copied, x) <=> Queued(work, x) \/ x = Wait(l) \/ x = c \/ x = Record(e)
    BY <1>2, <1>7, <1>10 DEF Queued
  <2>2. \A x \in Ops : Queued(work', x) <=> Queued(copied, x) \/ x = Wait(e)
    BY <1>2, <1>8, <1>11 DEF Queued
  <2> QED BY <2>1, <2>2
<1>14. Used(work', calls + 1, e, done)
  <2>1. \A x \in AccessOps : Queued(work', x) => Queued(work, x) \/ x = c
    BY <1>6, <1>13
  <2>2. \A f \in Nat : Queued(work', Record(f)) => Queued(work, Record(f)) \/ f = e
    BY <1>6, <1>13
  <2> QED BY <2>1, <2>2, <1>1, <1>2, <1>4, StillUsed DEF e
<1>15. Accesses(work') = Accesses(work) \cup {c}
  BY <1>4, <1>6, <1>13 DEF Accesses
<1>16. Grows(work, work')
  BY <1>10, <1>11 DEF Grows
<1>17. Ahead(work', Wait(l), c) /\ Ahead(work', c, Record(e)) /\ In(work', s, c)
       /\ In(work', stream[src], Wait(e))
  <2>1. Ahead(copied, Wait(l), c) /\ Ahead(copied, c, Record(e)) /\ In(copied, s, c)
    BY <1>2, <1>6, <1>7, <1>10
  <2> QED BY <2>1, <1>2, <1>6, <1>8, <1>11 DEF Grows
<1>18. \A x \in Accesses(work) : Reaches(work, x, stream[dst]) => Guarded(work', x, c)
  <2>1. \A x \in Accesses(work) : Reaches(work, x, stream[dst]) => Guarded(copied, x, c)
    BY <1>2, <1>4, <1>7, <1>9, ReachGuards DEF Accesses
  <2> QED BY <2>1, <1>4, <1>11, GrowKeeps DEF Accesses
<1>19. \A x \in Accesses(work) : Ahead(work, x, Record(l)) => Guarded(work', x, c)
  BY <1>2, <1>16, <1>17, GrowKeeps DEF Accesses, Guarded
<1>20. latest' \in [Buffers -> Nat] /\ latest'[dst] = e
       /\ \A x \in Buffers : x # dst => latest'[x] = latest[x]
  BY <1>2, <1>3, <1>5
<1>21. OrderInv(work', exposed, stream, latest', storage)
  <2>1. \A x \in Buffers \ c.writes : latest'[x] = latest[x]
    BY <1>4, <1>20
  <2>2. \A x \in Touches(c) : storage[x] # "freed" /\ storage[x] # "locked"
    BY <1>3, <1>4 DEF Touches
  <2>3. \A x \in c.writes : LastWrite(work', c, x, stream[x], latest'[x])
    <3>1. LastWrite(work', c, dst, stream[dst], latest'[dst])
      BY <1>4, <1>17, <1>20 DEF LastWrite, Reaches
    <3> QED BY <3>1, <1>4
  <2>4. \A x \in c.writes, y \in Accesses(work) : Reaches(work, y, stream[x]) => Guarded(work', y, c)
    BY <1>4, <1>18
  <2>5. \A x \in c.reads, y \in Accesses(work) : Ahead(work, y, Record(latest[x])) => Guarded(work', y, c)
    BY <1>4, <1>19 DEF l
  <2>6. \A x \in c.reads : Reaches(work', c, stream[x])
    BY <1>4, <1>5, <1>17 DEF Reaches
  <2>7. Issues(work, work', c, stream, latest, latest', storage, storage)
    BY <2>1, <2>2, <2>3, <2>4, <2>5, <2>6, <1>4, <1>15, <1>16 DEF Issues
  <2> QED
    BY <2>7, <1>1, <1>2, <1>4, Issued
<1>22. BufferTypes'
  BY <1>1, <1>2, <1>3, <1>5, <1>11, <1>20 DEF BufferTypes
<1> QED
  BY <1>3, <1>12, <1>14, <1>21, <1>22 DEF BufferInv, OrderInv

\* A buffer of which a read is pending counts as exposed when it is rebound or locked.
LEMMA Exposing ==
  ASSUME BufferTypes, NEW b \in Buffers, exposed' = IF Read(b) THEN exposed \cup {b} ELSE exposed
  PROVE  /\ exposed \subseteq exposed' /\ exposed' \subseteq exposed \cup {b}
         /\ b \in exposed' \/ \A a \in Accesses(work) : b \notin a.reads
<1>1. Read(b) <=> \E a \in Accesses(work) : b \in a.reads
  BY PendingAccesses DEF Read
<1> QED
  BY <1>1

\* rebind_stream() waits for the latest write of the buffer.
LEMMA RebindStep ==
  ASSUME BufferInv, NEW b \in Buffers, NEW s \in Streams, rebind_stream(b, s)
  PROVE  BufferInv'
<1> DEFINE l == latest[b]
           ops == <<Wait(l)>>
<1>1. BufferTypes /\ Once(work) /\ Used(work, calls, recorded, done)
      /\ OrderInv(work, exposed, stream, latest, storage)
  BY InvParts
<1>2. /\ work \in [Streams -> Seq(Ops)] /\ calls \in Nat /\ l \in Nat
      /\ latest \in [Buffers -> Nat] /\ stream \in [Buffers -> Streams]
  BY <1>1 DEF BufferTypes
<1>3. /\ work' = Enqueue(work, s, ops) /\ stream' = [stream EXCEPT ![b] = s]
      /\ exposed' = (IF Read(b) THEN exposed \cup {b} ELSE exposed)
      /\ calls' = calls + 1
      /\ UNCHANGED <<latest, storage, recorded, done>>
  BY DEF rebind_stream, Call
<1>4. /\ exposed \subseteq exposed' /\ exposed' \subseteq exposed \cup {b}
      /\ b \in exposed' \/ \A a \in Accesses(work) : b \notin a.reads
  BY <1>1, <1>3, Exposing
<1> HIDE DEF l
<1>5. /\ Wait(l) \in Ops /\ Wait(l).kind = "wait" /\ Wait(l) \notin AccessOps
      /\ \A f \in Nat : Record(f) \in Ops /\ Record(f) # Wait(l)
      /\ AccessOps \subseteq Ops
  BY <1>2, OpsAreTyped
<1>6. /\ ops \in Seq(Ops) /\ Len(ops) = 1 /\ ops[1] = Wait(l)
      /\ 1 \in 1 .. Len(ops) /\ \A k \in 1 .. Len(ops) : k = 1
  BY <1>5
<1> HIDE DEF ops
<1>7. /\ work' \in [Streams -> Seq(Ops)] /\ Grows(work, work')
      /\ \A t \in Streams : \A x \in Ops :
             In(work', t, x) <=> In(work, t, x) \/ (t = s /\ \E k \in 1 .. Len(ops) : ops[k] = x)
  <2>1. Behind(work, s, ops, work')
    BY <1>2, <1>3, <1>6, EnqueueGrows
  <2> QED BY <2>1 DEF Behind
<1>8. Once(work')
  <2>1. Fresh(work, ops)
    BY <1>5, <1>6 DEF Fresh
  <2> QED BY <2>1, <1>1, <1>2, <1>3, <1>6, EnqueueOnce
<1>9. /\ \A x \in Ops : Queued(work', x) <=> Queued(work, x) \/ x = Wait(l)
      /\ In(work', s, Wait(l))
  BY <1>5, <1>6, <1>7 DEF Queued
<1>10. Used(work', calls + 1, recorded, done)
  <2>1. \A x \in AccessOps : Queued(work', x) => x.n < calls /\ x.n \in Nat
    BY <1>1, <1>5, <1>9 DEF Used, AccessOps
  <2>2. \A x \in AccessOps : Queued(work', x) => x.n < calls + 1
    BY <2>1, <1>2
  <2>3. \A f \in Nat : Queued(work', Record(f)) => Queued(work, Record(f))
    BY <1>5, <1>9
  <2> QED BY <2>2, <2>3, <1>1 DEF Used
<1>11. Accesses(work') = Accesses(work) /\ Accesses(work) \subseteq AccessOps
  BY <1>5, <1>9 DEF Accesses
<1>12. /\ \A a, x \in AccessOps : Guarded(work, a, x) => Guarded(work', a, x)
       /\ \A a \in AccessOps, t \in Streams : Reaches(work, a, t) => Reaches(work', a, t)
       /\ \A a \in AccessOps, f \in Nat : Ahead(work, a, Record(f)) => Ahead(work', a, Record(f))
  BY <1>7, GrowKeeps
<1>13. \A a \in AccessOps : a.reads \subseteq Buffers /\ a.writes \subseteq Buffers
  BY DEF AccessOps
<1>14. stream' \in [Buffers -> Streams] /\ stream'[b] = s /\ \A x \in Buffers : x # b => stream'[x] = stream[x]
  BY <1>2, <1>3
<1>15. Ordered(work', exposed')
  BY <1>1, <1>4, <1>11, <1>12 DEF Ordered, OrderInv
<1>16. ReadsReach(work', exposed', stream')
  <2> SUFFICES ASSUME NEW a \in Accesses(work), NEW x \in a.reads \ exposed'
               PROVE  Reaches(work', a, stream'[x])
    BY <1>11 DEF ReadsReach
  <2>1. x # b /\ x \in Buffers /\ x \notin exposed /\ a \in AccessOps
    BY <1>4, <1>11, <1>13
  <2>2. Reaches(work, a, stream[x]) /\ stream[x] \in Streams /\ stream'[x] = stream[x]
    BY <2>1, <1>1, <1>2, <1>14 DEF ReadsReach, OrderInv
  <2> QED BY <2>1, <2>2, <1>12
<1>17. WritesReach(work', exposed', stream', latest, storage)
  <2> SUFFICES ASSUME NEW a \in Accesses(work), NEW x \in a.writes \ exposed', storage[x] # "freed"
               PROVE  \E y \in Accesses(work) :
                          Follows(a, y, x) /\ LastWrite(work', y, x, stream'[x], latest[x])
    BY <1>11 DEF WritesReach
  <2>1. x \in Buffers /\ x \notin exposed /\ stream[x] \in Streams /\ latest[x] \in Nat
    BY <1>2, <1>4, <1>11, <1>13
  <2>2. PICK y \in Accesses(work) : Follows(a, y, x) /\ LastWrite(work, y, x, stream[x], latest[x])
    BY <2>1, <1>1 DEF WritesReach, OrderInv
  <2>3. y \in AccessOps /\ x \in y.writes /\ Ahead(work', y, Record(latest[x]))
    BY <2>1, <2>2, <1>11, <1>12 DEF LastWrite
  <2>4. CASE x # b
    <3>1. Reaches(work', y, stream'[x])
      BY <2>1, <2>2, <2>3, <2>4, <1>12, <1>14 DEF LastWrite
    <3> QED BY <2>2, <2>3, <3>1 DEF LastWrite
  <2>5. CASE x = b
    <3>1. Reaches(work', y, s)
      BY <2>1, <2>3, <2>5, <1>9 DEF Reaches, l
    <3> QED BY <2>2, <2>3, <2>5, <3>1, <1>14 DEF LastWrite
  <2> QED BY <2>4, <2>5
<1>18. LockedIsFree(work', exposed', storage)
  BY <1>1, <1>4, <1>11 DEF LockedIsFree, OrderInv
<1>19. BufferTypes'
  BY <1>1, <1>2, <1>3, <1>7, <1>14 DEF BufferTypes
<1> QED
  BY <1>3, <1>8, <1>10, <1>15, <1>16, <1>17, <1>18, <1>19 DEF BufferInv

\* exclusive_data_access(): when the latest write is done, no write is pending.
LEMMA LockStep ==
  ASSUME BufferInv, NEW b \in Buffers, exclusive_data_access(b)
  PROVE  BufferInv'
<1>1. BufferTypes /\ Once(work) /\ Used(work, calls, recorded, done)
      /\ OrderInv(work, exposed, stream, latest, storage)
  BY InvParts
<1>2. /\ calls \in Nat /\ latest \in [Buffers -> Nat]
      /\ storage \in [Buffers -> {"held", "locked", "released", "freed"}]
  BY <1>1 DEF BufferTypes
<1>3. /\ latest[b] \in done /\ storage[b] = "held" /\ storage' = [storage EXCEPT ![b] = "locked"]
      /\ exposed' = (IF Read(b) THEN exposed \cup {b} ELSE exposed)
      /\ calls' = calls + 1
      /\ UNCHANGED <<stream, latest, work, recorded, done>>
  BY DEF exclusive_data_access, is_latest_write_done, throw_if_locked, Call
<1>4. /\ exposed \subseteq exposed' /\ exposed' \subseteq exposed \cup {b}
      /\ b \in exposed' \/ \A a \in Accesses(work) : b \notin a.reads
  BY <1>1, <1>3, Exposing
<1>5. storage'[b] = "locked" /\ \A x \in Buffers : x # b => storage'[x] = storage[x]
  BY <1>2, <1>3
<1>6. \A a \in Accesses(work) : a \in AccessOps /\ a.writes \subseteq Buffers /\ a.reads \subseteq Buffers
  BY DEF Accesses, AccessOps
<1>7. ASSUME NEW a \in Accesses(work), b \in a.writes, b \notin exposed PROVE FALSE
  <2>1. PICK x \in Accesses(work) : LastWrite(work, x, b, stream[b], latest[b])
    BY <1>1, <1>3, <1>7 DEF WritesReach, OrderInv
  <2>2. Queued(work, Record(latest[b]))
    BY <2>1 DEF LastWrite, Ahead, Queued, In
  <2> QED BY <2>2, <1>1, <1>2, <1>3 DEF Used
<1>8. LockedIsFree(work, exposed', storage')
  <2> SUFFICES ASSUME NEW a \in Accesses(work), NEW x \in Touches(a) \ exposed'
               PROVE  storage'[x] # "locked"
    BY DEF LockedIsFree
  <2>1. CASE x = b
    BY <2>1, <1>4, <1>7 DEF Touches
  <2>2. CASE x # b
    <3>1. storage'[x] = storage[x] /\ x \notin exposed
      BY <2>2, <1>4, <1>5, <1>6 DEF Touches
    <3> QED BY <3>1, <1>1 DEF LockedIsFree, OrderInv
  <2> QED BY <2>1, <2>2
<1>9. Ordered(work, exposed') /\ ReadsReach(work, exposed', stream)
  BY <1>1, <1>4 DEF Ordered, ReadsReach, OrderInv
<1>10. WritesReach(work, exposed', stream, latest, storage')
  <2> SUFFICES ASSUME NEW a \in Accesses(work), NEW x \in a.writes \ exposed', storage'[x] # "freed"
               PROVE  \E y \in Accesses(work) :
                          Follows(a, y, x) /\ LastWrite(work, y, x, stream[x], latest[x])
    BY DEF WritesReach
  <2>1. x \notin exposed /\ storage[x] # "freed"
    BY <1>3, <1>4, <1>5, <1>6
  <2> QED BY <2>1, <1>1 DEF WritesReach, OrderInv
<1>11. Used(work, calls + 1, recorded, done)
  <2>1. \A x \in AccessOps : x.n \in Nat
    BY DEF AccessOps
  <2> QED BY <2>1, <1>1, <1>2 DEF Used
<1>12. BufferTypes'
  BY <1>1, <1>2, <1>3 DEF BufferTypes
<1> QED
  BY <1>1, <1>3, <1>8, <1>9, <1>10, <1>11, <1>12 DEF BufferInv

\* unlock() and release().
LEMMA StorageStep ==
  ASSUME BufferInv, NEW b \in Buffers, unlock(b) \/ release_device_buffer(b)
  PROVE  BufferInv'
<1>1. /\ BufferTypes /\ Once(work) /\ Used(work, calls, recorded, done)
      /\ Ordered(work, exposed) /\ ReadsReach(work, exposed, stream)
      /\ WritesReach(work, exposed, stream, latest, storage) /\ LockedIsFree(work, exposed, storage)
  BY DEF BufferInv
<1>2. storage \in [Buffers -> {"held", "locked", "released", "freed"}]
  BY <1>1 DEF BufferTypes
<1>3. /\ storage[b] # "freed"
      /\ \E v \in {"held", "released"} : storage' = [storage EXCEPT ![b] = v]
      /\ UNCHANGED <<stream, latest, work, recorded, done, calls, exposed>>
  BY DEF unlock, release_device_buffer, throw_if_locked
<1>4. /\ storage' \in [Buffers -> {"held", "locked", "released", "freed"}]
      /\ storage'[b] \in {"held", "released"} /\ \A x \in Buffers : x # b => storage'[x] = storage[x]
  BY <1>2, <1>3
<1>5. \A x \in Buffers : /\ storage'[x] # "freed" => storage[x] # "freed"
                         /\ storage'[x] = "locked" => storage[x] = "locked"
  BY <1>3, <1>4
<1>6. \A a \in Accesses(work) : a.writes \subseteq Buffers /\ a.reads \subseteq Buffers
  BY DEF Accesses, AccessOps
<1>7. WritesReach(work, exposed, stream, latest, storage')
  BY <1>1, <1>5, <1>6 DEF WritesReach
<1>8. LockedIsFree(work, exposed, storage')
  BY <1>1, <1>5, <1>6 DEF LockedIsFree, Touches
<1>9. BufferTypes'
  BY <1>1, <1>3, <1>4 DEF BufferTypes
<1> QED
  BY <1>1, <1>3, <1>7, <1>8, <1>9 DEF BufferInv

\* A stream ends its next operation.
LEMMA StreamStep ==
  ASSUME BufferInv, NEW s \in Streams, stream_progress(s)
  PROVE  BufferInv'
<1> DEFINE h == Head(work[s])
<1>1. BufferTypes /\ Once(work) /\ Used(work, calls, recorded, done)
      /\ OrderInv(work, exposed, stream, latest, storage)
  BY InvParts
<1>2. /\ work \in [Streams -> Seq(Ops)] /\ stream \in [Buffers -> Streams]
      /\ latest \in [Buffers -> Nat] /\ recorded \in Nat /\ done \subseteq 0 .. recorded
  BY <1>1 DEF BufferTypes
<1>3. /\ work[s] # <<>> /\ work' = [work EXCEPT ![s] = Tail(@)]
      /\ h.kind = "wait" => h.event \in done
      /\ done' = IF h.kind = "record" THEN done \cup {h.event} ELSE done
      /\ UNCHANGED <<stream, latest, storage, recorded, calls, exposed>>
  BY DEF stream_progress
<1>4. OrderInv(work', exposed, stream, latest, storage)
  BY <1>1, <1>2, <1>3, Ended
<1>5. Popped(work, s, h, work')
  BY <1>2, <1>3, PopKeeps
<1> HIDE DEF h
<1>6. /\ work' \in [Streams -> Seq(Ops)] /\ Once(work')
      /\ \A x \in Ops : Queued(work', x) => Queued(work, x)
      /\ h \in Ops /\ Queued(work, h)
      /\ h.kind # "wait" => ~ Queued(work', h)
  BY <1>1, <1>5 DEF Popped, Queued
<1>7. /\ h.kind = "record" => h.event \in Nat /\ h = Record(h.event)
      /\ \A f \in Nat : Record(f) \in Ops
      /\ AccessOps \subseteq Ops
  BY <1>6, OpsAreTyped
<1>8. h.kind = "record" => h.event \in 0 .. recorded
  BY <1>1, <1>2, <1>6, <1>7 DEF Used
<1>9. done' \subseteq 0 .. recorded
  BY <1>2, <1>3, <1>8
<1>10. Used(work', calls, recorded, done')
  <2>1. \A x \in AccessOps : Queued(work', x) => x.n < calls
    BY <1>1, <1>6, <1>7 DEF Used
  <2>2. ASSUME NEW f \in Nat, Queued(work', Record(f)) PROVE f <= recorded /\ f \notin done'
    <3>1. f <= recorded /\ f \notin done
      BY <2>2, <1>1, <1>6, <1>7 DEF Used
    <3>2. h.kind = "record" => f # h.event
      BY <2>2, <1>6, <1>7
    <3> QED BY <3>1, <3>2, <1>3
  <2> QED BY <2>1, <2>2 DEF Used
<1>11. BufferTypes'
  BY <1>1, <1>2, <1>3, <1>6, <1>9 DEF BufferTypes
<1> QED
  BY <1>3, <1>4, <1>6, <1>10, <1>11 DEF BufferInv, OrderInv

-----------------------------------------------------------------------------

\* Whatever the host calls and the streams do, the order of accesses is kept (buffer.cpp).
THEOREM BufferInvariant == BufferSpec => []BufferInv
<1>1. BufferInit => BufferInv
  BY InitInv
<1>2. BufferInv /\ [BufferNext]_bufferVars => BufferInv'
  <2> SUFFICES ASSUME BufferInv, [BufferNext]_bufferVars PROVE BufferInv'
    OBVIOUS
  <2>1. ASSUME NEW b \in Buffers, write_access(b) PROVE BufferInv'
    BY <2>1, WriteStep
  <2>2. ASSUME NEW b \in Buffers, exclusive_data_access(b) PROVE BufferInv'
    BY <2>2, LockStep
  <2>3. ASSUME NEW b \in Buffers, unlock(b) \/ release_device_buffer(b) PROVE BufferInv'
    BY <2>3, StorageStep
  <2>4. ASSUME NEW b \in Buffers, free(b) PROVE BufferInv'
    BY <2>4, FreeStep
  <2>5. ASSUME NEW b \in Buffers, NEW c \in Buffers, buffer_copy(b, c) PROVE BufferInv'
    BY <2>5, CopyStep
  <2>6. ASSUME NEW b \in Buffers, NEW s \in Streams, rebind_stream(b, s) PROVE BufferInv'
    BY <2>6, RebindStep
  <2>7. ASSUME NEW s \in Streams, stream_progress(s) PROVE BufferInv'
    BY <2>7, StreamStep
  <2>8. CASE UNCHANGED bufferVars
    BY <2>8 DEF bufferVars, BufferInv, BufferTypes
  <2> QED BY <2>1, <2>2, <2>3, <2>4, <2>5, <2>6, <2>7, <2>8 DEF BufferNext
<1> QED
  BY <1>1, <1>2, PTL DEF BufferSpec

\* An access runs when what conflicts with it has ended, and locked memory is not accessed.
LEMMA OrderFollows == BufferInv => AccessesAreOrdered
<1> SUFFICES ASSUME BufferInv PROVE AccessesAreOrdered
  OBVIOUS
<1>1. /\ BufferTypes /\ Once(work) /\ Ordered(work, exposed) /\ LockedIsFree(work, exposed, storage)
      /\ work \in [Streams -> Seq(Ops)]
  BY DEF BufferInv, BufferTypes
<1>2. Pending = Accesses(work)
  BY <1>1, PendingAccesses
<1>3. \A a \in Accesses(work) : a.writes \subseteq Buffers /\ a.reads \subseteq Buffers
  BY DEF Accesses, AccessOps
<1>4. ASSUME NEW op \in Pending, Runs(op), NEW before \in Pending, before.n < op.n,
             NEW b \in (before.writes \cap Touches(op)) \cup (Touches(before) \cap op.writes)
      PROVE  b \in exposed
  <2>1. PICK s \in Streams : work[s] # <<>> /\ Head(work[s]) = op
    BY <1>4 DEF Runs
  <2>2. b \in Buffers /\ Conflicts(before, op, b)
    BY <1>2, <1>3, <1>4 DEF Conflicts, Touches
  <2>3. b \in Buffers \ exposed => ~ Conflicts(before, Head(work[s]), b)
    BY <2>1, <1>1, <1>2, <1>4, HeadIsFirst
  <2> QED BY <2>1, <2>2, <2>3
<1>5. ASSUME NEW op \in Pending, NEW b \in Touches(op) \ exposed PROVE storage[b] # "locked"
  BY <1>1, <1>2 DEF LockedIsFree
<1> QED
  BY <1>4, <1>5 DEF AccessesAreOrdered

(***************************************************************************)
(* For any buffers and streams and any number of calls, data is never read *)
(* before it is written, nor overwritten, freed or touched by the host     *)
(* while an earlier access is pending, except in buffers that were rebound *)
(* or locked while a copy from them was pending: the waits that            *)
(* rebind_stream() and buffer_copy() enqueue are enough.                   *)
(***************************************************************************)
THEOREM AccessOrder == BufferSpec => []AccessesAreOrdered
BY BufferInvariant, OrderFollows, PTL

-----------------------------------------------------------------------------
(* Statistics: the callbacks of the streams and the parts of the invariant. *)


\* The timings whose stop callback is in a queue, and that each is there once.
StopsOf(q) == {q[i][2] : i \in {i \in 1 .. Len(q) : q[i][1] = "stop"}}
StopsOnce(q) == \A i, j \in 1 .. Len(q) :
    q[i][1] = "stop" /\ q[j][1] = "stop" /\ q[i][2] = q[j][2] => i = j

Callback == {"start", "stop"} \X Nat

Flags == {enabled, has_entry, owned, disturbed} \subseteq BOOLEAN

StatisticsTypes ==
    /\ count \in [Names -> Nat]
    /\ uid_counter \in Nat \ {0}
    /\ global_timings \subseteq Nat
    /\ copier \in [Copiers -> {"idle", "copying", "stopped", "counted"}]
    /\ uid \in [Copiers -> Nat]
    /\ callbacks \in [Copiers -> Seq(Callback)]
    /\ in_callback \in [Copiers -> {"none", "time", "delay"}]

\* Timings have numbers of their own, in the threads and in the callbacks.
UidsDiffer(ui, n) ==
    /\ \A t \in Copiers : ui[t] < n
    /\ \A t, v \in Copiers : ui[t] = ui[v] /\ ui[t] # 0 => t = v
StopsDiffer(cb, n) ==
    /\ \A t \in Copiers : StopsOnce(cb[t]) /\ StopsOf(cb[t]) \subseteq 1 .. n - 1
    /\ \A t, v \in Copiers : StopsOf(cb[t]) \cap StopsOf(cb[v]) # {} => t = v
\* A thread that is copying has not stopped its timing.
StopComes(cb, ui, co) ==
    \A t, v \in Copiers : co[v] = "copying" => ui[v] \notin StopsOf(cb[t])

\* The callback that a stream is in, and what it has taken.
CurrentTimings(q, ic) == IF ic = "none" THEN {} ELSE {q[1][2]}
CallbackInv(cb, ic) == \A t \in Copiers : ic[t] # "none" => cb[t] # <<>> /\ cb[t][1][1] = "stop"

\* The others find their timing, unless the statistics are destroyed.
TimingsInv(cb, ic, gt, ui, co) ==
    \A t \in Copiers : /\ StopsOf(cb[t]) \ CurrentTimings(cb[t], ic[t]) \subseteq gt
                       /\ co[t] = "copying" /\ ui[t] # 0 => ui[t] \in gt

\* Unless disturbed, what is on its way was started as statistics are enabled now.
EnabledInv ==
    \A t \in Copiers : /\ copier[t] # "idle" => (uid[t] # 0 <=> enabled)
                       /\ ~ enabled => callbacks[t] = <<>>

\* Timings of which the bytes, the delay and only the delay are still to be counted.
NoBytes(ui, co) == {ui[t] : t \in {t \in Copiers : co[t] = "stopped" /\ ui[t] # 0}}
NoDelay(cb) == UNION {StopsOf(cb[t]) : t \in Copiers}
OnlyDelay(cb, ic) == {cb[t][1][2] : t \in {t \in Copiers : ic[t] = "delay"}}

Balance(n, ui, co, cb, ic) ==
    /\ n["bytes"] + Cardinality(NoBytes(ui, co)) = n["stream-delay"] + Cardinality(NoDelay(cb))
    /\ n["time"] = n["stream-delay"] + Cardinality(OnlyDelay(cb, ic))

StatisticsInv ==
    /\ Flags /\ StatisticsTypes
    /\ UidsDiffer(uid, uid_counter)
    /\ StopsDiffer(callbacks, uid_counter)
    /\ StopComes(callbacks, uid, copier)
    /\ CallbackInv(callbacks, in_callback)
    /\ Destroyed => global_timings = {}
    /\ ~ Destroyed => TimingsInv(callbacks, in_callback, global_timings, uid, copier)
    /\ ~ disturbed => EnabledInv
    /\ ~ disturbed /\ ~ Destroyed => Balance(count, uid, copier, callbacks, in_callback)

-----------------------------------------------------------------------------
(* Queues of callbacks. *)

\* A timing has a stop callback in the queue.
LEMMA StopsMember ==
  ASSUME NEW q \in Seq(Callback)
  PROVE  /\ \A u : u \in StopsOf(q) <=> \E i \in 1 .. Len(q) : q[i][1] = "stop" /\ q[i][2] = u
         /\ StopsOf(q) \subseteq Nat
BY DEF StopsOf, Callback

\* q2 is q with a callback of the timing u at its end, or without the one at its front.
PushedOn(q, k, u, q2) ==
    /\ q2 \in Seq(Callback) /\ q2 # <<>> /\ StopsOnce(q2)
    /\ q # <<>> => q2[1] = q[1]
    /\ k = "start" => StopsOf(q2) = StopsOf(q)
    /\ k = "stop" => StopsOf(q2) = StopsOf(q) \cup {u}
PoppedOff(q, k, u, q2) ==
    /\ q2 \in Seq(Callback) /\ StopsOnce(q2) /\ u \in Nat
    /\ k = "start" => StopsOf(q2) = StopsOf(q)
    /\ k = "stop" => StopsOf(q2) = StopsOf(q) \ {u} /\ u \in StopsOf(q)

LEMMA PushCallback ==
  ASSUME NEW q \in Seq(Callback), NEW k \in {"start", "stop"}, NEW u \in Nat,
         NEW q2, q2 = Append(q, <<k, u>>), StopsOnce(q), u \notin StopsOf(q)
  PROVE  PushedOn(q, k, u, q2)
<1> DEFINE x == <<k, u>>
<1>1. x \in Callback /\ x[1] = k /\ x[2] = u
  BY DEF Callback
<1>2. q2 = Append(q, x)
  OBVIOUS
<1> HIDE DEF x
<1>3. /\ q2 \in Seq(Callback) /\ Len(q2) = Len(q) + 1 /\ Len(q) \in Nat /\ q2[Len(q) + 1] = x
      /\ \A i \in 1 .. Len(q) : q2[i] = q[i]
  BY <1>1, <1>2
<1>4. \A i \in 1 .. Len(q2) : i \in 1 .. Len(q) \/ i = Len(q) + 1
  BY <1>3
<1>5. \A i \in 1 .. Len(q) : i \in 1 .. Len(q2)
  BY <1>3
<1>6. Len(q) + 1 \in 1 .. Len(q2)
  BY <1>3
<1>7. \A v : v \in StopsOf(q2) <=> v \in StopsOf(q) \/ (k = "stop" /\ v = u)
  <2>1. \A v : v \in StopsOf(q) <=> \E i \in 1 .. Len(q) : q[i][1] = "stop" /\ q[i][2] = v
    BY StopsMember
  <2>2. \A v : v \in StopsOf(q2) <=> \E i \in 1 .. Len(q2) : q2[i][1] = "stop" /\ q2[i][2] = v
    BY <1>3, StopsMember
  <2>3. ASSUME NEW v, v \in StopsOf(q2) PROVE v \in StopsOf(q) \/ (k = "stop" /\ v = u)
    <3>1. PICK i \in 1 .. Len(q2) : q2[i][1] = "stop" /\ q2[i][2] = v
      BY <2>2, <2>3, Zenon
    <3>2. CASE i \in 1 .. Len(q)
      BY <2>1, <3>1, <3>2, <1>3, Zenon
    <3>3. CASE i = Len(q) + 1
      BY <3>1, <3>3, <1>1, <1>3, Zenon
    <3> QED BY <3>2, <3>3, <1>4, Zenon
  <2>4. ASSUME NEW v, v \in StopsOf(q) PROVE v \in StopsOf(q2)
    <3>1. PICK i \in 1 .. Len(q) : q[i][1] = "stop" /\ q[i][2] = v
      BY <2>1, <2>4, Zenon
    <3>2. q2[i] = q[i] /\ i \in 1 .. Len(q2)
      BY <1>3, <1>5, Zenon
    <3>3. q2[i][1] = "stop" /\ q2[i][2] = v
      BY <3>1, <3>2
    <3> QED BY <2>2, <3>2, <3>3, Zenon
  <2>5. k = "stop" => u \in StopsOf(q2)
    <3>1. q2[Len(q) + 1][1] = k /\ q2[Len(q) + 1][2] = u
      BY <1>1, <1>3
    <3> QED BY <2>2, <3>1, <1>6, Zenon
  <2> QED BY <2>3, <2>4, <2>5
<1>8. StopsOnce(q2)
  <2> SUFFICES ASSUME NEW i \in 1 .. Len(q2), NEW j \in 1 .. Len(q2),
                      q2[i][1] = "stop", q2[j][1] = "stop", q2[i][2] = q2[j][2]
               PROVE  i = j
    BY DEF StopsOnce
  <2>1. \A m \in 1 .. Len(q) : q[m][1] = "stop" => q[m][2] # u
    BY StopsMember
  <2>2. CASE i \in 1 .. Len(q) /\ j \in 1 .. Len(q)
    BY <2>2, <1>3 DEF StopsOnce
  <2>3. CASE i \in 1 .. Len(q) /\ j = Len(q) + 1
    BY <2>1, <2>3, <1>1, <1>3
  <2>4. CASE j \in 1 .. Len(q) /\ i = Len(q) + 1
    BY <2>1, <2>4, <1>1, <1>3
  <2> QED BY <2>2, <2>3, <2>4, <1>4
<1>9. q2 # <<>> /\ (q # <<>> => q2[1] = q[1])
  BY <1>3
<1> QED
  BY <1>3, <1>7, <1>8, <1>9 DEF PushedOn

LEMMA PopCallback ==
  ASSUME NEW q \in Seq(Callback), q # <<>>, NEW q2, q2 = Tail(q), StopsOnce(q)
  PROVE  PoppedOff(q, q[1][1], q[1][2], q2)
<1>1. /\ q2 \in Seq(Callback) /\ Len(q) \in Nat /\ Len(q) > 0 /\ Len(q2) = Len(q) - 1
      /\ \A i \in 1 .. Len(q) - 1 : q2[i] = q[i + 1]
  OBVIOUS
<1>2. 1 \in 1 .. Len(q) /\ q[1] \in Callback
  BY <1>1
<1>3. \A i \in 1 .. Len(q2) : i + 1 \in 1 .. Len(q) /\ q2[i] = q[i + 1] /\ i + 1 # 1
  BY <1>1
<1>4. \A i \in 1 .. Len(q) : i # 1 => i - 1 \in 1 .. Len(q2) /\ q2[i - 1] = q[i]
  BY <1>1
<1>5. \A v : v \in StopsOf(q) <=> \E i \in 1 .. Len(q) : q[i][1] = "stop" /\ q[i][2] = v
  BY StopsMember
<1>6. \A v : v \in StopsOf(q2) <=> \E i \in 1 .. Len(q2) : q2[i][1] = "stop" /\ q2[i][2] = v
  BY <1>1, StopsMember
<1>7. \A v \in StopsOf(q2) : v \in StopsOf(q)
  BY <1>3, <1>5, <1>6
<1>8. ASSUME NEW v \in StopsOf(q), q[1][1] = "stop" => v # q[1][2] PROVE v \in StopsOf(q2)
  <2>1. PICK i \in 1 .. Len(q) : q[i][1] = "stop" /\ q[i][2] = v
    BY <1>5
  <2>2. i # 1
    BY <2>1, <1>8
  <2> QED BY <2>1, <2>2, <1>4, <1>6
<1>9. ASSUME q[1][1] = "stop" PROVE q[1][2] \notin StopsOf(q2)
  <2> SUFFICES ASSUME NEW i \in 1 .. Len(q2), q2[i][1] = "stop", q2[i][2] = q[1][2] PROVE FALSE
    BY <1>6
  <2>1. i + 1 \in 1 .. Len(q) /\ q[i + 1][1] = "stop" /\ q[i + 1][2] = q[1][2] /\ i + 1 # 1
    BY <1>3
  <2> QED BY <2>1, <1>2, <1>9 DEF StopsOnce
<1>10. StopsOnce(q2)
  <2> SUFFICES ASSUME NEW i \in 1 .. Len(q2), NEW j \in 1 .. Len(q2),
                      q2[i][1] = "stop", q2[j][1] = "stop", q2[i][2] = q2[j][2]
               PROVE  i = j
    BY DEF StopsOnce
  <2>1. i + 1 = j + 1
    BY <1>3 DEF StopsOnce
  <2> QED BY <2>1
<1>11. q[1][1] = "stop" => q[1][2] \in StopsOf(q)
  BY <1>2, <1>5
<1>12. q[1][2] \in Nat /\ q[1][1] \in {"start", "stop"}
  BY <1>2 DEF Callback
<1> QED
  BY <1>1, <1>7, <1>8, <1>9, <1>10, <1>11, <1>12 DEF PoppedOff

\* Counting timings, whose numbers are bounded.
LEMMA CountTimings ==
  ASSUME NEW n \in Nat, NEW S, S \subseteq 1 .. n, NEW u \in Nat
  PROVE  /\ Cardinality(S) \in Nat /\ IsFiniteSet(S)
         /\ u \notin S => Cardinality(S \cup {u}) = Cardinality(S) + 1
         /\ u \in S => Cardinality(S \ {u}) = Cardinality(S) - 1
<1>1. IsFiniteSet(S)
  <2>1. 1 \in Int /\ n \in Int
    OBVIOUS
  <2>2. IsFiniteSet(1 .. n)
    BY <2>1, FS_Interval
  <2> QED BY <2>2, FS_Subset
<1> QED
  BY <1>1, FS_CardinalityType, FS_AddElement, FS_RemoveElement

-----------------------------------------------------------------------------
(* What the parts of the invariant have to say about each other. *)

Gone(ow, co, ic) == ~ ow /\ \A t \in Copiers : co[t] = "idle" /\ ic[t] = "none"

LEMMA DestroyedIsGone ==
  /\ Destroyed <=> Gone(owned, copier, in_callback)
  /\ Destroyed' <=> Gone(owned', copier', in_callback')
BY DEF Destroyed, Holders, Gone

\* Everything that is counted has a number that has been given.
LEMMA CountedAreGiven ==
  ASSUME StatisticsTypes, UidsDiffer(uid, uid_counter), StopsDiffer(callbacks, uid_counter),
         CallbackInv(callbacks, in_callback)
  PROVE  /\ NoBytes(uid, copier) \subseteq 1 .. uid_counter - 1
         /\ NoDelay(callbacks) \subseteq 1 .. uid_counter - 1
         /\ OnlyDelay(callbacks, in_callback) \subseteq NoDelay(callbacks)
         /\ uid_counter - 1 \in Nat
<1>1. uid_counter \in Nat \ {0} /\ uid \in [Copiers -> Nat] /\ callbacks \in [Copiers -> Seq(Callback)]
  BY DEF StatisticsTypes
<1>2. NoBytes(uid, copier) \subseteq 1 .. uid_counter - 1
  BY <1>1 DEF NoBytes, UidsDiffer
<1>3. NoDelay(callbacks) \subseteq 1 .. uid_counter - 1
  BY DEF NoDelay, StopsDiffer
<1>4. OnlyDelay(callbacks, in_callback) \subseteq NoDelay(callbacks)
  <2> SUFFICES ASSUME NEW t \in Copiers, in_callback[t] = "delay"
               PROVE  callbacks[t][1][2] \in StopsOf(callbacks[t])
    BY DEF OnlyDelay, NoDelay
  <2>1. callbacks[t] # <<>> /\ callbacks[t][1][1] = "stop" /\ callbacks[t] \in Seq(Callback)
    BY <1>1 DEF CallbackInv
  <2>2. 1 \in 1 .. Len(callbacks[t])
    BY <2>1
  <2> QED BY <2>1, <2>2, StopsMember
<1> QED
  BY <1>1, <1>2, <1>3, <1>4

\* cb2 has the same stop callbacks as cb, and streams are in the same ones.
SameStops(cb, cb2, ic) ==
    /\ \A t \in Copiers : StopsOf(cb2[t]) = StopsOf(cb[t]) /\ StopsOnce(cb2[t])
    /\ \A t \in Copiers : ic[t] # "none" => cb2[t] # <<>> /\ cb2[t][1] = cb[t][1]

LEMMA SameStopsKeep ==
  ASSUME NEW cb, NEW cb2, NEW ic, SameStops(cb, cb2, ic),
         NEW n \in Nat, NEW m \in Nat, n <= m, StopsDiffer(cb, n), CallbackInv(cb, ic)
  PROVE  /\ StopsDiffer(cb2, m) /\ CallbackInv(cb2, ic)
         /\ NoDelay(cb2) = NoDelay(cb) /\ OnlyDelay(cb2, ic) = OnlyDelay(cb, ic)
         /\ \A t \in Copiers : CurrentTimings(cb2[t], ic[t]) = CurrentTimings(cb[t], ic[t])
<1>1. StopsDiffer(cb2, m)
  <2>1. \A t \in Copiers : StopsOf(cb2[t]) \subseteq 1 .. m - 1
    BY DEF SameStops, StopsDiffer
  <2> QED BY <2>1 DEF SameStops, StopsDiffer
<1>2. CallbackInv(cb2, ic)
  BY DEF SameStops, CallbackInv
<1>3. NoDelay(cb2) = NoDelay(cb)
  BY DEF SameStops, NoDelay
<1>4. OnlyDelay(cb2, ic) = OnlyDelay(cb, ic)
  <2>1. \A t \in Copiers : ic[t] = "delay" => cb2[t][1][2] = cb[t][1][2]
    BY DEF SameStops
  <2> QED BY <2>1 DEF OnlyDelay
<1>5. \A t \in Copiers : CurrentTimings(cb2[t], ic[t]) = CurrentTimings(cb[t], ic[t])
  BY DEF SameStops, CurrentTimings
<1> QED BY <1>1, <1>2, <1>3, <1>4, <1>5

\* Initially nothing is counted, and nothing on its way.
LEMMA StatisticsInitInv == StatisticsInit => StatisticsInv
<1> SUFFICES ASSUME StatisticsInit PROVE StatisticsInv
  OBVIOUS
<1>1. /\ enabled \in BOOLEAN /\ has_entry = FALSE /\ owned = TRUE /\ disturbed = FALSE
      /\ count = [n \in Names |-> 0] /\ global_timings = {} /\ uid_counter = 1
      /\ copier = [t \in Copiers |-> "idle"] /\ uid = [t \in Copiers |-> 0]
      /\ callbacks = [t \in Copiers |-> <<>>] /\ in_callback = [t \in Copiers |-> "none"]
  BY DEF StatisticsInit
<1>2. Flags
  BY <1>1, Zenon DEF Flags
<1>13. StatisticsTypes
  <2>1. <<>> \in Seq(Callback)
    OBVIOUS
  <2> QED BY <2>1, <1>1 DEF StatisticsTypes
<1>3. \A t \in Copiers : copier[t] = "idle" /\ uid[t] = 0 /\ callbacks[t] = <<>> /\ in_callback[t] = "none"
  BY <1>1
<1>4. StopsOf(<<>>) = {} /\ StopsOnce(<<>>)
  BY DEF StopsOf, StopsOnce
<1>5. \A t \in Copiers : StopsOf(callbacks[t]) = {} /\ StopsOnce(callbacks[t])
  BY <1>3, <1>4
<1>6. NoBytes(uid, copier) = {} /\ NoDelay(callbacks) = {} /\ OnlyDelay(callbacks, in_callback) = {}
  BY <1>3, <1>5 DEF NoBytes, NoDelay, OnlyDelay
<1>7. Cardinality({}) = 0
  BY FS_EmptySet
<1>8. Balance(count, uid, copier, callbacks, in_callback)
  <2>1. count["bytes"] = 0 /\ count["time"] = 0 /\ count["stream-delay"] = 0
    BY <1>1 DEF Names
  <2> QED BY <2>1, <1>6, <1>7 DEF Balance
<1>9. ~ Destroyed
  BY <1>1 DEF Destroyed
<1>10. UidsDiffer(uid, uid_counter) /\ StopsDiffer(callbacks, uid_counter) /\ StopComes(callbacks, uid, copier)
  BY <1>1, <1>3, <1>5 DEF UidsDiffer, StopsDiffer, StopComes
<1>11. CallbackInv(callbacks, in_callback) /\ EnabledInv
  BY <1>3 DEF CallbackInv, EnabledInv
<1>12. TimingsInv(callbacks, in_callback, global_timings, uid, copier)
  BY <1>3, <1>5 DEF TimingsInv
<1> QED
  BY <1>2, <1>8, <1>9, <1>10, <1>11, <1>12, <1>13 DEF StatisticsInv

\* The parts for a state, to be used in the steps.
LEMMA StatisticsParts ==
  ASSUME StatisticsInv
  PROVE  /\ StatisticsTypes /\ UidsDiffer(uid, uid_counter) /\ StopsDiffer(callbacks, uid_counter)
         /\ StopComes(callbacks, uid, copier) /\ CallbackInv(callbacks, in_callback)
         /\ count \in [Names -> Nat] /\ uid_counter \in Nat \ {0} /\ global_timings \subseteq Nat
         /\ copier \in [Copiers -> {"idle", "copying", "stopped", "counted"}]
         /\ uid \in [Copiers -> Nat] /\ callbacks \in [Copiers -> Seq(Callback)]
         /\ in_callback \in [Copiers -> {"none", "time", "delay"}]
BY DEF StatisticsInv, StatisticsTypes

-----------------------------------------------------------------------------
(* The copying threads. *)

\* A copy starts: its timing gets a number of its own, if statistics are enabled.
LEMMA StartStep ==
  ASSUME StatisticsInv, NEW t \in Copiers, timing_start(t)
  PROVE  StatisticsInv'
<1>1. /\ StatisticsTypes /\ UidsDiffer(uid, uid_counter) /\ StopsDiffer(callbacks, uid_counter)
      /\ StopComes(callbacks, uid, copier) /\ CallbackInv(callbacks, in_callback)
      /\ uid_counter \in Nat \ {0} /\ global_timings \subseteq Nat
      /\ copier \in [Copiers -> {"idle", "copying", "stopped", "counted"}]
      /\ uid \in [Copiers -> Nat] /\ callbacks \in [Copiers -> Seq(Callback)]
  BY StatisticsParts
<1>2. /\ copier[t] = "idle" /\ owned /\ copier' = [copier EXCEPT ![t] = "copying"]
      /\ UNCHANGED <<enabled, count, has_entry, owned, in_callback, resets, disturbed>>
  BY DEF timing_start
<1>3. ~ Destroyed /\ ~ Destroyed'
  BY <1>2 DEF Destroyed
<1>4. copier'[t] = "copying" /\ \A v \in Copiers : v # t => copier'[v] = copier[v]
  BY <1>1, <1>2
<1>5. /\ TimingsInv(callbacks, in_callback, global_timings, uid, copier)
      /\ ~ disturbed => EnabledInv /\ Balance(count, uid, copier, callbacks, in_callback)
  BY <1>3 DEF StatisticsInv
<1> DEFINE u == IF enabled THEN uid_counter ELSE 0
<1>6. /\ uid' = [uid EXCEPT ![t] = u] /\ uid_counter' \in Nat \ {0} /\ uid_counter <= uid_counter'
      /\ u < uid_counter' /\ u \in Nat /\ (u # 0 <=> enabled) /\ (u # 0 => u = uid_counter)
      /\ global_timings \subseteq global_timings' /\ global_timings' \subseteq Nat
      /\ u # 0 => u \in global_timings'
  <2>1. CASE enabled
    <3>1. u = uid_counter
      BY <2>1
    <3>2. /\ uid' = [uid EXCEPT ![t] = uid_counter] /\ uid_counter' = uid_counter + 1
          /\ global_timings' = global_timings \cup {uid_counter}
      BY <2>1 DEF timing_start
    <3> HIDE DEF u
    <3>3. u # 0 /\ u \in Nat /\ u < uid_counter' /\ uid_counter <= uid_counter' /\ uid_counter' \in Nat \ {0}
      BY <3>1, <3>2, <1>1
    <3> QED BY <2>1, <3>1, <3>2, <3>3, <1>1
  <2>2. CASE ~ enabled
    <3>1. u = 0
      BY <2>2
    <3>2. /\ uid' = [uid EXCEPT ![t] = 0] /\ uid_counter' = uid_counter
          /\ global_timings' = global_timings
      BY <2>2 DEF timing_start
    <3> HIDE DEF u
    <3> QED BY <2>2, <3>1, <3>2, <1>1
  <2> QED BY <2>1, <2>2
<1>7. /\ callbacks' \in [Copiers -> Seq(Callback)]
      /\ SameStops(callbacks, callbacks', in_callback)
      /\ ~ enabled => callbacks' = callbacks
  <2>1. CASE enabled
    <3>1. callbacks' = [callbacks EXCEPT ![t] = Append(@, <<"start", uid_counter>>)]
      BY <2>1 DEF timing_start
    <3> DEFINE q2 == Append(callbacks[t], <<"start", uid_counter>>)
    <3>2. callbacks[t] \in Seq(Callback) /\ StopsOnce(callbacks[t]) /\ uid_counter \notin StopsOf(callbacks[t])
      BY <1>1 DEF StopsDiffer
    <3>3. q2 \in Seq(Callback) /\ q2 # <<>> /\ StopsOnce(q2) /\ StopsOf(q2) = StopsOf(callbacks[t])
          /\ (callbacks[t] # <<>> => q2[1] = callbacks[t][1])
      <4>1. PushedOn(callbacks[t], "start", uid_counter, q2)
        BY <3>2, <1>1, PushCallback
      <4> HIDE DEF q2
      <4> QED BY <4>1 DEF PushedOn
    <3> HIDE DEF q2
    <3>4. callbacks' = [callbacks EXCEPT ![t] = q2]
      BY <3>1 DEF q2
    <3>5. callbacks'[t] = q2 /\ \A v \in Copiers : v # t => callbacks'[v] = callbacks[v]
      BY <3>4, <1>1
    <3>6. SameStops(callbacks, callbacks', in_callback)
      BY <3>3, <3>5, <1>1 DEF SameStops, StopsDiffer, CallbackInv
    <3> QED BY <2>1, <3>3, <3>4, <3>6, <1>1
  <2>2. CASE ~ enabled
    <3>1. callbacks' = callbacks
      BY <2>2 DEF timing_start
    <3> QED BY <3>1, <1>1 DEF SameStops, StopsDiffer, CallbackInv
  <2> QED BY <2>1, <2>2
<1> HIDE DEF u
<1>8. uid'[t] = u /\ uid' \in [Copiers -> Nat] /\ \A v \in Copiers : v # t => uid'[v] = uid[v]
  BY <1>1, <1>6
<1>9. UidsDiffer(uid', uid_counter')
  <2>1. \A v \in Copiers : uid[v] < uid_counter /\ uid[v] \in Nat
    BY <1>1 DEF UidsDiffer
  <2>2. \A v \in Copiers : uid'[v] < uid_counter'
    BY <2>1, <1>1, <1>6, <1>8
  <2>3. \A v, x \in Copiers : uid'[v] = uid'[x] /\ uid'[v] # 0 => v = x
    BY <2>1, <1>1, <1>6, <1>8 DEF UidsDiffer
  <2> QED BY <2>2, <2>3 DEF UidsDiffer
<1>10. /\ StopsDiffer(callbacks', uid_counter') /\ CallbackInv(callbacks', in_callback)
       /\ NoDelay(callbacks') = NoDelay(callbacks)
       /\ OnlyDelay(callbacks', in_callback) = OnlyDelay(callbacks, in_callback)
       /\ \A v \in Copiers : CurrentTimings(callbacks'[v], in_callback[v]) = CurrentTimings(callbacks[v], in_callback[v])
  BY <1>1, <1>6, <1>7, SameStopsKeep, ZenonT(40)
<1>11. \A v \in Copiers : StopsOf(callbacks'[v]) = StopsOf(callbacks[v])
  BY <1>7 DEF SameStops
<1>12. StopComes(callbacks', uid', copier')
  <2> SUFFICES ASSUME NEW v \in Copiers, NEW x \in Copiers, copier'[x] = "copying"
               PROVE  uid'[x] \notin StopsOf(callbacks[v])
    BY <1>11 DEF StopComes
  <2>1. CASE x = t
    <3>1. StopsOf(callbacks[v]) \subseteq 1 .. uid_counter - 1
      BY <1>1 DEF StopsDiffer
    <3>2. u \notin 1 .. uid_counter - 1
      BY <1>1, <1>6
    <3> QED BY <2>1, <3>1, <3>2, <1>8
  <2>2. CASE x # t
    BY <2>2, <1>1, <1>4, <1>8 DEF StopComes
  <2> QED BY <2>1, <2>2
<1>13. TimingsInv(callbacks', in_callback, global_timings', uid', copier')
  <2> SUFFICES ASSUME NEW v \in Copiers
               PROVE  /\ StopsOf(callbacks[v]) \ CurrentTimings(callbacks[v], in_callback[v]) \subseteq global_timings'
                      /\ copier'[v] = "copying" /\ uid'[v] # 0 => uid'[v] \in global_timings'
    BY <1>10, <1>11 DEF TimingsInv
  <2>1. StopsOf(callbacks[v]) \ CurrentTimings(callbacks[v], in_callback[v]) \subseteq global_timings'
    BY <1>5, <1>6 DEF TimingsInv
  <2>2. CASE v = t
    BY <2>1, <2>2, <1>6, <1>8
  <2>3. CASE v # t
    <3>1. copier[v] = "copying" /\ uid[v] # 0 => uid[v] \in global_timings
      BY <1>5 DEF TimingsInv
    <3> QED BY <2>1, <2>3, <3>1, <1>4, <1>6, <1>8
  <2> QED BY <2>2, <2>3
<1>14. ASSUME ~ disturbed PROVE EnabledInv'
  <2> SUFFICES ASSUME NEW v \in Copiers
               PROVE  /\ copier'[v] # "idle" => (uid'[v] # 0 <=> enabled)
                      /\ ~ enabled => callbacks'[v] = <<>>
    BY <1>2 DEF EnabledInv
  <2>1. /\ copier[v] # "idle" => (uid[v] # 0 <=> enabled)
        /\ ~ enabled => callbacks[v] = <<>>
    BY <1>5, <1>14 DEF EnabledInv
  <2>2. ~ enabled => callbacks'[v] = <<>>
    BY <2>1, <1>7
  <2>3. copier'[v] # "idle" => (uid'[v] # 0 <=> enabled)
    BY <2>1, <1>4, <1>6, <1>8
  <2> QED BY <2>2, <2>3
<1>15. NoBytes(uid', copier') = NoBytes(uid, copier)
  <2>1. \A v \in Copiers : copier'[v] = "stopped" <=> copier[v] = "stopped"
    BY <1>2, <1>4
  <2>2. \A v \in Copiers : copier[v] = "stopped" => uid'[v] = uid[v]
    BY <1>2, <1>8
  <2> QED BY <2>1, <2>2 DEF NoBytes
<1>16. ASSUME ~ disturbed PROVE Balance(count, uid', copier', callbacks', in_callback)
  BY <1>5, <1>10, <1>15, <1>16 DEF Balance
<1>17. Flags'
  BY <1>2 DEF Flags, StatisticsInv
<1>18. StatisticsTypes'
  <2>1. copier' \in [Copiers -> {"idle", "copying", "stopped", "counted"}]
    BY <1>1, <1>2
  <2> QED BY <2>1, <1>1, <1>2, <1>6, <1>7, <1>8 DEF StatisticsTypes
<1> QED
  BY <1>2, <1>3, <1>9, <1>10, <1>12, <1>13, <1>14, <1>16, <1>17, <1>18 DEF StatisticsInv

\* A thread goes on to k, or ends its copy; and what that does to the bytes to be counted.
Moved(co, t, k, co2, ui) ==
    /\ co2 \in [Copiers -> {"idle", "copying", "stopped", "counted"}]
    /\ co2[t] = k /\ \A v \in Copiers : v # t => co2[v] = co[v]
    /\ \A v \in Copiers : co2[v] = "copying" => co[v] = "copying"
    /\ (co[t] # "stopped" /\ k # "stopped") \/ ui[t] = 0 => NoBytes(ui, co2) = NoBytes(ui, co)
    /\ co[t] = "stopped" /\ k # "stopped" /\ ui[t] # 0 =>
           NoBytes(ui, co2) = NoBytes(ui, co) \ {ui[t]} /\ ui[t] \in NoBytes(ui, co)
    /\ co[t] = "copying" /\ k = "stopped" /\ ui[t] # 0 =>
           NoBytes(ui, co2) = NoBytes(ui, co) \cup {ui[t]} /\ ui[t] \notin NoBytes(ui, co)

LEMMA MoveKeeps ==
  ASSUME NEW co \in [Copiers -> {"idle", "copying", "stopped", "counted"}], NEW t \in Copiers,
         NEW k \in {"idle", "stopped", "counted"}, NEW co2, co2 = [co EXCEPT ![t] = k],
         NEW ui, NEW n, UidsDiffer(ui, n)
  PROVE  Moved(co, t, k, co2, ui)
<1>1. /\ co2 \in [Copiers -> {"idle", "copying", "stopped", "counted"}]
      /\ co2[t] = k /\ \A v \in Copiers : v # t => co2[v] = co[v]
  OBVIOUS
<1>2. \A v \in Copiers : co2[v] = "copying" => co[v] = "copying"
  BY <1>1
<1>5. \A v \in Copiers : ui[v] = ui[t] /\ ui[v] # 0 => v = t
  BY DEF UidsDiffer
<1>6. /\ co[t] # "stopped" /\ k # "stopped" => NoBytes(ui, co2) = NoBytes(ui, co)
      /\ ui[t] = 0 => NoBytes(ui, co2) = NoBytes(ui, co)
  BY <1>1 DEF NoBytes
<1>7. ASSUME co[t] = "stopped", k # "stopped", ui[t] # 0
      PROVE  NoBytes(ui, co2) = NoBytes(ui, co) \ {ui[t]} /\ ui[t] \in NoBytes(ui, co)
  BY <1>1, <1>5, <1>7 DEF NoBytes
<1>8. ASSUME co[t] = "copying", k = "stopped", ui[t] # 0
      PROVE  NoBytes(ui, co2) = NoBytes(ui, co) \cup {ui[t]} /\ ui[t] \notin NoBytes(ui, co)
  BY <1>1, <1>5, <1>8 DEF NoBytes
<1> QED
  BY <1>1, <1>2, <1>6, <1>7, <1>8 DEF Moved

\* What the other parts say of threads that are copying stays true.
LEMMA MovedKeeps ==
  ASSUME NEW co, NEW co2, \A v \in Copiers : co2[v] = "copying" => co[v] = "copying"
  PROVE  /\ \A cb, ui : StopComes(cb, ui, co) => StopComes(cb, ui, co2)
         /\ \A cb, ic, gt, ui : TimingsInv(cb, ic, gt, ui, co) => TimingsInv(cb, ic, gt, ui, co2)
BY DEF StopComes, TimingsInv

\* A copy that fails, or is recorded completely, leaves its thread idle.
LEMMA EndStep ==
  ASSUME StatisticsInv, NEW t \in Copiers, copy_fails(t) \/ add_report_entry(t)
  PROVE  StatisticsInv'
<1>1. /\ StatisticsTypes /\ UidsDiffer(uid, uid_counter) /\ StopsDiffer(callbacks, uid_counter)
      /\ StopComes(callbacks, uid, copier) /\ CallbackInv(callbacks, in_callback)
      /\ copier \in [Copiers -> {"idle", "copying", "stopped", "counted"}]
      /\ global_timings \subseteq Nat
  BY StatisticsParts
<1>2. /\ copier[t] \in {"copying", "counted"} /\ copier' = [copier EXCEPT ![t] = "idle"]
      /\ UNCHANGED <<enabled, count, owned, uid_counter, uid, callbacks, in_callback, disturbed>>
      /\ global_timings' = IF Destroyed' THEN {} ELSE global_timings
  BY DEF copy_fails, add_report_entry, cancel_inflight_timings
<1>3. ~ Destroyed
  BY <1>2 DEF Destroyed, Holders
<1>4. /\ TimingsInv(callbacks, in_callback, global_timings, uid, copier)
      /\ ~ disturbed => EnabledInv /\ Balance(count, uid, copier, callbacks, in_callback)
  BY <1>3 DEF StatisticsInv
<1>5. /\ copier' \in [Copiers -> {"idle", "copying", "stopped", "counted"}]
      /\ copier'[t] = "idle" /\ \A v \in Copiers : v # t => copier'[v] = copier[v]
      /\ StopComes(callbacks, uid, copier')
      /\ TimingsInv(callbacks, in_callback, global_timings, uid, copier')
      /\ NoBytes(uid, copier') = NoBytes(uid, copier)
  <2>1. Moved(copier, t, "idle", copier', uid)
    BY <1>1, <1>2, MoveKeeps
  <2>2. \A v \in Copiers : copier'[v] = "copying" => copier[v] = "copying"
    BY <2>1 DEF Moved
  <2>3. StopComes(callbacks, uid, copier') /\ TimingsInv(callbacks, in_callback, global_timings, uid, copier')
    BY <2>2, <1>1, <1>4, MovedKeeps
  <2> QED BY <2>1, <2>3, <1>2 DEF Moved
<1>6. ~ disturbed => EnabledInv'
  BY <1>2, <1>4, <1>5 DEF EnabledInv
<1>7. ~ disturbed => Balance(count, uid, copier', callbacks, in_callback)
  BY <1>4, <1>5 DEF Balance
<1>8. Flags'
  <2>1. enabled' = enabled /\ owned' = owned /\ disturbed' = disturbed
        /\ (has_entry' = has_entry \/ has_entry' = (has_entry \/ enabled))
    BY DEF copy_fails, add_report_entry
  <2>2. {enabled, has_entry, owned, disturbed} \subseteq BOOLEAN
    BY DEF Flags, StatisticsInv
  <2> QED BY <2>1, <2>2 DEF Flags
<1>9. StatisticsTypes'
  BY <1>1, <1>2, <1>5 DEF StatisticsTypes
<1>10. Destroyed' => global_timings' = {}
  BY <1>2
<1>11. ~ Destroyed' => TimingsInv(callbacks', in_callback', global_timings', uid', copier')
  BY <1>2, <1>5
<1> QED
  BY <1>1, <1>2, <1>5, <1>6, <1>7, <1>8, <1>9, <1>10, <1>11 DEF StatisticsInv

\* The bytes of a copy are counted, if its timing has been started.
LEMMA RecordStep ==
  ASSUME StatisticsInv, NEW t \in Copiers, record_copy(t)
  PROVE  StatisticsInv'
<1>1. /\ StatisticsTypes /\ UidsDiffer(uid, uid_counter) /\ StopsDiffer(callbacks, uid_counter)
      /\ StopComes(callbacks, uid, copier) /\ CallbackInv(callbacks, in_callback)
      /\ copier \in [Copiers -> {"idle", "copying", "stopped", "counted"}]
      /\ count \in [Names -> Nat] /\ uid \in [Copiers -> Nat]
  BY StatisticsParts
<1>2. /\ copier[t] = "stopped" /\ copier' = [copier EXCEPT ![t] = "counted"]
      /\ count' = (IF enabled THEN [count EXCEPT !["bytes"] = @ + 1] ELSE count)
      /\ UNCHANGED <<enabled, has_entry, owned, global_timings, uid_counter, uid, callbacks,
                     in_callback, disturbed>>
  BY DEF record_copy, add_stat
<1>3. /\ copier' \in [Copiers -> {"idle", "copying", "stopped", "counted"}]
      /\ copier'[t] = "counted" /\ \A v \in Copiers : v # t => copier'[v] = copier[v]
      /\ StopComes(callbacks, uid, copier')
      /\ TimingsInv(callbacks, in_callback, global_timings, uid, copier) =>
             TimingsInv(callbacks, in_callback, global_timings, uid, copier')
      /\ uid[t] = 0 => NoBytes(uid, copier') = NoBytes(uid, copier)
      /\ uid[t] # 0 => NoBytes(uid, copier') = NoBytes(uid, copier) \ {uid[t]} /\ uid[t] \in NoBytes(uid, copier)
  <2>1. Moved(copier, t, "counted", copier', uid)
    BY <1>1, <1>2, MoveKeeps
  <2>2. \A v \in Copiers : copier'[v] = "copying" => copier[v] = "copying"
    BY <2>1 DEF Moved
  <2>3. /\ StopComes(callbacks, uid, copier')
        /\ TimingsInv(callbacks, in_callback, global_timings, uid, copier) =>
               TimingsInv(callbacks, in_callback, global_timings, uid, copier')
    BY <2>2, <1>1, MovedKeeps
  <2> QED BY <2>1, <2>3, <1>2 DEF Moved
<1>4. ~ Destroyed /\ ~ Destroyed'
  BY <1>2, <1>3 DEF Destroyed, Holders
<1>5. /\ TimingsInv(callbacks, in_callback, global_timings, uid, copier)
      /\ ~ disturbed => EnabledInv /\ Balance(count, uid, copier, callbacks, in_callback)
  BY <1>4 DEF StatisticsInv
<1>6. ~ disturbed => EnabledInv'
  BY <1>2, <1>3, <1>5 DEF EnabledInv
<1>7. ASSUME ~ disturbed PROVE Balance(count', uid, copier', callbacks, in_callback)
  <2>1. uid[t] # 0 <=> enabled
    BY <1>2, <1>5, <1>7 DEF EnabledInv
  <2>2. Balance(count, uid, copier, callbacks, in_callback)
    BY <1>5, <1>7
  <2>3. CASE ~ enabled
    BY <2>1, <2>2, <2>3, <1>2, <1>3 DEF Balance
  <2>4. CASE enabled
    <3>1. count' = [count EXCEPT !["bytes"] = @ + 1]
      BY <2>4, <1>2
    <3>2. count'["bytes"] = count["bytes"] + 1 /\ count'["time"] = count["time"]
          /\ count'["stream-delay"] = count["stream-delay"] /\ count["bytes"] \in Nat
      BY <3>1, <1>1 DEF Names
    <3>3. NoBytes(uid, copier) \subseteq 1 .. uid_counter - 1 /\ uid_counter - 1 \in Nat
      BY <1>1, CountedAreGiven
    <3>4. /\ Cardinality(NoBytes(uid, copier)) \in Nat
          /\ Cardinality(NoBytes(uid, copier) \ {uid[t]}) = Cardinality(NoBytes(uid, copier)) - 1
      BY <3>3, <2>1, <2>4, <1>1, <1>3, CountTimings
    <3>6. NoBytes(uid, copier') = NoBytes(uid, copier) \ {uid[t]}
      BY <2>1, <2>4, <1>3
    <3>5. count'["bytes"] + Cardinality(NoBytes(uid, copier')) = count["bytes"] + Cardinality(NoBytes(uid, copier))
      BY <3>2, <3>4, <3>6
    <3> QED BY <2>2, <3>2, <3>5 DEF Balance
  <2> QED BY <2>3, <2>4
<1>8. Flags'
  BY <1>2 DEF Flags, StatisticsInv
<1>9. StatisticsTypes'
  <2>1. count' \in [Names -> Nat]
    BY <1>1, <1>2 DEF Names
  <2> QED BY <2>1, <1>1, <1>2, <1>3 DEF StatisticsTypes
<1> QED
  BY <1>1, <1>2, <1>3, <1>4, <1>5, <1>6, <1>7, <1>8, <1>9 DEF StatisticsInv

\* The stop callback is enqueued, before the bytes are counted.
LEMMA StopStep ==
  ASSUME StatisticsInv, NEW t \in Copiers, stop_and_record(t)
  PROVE  StatisticsInv'
<1>1. /\ StatisticsTypes /\ UidsDiffer(uid, uid_counter) /\ StopsDiffer(callbacks, uid_counter)
      /\ StopComes(callbacks, uid, copier) /\ CallbackInv(callbacks, in_callback)
      /\ copier \in [Copiers -> {"idle", "copying", "stopped", "counted"}]
      /\ count \in [Names -> Nat] /\ uid \in [Copiers -> Nat] /\ uid_counter \in Nat \ {0}
      /\ callbacks \in [Copiers -> Seq(Callback)]
  BY StatisticsParts
<1> DEFINE u == uid[t]
<1>2. /\ copier[t] = "copying" /\ copier' = [copier EXCEPT ![t] = "stopped"]
      /\ u = 0 => callbacks' = callbacks
      /\ u # 0 => callbacks' = [callbacks EXCEPT ![t] = Append(@, <<"stop", u>>)]
      /\ UNCHANGED <<enabled, count, has_entry, owned, global_timings, uid_counter, uid,
                     in_callback, disturbed>>
  BY DEF stop_and_record
<1>3. /\ copier' \in [Copiers -> {"idle", "copying", "stopped", "counted"}]
      /\ copier'[t] = "stopped" /\ \A v \in Copiers : v # t => copier'[v] = copier[v]
      /\ StopComes(callbacks, uid, copier')
      /\ TimingsInv(callbacks, in_callback, global_timings, uid, copier) =>
             TimingsInv(callbacks, in_callback, global_timings, uid, copier')
      /\ u = 0 => NoBytes(uid, copier') = NoBytes(uid, copier)
      /\ u # 0 => NoBytes(uid, copier') = NoBytes(uid, copier) \cup {u} /\ u \notin NoBytes(uid, copier)
  <2>1. Moved(copier, t, "stopped", copier', uid)
    BY <1>1, <1>2, MoveKeeps
  <2>2. \A v \in Copiers : copier'[v] = "copying" => copier[v] = "copying"
    BY <2>1 DEF Moved
  <2>3. /\ StopComes(callbacks, uid, copier')
        /\ TimingsInv(callbacks, in_callback, global_timings, uid, copier) =>
               TimingsInv(callbacks, in_callback, global_timings, uid, copier')
    BY <2>2, <1>1, MovedKeeps
  <2> QED BY <2>1, <2>3, <1>2 DEF Moved
<1>4. ~ Destroyed /\ ~ Destroyed'
  BY <1>2, <1>3 DEF Destroyed, Holders
<1>5. /\ TimingsInv(callbacks, in_callback, global_timings, uid, copier)
      /\ ~ disturbed => EnabledInv /\ Balance(count, uid, copier, callbacks, in_callback)
  BY <1>4 DEF StatisticsInv
<1>6. Flags'
  BY <1>2 DEF Flags, StatisticsInv
<1>7. CASE u = 0
  <2>1. callbacks' = callbacks
    BY <1>2, <1>7
  <2>2. ~ disturbed => EnabledInv'
    BY <2>1, <1>2, <1>3, <1>5 DEF EnabledInv
  <2>3. ~ disturbed => Balance(count, uid, copier', callbacks, in_callback)
    BY <1>3, <1>5, <1>7 DEF Balance
  <2>4. StatisticsTypes'
    BY <2>1, <1>1, <1>2, <1>3 DEF StatisticsTypes
  <2> QED
    BY <2>1, <2>2, <2>3, <2>4, <1>1, <1>2, <1>3, <1>4, <1>5, <1>6 DEF StatisticsInv
<1>8. CASE u # 0
  <2> DEFINE q == callbacks[t]
             q2 == Append(q, <<"stop", u>>)
  <2>1. q \in Seq(Callback) /\ StopsOnce(q) /\ u \notin StopsOf(q) /\ u \in Nat
        /\ \A v \in Copiers : u \notin StopsOf(callbacks[v])
    BY <1>1, <1>2 DEF StopsDiffer, StopComes
  <2>2. q2 \in Seq(Callback) /\ q2 # <<>> /\ StopsOnce(q2) /\ (q # <<>> => q2[1] = q[1])
        /\ StopsOf(q2) = StopsOf(q) \cup {u}
    <3>1. PushedOn(q, "stop", u, q2)
      BY <2>1, PushCallback
    <3> HIDE DEF q2
    <3> QED BY <3>1 DEF PushedOn
  <2>3. callbacks' = [callbacks EXCEPT ![t] = q2]
    BY <1>2, <1>8
  <2> HIDE DEF q2
  <2>4. /\ callbacks' \in [Copiers -> Seq(Callback)] /\ callbacks'[t] = q2
        /\ \A v \in Copiers : v # t => callbacks'[v] = callbacks[v]
    BY <2>2, <2>3, <1>1
  <2> HIDE DEF q, u
  <2>5. u \in 1 .. uid_counter - 1 /\ \A v \in Copiers : uid[v] = u => v = t
    BY <1>1, <1>8 DEF UidsDiffer, u
  <2>6. /\ \A v \in Copiers : StopsOf(callbacks[v]) \subseteq 1 .. uid_counter - 1 /\ StopsOnce(callbacks[v])
        /\ \A v, x \in Copiers : StopsOf(callbacks[v]) \cap StopsOf(callbacks[x]) # {} => v = x
    BY <1>1 DEF StopsDiffer
  <2>7. \A v \in Copiers : /\ v = t => StopsOf(callbacks'[v]) = StopsOf(callbacks[v]) \cup {u}
                           /\ v # t => StopsOf(callbacks'[v]) = StopsOf(callbacks[v])
    BY <2>2, <2>4 DEF q
  <2>8. StopsDiffer(callbacks', uid_counter)
    <3>1. \A v \in Copiers : StopsOnce(callbacks'[v]) /\ StopsOf(callbacks'[v]) \subseteq 1 .. uid_counter - 1
      BY <2>2, <2>4, <2>5, <2>6, <2>7
    <3>2. ASSUME NEW v \in Copiers, NEW x \in Copiers, v # x
          PROVE  StopsOf(callbacks'[v]) \cap StopsOf(callbacks'[x]) = {}
      <4>1. StopsOf(callbacks[v]) \cap StopsOf(callbacks[x]) = {}
        BY <3>2, <2>6
      <4>2. u \notin StopsOf(callbacks[v]) /\ u \notin StopsOf(callbacks[x])
        BY <2>1
      <4> QED BY <3>2, <4>1, <4>2, <2>7
    <3> QED BY <3>1, <3>2 DEF StopsDiffer
  <2>9. StopComes(callbacks', uid, copier')
    <3> SUFFICES ASSUME NEW v \in Copiers, NEW x \in Copiers, copier'[x] = "copying"
                 PROVE  uid[x] \notin StopsOf(callbacks'[v])
      BY DEF StopComes
    <3>1. x # t /\ uid[x] # u /\ uid[x] \notin StopsOf(callbacks[v])
      BY <2>5, <1>3 DEF StopComes
    <3> QED BY <3>1, <2>7
  <2>10. /\ \A v \in Copiers : in_callback[v] # "none" => callbacks'[v] # <<>> /\ callbacks'[v][1] = callbacks[v][1]
         /\ \A v \in Copiers : CurrentTimings(callbacks'[v], in_callback[v]) = CurrentTimings(callbacks[v], in_callback[v])
    <3>1. \A v \in Copiers : in_callback[v] # "none" => callbacks'[v] # <<>> /\ callbacks'[v][1] = callbacks[v][1]
      BY <2>2, <2>4, <1>1 DEF CallbackInv, q
    <3> QED BY <3>1 DEF CurrentTimings
  <2>11. CallbackInv(callbacks', in_callback)
    BY <2>10, <1>1 DEF CallbackInv
  <2>12. TimingsInv(callbacks', in_callback, global_timings, uid, copier')
    <3>1. u \in global_timings
      BY <1>2, <1>5, <1>8 DEF TimingsInv, u
    <3>2. TimingsInv(callbacks, in_callback, global_timings, uid, copier')
      BY <1>3, <1>5
    <3> QED BY <3>1, <3>2, <2>7, <2>10 DEF TimingsInv
  <2>13. ~ disturbed => EnabledInv'
    <3> SUFFICES ASSUME ~ disturbed, NEW v \in Copiers
                 PROVE  /\ copier'[v] # "idle" => (uid[v] # 0 <=> enabled)
                        /\ ~ enabled => callbacks'[v] = <<>>
      BY <1>2 DEF EnabledInv
    <3>1. enabled
      BY <1>2, <1>5, <1>8 DEF EnabledInv, u
    <3>2. copier[v] # "idle" => (uid[v] # 0 <=> enabled)
      BY <1>5 DEF EnabledInv
    <3>3. copier'[v] # "idle" => copier[v] # "idle"
      BY <1>2, <1>3
    <3> QED BY <3>1, <3>2, <3>3
  <2>14. NoDelay(callbacks') = NoDelay(callbacks) \cup {u} /\ u \notin NoDelay(callbacks)
    <3>1. NoDelay(callbacks') \subseteq NoDelay(callbacks) \cup {u}
      BY <2>7 DEF NoDelay
    <3>2. NoDelay(callbacks) \subseteq NoDelay(callbacks')
      BY <2>7 DEF NoDelay
    <3>3. u \in NoDelay(callbacks') /\ u \notin NoDelay(callbacks)
      BY <2>1, <2>7 DEF NoDelay
    <3> QED BY <3>1, <3>2, <3>3
  <2>15. OnlyDelay(callbacks', in_callback) = OnlyDelay(callbacks, in_callback)
    BY <2>10 DEF OnlyDelay
  <2>16. ~ disturbed => Balance(count, uid, copier', callbacks', in_callback)
    <3> DEFINE B == NoBytes(uid, copier)
               D == NoDelay(callbacks)
    <3>1. B \subseteq 1 .. uid_counter - 1 /\ D \subseteq 1 .. uid_counter - 1 /\ uid_counter - 1 \in Nat
      BY <1>1, CountedAreGiven
    <3>2. u \in Nat /\ u \notin B /\ u \notin D /\ NoBytes(uid, copier') = B \cup {u} /\ NoDelay(callbacks') = D \cup {u}
      BY <2>1, <2>14, <1>3, <1>8
    <3> HIDE DEF B, D
    <3>3. Cardinality(B \cup {u}) = Cardinality(B) + 1 /\ Cardinality(B) \in Nat
      BY <3>1, <3>2, CountTimings
    <3>4. Cardinality(D \cup {u}) = Cardinality(D) + 1 /\ Cardinality(D) \in Nat
      BY <3>1, <3>2, CountTimings
    <3>5. count["bytes"] \in Nat /\ count["stream-delay"] \in Nat
      BY <1>1 DEF Names
    <3> SUFFICES ASSUME ~ disturbed PROVE Balance(count, uid, copier', callbacks', in_callback)
      OBVIOUS
    <3>6. count["bytes"] + Cardinality(B) = count["stream-delay"] + Cardinality(D)
      BY <1>5 DEF Balance, B, D
    <3>7. count["bytes"] + Cardinality(B \cup {u}) = count["stream-delay"] + Cardinality(D \cup {u})
      BY <3>3, <3>4, <3>5, <3>6
    <3> QED BY <3>2, <3>7, <2>15, <1>5 DEF Balance
  <2>17. StatisticsTypes'
    BY <2>4, <1>1, <1>2, <1>3 DEF StatisticsTypes
  <2> QED
    BY <2>8, <2>9, <2>11, <2>12, <2>13, <2>16, <2>17, <1>1, <1>2, <1>4, <1>6 DEF StatisticsInv
<1> QED BY <1>7, <1>8

-----------------------------------------------------------------------------
(* The callbacks of the streams. *)

\* cb2 is cb after the callback at the front of the stream t, of the timing u.
Ran(cb, t, u, cb2) ==
    /\ cb2 \in [Copiers -> Seq(Callback)]
    /\ \A v \in Copiers : StopsOnce(cb2[v]) /\ (v # t => cb2[v] = cb[v])
StopRan(cb, t, u, cb2) ==
    /\ Ran(cb, t, u, cb2) /\ u \in Nat /\ u \in StopsOf(cb[t])
    /\ \A v \in Copiers : StopsOf(cb2[v]) = StopsOf(cb[v]) \ {u}
StartRan(cb, t, u, cb2) ==
    /\ Ran(cb, t, u, cb2)
    /\ \A v \in Copiers : StopsOf(cb2[v]) = StopsOf(cb[v])

LEMMA PopRuns ==
  ASSUME StatisticsInv, NEW t \in Copiers, callbacks[t] # <<>>, Pop(t)
  PROVE  /\ callbacks[t][1][1] = "stop" => StopRan(callbacks, t, callbacks[t][1][2], callbacks')
         /\ callbacks[t][1][1] = "start" => StartRan(callbacks, t, callbacks[t][1][2], callbacks')
<1> DEFINE q == callbacks[t]
           q2 == Tail(q)
           k == q[1][1]
           u == q[1][2]
<1>1. callbacks \in [Copiers -> Seq(Callback)] /\ StopsDiffer(callbacks, uid_counter)
  BY StatisticsParts
<1>2. q \in Seq(Callback) /\ q # <<>> /\ StopsOnce(q)
  BY <1>1 DEF StopsDiffer
<1>3. PoppedOff(q, k, u, q2)
  BY <1>2, PopCallback
<1>4. callbacks' = [callbacks EXCEPT ![t] = q2]
  BY DEF Pop
<1> HIDE DEF q2
<1>5. q2 \in Seq(Callback) /\ StopsOnce(q2)
  BY <1>3 DEF PoppedOff
<1>6. /\ callbacks' \in [Copiers -> Seq(Callback)] /\ callbacks'[t] = q2
      /\ \A v \in Copiers : v # t => callbacks'[v] = callbacks[v]
  BY <1>1, <1>4, <1>5
<1> HIDE DEF k, u
<1>7. Ran(callbacks, t, u, callbacks')
  BY <1>1, <1>5, <1>6 DEF Ran, StopsDiffer
<1>8. k = "start" => StartRan(callbacks, t, u, callbacks')
  <2>1. k = "start" => StopsOf(q2) = StopsOf(q)
    BY <1>3 DEF PoppedOff
  <2> QED BY <2>1, <1>6, <1>7 DEF StartRan
<1>9. ASSUME k = "stop" PROVE StopRan(callbacks, t, u, callbacks')
  <2>1. StopsOf(q2) = StopsOf(q) \ {u} /\ u \in StopsOf(q) /\ u \in Nat
    BY <1>3, <1>9 DEF PoppedOff
  <2>2. \A v \in Copiers : v # t => u \notin StopsOf(callbacks[v])
    BY <2>1, <1>1 DEF StopsDiffer
  <2>3. \A v \in Copiers : v # t => StopsOf(callbacks'[v]) = StopsOf(callbacks[v]) \ {u}
    BY <2>2, <1>6
  <2>4. StopsOf(callbacks'[t]) = StopsOf(callbacks[t]) \ {u}
    BY <2>1, <1>6
  <2> QED BY <2>1, <2>3, <2>4, <1>7 DEF StopRan
<1> QED BY <1>8, <1>9 DEF k, u

\* The start callback of a timing leaves everything else as it is.
LEMMA StartCallbackStep ==
  ASSUME StatisticsInv, NEW t \in Copiers, timing_start_cb(t)
  PROVE  StatisticsInv'
<1>1. /\ StatisticsTypes /\ UidsDiffer(uid, uid_counter) /\ StopsDiffer(callbacks, uid_counter)
      /\ StopComes(callbacks, uid, copier) /\ CallbackInv(callbacks, in_callback)
      /\ uid_counter \in Nat \ {0}
  BY StatisticsParts
<1>2. /\ callbacks[t] # <<>> /\ callbacks[t][1][1] = "start" /\ Pop(t)
      /\ UNCHANGED <<enabled, count, has_entry, owned, global_timings, uid_counter, copier, uid,
                     in_callback, disturbed>>
  BY DEF timing_start_cb
<1>3. in_callback[t] = "none"
  BY <1>1, <1>2 DEF CallbackInv
<1>4. StartRan(callbacks, t, callbacks[t][1][2], callbacks')
  BY <1>2, PopRuns
<1>5. /\ callbacks' \in [Copiers -> Seq(Callback)]
      /\ \A v \in Copiers : StopsOnce(callbacks'[v]) /\ (v # t => callbacks'[v] = callbacks[v])
      /\ \A v \in Copiers : StopsOf(callbacks'[v]) = StopsOf(callbacks[v])
  BY <1>4 DEF StartRan, Ran
<1>6. SameStops(callbacks, callbacks', in_callback)
  BY <1>1, <1>3, <1>5 DEF SameStops, CallbackInv
<1>7. /\ StopsDiffer(callbacks', uid_counter) /\ CallbackInv(callbacks', in_callback)
      /\ NoDelay(callbacks') = NoDelay(callbacks)
      /\ OnlyDelay(callbacks', in_callback) = OnlyDelay(callbacks, in_callback)
      /\ \A v \in Copiers : CurrentTimings(callbacks'[v], in_callback[v]) = CurrentTimings(callbacks[v], in_callback[v])
  BY <1>1, <1>6, SameStopsKeep
<1>8. StopComes(callbacks', uid, copier)
  BY <1>1, <1>5 DEF StopComes
<1>9. Destroyed' <=> Destroyed
  BY <1>2, DestroyedIsGone
<1>10. ~ Destroyed => TimingsInv(callbacks', in_callback, global_timings, uid, copier)
  BY <1>5, <1>7 DEF TimingsInv, StatisticsInv
<1>11. ~ disturbed => EnabledInv'
  <2>1. ~ disturbed => EnabledInv
    BY DEF StatisticsInv
  <2>2. ~ disturbed => enabled
    BY <2>1, <1>2 DEF EnabledInv
  <2> QED BY <2>1, <2>2, <1>2 DEF EnabledInv
<1>12. ~ disturbed /\ ~ Destroyed => Balance(count, uid, copier, callbacks', in_callback)
  BY <1>7 DEF Balance, StatisticsInv
<1>13. Flags'
  BY <1>2 DEF Flags, StatisticsInv
<1>14. StatisticsTypes'
  BY <1>1, <1>2, <1>5 DEF StatisticsTypes
<1>15. Destroyed => global_timings = {}
  BY DEF StatisticsInv
<1> QED
  BY <1>1, <1>2, <1>7, <1>8, <1>9, <1>10, <1>11, <1>12, <1>13, <1>14, <1>15 DEF StatisticsInv

\* After a stop callback there are fewer of them, and no new ones.
LEMMA StopRanKeeps ==
  ASSUME NEW cb, NEW t \in Copiers, NEW u, NEW cb2, StopRan(cb, t, u, cb2),
         NEW n, StopsDiffer(cb, n), NEW ui, NEW co, StopComes(cb, ui, co)
  PROVE  StopsDiffer(cb2, n) /\ StopComes(cb2, ui, co)
<1>1. /\ \A v \in Copiers : StopsOnce(cb2[v])
      /\ \A v \in Copiers : StopsOf(cb2[v]) = StopsOf(cb[v]) \ {u}
  BY DEF StopRan, Ran
<1>2. StopsDiffer(cb2, n)
  <2>1. \A v, x \in Copiers : StopsOf(cb2[v]) \cap StopsOf(cb2[x]) # {} => v = x
    BY <1>1 DEF StopsDiffer
  <2>2. \A v \in Copiers : StopsOf(cb2[v]) \subseteq 1 .. n - 1
    BY <1>1 DEF StopsDiffer
  <2> QED BY <2>1, <2>2, <1>1 DEF StopsDiffer
<1>3. StopComes(cb2, ui, co)
  BY <1>1 DEF StopComes
<1> QED BY <1>2, <1>3

\* A stop callback takes its timing, or it finds the statistics destroyed.
LEMMA StopCallbackStep ==
  ASSUME StatisticsInv, NEW t \in Copiers, timing_stop_cb(t)
  PROVE  StatisticsInv'
<1> DEFINE u == callbacks[t][1][2]
<1>1. /\ StatisticsTypes /\ UidsDiffer(uid, uid_counter) /\ StopsDiffer(callbacks, uid_counter)
      /\ StopComes(callbacks, uid, copier) /\ CallbackInv(callbacks, in_callback)
      /\ callbacks \in [Copiers -> Seq(Callback)] /\ global_timings \subseteq Nat
      /\ in_callback \in [Copiers -> {"none", "time", "delay"}]
  BY StatisticsParts
<1>2. /\ callbacks[t] # <<>> /\ callbacks[t][1][1] = "stop" /\ in_callback[t] = "none"
      /\ global_timings' = global_timings \ {u}
      /\ u \in global_timings /\ ~ Destroyed =>
            in_callback' = [in_callback EXCEPT ![t] = "time"] /\ callbacks' = callbacks
      /\ ~ (u \in global_timings /\ ~ Destroyed) => Pop(t) /\ in_callback' = in_callback
      /\ UNCHANGED <<enabled, count, has_entry, owned, uid_counter, copier, uid, disturbed>>
  BY DEF timing_stop_cb
<1>3. u \in StopsOf(callbacks[t])
  <2>1. 1 \in 1 .. Len(callbacks[t]) /\ callbacks[t] \in Seq(Callback)
    BY <1>1, <1>2
  <2> QED BY <2>1, <1>2, StopsMember
<1>4. ~ Destroyed => u \in global_timings
  <2>1. CurrentTimings(callbacks[t], in_callback[t]) = {}
    BY <1>2 DEF CurrentTimings
  <2> QED BY <2>1, <1>3 DEF StatisticsInv, TimingsInv
<1> HIDE DEF u
<1>5. ~ disturbed => EnabledInv /\ enabled
  BY <1>2 DEF StatisticsInv, EnabledInv
<1>6. Flags'
  BY <1>2 DEF Flags, StatisticsInv
<1>7. CASE Destroyed
  <2>1. Pop(t) /\ in_callback' = in_callback /\ Destroyed'
    BY <1>2, <1>7, DestroyedIsGone
  <2>2. StopRan(callbacks, t, u, callbacks')
    BY <2>1, <1>2, PopRuns DEF u
  <2>3. StopsDiffer(callbacks', uid_counter) /\ StopComes(callbacks', uid, copier)
    BY <2>2, <1>1, StopRanKeeps
  <2>4. callbacks' \in [Copiers -> Seq(Callback)]
    BY <2>2 DEF StopRan, Ran
  <2>5. \A v \in Copiers : in_callback[v] = "none"
    BY <1>7, DestroyedIsGone DEF Gone
  <2>6. CallbackInv(callbacks', in_callback)
    BY <2>5 DEF CallbackInv
  <2>7. ~ disturbed => EnabledInv'
    BY <1>2, <1>5 DEF EnabledInv
  <2>8. global_timings' = {}
    BY <1>2, <1>7 DEF StatisticsInv
  <2>9. StatisticsTypes'
    BY <2>1, <2>4, <2>8, <1>1, <1>2 DEF StatisticsTypes
  <2> QED
    BY <2>1, <2>3, <2>6, <2>7, <2>8, <2>9, <1>1, <1>2, <1>6 DEF StatisticsInv
<1>8. CASE ~ Destroyed
  <2>1. in_callback' = [in_callback EXCEPT ![t] = "time"] /\ callbacks' = callbacks
    BY <1>2, <1>4, <1>8
  <2>2. /\ in_callback' \in [Copiers -> {"none", "time", "delay"}] /\ in_callback'[t] = "time"
        /\ \A v \in Copiers : v # t => in_callback'[v] = in_callback[v]
    BY <2>1, <1>1
  <2>3. ~ Destroyed'
    BY <2>2 DEF Destroyed, Holders
  <2>4. CallbackInv(callbacks, in_callback')
    BY <2>2, <1>1, <1>2 DEF CallbackInv
  <2>5. TimingsInv(callbacks, in_callback', global_timings \ {u}, uid, copier)
    <3>1. TimingsInv(callbacks, in_callback, global_timings, uid, copier)
      BY <1>8 DEF StatisticsInv
    <3> SUFFICES ASSUME NEW v \in Copiers
                 PROVE  /\ StopsOf(callbacks[v]) \ CurrentTimings(callbacks[v], in_callback'[v])
                              \subseteq global_timings \ {u}
                        /\ copier[v] = "copying" /\ uid[v] # 0 => uid[v] \in global_timings \ {u}
      BY DEF TimingsInv
    <3>2. copier[v] = "copying" => uid[v] # u
      BY <1>1, <1>3 DEF StopComes
    <3>3. CASE v = t
      <4>1. CurrentTimings(callbacks[t], in_callback[t]) = {} /\ CurrentTimings(callbacks[t], in_callback'[t]) = {u}
        BY <1>2, <2>2 DEF CurrentTimings, u
      <4> QED BY <4>1, <3>1, <3>2, <3>3 DEF TimingsInv
    <3>4. CASE v # t
      <4>1. u \notin StopsOf(callbacks[v])
        BY <3>4, <1>1, <1>3 DEF StopsDiffer
      <4> QED BY <4>1, <3>1, <3>2, <3>4, <2>2 DEF TimingsInv
    <3> QED BY <3>3, <3>4
  <2>6. OnlyDelay(callbacks, in_callback') = OnlyDelay(callbacks, in_callback)
    <3>1. \A v \in Copiers : in_callback'[v] = "delay" <=> in_callback[v] = "delay"
      BY <2>2, <1>2
    <3> QED BY <3>1 DEF OnlyDelay
  <2>7. ~ disturbed => Balance(count, uid, copier, callbacks, in_callback')
    BY <2>6, <1>8 DEF Balance, StatisticsInv
  <2>8. ~ disturbed => EnabledInv'
    BY <2>1, <1>2, <1>5 DEF EnabledInv
  <2>9. StatisticsTypes'
    BY <2>1, <2>2, <1>1, <1>2 DEF StatisticsTypes
  <2> QED
    BY <2>1, <2>3, <2>4, <2>5, <2>7, <2>8, <2>9, <1>1, <1>2, <1>6 DEF StatisticsInv
<1> QED BY <1>7, <1>8

\* A callback counts the time of its timing, of which then only the delay is missing.
LEMMA TimeStep ==
  ASSUME StatisticsInv, NEW t \in Copiers, callback_adds(t), in_callback[t] = "time"
  PROVE  StatisticsInv'
<1> DEFINE u == callbacks[t][1][2]
<1>1. /\ StatisticsTypes /\ UidsDiffer(uid, uid_counter) /\ StopsDiffer(callbacks, uid_counter)
      /\ StopComes(callbacks, uid, copier) /\ CallbackInv(callbacks, in_callback)
      /\ callbacks \in [Copiers -> Seq(Callback)] /\ global_timings \subseteq Nat
      /\ in_callback \in [Copiers -> {"none", "time", "delay"}] /\ count \in [Names -> Nat]
  BY StatisticsParts
<1>2. /\ count' = (IF enabled THEN [count EXCEPT !["time"] = @ + 1] ELSE count)
      /\ in_callback' = [in_callback EXCEPT ![t] = "delay"]
      /\ global_timings' = IF Destroyed' THEN {} ELSE global_timings
      /\ UNCHANGED <<callbacks, copier, owned, enabled, has_entry, uid_counter, uid, disturbed>>
  BY DEF callback_adds, add_stat, cancel_inflight_timings
<1>3. /\ in_callback' \in [Copiers -> {"none", "time", "delay"}] /\ in_callback'[t] = "delay"
      /\ \A v \in Copiers : v # t => in_callback'[v] = in_callback[v]
  BY <1>1, <1>2
<1>4. ~ Destroyed /\ ~ Destroyed' /\ global_timings' = global_timings
  BY <1>2, <1>3 DEF Destroyed, Holders
<1>5. callbacks[t] # <<>> /\ callbacks[t][1][1] = "stop"
  BY <1>1 DEF CallbackInv
<1>6. ~ disturbed => EnabledInv /\ enabled
  BY <1>5 DEF StatisticsInv, EnabledInv
<1>7. Flags'
  BY <1>2 DEF Flags, StatisticsInv
<1>8. StatisticsTypes'
  <2>1. count' \in [Names -> Nat]
    BY <1>1, <1>2 DEF Names
  <2> QED BY <2>1, <1>1, <1>2, <1>3, <1>4 DEF StatisticsTypes
<1>9. CallbackInv(callbacks, in_callback')
  BY <1>1, <1>3, <1>5 DEF CallbackInv
<1>10. TimingsInv(callbacks, in_callback', global_timings, uid, copier)
  <2>1. \A v \in Copiers : CurrentTimings(callbacks[v], in_callback'[v]) = CurrentTimings(callbacks[v], in_callback[v])
    BY <1>3 DEF CurrentTimings
  <2> QED BY <2>1, <1>4 DEF TimingsInv, StatisticsInv
<1>11. ~ disturbed => EnabledInv'
  BY <1>2, <1>6 DEF EnabledInv
<1>12. OnlyDelay(callbacks, in_callback') = OnlyDelay(callbacks, in_callback) \cup {u}
  BY <1>3 DEF OnlyDelay
<1>13. u \notin OnlyDelay(callbacks, in_callback)
  <2> SUFFICES ASSUME NEW v \in Copiers, in_callback[v] = "delay", callbacks[v][1][2] = u
               PROVE  FALSE
    BY DEF OnlyDelay
  <2>1. /\ callbacks[v] # <<>> /\ callbacks[v][1][1] = "stop" /\ callbacks[v] \in Seq(Callback)
        /\ callbacks[t] \in Seq(Callback)
    BY <1>1 DEF CallbackInv
  <2>2. 1 \in 1 .. Len(callbacks[v]) /\ 1 \in 1 .. Len(callbacks[t])
    BY <2>1, <1>5
  <2>3. u \in StopsOf(callbacks[v]) /\ u \in StopsOf(callbacks[t])
    BY <2>1, <2>2, <1>5, StopsMember
  <2>4. v = t
    BY <2>3, <1>1 DEF StopsDiffer
  <2> QED BY <2>4
<1>14. u \in Nat
  <2>1. callbacks[t] \in Seq(Callback) /\ 1 \in 1 .. Len(callbacks[t])
    BY <1>1, <1>5
  <2>2. callbacks[t][1] \in Callback
    BY <2>1
  <2> QED BY <2>2 DEF Callback
<1> HIDE DEF u
<1>15. ASSUME ~ disturbed PROVE Balance(count', uid, copier, callbacks, in_callback')
  <2> DEFINE D == OnlyDelay(callbacks, in_callback)
  <2>1. D \subseteq 1 .. uid_counter - 1 /\ uid_counter - 1 \in Nat
    BY <1>1, CountedAreGiven
  <2>2. u \notin D /\ OnlyDelay(callbacks, in_callback') = D \cup {u}
    BY <1>12, <1>13
  <2>3. Balance(count, uid, copier, callbacks, in_callback)
    BY <1>4, <1>15 DEF StatisticsInv
  <2>4. count["time"] = count["stream-delay"] + Cardinality(D)
    BY <2>3 DEF Balance
  <2> HIDE DEF D
  <2>5. Cardinality(D \cup {u}) = Cardinality(D) + 1 /\ Cardinality(D) \in Nat
    BY <2>1, <2>2, <1>14, CountTimings
  <2>6. count' = [count EXCEPT !["time"] = @ + 1]
    BY <1>2, <1>6, <1>15
  <2>7. /\ count'["time"] = count["time"] + 1 /\ count'["bytes"] = count["bytes"]
        /\ count'["stream-delay"] = count["stream-delay"] /\ count["stream-delay"] \in Nat
    BY <2>6, <1>1 DEF Names
  <2>8. count'["time"] = count'["stream-delay"] + Cardinality(D \cup {u})
    BY <2>4, <2>5, <2>7
  <2> QED BY <2>2, <2>3, <2>7, <2>8 DEF Balance
<1> QED
  BY <1>1, <1>2, <1>4, <1>7, <1>8, <1>9, <1>10, <1>11, <1>15 DEF StatisticsInv

\* It counts the delay and is over; it may have held the last shared_ptr.
LEMMA DelayStep ==
  ASSUME StatisticsInv, NEW t \in Copiers, callback_adds(t), in_callback[t] = "delay"
  PROVE  StatisticsInv'
<1> DEFINE u == callbacks[t][1][2]
<1>1. /\ StatisticsTypes /\ UidsDiffer(uid, uid_counter) /\ StopsDiffer(callbacks, uid_counter)
      /\ StopComes(callbacks, uid, copier) /\ CallbackInv(callbacks, in_callback)
      /\ callbacks \in [Copiers -> Seq(Callback)] /\ global_timings \subseteq Nat
      /\ in_callback \in [Copiers -> {"none", "time", "delay"}] /\ count \in [Names -> Nat]
  BY StatisticsParts
<1>2. /\ count' = (IF enabled THEN [count EXCEPT !["stream-delay"] = @ + 1] ELSE count)
      /\ in_callback' = [in_callback EXCEPT ![t] = "none"] /\ Pop(t)
      /\ global_timings' = IF Destroyed' THEN {} ELSE global_timings
      /\ UNCHANGED <<copier, owned, enabled, has_entry, uid_counter, uid, disturbed>>
  BY DEF callback_adds, add_stat, cancel_inflight_timings
<1>3. /\ in_callback' \in [Copiers -> {"none", "time", "delay"}] /\ in_callback'[t] = "none"
      /\ \A v \in Copiers : v # t => in_callback'[v] = in_callback[v]
  BY <1>1, <1>2
<1>4. ~ Destroyed
  BY DEF Destroyed, Holders
<1>5. callbacks[t] # <<>> /\ callbacks[t][1][1] = "stop"
  BY <1>1 DEF CallbackInv
<1>6. StopRan(callbacks, t, u, callbacks')
  BY <1>2, <1>5, PopRuns
<1>7. /\ callbacks' \in [Copiers -> Seq(Callback)] /\ u \in Nat /\ u \in StopsOf(callbacks[t])
      /\ \A v \in Copiers : v # t => callbacks'[v] = callbacks[v]
      /\ \A v \in Copiers : StopsOf(callbacks'[v]) = StopsOf(callbacks[v]) \ {u}
  BY <1>6 DEF StopRan, Ran
<1>8. StopsDiffer(callbacks', uid_counter) /\ StopComes(callbacks', uid, copier)
  <2> HIDE DEF u
  <2> QED BY <1>1, <1>6, StopRanKeeps
<1>9. ~ disturbed => EnabledInv /\ enabled
  BY <1>5 DEF StatisticsInv, EnabledInv
<1>10. Flags'
  BY <1>2 DEF Flags, StatisticsInv
<1>11. StatisticsTypes'
  <2>1. count' \in [Names -> Nat]
    BY <1>1, <1>2 DEF Names
  <2>2. global_timings' \subseteq Nat
    BY <1>1, <1>2
  <2> QED BY <2>1, <2>2, <1>1, <1>2, <1>3, <1>7 DEF StatisticsTypes
<1>12. CallbackInv(callbacks', in_callback')
  BY <1>1, <1>3, <1>7 DEF CallbackInv
<1>13. TimingsInv(callbacks', in_callback', global_timings, uid, copier)
  <2>1. TimingsInv(callbacks, in_callback, global_timings, uid, copier)
    BY <1>4 DEF StatisticsInv
  <2>2. CurrentTimings(callbacks[t], in_callback[t]) = {u} /\ CurrentTimings(callbacks'[t], in_callback'[t]) = {}
    BY <1>3 DEF CurrentTimings
  <2> HIDE DEF u
  <2> SUFFICES ASSUME NEW v \in Copiers
               PROVE  StopsOf(callbacks'[v]) \ CurrentTimings(callbacks'[v], in_callback'[v]) \subseteq global_timings
    BY <2>1 DEF TimingsInv
  <2>3. CASE v = t
    BY <2>1, <2>2, <2>3, <1>7 DEF TimingsInv
  <2>4. CASE v # t
    BY <2>1, <2>4, <1>3, <1>7 DEF TimingsInv
  <2> QED BY <2>3, <2>4
<1>14. ~ disturbed => EnabledInv'
  BY <1>2, <1>9 DEF EnabledInv
<1>15. NoDelay(callbacks') = NoDelay(callbacks) \ {u} /\ u \in NoDelay(callbacks)
  <2> HIDE DEF u
  <2> QED BY <1>7 DEF NoDelay
<1>16. OnlyDelay(callbacks', in_callback') = OnlyDelay(callbacks, in_callback) \ {u}
       /\ u \in OnlyDelay(callbacks, in_callback)
  <2>1. u \in OnlyDelay(callbacks, in_callback)
    BY DEF OnlyDelay
  <2>2. \A v \in Copiers : v # t /\ in_callback[v] = "delay" => callbacks[v][1][2] # u
    <3> SUFFICES ASSUME NEW v \in Copiers, v # t, in_callback[v] = "delay", callbacks[v][1][2] = u
                 PROVE  FALSE
      OBVIOUS
    <3>1. callbacks[v] # <<>> /\ callbacks[v][1][1] = "stop" /\ callbacks[v] \in Seq(Callback)
      BY <1>1 DEF CallbackInv
    <3>2. 1 \in 1 .. Len(callbacks[v])
      BY <3>1
    <3>3. u \in StopsOf(callbacks[v])
      BY <3>1, <3>2, StopsMember
    <3> QED BY <3>3, <1>1, <1>7 DEF StopsDiffer
  <2> HIDE DEF u
  <2>3. \A v \in Copiers : in_callback'[v] = "delay" <=> v # t /\ in_callback[v] = "delay"
    BY <1>3
  <2>4. \A x : x \in OnlyDelay(callbacks', in_callback') <=>
                  \E v \in Copiers : v # t /\ in_callback[v] = "delay" /\ x = callbacks[v][1][2]
    BY <2>3, <1>7 DEF OnlyDelay
  <2>5. \A x : x \in OnlyDelay(callbacks, in_callback) <=>
                  \E v \in Copiers : in_callback[v] = "delay" /\ x = callbacks[v][1][2]
    BY DEF OnlyDelay
  <2>6. \A x : x \in OnlyDelay(callbacks', in_callback') => x \in OnlyDelay(callbacks, in_callback) /\ x # u
    BY <2>2, <2>4, <2>5
  <2>7. \A x : x \in OnlyDelay(callbacks, in_callback) /\ x # u => x \in OnlyDelay(callbacks', in_callback')
    BY <2>4, <2>5 DEF u
  <2> QED BY <2>1, <2>6, <2>7
<1> HIDE DEF u
<1>17. ASSUME ~ disturbed PROVE Balance(count', uid, copier, callbacks', in_callback')
  <2> DEFINE D == NoDelay(callbacks)
             O == OnlyDelay(callbacks, in_callback)
             B == NoBytes(uid, copier)
  <2>1. /\ D \subseteq 1 .. uid_counter - 1 /\ O \subseteq 1 .. uid_counter - 1
        /\ B \subseteq 1 .. uid_counter - 1 /\ uid_counter - 1 \in Nat
    BY <1>1, CountedAreGiven
  <2>2. /\ u \in D /\ NoDelay(callbacks') = D \ {u}
        /\ u \in O /\ OnlyDelay(callbacks', in_callback') = O \ {u}
    BY <1>15, <1>16
  <2>3. Balance(count, uid, copier, callbacks, in_callback)
    BY <1>4, <1>17 DEF StatisticsInv
  <2>4. /\ count["bytes"] + Cardinality(B) = count["stream-delay"] + Cardinality(D)
        /\ count["time"] = count["stream-delay"] + Cardinality(O)
    BY <2>3 DEF Balance
  <2> HIDE DEF D, O
  <2>5. Cardinality(D \ {u}) = Cardinality(D) - 1 /\ Cardinality(D) \in Nat
    BY <2>1, <2>2, <1>7, CountTimings
  <2>6. Cardinality(O \ {u}) = Cardinality(O) - 1 /\ Cardinality(O) \in Nat
    BY <2>1, <2>2, <1>7, CountTimings
  <2>7. count' = [count EXCEPT !["stream-delay"] = @ + 1]
    BY <1>2, <1>9, <1>17
  <2>8. /\ count'["time"] = count["time"] /\ count'["bytes"] = count["bytes"]
        /\ count'["stream-delay"] = count["stream-delay"] + 1 /\ count["stream-delay"] \in Nat
    BY <2>7, <1>1 DEF Names
  <2>9. /\ count'["bytes"] + Cardinality(B) = count'["stream-delay"] + Cardinality(D \ {u})
        /\ count'["time"] = count'["stream-delay"] + Cardinality(O \ {u})
    BY <2>4, <2>5, <2>6, <2>8
  <2> QED BY <2>2, <2>9 DEF Balance
<1>18. Destroyed' => global_timings' = {}
  BY <1>2
<1>19. ~ Destroyed' => TimingsInv(callbacks', in_callback', global_timings', uid, copier)
  BY <1>2, <1>13
<1> QED
  BY <1>1, <1>2, <1>8, <1>10, <1>11, <1>12, <1>14, <1>17, <1>18, <1>19 DEF StatisticsInv

-----------------------------------------------------------------------------
(* The owner. *)

\* With nothing on its way there is nothing left to count.
LEMMA NothingLeft ==
  ASSUME ~ OnTheWay
  PROVE  /\ \A t \in Copiers : copier[t] = "idle" /\ in_callback[t] = "none" /\ callbacks[t] = <<>>
         /\ NoBytes(uid, copier) = {} /\ NoDelay(callbacks) = {} /\ OnlyDelay(callbacks, in_callback) = {}
<1>1. \A t \in Copiers : copier[t] = "idle" /\ in_callback[t] = "none" /\ callbacks[t] = <<>>
  BY DEF OnTheWay, Holders
<1>2. StopsOf(<<>>) = {}
  BY DEF StopsOf
<1>3. \A t \in Copiers : StopsOf(callbacks[t]) = {}
  BY <1>1, <1>2
<1>4. NoBytes(uid, copier) = {} /\ OnlyDelay(callbacks, in_callback) = {}
  BY <1>1 DEF NoBytes, OnlyDelay
<1>5. NoDelay(callbacks) = {}
  BY <1>3 DEF NoDelay
<1> QED BY <1>1, <1>4, <1>5

\* clear(), enable() and disable() find nothing on its way, or disturb it.
LEMMA ResetStep ==
  ASSUME StatisticsInv, toggle_enabled \/ clear_statistics
  PROVE  StatisticsInv'
<1>1. /\ StatisticsTypes /\ UidsDiffer(uid, uid_counter) /\ StopsDiffer(callbacks, uid_counter)
      /\ StopComes(callbacks, uid, copier) /\ CallbackInv(callbacks, in_callback)
      /\ count \in [Names -> Nat]
  BY StatisticsParts
<1>2. /\ owned
      /\ UNCHANGED <<has_entry, owned, global_timings, uid_counter, copier, uid, callbacks, in_callback>>
  BY DEF toggle_enabled, clear_statistics, Reset
<1>3. \/ enabled' = ~ enabled /\ disturbed' = (disturbed \/ OnTheWay) /\ count' = count
      \/ enabled' = enabled /\ disturbed' = OnTheWay /\ count' = [n \in Names |-> 0]
  BY DEF toggle_enabled, clear_statistics
<1>4. ~ Destroyed /\ ~ Destroyed'
  BY <1>2 DEF Destroyed
<1>5. Flags'
  <2>1. enabled \in BOOLEAN /\ has_entry \in BOOLEAN /\ owned \in BOOLEAN /\ disturbed \in BOOLEAN
    BY DEF Flags, StatisticsInv
  <2>2. OnTheWay \in BOOLEAN
    BY DEF OnTheWay
  <2>3. enabled' \in BOOLEAN
    BY <2>1, <1>3
  <2>4. disturbed' \in BOOLEAN
    BY <2>1, <2>2, <1>3
  <2> QED BY <2>1, <2>3, <2>4, <1>2 DEF Flags
<1>6. StatisticsTypes'
  <2>1. count' \in [Names -> Nat]
    BY <1>1, <1>3
  <2> QED BY <2>1, <1>1, <1>2 DEF StatisticsTypes
<1>7. ~ disturbed' => ~ OnTheWay
  BY <1>3
<1>8. ~ disturbed' => EnabledInv'
  BY <1>2, <1>7, NothingLeft DEF EnabledInv
<1>9. ASSUME ~ disturbed' PROVE Balance(count', uid, copier, callbacks, in_callback)
  <2>1. CASE ~ disturbed /\ count' = count
    BY <2>1, <1>4 DEF StatisticsInv
  <2>2. CASE count' = [n \in Names |-> 0]
    <3>1. count'["bytes"] = 0 /\ count'["time"] = 0 /\ count'["stream-delay"] = 0
      BY <2>2 DEF Names
    <3>2. NoBytes(uid, copier) = {} /\ NoDelay(callbacks) = {} /\ OnlyDelay(callbacks, in_callback) = {}
      BY <1>7, <1>9, NothingLeft
    <3> QED BY <3>1, <3>2, FS_EmptySet DEF Balance
  <2> QED BY <2>1, <2>2, <1>3, <1>9
<1>10. TimingsInv(callbacks, in_callback, global_timings, uid, copier)
  BY <1>4 DEF StatisticsInv
<1> QED
  BY <1>1, <1>2, <1>4, <1>5, <1>6, <1>8, <1>9, <1>10 DEF StatisticsInv

\* The owner gives up its shared_ptr, which may be the last one.
LEMMA ReleaseStep ==
  ASSUME StatisticsInv, release_statistics
  PROVE  StatisticsInv'
<1>1. /\ StatisticsTypes /\ UidsDiffer(uid, uid_counter) /\ StopsDiffer(callbacks, uid_counter)
      /\ StopComes(callbacks, uid, copier) /\ CallbackInv(callbacks, in_callback)
      /\ global_timings \subseteq Nat
  BY StatisticsParts
<1>2. /\ owned /\ owned' = FALSE
      /\ global_timings' = IF Destroyed' THEN {} ELSE global_timings
      /\ UNCHANGED <<copier, in_callback, enabled, count, has_entry, uid_counter, uid, callbacks, disturbed>>
  BY DEF release_statistics, cancel_inflight_timings
<1>3. ~ Destroyed
  BY <1>2 DEF Destroyed
<1>4. /\ TimingsInv(callbacks, in_callback, global_timings, uid, copier)
      /\ ~ disturbed => EnabledInv /\ Balance(count, uid, copier, callbacks, in_callback)
  BY <1>3 DEF StatisticsInv
<1>5. Flags'
  BY <1>2 DEF Flags, StatisticsInv
<1>6. StatisticsTypes'
  BY <1>1, <1>2 DEF StatisticsTypes
<1>7. ~ disturbed => EnabledInv'
  BY <1>2, <1>4 DEF EnabledInv
<1>8. /\ Destroyed' => global_timings' = {}
      /\ ~ Destroyed' => TimingsInv(callbacks, in_callback, global_timings', uid, copier)
  BY <1>2, <1>4
<1> QED
  BY <1>1, <1>2, <1>4, <1>5, <1>6, <1>7, <1>8 DEF StatisticsInv

\* Nothing happens.
LEMMA StatisticsStutter ==
  ASSUME StatisticsInv, UNCHANGED statisticsVars
  PROVE  StatisticsInv'
<1>1. UNCHANGED <<enabled, count, has_entry, owned, global_timings, uid_counter, copier, uid,
                  callbacks, in_callback, disturbed>>
  BY DEF statisticsVars
<1>2. (Destroyed' <=> Destroyed) /\ (Flags' <=> Flags) /\ (StatisticsTypes' <=> StatisticsTypes)
      /\ (EnabledInv' <=> EnabledInv)
  BY <1>1 DEF Destroyed, Holders, Flags, StatisticsTypes, EnabledInv
<1> QED BY <1>1, <1>2 DEF StatisticsInv

(***************************************************************************)
(* The inductive invariant of the statistics: timings have numbers of      *)
(* their own, a stop callback finds its timing unless the statistics are   *)
(* destroyed, and the counts of the three statistics differ by exactly the *)
(* copies that are on their way (StreamOrderedTiming, record_copy()).      *)
(***************************************************************************)
THEOREM StatisticsInvariant == StatisticsSpec => []StatisticsInv
<1>1. StatisticsInv /\ [StatisticsNext]_statisticsVars => StatisticsInv'
  <2> SUFFICES ASSUME StatisticsInv, [StatisticsNext]_statisticsVars PROVE StatisticsInv'
    OBVIOUS
  <2>1. ASSUME NEW t \in Copiers, callback_adds(t) PROVE StatisticsInv'
    <3>1. in_callback[t] = "time" \/ in_callback[t] = "delay"
      BY <2>1 DEF callback_adds
    <3> QED BY <2>1, <3>1, TimeStep, DelayStep
  <2>2. ASSUME NEW t \in Copiers,
               \/ timing_start(t) \/ copy_fails(t) \/ stop_and_record(t) \/ record_copy(t)
               \/ add_report_entry(t) \/ timing_start_cb(t) \/ timing_stop_cb(t) \/ callback_adds(t)
        PROVE  StatisticsInv'
    BY <2>1, <2>2, StartStep, EndStep, StopStep, RecordStep, StartCallbackStep, StopCallbackStep
  <2>3. CASE toggle_enabled \/ clear_statistics \/ release_statistics
    BY <2>3, ResetStep, ReleaseStep
  <2>4. CASE UNCHANGED statisticsVars
    BY <2>4, StatisticsStutter
  <2> QED BY <2>2, <2>3, <2>4 DEF StatisticsNext
<1> QED BY <1>1, StatisticsInitInv, PTL DEF StatisticsSpec

(***************************************************************************)
(* Once nothing is on its way, report() finds the counts of the three      *)
(* statistics of a copy equal, whichever copies have failed and in         *)
(* whatever order threads and callbacks have run, unless a reset has hit a *)
(* copy; and no timing outlives the statistics (~Statistics()).            *)
(***************************************************************************)
THEOREM StatisticsAgree == StatisticsSpec => []StatisticsSettle
<1>1. StatisticsInv => StatisticsSettle
  <2> SUFFICES ASSUME StatisticsInv PROVE StatisticsSettle
    OBVIOUS
  <2>1. Destroyed => global_timings = {}
    BY DEF StatisticsInv
  <2>2. ASSUME ~ OnTheWay, ~ disturbed, ~ Destroyed PROVE \A n \in Names : count[n] = count["bytes"]
    <3>1. NoBytes(uid, copier) = {} /\ NoDelay(callbacks) = {} /\ OnlyDelay(callbacks, in_callback) = {}
      BY <2>2, NothingLeft
    <3>2. Balance(count, uid, copier, callbacks, in_callback)
      BY <2>2 DEF StatisticsInv
    <3>3. count["bytes"] \in Nat /\ count["time"] \in Nat /\ count["stream-delay"] \in Nat
      BY StatisticsParts DEF Names
    <3>4. count["bytes"] = count["stream-delay"] /\ count["time"] = count["stream-delay"]
      BY <3>1, <3>2, <3>3, FS_EmptySet DEF Balance
    <3> QED BY <3>4 DEF Names
  <2> QED BY <2>1, <2>2 DEF StatisticsSettle, ReportThrows
<1> QED BY <1>1, StatisticsInvariant, PTL

-----------------------------------------------------------------------------
(* Sequences: their elements, and the one that replaces an element. *)

LEMMA FunIsSeq ==
  ASSUME NEW S, NEW n \in Nat, NEW f \in [1 .. n -> S]
  PROVE  f \in Seq(S) /\ Len(f) = n
OBVIOUS

LEMMA SeqElement ==
  ASSUME NEW S, NEW f \in Seq(S), NEW i \in 1 .. Len(f)
  PROVE  f[i] \in S
OBVIOUS

LEMMA SeqLast ==
  ASSUME NEW S, NEW f \in Seq(S), NEW n \in Nat \ {0}, n = Len(f)
  PROVE  f[n] \in S /\ n \in 1 .. Len(f) /\ f \in [1 .. n -> S]
OBVIOUS

LEMMA SeqReplace ==
  ASSUME NEW S, NEW f \in Seq(S), NEW n \in 1 .. Len(f), NEW e \in S
  PROVE  /\ [f EXCEPT ![n] = e] \in Seq(S) /\ Len([f EXCEPT ![n] = e]) = Len(f)
         /\ [f EXCEPT ![n] = e][n] = e
         /\ \A d \in 1 .. Len(f) : d # n => [f EXCEPT ![n] = e][d] = f[d]
OBVIOUS

-----------------------------------------------------------------------------
(* The CUPTI monitor. *)

Away == {"idle", "destroyed"}

MonitorInv ==
    /\ owner = [at |-> owner.at, starts |-> owner.starts]
    /\ monitoring_active \in BOOLEAN /\ subscribed \in BOOLEAN /\ half_subscribed \in BOOLEAN
    /\ owner.at \in {"idle", "activate", "first", "join", "final", "unsubscribe", "destroyed"}
    /\ owner.at \in {"activate", "join", "final", "unsubscribe", "destroyed"} => ~ monitoring_active
    /\ owner.at \in {"activate", "first", "final", "unsubscribe"} => sampling_thread = "none"
    /\ owner.at \in {"activate", "first"} => subscribed
    /\ owner.at = "first" => monitoring_active
    /\ half_subscribed => subscribed /\ ~ monitoring_active /\ owner.at \in Away
    /\ MonitorIsSound

LEMMA MonitorBegins == ASSUME MonitorInit PROVE MonitorInv
BY DEF MonitorInit, MonitorInv, MonitorIsSound

LEMMA MonitorStepKeeps == ASSUME MonitorInv, [MonitorNext]_monitorVars PROVE MonitorInv'
<1> USE DEF OwnerAt, monitorState, sampleVars, Away
<1>1. CASE subscribe
  <2>1. /\ owner.at = "idle" /\ ~ monitoring_active /\ UNCHANGED <<monitoring_active, sampling_thread>>
        /\ sampling_thread = "none" /\ (subscribed => half_subscribed) /\ (half_subscribed => subscribed)
        /\ subscribed \in BOOLEAN /\ half_subscribed \in BOOLEAN /\ monitoring_active \in BOOLEAN
        /\ owner = [at |-> owner.at, starts |-> owner.starts]
    BY <1>1 DEF subscribe, MonitorInv, MonitorIsSound
  <2>2. CASE /\ ~ subscribed /\ subscribed' = TRUE /\ UNCHANGED half_subscribed
             /\ owner' = [at |-> "activate", starts |-> owner.starts - 1]
    <3>1. owner'.at = "activate" /\ owner' = [at |-> owner'.at, starts |-> owner'.starts]
      BY <2>2
    <3> QED BY <3>1, <2>1, <2>2 DEF MonitorInv, MonitorIsSound
  <2>3. CASE /\ \/ subscribed' = TRUE /\ half_subscribed' = TRUE
                \/ UNCHANGED <<subscribed, half_subscribed>>
             /\ owner' = [owner EXCEPT !.starts = owner.starts - 1]
    <3>1. owner'.at = "idle" /\ owner' = [at |-> owner'.at, starts |-> owner'.starts]
      BY <2>1, <2>3
    <3>2. subscribed' \in BOOLEAN /\ half_subscribed' \in BOOLEAN /\ (subscribed' = half_subscribed')
      BY <2>1, <2>3
    <3> QED BY <3>1, <3>2, <2>1 DEF MonitorInv, MonitorIsSound
  <2> QED BY <1>1, <2>2, <2>3 DEF subscribe
<1>2. CASE activate
  BY <1>2 DEF activate, MonitorInv, MonitorIsSound
<1>3. CASE first_sample
  BY <1>3 DEF first_sample, MonitorInv, MonitorIsSound
<1>4. CASE deactivate
  BY <1>4 DEF deactivate, MonitorInv, MonitorIsSound
<1>5. CASE join_sampler
  BY <1>5 DEF join_sampler, MonitorInv, MonitorIsSound
<1>6. CASE final_sample
  BY <1>6 DEF final_sample, MonitorInv, MonitorIsSound
<1>7. CASE unsubscribe
  BY <1>7 DEF unsubscribe, MonitorInv, MonitorIsSound
<1>8. CASE destroy_monitor
  BY <1>8 DEF destroy_monitor, MonitorInv, MonitorIsSound
<1>9. CASE clear_samples \/ clear_callback_counters
  BY <1>9 DEF clear_samples, clear_callback_counters, MonitorInv, MonitorIsSound
<1>10. CASE periodic_memory_sampling
  BY <1>10 DEF periodic_memory_sampling, MonitorInv, MonitorIsSound
<1>11. CASE UNCHANGED <<monitorState, owner, sampling_thread>>
  BY <1>11 DEF MonitorInv, MonitorIsSound
<1>12. CASE UNCHANGED monitorVars
  BY <1>11, <1>12 DEF monitorVars
<1> QED BY <1>1, <1>2, <1>3, <1>4, <1>5, <1>6, <1>7, <1>8, <1>9, <1>10, <1>11, <1>12
        DEF MonitorNext, start_monitoring, stop_monitoring

-----------------------------------------------------------------------------
(* The allocation records. *)

Records == [current : Int, total : Int, peak : Int]
Scopes == [held : Int, peak : Int]
Busy(t) == user_at[t] # <<"idle">>

RmmTypes ==
    /\ upstream \subseteq Addresses /\ IsFiniteSet(upstream) /\ in_use \subseteq upstream
    /\ main_record \in Records
    /\ record_stacks \in [Users -> Seq(Records)]
    /\ true_scopes \in [Users -> Seq(Scopes)]
    /\ user_at \in [Users -> {<<"idle">>} \cup ({"allocated", "deallocating"} \X Addresses)]
    /\ \A p \in DOMAIN allocating_threads : p \in in_use /\ allocating_threads[p] \in Users
    /\ wrong_peaks = 0 /\ duplicate = FALSE

\* An address with which a thread is in allocate() or deallocate() is in use upstream and in
\* no record, and no other thread is at it.
AddressesInv ==
    /\ \A t \in Users : Busy(t) => user_at[t][2] \in upstream \ in_use
    /\ \A t, u \in Users : Busy(t) /\ Busy(u) /\ t # u => user_at[t][2] # user_at[u][2]

\* The scope inside scope d, if there is one.
Inside(s, d) == IF d < Len(s) THEN s[d + 1] ELSE EmptyScope

\* A record tells what its scope holds less the scope inside, and its peak together with that
\* of the scope inside is the true one.
StackInv(stack, s) ==
    /\ Len(stack) = Len(s)
    /\ \A d \in 1 .. Len(s) :
          /\ stack[d].current <= stack[d].peak
          /\ s[d].held = stack[d].current + Inside(s, d).held
          /\ s[d].peak = Larger(stack[d].peak, stack[d].current + Inside(s, d).peak)

RmmInv ==
    /\ RmmTypes /\ AddressesInv
    /\ main_record.current = Cardinality(in_use)
    /\ \A t \in Users : StackInv(record_stacks[t], true_scopes[t])

LEMMA RmmBegins == ASSUME RmmInit PROVE RmmInv
<1>1. RmmTypes
  BY FS_EmptySet DEF RmmInit, RmmTypes, EmptyRecord, Records
<1>2. AddressesInv
  BY DEF RmmInit, AddressesInv, Busy
<1>3. main_record.current = Cardinality(in_use)
  BY FS_EmptySet DEF RmmInit, EmptyRecord
<1>4. \A t \in Users : StackInv(record_stacks[t], true_scopes[t])
  BY DEF RmmInit, StackInv
<1> QED BY <1>1, <1>2, <1>3, <1>4 DEF RmmInv

\* What the five changes do to the records of one thread.
LEMMA ScopeBegins ==
  ASSUME NEW stack \in Seq(Records), NEW s \in Seq(Scopes), StackInv(stack, s)
  PROVE  StackInv(Append(stack, EmptyRecord), Append(s, EmptyScope))
<1> DEFINE st == Append(stack, EmptyRecord)
           sc == Append(s, EmptyScope)
<1>1. /\ EmptyRecord \in Records /\ EmptyScope \in Scopes /\ Len(stack) = Len(s) /\ Len(s) \in Nat
      /\ Len(st) = Len(sc) /\ Len(sc) = Len(s) + 1
      /\ \A d \in 1 .. Len(s) : st[d] = stack[d] /\ sc[d] = s[d] /\ stack[d] \in Records /\ s[d] \in Scopes
      /\ st[Len(s) + 1] = EmptyRecord /\ sc[Len(s) + 1] = EmptyScope
  <2>1. EmptyRecord \in Records /\ EmptyScope \in Scopes
    BY DEF EmptyRecord, EmptyScope, Records, Scopes
  <2>2. Len(stack) = Len(s) /\ Len(s) \in Nat
    BY DEF StackInv
  <2> QED BY <2>1, <2>2
<1>2. ASSUME NEW d \in 1 .. Len(s) + 1
      PROVE  /\ st[d].current <= st[d].peak
             /\ sc[d].held = st[d].current + Inside(sc, d).held
             /\ sc[d].peak = Larger(st[d].peak, st[d].current + Inside(sc, d).peak)
  <2>1. CASE d = Len(s) + 1
    BY <2>1, <1>1 DEF Inside, EmptyRecord, EmptyScope, Larger
  <2>2. CASE d < Len(s) + 1
    <3>1. d \in 1 .. Len(s) /\ Inside(sc, d) = Inside(s, d)
      <4>1. CASE d < Len(s)
        BY <4>1, <1>1 DEF Inside
      <4>2. CASE d = Len(s)
        BY <4>2, <1>1 DEF Inside
      <4> QED BY <2>2, <4>1, <4>2, <1>1
    <3> QED BY <3>1, <1>1 DEF StackInv
  <2> QED BY <2>1, <2>2, <1>1
<1> HIDE DEF st, sc
<1>3. StackInv(st, sc)
  BY <1>1, <1>2 DEF StackInv
<1> QED BY <1>3 DEF st, sc

LEMMA SubscopeAdded ==
  ASSUME NEW a \in Records, NEW b \in Records, b.current <= b.peak
  PROVE  /\ add_subscope(a, b) \in Records
         /\ add_subscope(a, b).current = a.current + b.current
         /\ add_subscope(a, b).peak = Larger(a.peak, a.current + b.peak)
         /\ a.current + b.current <= Larger(a.peak, a.current + b.peak)
<1>1. /\ a.current \in Int /\ a.total \in Int /\ a.peak \in Int
      /\ b.current \in Int /\ b.total \in Int /\ b.peak \in Int
  BY DEF Records
<1>2. /\ Larger(a.peak, a.current + b.peak) \in Int
      /\ a.current + b.current <= Larger(a.peak, a.current + b.peak)
  BY <1>1 DEF Larger
<1> QED BY <1>1, <1>2 DEF add_subscope, Records

LEMMA ScopeEnds ==
  ASSUME NEW stack \in Seq(Records), NEW s \in Seq(Scopes), StackInv(stack, s), stack # <<>>,
         NEW rest, rest = Front(stack),
         NEW st, st = IF rest = <<>> THEN rest
                      ELSE Append(Front(rest), add_subscope(Last(rest), Last(stack)))
  PROVE  /\ StackInv(st, Front(s)) /\ st \in Seq(Records) /\ Front(s) \in Seq(Scopes)
         /\ Last(stack).peak = Last(s).peak
<1> DEFINE n == Len(s)
<1>1. /\ Len(stack) = n /\ n \in Nat \ {0}
      /\ \A d \in 1 .. n : stack[d] \in Records /\ s[d] \in Scopes
  BY DEF StackInv
<1>2. /\ Last(stack) = stack[n] /\ Last(s) = s[n]
      /\ stack[n].current <= stack[n].peak
      /\ s[n].held = stack[n].current + EmptyScope.held
      /\ s[n].peak = Larger(stack[n].peak, stack[n].current + EmptyScope.peak)
  BY <1>1 DEF Last, StackInv, Inside
<1>3. /\ s[n].peak = stack[n].peak /\ s[n].held = stack[n].current
  BY <1>1, <1>2 DEF EmptyScope, Larger, Records
<1>4. /\ Front(s) = SubSeq(s, 1, n - 1) /\ rest = SubSeq(stack, 1, n - 1)
      /\ Front(s) \in Seq(Scopes) /\ rest \in Seq(Records)
      /\ Len(Front(s)) = n - 1 /\ Len(rest) = n - 1
      /\ \A d \in 1 .. n - 1 : Front(s)[d] = s[d] /\ rest[d] = stack[d]
  BY <1>1 DEF Front
<1>5. CASE n = 1
  <2>1. rest = <<>> /\ st = <<>>
    BY <1>4, <1>5
  <2> QED BY <2>1, <1>1, <1>2, <1>3, <1>4, <1>5 DEF StackInv
<1>6. CASE n > 1
  <2>1. rest # <<>> /\ Last(rest) = stack[n - 1]
    <3>1. n - 1 \in 1 .. n - 1 /\ Last(rest) = rest[n - 1] /\ Len(<<>>) = 0
      BY <1>1, <1>4, <1>6 DEF Last
    <3> QED BY <3>1, <1>4, <1>6
  <2>2. PICK r : r = add_subscope(stack[n - 1], stack[n])
    OBVIOUS
  <2>3. /\ stack[n - 1] \in Records /\ stack[n] \in Records /\ r \in Records
        /\ r.current = stack[n - 1].current + stack[n].current
        /\ r.peak = Larger(stack[n - 1].peak, stack[n - 1].current + stack[n].peak)
        /\ r.current <= r.peak
    BY <2>2, <1>1, <1>2, <1>6, SubscopeAdded
  <2>4. /\ Front(rest) \in Seq(Records) /\ Len(Front(rest)) = n - 2
        /\ \A d \in 1 .. n - 2 : Front(rest)[d] = stack[d]
    BY <1>4, <1>1, <1>6 DEF Front
  <2>5. /\ st = Append(Front(rest), r) /\ st \in Seq(Records) /\ Len(st) = n - 1
        /\ st[n - 1] = r /\ \A d \in 1 .. n - 2 : st[d] = stack[d]
    BY <2>1, <2>2, <2>3, <2>4, <1>2, <1>1, <1>6
  <2>6. ASSUME NEW d \in 1 .. n - 1
        PROVE  /\ st[d].current <= st[d].peak
               /\ s[d].held = st[d].current + Inside(Front(s), d).held
               /\ s[d].peak = Larger(st[d].peak, st[d].current + Inside(Front(s), d).peak)
    <3>1. /\ stack[d].current <= stack[d].peak
          /\ s[d].held = stack[d].current + s[d + 1].held
          /\ s[d].peak = Larger(stack[d].peak, stack[d].current + s[d + 1].peak)
      BY <1>1 DEF StackInv, Inside
    <3>2. CASE d < n - 1
      <4>1. Inside(Front(s), d) = s[d + 1] /\ st[d] = stack[d]
        BY <3>2, <1>1, <1>4, <2>5 DEF Inside
      <4> QED BY <3>1, <4>1
    <3>3. CASE d = n - 1
      <4>1. Inside(Front(s), d) = EmptyScope /\ st[d] = r /\ s[d + 1] = s[n]
        BY <3>3, <1>1, <1>4, <2>5 DEF Inside
      <4>2. /\ s[d].held = stack[n - 1].current + stack[n].current
            /\ s[d].peak = Larger(stack[n - 1].peak, stack[n - 1].current + stack[n].peak)
        BY <4>1, <3>1, <3>3, <1>3
      <4>3. r.current <= r.peak /\ r.current \in Int /\ r.peak \in Int
        BY <2>3 DEF Records
      <4>4. s[d].held = r.current + 0 /\ s[d].peak = Larger(r.peak, r.current + 0)
        BY <4>2, <4>3, <2>3 DEF Larger
      <4>5. EmptyScope.held = 0 /\ EmptyScope.peak = 0
        BY DEF EmptyScope
      <4> QED BY <4>1, <4>3, <4>4, <4>5
    <3>4. d < n - 1 \/ d = n - 1
      BY <1>1
    <3> QED BY <3>2, <3>3, <3>4
  <2> QED BY <2>5, <2>6, <1>2, <1>3, <1>4 DEF StackInv
<1> QED BY <1>1, <1>5, <1>6

\* Entries of a stack and of the scopes as tuples of integers.
LEMMA StackEntries ==
  ASSUME NEW stack \in Seq(Records), NEW s \in Seq(Scopes), StackInv(stack, s), NEW d \in 1 .. Len(s)
  PROVE  /\ stack[d] \in Records /\ s[d] \in Scopes /\ Inside(s, d) \in Scopes
         /\ stack[d].current \in Int /\ stack[d].peak \in Int /\ stack[d].current <= stack[d].peak
         /\ s[d].held \in Int /\ s[d].peak \in Int
         /\ Inside(s, d).held \in Int /\ Inside(s, d).peak \in Int
         /\ s[d].held = stack[d].current + Inside(s, d).held
         /\ s[d].peak = Larger(stack[d].peak, stack[d].current + Inside(s, d).peak)
<1>1. Len(stack) = Len(s) /\ stack[d] \in Records /\ s[d] \in Scopes
  BY DEF StackInv
<1>2. EmptyScope \in Scopes
  BY DEF EmptyScope, Scopes
<1>3. Inside(s, d) \in Scopes
  <2>1. CASE d < Len(s)
    <3>1. d + 1 \in 1 .. Len(s)
      BY <2>1
    <3> QED BY <2>1, <3>1 DEF Inside
  <2>2. CASE ~ d < Len(s)
    BY <2>2, <1>2 DEF Inside
  <2> QED BY <2>1, <2>2
<1> QED BY <1>1, <1>3 DEF StackInv, Records, Scopes

LEMMA ScopesKeepTheirForm ==
  ASSUME NEW s \in Seq(Scopes)
  PROVE  /\ ScopesAllocate(s) \in Seq(Scopes) /\ ScopesDeallocate(s) \in Seq(Scopes)
         /\ Len(ScopesAllocate(s)) = Len(s) /\ Len(ScopesDeallocate(s)) = Len(s)
         /\ \A d \in 1 .. Len(s) :
               /\ ScopesAllocate(s)[d] = [held |-> s[d].held + 1, peak |-> Larger(s[d].peak, s[d].held + 1)]
               /\ ScopesDeallocate(s)[d] = [held |-> s[d].held - 1, peak |-> s[d].peak]
<1>1. DOMAIN s = 1 .. Len(s) /\ Len(s) \in Nat
  OBVIOUS
<1>2. ASSUME NEW d \in 1 .. Len(s)
      PROVE  /\ [held |-> s[d].held + 1, peak |-> Larger(s[d].peak, s[d].held + 1)] \in Scopes
             /\ [held |-> s[d].held - 1, peak |-> s[d].peak] \in Scopes
  <2>0. s[d] \in Scopes
    OBVIOUS
  <2>1. s[d].held \in Int /\ s[d].peak \in Int
    BY <2>0 DEF Scopes
  <2>2. Larger(s[d].peak, s[d].held + 1) \in Int
    BY <2>1 DEF Larger
  <2> QED BY <2>1, <2>2 DEF Scopes
<1>3. /\ ScopesAllocate(s) \in [1 .. Len(s) -> Scopes] /\ ScopesDeallocate(s) \in [1 .. Len(s) -> Scopes]
      /\ \A d \in 1 .. Len(s) :
            /\ ScopesAllocate(s)[d] = [held |-> s[d].held + 1, peak |-> Larger(s[d].peak, s[d].held + 1)]
            /\ ScopesDeallocate(s)[d] = [held |-> s[d].held - 1, peak |-> s[d].peak]
  BY <1>1, <1>2 DEF ScopesAllocate, ScopesDeallocate
<1>4. ASSUME NEW f \in [1 .. Len(s) -> Scopes] PROVE f \in Seq(Scopes) /\ Len(f) = Len(s)
  BY <1>1, FunIsSeq
<1> QED BY <1>2, <1>3, <1>4

LEMMA PeaksAdd ==
  ASSUME NEW c \in Int, NEW p \in Int, NEW h \in Int, NEW k \in Int
  PROVE  Larger(Larger(p, c + k), c + h + 1) = Larger(p, c + Larger(k, h + 1))
BY DEF Larger

LEMMA TopAllocates ==
  ASSUME NEW stack \in Seq(Records), NEW s \in Seq(Scopes), StackInv(stack, s), stack # <<>>,
         NEW st, st = [stack EXCEPT ![Len(stack)] = record_allocation(stack[Len(stack)])]
  PROVE  st \in Seq(Records) /\ StackInv(st, ScopesAllocate(s))
<1>1. PICK n \in Nat \ {0} : n = Len(stack) /\ n = Len(s)
  BY DEF StackInv
<1>2. PICK sc : sc = ScopesAllocate(s)
  OBVIOUS
<1>3. /\ sc \in Seq(Scopes) /\ Len(sc) = n
      /\ \A d \in 1 .. n : sc[d].held = s[d].held + 1 /\ sc[d].peak = Larger(s[d].peak, s[d].held + 1)
  <2>1. \A d \in 1 .. n : sc[d] = [held |-> s[d].held + 1, peak |-> Larger(s[d].peak, s[d].held + 1)]
    BY <1>1, <1>2, ScopesKeepTheirForm
  <2>2. sc \in Seq(Scopes) /\ Len(sc) = n
    BY <1>1, <1>2, ScopesKeepTheirForm
  <2> QED BY <2>1, <2>2
<1>4. PICK r : r = record_allocation(stack[n])
  OBVIOUS
<1>5. /\ r \in Records /\ r.current = stack[n].current + 1
      /\ r.peak = Larger(stack[n].peak, stack[n].current + 1)
  <2>0. stack[n] \in Records
    BY <1>1, SeqLast
  <2>1. stack[n].current \in Int /\ stack[n].total \in Int /\ stack[n].peak \in Int
    BY <2>0 DEF Records
  <2>2. Larger(stack[n].peak, stack[n].current + 1) \in Int
    BY <2>1 DEF Larger
  <2>3. r = [current |-> stack[n].current + 1, total |-> stack[n].total + 1,
             peak |-> Larger(stack[n].peak, stack[n].current + 1)]
    BY <1>4 DEF record_allocation
  <2>4. stack[n].current + 1 \in Int /\ stack[n].total + 1 \in Int
    BY <2>1
  <2> QED BY <2>2, <2>3, <2>4 DEF Records
<1>6. /\ st \in Seq(Records) /\ Len(st) = n /\ st[n] = r
      /\ \A d \in 1 .. n : d # n => st[d] = stack[d]
  <2>1. st = [stack EXCEPT ![n] = r] /\ n \in 1 .. Len(stack)
    BY <1>1, <1>4, SeqLast
  <2>2. /\ st \in Seq(Records) /\ Len(st) = Len(stack) /\ st[n] = r
        /\ \A d \in 1 .. Len(stack) : d # n => st[d] = stack[d]
    BY <2>1, <1>5, SeqReplace
  <2> QED BY <2>2, <1>1
<1>7. ASSUME NEW d \in 1 .. n
      PROVE  /\ st[d].current <= st[d].peak
             /\ sc[d].held = st[d].current + Inside(sc, d).held
             /\ sc[d].peak = Larger(st[d].peak, st[d].current + Inside(sc, d).peak)
  <2>1. PICK i : i = Inside(s, d)
    OBVIOUS
  <2>2. /\ stack[d].current \in Int /\ stack[d].peak \in Int /\ stack[d].current <= stack[d].peak
        /\ s[d].held \in Int /\ s[d].peak \in Int /\ i.held \in Int /\ i.peak \in Int
        /\ s[d].held = stack[d].current + i.held
        /\ s[d].peak = Larger(stack[d].peak, stack[d].current + i.peak)
    BY <1>1, <2>1, StackEntries
  <2>3. /\ sc[d].held = s[d].held + 1 /\ sc[d].peak = Larger(s[d].peak, s[d].held + 1)
    BY <1>3
  <2>4. CASE d = n
    <3>1. i = EmptyScope /\ Inside(sc, d) = EmptyScope /\ st[d] = r
      BY <2>1, <2>4, <1>1, <1>3, <1>6 DEF Inside
    <3>2. i.held = 0 /\ i.peak = 0 /\ Inside(sc, d).held = 0 /\ Inside(sc, d).peak = 0
      BY <3>1 DEF EmptyScope
    <3> QED BY <2>2, <2>3, <2>4, <3>1, <3>2, <1>5, SMTT(30) DEF Larger
  <2>5. CASE d # n
    <3>1. d < n /\ d + 1 \in 1 .. n /\ d \in Int
      BY <2>5, <1>1
    <3>2. Inside(sc, d) = sc[d + 1] /\ i = s[d + 1] /\ st[d] = stack[d]
      BY <3>1, <2>1, <2>5, <1>1, <1>3, <1>6 DEF Inside
    <3>4. /\ stack[d].current \in Int /\ stack[d].peak \in Int /\ i.held \in Int /\ i.peak \in Int
          /\ sc[d].held = stack[d].current + i.held + 1
      BY <2>2, <2>3
    <3>3. Inside(sc, d).held = i.held + 1 /\ Inside(sc, d).peak = Larger(i.peak, i.held + 1)
      BY <3>1, <3>2, <1>3
    <3>5. sc[d].held = st[d].current + Inside(sc, d).held
      BY <3>2, <3>3, <3>4
    <3>6. sc[d].peak = Larger(st[d].peak, st[d].current + Inside(sc, d).peak)
      <4>1. sc[d].peak = Larger(Larger(stack[d].peak, stack[d].current + i.peak),
                                stack[d].current + i.held + 1)
        BY <2>2, <2>3
      <4>2. sc[d].peak = Larger(stack[d].peak, stack[d].current + Larger(i.peak, i.held + 1))
        BY <4>1, <2>2, PeaksAdd, SMTT(30)
      <4> QED BY <4>2, <3>2, <3>3
    <3> QED BY <3>2, <3>5, <3>6, <2>2
  <2> QED BY <2>4, <2>5
<1> QED BY <1>2, <1>3, <1>6, <1>7 DEF StackInv

LEMMA TopDeallocates ==
  ASSUME NEW stack \in Seq(Records), NEW s \in Seq(Scopes), StackInv(stack, s), stack # <<>>,
         NEW st, st = [stack EXCEPT ![Len(stack)] = record_deallocation(stack[Len(stack)])]
  PROVE  st \in Seq(Records) /\ StackInv(st, ScopesDeallocate(s))
<1>1. PICK n \in Nat \ {0} : n = Len(stack) /\ n = Len(s)
  BY DEF StackInv
<1>2. PICK sc : sc = ScopesDeallocate(s)
  OBVIOUS
<1>3. /\ sc \in Seq(Scopes) /\ Len(sc) = n
      /\ \A d \in 1 .. n : sc[d].held = s[d].held - 1 /\ sc[d].peak = s[d].peak
  <2>1. \A d \in 1 .. n : sc[d] = [held |-> s[d].held - 1, peak |-> s[d].peak]
    BY <1>1, <1>2, ScopesKeepTheirForm
  <2>2. sc \in Seq(Scopes) /\ Len(sc) = n
    BY <1>1, <1>2, ScopesKeepTheirForm
  <2> QED BY <2>1, <2>2
<1>4. PICK r : r = record_deallocation(stack[n])
  OBVIOUS
<1>5. r \in Records /\ r.current = stack[n].current - 1 /\ r.peak = stack[n].peak
  <2>1. stack[n] \in Records
    BY <1>1, SeqLast
  <2>2. stack[n] = [current |-> stack[n].current, total |-> stack[n].total, peak |-> stack[n].peak]
        /\ stack[n].current \in Int /\ stack[n].total \in Int /\ stack[n].peak \in Int
    BY <2>1 DEF Records
  <2>3. r = [current |-> stack[n].current - 1, total |-> stack[n].total, peak |-> stack[n].peak]
    BY <1>4, <2>2 DEF record_deallocation
  <2> QED BY <2>2, <2>3 DEF Records
<1>6. /\ st \in Seq(Records) /\ Len(st) = n /\ st[n] = r
      /\ \A d \in 1 .. n : d # n => st[d] = stack[d]
  <2>1. st = [stack EXCEPT ![n] = r] /\ n \in 1 .. Len(stack)
    BY <1>1, <1>4, SeqLast
  <2>2. /\ st \in Seq(Records) /\ Len(st) = Len(stack) /\ st[n] = r
        /\ \A d \in 1 .. Len(stack) : d # n => st[d] = stack[d]
    BY <2>1, <1>5, SeqReplace
  <2> QED BY <2>2, <1>1
<1>7. ASSUME NEW d \in 1 .. n
      PROVE  /\ st[d].current <= st[d].peak
             /\ sc[d].held = st[d].current + Inside(sc, d).held
             /\ sc[d].peak = Larger(st[d].peak, st[d].current + Inside(sc, d).peak)
  <2>1. PICK i : i = Inside(s, d)
    OBVIOUS
  <2>2. /\ stack[d].current \in Int /\ stack[d].peak \in Int /\ stack[d].current <= stack[d].peak
        /\ s[d].held \in Int /\ s[d].peak \in Int /\ i.held \in Int /\ i.peak \in Int
        /\ s[d].held = stack[d].current + i.held
        /\ s[d].peak = Larger(stack[d].peak, stack[d].current + i.peak)
    BY <1>1, <2>1, StackEntries
  <2>3. sc[d].held = s[d].held - 1 /\ sc[d].peak = s[d].peak
    BY <1>3
  <2>4. CASE d = n
    <3>1. i = EmptyScope /\ Inside(sc, d) = EmptyScope /\ st[d] = r
      BY <2>1, <2>4, <1>1, <1>3, <1>6 DEF Inside
    <3>2. i.held = 0 /\ i.peak = 0 /\ Inside(sc, d).held = 0 /\ Inside(sc, d).peak = 0
      BY <3>1 DEF EmptyScope
    <3> QED BY <2>2, <2>3, <2>4, <3>1, <3>2, <1>5 DEF Larger
  <2>5. CASE d # n
    <3>1. d < n /\ d + 1 \in 1 .. n /\ d \in Int
      BY <2>5, <1>1
    <3>2. Inside(sc, d) = sc[d + 1] /\ i = s[d + 1] /\ st[d] = stack[d]
      BY <3>1, <2>1, <2>5, <1>1, <1>3, <1>6 DEF Inside
    <3>4. /\ stack[d].current \in Int /\ stack[d].peak \in Int /\ i.held \in Int /\ i.peak \in Int
          /\ sc[d].held = stack[d].current + i.held - 1
      BY <2>2, <2>3
    <3>3. Inside(sc, d).held = i.held - 1 /\ Inside(sc, d).peak = i.peak
      BY <3>1, <3>2, <1>3
    <3>5. sc[d].held = st[d].current + Inside(sc, d).held
      BY <3>2, <3>3, <3>4
    <3>6. sc[d].peak = Larger(st[d].peak, st[d].current + Inside(sc, d).peak)
      BY <3>2, <3>3, <2>2, <2>3
    <3> QED BY <3>2, <3>5, <3>6, <2>2
  <2> QED BY <2>4, <2>5
<1> QED BY <1>2, <1>3, <1>6, <1>7 DEF StackInv

\* A step that touches the addresses and the bytes of the process, but no scope.
LEMMA RmmScopesStay ==
  ASSUME RmmInv, RmmTypes', AddressesInv', main_record'.current = Cardinality(in_use'),
         UNCHANGED <<record_stacks, true_scopes>>
  PROVE  RmmInv'
BY DEF RmmInv

LEMMA RmmBeginScope ==
  ASSUME RmmInv, NEW t \in Users, begin_scoped_memory_record(t)
  PROVE  RmmInv'
<1>1. /\ record_stacks' = [record_stacks EXCEPT ![t] = Append(record_stacks[t], EmptyRecord)]
      /\ true_scopes' = [true_scopes EXCEPT ![t] = Append(true_scopes[t], EmptyScope)]
      /\ UNCHANGED <<upstream, main_record, allocating_threads, user_at, in_use, duplicate, wrong_peaks>>
  BY DEF begin_scoped_memory_record
<1>2. RmmTypes /\ AddressesInv /\ main_record.current = Cardinality(in_use)
  BY DEF RmmInv
<1>3. EmptyRecord \in Records /\ EmptyScope \in Scopes
  BY DEF EmptyRecord, EmptyScope, Records, Scopes
<1>4. /\ record_stacks \in [Users -> Seq(Records)] /\ true_scopes \in [Users -> Seq(Scopes)]
  BY <1>2 DEF RmmTypes
<1>5. /\ record_stacks' \in [Users -> Seq(Records)] /\ true_scopes' \in [Users -> Seq(Scopes)]
  <2>1. Append(record_stacks[t], EmptyRecord) \in Seq(Records) /\ Append(true_scopes[t], EmptyScope) \in Seq(Scopes)
    BY <1>3, <1>4
  <2> QED BY <1>1, <1>4, <2>1
<1>6. RmmTypes'
  BY <1>1, <1>2, <1>5 DEF RmmTypes
<1>7. AddressesInv' /\ main_record'.current = Cardinality(in_use')
  BY <1>1, <1>2 DEF AddressesInv, Busy
<1>8. ASSUME NEW u \in Users PROVE StackInv(record_stacks'[u], true_scopes'[u])
  <2>1. StackInv(record_stacks[u], true_scopes[u]) /\ record_stacks[u] \in Seq(Records) /\ true_scopes[u] \in Seq(Scopes)
    BY <1>4 DEF RmmInv
  <2>2. CASE u = t
    <3>1. StackInv(Append(record_stacks[u], EmptyRecord), Append(true_scopes[u], EmptyScope))
      BY <2>1, ScopeBegins
    <3> QED BY <3>1, <2>2, <1>1, <1>4
  <2>3. CASE u # t
    <3>1. record_stacks'[u] = record_stacks[u] /\ true_scopes'[u] = true_scopes[u]
      BY <2>3, <1>1, <1>4
    <3> QED BY <3>1, <2>1
  <2> QED BY <2>2, <2>3
<1> QED BY <1>6, <1>7, <1>8 DEF RmmInv

LEMMA RmmEndScope ==
  ASSUME RmmInv, NEW t \in Users, end_scoped_memory_record(t)
  PROVE  RmmInv'
<1>1. PICK stack, s, rest, st :
        /\ stack = record_stacks[t] /\ s = true_scopes[t] /\ rest = Front(stack)
        /\ st = IF rest = <<>> THEN rest ELSE Append(Front(rest), add_subscope(Last(rest), Last(stack)))
  OBVIOUS
<1>2. /\ stack # <<>>
      /\ record_stacks' = [record_stacks EXCEPT ![t] = st]
      /\ wrong_peaks' = wrong_peaks + (IF Last(stack).peak = Last(s).peak THEN 0 ELSE 1)
      /\ true_scopes' = [true_scopes EXCEPT ![t] = Front(s)]
      /\ UNCHANGED <<upstream, main_record, allocating_threads, user_at, in_use, duplicate>>
  BY <1>1 DEF end_scoped_memory_record
<1>3. RmmTypes /\ AddressesInv /\ main_record.current = Cardinality(in_use)
  BY DEF RmmInv
<1>4. /\ record_stacks \in [Users -> Seq(Records)] /\ true_scopes \in [Users -> Seq(Scopes)]
  BY <1>3 DEF RmmTypes
<1>5. stack \in Seq(Records) /\ s \in Seq(Scopes) /\ StackInv(stack, s)
  BY <1>1, <1>4 DEF RmmInv
<1>6. /\ StackInv(st, Front(s)) /\ st \in Seq(Records) /\ Front(s) \in Seq(Scopes)
      /\ Last(stack).peak = Last(s).peak
  BY <1>1, <1>2, <1>5, ScopeEnds, ZenonT(40)
<1>7. wrong_peaks' = 0
  BY <1>2, <1>3, <1>6 DEF RmmTypes
<1>8. RmmTypes'
  <2>1. /\ record_stacks' \in [Users -> Seq(Records)] /\ true_scopes' \in [Users -> Seq(Scopes)]
    BY <1>2, <1>4, <1>6
  <2> QED BY <2>1, <1>2, <1>3, <1>7 DEF RmmTypes
<1>9. AddressesInv' /\ main_record'.current = Cardinality(in_use')
  BY <1>2, <1>3 DEF AddressesInv, Busy
<1>10. ASSUME NEW u \in Users PROVE StackInv(record_stacks'[u], true_scopes'[u])
  <2>1. CASE u = t
    BY <2>1, <1>2, <1>4, <1>6
  <2>2. CASE u # t
    <3>1. record_stacks'[u] = record_stacks[u] /\ true_scopes'[u] = true_scopes[u]
      BY <2>2, <1>2, <1>4
    <3> QED BY <3>1 DEF RmmInv
  <2> QED BY <2>1, <2>2
<1> QED BY <1>8, <1>9, <1>10 DEF RmmInv

LEMMA RmmAllocateUpstream ==
  ASSUME RmmInv, NEW t \in Users, allocate_upstream(t)
  PROVE  RmmInv'
<1>1. PICK p \in Addresses \ upstream :
        upstream' = upstream \cup {p} /\ user_at' = [user_at EXCEPT ![t] = <<"allocated", p>>]
  BY DEF allocate_upstream
<1>2. /\ user_at[t] = <<"idle">>
      /\ UNCHANGED <<main_record, record_stacks, allocating_threads, in_use, duplicate, true_scopes, wrong_peaks>>
  BY DEF allocate_upstream
<1>3. RmmTypes /\ AddressesInv /\ main_record.current = Cardinality(in_use)
  BY DEF RmmInv
<1>4. user_at \in [Users -> {<<"idle">>} \cup ({"allocated", "deallocating"} \X Addresses)]
  BY <1>3 DEF RmmTypes
<1>5. RmmTypes'
  <2>1. IsFiniteSet(upstream') /\ upstream' \subseteq Addresses /\ in_use' \subseteq upstream'
    BY <1>1, <1>2, <1>3, FS_AddElement DEF RmmTypes
  <2>2. user_at' \in [Users -> {<<"idle">>} \cup ({"allocated", "deallocating"} \X Addresses)]
    BY <1>1, <1>4
  <2> QED BY <2>1, <2>2, <1>2, <1>3 DEF RmmTypes
<1>6. AddressesInv'
  <2>1. user_at'[t] = <<"allocated", p>> /\ user_at'[t][2] = p
    BY <1>1, <1>4
  <2>2. \A u \in Users \ {t} : user_at'[u] = user_at[u]
    BY <1>1, <1>4
  <2>3. p \notin upstream /\ in_use \subseteq upstream
    BY <1>1, <1>3 DEF RmmTypes
  <2>4. \A u \in Users : Busy(u)' => user_at'[u][2] \in upstream' \ in_use'
    BY <2>1, <2>2, <2>3, <1>1, <1>2, <1>3 DEF AddressesInv, Busy
  <2>5. \A u \in Users \ {t} : Busy(u)' => user_at'[u][2] # p
    BY <2>2, <2>3, <1>3 DEF AddressesInv, Busy
  <2>6. \A u, v \in Users : Busy(u)' /\ Busy(v)' /\ u # v => user_at'[u][2] # user_at'[v][2]
    BY <2>1, <2>2, <2>5, <1>3 DEF AddressesInv, Busy
  <2> QED BY <2>4, <2>6 DEF AddressesInv
<1> QED BY <1>2, <1>3, <1>5, <1>6, RmmScopesStay

LEMMA RmmDeallocateUpstream ==
  ASSUME RmmInv, NEW t \in Users, deallocate_upstream(t)
  PROVE  RmmInv'
<1>1. /\ user_at[t][1] = "deallocating"
      /\ upstream' = upstream \ {user_at[t][2]}
      /\ user_at' = [user_at EXCEPT ![t] = <<"idle">>]
      /\ UNCHANGED <<main_record, record_stacks, allocating_threads, in_use, duplicate, true_scopes, wrong_peaks>>
  BY DEF deallocate_upstream
<1>2. RmmTypes /\ AddressesInv /\ main_record.current = Cardinality(in_use)
  BY DEF RmmInv
<1>3. user_at \in [Users -> {<<"idle">>} \cup ({"allocated", "deallocating"} \X Addresses)]
  BY <1>2 DEF RmmTypes
<1>4. Busy(t)
  <2>1. <<"idle">>[1] = "idle"
    OBVIOUS
  <2> QED BY <2>1, <1>1 DEF Busy
<1>5. user_at[t][2] \in upstream \ in_use
  BY <1>2, <1>4 DEF AddressesInv
<1>6. RmmTypes'
  <2>1. IsFiniteSet(upstream') /\ upstream' \subseteq Addresses /\ in_use' \subseteq upstream'
    <3>1. IsFiniteSet(upstream) /\ upstream \subseteq Addresses /\ in_use \subseteq upstream
      BY <1>2 DEF RmmTypes
    <3>2. IsFiniteSet(upstream')
      BY <3>1, <1>1, FS_RemoveElement
    <3> QED BY <3>1, <3>2, <1>1, <1>5
  <2>2. user_at' \in [Users -> {<<"idle">>} \cup ({"allocated", "deallocating"} \X Addresses)]
    BY <1>1, <1>3
  <2> QED BY <2>1, <2>2, <1>1, <1>2 DEF RmmTypes
<1>7. AddressesInv'
  <2>1. ~ Busy(t)' /\ \A u \in Users \ {t} : user_at'[u] = user_at[u]
    BY <1>1, <1>3 DEF Busy
  <2>2. \A u \in Users \ {t} : Busy(u)' => Busy(u) /\ user_at[u][2] # user_at[t][2]
    BY <2>1, <1>2, <1>4 DEF AddressesInv, Busy
  <2>3. \A u \in Users : Busy(u)' => user_at'[u][2] \in upstream' \ in_use'
    BY <2>1, <2>2, <1>1, <1>2 DEF AddressesInv
  <2>4. \A u, v \in Users : Busy(u)' /\ Busy(v)' /\ u # v => user_at'[u][2] # user_at'[v][2]
    BY <2>1, <2>2, <1>2 DEF AddressesInv
  <2> QED BY <2>3, <2>4 DEF AddressesInv
<1> QED BY <1>1, <1>2, <1>6, <1>7, RmmScopesStay

\* What an allocation or deallocation does to the stack of the thread it counts for.
LEMMA RmmTop ==
  ASSUME RmmInv, NEW t \in Users
  PROVE  /\ OnTop(t, record_allocation) \in [Users -> Seq(Records)]
         /\ OnTop(t, record_deallocation) \in [Users -> Seq(Records)]
         /\ \A u \in Users \ {t} : /\ OnTop(t, record_allocation)[u] = record_stacks[u]
                                   /\ OnTop(t, record_deallocation)[u] = record_stacks[u]
         /\ StackInv(OnTop(t, record_allocation)[t], ScopesAllocate(true_scopes[t]))
         /\ StackInv(OnTop(t, record_deallocation)[t], ScopesDeallocate(true_scopes[t]))
         /\ ScopesAllocate(true_scopes[t]) \in Seq(Scopes)
         /\ ScopesDeallocate(true_scopes[t]) \in Seq(Scopes)
<1>1. /\ record_stacks \in [Users -> Seq(Records)] /\ true_scopes \in [Users -> Seq(Scopes)]
  BY DEF RmmInv, RmmTypes
<1>2. PICK stack, s : stack = record_stacks[t] /\ s = true_scopes[t]
  OBVIOUS
<1>3. stack \in Seq(Records) /\ s \in Seq(Scopes) /\ StackInv(stack, s)
  BY <1>1, <1>2 DEF RmmInv
<1>4. /\ ScopesAllocate(s) \in Seq(Scopes) /\ ScopesDeallocate(s) \in Seq(Scopes)
      /\ Len(ScopesAllocate(s)) = Len(s) /\ Len(ScopesDeallocate(s)) = Len(s)
  BY <1>3, ScopesKeepTheirForm
<1>5. CASE stack = <<>>
  <2>1. OnTop(t, record_allocation) = record_stacks /\ OnTop(t, record_deallocation) = record_stacks
    BY <1>2, <1>5 DEF OnTop
  <2>2. Len(stack) = 0 /\ Len(s) = 0
    BY <1>3, <1>5 DEF StackInv
  <2>3. StackInv(stack, ScopesAllocate(s)) /\ StackInv(stack, ScopesDeallocate(s))
    BY <2>2, <1>4 DEF StackInv
  <2> QED BY <2>1, <2>3, <1>1, <1>2, <1>4
<1>6. CASE stack # <<>>
  <2>1. PICK st, sd : /\ st = [stack EXCEPT ![Len(stack)] = record_allocation(stack[Len(stack)])]
                      /\ sd = [stack EXCEPT ![Len(stack)] = record_deallocation(stack[Len(stack)])]
    OBVIOUS
  <2>2. /\ OnTop(t, record_allocation) = [record_stacks EXCEPT ![t] = st]
        /\ OnTop(t, record_deallocation) = [record_stacks EXCEPT ![t] = sd]
    BY <2>1, <1>1, <1>2, <1>6 DEF OnTop
  <2>3. st \in Seq(Records) /\ StackInv(st, ScopesAllocate(s))
    BY <2>1, <1>3, <1>6, TopAllocates
  <2>4. sd \in Seq(Records) /\ StackInv(sd, ScopesDeallocate(s))
    BY <2>1, <1>3, <1>6, TopDeallocates
  <2> QED BY <2>2, <2>3, <2>4, <1>1, <1>2, <1>4
<1> QED BY <1>5, <1>6

LEMMA RmmAllocateRecord ==
  ASSUME RmmInv, NEW t \in Users, allocate_record(t)
  PROVE  RmmInv'
<1>1. PICK p : p = user_at[t][2]
  OBVIOUS
<1>2. /\ user_at[t][1] = "allocated"
      /\ record_stacks' = OnTop(t, record_allocation)
      /\ duplicate' = (duplicate \/ (record_stacks[t] # <<>> /\ p \in DOMAIN allocating_threads))
      /\ \/ allocating_threads' = Insert(p, t) \/ UNCHANGED allocating_threads
      /\ in_use' = in_use \cup {p}
      /\ main_record' = record_allocation(main_record)
      /\ true_scopes' = [true_scopes EXCEPT ![t] = ScopesAllocate(true_scopes[t])]
      /\ user_at' = [user_at EXCEPT ![t] = <<"idle">>]
      /\ UNCHANGED <<upstream, wrong_peaks>>
  BY <1>1 DEF allocate_record
<1>3. RmmTypes /\ AddressesInv /\ main_record.current = Cardinality(in_use)
  BY DEF RmmInv
<1>4. /\ user_at \in [Users -> {<<"idle">>} \cup ({"allocated", "deallocating"} \X Addresses)]
      /\ true_scopes \in [Users -> Seq(Scopes)] /\ IsFiniteSet(upstream) /\ in_use \subseteq upstream
      /\ main_record \in Records /\ duplicate = FALSE
      /\ \A a \in DOMAIN allocating_threads : a \in in_use /\ allocating_threads[a] \in Users
  BY <1>3 DEF RmmTypes
<1>5. Busy(t) /\ p \in upstream \ in_use
  <2>1. <<"idle">>[1] = "idle"
    OBVIOUS
  <2>2. Busy(t)
    BY <2>1, <1>2 DEF Busy
  <2> QED BY <2>2, <1>1, <1>3 DEF AddressesInv
<1>6. p \notin DOMAIN allocating_threads /\ duplicate' = FALSE
  BY <1>2, <1>4, <1>5
<1>7. main_record' \in Records /\ main_record'.current = Cardinality(in_use')
  <2>1. main_record.current \in Int /\ main_record.total \in Int /\ main_record.peak \in Int
    BY <1>4 DEF Records
  <2>2. Larger(main_record.peak, main_record.current + 1) \in Int
    BY <2>1 DEF Larger
  <2>3. main_record' \in Records /\ main_record'.current = main_record.current + 1
    <3>1. main_record' = [current |-> main_record.current + 1, total |-> main_record.total + 1,
                          peak |-> Larger(main_record.peak, main_record.current + 1)]
      BY <1>2 DEF record_allocation
    <3> QED BY <3>1, <2>1, <2>2 DEF Records
  <2>4. IsFiniteSet(in_use)
    BY <1>4, FS_Subset
  <2>5. Cardinality(in_use') = Cardinality(in_use) + 1
    BY <2>4, <1>2, <1>5, FS_AddElement
  <2> QED BY <2>3, <2>5, <1>3
<1>8. \A a \in DOMAIN allocating_threads' : a \in in_use' /\ allocating_threads'[a] \in Users
  <2>1. CASE UNCHANGED allocating_threads
    BY <2>1, <1>2, <1>4
  <2>2. CASE allocating_threads' = Insert(p, t)
    BY <2>2, <1>2, <1>4 DEF Insert
  <2> QED BY <2>1, <2>2, <1>2
<1>9. RmmTypes'
  <2>1. record_stacks' \in [Users -> Seq(Records)] /\ true_scopes' \in [Users -> Seq(Scopes)]
    BY <1>2, <1>4, RmmTop
  <2>2. user_at' \in [Users -> {<<"idle">>} \cup ({"allocated", "deallocating"} \X Addresses)]
    BY <1>2, <1>4
  <2>3. in_use' \subseteq upstream'
    BY <1>2, <1>4, <1>5
  <2> QED BY <2>1, <2>2, <2>3, <1>2, <1>3, <1>6, <1>7, <1>8 DEF RmmTypes
<1>10. AddressesInv'
  <2>1. ~ Busy(t)' /\ \A u \in Users \ {t} : user_at'[u] = user_at[u]
    BY <1>2, <1>4 DEF Busy
  <2>2. \A u \in Users \ {t} : Busy(u)' => Busy(u) /\ user_at[u][2] # p
    BY <2>1, <1>1, <1>3, <1>5 DEF AddressesInv, Busy
  <2>3. \A u \in Users : Busy(u)' => user_at'[u][2] \in upstream' \ in_use'
    BY <2>1, <2>2, <1>2, <1>3 DEF AddressesInv
  <2>4. \A u, v \in Users : Busy(u)' /\ Busy(v)' /\ u # v => user_at'[u][2] # user_at'[v][2]
    BY <2>1, <2>2, <1>3 DEF AddressesInv
  <2> QED BY <2>3, <2>4 DEF AddressesInv
<1>11. ASSUME NEW u \in Users PROVE StackInv(record_stacks'[u], true_scopes'[u])
  <2>1. CASE u = t
    <3>1. true_scopes'[u] = ScopesAllocate(true_scopes[t])
      BY <2>1, <1>2, <1>4
    <3> QED BY <2>1, <3>1, <1>2, RmmTop
  <2>2. CASE u # t
    <3>1. record_stacks'[u] = record_stacks[u] /\ true_scopes'[u] = true_scopes[u]
      BY <2>2, <1>2, <1>4, RmmTop
    <3> QED BY <3>1 DEF RmmInv
  <2> QED BY <2>1, <2>2
<1> QED BY <1>7, <1>9, <1>10, <1>11 DEF RmmInv

LEMMA RmmDeallocateRecord ==
  ASSUME RmmInv, NEW t \in Users, deallocate_record(t)
  PROVE  RmmInv'
<1>1. PICK p \in in_use :
        /\ in_use' = in_use \ {p} /\ Deallocated(p)
        /\ user_at' = [user_at EXCEPT ![t] = <<"deallocating", p>>]
  BY DEF deallocate_record
<1>2. user_at[t] = <<"idle">> /\ UNCHANGED <<upstream, duplicate, wrong_peaks>>
  BY DEF deallocate_record
<1>3. RmmTypes /\ AddressesInv /\ main_record.current = Cardinality(in_use)
  BY DEF RmmInv
<1>4. /\ user_at \in [Users -> {<<"idle">>} \cup ({"allocated", "deallocating"} \X Addresses)]
      /\ true_scopes \in [Users -> Seq(Scopes)] /\ record_stacks \in [Users -> Seq(Records)]
      /\ IsFiniteSet(upstream) /\ in_use \subseteq upstream
      /\ main_record \in Records /\ upstream \subseteq Addresses
      /\ \A a \in DOMAIN allocating_threads : a \in in_use /\ allocating_threads[a] \in Users
  BY <1>3 DEF RmmTypes
<1>5. main_record' \in Records /\ main_record'.current = Cardinality(in_use')
  <2>1. /\ main_record.current \in Int /\ main_record.total \in Int /\ main_record.peak \in Int
        /\ main_record = [current |-> main_record.current, total |-> main_record.total, peak |-> main_record.peak]
    BY <1>4 DEF Records
  <2>2. main_record' = [current |-> main_record.current - 1, total |-> main_record.total, peak |-> main_record.peak]
    BY <2>1, <1>1 DEF Deallocated, record_deallocation
  <2>3. main_record' \in Records /\ main_record'.current = main_record.current - 1
    BY <2>1, <2>2 DEF Records
  <2>4. IsFiniteSet(in_use)
    BY <1>4, FS_Subset
  <2>5. Cardinality(in_use') = Cardinality(in_use) - 1
    BY <2>4, <1>1, FS_RemoveElement
  <2> QED BY <2>3, <2>5, <1>3
<1>6. \A a \in DOMAIN allocating_threads' : a \in in_use' /\ allocating_threads'[a] \in Users
  BY <1>1, <1>4 DEF Deallocated
<1>7. /\ record_stacks' \in [Users -> Seq(Records)] /\ true_scopes' \in [Users -> Seq(Scopes)]
      /\ \A u \in Users : StackInv(record_stacks'[u], true_scopes'[u])
  <2>1. CASE p \notin DOMAIN allocating_threads
    <3>1. UNCHANGED <<record_stacks, true_scopes>>
      BY <2>1, <1>1 DEF Deallocated
    <3> QED BY <3>1, <1>4 DEF RmmInv
  <2>2. CASE p \in DOMAIN allocating_threads
    <3>1. PICK w \in Users : w = allocating_threads[p]
      BY <2>2, <1>4
    <3>2. /\ record_stacks' = OnTop(w, record_deallocation)
          /\ true_scopes' = [true_scopes EXCEPT ![w] = ScopesDeallocate(true_scopes[w])]
      BY <2>2, <3>1, <1>1 DEF Deallocated
    <3>3. record_stacks' \in [Users -> Seq(Records)] /\ true_scopes' \in [Users -> Seq(Scopes)]
      BY <3>2, <1>4, RmmTop
    <3>4. ASSUME NEW u \in Users PROVE StackInv(record_stacks'[u], true_scopes'[u])
      <4>1. CASE u = w
        <5>1. true_scopes'[u] = ScopesDeallocate(true_scopes[w])
          BY <4>1, <3>2, <1>4
        <5> QED BY <4>1, <5>1, <3>2, RmmTop
      <4>2. CASE u # w
        <5>1. record_stacks'[u] = record_stacks[u] /\ true_scopes'[u] = true_scopes[u]
          BY <4>2, <3>2, <1>4, RmmTop
        <5> QED BY <5>1 DEF RmmInv
      <4> QED BY <4>1, <4>2
    <3> QED BY <3>3, <3>4
  <2> QED BY <2>1, <2>2
<1>8. RmmTypes'
  <2>1. user_at' \in [Users -> {<<"idle">>} \cup ({"allocated", "deallocating"} \X Addresses)]
    <3>1. <<"deallocating", p>> \in {"allocated", "deallocating"} \X Addresses
      BY <1>1, <1>4
    <3> QED BY <3>1, <1>1, <1>4
  <2> QED BY <2>1, <1>1, <1>2, <1>3, <1>5, <1>6, <1>7 DEF RmmTypes
<1>9. AddressesInv'
  <2>1. user_at'[t] = <<"deallocating", p>> /\ user_at'[t][2] = p
    BY <1>1, <1>4
  <2>2. \A u \in Users \ {t} : user_at'[u] = user_at[u]
    BY <1>1, <1>4
  <2>3. \A u \in Users \ {t} : Busy(u)' => Busy(u) /\ user_at'[u][2] \in upstream \ in_use
    BY <2>2, <1>3 DEF AddressesInv, Busy
  <2>4. \A u \in Users : Busy(u)' => user_at'[u][2] \in upstream' \ in_use'
    BY <2>1, <2>3, <1>1, <1>2, <1>4
  <2>5. \A u \in Users \ {t} : Busy(u)' => user_at'[u][2] # p
    BY <2>3, <1>1
  <2>6. \A u, v \in Users : Busy(u)' /\ Busy(v)' /\ u # v => user_at'[u][2] # user_at'[v][2]
    BY <2>1, <2>2, <2>3, <2>5, <1>3 DEF AddressesInv
  <2> QED BY <2>4, <2>6 DEF AddressesInv
<1> QED BY <1>5, <1>7, <1>8, <1>9 DEF RmmInv

LEMMA RmmStepKeeps == ASSUME RmmInv, [RmmNext]_rmmVars PROVE RmmInv'
<1>1. CASE UNCHANGED rmmVars
  BY <1>1 DEF rmmVars, RmmInv, RmmTypes, AddressesInv, Busy
<1>2. CASE RmmNext
  BY <1>2, RmmBeginScope, RmmEndScope, RmmAllocateUpstream, RmmAllocateRecord, RmmDeallocateRecord,
     RmmDeallocateUpstream DEF RmmNext
<1> QED BY <1>1, <1>2

LEMMA RecordsTrue == ASSUME RmmInv PROVE AllocationRecordsAreTrue
<1>1. IsFiniteSet(upstream) /\ in_use \subseteq upstream /\ ~ duplicate /\ wrong_peaks = 0
  BY DEF RmmInv, RmmTypes
<1>2. Cardinality(in_use) <= Cardinality(upstream)
  BY <1>1, FS_Subset
<1> QED BY <1>1, <1>2 DEF RmmInv, AllocationRecordsAreTrue, ReuseIsClean, ScopePeakIsTrue

-----------------------------------------------------------------------------
(* The composition: every part takes its steps and the others none. *)

LEMMA ServiceParts ==
  /\ Init => RmmInit /\ MonitorInit
  /\ [Next]_networkVars => [RmmNext]_rmmVars /\ [MonitorNext]_monitorVars
<1>1. Init => RmmInit /\ MonitorInit
  BY DEF Init
<1>2. ASSUME [Next]_networkVars PROVE [RmmNext]_rmmVars /\ [MonitorNext]_monitorVars
  BY <1>2 DEF Next, Progress, Services, networkVars, serviceVars
<1> QED BY <1>1, <1>2

\* Whichever thread frees what, and however scopes nest, the records of allocations tell what
\* has happened: no address is recorded twice, the process holds no more than the upstream
\* resource has given, and ending a scope returns its true peak.  The CUPTI monitor leaves no
\* thread and no subscription behind when it is stopped.
THEOREM ProfilesHold == Spec => []ProfilesAreTrue
<1>1. Init => RmmInv /\ MonitorInv
  BY ServiceParts, RmmBegins, MonitorBegins
<1>2. RmmInv /\ MonitorInv /\ [Next]_networkVars => RmmInv' /\ MonitorInv'
  BY ServiceParts, RmmStepKeeps, MonitorStepKeeps
<1>3. RmmInv /\ MonitorInv => ProfilesAreTrue
  BY RecordsTrue DEF MonitorInv, ProfilesAreTrue
<1> QED BY <1>1, <1>2, <1>3, PTL DEF Spec

-----------------------------------------------------------------------------
(* Channels and the actors at their ends. *)

Messages == Nat \cup Throttled
States == {"running", "draining", "stopped"}
RingBuffers == [held : Seq(Messages), state : States]

ChannelTypes ==
    /\ rb \in [Channels -> RingBuffers]
    /\ received \in [Outputs -> Seq(Messages)]
    /\ consumer \in [Outputs -> {"pulling", "closed", "ended"}]
    /\ producer \in [at : {"insert", "send", "drain", "leave", "ended"}, message : Nat, of : Nat]

\* What the consumer of o has got is the beginning of the stream, and o holds nothing or what
\* comes next.
InSequence(o) ==
    /\ \A i \in 1 .. Len(received[o]) : received[o][i] = i
    /\ rb[o].held = <<>> \/ rb[o].held = <<Len(received[o]) + 1>>
Given(o) == Len(received[o]) + Len(rb[o].held)

\* The channel of a consumer that stays is in this state, and n messages have been sent to it;
\* a consumer that has seen the end has got everything.
OutputIs(o, state, n) ==
    /\ InSequence(o)
    /\ consumer[o] = "closed" => rb[o].state = "stopped"
    /\ consumer[o] = "ended" =>
          rb[o].state = "stopped" /\ rb[o].held = <<>> /\ Len(received[o]) = producer.of
    /\ consumer[o] = "pulling" =>
          /\ rb[o].state = state /\ Given(o) = n
          /\ state = "stopped" => rb[o].held = <<>>
          /\ state # "running" => n = producer.of

\* The input, of which n messages have been taken, as long as only its producer shuts it down.
InputIs(n) ==
    /\ n \in Nat
    /\ rb["in"].held = <<>> \/ rb["in"].held = <<n + 1>>
    /\ \/ /\ rb["in"].state = "running" /\ producer.at \in {"insert", "send"}
          /\ producer.message = n + Len(rb["in"].held) + 1
          /\ producer.message <= producer.of + 1
          /\ producer.at = "send" => producer.message <= producer.of
       \/ /\ rb["in"].state = "draining" /\ producer.at = "drain"
          /\ n + Len(rb["in"].held) = producer.of
       \/ /\ rb["in"].state = "stopped" /\ producer.at = "ended"
          /\ rb["in"].held = <<>> /\ n = producer.of

LEMMA RbProduced ==
  ASSUME rb \in [Channels -> RingBuffers], NEW c \in Channels, NEW m \in Messages
  PROVE  /\ Produced(c, m) \in [Channels -> RingBuffers]
         /\ Produced(c, m)[c].held = <<m>> /\ Produced(c, m)[c].state = rb[c].state
         /\ \A d \in Channels \ {c} : Produced(c, m)[d] = rb[d]
<1>1. rb[c] \in RingBuffers /\ <<m>> \in Seq(Messages)
  OBVIOUS
<1>2. [rb[c] EXCEPT !.held = <<m>>] = [held |-> <<m>>, state |-> rb[c].state]
  BY <1>1 DEF RingBuffers
<1>3. [held |-> <<m>>, state |-> rb[c].state] \in RingBuffers
  BY <1>1 DEF RingBuffers
<1>4. Produced(c, m) = [rb EXCEPT ![c] = [held |-> <<m>>, state |-> rb[c].state]]
  BY <1>2 DEF Produced
<1> QED BY <1>3, <1>4

LEMMA RbConsumed ==
  ASSUME rb \in [Channels -> RingBuffers], NEW c \in Channels
  PROVE  /\ Consumed(c) \in [Channels -> RingBuffers]
         /\ Consumed(c)[c].held = <<>> /\ Consumed(c)[c].state = rb[c].state
         /\ \A d \in Channels \ {c} : Consumed(c)[d] = rb[d]
<1>1. rb[c] \in RingBuffers /\ <<>> \in Seq(Messages)
  OBVIOUS
<1>2. [rb[c] EXCEPT !.held = <<>>] = [held |-> <<>>, state |-> rb[c].state]
  BY <1>1 DEF RingBuffers
<1>3. [held |-> <<>>, state |-> rb[c].state] \in RingBuffers
  BY <1>1 DEF RingBuffers
<1>4. Consumed(c) = [rb EXCEPT ![c] = [held |-> <<>>, state |-> rb[c].state]]
  BY <1>2 DEF Consumed
<1> QED BY <1>3, <1>4

LEMMA RbShutdown ==
  ASSUME rb \in [Channels -> RingBuffers], NEW cs
  PROVE  /\ Stopped(cs) \in [Channels -> RingBuffers] /\ Draining(cs) \in [Channels -> RingBuffers]
         /\ \A c \in Channels : /\ Stopped(cs)[c].held = rb[c].held
                                /\ Draining(cs)[c].held = rb[c].held
         /\ \A c \in Channels \cap cs :
               /\ Stopped(cs)[c].state = "stopped"
               /\ Draining(cs)[c].state = IF rb[c].state = "running" THEN "draining" ELSE rb[c].state
         /\ \A c \in Channels \ cs : Stopped(cs)[c] = rb[c] /\ Draining(cs)[c] = rb[c]
<1>1. ASSUME NEW c \in Channels, NEW s \in States
      PROVE  /\ [rb[c] EXCEPT !.state = s] \in RingBuffers
             /\ [rb[c] EXCEPT !.state = s].held = rb[c].held /\ [rb[c] EXCEPT !.state = s].state = s
  <2>1. rb[c] \in RingBuffers
    OBVIOUS
  <2>2. [rb[c] EXCEPT !.state = s] = [held |-> rb[c].held, state |-> s]
    BY <2>1 DEF RingBuffers
  <2>3. [held |-> rb[c].held, state |-> s] \in RingBuffers
    BY <2>1 DEF RingBuffers
  <2> QED BY <2>2, <2>3
<1>2. "stopped" \in States /\ "draining" \in States
  BY DEF States
<1>3. \A c \in Channels : rb[c] \in RingBuffers
  OBVIOUS
<1>4. Stopped(cs) \in [Channels -> RingBuffers]
  BY <1>1, <1>2, <1>3 DEF Stopped
<1>5. Draining(cs) \in [Channels -> RingBuffers]
  BY <1>1, <1>2, <1>3 DEF Draining
<1>6. ASSUME NEW c \in Channels, c \notin cs
      PROVE  Stopped(cs)[c] = rb[c] /\ Draining(cs)[c] = rb[c]
  BY <1>6 DEF Stopped, Draining
<1>7. ASSUME NEW c \in Channels, c \in cs
      PROVE  /\ Stopped(cs)[c].held = rb[c].held /\ Stopped(cs)[c].state = "stopped"
             /\ Draining(cs)[c].held = rb[c].held
             /\ Draining(cs)[c].state = IF rb[c].state = "running" THEN "draining" ELSE rb[c].state
  <2>1. Stopped(cs)[c] = [rb[c] EXCEPT !.state = "stopped"]
    BY <1>7 DEF Stopped
  <2>2. Stopped(cs)[c].held = rb[c].held /\ Stopped(cs)[c].state = "stopped"
    BY <2>1, <1>1, <1>2
  <2>3. CASE rb[c].state = "running"
    <3>1. Draining(cs)[c] = [rb[c] EXCEPT !.state = "draining"]
      BY <1>7, <2>3 DEF Draining
    <3>2. Draining(cs)[c].held = rb[c].held /\ Draining(cs)[c].state = "draining"
      BY <3>1, <1>1, <1>2
    <3> QED BY <2>2, <2>3, <3>2
  <2>4. CASE rb[c].state # "running"
    <3>1. Draining(cs)[c] = rb[c]
      BY <1>7, <2>4 DEF Draining
    <3> QED BY <2>2, <2>4, <3>1
  <2> QED BY <2>3, <2>4
<1> QED BY <1>4, <1>5, <1>6, <1>7

\* An output whose channel and consumer do not change stays what it is.
LEMMA OutputStays ==
  ASSUME NEW o, NEW state, NEW n, OutputIs(o, state, n), rb'[o] = rb[o], received'[o] = received[o],
         consumer'[o] = consumer[o], producer'.of = producer.of
  PROVE  OutputIs(o, state, n)'
BY DEF OutputIs, InSequence, Given

LEMMA NothingIsIn == \A o \in Outputs : o # "in" /\ o \in Channels /\ "in" \in Channels
BY OutputsAssumption DEF Channels

\* What the consumer of an output does.
LEMMA LeafKeeps ==
  ASSUME ChannelTypes, NEW p \in Outputs, pull_from_channel(p) \/ close_channel(p),
         InSequence(p)
  PROVE  /\ ChannelTypes' /\ rb'["in"] = rb["in"] /\ producer' = producer
         /\ \A m : <<"cache", m>> \in container => <<"cache", m>> \in container'
         /\ \A o \in Outputs : rb[o].held = <<>> => rb'[o].held = <<>>
         /\ \A o \in Outputs : consumer'[o] = "pulling" => consumer[o] = "pulling"
         /\ \A o \in Outputs, state \in States, n \in Nat :
               OutputIs(o, state, n) => OutputIs(o, state, n)'
<1>1. /\ rb \in [Channels -> RingBuffers] /\ received \in [Outputs -> Seq(Messages)]
      /\ consumer \in [Outputs -> {"pulling", "closed", "ended"}]
      /\ p \in Channels /\ p # "in" /\ "in" \in Channels /\ p # "cache"
  BY NothingIsIn, OutputsAssumption DEF ChannelTypes
<1>2. \A o \in Outputs : o \in Channels
  BY NothingIsIn
<1>3. producer' = producer
  BY DEF pull_from_channel, close_channel
<1>4. CASE pull_from_channel(p) /\ receive(p)
  <2>1. /\ consumer[p] = "pulling" /\ rb' = Consumed(p) /\ rb[p].held # <<>> /\ rb[p].state # "stopped"
        /\ received' = [received EXCEPT ![p] = Append(received[p], Head(rb[p].held))]
        /\ container' = container \ {<<p, Head(rb[p].held)>>} /\ UNCHANGED consumer
    BY <1>4 DEF pull_from_channel, receive, CanConsume, ConsumeFails
  <2>2. /\ rb' \in [Channels -> RingBuffers] /\ rb'[p].held = <<>> /\ rb'[p].state = rb[p].state
        /\ \A c \in Channels \ {p} : rb'[c] = rb[c]
    BY <2>1, <1>1, RbConsumed
  <2>3. /\ received[p] \in Seq(Messages) /\ Len(received[p]) \in Nat /\ rb[p].held = <<Len(received[p]) + 1>>
        /\ Head(rb[p].held) = Len(received[p]) + 1 /\ Len(rb[p].held) = 1
        /\ Len(received[p]) + 1 \in Messages
    <3>1. received[p] \in Seq(Messages)
      BY <1>1
    <3>2. Len(received[p]) \in Nat
      BY <3>1
    <3>3. rb[p].held = <<Len(received[p]) + 1>>
      BY <2>1 DEF InSequence
    <3>4. Head(rb[p].held) = Len(received[p]) + 1 /\ Len(rb[p].held) = 1
      BY <3>3
    <3>5. Len(received[p]) + 1 \in Messages
      BY <3>2 DEF Messages
    <3> QED BY <3>1, <3>2, <3>3, <3>4, <3>5
  <2>4. /\ received' \in [Outputs -> Seq(Messages)]
        /\ received'[p] = Append(received[p], Len(received[p]) + 1)
        /\ \A o \in Outputs \ {p} : received'[o] = received[o]
    BY <2>1, <2>3, <1>1
  <2>5. ChannelTypes'
    BY <2>1, <2>2, <2>4, <1>3 DEF ChannelTypes
  <2>6. /\ Len(received'[p]) = Len(received[p]) + 1
        /\ \A i \in 1 .. Len(received'[p]) : received'[p][i] = i
    BY <2>3, <2>4 DEF InSequence
  <2>7. ASSUME NEW state \in States, NEW n \in Nat, OutputIs(p, state, n)
        PROVE  OutputIs(p, state, n)'
    <3>1. InSequence(p)'
      BY <2>2, <2>6 DEF InSequence
    <3>2. Given(p)' = Given(p)
      BY <2>2, <2>3, <2>6 DEF Given
    <3> QED BY <3>1, <3>2, <2>1, <2>2, <2>7, <1>3 DEF OutputIs
  <2>8. ASSUME NEW o \in Outputs, NEW state \in States, NEW n \in Nat, OutputIs(o, state, n)
        PROVE  OutputIs(o, state, n)'
    <3>1. CASE o = p
      BY <3>1, <2>7, <2>8
    <3>2. CASE o # p
      BY <3>2, <2>1, <2>2, <2>4, <2>8, <1>2, <1>3, OutputStays
    <3> QED BY <3>1, <3>2
  <2>9. \A m : <<"cache", m>> \in container => <<"cache", m>> \in container'
    BY <2>1, <1>1
  <2>10. \A o \in Outputs : rb[o].held = <<>> => rb'[o].held = <<>>
    BY <2>2, <1>2
  <2> QED BY <2>1, <2>2, <2>5, <2>8, <2>9, <2>10, <1>1, <1>3
<1>5. CASE pull_from_channel(p) /\ ~ receive(p)
  <2>1. /\ consumer[p] = "pulling" /\ rb[p].state = "stopped"
        /\ consumer' = [consumer EXCEPT ![p] = "ended"] /\ UNCHANGED <<rb, container, received>>
    BY <1>5 DEF pull_from_channel, ConsumeFails
  <2>2. ChannelTypes' /\ consumer'[p] = "ended" /\ \A o \in Outputs \ {p} : consumer'[o] = consumer[o]
    BY <2>1, <1>1, <1>3 DEF ChannelTypes
  <2>3. ASSUME NEW state \in States, NEW n \in Nat, OutputIs(p, state, n)
        PROVE  OutputIs(p, state, n)'
    <3>1. Given(p) = producer.of /\ rb[p].held = <<>>
      BY <2>1, <2>3 DEF OutputIs
    <3>2. Len(received[p]) = producer.of
      BY <3>1, <1>1 DEF Given
    <3> QED BY <3>1, <3>2, <2>1, <2>2, <2>3, <1>3 DEF OutputIs, InSequence
  <2>4. ASSUME NEW o \in Outputs, NEW state \in States, NEW n \in Nat, OutputIs(o, state, n)
        PROVE  OutputIs(o, state, n)'
    <3>1. CASE o = p
      BY <3>1, <2>3, <2>4
    <3>2. CASE o # p
      BY <3>2, <2>1, <2>2, <2>4, <1>3, OutputStays
    <3> QED BY <3>1, <3>2
  <2> QED BY <2>1, <2>2, <2>4, <1>3
<1>6. CASE close_channel(p)
  <2>1. /\ consumer[p] = "pulling" /\ rb' = Stopped({p})
        /\ consumer' = [consumer EXCEPT ![p] = "closed"] /\ UNCHANGED <<container, received>>
    BY <1>6 DEF close_channel
  <2>2. /\ rb' \in [Channels -> RingBuffers] /\ rb'[p].held = rb[p].held /\ rb'[p].state = "stopped"
        /\ \A c \in Channels \ {p} : rb'[c] = rb[c]
    BY <2>1, <1>1, RbShutdown
  <2>3. ChannelTypes' /\ consumer'[p] = "closed" /\ \A o \in Outputs \ {p} : consumer'[o] = consumer[o]
    BY <2>1, <2>2, <1>1, <1>3 DEF ChannelTypes
  <2>4. ASSUME NEW o \in Outputs, NEW state \in States, NEW n \in Nat, OutputIs(o, state, n)
        PROVE  OutputIs(o, state, n)'
    <3>1. CASE o = p
      BY <3>1, <2>1, <2>2, <2>3, <2>4, <1>3 DEF OutputIs, InSequence
    <3>2. CASE o # p
      BY <3>2, <2>1, <2>2, <2>3, <2>4, <1>2, <1>3, OutputStays
    <3> QED BY <3>1, <3>2
  <2>5. \A o \in Outputs : rb[o].held = <<>> => rb'[o].held = <<>>
    BY <2>2, <1>2
  <2> QED BY <2>1, <2>2, <2>3, <2>4, <2>5, <1>1, <1>3
<1> QED BY <1>4, <1>5, <1>6

\* What the producer of the input does.
LEMMA PushKeeps ==
  ASSUME ChannelTypes, push_to_channel
  PROVE  /\ ChannelTypes' /\ producer'.of = producer.of
         /\ \A o \in Outputs : rb'[o] = rb[o]
         /\ received' = received /\ consumer' = consumer
         /\ container \subseteq container'
         /\ \A n : InputIs(n) => InputIs(n)'
<1>1. /\ rb \in [Channels -> RingBuffers] /\ rb["in"] \in RingBuffers /\ "in" \in Channels
      /\ producer \in [at : {"insert", "send", "drain", "leave", "ended"}, message : Nat, of : Nat]
      /\ \A o \in Outputs : o \in Channels \ {"in"}
  BY OutputsAssumption DEF ChannelTypes, Channels
<1>2. received' = received /\ consumer' = consumer
  BY DEF push_to_channel, leafVars
<1>3. CASE producer.at = "insert" /\ producer.message <= producer.of
  <2>1. /\ container' = container \cup {<<"in", producer.message>>} /\ rb' = rb
        /\ producer' = [producer EXCEPT !.at = "send"]
    BY <1>3 DEF push_to_channel, send_insert
  <2>2. producer' = [at |-> "send", message |-> producer.message, of |-> producer.of]
    BY <2>1, <1>1
  <2>3. ChannelTypes'
    BY <2>1, <2>2, <1>1, <1>2 DEF ChannelTypes
  <2>4. ASSUME NEW n, InputIs(n) PROVE InputIs(n)'
    BY <2>1, <2>2, <2>4, <1>3 DEF InputIs
  <2> QED BY <2>1, <2>2, <2>3, <2>4, <1>2
<1>4. CASE producer.at = "insert" /\ ~ producer.message <= producer.of
  <2>1. /\ container' = container /\ rb' = Draining({"in"})
        /\ producer' = [producer EXCEPT !.at = IF Drains("in") THEN "drain" ELSE "leave"]
    BY <1>4 DEF push_to_channel
  <2>2. producer' = [at |-> IF Drains("in") THEN "drain" ELSE "leave",
                     message |-> producer.message, of |-> producer.of]
    BY <2>1, <1>1
  <2>3. /\ rb' \in [Channels -> RingBuffers] /\ \A c \in Channels \ {"in"} : rb'[c] = rb[c]
        /\ rb'["in"].held = rb["in"].held
        /\ rb["in"].state = "running" => rb'["in"].state = "draining"
    BY <2>1, <1>1, RbShutdown
  <2>4. ChannelTypes'
    BY <2>2, <2>3, <1>1, <1>2 DEF ChannelTypes
  <2>5. ASSUME NEW n, InputIs(n) PROVE InputIs(n)'
    <3>1. /\ rb["in"].state = "running" /\ producer.message = n + Len(rb["in"].held) + 1
          /\ producer.message <= producer.of + 1 /\ n \in Nat
      BY <2>5, <1>4 DEF InputIs
    <3>2. Len(rb["in"].held) \in Nat
      BY <1>1 DEF RingBuffers
    <3>3. n + Len(rb["in"].held) = producer.of
      BY <3>1, <3>2, <1>1, <1>4
    <3>4. producer'.at = "drain" /\ producer'.of = producer.of
      BY <3>1, <2>2 DEF Drains
    <3> QED BY <3>1, <3>3, <3>4, <2>3, <2>5 DEF InputIs
  <2> QED BY <2>1, <2>2, <2>3, <2>4, <2>5, <1>1, <1>2
<1>5. CASE producer.at = "send"
  <2>1. /\ container' = container
        /\ send_produce("in", producer.message) \/ (ProduceFails("in") /\ UNCHANGED rb)
        /\ producer' = [producer EXCEPT !.at = "insert", !.message = producer.message + 1]
    BY <1>5 DEF push_to_channel
  <2>2. producer' = [at |-> "insert", message |-> producer.message + 1, of |-> producer.of]
    BY <2>1, <1>1
  <2>3. producer.message \in Messages
    BY <1>1 DEF Messages
  <2>4. rb' \in [Channels -> RingBuffers] /\ \A c \in Channels \ {"in"} : rb'[c] = rb[c]
    BY <2>1, <2>3, <1>1, RbProduced DEF send_produce
  <2>5. ChannelTypes'
    BY <2>2, <2>4, <1>1, <1>2 DEF ChannelTypes
  <2>6. ASSUME NEW n, InputIs(n) PROVE InputIs(n)'
    <3>1. /\ rb["in"].state = "running" /\ producer.message = n + Len(rb["in"].held) + 1
          /\ producer.message <= producer.of /\ n \in Nat
      BY <2>6, <1>5 DEF InputIs
    <3>2. rb["in"].held = <<>> /\ rb' = Produced("in", producer.message)
      BY <3>1, <2>1 DEF send_produce, CanProduce, ProduceFails
    <3>3. producer.message = n + 1
      BY <3>1, <3>2
    <3>4. rb'["in"].held = <<n + 1>> /\ rb'["in"].state = "running"
      BY <3>1, <3>2, <3>3, <2>3, <1>1, RbProduced
    <3>5. Len(rb'["in"].held) = 1
      BY <3>4
    <3> QED BY <3>1, <3>3, <3>4, <3>5, <2>2, <1>1 DEF InputIs
  <2> QED BY <2>1, <2>2, <2>4, <2>5, <2>6, <1>1, <1>2
<1>6. CASE producer.at \notin {"insert", "send"}
  <2>1. /\ container' = container /\ rb' = Stopped({"in"})
        /\ producer.at = "leave" \/ (producer.at = "drain" /\ drained({"in"}))
        /\ producer' = [producer EXCEPT !.at = "ended"]
    BY <1>6 DEF push_to_channel
  <2>2. producer' = [at |-> "ended", message |-> producer.message, of |-> producer.of]
    BY <2>1, <1>1
  <2>3. /\ rb' \in [Channels -> RingBuffers] /\ \A c \in Channels \ {"in"} : rb'[c] = rb[c]
        /\ rb'["in"].held = rb["in"].held /\ rb'["in"].state = "stopped"
    BY <2>1, <1>1, RbShutdown
  <2>4. ChannelTypes'
    BY <2>2, <2>3, <1>1, <1>2 DEF ChannelTypes
  <2>5. ASSUME NEW n, InputIs(n) PROVE InputIs(n)'
    <3>1. /\ rb["in"].state = "draining" /\ producer.at = "drain" /\ n \in Nat
          /\ n + Len(rb["in"].held) = producer.of
      BY <2>1, <2>5, <1>6 DEF InputIs
    <3>2. rb["in"].held = <<>>
      BY <3>1, <2>1 DEF drained, CanStop
    <3>3. n = producer.of
      BY <3>1, <3>2
    <3> QED BY <3>1, <3>2, <3>3, <2>2, <2>3 DEF InputIs
  <2> QED BY <2>1, <2>2, <2>3, <2>4, <2>5, <1>1, <1>2
<1> QED BY <1>3, <1>4, <1>5, <1>6

\* Receiving from the input.
LEMMA TakeIn ==
  ASSUME ChannelTypes, NEW n, InputIs(n), receive("in"), producer' = producer
  PROVE  /\ rb' \in [Channels -> RingBuffers] /\ \A o \in Outputs : rb'[o] = rb[o]
         /\ rb["in"].held = <<n + 1>> /\ Head(rb["in"].held) = n + 1 /\ n + 1 <= producer.of
         /\ InputIs(n + 1)'
         /\ \A m : <<"cache", m>> \in container => <<"cache", m>> \in container'
<1>1. /\ rb \in [Channels -> RingBuffers] /\ rb["in"] \in RingBuffers /\ "in" \in Channels
      /\ producer.message \in Nat /\ producer.of \in Nat
      /\ \A o \in Outputs : o \in Channels \ {"in"}
  BY OutputsAssumption DEF ChannelTypes, Channels
<1>2. /\ rb["in"].held = <<n + 1>> /\ rb' = Consumed("in") /\ n \in Nat /\ rb["in"].state # "stopped"
      /\ container' = container \ {<<"in", Head(rb["in"].held)>>}
  BY DEF receive, CanConsume, InputIs
<1>3. /\ rb' \in [Channels -> RingBuffers] /\ \A c \in Channels \ {"in"} : rb'[c] = rb[c]
      /\ rb'["in"].held = <<>> /\ rb'["in"].state = rb["in"].state
  BY <1>1, <1>2, RbConsumed
<1>4. Len(rb["in"].held) = 1 /\ Head(rb["in"].held) = n + 1 /\ Len(rb'["in"].held) = 0
  BY <1>2, <1>3
<1>5. n + 1 <= producer.of
  BY <1>1, <1>2, <1>4 DEF InputIs
<1>6. InputIs(n + 1)'
  <2>1. n + 1 \in Nat /\ (n + 1) + Len(rb'["in"].held) = n + Len(rb["in"].held)
    BY <1>2, <1>4
  <2>2. CASE rb["in"].state = "running"
    <3>1. /\ producer.at \in {"insert", "send"} /\ producer.message = n + Len(rb["in"].held) + 1
          /\ producer.message <= producer.of + 1
          /\ producer.at = "send" => producer.message <= producer.of
      BY <2>2 DEF InputIs
    <3> QED BY <3>1, <2>1, <2>2, <1>3 DEF InputIs
  <2>3. CASE rb["in"].state = "draining"
    <3>1. producer.at = "drain" /\ n + Len(rb["in"].held) = producer.of
      BY <2>3 DEF InputIs
    <3> QED BY <3>1, <2>1, <2>3, <1>3 DEF InputIs
  <2> QED BY <2>2, <2>3, <1>2 DEF InputIs
<1>7. \A m : <<"cache", m>> \in container => <<"cache", m>> \in container'
  BY <1>2
<1> QED BY <1>1, <1>2, <1>3, <1>4, <1>5, <1>6, <1>7

\* The end of the input.
LEMMA NoMoreIn == ASSUME NEW n, InputIs(n), ConsumeFails("in") PROVE n = producer.of
BY DEF InputIs, ConsumeFails
LEMMA InWithin == ASSUME ChannelTypes, NEW n, InputIs(n) PROVE n \in Nat /\ n <= producer.of
<1>1. rb["in"] \in RingBuffers /\ producer.of \in Nat /\ producer.message \in Nat
  BY DEF ChannelTypes, Channels
<1>2. Len(rb["in"].held) \in Nat
  BY <1>1 DEF RingBuffers
<1> QED BY <1>1, <1>2 DEF InputIs

\* The next message goes to an output.
LEMMA SendTo ==
  ASSUME ChannelTypes, NEW o \in Outputs, NEW n \in Nat, OutputIs(o, "running", n),
         send_produce(o, n + 1), UNCHANGED <<leafVars, producer>>
  PROVE  /\ rb' \in [Channels -> RingBuffers] /\ \A c \in Channels \ {o} : rb'[c] = rb[c]
         /\ OutputIs(o, "running", n + 1)'
<1>1. /\ rb \in [Channels -> RingBuffers] /\ o \in Channels /\ received[o] \in Seq(Messages)
      /\ consumer[o] \in {"pulling", "closed", "ended"} /\ n + 1 \in Messages
  BY NothingIsIn DEF ChannelTypes, Messages
<1>2. rb[o].state = "running" /\ rb[o].held = <<>> /\ rb' = Produced(o, n + 1)
  BY DEF send_produce, CanProduce
<1>3. UNCHANGED <<received, consumer, producer>>
  BY DEF leafVars
<1>4. /\ rb' \in [Channels -> RingBuffers] /\ \A c \in Channels \ {o} : rb'[c] = rb[c]
      /\ rb'[o].held = <<n + 1>> /\ rb'[o].state = "running"
  BY <1>1, <1>2, RbProduced
<1>5. consumer[o] = "pulling" /\ Given(o) = n /\ InSequence(o)
  BY <1>1, <1>2 DEF OutputIs
<1>6. Len(received[o]) = n
  BY <1>1, <1>2, <1>5 DEF Given
<1>7. InSequence(o)'
  BY <1>3, <1>4, <1>5, <1>6 DEF InSequence
<1>8. Given(o)' = n + 1
  <2>1. Len(rb'[o].held) = 1
    BY <1>4
  <2> QED BY <2>1, <1>3, <1>6 DEF Given
<1> QED BY <1>3, <1>4, <1>5, <1>7, <1>8 DEF OutputIs

\* A consumer whose channel is shut down by itself is not served any more.
LEMMA SendFails ==
  ASSUME NEW o, NEW n, OutputIs(o, "running", n), ProduceFails(o)
  PROVE  consumer[o] # "pulling"
BY DEF OutputIs, ProduceFails

LEMMA NotServed ==
  ASSUME NEW o, NEW s, NEW n, OutputIs(o, s, n), consumer[o] # "pulling", NEW t, NEW k
  PROVE  OutputIs(o, t, k)
BY DEF OutputIs

\* An output that has been sent everything is drained and stops.
LEMMA DrainKeeps ==
  ASSUME ChannelTypes, NEW cs, rb' = Draining(cs), UNCHANGED <<leafVars, producer>>, NEW o \in Outputs,
         OutputIs(o, "running", producer.of), consumer[o] = "pulling" => o \in cs
  PROVE  OutputIs(o, "draining", producer.of)'
<1>1. rb \in [Channels -> RingBuffers] /\ o \in Channels /\ UNCHANGED <<received, consumer, producer>>
  BY NothingIsIn DEF ChannelTypes, leafVars
<1>2. /\ rb'[o].held = rb[o].held
      /\ rb'[o].state = rb[o].state \/ (rb[o].state = "running" /\ rb'[o].state = "draining" /\ o \in cs)
      /\ rb[o].state = "running" /\ o \in cs => rb'[o].state = "draining"
  BY <1>1, RbShutdown
<1>3. InSequence(o)' /\ Given(o)' = Given(o)
  BY <1>1, <1>2 DEF InSequence, OutputIs, Given
<1>4. CASE consumer[o] = "pulling"
  BY <1>1, <1>2, <1>3, <1>4 DEF OutputIs
<1>5. CASE consumer[o] # "pulling"
  BY <1>1, <1>2, <1>3, <1>5 DEF OutputIs
<1> QED BY <1>4, <1>5

LEMMA StopKeeps ==
  ASSUME ChannelTypes, NEW cs, rb' = Stopped(cs), UNCHANGED <<leafVars, producer>>, NEW o \in Outputs,
         OutputIs(o, "draining", producer.of), consumer[o] = "pulling" => o \in cs /\ rb[o].held = <<>>
  PROVE  OutputIs(o, "stopped", producer.of)'
<1>1. rb \in [Channels -> RingBuffers] /\ o \in Channels /\ UNCHANGED <<received, consumer, producer>>
  BY NothingIsIn DEF ChannelTypes, leafVars
<1>2. /\ rb'[o].held = rb[o].held
      /\ rb'[o].state = rb[o].state \/ rb'[o].state = "stopped"
      /\ o \in cs => rb'[o].state = "stopped"
  BY <1>1, RbShutdown
<1>3. InSequence(o)' /\ Given(o)' = Given(o)
  BY <1>1, <1>2 DEF InSequence, OutputIs, Given
<1>4. CASE consumer[o] = "pulling"
  BY <1>1, <1>2, <1>3, <1>4 DEF OutputIs
<1>5. CASE consumer[o] # "pulling"
  BY <1>1, <1>2, <1>3, <1>5 DEF OutputIs
<1> QED BY <1>4, <1>5

-----------------------------------------------------------------------------
(* Fanout, bounded. *)

Taking == {"receive", "filter", "copies", "last"}
Serving == {"receive", "filter", "copies", "last", "drain"}

BoundedTypes ==
    /\ ChannelTypes /\ chs_out \subseteq Outputs
    /\ bounded \in [at : Serving \cup {"drained", "ended"}, message : Nat]
    /\ sends \in [Outputs -> {"idle", "insert", "produce", "sent", "failed"}]
    /\ bounded.at \in {"filter", "copies", "last"} => bounded.message > 0

\* How many messages the coroutine has sent to output o, and the state in which o is.
SentTo(o) ==
    IF bounded.at = "receive" THEN bounded.message
    ELSE IF bounded.at = "filter" THEN bounded.message - 1
    ELSE IF bounded.at \in {"copies", "last"}
         THEN IF sends[o] = "sent" THEN bounded.message ELSE bounded.message - 1
    ELSE producer.of
ServedState ==
    IF bounded.at \in Serving THEN "running" ELSE IF bounded.at = "drained" THEN "draining" ELSE "stopped"

\* The outputs are served until their consumers leave; nothing is sent twice, and only to a
\* consumer that has left does a send fail.
SendsInv ==
    /\ \A o \in Outputs : consumer[o] = "pulling" /\ bounded.at # "ended" => o \in chs_out
    /\ bounded.at \in {"copies", "last"} =>
          \A o \in Outputs : consumer[o] = "pulling" => sends[o] # "failed"
    /\ bounded.at = "copies" => \A o \in Outputs : o = LastOf(chs_out) => sends[o] = "idle"
    /\ bounded.at = "last" =>
          \A o \in Outputs : consumer[o] = "pulling" /\ o # LastOf(chs_out) => sends[o] = "sent"

BoundedInv ==
    /\ BoundedTypes /\ SendsInv
    /\ bounded.at \in Taking => InputIs(bounded.message)
    /\ \A o \in Outputs : OutputIs(o, ServedState, SentTo(o))

LEMMA BoundedBegins ==
  ASSUME ChannelInit, FanoutInit
  PROVE  BoundedInv
<1>1. /\ rb = [c \in Channels |-> [held |-> <<>>, state |-> "running"]]
      /\ received = [o \in Outputs |-> <<>>] /\ consumer = [o \in Outputs |-> "pulling"]
      /\ producer \in {[at |-> "insert", message |-> 1, of |-> n] : n \in 1 .. NMessages}
  BY DEF ChannelInit
<1>2. producer.at = "insert" /\ producer.message = 1 /\ producer.of \in Nat /\ producer.of >= 1
  BY <1>1, NMessagesAssumption
<1>3. /\ bounded = [at |-> "receive", message |-> 0] /\ chs_out = Outputs
      /\ sends = [o \in Outputs |-> "idle"]
  BY DEF FanoutInit
<1>4. <<>> \in Seq(Messages) /\ Len(<<>>) = 0
  OBVIOUS
<1>5. ChannelTypes
  <2>1. [held |-> <<>>, state |-> "running"] \in RingBuffers
    BY <1>4 DEF RingBuffers, States
  <2> QED BY <2>1, <1>1, <1>4, NMessagesAssumption DEF ChannelTypes
<1>6. InputIs(0)
  BY <1>1, <1>2, <1>4 DEF InputIs, Channels
<1>7. ASSUME NEW o \in Outputs PROVE OutputIs(o, "running", 0)
  <2>1. rb[o].held = <<>> /\ rb[o].state = "running" /\ received[o] = <<>> /\ consumer[o] = "pulling"
    BY <1>1, NothingIsIn
  <2> QED BY <2>1, <1>4 DEF OutputIs, InSequence, Given
<1>8. BoundedTypes /\ SendsInv
  BY <1>3, <1>5 DEF BoundedTypes, SendsInv, Serving
<1> QED BY <1>3, <1>6, <1>7, <1>8 DEF BoundedInv, SentTo, ServedState, Serving

\* A step that is none of the coroutine's own.
LEMMA BoundedOthers ==
  ASSUME BoundedInv, ChannelTypes', UNCHANGED <<bounded, chs_out, sends>>, producer'.of = producer.of,
         \A n : InputIs(n) => InputIs(n)',
         \A o \in Outputs : consumer'[o] = "pulling" => consumer[o] = "pulling",
         \A o \in Outputs, state \in States, n \in Nat : OutputIs(o, state, n) => OutputIs(o, state, n)'
  PROVE  BoundedInv'
<1>1. /\ producer.of \in Nat /\ bounded.message \in Nat
      /\ bounded.at \in {"filter", "copies", "last"} => bounded.message - 1 \in Nat
  BY DEF BoundedInv, BoundedTypes, ChannelTypes
<1>2. \A o \in Outputs : SentTo(o) \in Nat /\ SentTo(o)' = SentTo(o)
  BY <1>1 DEF SentTo
<1>3. ServedState \in States /\ ServedState' = ServedState
  BY DEF ServedState, States
<1>4. \A o \in Outputs : OutputIs(o, ServedState, SentTo(o))'
  BY <1>2, <1>3 DEF BoundedInv
<1>5. BoundedTypes'
  BY DEF BoundedInv, BoundedTypes
<1>6. SendsInv'
  BY DEF BoundedInv, SendsInv
<1>7. bounded'.at \in Taking => InputIs(bounded.message)'
  BY DEF BoundedInv
<1> QED BY <1>4, <1>5, <1>6, <1>7 DEF BoundedInv

LEMMA BoundedLeaves ==
  ASSUME BoundedInv, \/ push_to_channel
                     \/ \E o \in Outputs : pull_from_channel(o) \/ close_channel(o),
         UNCHANGED <<bounded, chs_out, sends>>
  PROVE  BoundedInv'
<1>1. ChannelTypes /\ \A o \in Outputs : InSequence(o)
  BY DEF BoundedInv, BoundedTypes, OutputIs
<1>2. CASE push_to_channel
  <2>1. /\ ChannelTypes' /\ producer'.of = producer.of /\ received' = received /\ consumer' = consumer
        /\ \A o \in Outputs : rb'[o] = rb[o]
        /\ \A n : InputIs(n) => InputIs(n)'
    BY <1>1, <1>2, PushKeeps
  <2>2. \A o \in Outputs, state \in States, n \in Nat : OutputIs(o, state, n) => OutputIs(o, state, n)'
    BY <2>1, OutputStays
  <2> QED BY <2>1, <2>2, BoundedOthers
<1>3. ASSUME NEW p \in Outputs, pull_from_channel(p) \/ close_channel(p)
      PROVE  BoundedInv'
  <2>1. /\ ChannelTypes' /\ rb'["in"] = rb["in"] /\ producer' = producer
        /\ \A m : <<"cache", m>> \in container => <<"cache", m>> \in container'
        /\ \A o \in Outputs : rb[o].held = <<>> => rb'[o].held = <<>>
        /\ \A o \in Outputs : consumer'[o] = "pulling" => consumer[o] = "pulling"
        /\ \A o \in Outputs, state \in States, n \in Nat :
              OutputIs(o, state, n) => OutputIs(o, state, n)'
    BY <1>1, <1>3, LeafKeeps, Zenon
  <2>2. \A n : InputIs(n) => InputIs(n)'
    BY <2>1 DEF InputIs
  <2>3. \A o \in Outputs : consumer'[o] = "pulling" => consumer[o] = "pulling"
    BY <2>1
  <2>4. producer'.of = producer.of
    BY <2>1
  <2> QED BY <2>1, <2>2, <2>3, <2>4, BoundedOthers, Zenon
<1> QED BY <1>2, <1>3

LEMMA BoundedReceives == ASSUME BoundedInv, bounded_receive PROVE BoundedInv'
<1>1. /\ bounded.at = "receive" /\ UNCHANGED <<chs_out, sends, received, consumer, producer>>
  BY DEF bounded_receive, leafVars
<1>0. PICK M : M = bounded.message
  OBVIOUS
<1>2. /\ ChannelTypes /\ M \in Nat /\ InputIs(M)
      /\ \A o \in Outputs : OutputIs(o, "running", M)
  BY <1>0, <1>1 DEF BoundedInv, BoundedTypes, Taking, Serving, ServedState, SentTo
<1>3. CASE receive("in") /\ bounded' = [at |-> "filter", message |-> Head(rb["in"].held)]
  <2>1. /\ rb' \in [Channels -> RingBuffers] /\ \A o \in Outputs : rb'[o] = rb[o]
        /\ bounded' = [at |-> "filter", message |-> M + 1] /\ InputIs(M + 1)'
    BY <1>1, <1>2, <1>3, TakeIn
  <2>2. BoundedTypes'
    BY <2>1, <1>1, <1>2 DEF BoundedInv, BoundedTypes, ChannelTypes, Serving
  <2>3. SendsInv'
    BY <2>1, <1>1 DEF BoundedInv, SendsInv
  <2>4. \A o \in Outputs : OutputIs(o, "running", M)'
    BY <2>1, <1>1, <1>2, OutputStays
  <2>5. ServedState' = "running" /\ \A o \in Outputs : SentTo(o)' = M
    BY <2>1, <1>2 DEF ServedState, SentTo, Serving
  <2> QED BY <2>1, <2>2, <2>3, <2>4, <2>5 DEF BoundedInv
<1>4. CASE ConsumeFails("in") /\ bounded' = [at |-> "drain", message |-> 0] /\ UNCHANGED <<rb, container>>
  <2>1. M = producer.of
    BY <1>2, <1>4, NoMoreIn
  <2>2. BoundedTypes'
    BY <1>1, <1>2, <1>4 DEF BoundedInv, BoundedTypes, ChannelTypes, Serving
  <2>3. SendsInv'
    BY <1>1, <1>4 DEF BoundedInv, SendsInv
  <2>4. \A o \in Outputs : OutputIs(o, "running", M)'
    BY <1>1, <1>2, <1>4, OutputStays
  <2>5. ServedState' = "running" /\ \A o \in Outputs : SentTo(o)' = M
    BY <2>1, <1>1, <1>4 DEF ServedState, SentTo, Serving
  <2> QED BY <2>2, <2>3, <2>4, <2>5, <1>4 DEF BoundedInv, Taking
<1> QED BY <1>3, <1>4 DEF bounded_receive

LEMMA BoundedFilters == ASSUME BoundedInv, bounded_filter PROVE BoundedInv'
<1>0. PICK M, open : M = bounded.message /\ open = {o \in chs_out : ~is_shutdown(o)}
  OBVIOUS
<1>1. /\ bounded.at = "filter" /\ chs_out' = open
      /\ UNCHANGED <<rb, container, received, consumer, producer>>
  BY <1>0 DEF bounded_filter, channelVars, leafVars
<1>2. /\ ChannelTypes /\ M \in Nat /\ M - 1 \in Nat /\ M > 0 /\ InputIs(M)
      /\ \A o \in Outputs : OutputIs(o, "running", M - 1)
  BY <1>0, <1>1 DEF BoundedInv, BoundedTypes, Taking, Serving, ServedState, SentTo
<1>3. ChannelTypes' /\ InputIs(M)' /\ open \subseteq Outputs
  BY <1>0, <1>1, <1>2 DEF ChannelTypes, InputIs, BoundedInv, BoundedTypes
<1>4. \A o \in Outputs : consumer[o] = "pulling" => o \in open
  BY <1>0, <1>1, <1>2 DEF BoundedInv, SendsInv, OutputIs, is_shutdown
<1>5. \A o \in Outputs : OutputIs(o, "running", M - 1)'
  BY <1>1, <1>2, OutputStays
<1>6. CASE open = {}
  <2>1. bounded' = [at |-> "drain", message |-> 0] /\ UNCHANGED sends
    BY <1>0, <1>6 DEF bounded_filter
  <2>2. \A o \in Outputs : consumer'[o] # "pulling"
    BY <1>1, <1>4, <1>6
  <2>3. BoundedTypes' /\ SendsInv'
    BY <2>1, <2>2, <1>1, <1>3 DEF BoundedInv, BoundedTypes, SendsInv, Serving
  <2>4. \A o \in Outputs : OutputIs(o, ServedState, SentTo(o))'
    BY <2>2, <1>5 DEF OutputIs
  <2> QED BY <2>1, <2>3, <2>4 DEF BoundedInv, Taking
<1>7. CASE open # {}
  <2>1. /\ bounded' = [bounded EXCEPT !.at = "copies"]
        /\ sends' = [o \in Outputs |-> IF o \in open \ {LastOf(open)} THEN "insert" ELSE "idle"]
    BY <1>0, <1>7 DEF bounded_filter
  <2>2. bounded' = [at |-> "copies", message |-> M]
    BY <2>1, <1>0 DEF BoundedInv, BoundedTypes
  <2>3. /\ sends' \in [Outputs -> {"idle", "insert", "produce", "sent", "failed"}]
        /\ \A o \in Outputs : sends'[o] \in {"insert", "idle"}
        /\ \A o \in Outputs : o = LastOf(open) => sends'[o] = "idle"
    BY <2>1
  <2>4. BoundedTypes'
    BY <2>2, <2>3, <1>1, <1>2, <1>3 DEF BoundedTypes, Serving
  <2>5. LastOf(chs_out)' = LastOf(open)
    BY <1>1 DEF LastOf, Order
  <2>6. SendsInv'
    BY <2>2, <2>3, <2>5, <1>1, <1>4 DEF SendsInv
  <2>7. ServedState' = "running" /\ \A o \in Outputs : SentTo(o)' = M - 1
    BY <2>2, <2>3 DEF ServedState, SentTo, Serving
  <2> QED BY <2>2, <2>4, <2>6, <2>7, <1>3, <1>5 DEF BoundedInv
<1> QED BY <1>6, <1>7

LEMMA BoundedSends ==
  ASSUME BoundedInv, NEW o \in Outputs, bounded_send(o)
  PROVE  BoundedInv'
<1>0. PICK M : M = bounded.message
  OBVIOUS
<1>1. /\ bounded.at \in {"copies", "last"} /\ send_step(o, M)
      /\ UNCHANGED <<bounded, chs_out, received, consumer, producer>>
  BY <1>0 DEF bounded_send, boundedVars, leafVars
<1>2. /\ ChannelTypes /\ M \in Nat /\ M - 1 \in Nat /\ M > 0 /\ InputIs(M)
      /\ chs_out \subseteq Outputs
      /\ bounded \in [at : Serving \cup {"drained", "ended"}, message : Nat]
      /\ sends \in [Outputs -> {"idle", "insert", "produce", "sent", "failed"}]
  BY <1>0, <1>1 DEF BoundedInv, BoundedTypes, Taking
<1>3. ServedState = "running" /\ ServedState' = "running"
  BY <1>1 DEF ServedState, Serving
<1>4. \A p \in Outputs : /\ SentTo(p) = IF sends[p] = "sent" THEN M ELSE M - 1
                         /\ SentTo(p)' = IF sends'[p] = "sent" THEN M ELSE M - 1
                         /\ OutputIs(p, "running", SentTo(p))
  BY <1>0, <1>1, <1>3 DEF SentTo, BoundedInv
<1>5. LastOf(chs_out)' = LastOf(chs_out)
  BY <1>1 DEF LastOf, Order
<1>6. CASE sends[o] = "insert"
  <2>1. UNCHANGED rb /\ sends' = [sends EXCEPT ![o] = "produce"]
    BY <1>1, <1>6 DEF send_step
  <2>2. ChannelTypes' /\ InputIs(M)'
    BY <2>1, <1>1, <1>2 DEF ChannelTypes, InputIs
  <2>3. BoundedTypes'
    BY <2>1, <2>2, <1>0, <1>1, <1>2 DEF BoundedTypes, BoundedInv
  <2>4. SendsInv'
    BY <2>1, <1>1, <1>2, <1>5, <1>6 DEF BoundedInv, SendsInv
  <2>5. \A p \in Outputs : SentTo(p)' = SentTo(p)
    BY <2>1, <1>2, <1>4, <1>6
  <2>6. ASSUME NEW p \in Outputs PROVE OutputIs(p, ServedState, SentTo(p))'
    BY <2>1, <2>5, <1>1, <1>3, <1>4, OutputStays DEF OutputIs, InSequence, Given
  <2> QED BY <2>2, <2>3, <2>4, <2>6, <1>0, <1>1 DEF BoundedInv
<1>7. CASE sends[o] = "produce" /\ send_produce(o, M) /\ sends' = [sends EXCEPT ![o] = "sent"]
  <2>1. /\ rb' \in [Channels -> RingBuffers] /\ \A c \in Channels \ {o} : rb'[c] = rb[c]
        /\ OutputIs(o, "running", M)'
    <3>1. OutputIs(o, "running", M - 1) /\ send_produce(o, (M - 1) + 1)
      BY <1>2, <1>4, <1>7
    <3>2. UNCHANGED <<leafVars, producer>>
      BY <1>1 DEF leafVars
    <3>3. /\ rb' \in [Channels -> RingBuffers] /\ \A c \in Channels \ {o} : rb'[c] = rb[c]
          /\ OutputIs(o, "running", (M - 1) + 1)'
      BY <3>1, <3>2, <1>2, SendTo
    <3>4. (M - 1) + 1 = M
      BY <1>2
    <3> QED BY <3>3, <3>4
  <2>2. ChannelTypes' /\ InputIs(M)'
    BY <2>1, <1>1, <1>2, NothingIsIn DEF ChannelTypes, InputIs
  <2>3. BoundedTypes'
    BY <2>2, <1>0, <1>1, <1>2, <1>7 DEF BoundedTypes
  <2>4. SendsInv'
    BY <1>1, <1>2, <1>5, <1>7 DEF BoundedInv, SendsInv
  <2>5. ASSUME NEW p \in Outputs, p # o PROVE OutputIs(p, "running", SentTo(p))'
    <3>1. PICK n : n = SentTo(p)
      OBVIOUS
    <3>2. SentTo(p)' = n
      BY <3>1, <2>5, <1>2, <1>4, <1>7
    <3>3. OutputIs(p, "running", n)'
      BY <3>1, <2>1, <2>5, <1>1, <1>4, NothingIsIn, OutputStays
    <3> QED BY <3>2, <3>3
  <2>6. SentTo(o)' = M
    BY <1>2, <1>4, <1>7
  <2>7. ASSUME NEW p \in Outputs PROVE OutputIs(p, ServedState, SentTo(p))'
    BY <2>1, <2>5, <2>6, <1>3
  <2> QED BY <2>2, <2>3, <2>4, <2>7, <1>0, <1>1 DEF BoundedInv
<1>8. CASE /\ sends[o] = "produce" /\ ProduceFails(o)
           /\ sends' = [sends EXCEPT ![o] = "failed"] /\ UNCHANGED rb
  <2>1. consumer[o] # "pulling"
    BY <1>4, <1>8, SendFails
  <2>2. ChannelTypes' /\ InputIs(M)'
    BY <1>1, <1>2, <1>8 DEF ChannelTypes, InputIs
  <2>3. BoundedTypes'
    BY <2>2, <1>0, <1>1, <1>2, <1>8 DEF BoundedTypes
  <2>4. SendsInv'
    BY <2>1, <1>1, <1>2, <1>5, <1>8 DEF BoundedInv, SendsInv
  <2>5. \A p \in Outputs : SentTo(p)' = SentTo(p)
    BY <1>2, <1>4, <1>8
  <2>6. ASSUME NEW p \in Outputs PROVE OutputIs(p, ServedState, SentTo(p))'
    BY <2>5, <1>1, <1>3, <1>4, <1>8 DEF OutputIs, InSequence, Given
  <2> QED BY <2>2, <2>3, <2>4, <2>6, <1>0, <1>1 DEF BoundedInv
<1> QED BY <1>1, <1>6, <1>7, <1>8 DEF send_step

LEMMA BoundedMovesOn == ASSUME BoundedInv, bounded_next PROVE BoundedInv'
<1>0. PICK M, last : M = bounded.message /\ last = LastOf(chs_out)
  OBVIOUS
<1>1. UNCHANGED <<chs_out, rb, container, received, consumer, producer>> /\ bounded.at \in {"copies", "last"}
  BY DEF bounded_next, channelVars, leafVars
<1>2. /\ ChannelTypes /\ M \in Nat /\ M - 1 \in Nat /\ M > 0 /\ InputIs(M)
      /\ chs_out \subseteq Outputs
      /\ bounded \in [at : Serving \cup {"drained", "ended"}, message : Nat]
      /\ sends \in [Outputs -> {"idle", "insert", "produce", "sent", "failed"}]
  BY <1>0, <1>1 DEF BoundedInv, BoundedTypes, Taking
<1>3. ChannelTypes' /\ InputIs(M)'
  BY <1>1, <1>2 DEF ChannelTypes, InputIs
<1>4. \A p \in Outputs : /\ SentTo(p) = IF sends[p] = "sent" THEN M ELSE M - 1
                         /\ OutputIs(p, "running", SentTo(p))
  BY <1>0, <1>1 DEF SentTo, BoundedInv, ServedState, Serving
<1>5. LastOf(chs_out)' = last
  BY <1>0, <1>1 DEF LastOf, Order
<1>6. CASE bounded.at = "copies"
  <2>1. /\ Settled(chs_out \ {last}) /\ bounded' = [bounded EXCEPT !.at = "last"]
        /\ sends' = [sends EXCEPT ![last] = "insert"]
    BY <1>0, <1>6 DEF bounded_next
  <2>2. bounded' = [at |-> "last", message |-> M]
    BY <2>1, <1>0, <1>2
  <2>3. /\ sends' \in [Outputs -> {"idle", "insert", "produce", "sent", "failed"}]
        /\ \A o \in Outputs : IF o = last THEN sends'[o] = "insert" ELSE sends'[o] = sends[o]
    BY <2>1, <1>2
  <2>4. BoundedTypes'
    BY <2>2, <2>3, <1>1, <1>2, <1>3 DEF BoundedTypes, Serving
  <2>5. \A o \in Outputs : consumer[o] = "pulling" /\ o # last => sends[o] = "sent"
    BY <2>1, <1>6 DEF BoundedInv, SendsInv, Settled
  <2>6. SendsInv'
    BY <2>2, <2>3, <2>5, <1>0, <1>1, <1>5, <1>6 DEF BoundedInv, SendsInv
  <2>7. \A p \in Outputs : SentTo(p)' = SentTo(p)
    BY <2>2, <2>3, <1>0, <1>4, <1>6 DEF SentTo, BoundedInv, SendsInv
  <2>8. ServedState' = "running"
    BY <2>2 DEF ServedState, Serving
  <2>9. ASSUME NEW p \in Outputs PROVE OutputIs(p, ServedState, SentTo(p))'
    BY <2>7, <2>8, <1>1, <1>4 DEF OutputIs, InSequence, Given
  <2> QED BY <2>2, <2>4, <2>6, <2>9, <1>3 DEF BoundedInv
<1>7. CASE bounded.at = "last"
  <2>1. Settled({last}) /\ bounded' = [bounded EXCEPT !.at = "receive"] /\ UNCHANGED sends
    BY <1>0, <1>7 DEF bounded_next
  <2>2. bounded' = [at |-> "receive", message |-> M]
    BY <2>1, <1>0, <1>2
  <2>3. \A o \in Outputs : consumer[o] = "pulling" => sends[o] = "sent"
    BY <2>1, <1>0, <1>7 DEF BoundedInv, SendsInv, Settled
  <2>4. BoundedTypes' /\ SendsInv'
    BY <2>1, <2>2, <1>1, <1>2, <1>3 DEF BoundedTypes, Serving, BoundedInv, SendsInv
  <2>5. ServedState' = "running" /\ \A p \in Outputs : SentTo(p)' = M
    BY <2>2 DEF ServedState, SentTo, Serving
  <2>6. ASSUME NEW p \in Outputs PROVE OutputIs(p, "running", M)
    BY <2>3, <1>4 DEF OutputIs
  <2>7. ASSUME NEW p \in Outputs PROVE OutputIs(p, ServedState, SentTo(p))'
    BY <2>5, <2>6, <1>1 DEF OutputIs, InSequence, Given
  <2> QED BY <2>2, <2>4, <2>7, <1>3 DEF BoundedInv
<1> QED BY <1>1, <1>6, <1>7

LEMMA BoundedExits == ASSUME BoundedInv, bounded_exit PROVE BoundedInv'
<1>1. UNCHANGED <<chs_out, sends, container, received, consumer, producer, leafVars>>
  BY DEF bounded_exit, leafVars
<1>2. /\ ChannelTypes /\ rb \in [Channels -> RingBuffers] /\ chs_out \subseteq Outputs
      /\ bounded \in [at : Serving \cup {"drained", "ended"}, message : Nat]
      /\ sends \in [Outputs -> {"idle", "insert", "produce", "sent", "failed"}]
  BY DEF BoundedInv, BoundedTypes, ChannelTypes
<1>3. CASE bounded.at = "drain"
  <2>1. bounded' = [bounded EXCEPT !.at = "drained"] /\ rb' = Draining(chs_out)
    BY <1>3 DEF bounded_exit
  <2>2. bounded' = [at |-> "drained", message |-> bounded.message] /\ bounded'.at = "drained"
    BY <2>1, <1>2
  <2>3. rb' \in [Channels -> RingBuffers]
    BY <2>1, <1>2, RbShutdown
  <2>4. BoundedTypes' /\ SendsInv'
    BY <2>2, <2>3, <1>1, <1>2, <1>3 DEF BoundedTypes, ChannelTypes, BoundedInv, SendsInv
  <2>5. ServedState' = "draining" /\ \A o \in Outputs : SentTo(o)' = producer.of
    BY <2>2, <1>1 DEF ServedState, SentTo, Serving
  <2>6. ASSUME NEW o \in Outputs PROVE OutputIs(o, "draining", producer.of)'
    <3>1. OutputIs(o, "running", producer.of) /\ (consumer[o] = "pulling" => o \in chs_out)
      BY <1>3 DEF BoundedInv, SendsInv, ServedState, SentTo, Serving
    <3> QED BY <3>1, <2>1, <1>1, <1>2, DrainKeeps
  <2> QED BY <2>2, <2>4, <2>5, <2>6, <1>1 DEF BoundedInv, Taking
<1>4. CASE bounded.at = "drained"
  <2>1. bounded' = [bounded EXCEPT !.at = "ended"] /\ rb' = Stopped(Channels) /\ drained(chs_out)
    BY <1>4 DEF bounded_exit
  <2>2. bounded' = [at |-> "ended", message |-> bounded.message] /\ bounded'.at = "ended"
    BY <2>1, <1>2
  <2>3. rb' \in [Channels -> RingBuffers]
    BY <2>1, <1>2, RbShutdown
  <2>4. BoundedTypes' /\ SendsInv'
    BY <2>2, <2>3, <1>1, <1>2, <1>4 DEF BoundedTypes, ChannelTypes, BoundedInv, SendsInv
  <2>5. ServedState' = "stopped" /\ \A o \in Outputs : SentTo(o)' = producer.of
    BY <2>2, <1>1 DEF ServedState, SentTo, Serving
  <2>6. ASSUME NEW o \in Outputs PROVE OutputIs(o, "stopped", producer.of)'
    <3>1. OutputIs(o, "draining", producer.of) /\ (consumer[o] = "pulling" => o \in chs_out)
      BY <1>4 DEF BoundedInv, SendsInv, ServedState, SentTo, Serving
    <3>2. consumer[o] = "pulling" => rb[o].held = <<>> /\ o \in Channels
      BY <3>1, <2>1, NothingIsIn DEF drained, CanStop, OutputIs
    <3> QED BY <3>1, <3>2, <2>1, <1>1, <1>2, StopKeeps
  <2> QED BY <2>2, <2>4, <2>5, <2>6, <1>1 DEF BoundedInv, Taking
<1> QED BY <1>3, <1>4 DEF bounded_exit

LEMMA BoundedStepKeeps == ASSUME BoundedInv, bounded_fanout PROVE BoundedInv'
BY BoundedReceives, BoundedFilters, BoundedSends, BoundedMovesOn, BoundedExits DEF bounded_fanout

LEMMA BoundedKeepsStep == ASSUME BoundedInv PROVE BoundedInStep /\ InOrderAndComplete
<1>1. ChannelTypes /\ bounded.message \in Nat /\ producer.of \in Nat
  BY DEF BoundedInv, BoundedTypes, ChannelTypes
<1>2. ASSUME NEW o \in Outputs
      PROVE  Len(received[o]) \in Nat /\ Given(o) \in {Len(received[o]), Len(received[o]) + 1}
  <2>1. received[o] \in Seq(Messages) /\ InSequence(o)
    BY <1>1 DEF ChannelTypes, BoundedInv, OutputIs
  <2>2. Len(received[o]) \in Nat
    BY <2>1
  <2>3. CASE rb[o].held = <<>>
    <3>1. Given(o) = Len(received[o])
      BY <2>2, <2>3 DEF Given
    <3> QED BY <3>1, <2>2
  <2>4. CASE rb[o].held = <<Len(received[o]) + 1>>
    <3>1. Given(o) = Len(received[o]) + 1
      BY <2>2, <2>4 DEF Given
    <3> QED BY <3>1, <2>2
  <2> QED BY <2>1, <2>3, <2>4 DEF InSequence
<1>3. ASSUME NEW o \in Outputs, NEW p \in Outputs, consumer[o] = "pulling", consumer[p] = "pulling"
      PROVE  Len(received[o]) <= Len(received[p]) + 2
  <2>1. Given(o) = SentTo(o) /\ Given(p) = SentTo(p)
    BY <1>3 DEF BoundedInv, OutputIs
  <2>2. SentTo(o) <= SentTo(p) + 1
    BY <1>1 DEF SentTo
  <2> QED BY <2>1, <2>2, <1>2
<1>4. ASSUME NEW o \in Outputs
      PROVE  /\ received[o] = [i \in 1 .. Len(received[o]) |-> i]
             /\ consumer[o] = "ended" => Len(received[o]) = producer.of
  BY <1>1 DEF BoundedInv, OutputIs, InSequence, ChannelTypes
<1> QED BY <1>3, <1>4 DEF BoundedInStep, InOrderAndComplete

-----------------------------------------------------------------------------
(* Fanout, unbounded. *)

RecvPlaces == {"wait", "asleep", "receive", "store", "notify", "purge", "drain", "drained", "leave",
               "left", "ended"}
SenderPlaces == {"check", "asleep", "send", "request", "drain", "drained", "leave", "left", "ended"}
Cached == Len(recv_msg_ids)

UnboundedTypes ==
    /\ recv \in [at : RecvPlaces, min : Nat \cup {Invalid}, got : Seq(Nat)]
    /\ sender \in [Outputs -> [at : SenderPlaces, batch : Seq(Nat), available : Nat]]
    /\ per_ch_processed \in [Outputs -> Nat \cup {Invalid}]
    /\ sends \in [Outputs -> {"idle", "produce"}]
    /\ recv_msg_ids \in Seq(Nat) /\ \A i \in 1 .. Cached : recv_msg_ids[i] = i
    /\ no_more_input \in BOOLEAN
    /\ Cached <= producer.of /\ producer.of <= NMessages

\* What is taken from the input goes into the cache.
CacheInv ==
    /\ recv.at \in {"wait", "asleep", "receive", "notify", "purge"} => InputIs(Cached)
    /\ recv.at = "store" =>
          \/ recv.got = <<>> /\ InputIs(Cached) /\ Cached = producer.of
          \/ recv.got = <<Cached + 1>> /\ InputIs(Cached + 1)

\* The receiving task stops when it has taken everything or when no sending task is left.
EndInv ==
    no_more_input \/ recv.at \in {"drain", "drained", "leave", "left", "ended"} =>
        Cached = producer.of \/ \A o \in Outputs : sender[o].at \in {"left", "ended"}

\* What the receiving task is about to release every sending task is through with, also when
\* the request was evaluated before the last of them has left.
MinInv ==
    /\ recv.at \in {"receive", "store", "notify", "purge"} => recv.min # Invalid
    /\ recv.min # Invalid =>
          /\ recv.min <= Cached
          /\ \A o \in Outputs : per_ch_processed[o] # Invalid => recv.min <= per_ch_processed[o]

\* The sending task of output o: the state of its channel and how many messages it has sent.
SenderState(o) ==
    IF sender[o].at \in {"check", "asleep", "request", "send", "drain"} THEN "running"
    ELSE IF sender[o].at = "ended" THEN "stopped" ELSE "draining"
SenderSent(o) ==
    IF sender[o].at \in {"check", "asleep", "request"} THEN per_ch_processed[o]
    ELSE IF sender[o].at = "send" THEN sender[o].available - Len(sender[o].batch)
    ELSE producer.of

\* Its batch is what comes next up to what was available.
BatchInv(o) ==
    /\ sender[o].available <= Cached /\ Len(sender[o].batch) <= sender[o].available
    /\ per_ch_processed[o] <= sender[o].available - Len(sender[o].batch)
    /\ \A i \in 1 .. Len(sender[o].batch) :
          sender[o].batch[i] = sender[o].available - Len(sender[o].batch) + i

\* What it has not processed is in the cache.
SenderInv(o) ==
    /\ per_ch_processed[o] = Invalid <=> sender[o].at \in {"left", "ended"}
    /\ sender[o].at \notin {"left", "ended"} =>
          /\ per_ch_processed[o] \in 0 .. Cached
          /\ \A m \in (per_ch_processed[o] + 1) .. Cached : <<"cache", m>> \in container
    /\ sends[o] = "produce" => sender[o].at = "send" /\ sender[o].batch # <<>>
    /\ sender[o].at = "send" => BatchInv(o)
    /\ sender[o].at \in {"leave", "left"} /\ consumer[o] = "pulling" => rb[o].held = <<>>
    /\ OutputIs(o, SenderState(o), SenderSent(o))

UnboundedInv ==
    /\ ChannelTypes /\ UnboundedTypes /\ CacheInv /\ EndInv /\ MinInv
    /\ \A o \in Outputs : SenderInv(o)

LEMMA UnboundedBegins ==
  ASSUME ChannelInit, FanoutInit
  PROVE  UnboundedInv
<1>1. /\ received = [o \in Outputs |-> <<>>] /\ consumer = [o \in Outputs |-> "pulling"]
      /\ producer \in {[at |-> "insert", message |-> 1, of |-> n] : n \in 1 .. NMessages}
  BY DEF ChannelInit
<1>2. producer.of \in Nat /\ producer.of <= NMessages
  BY <1>1, NMessagesAssumption
<1>3. /\ bounded = [at |-> "receive", message |-> 0]
      /\ sends = [o \in Outputs |-> "idle"]
      /\ recv = [at |-> "wait", min |-> Invalid, got |-> <<>>]
      /\ sender = [o \in Outputs |-> [at |-> "check", batch |-> <<>>, available |-> 0]]
      /\ per_ch_processed = [o \in Outputs |-> 0]
      /\ recv_msg_ids = <<>> /\ no_more_input = FALSE
  BY DEF FanoutInit
<1>4. Cached = 0 /\ 0 # Invalid
  BY <1>3, InvalidAssumption, NMessagesAssumption DEF Cached
<1>5. /\ ChannelTypes /\ InputIs(0)
      /\ \A o \in Outputs : OutputIs(o, "running", 0)
  BY <1>3, BoundedBegins DEF BoundedInv, BoundedTypes, ServedState, SentTo, Serving, Taking
<1>6. UnboundedTypes
  <2>1. <<>> \in Seq(Nat)
    OBVIOUS
  <2>2. recv \in [at : RecvPlaces, min : Nat \cup {Invalid}, got : Seq(Nat)]
    BY <2>1, <1>3 DEF RecvPlaces
  <2>3. sender \in [Outputs -> [at : SenderPlaces, batch : Seq(Nat), available : Nat]]
    BY <2>1, <1>3 DEF SenderPlaces
  <2>4. \A i \in 1 .. Cached : recv_msg_ids[i] = i
    BY <1>4
  <2>5. /\ per_ch_processed \in [Outputs -> Nat \cup {Invalid}]
        /\ sends \in [Outputs -> {"idle", "produce"}] /\ recv_msg_ids \in Seq(Nat)
    BY <2>1, <1>3
  <2>6. no_more_input \in BOOLEAN
    BY <1>3
  <2>7. Cached <= producer.of /\ producer.of <= NMessages
    BY <1>2, <1>4
  <2> QED BY <2>2, <2>3, <2>4, <2>5, <2>6, <2>7 DEF UnboundedTypes
<1>7. CacheInv /\ EndInv /\ MinInv
  BY <1>3, <1>4, <1>5 DEF CacheInv, EndInv, MinInv
<1>8. ASSUME NEW o \in Outputs PROVE SenderInv(o)
  BY <1>3, <1>4, <1>5 DEF SenderInv, SenderState, SenderSent
<1> QED BY <1>5, <1>6, <1>7, <1>8 DEF UnboundedInv

\* A sending task whose output keeps what was said of it.
LEMMA SenderStays ==
  ASSUME UnboundedInv, NEW o \in Outputs,
         sender'[o] = sender[o], per_ch_processed'[o] = per_ch_processed[o], sends'[o] = sends[o],
         recv_msg_ids' = recv_msg_ids, producer'.of = producer.of,
         per_ch_processed[o] # Invalid =>
             \A m \in Nat : m > per_ch_processed[o] /\ <<"cache", m>> \in container =>
                               <<"cache", m>> \in container',
         consumer'[o] = "pulling" => consumer[o] = "pulling",
         rb[o].held = <<>> => rb'[o].held = <<>>,
         \A state \in States, n \in Nat : OutputIs(o, state, n) => OutputIs(o, state, n)'
  PROVE  SenderInv(o)'
<1>1. /\ sender[o] \in [at : SenderPlaces, batch : Seq(Nat), available : Nat] /\ Cached \in Nat
      /\ producer.of \in Nat /\ SenderInv(o) /\ Cached' = Cached
  BY DEF UnboundedInv, UnboundedTypes, ChannelTypes, Cached
<1>2. SenderState(o) \in States /\ SenderState(o)' = SenderState(o)
  BY DEF SenderState, States
<1>3. SenderSent(o) \in Nat
  <2>1. CASE sender[o].at \in {"check", "asleep", "request"}
    BY <2>1, <1>1 DEF SenderSent, SenderInv
  <2>2. CASE sender[o].at = "send"
    BY <2>2, <1>1 DEF SenderSent, SenderInv, BatchInv
  <2> QED BY <2>1, <2>2, <1>1 DEF SenderSent
<1>4. SenderSent(o)' = SenderSent(o)
  BY DEF SenderSent
<1>5. OutputIs(o, SenderState(o), SenderSent(o))'
  BY <1>1, <1>2, <1>3, <1>4 DEF SenderInv
<1>6. sender[o].at = "send" => BatchInv(o)'
  BY <1>1 DEF SenderInv, BatchInv
<1>7. sender[o].at \notin {"left", "ended"} =>
          \A m \in (per_ch_processed[o] + 1) .. Cached : <<"cache", m>> \in container'
  <2> SUFFICES ASSUME sender[o].at \notin {"left", "ended"},
                      NEW m \in (per_ch_processed[o] + 1) .. Cached
               PROVE  <<"cache", m>> \in container'
    OBVIOUS
  <2>1. /\ m \in Nat /\ m > per_ch_processed[o] /\ <<"cache", m>> \in container
        /\ per_ch_processed[o] # Invalid
    BY <1>1 DEF SenderInv
  <2> QED BY <2>1
<1> QED BY <1>1, <1>5, <1>6, <1>7 DEF SenderInv

\* A step of the producer or of a consumer.
LEMMA UnboundedLeaves ==
  ASSUME UnboundedInv, \/ push_to_channel
                       \/ \E o \in Outputs : pull_from_channel(o) \/ close_channel(o),
         UNCHANGED <<sends, recv, sender, per_ch_processed, recv_msg_ids, no_more_input>>
  PROVE  UnboundedInv'
<1>1. ChannelTypes /\ \A o \in Outputs : InSequence(o)
  BY DEF UnboundedInv, SenderInv, OutputIs
<1>2. ASSUME ChannelTypes', producer'.of = producer.of,
             \A n : InputIs(n) => InputIs(n)',
             \A m : <<"cache", m>> \in container => <<"cache", m>> \in container',
             \A o \in Outputs : rb[o].held = <<>> => rb'[o].held = <<>>,
             \A o \in Outputs : consumer'[o] = "pulling" => consumer[o] = "pulling",
             \A o \in Outputs, state \in States, n \in Nat :
                 OutputIs(o, state, n) => OutputIs(o, state, n)'
      PROVE  UnboundedInv'
  <2>1. Cached' = Cached
    BY DEF Cached
  <2>2. UnboundedTypes'
    BY <2>1, <1>2 DEF UnboundedInv, UnboundedTypes
  <2>3. CacheInv'
    BY <2>1, <1>2 DEF UnboundedInv, CacheInv
  <2>4. EndInv' /\ MinInv'
    BY <2>1, <1>2 DEF UnboundedInv, EndInv, MinInv
  <2>5. \A o \in Outputs : SenderInv(o)'
    BY <1>2, SenderStays
  <2> QED BY <2>2, <2>3, <2>4, <2>5, <1>2 DEF UnboundedInv
<1>3. CASE push_to_channel
  <2>1. /\ ChannelTypes' /\ producer'.of = producer.of /\ received' = received /\ consumer' = consumer
        /\ \A o \in Outputs : rb'[o] = rb[o]
        /\ container \subseteq container'
        /\ \A n : InputIs(n) => InputIs(n)'
    BY <1>1, <1>3, PushKeeps
  <2>2. \A o \in Outputs, state \in States, n \in Nat : OutputIs(o, state, n) => OutputIs(o, state, n)'
    BY <2>1, OutputStays
  <2>3. /\ \A m : <<"cache", m>> \in container => <<"cache", m>> \in container'
        /\ \A o \in Outputs : rb[o].held = <<>> => rb'[o].held = <<>>
        /\ \A o \in Outputs : consumer'[o] = "pulling" => consumer[o] = "pulling"
    BY <2>1
  <2> QED BY <2>1, <2>2, <2>3, <1>2
<1>4. ASSUME NEW p \in Outputs, pull_from_channel(p) \/ close_channel(p)
      PROVE  UnboundedInv'
  <2>1. /\ ChannelTypes' /\ rb'["in"] = rb["in"] /\ producer' = producer
        /\ \A m : <<"cache", m>> \in container => <<"cache", m>> \in container'
        /\ \A o \in Outputs : rb[o].held = <<>> => rb'[o].held = <<>>
        /\ \A o \in Outputs : consumer'[o] = "pulling" => consumer[o] = "pulling"
        /\ \A o \in Outputs, state \in States, n \in Nat :
              OutputIs(o, state, n) => OutputIs(o, state, n)'
    BY <1>1, <1>4, LeafKeeps, Zenon
  <2>2. \A n : InputIs(n) => InputIs(n)'
    BY <2>1 DEF InputIs
  <2>3. producer'.of = producer.of
    BY <2>1
  <2> QED BY <2>1, <2>2, <2>3, <1>2, Zenon
<1> QED BY <1>3, <1>4

\* Steps of the receiving task leave the outputs alone.
LEMMA SendersStay ==
  ASSUME UnboundedInv, NEW os \in SUBSET Outputs,
         \A o \in os : /\ sender'[o] = sender[o] /\ per_ch_processed'[o] = per_ch_processed[o]
                       /\ sends'[o] = sends[o] /\ rb'[o] = rb[o],
         UNCHANGED <<recv_msg_ids, received, consumer, producer>>,
         \A m \in Nat : <<"cache", m>> \in container => <<"cache", m>> \in container'
  PROVE  \A o \in os : SenderInv(o)'
<1> SUFFICES ASSUME NEW o \in os PROVE SenderInv(o)'
  OBVIOUS
<1>1. \A state \in States, n \in Nat : OutputIs(o, state, n) => OutputIs(o, state, n)'
  BY OutputStays
<1> QED BY <1>1, SenderStays

LEMMA RecvWaits ==
  ASSUME UnboundedInv, wait_for_data_request, UNCHANGED sends
  PROVE  UnboundedInv'
<1>1. /\ recv.at = "wait" /\ InputIs(Cached)
      /\ recv \in [at : RecvPlaces, min : Nat \cup {Invalid}, got : Seq(Nat)]
      /\ UNCHANGED <<rb, container, received, consumer, producer, sender, per_ch_processed,
                     recv_msg_ids, no_more_input>>
  BY DEF wait_for_data_request, channelVars, leafVars, UnboundedInv, CacheInv, UnboundedTypes
<1>2. ChannelTypes' /\ \A o \in Outputs : SenderInv(o)'
  BY <1>1, SendersStay DEF UnboundedInv, ChannelTypes
<1>3. Cached' = Cached /\ InputIs(Cached)'
  BY <1>1 DEF Cached, InputIs
<1>4. ASSUME NEW place \in RecvPlaces, NEW m \in Nat, recv' = [recv EXCEPT !.at = place, !.min = m]
      PROVE  UnboundedTypes' /\ recv'.at = place /\ recv'.min = m
  <2>1. recv' = [at |-> place, min |-> m, got |-> recv.got]
    BY <1>1, <1>4
  <2>2. recv' \in [at : RecvPlaces, min : Nat \cup {Invalid}, got : Seq(Nat)] /\ recv'.at = place /\ recv'.min = m
    BY <2>1, <1>1
  <2> QED BY <2>2, <1>1, <1>3 DEF UnboundedInv, UnboundedTypes
<1>5. ASSUME NEW place \in RecvPlaces, recv' = [recv EXCEPT !.at = place]
      PROVE  UnboundedTypes' /\ recv'.at = place
  <2>1. recv' = [at |-> place, min |-> recv.min, got |-> recv.got]
    BY <1>1, <1>5
  <2>2. recv' \in [at : RecvPlaces, min : Nat \cup {Invalid}, got : Seq(Nat)] /\ recv'.at = place
    BY <2>1, <1>1
  <2> QED BY <2>2, <1>1, <1>3 DEF UnboundedInv, UnboundedTypes
<1>6. CASE AllInvalid /\ recv.min = Invalid /\ recv' = [recv EXCEPT !.at = "drain"]
  <2>1. UnboundedTypes' /\ recv'.at = "drain" /\ recv'.min = Invalid
    BY <1>1, <1>5, <1>6 DEF RecvPlaces
  <2>2. \A o \in Outputs : sender[o].at \in {"left", "ended"}
    BY <1>6 DEF AllInvalid, Valid, UnboundedInv, SenderInv
  <2>3. CacheInv' /\ MinInv' /\ EndInv'
    BY <2>1, <2>2, <1>1 DEF CacheInv, MinInv, EndInv
  <2> QED BY <2>1, <2>3, <1>2 DEF UnboundedInv
<1>7. CASE AllInvalid /\ recv.min # Invalid /\ recv' = [recv EXCEPT !.at = "receive"]
  <2>1. UnboundedTypes' /\ recv'.at = "receive" /\ recv'.min = recv.min
    BY <1>1, <1>5, <1>7 DEF RecvPlaces
  <2>2. CacheInv' /\ EndInv'
    BY <2>1, <1>1, <1>3 DEF CacheInv, EndInv, UnboundedInv
  <2>3. MinInv'
    BY <2>1, <1>1, <1>3, <1>7 DEF MinInv, UnboundedInv
  <2> QED BY <2>1, <2>2, <2>3, <1>2 DEF UnboundedInv
<1>8. ASSUME ~AllInvalid, NEW place \in {"receive", "asleep"},
             recv' = [recv EXCEPT !.at = place, !.min = Min(Processed)]
      PROVE  UnboundedInv'
  <2>1. \A o \in Valid : per_ch_processed[o] \in 0 .. Cached
    BY DEF Valid, UnboundedInv, SenderInv
  <2>2. Cached \in Nat
    BY DEF Cached, UnboundedInv, UnboundedTypes
  <2>3. Processed \in SUBSET Nat /\ Processed # {} /\ \A y \in Processed : y <= Cached
    BY <2>1, <2>2, <1>8 DEF Processed, AllInvalid
  <2>4. Min(Processed) \in Processed /\ \A y \in Processed : Min(Processed) <= y
    BY <2>3, MinIsLeast
  <2>5. /\ Min(Processed) \in Nat /\ Min(Processed) <= Cached /\ Min(Processed) # Invalid
        /\ \A o \in Outputs : per_ch_processed[o] # Invalid => Min(Processed) <= per_ch_processed[o]
    BY <2>3, <2>4 DEF Processed, Valid
  <2>6. UnboundedTypes' /\ recv'.at = place /\ recv'.min = Min(Processed)
    BY <2>5, <1>4, <1>8 DEF RecvPlaces
  <2>7. CacheInv' /\ EndInv'
    BY <2>6, <1>1, <1>3 DEF CacheInv, EndInv, UnboundedInv
  <2>8. MinInv'
    BY <2>5, <2>6, <1>1, <1>3 DEF MinInv
  <2> QED BY <2>6, <2>7, <2>8, <1>2 DEF UnboundedInv
<1>9. ASSUME ~AllInvalid,
             recv' = [recv EXCEPT
                 !.at = IF Max(Processed) = Len(recv_msg_ids) THEN "receive" ELSE "asleep",
                 !.min = Min(Processed)]
      PROVE  UnboundedInv'
  BY <1>8, <1>9
<1> QED BY <1>6, <1>7, <1>9 DEF wait_for_data_request

LEMMA RecvReceives ==
  ASSUME UnboundedInv, recv_message, UNCHANGED sends
  PROVE  UnboundedInv'
<1>0. PICK n : n = Cached
  OBVIOUS
<1>1. /\ recv.at = "receive" /\ InputIs(n) /\ ChannelTypes /\ n \in Nat
      /\ recv \in [at : RecvPlaces, min : Nat \cup {Invalid}, got : Seq(Nat)]
      /\ UNCHANGED <<received, consumer, producer, sender, per_ch_processed,
                     recv_msg_ids, no_more_input>>
  BY <1>0 DEF recv_message, leafVars, UnboundedInv, CacheInv, UnboundedTypes, Cached
<1>2. Cached' = n
  BY <1>0, <1>1 DEF Cached
<1>3. ASSUME NEW got \in Seq(Nat), recv' = [recv EXCEPT !.at = "store", !.got = got]
      PROVE  UnboundedTypes' /\ EndInv' /\ MinInv' /\ recv'.at = "store" /\ recv'.got = got
  <2>1. recv' = [at |-> "store", min |-> recv.min, got |-> got]
    BY <1>1, <1>3
  <2>2. recv' \in [at : RecvPlaces, min : Nat \cup {Invalid}, got : Seq(Nat)]
    BY <2>1, <1>1 DEF RecvPlaces
  <2>3. UnboundedTypes'
    BY <2>2, <1>0, <1>1, <1>2 DEF UnboundedInv, UnboundedTypes
  <2>4. EndInv' /\ MinInv'
    BY <2>1, <1>0, <1>1, <1>2 DEF UnboundedInv, EndInv, MinInv
  <2> QED BY <2>1, <2>3, <2>4
<1>4. CASE receive("in") /\ recv' = [recv EXCEPT !.at = "store", !.got = rb["in"].held]
  <2>1. /\ rb' \in [Channels -> RingBuffers] /\ \A o \in Outputs : rb'[o] = rb[o]
        /\ rb["in"].held = <<n + 1>> /\ InputIs(n + 1)'
        /\ \A m : <<"cache", m>> \in container => <<"cache", m>> \in container'
    BY <1>1, <1>4, TakeIn
  <2>2. <<n + 1>> \in Seq(Nat)
    BY <1>1
  <2>3. UnboundedTypes' /\ EndInv' /\ MinInv' /\ recv'.at = "store" /\ recv'.got = <<n + 1>>
    BY <2>1, <2>2, <1>3, <1>4
  <2>4. ChannelTypes' /\ \A o \in Outputs : SenderInv(o)'
    BY <2>1, <1>1, SendersStay DEF ChannelTypes
  <2>5. CacheInv'
    BY <2>1, <2>3, <1>2 DEF CacheInv
  <2> QED BY <2>3, <2>4, <2>5 DEF UnboundedInv
<1>5. CASE /\ ConsumeFails("in") /\ recv' = [recv EXCEPT !.at = "store", !.got = <<>>]
           /\ UNCHANGED <<rb, container>>
  <2>1. n = producer.of /\ InputIs(n)'
    BY <1>1, <1>5, NoMoreIn DEF InputIs
  <2>2. <<>> \in Seq(Nat)
    OBVIOUS
  <2>3. UnboundedTypes' /\ EndInv' /\ MinInv' /\ recv'.at = "store" /\ recv'.got = <<>>
    BY <2>2, <1>3, <1>5
  <2>4. ChannelTypes' /\ \A o \in Outputs : SenderInv(o)'
    BY <1>1, <1>5, SendersStay DEF ChannelTypes
  <2>5. CacheInv'
    BY <2>1, <2>3, <1>1, <1>2 DEF CacheInv
  <2> QED BY <2>3, <2>4, <2>5 DEF UnboundedInv
<1> QED BY <1>4, <1>5 DEF recv_message

LEMMA RecvStores ==
  ASSUME UnboundedInv, recv_store, UNCHANGED sends
  PROVE  UnboundedInv'
<1>0. PICK n : n = Cached
  OBVIOUS
<1>1. /\ recv.at = "store" /\ n \in Nat /\ recv_msg_ids \in Seq(Nat) /\ Len(recv_msg_ids) = n
      /\ \A i \in 1 .. n : recv_msg_ids[i] = i
      /\ recv \in [at : RecvPlaces, min : Nat \cup {Invalid}, got : Seq(Nat)]
      /\ recv' = [recv EXCEPT !.at = "notify"]
      /\ recv_msg_ids' = recv_msg_ids \o recv.got
      /\ container' = container \cup {<<"cache", m>> : m \in Range(recv.got)}
      /\ no_more_input' = (recv.got = <<>>)
      /\ UNCHANGED <<rb, received, consumer, producer, sender, per_ch_processed, sends>>
  BY <1>0 DEF recv_store, leafVars, UnboundedInv, UnboundedTypes, Cached
<1>2. /\ recv' = [at |-> "notify", min |-> recv.min, got |-> recv.got]
      /\ recv' \in [at : RecvPlaces, min : Nat \cup {Invalid}, got : Seq(Nat)]
  BY <1>1 DEF RecvPlaces
<1>3. ChannelTypes' /\ no_more_input' \in BOOLEAN
  BY <1>1 DEF UnboundedInv, ChannelTypes
<1>4. CASE recv.got = <<>> /\ InputIs(n) /\ n = producer.of
  <2>1. recv_msg_ids' = recv_msg_ids /\ Cached' = n
    BY <1>1, <1>4 DEF Cached
  <2>2. UnboundedTypes'
    BY <2>1, <1>0, <1>1, <1>2, <1>3 DEF UnboundedInv, UnboundedTypes
  <2>3. \A o \in Outputs : SenderInv(o)'
    BY <2>1, <1>1, SendersStay
  <2>4. InputIs(n)'
    BY <1>1, <1>4 DEF InputIs
  <2>5. CacheInv' /\ EndInv' /\ MinInv'
    BY <2>1, <2>4, <1>0, <1>1, <1>2, <1>4 DEF UnboundedInv, CacheInv, EndInv, MinInv
  <2> QED BY <2>2, <2>3, <2>5, <1>3 DEF UnboundedInv
<1>5. CASE recv.got = <<n + 1>> /\ InputIs(n + 1)
  <2>1. /\ recv_msg_ids' \in Seq(Nat) /\ Len(recv_msg_ids') = n + 1
        /\ \A i \in 1 .. n + 1 : recv_msg_ids'[i] = i
    <3>1. <<n + 1>> \in Seq(Nat)
      BY <1>1
    <3> QED BY <3>1, <1>1, <1>5
  <2>2. Cached' = n + 1
    BY <2>1 DEF Cached
  <2>3. n + 1 <= producer.of
    BY <1>5, InWithin DEF UnboundedInv
  <2>4. UnboundedTypes'
    BY <2>1, <2>2, <2>3, <1>1, <1>2, <1>3 DEF UnboundedInv, UnboundedTypes
  <2>5. InputIs(n + 1)'
    BY <1>1, <1>5 DEF InputIs
  <2>6. ~ no_more_input'
    <3>1. recv.got # <<>>
      BY <1>5
    <3> QED BY <3>1, <1>1, Zenon
  <2>7. CacheInv' /\ EndInv'
    BY <2>2, <2>5, <2>6, <1>2 DEF CacheInv, EndInv
  <2>8. MinInv'
    <3>1. recv.min <= n /\ recv.min \in Nat
      BY <1>0, <1>1 DEF UnboundedInv, MinInv
    <3>2. recv.min <= n + 1
      BY <3>1, <1>1
    <3> QED BY <3>2, <2>2, <1>1, <1>2 DEF UnboundedInv, MinInv
  <2>9. container \subseteq container' /\ <<"cache", n + 1>> \in container'
    <3>1. n + 1 \in Range(recv.got)
      BY <1>5 DEF Range
    <3> QED BY <3>1, <1>1
  <2>10. ASSUME NEW o \in Outputs PROVE SenderInv(o)'
    <3>1. SenderInv(o) /\ sender[o] \in [at : SenderPlaces, batch : Seq(Nat), available : Nat]
      BY DEF UnboundedInv, UnboundedTypes
    <3>2. SenderState(o)' = SenderState(o) /\ SenderSent(o)' = SenderSent(o)
      BY <1>1 DEF SenderState, SenderSent
    <3>3. OutputIs(o, SenderState(o), SenderSent(o))'
      BY <3>1, <3>2, <1>1 DEF SenderInv, OutputIs, InSequence, Given
    <3>4. sender[o].at = "send" => BatchInv(o)'
      BY <3>1, <2>2, <1>0, <1>1 DEF SenderInv, BatchInv
    <3>5. sender[o].at \notin {"left", "ended"} =>
              /\ per_ch_processed[o] \in 0 .. n + 1
              /\ \A m \in (per_ch_processed[o] + 1) .. n + 1 : <<"cache", m>> \in container'
      <4> SUFFICES ASSUME sender[o].at \notin {"left", "ended"}
                   PROVE  /\ per_ch_processed[o] \in 0 .. n + 1
                          /\ \A m \in (per_ch_processed[o] + 1) .. n + 1 : <<"cache", m>> \in container'
        OBVIOUS
      <4>1. /\ per_ch_processed[o] \in 0 .. n
            /\ \A m \in (per_ch_processed[o] + 1) .. n : <<"cache", m>> \in container
        BY <3>1, <1>0 DEF SenderInv
      <4>2. \A m \in (per_ch_processed[o] + 1) .. n + 1 : m = n + 1 \/ m \in (per_ch_processed[o] + 1) .. n
        BY <4>1, <1>1
      <4>3. per_ch_processed[o] \in 0 .. n + 1
        BY <4>1, <1>1
      <4>4. \A m \in (per_ch_processed[o] + 1) .. n + 1 : <<"cache", m>> \in container'
        BY <4>1, <4>2, <2>9
      <4> QED BY <4>3, <4>4
    <3> QED BY <3>1, <3>3, <3>4, <3>5, <2>2, <1>1 DEF SenderInv
  <2> QED BY <2>4, <2>7, <2>8, <2>10, <1>3 DEF UnboundedInv
<1> QED BY <1>0, <1>1, <1>4, <1>5 DEF UnboundedInv, CacheInv

\* A sending task that is woken looks again.
LEMMA SendersWake ==
  ASSUME UnboundedInv, WakeSenders, UNCHANGED <<sends, per_ch_processed, recv_msg_ids, container,
         received, consumer, producer>>, \A o \in Outputs : rb'[o] = rb[o]
  PROVE  /\ sender' \in [Outputs -> [at : SenderPlaces, batch : Seq(Nat), available : Nat]]
         /\ \A o \in Outputs : sender'[o].at \in {"left", "ended"} <=> sender[o].at \in {"left", "ended"}
         /\ \A o \in Outputs : SenderInv(o)'
<1>1. sender \in [Outputs -> [at : SenderPlaces, batch : Seq(Nat), available : Nat]]
  BY DEF UnboundedInv, UnboundedTypes
<1>2. ASSUME NEW o \in Outputs, sender[o].at = "asleep"
      PROVE  sender'[o] = [at |-> "check", batch |-> sender[o].batch, available |-> sender[o].available]
  <2>1. sender'[o] = [sender[o] EXCEPT !.at = "check"]
    BY <1>2 DEF WakeSenders
  <2> QED BY <2>1, <1>1
<1>3. ASSUME NEW o \in Outputs, sender[o].at # "asleep" PROVE sender'[o] = sender[o]
  BY <1>3 DEF WakeSenders
<1>4. ASSUME NEW o \in Outputs
      PROVE  /\ sender'[o] \in [at : SenderPlaces, batch : Seq(Nat), available : Nat]
             /\ sender'[o].at \in {"left", "ended"} <=> sender[o].at \in {"left", "ended"}
             /\ SenderInv(o)'
  <2>1. CASE sender[o].at = "asleep"
    <3>1. sender'[o] = [at |-> "check", batch |-> sender[o].batch, available |-> sender[o].available]
      BY <2>1, <1>2
    <3>2. sender'[o] \in [at : SenderPlaces, batch : Seq(Nat), available : Nat]
      BY <3>1, <1>1 DEF SenderPlaces
    <3>3. SenderInv(o) /\ Cached' = Cached
      BY DEF UnboundedInv, Cached
    <3>4. SenderState(o)' = SenderState(o) /\ SenderSent(o)' = SenderSent(o)
      BY <3>1, <2>1 DEF SenderState, SenderSent
    <3>5. OutputIs(o, SenderState(o), SenderSent(o))'
      BY <3>3, <3>4 DEF SenderInv, OutputIs, InSequence, Given
    <3>6. SenderInv(o)'
      BY <3>1, <3>3, <3>5, <2>1 DEF SenderInv
    <3> QED BY <3>1, <3>2, <3>6, <2>1
  <2>2. CASE sender[o].at # "asleep"
    <3>1. sender'[o] = sender[o]
      BY <2>2, <1>3
    <3>2. \A state \in States, n \in Nat : OutputIs(o, state, n) => OutputIs(o, state, n)'
      BY OutputStays
    <3>3. SenderInv(o)'
      BY <3>1, <3>2, SenderStays
    <3> QED BY <3>1, <3>3, <1>1
  <2> QED BY <2>1, <2>2
<1>5. sender' \in [Outputs -> [at : SenderPlaces, batch : Seq(Nat), available : Nat]]
  BY <1>4 DEF WakeSenders
<1> QED BY <1>4, <1>5

LEMMA RecvNotifies ==
  ASSUME UnboundedInv, recv_notify, UNCHANGED sends
  PROVE  UnboundedInv'
<1>1. /\ recv.at = "notify" /\ WakeSenders /\ recv' = [recv EXCEPT !.at = "purge"]
      /\ recv \in [at : RecvPlaces, min : Nat \cup {Invalid}, got : Seq(Nat)]
      /\ UNCHANGED <<rb, container, received, consumer, producer, per_ch_processed, recv_msg_ids,
                     no_more_input>>
  BY DEF recv_notify, channelVars, leafVars, UnboundedInv, UnboundedTypes
<1>2. /\ recv' = [at |-> "purge", min |-> recv.min, got |-> recv.got]
      /\ recv' \in [at : RecvPlaces, min : Nat \cup {Invalid}, got : Seq(Nat)]
  BY <1>1 DEF RecvPlaces
<1>3. /\ sender' \in [Outputs -> [at : SenderPlaces, batch : Seq(Nat), available : Nat]]
      /\ \A o \in Outputs : sender'[o].at \in {"left", "ended"} <=> sender[o].at \in {"left", "ended"}
      /\ \A o \in Outputs : SenderInv(o)'
  BY <1>1, SendersWake
<1>4. Cached' = Cached /\ ChannelTypes'
  BY <1>1 DEF Cached, UnboundedInv, ChannelTypes
<1>5. UnboundedTypes'
  BY <1>1, <1>2, <1>3, <1>4 DEF UnboundedInv, UnboundedTypes
<1>6. CacheInv' /\ EndInv' /\ MinInv'
  BY <1>1, <1>2, <1>3, <1>4 DEF UnboundedInv, CacheInv, EndInv, MinInv, InputIs
<1> QED BY <1>3, <1>4, <1>5, <1>6 DEF UnboundedInv

LEMMA RecvPurges ==
  ASSUME UnboundedInv, recv_purge, UNCHANGED sends
  PROVE  UnboundedInv'
<1>1. /\ recv.at = "purge" /\ recv.min \in Nat /\ recv.min <= Cached
      /\ \A i \in 1 .. Cached : recv_msg_ids[i] = i
      /\ Cached \in Nat /\ InputIs(Cached)
      /\ container' = container \ {<<"cache", recv_msg_ids[i]>> : i \in 1 .. recv.min}
      /\ recv' = [at |-> IF no_more_input THEN "drain" ELSE "wait", min |-> Invalid, got |-> <<>>]
      /\ UNCHANGED <<rb, received, consumer, producer, sender, per_ch_processed, recv_msg_ids,
                     no_more_input>>
  BY DEF recv_purge, PurgeEnd, leafVars, UnboundedInv, UnboundedTypes, CacheInv, MinInv, Cached
<1>2. Cached' = Cached /\ ChannelTypes' /\ InputIs(Cached)'
  BY <1>1 DEF Cached, UnboundedInv, ChannelTypes, InputIs
<1>3. UnboundedTypes'
  <2>1. <<>> \in Seq(Nat)
    OBVIOUS
  <2>2. recv' \in [at : RecvPlaces, min : Nat \cup {Invalid}, got : Seq(Nat)]
    BY <2>1, <1>1 DEF RecvPlaces
  <2> QED BY <2>2, <1>1, <1>2 DEF UnboundedInv, UnboundedTypes
<1>4. CacheInv' /\ EndInv' /\ MinInv'
  BY <1>1, <1>2 DEF UnboundedInv, CacheInv, EndInv, MinInv
<1>5. ASSUME NEW m \in Nat, m > recv.min, <<"cache", m>> \in container PROVE <<"cache", m>> \in container'
  <2>1. \A i \in 1 .. recv.min : recv_msg_ids[i] = i
    BY <1>1
  <2>2. \A i \in 1 .. recv.min : recv_msg_ids[i] # m
    BY <2>1, <1>1, <1>5
  <2> QED BY <2>2, <1>1, <1>5
<1>6. ASSUME NEW o \in Outputs PROVE SenderInv(o)'
  <2>1. per_ch_processed[o] # Invalid => recv.min <= per_ch_processed[o] /\ per_ch_processed[o] \in Nat
    BY <1>1 DEF UnboundedInv, MinInv, UnboundedTypes
  <2>2. per_ch_processed[o] # Invalid =>
            \A m \in Nat : m > per_ch_processed[o] /\ <<"cache", m>> \in container =>
                              <<"cache", m>> \in container'
    BY <2>1, <1>1, <1>5
  <2>3. \A state \in States, n \in Nat : OutputIs(o, state, n) => OutputIs(o, state, n)'
    BY <1>1, OutputStays
  <2> QED BY <2>2, <2>3, <1>1, SenderStays
<1> QED BY <1>2, <1>3, <1>4, <1>6 DEF UnboundedInv

LEMMA RecvExits ==
  ASSUME UnboundedInv, recv_exit, UNCHANGED sends
  PROVE  UnboundedInv'
<1>1. /\ recv.at \in {"drain", "drained", "leave", "left"}
      /\ recv \in [at : RecvPlaces, min : Nat \cup {Invalid}, got : Seq(Nat)] /\ rb \in [Channels -> RingBuffers]
      /\ UNCHANGED <<container, received, consumer, producer, per_ch_processed, recv_msg_ids>>
  BY DEF recv_exit, leafVars, UnboundedInv, UnboundedTypes, ChannelTypes
<1>2. /\ rb' \in [Channels -> RingBuffers] /\ \A o \in Outputs : rb'[o] = rb[o]
  BY <1>1, RbShutdown, NothingIsIn DEF recv_exit
<1>3. Cached' = Cached /\ ChannelTypes'
  BY <1>1, <1>2 DEF Cached, UnboundedInv, ChannelTypes
<1>4. PICK place \in {"drained", "leave", "left", "ended"} : recv' = [recv EXCEPT !.at = place]
  BY DEF recv_exit
<1>5. /\ recv' = [at |-> place, min |-> recv.min, got |-> recv.got]
      /\ recv' \in [at : RecvPlaces, min : Nat \cup {Invalid}, got : Seq(Nat)]
  BY <1>1, <1>4 DEF RecvPlaces
<1>6. no_more_input' \in BOOLEAN
  BY DEF recv_exit, UnboundedInv, UnboundedTypes
<1>7. /\ sender' \in [Outputs -> [at : SenderPlaces, batch : Seq(Nat), available : Nat]]
      /\ \A o \in Outputs : sender'[o].at \in {"left", "ended"} <=> sender[o].at \in {"left", "ended"}
      /\ \A o \in Outputs : SenderInv(o)'
  <2>1. CASE UNCHANGED sender
    BY <2>1, <1>1, <1>2, SendersStay DEF UnboundedInv, UnboundedTypes
  <2>2. CASE WakeSenders
    BY <2>2, <1>1, <1>2, SendersWake
  <2> QED BY <2>1, <2>2 DEF recv_exit
<1>8. UnboundedTypes'
  BY <1>1, <1>3, <1>5, <1>6, <1>7 DEF UnboundedInv, UnboundedTypes
<1>9. CacheInv' /\ MinInv'
  <2>1. CacheInv'
    BY <1>5 DEF CacheInv
  <2>2. MinInv'
    BY <1>1, <1>3, <1>5 DEF UnboundedInv, MinInv
  <2> QED BY <2>1, <2>2
<1>10. EndInv'
  BY <1>1, <1>3, <1>7 DEF UnboundedInv, EndInv
<1> QED BY <1>3, <1>7, <1>8, <1>9, <1>10 DEF UnboundedInv

\* A step of the sending task of o: it is enough to look at o.
LEMMA SenderMoves ==
  ASSUME UnboundedInv, NEW o \in Outputs,
         UNCHANGED <<received, consumer, producer, recv_msg_ids, no_more_input>>,
         UNCHANGED recv \/ WakeReceiver,
         rb' \in [Channels -> RingBuffers], \A c \in Channels \ {o} : rb'[c] = rb[c],
         \A m \in Nat : <<"cache", m>> \in container => <<"cache", m>> \in container',
         \A p \in Outputs \ {o} : /\ sender'[p] = sender[p] /\ sends'[p] = sends[p]
                                  /\ per_ch_processed'[p] = per_ch_processed[p],
         sender' \in [Outputs -> [at : SenderPlaces, batch : Seq(Nat), available : Nat]],
         per_ch_processed' \in [Outputs -> Nat \cup {Invalid}],
         sends' \in [Outputs -> {"idle", "produce"}],
         sender[o].at \in {"left", "ended"} => sender'[o].at \in {"left", "ended"},
         per_ch_processed'[o] # Invalid =>
             per_ch_processed[o] # Invalid /\ per_ch_processed[o] <= per_ch_processed'[o],
         SenderInv(o)'
  PROVE  UnboundedInv'
<1>1. Cached' = Cached /\ Cached \in Nat /\ ChannelTypes'
  BY DEF Cached, UnboundedInv, ChannelTypes, UnboundedTypes
<1>2. recv \in [at : RecvPlaces, min : Nat \cup {Invalid}, got : Seq(Nat)]
  BY DEF UnboundedInv, UnboundedTypes
<1>3. /\ recv' \in [at : RecvPlaces, min : Nat \cup {Invalid}, got : Seq(Nat)]
      /\ recv' = recv \/ (recv.at = "asleep" /\ recv'.at = "wait")
      /\ recv'.min = recv.min
  <2>1. CASE UNCHANGED recv
    BY <2>1, <1>2
  <2>2. CASE recv.at = "asleep" /\ recv' = [recv EXCEPT !.at = "wait"]
    <3>1. recv' = [at |-> "wait", min |-> recv.min, got |-> recv.got]
      BY <2>2, <1>2
    <3> QED BY <3>1, <2>2, <1>2 DEF RecvPlaces
  <2> QED BY <2>1, <2>2 DEF WakeReceiver
<1>4. UnboundedTypes'
  BY <1>1, <1>3 DEF UnboundedInv, UnboundedTypes
<1>5. \A n : InputIs(n) => InputIs(n)'
  BY OutputsAssumption DEF InputIs, Channels
<1>6. CacheInv'
  <2>1. CASE recv' = recv
    BY <2>1, <1>1, <1>5 DEF UnboundedInv, CacheInv
  <2>2. CASE recv.at = "asleep" /\ recv'.at = "wait"
    BY <2>2, <1>1, <1>5 DEF UnboundedInv, CacheInv
  <2> QED BY <2>1, <2>2, <1>3
<1>7. EndInv'
  BY <1>1, <1>3 DEF UnboundedInv, EndInv
<1>8. MinInv'
  <2>1. /\ \A p \in Outputs : per_ch_processed[p] \in Nat \cup {Invalid}
        /\ \A p \in Outputs : per_ch_processed'[p] \in Nat \cup {Invalid}
        /\ recv.min \in Nat \cup {Invalid}
    BY <1>2 DEF UnboundedInv, UnboundedTypes
  <2>2. ASSUME recv.min # Invalid, NEW p \in Outputs, per_ch_processed'[p] # Invalid
        PROVE  recv.min <= per_ch_processed'[p]
    <3>1. CASE p # o
      BY <3>1, <2>2 DEF UnboundedInv, MinInv
    <3>2. CASE p = o
      <4>1. /\ recv.min <= per_ch_processed[o] /\ per_ch_processed[o] <= per_ch_processed'[o]
            /\ per_ch_processed[o] \in Nat /\ per_ch_processed'[o] \in Nat
        BY <3>2, <2>1, <2>2 DEF UnboundedInv, MinInv
      <4> QED BY <4>1, <3>2, <2>1, <2>2
    <3> QED BY <3>1, <3>2
  <2> QED BY <2>2, <1>1, <1>3 DEF UnboundedInv, MinInv
<1>9. \A p \in Outputs \ {o} : SenderInv(p)'
  <2>1. \A p \in Outputs \ {o} : rb'[p] = rb[p]
    BY NothingIsIn
  <2> QED BY <2>1, SendersStay
<1> QED BY <1>1, <1>4, <1>6, <1>7, <1>8, <1>9 DEF UnboundedInv

\* What is known of the sending task of o before its step.
LEMMA SenderFacts ==
  ASSUME UnboundedInv, NEW o \in Outputs
  PROVE  /\ ChannelTypes /\ SenderInv(o) /\ Cached \in Nat /\ producer.of \in Nat
         /\ rb \in [Channels -> RingBuffers] /\ o \in Channels
         /\ sender \in [Outputs -> [at : SenderPlaces, batch : Seq(Nat), available : Nat]]
         /\ sender[o] \in [at : SenderPlaces, batch : Seq(Nat), available : Nat]
         /\ per_ch_processed \in [Outputs -> Nat \cup {Invalid}]
         /\ sends \in [Outputs -> {"idle", "produce"}] /\ sends[o] \in {"idle", "produce"}
         /\ recv_msg_ids \in Seq(Nat) /\ \A i \in 1 .. Cached : recv_msg_ids[i] = i
         /\ Len(recv_msg_ids) = Cached
         /\ \A n \in 0 .. Cached : n # Invalid
<1>1. NMessages \in Nat /\ Cached <= producer.of /\ producer.of <= NMessages /\ producer.of \in Nat
      /\ Cached \in Nat
  BY NMessagesAssumption DEF UnboundedInv, UnboundedTypes, ChannelTypes, Cached
<1>2. \A n \in 0 .. Cached : n \in 0 .. NMessages
  BY <1>1
<1>3. \A n \in 0 .. Cached : n # Invalid
  BY <1>2, InvalidAssumption
<1> QED BY <1>1, <1>3, NothingIsIn DEF UnboundedInv, UnboundedTypes, ChannelTypes, Cached

\* Only the place of o's task changes.
LEMMA SenderGoes ==
  ASSUME UnboundedInv, NEW o \in Outputs, NEW place \in SenderPlaces, sender' = SenderAt(o, place)
  PROVE  /\ sender' \in [Outputs -> [at : SenderPlaces, batch : Seq(Nat), available : Nat]]
         /\ sender'[o] = [at |-> place, batch |-> sender[o].batch, available |-> sender[o].available]
         /\ \A p \in Outputs \ {o} : sender'[p] = sender[p]
<1>1. sender \in [Outputs -> [at : SenderPlaces, batch : Seq(Nat), available : Nat]]
  BY SenderFacts
<1>2. [sender[o] EXCEPT !.at = place] =
          [at |-> place, batch |-> sender[o].batch, available |-> sender[o].available]
  BY <1>1
<1>3. sender' = [sender EXCEPT ![o] =
          [at |-> place, batch |-> sender[o].batch, available |-> sender[o].available]]
  BY <1>2 DEF SenderAt
<1> QED BY <1>1, <1>3

LEMMA SenderChecks ==
  ASSUME UnboundedInv, NEW o \in Outputs, sender_check(o)
  PROVE  UnboundedInv'
<1>1. /\ sender[o].at = "check"
      /\ UNCHANGED <<rb, container, received, consumer, producer, sends, recv, per_ch_processed,
                     recv_msg_ids, no_more_input>>
  BY DEF sender_check, channelVars, leafVars
<1>0. PICK n, d : n = Cached /\ d = per_ch_processed[o]
  OBVIOUS
<1>2. /\ SenderInv(o) /\ n \in Nat /\ d \in Nat /\ d <= n /\ d # Invalid /\ sends[o] = "idle"
      /\ OutputIs(o, "running", d) /\ Cached' = n
      /\ \A m \in (d + 1) .. n : <<"cache", m>> \in container
  BY <1>0, <1>1, SenderFacts, SMTT(30) DEF SenderInv, SenderState, SenderSent, Cached
<1>8. /\ rb' \in [Channels -> RingBuffers] /\ per_ch_processed' \in [Outputs -> Nat \cup {Invalid}]
      /\ sends' \in [Outputs -> {"idle", "produce"}]
      /\ per_ch_processed[o] # Invalid /\ per_ch_processed[o] <= per_ch_processed'[o]
      /\ sender[o].at \notin {"left", "ended"}
  BY <1>0, <1>1, <1>2, SenderFacts
<1>3. ASSUME NEW place \in {"asleep", "drain"}, sender' = SenderAt(o, place), place = "drain" => d = producer.of
      PROVE  UnboundedInv'
  <2>1. /\ sender' \in [Outputs -> [at : SenderPlaces, batch : Seq(Nat), available : Nat]]
        /\ sender'[o] = [at |-> place, batch |-> sender[o].batch, available |-> sender[o].available]
        /\ \A p \in Outputs \ {o} : sender'[p] = sender[p]
    BY <1>3, SenderGoes DEF SenderPlaces
  <2>2. SenderState(o)' = "running" /\ SenderSent(o)' = d
    BY <2>1, <1>0, <1>1, <1>3 DEF SenderState, SenderSent
  <2>3. OutputIs(o, SenderState(o), SenderSent(o))'
    BY <2>2, <1>1, <1>2 DEF OutputIs, InSequence, Given
  <2>4. SenderInv(o)'
    BY <2>1, <2>3, <1>0, <1>1, <1>2 DEF SenderInv
  <2> QED BY <2>1, <2>4, <1>1, <1>8, SenderMoves
<1>4. CASE no_more_input /\ d = n /\ sender' = SenderAt(o, "drain")
  <2>1. n = producer.of
    BY <1>0, <1>1, <1>4 DEF UnboundedInv, EndInv
  <2> QED BY <2>1, <1>3, <1>4
<1>5. CASE sender' = SenderAt(o, "asleep")
  BY <1>3, <1>5
<1>6. CASE /\ d < n
           /\ sender' = [sender EXCEPT ![o] = [at |-> "send", batch |-> SubSeq(recv_msg_ids, d + 1, n),
                                               available |-> n]]
  <2>0. PICK b : b = SubSeq(recv_msg_ids, d + 1, n)
    OBVIOUS
  <2>1. b \in Seq(Nat) /\ Len(b) = n - d /\ \A i \in 1 .. n - d : b[i] = d + i
    <3>1. \A i \in (d + 1) .. n : recv_msg_ids[i] = i /\ i \in Nat
      BY <1>0, <1>2, SenderFacts
    <3>2. /\ b \in Seq(Nat) /\ Len(b) = n - (d + 1) + 1
          /\ \A i \in 1 .. n - (d + 1) + 1 : b[i] = recv_msg_ids[(d + 1) + i - 1]
      BY <3>1, <2>0, <1>2, <1>6, SubSeqProperties
    <3>3. n - (d + 1) + 1 = n - d /\ \A i \in 1 .. n - d : (d + 1) + i - 1 = d + i /\ d + i \in (d + 1) .. n
      BY <1>2
    <3> QED BY <3>1, <3>2, <3>3
  <2>2. /\ sender' \in [Outputs -> [at : SenderPlaces, batch : Seq(Nat), available : Nat]]
        /\ sender'[o] = [at |-> "send", batch |-> b, available |-> n]
        /\ \A p \in Outputs \ {o} : sender'[p] = sender[p]
    <3>1. [at |-> "send", batch |-> b, available |-> n] \in
              [at : SenderPlaces, batch : Seq(Nat), available : Nat]
      BY <2>1, <1>2 DEF SenderPlaces
    <3>2. sender' = [sender EXCEPT ![o] = [at |-> "send", batch |-> b, available |-> n]]
      BY <2>0, <1>6
    <3> QED BY <3>1, <3>2, SenderFacts
  <2>3. n - Len(b) = d
    BY <2>1, <1>2
  <2>4. SenderState(o)' = "running" /\ SenderSent(o)' = d
    BY <2>2, <2>3 DEF SenderState, SenderSent
  <2>5. OutputIs(o, SenderState(o), SenderSent(o))'
    BY <2>4, <1>1, <1>2 DEF OutputIs, InSequence, Given
  <2>6. BatchInv(o)'
    BY <2>1, <2>2, <2>3, <1>0, <1>1, <1>2 DEF BatchInv
  <2>7. SenderInv(o)'
    BY <2>2, <2>5, <2>6, <1>0, <1>1, <1>2 DEF SenderInv
  <2> QED BY <2>2, <2>7, <1>1, <1>8, SenderMoves
<1>7. Len(recv_msg_ids) = n
  BY <1>0 DEF Cached
<1> QED BY <1>0, <1>4, <1>5, <1>6, <1>7 DEF sender_check

\* The head of a batch is the next message, and in the cache.
LEMMA BatchHead ==
  ASSUME UnboundedInv, NEW o \in Outputs, sender[o].at = "send", sender[o].batch # <<>>
  PROVE  /\ SenderSent(o) \in Nat /\ Head(sender[o].batch) = SenderSent(o) + 1
         /\ Len(Tail(sender[o].batch)) = Len(sender[o].batch) - 1
         /\ <<"cache", Head(sender[o].batch)>> \in container
         /\ Tail(sender[o].batch) \in Seq(Nat)
         /\ \A i \in 1 .. Len(sender[o].batch) - 1 : Tail(sender[o].batch)[i] = SenderSent(o) + 1 + i
<1>1. PICK b, a, d, n :
          b = sender[o].batch /\ a = sender[o].available /\ d = per_ch_processed[o] /\ n = Cached
  OBVIOUS
<1>2. /\ b \in Seq(Nat) /\ a \in Nat /\ n \in Nat /\ d \in Nat /\ b # <<>>
      /\ a <= n /\ Len(b) <= a /\ d <= a - Len(b) /\ \A i \in 1 .. Len(b) : b[i] = a - Len(b) + i
      /\ \A m \in (d + 1) .. n : <<"cache", m>> \in container
      /\ SenderSent(o) = a - Len(b)
  BY <1>1, SenderFacts DEF SenderInv, BatchInv, SenderSent
<1>3. Len(b) \in Nat /\ Len(b) >= 1
  BY <1>2
<1>4. /\ a - Len(b) \in Nat /\ Head(b) = b[1] /\ b[1] = a - Len(b) + 1
      /\ a - Len(b) + 1 \in (d + 1) .. n
  <2>1. Head(b) = b[1] /\ 1 \in 1 .. Len(b)
    BY <1>2, <1>3
  <2>2. b[1] = a - Len(b) + 1
    BY <1>2, <2>1
  <2>3. a - Len(b) \in Nat /\ a - Len(b) + 1 \in (d + 1) .. n
    <3>1. PICK k \in Nat : k = Len(b)
      BY <1>3
    <3> QED BY <1>2, <1>3, <3>1
  <2> QED BY <2>1, <2>2, <2>3
<1>5. /\ Tail(b) \in Seq(Nat) /\ Len(Tail(b)) = Len(b) - 1
      /\ \A i \in 1 .. Len(b) - 1 : Tail(b)[i] = b[i + 1]
  BY <1>2, <1>3
<1>6. \A i \in 1 .. Len(b) - 1 : i + 1 \in 1 .. Len(b) /\ a - Len(b) + (i + 1) = (a - Len(b)) + 1 + i
  BY <1>2, <1>3
<1>7. \A i \in 1 .. Len(b) - 1 : Tail(b)[i] = (a - Len(b)) + 1 + i
  BY <1>2, <1>5, <1>6
<1> QED BY <1>1, <1>2, <1>4, <1>5, <1>7

LEMMA SenderCopies ==
  ASSUME UnboundedInv, NEW o \in Outputs, sender_copy(o)
  PROVE  UnboundedInv' /\ UNCHANGED faults
<1>1. sender[o].at = "send" /\ sender[o].batch # <<>> /\ sends[o] = "idle"
  BY DEF sender_copy
<1>2. <<"cache", Head(sender[o].batch)>> \in container
  BY <1>1, BatchHead
<1>3. /\ UNCHANGED <<rb, received, consumer, producer, sender, recv, per_ch_processed, recv_msg_ids,
                     no_more_input, faults>>
      /\ container \subseteq container' /\ sends' = [sends EXCEPT ![o] = "produce"]
  BY <1>2 DEF sender_copy, leafVars, send_insert
<1>4. /\ SenderInv(o) /\ Cached' = Cached
      /\ sends' \in [Outputs -> {"idle", "produce"}] /\ \A p \in Outputs \ {o} : sends'[p] = sends[p]
      /\ per_ch_processed[o] \in 0 .. Cached /\ per_ch_processed[o] # Invalid
  BY <1>1, <1>3, SenderFacts DEF Cached, SenderInv
<1>5. OutputIs(o, SenderState(o), SenderSent(o))'
  BY <1>3, <1>4 DEF SenderInv, SenderState, SenderSent, OutputIs, InSequence, Given
<1>6. BatchInv(o)'
  BY <1>1, <1>3, <1>4 DEF SenderInv, BatchInv
<1>7. SenderInv(o)'
  BY <1>1, <1>3, <1>4, <1>5, <1>6 DEF SenderInv
<1>8. /\ rb' \in [Channels -> RingBuffers] /\ per_ch_processed' \in [Outputs -> Nat \cup {Invalid}]
      /\ sender' \in [Outputs -> [at : SenderPlaces, batch : Seq(Nat), available : Nat]]
      /\ per_ch_processed[o] <= per_ch_processed'[o]
  BY <1>3, <1>4, SenderFacts
<1> QED BY <1>1, <1>3, <1>4, <1>7, <1>8, SenderMoves

LEMMA SenderSends ==
  ASSUME UnboundedInv, NEW o \in Outputs, sender_send(o)
  PROVE  UnboundedInv'
<1>1. /\ sender[o].at = "send" /\ sends[o] = "produce" /\ sends' = [sends EXCEPT ![o] = "idle"]
      /\ UNCHANGED <<container, received, consumer, producer, leafVars, recv, per_ch_processed,
                     recv_msg_ids, no_more_input>>
  BY DEF sender_send, leafVars
<1>0. PICK k, a, b : k = SenderSent(o) /\ a = sender[o].available /\ b = sender[o].batch
  OBVIOUS
<1>2. /\ SenderInv(o) /\ Cached' = Cached /\ ChannelTypes /\ b # <<>> /\ b \in Seq(Nat) /\ a \in Nat
      /\ sends' \in [Outputs -> {"idle", "produce"}] /\ sends'[o] = "idle"
      /\ \A p \in Outputs \ {o} : sends'[p] = sends[p]
      /\ per_ch_processed[o] \in 0 .. Cached /\ per_ch_processed[o] # Invalid
      /\ OutputIs(o, "running", k) /\ BatchInv(o) /\ k = a - Len(b)
  BY <1>0, <1>1, SenderFacts DEF Cached, SenderInv, SenderState, SenderSent
<1>3. /\ k \in Nat /\ Head(b) = k + 1 /\ Tail(b) \in Seq(Nat) /\ Len(Tail(b)) = Len(b) - 1
      /\ \A i \in 1 .. Len(b) - 1 : Tail(b)[i] = k + 1 + i
  BY <1>0, <1>1, <1>2, BatchHead
<1>8. /\ per_ch_processed' \in [Outputs -> Nat \cup {Invalid}] /\ per_ch_processed[o] <= per_ch_processed'[o]
  BY <1>1, <1>2, SenderFacts
<1>4. CASE send_produce(o, Head(b)) /\ sender' = [sender EXCEPT ![o].batch = Tail(sender[o].batch)]
  <2>1. /\ rb' \in [Channels -> RingBuffers] /\ \A c \in Channels \ {o} : rb'[c] = rb[c]
        /\ OutputIs(o, "running", k + 1)'
    BY <1>1, <1>2, <1>3, <1>4, SendTo
  <2>2. /\ sender' \in [Outputs -> [at : SenderPlaces, batch : Seq(Nat), available : Nat]]
        /\ sender'[o] = [at |-> "send", batch |-> Tail(b), available |-> a]
        /\ \A p \in Outputs \ {o} : sender'[p] = sender[p]
    <3>1. [sender[o] EXCEPT !.batch = Tail(sender[o].batch)] = [at |-> "send", batch |-> Tail(b), available |-> a]
      <4>1. sender[o] \in [at : SenderPlaces, batch : Seq(Nat), available : Nat]
        BY SenderFacts
      <4>2. PICK t : t = Tail(b)
        OBVIOUS
      <4>3. [sender[o] EXCEPT !.batch = t] = [at |-> "send", batch |-> t, available |-> a]
        BY <4>1, <1>0, <1>1
      <4> QED BY <4>2, <4>3, <1>0
    <3>2. sender' = [sender EXCEPT ![o] = [at |-> "send", batch |-> Tail(b), available |-> a]]
      BY <3>1, <1>4
    <3>3. [at |-> "send", batch |-> Tail(b), available |-> a] \in
              [at : SenderPlaces, batch : Seq(Nat), available : Nat]
      BY <1>2, <1>3 DEF SenderPlaces
    <3> QED BY <3>2, <3>3, SenderFacts
  <2>3. Len(b) \in Nat /\ a - Len(Tail(b)) = k + 1
    BY <1>2, <1>3
  <2>4. SenderState(o)' = "running" /\ SenderSent(o)' = k + 1
    BY <2>2, <2>3 DEF SenderState, SenderSent
  <2>5. OutputIs(o, SenderState(o), SenderSent(o))'
    BY <2>1, <2>4
  <2>6. BatchInv(o)'
    <3>1. a <= Cached /\ Len(b) <= a /\ per_ch_processed[o] <= k
      BY <1>0, <1>2 DEF BatchInv
    <3>2. Cached \in Nat /\ per_ch_processed[o] \in Int
      BY <1>2, SenderFacts DEF Cached
    <3>3. Len(Tail(b)) <= a /\ per_ch_processed[o] <= k + 1
      BY <3>1, <3>2, <2>3, <1>2, <1>3
    <3>4. sender'[o].available = a /\ sender'[o].batch = Tail(b)
      BY <2>2
    <3>5. \A i \in 1 .. Len(Tail(b)) : Tail(b)[i] = k + 1 + i
      BY <1>3
    <3>6. PICK c, t : c = k + 1 /\ t = Tail(b)
      OBVIOUS
    <3>7. /\ sender'[o].available = a /\ sender'[o].batch = t /\ a - Len(t) = c /\ Len(t) <= a
          /\ a <= Cached' /\ per_ch_processed'[o] <= c /\ \A i \in 1 .. Len(t) : t[i] = c + i
      BY <3>1, <3>3, <3>4, <3>5, <3>6, <2>3, <1>1, <1>2
    <3> QED BY <3>7 DEF BatchInv
  <2>7. SenderInv(o)'
    BY <2>2, <2>5, <2>6, <1>1, <1>2 DEF SenderInv
  <2> QED BY <2>1, <2>2, <2>7, <1>1, <1>2, <1>8, SenderMoves
<1>5. CASE /\ ProduceFails(o) /\ UNCHANGED rb
           /\ sender' = [sender EXCEPT ![o] = [at |-> "leave", batch |-> <<>>, available |-> 0]]
  <2>1. consumer[o] # "pulling"
    BY <1>2, <1>5, SendFails
  <2>2. /\ sender' \in [Outputs -> [at : SenderPlaces, batch : Seq(Nat), available : Nat]]
        /\ sender'[o] = [at |-> "leave", batch |-> <<>>, available |-> 0]
        /\ \A p \in Outputs \ {o} : sender'[p] = sender[p]
    <3>1. <<>> \in Seq(Nat)
      OBVIOUS
    <3>2. [at |-> "leave", batch |-> <<>>, available |-> 0] \in
              [at : SenderPlaces, batch : Seq(Nat), available : Nat]
      BY <3>1 DEF SenderPlaces
    <3> QED BY <3>2, <1>5, SenderFacts
  <2>3. OutputIs(o, SenderState(o), SenderSent(o))'
    BY <2>1, <1>1, <1>2, <1>5 DEF OutputIs, InSequence
  <2>4. SenderInv(o)'
    BY <2>1, <2>2, <2>3, <1>1, <1>2 DEF SenderInv
  <2>5. rb' \in [Channels -> RingBuffers] /\ \A c \in Channels \ {o} : rb'[c] = rb[c]
    BY <1>5, SenderFacts
  <2> QED BY <2>2, <2>4, <2>5, <1>1, <1>2, <1>8, SenderMoves
<1> QED BY <1>0, <1>4, <1>5 DEF sender_send

LEMMA SenderUpdates ==
  ASSUME UnboundedInv, NEW o \in Outputs, sender_update(o)
  PROVE  UnboundedInv'
<1>0. PICK a, place : /\ a = sender[o].available
                      /\ place = IF sender[o].available # Len(recv_msg_ids) THEN "check"
                                 ELSE IF no_more_input THEN "drain" ELSE "request"
  OBVIOUS
<1>1. /\ sender[o].at = "send" /\ sender[o].batch = <<>>
      /\ per_ch_processed' = [per_ch_processed EXCEPT ![o] = a]
      /\ sender' = SenderAt(o, place)
      /\ UNCHANGED <<rb, container, received, consumer, producer, sends, recv, recv_msg_ids, no_more_input>>
  BY <1>0 DEF sender_update, channelVars, leafVars
<1>2. /\ SenderInv(o) /\ Cached' = Cached /\ Cached \in Nat /\ a \in Nat /\ a \in 0 .. Cached /\ a # Invalid
      /\ per_ch_processed[o] \in Nat /\ per_ch_processed[o] <= a /\ per_ch_processed[o] # Invalid
      /\ \A m \in (per_ch_processed[o] + 1) .. Cached : <<"cache", m>> \in container
      /\ OutputIs(o, "running", a) /\ sends[o] = "idle"
  <2>1. Len(sender[o].batch) = 0 /\ a \in Nat /\ Cached \in Nat
    BY <1>0, <1>1, SenderFacts
  <2>2. SenderSent(o) = a /\ SenderState(o) = "running"
    BY <2>1, <1>0, <1>1 DEF SenderSent, SenderState
  <2>3. /\ SenderInv(o) /\ BatchInv(o) /\ Cached' = Cached /\ sends[o] = "idle"
        /\ per_ch_processed[o] \in 0 .. Cached /\ per_ch_processed[o] # Invalid
        /\ \A m \in (per_ch_processed[o] + 1) .. Cached : <<"cache", m>> \in container
        /\ OutputIs(o, "running", a)
    BY <2>2, <1>1, SenderFacts DEF Cached, SenderInv
  <2>4. a <= Cached /\ per_ch_processed[o] <= a
    BY <2>1, <2>3, <1>0 DEF BatchInv
  <2>5. a \in 0 .. Cached /\ per_ch_processed[o] \in Nat
    BY <2>1, <2>3, <2>4
  <2>6. a # Invalid
    BY <2>5, SenderFacts
  <2> QED BY <2>1, <2>3, <2>4, <2>5, <2>6
<1>3. /\ place \in {"check", "drain", "request"} /\ place \in SenderPlaces
      /\ place = "drain" => no_more_input /\ a = Cached
  BY <1>0 DEF SenderPlaces, Cached
<1>4. place = "drain" => a = producer.of
  BY <1>1, <1>3 DEF UnboundedInv, EndInv
<1>5. /\ sender' \in [Outputs -> [at : SenderPlaces, batch : Seq(Nat), available : Nat]]
      /\ sender'[o] = [at |-> place, batch |-> sender[o].batch, available |-> sender[o].available]
      /\ \A p \in Outputs \ {o} : sender'[p] = sender[p]
  BY <1>1, <1>3, SenderGoes
<1>6. /\ per_ch_processed' \in [Outputs -> Nat \cup {Invalid}] /\ per_ch_processed'[o] = a
      /\ \A p \in Outputs \ {o} : per_ch_processed'[p] = per_ch_processed[p]
  BY <1>1, <1>2, SenderFacts
<1>7. SenderState(o)' = "running" /\ SenderSent(o)' = a
  BY <1>1, <1>3, <1>4, <1>5, <1>6 DEF SenderState, SenderSent
<1>8. OutputIs(o, SenderState(o), SenderSent(o))'
  BY <1>1, <1>2, <1>7 DEF OutputIs, InSequence, Given
<1>9. \A m \in (a + 1) .. Cached : <<"cache", m>> \in container
  <2>1. \A m \in (a + 1) .. Cached : m \in (per_ch_processed[o] + 1) .. Cached
    BY <1>2
  <2> QED BY <2>1, <1>2
<1>10. SenderInv(o)'
  BY <1>1, <1>2, <1>3, <1>5, <1>6, <1>8, <1>9 DEF SenderInv
<1>11. rb' \in [Channels -> RingBuffers] /\ sends' \in [Outputs -> {"idle", "produce"}]
  BY <1>1, SenderFacts
<1> QED BY <1>1, <1>2, <1>5, <1>6, <1>10, <1>11, SenderMoves

LEMMA SenderRequests ==
  ASSUME UnboundedInv, NEW o \in Outputs, sender_request(o)
  PROVE  UnboundedInv'
<1>1. /\ sender[o].at = "request" /\ sender' = SenderAt(o, "check") /\ WakeReceiver
      /\ UNCHANGED <<rb, container, received, consumer, producer, sends, per_ch_processed, recv_msg_ids,
                     no_more_input>>
  BY DEF sender_request, channelVars, leafVars
<1>2. /\ sender' \in [Outputs -> [at : SenderPlaces, batch : Seq(Nat), available : Nat]]
      /\ sender'[o] = [at |-> "check", batch |-> sender[o].batch, available |-> sender[o].available]
      /\ \A p \in Outputs \ {o} : sender'[p] = sender[p]
  BY <1>1, SenderGoes DEF SenderPlaces
<1>3. /\ SenderInv(o) /\ Cached' = Cached /\ per_ch_processed[o] \in 0 .. Cached
      /\ per_ch_processed[o] # Invalid
  BY <1>1, SenderFacts DEF SenderInv, Cached
<1>4. OutputIs(o, SenderState(o), SenderSent(o))'
  <2>1. SenderState(o)' = "running" /\ SenderSent(o)' = per_ch_processed[o]
    BY <1>1, <1>2 DEF SenderState, SenderSent
  <2>2. OutputIs(o, "running", per_ch_processed[o])
    BY <1>1, <1>3 DEF SenderInv, SenderState, SenderSent
  <2> QED BY <2>1, <2>2, <1>1 DEF OutputIs, InSequence, Given
<1>5. SenderInv(o)'
  BY <1>1, <1>2, <1>3, <1>4 DEF SenderInv
<1>6. /\ rb' \in [Channels -> RingBuffers] /\ sends' \in [Outputs -> {"idle", "produce"}]
      /\ per_ch_processed' \in [Outputs -> Nat \cup {Invalid}]
      /\ per_ch_processed[o] <= per_ch_processed'[o]
  BY <1>1, <1>3, SenderFacts
<1> QED BY <1>1, <1>2, <1>3, <1>5, <1>6, SenderMoves

LEMMA SenderDrains ==
  ASSUME UnboundedInv, NEW o \in Outputs, sender_drain(o)
  PROVE  UnboundedInv'
<1>1. /\ sender[o].at \in {"drain", "drained"}
      /\ UNCHANGED <<container, received, consumer, producer, leafVars, sends, recv, per_ch_processed,
                     recv_msg_ids, no_more_input>>
  BY DEF sender_drain, leafVars
<1>2. /\ SenderInv(o) /\ Cached' = Cached /\ ChannelTypes /\ per_ch_processed[o] \in 0 .. Cached
      /\ per_ch_processed[o] # Invalid /\ sends[o] = "idle"
  BY <1>1, SenderFacts DEF SenderInv, Cached
<1>3. /\ sends' \in [Outputs -> {"idle", "produce"}]
      /\ per_ch_processed' \in [Outputs -> Nat \cup {Invalid}]
      /\ per_ch_processed[o] <= per_ch_processed'[o]
  BY <1>1, <1>2, SenderFacts
<1>4. CASE sender[o].at = "drain"
  <2>1. sender' = SenderAt(o, "drained") /\ rb' = Draining({o})
    BY <1>4 DEF sender_drain
  <2>2. /\ sender' \in [Outputs -> [at : SenderPlaces, batch : Seq(Nat), available : Nat]]
        /\ sender'[o] = [at |-> "drained", batch |-> sender[o].batch, available |-> sender[o].available]
        /\ \A p \in Outputs \ {o} : sender'[p] = sender[p]
    BY <2>1, SenderGoes DEF SenderPlaces
  <2>3. rb' \in [Channels -> RingBuffers] /\ \A c \in Channels \ {o} : rb'[c] = rb[c]
    BY <2>1, RbShutdown, SenderFacts
  <2>4. OutputIs(o, "running", producer.of)
    BY <1>2, <1>4 DEF SenderInv, SenderState, SenderSent
  <2>5. OutputIs(o, "draining", producer.of)'
    BY <2>1, <2>4, <1>1, <1>2, DrainKeeps
  <2>6. OutputIs(o, SenderState(o), SenderSent(o))'
    BY <2>2, <2>5 DEF SenderState, SenderSent
  <2>7. SenderInv(o)'
    BY <2>2, <2>6, <1>1, <1>2 DEF SenderInv
  <2> QED BY <2>2, <2>3, <2>7, <1>1, <1>2, <1>3, SenderMoves
<1>5. CASE sender[o].at = "drained"
  <2>1. sender' = SenderAt(o, "leave") /\ UNCHANGED rb /\ drained({o})
    BY <1>5 DEF sender_drain
  <2>2. /\ sender' \in [Outputs -> [at : SenderPlaces, batch : Seq(Nat), available : Nat]]
        /\ sender'[o] = [at |-> "leave", batch |-> sender[o].batch, available |-> sender[o].available]
        /\ \A p \in Outputs \ {o} : sender'[p] = sender[p]
    BY <2>1, SenderGoes DEF SenderPlaces
  <2>3. OutputIs(o, "draining", producer.of)
    BY <1>2, <1>5 DEF SenderInv, SenderState, SenderSent
  <2>4. consumer[o] = "pulling" => rb[o].held = <<>>
    BY <2>1, <2>3 DEF OutputIs, drained, CanStop
  <2>5. OutputIs(o, SenderState(o), SenderSent(o))'
    <3>1. SenderState(o)' = "draining" /\ SenderSent(o)' = producer.of
      BY <2>2, <1>1 DEF SenderState, SenderSent
    <3> QED BY <3>1, <2>1, <2>3, <1>1 DEF OutputIs, InSequence, Given
  <2>6. SenderInv(o)'
    BY <2>1, <2>2, <2>4, <2>5, <1>1, <1>2 DEF SenderInv
  <2>7. rb' \in [Channels -> RingBuffers]
    BY <2>1, SenderFacts
  <2> QED BY <2>1, <2>2, <2>6, <2>7, <1>1, <1>2, <1>3, SenderMoves
<1> QED BY <1>1, <1>4, <1>5

LEMMA SenderLeaves ==
  ASSUME UnboundedInv, NEW o \in Outputs, sender_leave(o)
  PROVE  UnboundedInv'
<1>1. /\ sender[o].at \in {"leave", "left"}
      /\ UNCHANGED <<container, received, consumer, producer, leafVars, sends, recv_msg_ids, no_more_input>>
  BY DEF sender_leave, leafVars
<1>2. /\ SenderInv(o) /\ Cached' = Cached /\ ChannelTypes /\ sends[o] = "idle"
      /\ OutputIs(o, "draining", producer.of)
      /\ consumer[o] = "pulling" => rb[o].held = <<>>
  BY <1>1, SenderFacts DEF SenderInv, SenderState, SenderSent, Cached
<1>3. sends' \in [Outputs -> {"idle", "produce"}]
  BY <1>1, SenderFacts
<1>4. CASE sender[o].at = "leave"
  <2>1. /\ sender' = SenderAt(o, "left") /\ UNCHANGED <<rb, recv>>
        /\ per_ch_processed' = [per_ch_processed EXCEPT ![o] = Invalid]
    BY <1>4 DEF sender_leave
  <2>2. /\ sender' \in [Outputs -> [at : SenderPlaces, batch : Seq(Nat), available : Nat]]
        /\ sender'[o] = [at |-> "left", batch |-> sender[o].batch, available |-> sender[o].available]
        /\ \A p \in Outputs \ {o} : sender'[p] = sender[p]
    BY <2>1, SenderGoes DEF SenderPlaces
  <2>3. /\ per_ch_processed' \in [Outputs -> Nat \cup {Invalid}] /\ per_ch_processed'[o] = Invalid
        /\ \A p \in Outputs \ {o} : per_ch_processed'[p] = per_ch_processed[p]
    BY <2>1, SenderFacts
  <2>4. OutputIs(o, SenderState(o), SenderSent(o))'
    <3>1. SenderState(o)' = "draining" /\ SenderSent(o)' = producer.of
      BY <2>2, <1>1 DEF SenderState, SenderSent
    <3> QED BY <3>1, <2>1, <1>1, <1>2 DEF OutputIs, InSequence, Given
  <2>5. SenderInv(o)'
    BY <2>1, <2>2, <2>3, <2>4, <1>1, <1>2 DEF SenderInv
  <2>6. rb' \in [Channels -> RingBuffers] /\ \A c \in Channels \ {o} : rb'[c] = rb[c]
    BY <2>1, SenderFacts
  <2>7. sender'[o].at = "left" /\ container' = container
    BY <2>2, <1>1
  <2> QED BY <2>1, <2>2, <2>3, <2>5, <2>6, <2>7, <1>1, <1>3, SenderMoves
<1>5. CASE sender[o].at = "left"
  <2>1. /\ sender' = SenderAt(o, "ended") /\ rb' = Stopped({o}) /\ WakeReceiver
        /\ UNCHANGED per_ch_processed
    BY <1>5 DEF sender_leave, LeaveNotify
  <2>2. /\ sender' \in [Outputs -> [at : SenderPlaces, batch : Seq(Nat), available : Nat]]
        /\ sender'[o] = [at |-> "ended", batch |-> sender[o].batch, available |-> sender[o].available]
        /\ \A p \in Outputs \ {o} : sender'[p] = sender[p]
    BY <2>1, SenderGoes DEF SenderPlaces
  <2>3. rb' \in [Channels -> RingBuffers] /\ \A c \in Channels \ {o} : rb'[c] = rb[c]
    BY <2>1, RbShutdown, SenderFacts
  <2>4. OutputIs(o, "stopped", producer.of)'
    BY <2>1, <1>1, <1>2, StopKeeps
  <2>5. OutputIs(o, SenderState(o), SenderSent(o))'
    BY <2>2, <2>4 DEF SenderState, SenderSent
  <2>6. SenderInv(o)' /\ per_ch_processed'[o] = Invalid
    BY <2>1, <2>2, <2>5, <1>1, <1>2, <1>5 DEF SenderInv
  <2>7. per_ch_processed' \in [Outputs -> Nat \cup {Invalid}]
    BY <2>1, SenderFacts
  <2>8. /\ sender'[o].at = "ended" /\ container' = container /\ sends' = sends
        /\ \A p \in Outputs \ {o} : per_ch_processed'[p] = per_ch_processed[p]
    BY <2>1, <2>2, <1>1
  <2> QED BY <2>1, <2>2, <2>3, <2>6, <2>7, <2>8, <1>1, <1>3, SenderMoves
<1> QED BY <1>1, <1>4, <1>5

LEMMA UnboundedStepKeeps == ASSUME UnboundedInv, unbounded_fanout PROVE UnboundedInv' /\ UNCHANGED faults
<1>1. CASE recv_task
  <2>1. UNCHANGED <<sends, faults>>
    BY <1>1 DEF recv_task, wait_for_data_request, recv_message, recv_store, recv_notify, recv_purge, recv_exit
  <2> QED BY <2>1, <1>1, RecvWaits, RecvReceives, RecvStores, RecvNotifies, RecvPurges, RecvExits DEF recv_task
<1>2. ASSUME NEW o \in Outputs, send_task(o) PROVE UnboundedInv' /\ UNCHANGED faults
  <2>1. CASE sender_copy(o)
    BY <2>1, SenderCopies
  <2>2. CASE sender_check(o) \/ sender_send(o) \/ sender_update(o) \/ sender_request(o) \/ sender_drain(o)
             \/ sender_leave(o)
    <3>1. UNCHANGED faults
      BY <2>2 DEF sender_check, sender_send, sender_update, sender_request, sender_drain, sender_leave
    <3> QED BY <3>1, <2>2, SenderChecks, SenderSends, SenderUpdates, SenderRequests, SenderDrains, SenderLeaves
  <2> QED BY <1>2, <2>1, <2>2 DEF send_task
<1> QED BY <1>1, <1>2 DEF unbounded_fanout

-----------------------------------------------------------------------------
(* The networks. *)

\* What a step does to the network of the instance.
LEMMA NetworkSteps ==
  ASSUME [Next]_networkVars
  PROVE  /\ network' = network
         /\ \/ UNCHANGED streamingVars
            \/ /\ \/ \E o \in Consumers : pull_from_channel(o) \/ close_channel(o)
                  \/ network \in {"bounded", "unbounded", "collective"} /\ push_to_channel
               /\ UNCHANGED <<fanoutVars, lineariserVars, throttleVars, collectiveVars>>
            \/ Actors
BY DEF Next, Progress, Leaves, Leave, Services, networkVars

LEMMA StreamingStays ==
  ASSUME UNCHANGED streamingVars
  PROVE  /\ UNCHANGED <<rb, container, received, consumer, producer>>
         /\ UNCHANGED <<bounded, chs_out, sends, recv, sender, per_ch_processed, recv_msg_ids,
                        no_more_input, faults>>
         /\ UNCHANGED <<lineariserVars, throttleVars, collectiveVars>>
BY DEF streamingVars, channelVars, leafVars, fanoutVars, boundedVars, unboundedVars

FanoutInv ==
    /\ faults = {}
    /\ network = "bounded" => BoundedInv
    /\ network = "unbounded" => UnboundedInv

LEMMA FanoutBegins == Init => FanoutInv
BY BoundedBegins, UnboundedBegins DEF Init, FanoutInv, FanoutInit

LEMMA FanoutStepKeeps == ASSUME FanoutInv, [Next]_networkVars PROVE FanoutInv'
<1>1. network' = network
  BY NetworkSteps
<1>2. CASE UNCHANGED streamingVars
  <2>1. /\ UNCHANGED <<rb, container, received, consumer, producer>>
        /\ UNCHANGED <<bounded, chs_out, sends, recv, sender, per_ch_processed, recv_msg_ids,
                       no_more_input, faults>>
    BY <1>2, StreamingStays
  <2>2. BoundedInv => BoundedInv'
    BY <2>1 DEF BoundedInv, BoundedTypes, ChannelTypes, SendsInv, LastOf, Order, InputIs, OutputIs, InSequence,
       Given, ServedState, SentTo
  <2>3. UnboundedInv => UnboundedInv'
    <3> SUFFICES ASSUME UnboundedInv PROVE UnboundedInv'
      OBVIOUS
    <3>1. Cached' = Cached /\ ChannelTypes'
      BY <2>1 DEF Cached, UnboundedInv, ChannelTypes
    <3>2. UnboundedTypes' /\ CacheInv' /\ EndInv' /\ MinInv'
      BY <2>1, <3>1 DEF UnboundedInv, UnboundedTypes, CacheInv, EndInv, MinInv, InputIs
    <3>3. \A o \in Outputs : SenderInv(o)'
      BY <2>1, SendersStay
    <3> QED BY <3>1, <3>2, <3>3 DEF UnboundedInv
  <2> QED BY <2>1, <2>2, <2>3, <1>1 DEF FanoutInv
<1>3. CASE /\ \/ \E o \in Consumers : pull_from_channel(o) \/ close_channel(o)
              \/ network \in {"bounded", "unbounded", "collective"} /\ push_to_channel
           /\ UNCHANGED <<fanoutVars, lineariserVars, throttleVars, collectiveVars>>
  <2>1. UNCHANGED <<bounded, chs_out, sends, recv, sender, per_ch_processed, recv_msg_ids,
                    no_more_input, faults>>
    BY <1>3 DEF fanoutVars, boundedVars, unboundedVars
  <2>2. ASSUME network \in {"bounded", "unbounded"}
        PROVE  push_to_channel \/ \E o \in Outputs : pull_from_channel(o) \/ close_channel(o)
    BY <2>2, <1>3 DEF Consumers
  <2>3. network = "bounded" => BoundedInv'
    BY <2>1, <2>2, BoundedLeaves DEF FanoutInv
  <2>4. network = "unbounded" => UnboundedInv'
    BY <2>1, <2>2, UnboundedLeaves DEF FanoutInv
  <2> QED BY <2>1, <2>3, <2>4, <1>1 DEF FanoutInv
<1>4. CASE Actors
  <2>1. CASE network = "bounded" /\ bounded_fanout
    <3>1. UNCHANGED faults
      BY <2>1 DEF bounded_fanout, unboundedVars
    <3> QED BY <3>1, <2>1, <1>1, BoundedStepKeeps DEF FanoutInv
  <2>2. CASE network = "unbounded" /\ unbounded_fanout
    BY <2>2, <1>1, UnboundedStepKeeps DEF FanoutInv
  <2>3. CASE network \notin {"bounded", "unbounded"} /\ UNCHANGED fanoutVars
    BY <2>3, <1>1 DEF FanoutInv, fanoutVars, unboundedVars
  <2> QED BY <2>1, <2>2, <2>3, <1>4 DEF Actors
<1> QED BY <1>2, <1>3, <1>4, NetworkSteps

\* With any outputs, messages and consumers that leave when they like: the unbounded fanout
\* copies no message that it has purged, and the consumers that stay with the bounded one
\* are never more than two messages apart.
THEOREM FanoutHolds == Spec => []FanoutIsSound
<1>1. FanoutInv /\ [Next]_networkVars => FanoutInv'
  BY FanoutStepKeeps
<1>2. FanoutInv => FanoutIsSound
  BY BoundedKeepsStep DEF FanoutInv, FanoutIsSound, CopiesLiveMessages, BackpressureHolds
<1> QED BY <1>1, <1>2, FanoutBegins, PTL DEF Spec

-----------------------------------------------------------------------------
(* The streaming collectives. *)

\* An output that nothing is sent to.
Idle(o) == received[o] = <<>> /\ consumer[o] = "pulling"

Before == {"schedule", "receive", "finished", "suspended", "extract"}
CollectiveTypes ==
    /\ ChannelTypes /\ kind \in {"allgather", "shuffler"} /\ inserted \in Seq(Nat)
    /\ actor \in [at : Before \cup {"next", "produce", "drain", "destroy", "ended"}, sent : Nat]
    /\ function \in {"registered", "extractable", "called", "done"}
    /\ event \in {"unset", "set", "destroyed"}
    /\ context \in {"running", "unhooked", "stopped", "cleared"}
    /\ actor.sent <= NMessages /\ producer.of = NMessages

\* The state of the output and how many messages the actor has sent to it.
ActorState ==
    IF actor.at \in Before \cup {"next", "produce"} THEN "running"
    ELSE IF actor.at = "drain" THEN "draining" ELSE "stopped"
ActorSent == IF actor.at \in Before \cup {"next", "produce"} THEN actor.sent ELSE NMessages

CollectiveInv ==
    /\ CollectiveTypes
    /\ actor.at \in {"schedule", "receive"} => InputIs(Len(inserted))
    /\ actor.at \notin {"schedule", "receive"} => Len(inserted) = NMessages
    /\ actor.at = "produce" => actor.sent < NMessages
    /\ actor.at = "suspended" => event = "unset"
    /\ actor.at = "ended" <=> event = "destroyed"
    /\ event = "destroyed" => function = "done"
    /\ context # "running" =>
          actor.at = "ended" /\ producer.at = "ended" /\ consumer[ch_out] # "pulling"
    /\ context = "cleared" => container = {}
    /\ OutputIs(ch_out, ActorState, ActorSent)
    /\ \A o \in Outputs \ {ch_out} : Idle(o)

LEMMA CollectiveBegins ==
  ASSUME ChannelInit, FanoutInit, CollectiveInit, producer.of = NMessages
  PROVE  CollectiveInv
<1>1. /\ ChannelTypes /\ InputIs(0) /\ \A o \in Outputs : OutputIs(o, "running", 0)
  BY BoundedBegins DEF BoundedInv, BoundedTypes, ServedState, SentTo, Serving, Taking, FanoutInit
<1>2. \A o \in Outputs : Idle(o)
  BY DEF ChannelInit, Idle
<1>3. /\ actor = [at |-> "schedule", sent |-> 0] /\ inserted = <<>> /\ Len(inserted) = 0
      /\ kind \in {"allgather", "shuffler"} /\ function = "registered" /\ event = "unset"
      /\ context = "running"
  BY DEF CollectiveInit
<1>4. CollectiveTypes
  <2>1. <<>> \in Seq(Nat)
    OBVIOUS
  <2> QED BY <2>1, <1>1, <1>3, NMessagesAssumption DEF CollectiveTypes, Before
<1>5. ActorState = "running" /\ ActorSent = 0
  BY <1>3 DEF ActorState, ActorSent, Before
<1> QED BY <1>1, <1>2, <1>3, <1>4, <1>5, ChOutAssumption DEF CollectiveInv

\* The other outputs are left alone.
LEMMA IdleStays ==
  ASSUME NEW o, Idle(o), received'[o] = received[o], consumer'[o] = consumer[o]
  PROVE  Idle(o)'
BY DEF Idle

LEMMA CollectiveLeaves ==
  ASSUME CollectiveInv, push_to_channel \/ pull_from_channel(ch_out) \/ close_channel(ch_out),
         UNCHANGED collectiveVars
  PROVE  CollectiveInv'
<1>1. /\ UNCHANGED <<kind, actor, inserted, finished, function, event, context>>
      /\ ChannelTypes /\ InSequence(ch_out) /\ ch_out \in Outputs
      /\ \A o \in Outputs \ {ch_out} : Idle(o)
  BY ChOutAssumption DEF collectiveVars, CollectiveInv, CollectiveTypes, OutputIs
<1>2. ActorState' = ActorState /\ ActorSent' = ActorSent /\ ActorState \in States /\ ActorSent \in Nat
  BY <1>1, NMessagesAssumption DEF ActorState, ActorSent, States, CollectiveInv, CollectiveTypes
<1>3. ASSUME ChannelTypes', producer'.of = producer.of,
             producer.at = "ended" => producer'.at = "ended",
             \A n : InputIs(n) => InputIs(n)',
             \A o \in Outputs \ {ch_out} : received'[o] = received[o] /\ consumer'[o] = consumer[o],
             consumer'[ch_out] = "pulling" => consumer[ch_out] = "pulling",
             context # "running" => UNCHANGED container,
             \A state \in States, n \in Nat : OutputIs(ch_out, state, n) => OutputIs(ch_out, state, n)'
      PROVE  CollectiveInv'
  <2>1. CollectiveTypes'
    BY <1>1, <1>3 DEF CollectiveInv, CollectiveTypes
  <2>2. OutputIs(ch_out, ActorState, ActorSent)'
    BY <1>1, <1>2, <1>3 DEF CollectiveInv
  <2>3. \A o \in Outputs \ {ch_out} : Idle(o)'
    BY <1>1, <1>3, IdleStays
  <2> QED BY <2>1, <2>2, <2>3, <1>1, <1>3 DEF CollectiveInv
<1>4. CASE push_to_channel
  <2>1. /\ ChannelTypes' /\ producer'.of = producer.of /\ received' = received /\ consumer' = consumer
        /\ \A o \in Outputs : rb'[o] = rb[o]
        /\ \A n : InputIs(n) => InputIs(n)'
    BY <1>1, <1>4, PushKeeps
  <2>2. \A state \in States, n \in Nat : OutputIs(ch_out, state, n) => OutputIs(ch_out, state, n)'
    BY <2>1, <1>1, OutputStays
  <2>3. producer.at # "ended"
    BY <1>4 DEF push_to_channel
  <2>4. context = "running"
    BY <2>3 DEF CollectiveInv
  <2> QED BY <2>1, <2>2, <2>3, <2>4, <1>3
<1>5. CASE pull_from_channel(ch_out) \/ close_channel(ch_out)
  <2>1. /\ consumer[ch_out] = "pulling" /\ producer' = producer
        /\ \A o \in Outputs \ {ch_out} : received'[o] = received[o] /\ consumer'[o] = consumer[o]
    BY <1>1, <1>5 DEF pull_from_channel, close_channel, ChannelTypes
  <2>2. context = "running"
    BY <2>1 DEF CollectiveInv
  <2>3. ChannelTypes' /\ rb'["in"] = rb["in"]
    BY <1>1, <1>5, LeafKeeps, Zenon
  <2>4. \A state \in States, n \in Nat : OutputIs(ch_out, state, n) => OutputIs(ch_out, state, n)'
    BY <1>1, <1>5, LeafKeeps, Zenon
  <2>5. \A n : InputIs(n) => InputIs(n)'
    BY <2>1, <2>3 DEF InputIs
  <2> QED BY <2>1, <2>2, <2>3, <2>4, <2>5, <1>3
<1> QED BY <1>4, <1>5

\* What is known of the actor before its step.
LEMMA ActorFacts ==
  ASSUME CollectiveInv
  PROVE  /\ CollectiveTypes /\ ChannelTypes /\ ch_out \in Outputs /\ ch_out \in Channels
         /\ rb \in [Channels -> RingBuffers] /\ NMessages \in Nat /\ producer.of = NMessages
         /\ actor \in [at : Before \cup {"next", "produce", "drain", "destroy", "ended"}, sent : Nat]
         /\ actor.sent <= NMessages /\ inserted \in Seq(Nat)
         /\ OutputIs(ch_out, ActorState, ActorSent)
         /\ \A o \in Outputs \ {ch_out} : Idle(o)
BY ChOutAssumption, NothingIsIn, NMessagesAssumption DEF CollectiveInv, CollectiveTypes, ChannelTypes

LEMMA ActorGoes ==
  ASSUME CollectiveInv, NEW place, ActorAt(place)
  PROVE  actor' = [at |-> place, sent |-> actor.sent]
BY ActorFacts DEF ActorAt

\* A step of the actor that leaves the consumers and the producer alone.
LEMMA ActorMoves ==
  ASSUME CollectiveInv, UNCHANGED <<received, consumer, producer, kind, context>>,
         context = "running" \/ UNCHANGED container,
         rb' \in [Channels -> RingBuffers], inserted' \in Seq(Nat),
         actor' \in [at : Before \cup {"next", "produce", "drain", "destroy", "ended"}, sent : Nat],
         function' \in {"registered", "extractable", "called", "done"},
         event' \in {"unset", "set", "destroyed"}, actor'.sent <= NMessages,
         actor.at = "ended" => actor'.at = "ended",
         actor'.at \in {"schedule", "receive"} => InputIs(Len(inserted))',
         actor'.at \notin {"schedule", "receive"} => Len(inserted') = NMessages,
         actor'.at = "produce" => actor'.sent < NMessages,
         actor'.at = "suspended" => event' = "unset",
         actor'.at = "ended" <=> event' = "destroyed",
         event' = "destroyed" => function' = "done",
         OutputIs(ch_out, ActorState, ActorSent)'
  PROVE  CollectiveInv'
<1>1. CollectiveTypes'
  BY DEF CollectiveInv, CollectiveTypes, ChannelTypes
<1>2. \A o \in Outputs \ {ch_out} : Idle(o)'
  BY ActorFacts, IdleStays
<1>3. context' = "cleared" => container' = {}
  BY DEF CollectiveInv
<1> QED BY <1>1, <1>2, <1>3 DEF CollectiveInv

LEMMA ActorWaits ==
  ASSUME CollectiveInv, schedule \/ await_event \/ actor_extract, UNCHANGED <<kind, function, context>>
  PROVE  CollectiveInv'
<1>1. /\ UNCHANGED <<rb, container, received, consumer, producer, inserted, finished, event>>
      /\ actor.at \in Before
  BY DEF schedule, await_event, actor_extract, channelVars, leafVars, Before
<1>2. PICK place \in {"receive", "extract", "suspended", "next"} :
          /\ ActorAt(place)
          /\ place = "receive" <=> actor.at = "schedule"
          /\ place # "receive" => actor.at \notin {"schedule", "receive"}
          /\ place = "suspended" => event # "set"
  <2>1. CASE schedule
    BY <2>1 DEF schedule
  <2>2. CASE await_event /\ event = "set"
    BY <2>2 DEF await_event
  <2>3. CASE await_event /\ event # "set"
    BY <2>3 DEF await_event
  <2>4. CASE actor_extract
    BY <2>4 DEF actor_extract
  <2> QED BY <2>1, <2>2, <2>3, <2>4
<1>3. actor' = [at |-> place, sent |-> actor.sent]
  BY <1>2, ActorGoes
<1>4. event # "destroyed" /\ event \in {"unset", "set", "destroyed"}
  BY <1>1 DEF CollectiveInv, CollectiveTypes, Before
<1>5. ActorState' = "running" /\ ActorSent' = actor.sent /\ ActorState = "running" /\ ActorSent = actor.sent
  BY <1>1, <1>3 DEF ActorState, ActorSent, Before
<1>6. OutputIs(ch_out, ActorState, ActorSent)'
  BY <1>1, <1>5, ActorFacts DEF OutputIs, InSequence, Given
<1>7. actor' \in [at : Before \cup {"next", "produce", "drain", "destroy", "ended"}, sent : Nat]
  BY <1>3, ActorFacts DEF Before
<1>8. /\ actor'.at \in {"schedule", "receive"} => InputIs(Len(inserted))'
      /\ actor'.at \notin {"schedule", "receive"} => Len(inserted') = NMessages
  BY <1>1, <1>2, <1>3 DEF CollectiveInv, InputIs
<1>9. /\ function' \in {"registered", "extractable", "called", "done"} /\ rb' \in [Channels -> RingBuffers]
      /\ inserted' \in Seq(Nat) /\ actor'.sent <= NMessages /\ event' \in {"unset", "set", "destroyed"}
  BY <1>1, <1>3, ActorFacts DEF CollectiveTypes
<1>10. /\ actor'.at = "suspended" => event' = "unset"
       /\ actor'.at # "ended" /\ event' # "destroyed" /\ actor.at # "ended" /\ actor'.at # "produce"
  BY <1>1, <1>2, <1>3, <1>4 DEF Before
<1> QED BY <1>1, <1>6, <1>7, <1>8, <1>9, <1>10, ActorMoves

LEMMA ActorReceives ==
  ASSUME CollectiveInv, receive_and_insert, UNCHANGED <<kind, function, context>>
  PROVE  CollectiveInv'
<1>0. PICK n : n = Len(inserted)
  OBVIOUS
<1>1. /\ actor.at = "receive" /\ UNCHANGED <<received, consumer, producer, event>>
      /\ InputIs(n) /\ n \in Nat /\ inserted \in Seq(Nat)
  BY <1>0, ActorFacts DEF receive_and_insert, leafVars, CollectiveInv
<1>2. /\ event # "destroyed" /\ event \in {"unset", "set", "destroyed"} /\ context = "running"
      /\ function \in {"registered", "extractable", "called", "done"}
      /\ OutputIs(ch_out, "running", actor.sent)
  BY <1>1 DEF CollectiveInv, CollectiveTypes, ActorState, ActorSent, Before
<1>3. CASE receive("in") /\ inserted' = Append(inserted, Head(rb["in"].held)) /\ UNCHANGED actor
  <2>1. /\ rb' \in [Channels -> RingBuffers] /\ \A o \in Outputs : rb'[o] = rb[o]
        /\ Head(rb["in"].held) = n + 1 /\ InputIs(n + 1)'
    BY <1>1, <1>3, TakeIn, ActorFacts
  <2>2. inserted' \in Seq(Nat) /\ Len(inserted') = n + 1
    BY <2>1, <1>0, <1>1, <1>3
  <2>3. OutputIs(ch_out, "running", actor.sent)'
    BY <2>1, <1>1, <1>2, <1>3, ActorFacts DEF OutputIs, InSequence, Given
  <2>4. OutputIs(ch_out, ActorState, ActorSent)'
    BY <2>3, <1>1, <1>3 DEF ActorState, ActorSent, Before
  <2>5. /\ actor' \in [at : Before \cup {"next", "produce", "drain", "destroy", "ended"}, sent : Nat]
        /\ actor'.at = "receive" /\ actor'.sent <= NMessages
    BY <1>1, <1>3, ActorFacts
  <2> QED BY <2>1, <2>2, <2>4, <2>5, <1>1, <1>2, ActorMoves
<1>4. CASE ConsumeFails("in") /\ ActorAt("finished") /\ UNCHANGED <<rb, container, inserted>>
  <2>1. n = NMessages
    BY <1>1, <1>4, NoMoreIn, ActorFacts
  <2>2. actor' = [at |-> "finished", sent |-> actor.sent]
    BY <1>4, ActorGoes
  <2>3. OutputIs(ch_out, "running", actor.sent)'
    BY <2>2, <1>1, <1>2, <1>4 DEF OutputIs, InSequence, Given
  <2>4. OutputIs(ch_out, ActorState, ActorSent)'
    BY <2>2, <2>3, <1>1, <1>2, <1>4 DEF ActorState, ActorSent, Before, OutputIs, InSequence, Given
  <2>5. /\ actor' \in [at : Before \cup {"next", "produce", "drain", "destroy", "ended"}, sent : Nat]
        /\ actor'.at = "finished" /\ actor'.sent <= NMessages /\ rb' \in [Channels -> RingBuffers]
        /\ inserted' \in Seq(Nat) /\ Len(inserted') = NMessages
    BY <2>1, <2>2, <1>0, <1>1, <1>4, ActorFacts DEF Before
  <2> QED BY <2>4, <2>5, <1>1, <1>2, ActorMoves
<1> QED BY <1>3, <1>4 DEF receive_and_insert

LEMMA ActorSends ==
  ASSUME CollectiveInv, actor_send, UNCHANGED <<kind, function, context>>
  PROVE  CollectiveInv'
<1>0. PICK k : k = actor.sent
  OBVIOUS
<1>1. /\ actor.at \in {"next", "produce"}
      /\ UNCHANGED <<received, consumer, producer, leafVars, inserted, event>> /\ Len(inserted) = NMessages
      /\ k \in Nat /\ k <= NMessages /\ NMessages \in Nat
  BY <1>0, ActorFacts DEF actor_send, leafVars, CollectiveInv
<1>2. /\ event # "destroyed" /\ event \in {"unset", "set", "destroyed"} /\ context = "running"
      /\ function \in {"registered", "extractable", "called", "done"}
      /\ OutputIs(ch_out, "running", k)
  BY <1>0, <1>1 DEF CollectiveInv, CollectiveTypes, ActorState, ActorSent, Before
<1>3. CASE actor.at = "next" /\ k + 1 \in Batch /\ ActorAt("produce") /\ UNCHANGED rb
  <2>1. actor' = [at |-> "produce", sent |-> k]
    BY <1>0, <1>3, ActorGoes
  <2>2. k < NMessages
    BY <1>1, <1>3 DEF Batch
  <2>3. OutputIs(ch_out, ActorState, ActorSent)'
    <3>1. ActorState' = "running" /\ ActorSent' = k
      BY <2>1 DEF ActorState, ActorSent
    <3> QED BY <3>1, <1>1, <1>2, <1>3 DEF OutputIs, InSequence, Given
  <2>4. /\ actor' \in [at : Before \cup {"next", "produce", "drain", "destroy", "ended"}, sent : Nat]
        /\ actor'.at = "produce" /\ actor'.sent < NMessages /\ actor'.sent <= NMessages
        /\ rb' \in [Channels -> RingBuffers] /\ inserted' \in Seq(Nat)
    BY <2>1, <2>2, <1>1, <1>3, ActorFacts
  <2> QED BY <2>3, <2>4, <1>1, <1>2, ActorMoves
<1>4. CASE /\ actor.at = "produce" /\ actor' = [at |-> "next", sent |-> k + 1]
           /\ send_produce(ch_out, k + 1) \/ (ProduceFails(ch_out) /\ UNCHANGED rb)
  <2>1. k + 1 <= NMessages
    BY <1>0, <1>1, <1>4 DEF CollectiveInv
  <2>2. ActorState' = "running" /\ ActorSent' = k + 1
    BY <1>4 DEF ActorState, ActorSent
  <2>3. rb' \in [Channels -> RingBuffers] /\ OutputIs(ch_out, "running", k + 1)'
    <3>1. CASE send_produce(ch_out, k + 1)
      BY <3>1, <1>1, <1>2, SendTo, ActorFacts
    <3>2. CASE ProduceFails(ch_out) /\ UNCHANGED rb
      <4>1. consumer[ch_out] # "pulling"
        BY <3>2, <1>2, SendFails
      <4> QED BY <4>1, <3>2, <1>1, <1>2, ActorFacts DEF OutputIs, InSequence
    <3> QED BY <3>1, <3>2, <1>4
  <2>4. OutputIs(ch_out, ActorState, ActorSent)'
    BY <2>2, <2>3
  <2>5. /\ actor' \in [at : Before \cup {"next", "produce", "drain", "destroy", "ended"}, sent : Nat]
        /\ actor'.at = "next" /\ actor'.sent <= NMessages /\ inserted' \in Seq(Nat)
    BY <2>1, <1>1, <1>4, ActorFacts
  <2> QED BY <2>3, <2>4, <2>5, <1>1, <1>2, ActorMoves
<1> QED BY <1>0, <1>3, <1>4 DEF actor_send

LEMMA ActorDrains ==
  ASSUME CollectiveInv, actor_drain, UNCHANGED <<kind, function, context>>
  PROVE  CollectiveInv'
<1>1. /\ actor.at \in {"next", "drain"}
      /\ UNCHANGED <<container, received, consumer, producer, leafVars, inserted, event>>
      /\ Len(inserted) = NMessages /\ actor.sent \in Nat /\ actor.sent <= NMessages /\ NMessages \in Nat
  BY ActorFacts DEF actor_drain, leafVars, CollectiveInv
<1>2. /\ event # "destroyed" /\ event \in {"unset", "set", "destroyed"} /\ context = "running"
      /\ function \in {"registered", "extractable", "called", "done"}
  BY <1>1 DEF CollectiveInv, CollectiveTypes
<1>3. ASSUME NEW place \in {"drain", "destroy"}, actor' = [at |-> place, sent |-> actor.sent],
             rb' \in [Channels -> RingBuffers], OutputIs(ch_out, ActorState, ActorSent)'
      PROVE  CollectiveInv'
  <2>1. /\ actor' \in [at : Before \cup {"next", "produce", "drain", "destroy", "ended"}, sent : Nat]
        /\ actor'.at \in {"drain", "destroy"} /\ actor'.sent <= NMessages /\ inserted' \in Seq(Nat)
    BY <1>1, <1>3, ActorFacts
  <2> QED BY <2>1, <1>1, <1>2, <1>3, ActorMoves
<1>4. CASE /\ actor.at = "next" /\ actor.sent + 1 \notin Batch /\ rb' = Draining({ch_out})
           /\ ActorAt(IF Drains(ch_out) THEN "drain" ELSE "destroy")
  <2>1. actor.sent = NMessages
    BY <1>1, <1>4 DEF Batch
  <2>2. OutputIs(ch_out, "running", NMessages) /\ rb' \in [Channels -> RingBuffers]
    BY <2>1, <1>4, ActorFacts, RbShutdown DEF ActorState, ActorSent, Before
  <2>3. OutputIs(ch_out, "draining", NMessages)'
    BY <2>2, <1>1, <1>4, DrainKeeps, ActorFacts
  <2>4. CASE Drains(ch_out)
    <3>1. actor' = [at |-> "drain", sent |-> actor.sent]
      BY <2>4, <1>4, ActorGoes
    <3>2. OutputIs(ch_out, ActorState, ActorSent)'
      BY <3>1, <2>3 DEF ActorState, ActorSent, Before
    <3> QED BY <3>1, <3>2, <2>2, <1>3
  <2>5. CASE ~ Drains(ch_out)
    <3>1. actor' = [at |-> "destroy", sent |-> actor.sent]
      BY <2>5, <1>4, ActorGoes
    <3>2. consumer'[ch_out] # "pulling"
      BY <2>2, <2>5, <1>1 DEF OutputIs, Drains
    <3>3. OutputIs(ch_out, ActorState, ActorSent)'
      BY <3>2, <2>3 DEF OutputIs
    <3> QED BY <3>1, <3>3, <2>2, <1>3
  <2> QED BY <2>4, <2>5
<1>5. CASE actor.at = "drain" /\ drained({ch_out}) /\ rb' = Stopped({ch_out}) /\ ActorAt("destroy")
  <2>1. OutputIs(ch_out, "draining", NMessages) /\ rb' \in [Channels -> RingBuffers]
    BY <1>5, ActorFacts, RbShutdown DEF ActorState, ActorSent, Before
  <2>2. consumer[ch_out] = "pulling" => rb[ch_out].held = <<>>
    BY <2>1, <1>5 DEF drained, CanStop, OutputIs
  <2>3. OutputIs(ch_out, "stopped", NMessages)'
    BY <2>1, <2>2, <1>1, <1>5, StopKeeps, ActorFacts
  <2>4. actor' = [at |-> "destroy", sent |-> actor.sent]
    BY <1>5, ActorGoes
  <2>5. OutputIs(ch_out, ActorState, ActorSent)'
    BY <2>3, <2>4 DEF ActorState, ActorSent, Before
  <2> QED BY <2>1, <2>4, <2>5, <1>3
<1> QED BY <1>4, <1>5 DEF actor_drain

LEMMA ActorEnds ==
  ASSUME CollectiveInv, destroy_collective, UNCHANGED <<kind, function, context>>
  PROVE  CollectiveInv'
<1>1. /\ actor.at = "destroy" /\ function = "done" /\ event' = "destroyed"
      /\ rb' = Stopped({"in", ch_out}) /\ ActorAt("ended")
      /\ UNCHANGED <<container, received, consumer, producer, leafVars, inserted>>
      /\ Len(inserted) = NMessages /\ actor.sent \in Nat /\ actor.sent <= NMessages
  BY ActorFacts DEF destroy_collective, leafVars, CollectiveInv
<1>2. actor' = [at |-> "ended", sent |-> actor.sent]
  BY <1>1, ActorGoes
<1>3. /\ rb' \in [Channels -> RingBuffers] /\ rb'[ch_out].held = rb[ch_out].held
      /\ rb'[ch_out].state = "stopped"
  BY <1>1, ActorFacts, RbShutdown
<1>4. OutputIs(ch_out, "stopped", NMessages)
  BY <1>1, ActorFacts DEF ActorState, ActorSent, Before
<1>5. OutputIs(ch_out, "stopped", NMessages)'
  BY <1>1, <1>3, <1>4 DEF OutputIs, InSequence, Given
<1>6. OutputIs(ch_out, ActorState, ActorSent)'
  BY <1>2, <1>5 DEF ActorState, ActorSent, Before
<1>7. /\ actor' \in [at : Before \cup {"next", "produce", "drain", "destroy", "ended"}, sent : Nat]
      /\ actor'.at = "ended" /\ actor'.sent <= NMessages /\ inserted' \in Seq(Nat)
  BY <1>1, <1>2, ActorFacts
<1> QED BY <1>1, <1>3, <1>6, <1>7, ActorMoves

LEMMA ProgressFunctionSteps == ASSUME CollectiveInv, progress_function PROVE CollectiveInv'
<1>1. /\ UNCHANGED <<rb, container, received, consumer, producer, kind, inserted, context>>
      /\ function' \in {"registered", "extractable", "called", "done"} /\ function # "done"
  BY DEF progress_function, finished_callback, channelVars, leafVars, CollectiveInv, CollectiveTypes
<1>2. /\ event # "destroyed" /\ actor.at # "ended" /\ event \in {"unset", "set", "destroyed"}
  BY <1>1 DEF CollectiveInv, CollectiveTypes
<1>3. PICK place : /\ actor' = [at |-> place, sent |-> actor.sent]
                   /\ (place = actor.at /\ event' = event)
                      \/ (place = actor.at /\ place # "suspended" /\ event' = "set")
                      \/ (actor.at = "suspended" /\ place = "extract" /\ event' = "set")
  <2>1. actor = [at |-> actor.at, sent |-> actor.sent]
    BY ActorFacts
  <2>2. CASE UNCHANGED <<actor, event>>
    BY <2>1, <2>2
  <2>3. CASE finished_callback /\ actor.at = "suspended"
    BY <2>3, ActorGoes DEF finished_callback
  <2>4. CASE finished_callback /\ actor.at # "suspended"
    BY <2>1, <2>4 DEF finished_callback
  <2> QED BY <2>2, <2>3, <2>4 DEF progress_function
<1>4. /\ actor' \in [at : Before \cup {"next", "produce", "drain", "destroy", "ended"}, sent : Nat]
      /\ actor'.at # "ended" /\ actor'.sent <= NMessages /\ event' \in {"unset", "set"}
  BY <1>2, <1>3, ActorFacts DEF Before
<1>5. ActorState' = ActorState /\ ActorSent' = ActorSent
  BY <1>3 DEF ActorState, ActorSent, Before
<1>6. OutputIs(ch_out, ActorState, ActorSent)'
  BY <1>1, <1>5, ActorFacts DEF OutputIs, InSequence, Given
<1>7. /\ actor'.at \in {"schedule", "receive"} => InputIs(Len(inserted))'
      /\ actor'.at \notin {"schedule", "receive"} => Len(inserted') = NMessages
  BY <1>1, <1>3 DEF CollectiveInv, InputIs
<1>8. /\ actor'.at = "produce" => actor'.sent < NMessages
      /\ actor'.at = "suspended" => event' = "unset"
  BY <1>3 DEF CollectiveInv
<1>9. rb' \in [Channels -> RingBuffers] /\ inserted' \in Seq(Nat)
  BY <1>1, ActorFacts
<1> QED BY <1>1, <1>2, <1>4, <1>6, <1>7, <1>8, <1>9, ActorMoves

LEMMA CollectiveStepKeeps == ASSUME CollectiveInv, CollectiveNext PROVE CollectiveInv'
<1>1. CASE collective_actor
  BY <1>1, ActorWaits, ActorReceives, ActorSends, ActorDrains, ActorEnds DEF collective_actor
<1>2. CASE progress_function
  BY <1>2, ProgressFunctionSteps
<1>3. CASE peers_finish
  <2>1. UNCHANGED <<rb, container, received, consumer, producer, kind, actor, inserted, function, event, context>>
    BY <1>3 DEF peers_finish, channelVars, leafVars
  <2>2. CollectiveTypes'
    BY <2>1 DEF CollectiveInv, CollectiveTypes, ChannelTypes
  <2>3. OutputIs(ch_out, ActorState, ActorSent)'
    BY <2>1 DEF CollectiveInv, OutputIs, InSequence, Given, ActorState, ActorSent
  <2>4. \A o \in Outputs \ {ch_out} : Idle(o)'
    BY <2>1 DEF CollectiveInv, Idle
  <2>5. actor'.at \in {"schedule", "receive"} => InputIs(Len(inserted))'
    BY <2>1 DEF CollectiveInv, InputIs
  <2> QED BY <2>1, <2>2, <2>3, <2>4, <2>5 DEF CollectiveInv
<1>4. CASE shutdown_context
  <2>1. /\ producer.at = "ended" /\ actor.at = "ended" /\ consumer[ch_out] # "pulling"
        /\ UNCHANGED <<rb, received, consumer, producer, kind, actor, inserted, function, event>>
        /\ context' \in {"unhooked", "stopped", "cleared"}
        /\ context' = "cleared" => container' = {}
    BY <1>4 DEF shutdown_context, run_actor_network, executor_shutdown, leafVars
  <2>2. CollectiveTypes'
    BY <2>1 DEF CollectiveInv, CollectiveTypes, ChannelTypes
  <2>3. OutputIs(ch_out, ActorState, ActorSent)'
    BY <2>1 DEF CollectiveInv, OutputIs, InSequence, Given, ActorState, ActorSent
  <2>4. \A o \in Outputs \ {ch_out} : Idle(o)'
    BY <2>1 DEF CollectiveInv, Idle
  <2> QED BY <2>1, <2>2, <2>3, <2>4 DEF CollectiveInv
<1> QED BY <1>1, <1>2, <1>3, <1>4 DEF CollectiveNext

LEMMA CollectiveIsFaithful == ASSUME CollectiveInv PROVE InOrderAndComplete /\ CollectiveIsSafe
<1>1. ASSUME NEW o \in Outputs
      PROVE  /\ received[o] = [i \in 1 .. Len(received[o]) |-> i]
             /\ consumer[o] = "ended" => Len(received[o]) = producer.of
  <2>1. CASE o = ch_out
    BY <2>1, ActorFacts DEF OutputIs, InSequence, ChannelTypes
  <2>2. CASE o # ch_out
    BY <2>2, ActorFacts DEF Idle
  <2> QED BY <2>1, <2>2
<1>2. CollectiveIsSafe
  BY DEF CollectiveInv, CollectiveTypes, CollectiveIsSafe
<1> QED BY <1>1, <1>2 DEF InOrderAndComplete

-----------------------------------------------------------------------------
(* The throttling adaptor. *)

TaskPlaces == {"acquire", "insert", "produce", "receipt", "ended"}

\* The tasks whose send has returned, what the consumer has got, and what the channel holds.
Past == {t \in Throttled : throttled[t] \in {"receipt", "ended"}}
Arrived == Range(received[throttled_ch])
InHand == Range(rb[throttled_ch].held)

\* Tasks give up only after the consumer has left: until then all that were sent are at the
\* consumer or in the channel, which is shut down when no task is left.
ThrottleInv ==
    /\ ChannelTypes /\ throttled \in [Throttled -> TaskPlaces]
    /\ semaphore \in [tickets : Nat, open : BOOLEAN]
    /\ IsInjective(received[throttled_ch]) /\ Arrived \subseteq Past
    /\ rb[throttled_ch].held = <<>> \/ \E t \in Past \ Arrived : rb[throttled_ch].held = <<t>>
    /\ consumer[throttled_ch] = "pulling" =>
          /\ Past \subseteq Arrived \cup InHand /\ semaphore.open
          /\ rb[throttled_ch].state # "running" => \A t \in Throttled : throttled[t] = "ended"
          /\ rb[throttled_ch].state = "stopped" => rb[throttled_ch].held = <<>>
    /\ consumer[throttled_ch] # "pulling" => rb[throttled_ch].state = "stopped"
    /\ consumer[throttled_ch] = "ended" => Arrived = Throttled

LEMMA ThrottleFacts ==
  ASSUME ThrottleInv
  PROVE  /\ rb \in [Channels -> RingBuffers] /\ throttled_ch \in Channels /\ throttled_ch \in Outputs
         /\ rb[throttled_ch] \in RingBuffers /\ received[throttled_ch] \in Seq(Messages)
         /\ throttled \in [Throttled -> TaskPlaces] /\ semaphore \in [tickets : Nat, open : BOOLEAN]
         /\ \A t \in Throttled : t \in Messages /\ throttled[t] \in TaskPlaces
BY ThrottleAssumption, NothingIsIn DEF ThrottleInv, ChannelTypes, Messages

LEMMA ThrottleBegins == ASSUME ChannelInit, ThrottleInit PROVE ThrottleInv
<1>1. /\ throttled_ch \in Outputs /\ throttled_ch \in Channels /\ max_tickets \in Nat
      /\ "in" \in Channels
  BY ThrottleAssumption, NothingIsIn
<1>2. /\ <<>> \in Seq(Messages) /\ Range(<<>>) = {} /\ IsInjective(<<>>)
  BY DEF Range, IsInjective
<1>3. /\ received[throttled_ch] = <<>> /\ consumer[throttled_ch] = "pulling"
      /\ rb[throttled_ch] = [held |-> <<>>, state |-> "running"]
  BY <1>1 DEF ChannelInit
<1>4. ChannelTypes
  <2>1. [held |-> <<>>, state |-> "running"] \in RingBuffers
    BY <1>2 DEF RingBuffers, States
  <2>2. PICK n \in 1 .. NMessages : producer = [at |-> "insert", message |-> 1, of |-> n]
    BY DEF ChannelInit
  <2>3. n \in Nat
    BY NMessagesAssumption
  <2> QED BY <2>1, <2>2, <2>3, <1>2 DEF ChannelInit, ChannelTypes
<1>5. Past = {} /\ throttled \in [Throttled -> TaskPlaces]
  BY DEF ThrottleInit, Past, TaskPlaces
<1>6. semaphore \in [tickets : Nat, open : BOOLEAN] /\ semaphore.open
  BY <1>1 DEF ThrottleInit
<1> QED BY <1>2, <1>3, <1>4, <1>5, <1>6 DEF ThrottleInv, Arrived, InHand

\* A step of a task that leaves the channel alone.
LEMMA TaskMoves ==
  ASSUME ThrottleInv, NEW t \in Throttled, NEW place \in TaskPlaces, TaskAt(t, place),
         throttled[t] # "ended", throttled[t] = "receipt" => place = "ended",
         UNCHANGED <<rb, received, consumer, producer>>,
         semaphore' \in [tickets : Nat, open : BOOLEAN],
         \/ consumer[throttled_ch] # "pulling"
         \/ semaphore'.open /\ (place \in {"receipt", "ended"} => throttled[t] = "receipt")
  PROVE  ThrottleInv'
<1>1. /\ throttled' \in [Throttled -> TaskPlaces] /\ throttled'[t] = place
      /\ \A u \in Throttled \ {t} : throttled'[u] = throttled[u]
  BY ThrottleFacts DEF TaskAt
<1>2. Past \subseteq Past' /\ Arrived' = Arrived /\ InHand' = InHand
  BY <1>1 DEF Past, Arrived, InHand
<1>3. CASE consumer[throttled_ch] # "pulling"
  BY <1>1, <1>2, <1>3 DEF ThrottleInv, ChannelTypes
<1>4. CASE consumer[throttled_ch] = "pulling"
  <2>1. Past' = Past /\ semaphore'.open
    BY <1>1, <1>2, <1>4 DEF Past
  <2>2. rb[throttled_ch].state \notin {"draining", "stopped"} /\ rb[throttled_ch].state = "running"
    BY <1>4, ThrottleFacts DEF ThrottleInv, RingBuffers, States
  <2> QED BY <1>1, <1>2, <1>4, <2>1, <2>2 DEF ThrottleInv, ChannelTypes
<1> QED BY <1>3, <1>4

LEMMA TaskAcquires ==
  ASSUME ThrottleInv, NEW t \in Throttled, acquire_ticket(t)
  PROVE  ThrottleInv'
<1>1. throttled[t] = "acquire" /\ UNCHANGED <<rb, received, consumer, producer>>
  BY DEF acquire_ticket, channelVars, leafVars
<1>2. CASE semaphore.open /\ semaphore.tickets > 0
  <2>1. semaphore' = [tickets |-> semaphore.tickets - 1, open |-> semaphore.open] /\ TaskAt(t, "insert")
    BY <1>2, ThrottleFacts DEF acquire_ticket
  <2>2. semaphore.tickets - 1 \in Nat
    BY <1>2, ThrottleFacts
  <2>3. semaphore' \in [tickets : Nat, open : BOOLEAN] /\ semaphore'.open
    BY <2>1, <2>2, <1>2, ThrottleFacts
  <2> QED BY <2>1, <2>3, <1>1, TaskMoves DEF TaskPlaces
<1>3. CASE ~ semaphore.open
  <2>1. UNCHANGED semaphore /\ TaskAt(t, "ended") /\ consumer[throttled_ch] # "pulling"
    BY <1>3 DEF acquire_ticket, ThrottleInv
  <2> QED BY <2>1, <1>1, TaskMoves, ThrottleFacts DEF TaskPlaces
<1> QED BY <1>2, <1>3 DEF acquire_ticket

LEMMA TaskSends ==
  ASSUME ThrottleInv, NEW t \in Throttled, throttled[t] = "produce",
         send_produce(throttled_ch, t), TaskAt(t, "receipt"),
         UNCHANGED <<received, consumer, producer, semaphore>>
  PROVE  ThrottleInv'
<1>1. /\ rb[throttled_ch].state = "running" /\ rb[throttled_ch].held = <<>>
      /\ rb' = Produced(throttled_ch, t)
  BY DEF send_produce, CanProduce
<1>2. /\ rb' \in [Channels -> RingBuffers] /\ rb'[throttled_ch].held = <<t>>
      /\ rb'[throttled_ch].state = "running"
  BY <1>1, ThrottleFacts, RbProduced
<1>3. /\ throttled' \in [Throttled -> TaskPlaces] /\ throttled'[t] = "receipt"
      /\ \A u \in Throttled \ {t} : throttled'[u] = throttled[u]
  BY ThrottleFacts DEF TaskAt, TaskPlaces
<1>4. Past' = Past \cup {t} /\ t \notin Past
  BY <1>3 DEF Past
<1>5. InHand' = {t} /\ InHand = {} /\ Arrived' = Arrived
  BY <1>1, <1>2 DEF InHand, Range, Arrived
<1>6. consumer[throttled_ch] = "pulling"
  BY <1>1 DEF ThrottleInv
<1>7. t \in Past' \ Arrived'
  BY <1>4, <1>5 DEF ThrottleInv
<1> QED BY <1>2, <1>3, <1>4, <1>5, <1>6, <1>7 DEF ThrottleInv, ChannelTypes

LEMMA TaskHasTicket ==
  ASSUME ThrottleInv, NEW t \in Throttled, ticket(t)
  PROVE  ThrottleInv'
<1>1. UNCHANGED <<received, consumer, producer>>
  BY DEF ticket, leafVars
<1>2. CASE throttled[t] = "insert"
  <2>1. TaskAt(t, "produce") /\ UNCHANGED <<rb, semaphore>>
    BY <1>2 DEF ticket
  <2>2. consumer[throttled_ch] # "pulling" \/ semaphore'.open
    BY <2>1 DEF ThrottleInv
  <2> QED BY <2>1, <2>2, <1>1, <1>2, TaskMoves, ThrottleFacts DEF TaskPlaces
<1>3. CASE throttled[t] = "produce" /\ send_produce(throttled_ch, t) /\ TaskAt(t, "receipt") /\ UNCHANGED semaphore
  BY <1>1, <1>3, TaskSends
<1>4. CASE throttled[t] = "produce" /\ ProduceFails(throttled_ch) /\ OnFailure /\ TaskAt(t, "ended") /\ UNCHANGED rb
  <2>1. consumer[throttled_ch] # "pulling"
    BY <1>4 DEF ProduceFails, ThrottleInv
  <2>2. semaphore' = [tickets |-> semaphore.tickets, open |-> FALSE]
    BY <1>4, ThrottleFacts DEF OnFailure
  <2>3. semaphore' \in [tickets : Nat, open : BOOLEAN]
    BY <2>2, ThrottleFacts
  <2> QED BY <2>1, <2>3, <1>1, <1>4, TaskMoves DEF TaskPlaces
<1>5. CASE throttled[t] = "receipt"
  <2>1. /\ TaskAt(t, "ended") /\ UNCHANGED rb
        /\ semaphore' = [tickets |-> semaphore.tickets + 1, open |-> semaphore.open]
    BY <1>5, ThrottleFacts DEF ticket
  <2>2. semaphore' \in [tickets : Nat, open : BOOLEAN] /\ semaphore'.open = semaphore.open
    BY <2>1, ThrottleFacts
  <2>3. consumer[throttled_ch] # "pulling" \/ semaphore'.open
    BY <2>2 DEF ThrottleInv
  <2> QED BY <2>1, <2>2, <2>3, <1>1, <1>5, TaskMoves DEF TaskPlaces
<1> QED BY <1>2, <1>3, <1>4, <1>5 DEF ticket

LEMMA ThrottleEnds == ASSUME ThrottleInv, throttle_end PROVE ThrottleInv'
<1>1. /\ UNCHANGED <<received, consumer, producer, semaphore, throttled>>
      /\ \A t \in Throttled : throttled[t] = "ended"
  BY DEF throttle_end, leafVars, throttleVars
<1>2. /\ rb' \in [Channels -> RingBuffers] /\ rb'[throttled_ch].held = rb[throttled_ch].held
      /\ rb'[throttled_ch].state = "stopped" => rb[throttled_ch].held = <<>>
      /\ rb[throttled_ch].state # "stopped"
  <2>1. CASE Drains(throttled_ch) /\ rb' = Draining({throttled_ch})
    BY <2>1, ThrottleFacts, RbShutdown DEF Drains
  <2>2. CASE rb[throttled_ch].state = "draining" /\ drained({throttled_ch}) /\ rb' = Stopped({throttled_ch})
    <3>1. rb[throttled_ch].held = <<>>
      BY <2>2 DEF drained, CanStop
    <3> QED BY <2>2, <3>1, ThrottleFacts, RbShutdown
  <2> QED BY <2>1, <2>2 DEF throttle_end
<1>3. consumer[throttled_ch] = "pulling"
  BY <1>2 DEF ThrottleInv
<1>4. Past' = Past /\ Arrived' = Arrived /\ InHand' = InHand
  BY <1>1, <1>2 DEF Past, Arrived, InHand
<1> QED BY <1>1, <1>2, <1>3, <1>4 DEF ThrottleInv, ChannelTypes

LEMMA ThrottleLeaves ==
  ASSUME ThrottleInv, pull_from_channel(throttled_ch) \/ close_channel(throttled_ch),
         UNCHANGED <<semaphore, throttled>>
  PROVE  ThrottleInv'
<1>1. /\ consumer[throttled_ch] = "pulling" /\ UNCHANGED producer /\ Past' = Past
      /\ received \in [Outputs -> Seq(Messages)]
      /\ consumer \in [Outputs -> {"pulling", "closed", "ended"}]
  BY DEF pull_from_channel, close_channel, Past, ThrottleInv, ChannelTypes
<1>2. CASE pull_from_channel(throttled_ch) /\ receive(throttled_ch)
  <2>1. /\ rb' = Consumed(throttled_ch) /\ rb[throttled_ch].held # <<>> /\ rb[throttled_ch].state # "stopped"
        /\ received' = [received EXCEPT ![throttled_ch] =
                            Append(received[throttled_ch], Head(rb[throttled_ch].held))]
        /\ UNCHANGED consumer
    BY <1>2 DEF pull_from_channel, receive, CanConsume, ConsumeFails
  <2>2. PICK t \in Past \ Arrived : rb[throttled_ch].held = <<t>>
    BY <2>1 DEF ThrottleInv
  <2>3. t \in Throttled /\ t \in Messages /\ Head(rb[throttled_ch].held) = t /\ InHand = {t}
    BY <2>2, ThrottleFacts DEF Past, InHand, Range
  <2>4. /\ rb' \in [Channels -> RingBuffers] /\ rb'[throttled_ch].held = <<>>
        /\ rb'[throttled_ch].state = rb[throttled_ch].state
    BY <2>1, ThrottleFacts, RbConsumed
  <2>5. /\ received'[throttled_ch] = Append(received[throttled_ch], t)
        /\ Append(received[throttled_ch], t) \in Seq(Messages)
        /\ received' \in [Outputs -> Seq(Messages)]
    BY <2>1, <2>3, <1>1, ThrottleFacts
  <2>6. IsInjective(received'[throttled_ch]) /\ Arrived' = Arrived \cup {t}
    BY <2>2, <2>3, <2>5, ThrottleFacts, AppendFresh DEF ThrottleInv, Arrived
  <2>7. InHand' = {}
    BY <2>4 DEF InHand, Range
  <2> QED BY <1>1, <2>1, <2>2, <2>3, <2>4, <2>5, <2>6, <2>7 DEF ThrottleInv, ChannelTypes
<1>3. CASE pull_from_channel(throttled_ch) /\ ~ receive(throttled_ch)
  <2>1. /\ rb[throttled_ch].state = "stopped" /\ consumer' = [consumer EXCEPT ![throttled_ch] = "ended"]
        /\ UNCHANGED <<rb, received>>
    BY <1>3 DEF pull_from_channel, ConsumeFails
  <2>2. /\ consumer'[throttled_ch] = "ended"
        /\ consumer' \in [Outputs -> {"pulling", "closed", "ended"}]
    BY <2>1, <1>1, ThrottleFacts
  <2>3. Past = Throttled /\ InHand = {} /\ Past \subseteq Arrived \cup InHand /\ Arrived \subseteq Past
    BY <2>1, <1>1 DEF ThrottleInv, Past, InHand, Range
  <2>4. Arrived' = Arrived /\ InHand' = InHand /\ Arrived = Throttled
    BY <2>1, <2>3 DEF Arrived, InHand
  <2> QED BY <1>1, <2>1, <2>2, <2>4 DEF ThrottleInv, ChannelTypes
<1>4. CASE close_channel(throttled_ch)
  <2>1. /\ rb' = Stopped({throttled_ch}) /\ consumer' = [consumer EXCEPT ![throttled_ch] = "closed"]
        /\ UNCHANGED received
    BY <1>4 DEF close_channel
  <2>2. /\ consumer'[throttled_ch] = "closed"
        /\ consumer' \in [Outputs -> {"pulling", "closed", "ended"}]
    BY <2>1, <1>1, ThrottleFacts
  <2>3. /\ rb' \in [Channels -> RingBuffers] /\ rb'[throttled_ch].held = rb[throttled_ch].held
        /\ rb'[throttled_ch].state = "stopped"
    BY <2>1, ThrottleFacts, RbShutdown
  <2>4. Arrived' = Arrived /\ InHand' = InHand
    BY <2>1, <2>3 DEF Arrived, InHand
  <2> QED BY <1>1, <2>1, <2>2, <2>3, <2>4, ZenonT(40) DEF ThrottleInv, ChannelTypes
<1> QED BY <1>2, <1>3, <1>4

\* As many messages have arrived as there are tasks, because they differ and are all of them.
LEMMA ThrottleIsFaithful ==
  ASSUME ThrottleInv
  PROVE  /\ IsInjective(received[throttled_ch])
         /\ consumer[throttled_ch] = "ended" => Len(received[throttled_ch]) = Cardinality(Throttled)
<1> DEFINE s == received[throttled_ch]
<1>1. IsInjective(s) /\ s \in Seq(Messages)
  BY ThrottleFacts DEF ThrottleInv
<1>2. ASSUME consumer[throttled_ch] = "ended" PROVE Len(s) = Cardinality(Throttled)
  <2>1. Range(s) = Throttled
    BY <1>2 DEF ThrottleInv, Arrived
  <2>2. DOMAIN s = 1 .. Len(s) /\ Len(s) \in Nat
    BY <1>1
  <2>3. s \in Bijection(1 .. Len(s), Throttled)
    <3>1. s \in [1 .. Len(s) -> Throttled]
      BY <1>1, <2>1, <2>2 DEF Range
    <3>2. s \in Injection(1 .. Len(s), Throttled)
      BY <3>1, <1>1 DEF Injection
    <3>3. s \in Surjection(1 .. Len(s), Throttled)
      BY <3>1, <2>1, <2>2 DEF Surjection, Range
    <3> QED BY <3>2, <3>3 DEF Bijection
  <2>4. IsFiniteSet(1 .. Len(s)) /\ Cardinality(1 .. Len(s)) = Len(s)
    BY <2>2, FS_Interval
  <2> HIDE DEF s
  <2>5. Cardinality(1 .. Len(s)) = Cardinality(Throttled)
    BY <2>3, <2>4, FS_Bijection DEF ExistsBijection
  <2> QED BY <2>4, <2>5
<1> QED BY <1>1, <1>2

-----------------------------------------------------------------------------
(* The lineariser. *)

\* Of the messages of one producer, a queue holds those from first on, and the next one is m.
Chain(h, m, first) ==
    /\ \A k \in 1 .. Len(h) : h[k] <= NMessages
    /\ \A k \in 1 .. Len(h) - 1 : h[k + 1] = h[k] + NMakers
    /\ IF h = <<>> THEN m = first ELSE h[1] = first /\ m = h[Len(h)] + NMakers

LEMMA ChainAppend ==
  ASSUME NEW h \in Seq(Nat), NEW m \in Nat, NEW first, Chain(h, m, first), m <= NMessages
  PROVE  Append(h, m) \in Seq(Nat) /\ Chain(Append(h, m), m + NMakers, first)
<1> DEFINE t == Append(h, m)
<1>1. /\ t \in Seq(Nat) /\ Len(t) = Len(h) + 1 /\ Len(h) \in Nat /\ t # <<>> /\ t[Len(t)] = m
      /\ \A k \in 1 .. Len(h) : t[k] = h[k]
  OBVIOUS
<1> HIDE DEF t
<1>2. \A k \in 1 .. Len(t) : t[k] <= NMessages
  BY <1>1 DEF Chain
<1>3. \A k \in 1 .. Len(t) - 1 : t[k + 1] = t[k] + NMakers
  <2> SUFFICES ASSUME NEW k \in 1 .. Len(h) PROVE t[k + 1] = t[k] + NMakers
    BY <1>1
  <2>1. CASE k < Len(h)
    <3>1. k \in 1 .. Len(h) - 1 /\ k \in 1 .. Len(h) /\ k + 1 \in 1 .. Len(h)
      BY <2>1, <1>1
    <3>2. t[k] = h[k] /\ t[k + 1] = h[k + 1] /\ h[k + 1] = h[k] + NMakers
      BY <3>1, <1>1 DEF Chain
    <3> QED BY <3>2
  <2>2. CASE k = Len(h)
    BY <2>2, <1>1 DEF Chain
  <2> QED BY <2>1, <2>2
<1>4. t[1] = first
  <2>1. CASE h = <<>>
    BY <2>1, <1>1 DEF Chain
  <2>2. CASE h # <<>>
    <3>1. 1 \in 1 .. Len(h)
      BY <2>2, <1>1
    <3> QED BY <3>1, <2>2, <1>1 DEF Chain
  <2> QED BY <2>1, <2>2
<1>5. Chain(t, m + NMakers, first)
  BY <1>1, <1>2, <1>3, <1>4 DEF Chain
<1> QED BY <1>1, <1>5 DEF t

LEMMA ChainTail ==
  ASSUME NEW h \in Seq(Nat), NEW m \in Nat, NEW first, Chain(h, m, first), h # <<>>
  PROVE  /\ Head(h) = first /\ first \in Nat /\ first <= NMessages /\ Tail(h) \in Seq(Nat)
         /\ Chain(Tail(h), m, first + NMakers)
<1> DEFINE t == Tail(h)
<1>1. /\ t \in Seq(Nat) /\ Len(t) = Len(h) - 1 /\ Len(h) \in Nat /\ Len(h) # 0 /\ Head(h) = h[1]
      /\ \A k \in 1 .. Len(t) : t[k] = h[k + 1]
  OBVIOUS
<1>0. t = <<>> <=> Len(h) = 1
  <2>1. ASSUME t = <<>> PROVE Len(t) = 0
    <3>1. Len(<<>>) = 0
      OBVIOUS
    <3> QED BY <2>1, <3>1, Zenon
  <2>2. ASSUME Len(t) = 0 PROVE t = <<>>
    BY <2>2, <1>1
  <2> QED BY <2>1, <2>2, <1>1, SMTT(30)
<1> HIDE DEF t
<1>2. /\ Head(h) = first /\ m = h[Len(h)] + NMakers /\ first \in Nat /\ first <= NMessages
      /\ NMakers \in Nat
  <2>1. 1 \in 1 .. Len(h) /\ h[1] \in Nat
    BY <1>1
  <2> QED BY <2>1, <1>1, LineariserAssumption DEF Chain
<1>3. \A k \in 1 .. Len(t) : t[k] <= NMessages
  <2> SUFFICES ASSUME NEW k \in 1 .. Len(t) PROVE t[k] <= NMessages
    OBVIOUS
  <2>1. k + 1 \in 1 .. Len(h) /\ t[k] = h[k + 1]
    BY <1>1
  <2> QED BY <2>1 DEF Chain
<1>4. \A k \in 1 .. Len(t) - 1 : t[k + 1] = t[k] + NMakers
  <2> SUFFICES ASSUME NEW k \in 1 .. Len(t) - 1 PROVE t[k + 1] = t[k] + NMakers
    OBVIOUS
  <2>1. k \in 1 .. Len(t) /\ k + 1 \in 1 .. Len(t) /\ k + 1 \in 1 .. Len(h) - 1
    BY <1>1
  <2>2. t[k] = h[k + 1] /\ t[k + 1] = h[k + 1 + 1] /\ h[k + 1 + 1] = h[k + 1] + NMakers
    BY <2>1, <1>1 DEF Chain
  <2> QED BY <2>2
<1>5. t # <<>> => t[1] = first + NMakers /\ m = t[Len(t)] + NMakers
  <2> SUFFICES ASSUME t # <<>> PROVE t[1] = h[1] + NMakers /\ t[Len(t)] = h[Len(h)]
    BY <1>1, <1>2
  <2>1. 1 \in 1 .. Len(t) /\ Len(t) \in 1 .. Len(t) /\ 1 \in 1 .. Len(h) - 1
    BY <1>0, <1>1
  <2>2. t[1] = h[1 + 1] /\ t[Len(t)] = h[Len(t) + 1] /\ h[1 + 1] = h[1] + NMakers
    BY <1>1, <2>1 DEF Chain
  <2> QED BY <1>1, <2>2
<1>6. t = <<>> => m = first + NMakers
  BY <1>0, <1>1, <1>2
<1>7. Chain(t, m, first + NMakers)
  BY <1>3, <1>4, <1>5, <1>6 DEF Chain
<1> QED BY <1>1, <1>2, <1>7 DEF t

LEMMA ChainEnd ==
  ASSUME NEW h \in Seq(Nat), NEW m, NEW first \in Nat, Chain(h, m, first), first > NMessages
  PROVE  h = <<>> /\ m = first
<1>1. ASSUME h # <<>> PROVE FALSE
  <2>1. 1 \in 1 .. Len(h)
    BY <1>1
  <2>2. h[1] <= NMessages /\ h[1] = first /\ NMessages \in Nat
    BY <1>1, <2>1, NMessagesAssumption DEF Chain
  <2> QED BY <2>2
<1> QED BY <1>1 DEF Chain

BoundedQueues == [held : Seq(Nat), state : States, permits : Nat, open : BOOLEAN]
LineariserTypes ==
    /\ ChannelTypes /\ producer.of = NMessages
    /\ queue \in [Makers -> BoundedQueues]
    /\ maker \in [Makers -> [at : {"acquire", "send", "drain", "leave", "ended"}, message : Nat]]
    /\ draining \in [at : {"receive", "insert", "produce", "receipt", "finish", "drained", "ended"},
                     queues : Seq(Makers), pos : Nat \ {0}, got : Seq(Nat)]
    /\ draining.at \in {"insert", "produce", "receipt"} => draining.pos <= Len(draining.queues)

Working == draining.at \in {"receive", "insert", "produce", "receipt"}
LineariserState ==
    IF Working \/ draining.at = "finish" THEN "running"
    ELSE IF draining.at = "drained" THEN "draining" ELSE "stopped"
LineariserSent == IF Working THEN Given(output) ELSE NMessages

\* How many messages were taken from the queues.
Taken == IF draining.at \in {"insert", "produce"} THEN Given(output) + 1 ELSE Given(output)

\* As long as the consumer stays, producers and queues end together, and only when the producer
\* has sent everything and the queue is empty.
MakerInv(i) ==
    /\ queue[i].state = "running" <=> maker[i].at \in {"acquire", "send"}
    /\ queue[i].state = "draining" <=> maker[i].at = "drain"
    /\ queue[i].state = "stopped" <=> maker[i].at = "ended"
    /\ queue[i].state # "stopped" => queue[i].open
    /\ queue[i].state = "stopped" => queue[i].held = <<>>
    /\ queue[i].state # "running" => maker[i].message > NMessages
    /\ maker[i].at = "send" => maker[i].message <= NMessages

\* The message of producer i that drain() takes next, in the round that began with message b + 1.
Due(i, b) ==
    IF i < draining.pos \/ (i = draining.pos /\ draining.at # "receive") THEN b + NMakers + i ELSE b + i

\* While no queue has ended, drain() takes from all of them in turn.
Round(b) ==
    /\ draining.queues = [i \in Makers |-> i] /\ draining.pos <= NMakers + 1
    /\ Taken = IF draining.at = "receive" THEN b + draining.pos - 1 ELSE b + draining.pos
    /\ \A i \in Makers : Chain(queue[i].held, maker[i].message, Due(i, b))

\* When the first queue has ended, the others are about to.
AllTaken ==
    /\ draining.at = "receive" /\ Taken = NMessages
    /\ \A i \in Makers : queue[i].held = <<>> /\ maker[i].message > NMessages

LineariserInv ==
    /\ LineariserTypes
    /\ \A o \in Outputs \ {output} : Idle(o)
    /\ OutputIs(output, LineariserState, LineariserSent)
    /\ Working /\ consumer[output] = "pulling" =>
          /\ \A i \in Makers : MakerInv(i)
          /\ AllTaken \/ \E b \in Nat : Round(b)
          /\ Taken <= NMessages
          /\ draining.at \in {"insert", "produce"} => draining.got = <<Taken>>

LEMMA LineariserFacts ==
  ASSUME LineariserInv
  PROVE  /\ ChannelTypes /\ output \in Outputs /\ output \in Channels /\ output # "in"
         /\ rb \in [Channels -> RingBuffers] /\ rb[output] \in RingBuffers
         /\ NMessages \in Nat /\ producer.of = NMessages /\ NMakers \in Nat \ {0}
         /\ Makers = 1 .. NMakers /\ 1 \in Makers
         /\ queue \in [Makers -> BoundedQueues]
         /\ maker \in [Makers -> [at : {"acquire", "send", "drain", "leave", "ended"}, message : Nat]]
         /\ draining \in [at : {"receive", "insert", "produce", "receipt", "finish", "drained", "ended"},
                          queues : Seq(Makers), pos : Nat \ {0}, got : Seq(Nat)]
         /\ Given(output) \in Nat /\ Taken \in Nat
         /\ \A i \in Makers : queue[i] \in BoundedQueues /\ queue[i].held \in Seq(Nat) /\ maker[i].message \in Nat
<1>1. /\ ChannelTypes /\ output \in Outputs /\ output \in Channels /\ output # "in"
      /\ rb \in [Channels -> RingBuffers] /\ rb[output] \in RingBuffers
      /\ received[output] \in Seq(Messages)
  BY LineariserAssumption, NothingIsIn DEF LineariserInv, LineariserTypes, ChannelTypes
<1>2. Len(received[output]) \in Nat /\ Len(rb[output].held) \in Nat
  BY <1>1 DEF RingBuffers
<1>3. Given(output) \in Nat /\ Taken \in Nat
  <2>0. \A x, y \in Nat : x + y \in Nat
    OBVIOUS
  <2>1. Given(output) \in Nat
    BY <2>0, <1>2, Zenon DEF Given
  <2> QED BY <2>1 DEF Taken
<1>4. /\ queue \in [Makers -> BoundedQueues]
      /\ maker \in [Makers -> [at : {"acquire", "send", "drain", "leave", "ended"}, message : Nat]]
  BY DEF LineariserInv, LineariserTypes
<1>5. \A i \in Makers : queue[i] \in BoundedQueues /\ queue[i].held \in Seq(Nat) /\ maker[i].message \in Nat
  BY <1>4 DEF BoundedQueues
<1> QED BY <1>1, <1>3, <1>4, <1>5, LineariserAssumption, NMessagesAssumption
    DEF LineariserInv, LineariserTypes, Makers

LEMMA LineariserBegins ==
  ASSUME ChannelInit, FanoutInit, LineariserInit, producer.of = NMessages
  PROVE  LineariserInv
<1>1. /\ ChannelTypes /\ \A o \in Outputs : OutputIs(o, "running", 0)
  BY BoundedBegins DEF BoundedInv, BoundedTypes, ServedState, SentTo, Serving, Taking, FanoutInit
<1>2. \A o \in Outputs : Idle(o)
  BY DEF ChannelInit, Idle
<1>3. /\ output \in Outputs /\ NMakers \in Nat \ {0} /\ buffer_size \in Nat /\ NMessages \in Nat
      /\ Makers = 1 .. NMakers /\ output \in Channels /\ "in" \in Channels
  BY LineariserAssumption, NMessagesAssumption, NothingIsIn DEF Makers
<1>4. /\ draining = [at |-> "receive", queues |-> [i \in Makers |-> i], pos |-> 1, got |-> <<>>]
      /\ \A i \in Makers : /\ queue[i] = [held |-> <<>>, state |-> "running", permits |-> buffer_size, open |-> TRUE]
                           /\ maker[i] = [at |-> "acquire", message |-> i]
      /\ queue = [i \in Makers |->
               [held |-> <<>>, state |-> "running", permits |-> buffer_size, open |-> TRUE]]
      /\ maker = [i \in Makers |-> [at |-> "acquire", message |-> i]]
  BY DEF LineariserInit
<1>5. LineariserTypes
  <2>1. /\ <<>> \in Seq(Nat) /\ [i \in Makers |-> i] \in Seq(Makers) /\ \A i \in Makers : i \in Nat
    BY <1>3
  <2>2. [held |-> <<>>, state |-> "running", permits |-> buffer_size, open |-> TRUE] \in BoundedQueues
    BY <2>1, <1>3 DEF BoundedQueues, States
  <2> QED BY <1>1, <1>4, <2>1, <2>2 DEF LineariserTypes
<1>6. /\ received[output] = <<>> /\ rb[output].held = <<>> /\ Given(output) = 0 /\ Taken = 0
  <2>1. received[output] = <<>> /\ rb[output].held = <<>>
    BY <1>3 DEF ChannelInit
  <2>2. Given(output) = 0
    BY <2>1 DEF Given
  <2> QED BY <2>1, <2>2, <1>4 DEF Taken
<1>7. Round(0)
  <2>1. ASSUME NEW i \in Makers PROVE Chain(queue[i].held, maker[i].message, Due(i, 0))
    <3>1. Due(i, 0) = i
      BY <1>3, <1>4 DEF Due
    <3> QED BY <3>1, <1>4 DEF Chain
  <2> QED BY <2>1, <1>3, <1>4, <1>6 DEF Round
<1>8. \A i \in Makers : MakerInv(i)
  BY <1>4 DEF MakerInv
<1>9. LineariserState = "running" /\ LineariserSent = 0 /\ Working
  BY <1>4, <1>6 DEF LineariserState, LineariserSent, Working
<1> QED BY <1>1, <1>2, <1>3, <1>4, <1>5, <1>6, <1>7, <1>8, <1>9 DEF LineariserInv

MakerRecords == [at : {"acquire", "send", "drain", "leave", "ended"}, message : Nat]

\* A step of a producer: to its place and its queue only.
LEMMA MakerMoves ==
  ASSUME LineariserInv, NEW i \in Makers, UNCHANGED <<draining, rb, container, received, consumer, producer>>,
         NEW q \in BoundedQueues, NEW m \in MakerRecords,
         queue' = [queue EXCEPT ![i] = q], maker' = [maker EXCEPT ![i] = m],
         Working /\ consumer[output] = "pulling" =>
            /\ MakerInv(i)'
            /\ \A first : Chain(queue[i].held, maker[i].message, first) => Chain(q.held, m.message, first)
            /\ queue[i].held = <<>> /\ maker[i].message > NMessages => q.held = <<>> /\ m.message > NMessages
  PROVE  LineariserInv'
<1>1. /\ queue' \in [Makers -> BoundedQueues] /\ queue'[i] = q
      /\ maker' \in [Makers -> MakerRecords] /\ maker'[i] = m
      /\ \A j \in Makers \ {i} : queue'[j] = queue[j] /\ maker'[j] = maker[j]
  BY LineariserFacts DEF MakerRecords
<1>2. LineariserTypes'
  BY <1>1 DEF LineariserInv, LineariserTypes, ChannelTypes, MakerRecords
<1>3. \A o \in Outputs \ {output} : Idle(o)'
  BY DEF LineariserInv, Idle
<1>4. /\ LineariserState' = LineariserState /\ LineariserSent' = LineariserSent /\ Taken' = Taken
      /\ Working' = Working /\ \A j, b : Due(j, b)' = Due(j, b)
  BY DEF LineariserState, LineariserSent, Taken, Working, Given, Due
<1>5. OutputIs(output, LineariserState, LineariserSent)'
  BY <1>4, OutputStays DEF LineariserInv
<1>6. ASSUME Working', consumer'[output] = "pulling"
      PROVE  /\ \A j \in Makers : MakerInv(j)'
             /\ AllTaken' \/ \E b \in Nat : Round(b)'
             /\ Taken' <= NMessages
             /\ draining'.at \in {"insert", "produce"} => draining'.got = <<Taken'>>
  <2>1. Working /\ consumer[output] = "pulling"
    BY <1>4, <1>6
  <2>2. \A j \in Makers : MakerInv(j)'
    BY <2>1, <1>1 DEF LineariserInv, MakerInv
  <2>3. CASE AllTaken
    <3>1. AllTaken'
      BY <2>1, <2>3, <1>1, <1>4 DEF AllTaken
    <3> QED BY <3>1, <2>1, <2>2, <1>4 DEF LineariserInv
  <2>4. ASSUME NEW b \in Nat, Round(b) PROVE Round(b)'
    <3>1. ASSUME NEW j \in Makers PROVE Chain(queue'[j].held, maker'[j].message, Due(j, b))
      <4>1. Chain(queue[j].held, maker[j].message, Due(j, b))
        BY <2>4 DEF Round
      <4>2. CASE j = i
        BY <4>1, <4>2, <2>1, <1>1
      <4>3. CASE j # i
        BY <4>1, <4>3, <1>1
      <4> QED BY <4>2, <4>3
    <3> QED BY <3>1, <2>4, <1>4 DEF Round
  <2> QED BY <2>1, <2>2, <2>3, <2>4, <1>4 DEF LineariserInv
<1> QED BY <1>2, <1>3, <1>5, <1>6 DEF LineariserInv

LEMMA QueueIsRecord ==
  ASSUME NEW r \in BoundedQueues
  PROVE  /\ r.held \in Seq(Nat) /\ r.state \in States /\ r.permits \in Nat /\ r.open \in BOOLEAN
         /\ \A h : [r EXCEPT !.held = h] = [held |-> h, state |-> r.state, permits |-> r.permits, open |-> r.open]
         /\ \A s : [r EXCEPT !.state = s] = [held |-> r.held, state |-> s, permits |-> r.permits, open |-> r.open]
         /\ \A n : [r EXCEPT !.permits = n] = [held |-> r.held, state |-> r.state, permits |-> n, open |-> r.open]
         /\ ShutDown(r) \in BoundedQueues
         /\ ShutDown(r).held = r.held /\ ShutDown(r).state = "stopped"
<1>1. /\ r.held \in Seq(Nat) /\ r.state \in States /\ r.permits \in Nat
      /\ r = [held |-> r.held, state |-> r.state, permits |-> r.permits, open |-> r.open]
  BY DEF BoundedQueues
<1>2. r.open \in BOOLEAN
  BY DEF BoundedQueues
<1>3. \A h : [r EXCEPT !.held = h] = [held |-> h, state |-> r.state, permits |-> r.permits, open |-> r.open]
  BY <1>1
<1>4. \A s : [r EXCEPT !.state = s] = [held |-> r.held, state |-> s, permits |-> r.permits, open |-> r.open]
  BY <1>1
<1>5. \A n : [r EXCEPT !.permits = n] = [held |-> r.held, state |-> r.state, permits |-> n, open |-> r.open]
  BY <1>1
<1>6. /\ ShutDown(r) \in BoundedQueues
      /\ ShutDown(r).held = r.held /\ ShutDown(r).state = "stopped"
  BY DEF BoundedQueues, ShutDown, States
<1> QED BY <1>1, <1>2, <1>3, <1>4, <1>5, <1>6

LEMMA QueueFits ==
  ASSUME NEW h \in Seq(Nat), NEW s \in States, NEW n \in Nat, NEW open \in BOOLEAN
  PROVE  [held |-> h, state |-> s, permits |-> n, open |-> open] \in BoundedQueues
BY DEF BoundedQueues

LEMMA MakerIsRecord ==
  ASSUME LineariserInv, NEW i \in Makers
  PROVE  /\ queue[i] \in BoundedQueues /\ maker[i] \in MakerRecords
         /\ Working /\ consumer[output] = "pulling" => MakerInv(i)
BY LineariserFacts DEF LineariserInv, MakerRecords

LEMMA MakerGoes ==
  ASSUME LineariserInv, NEW i \in Makers, NEW place
  PROVE  MakerAt(i, place) = [maker EXCEPT ![i] = [at |-> place, message |-> maker[i].message]]
<1>0. maker[i] \in MakerRecords
  BY MakerIsRecord
<1>1. [maker[i] EXCEPT !.at = place] = [at |-> place, message |-> maker[i].message]
  BY <1>0 DEF MakerRecords
<1> QED BY <1>1 DEF MakerAt

LEMMA QueueStays ==
  ASSUME LineariserInv, NEW i \in Makers, UNCHANGED queue
  PROVE  queue' = [queue EXCEPT ![i] = queue[i]]
BY LineariserFacts

LEMMA MakerAcquires ==
  ASSUME LineariserInv, NEW i \in Makers, acquire(i),
         UNCHANGED <<draining, rb, container, received, consumer, producer>>
  PROVE  LineariserInv'
<1>9. /\ queue[i] \in BoundedQueues /\ queue[i].held \in Seq(Nat) /\ queue[i].state \in States
      /\ queue[i].permits \in Nat /\ queue[i].open \in BOOLEAN
      /\ maker[i] \in MakerRecords /\ maker[i].message \in Nat
      /\ maker[i].at \in {"acquire", "send", "drain", "leave", "ended"}
  BY MakerIsRecord DEF BoundedQueues, MakerRecords
<1>0. /\ maker[i].at = "acquire" /\ NMessages \in Nat /\ maker[i].message \in Nat
      /\ queue \in [Makers -> BoundedQueues]
      /\ maker \in [Makers -> [at : {"acquire", "send", "drain", "leave", "ended"}, message : Nat]]
  BY LineariserFacts DEF acquire
<1>1. CASE maker[i].message > NMessages
  <2> DEFINE place == IF queue[i].state = "running" THEN "drain" ELSE "leave"
             s == IF queue[i].state = "running" THEN "draining" ELSE queue[i].state
             m == [at |-> place, message |-> maker[i].message]
             q == [held |-> queue[i].held, state |-> s, permits |-> queue[i].permits, open |-> queue[i].open]
  <2>1. maker' = [maker EXCEPT ![i] = m]
    <3>1. maker' = MakerAt(i, place)
      BY <1>0, <1>1 DEF acquire
    <3> QED BY <3>1, MakerGoes
  <2>2. queue' = [queue EXCEPT ![i] = q]
    <3>1. queue' = [queue EXCEPT ![i].state = s]
      BY <1>0, <1>1 DEF acquire
    <3>2. [queue[i] EXCEPT !.state = s] = q
      BY <1>9, QueueIsRecord
    <3> QED BY <3>1, <3>2
  <2>3. q \in BoundedQueues /\ m \in MakerRecords
    <3>1. s \in States
      BY <1>9 DEF States
    <3> QED BY <3>1, <1>9, QueueFits DEF MakerRecords
  <2>4. queue'[i] = q /\ maker'[i] = m
    BY <2>1, <2>2, <1>0
  <2>5. ASSUME Working, consumer[output] = "pulling" PROVE MakerInv(i)'
    <3>1. MakerInv(i)
      BY <2>5, MakerIsRecord
    <3>2. queue[i].state = "running"
      BY <3>1, <1>0 DEF MakerInv
    <3>3. /\ queue'[i].state = "draining" /\ maker'[i].at = "drain" /\ queue'[i].open = queue[i].open
          /\ maker'[i].message = maker[i].message
      BY <3>2, <2>4
    <3> QED BY <3>1, <3>2, <3>3, <1>1 DEF MakerInv
  <2>6. q.held = queue[i].held /\ m.message = maker[i].message
    OBVIOUS
  <2> HIDE DEF q, m
  <2> QED BY <2>1, <2>2, <2>3, <2>5, <2>6, MakerMoves
<1>2. CASE maker[i].message <= NMessages /\ queue[i].open /\ queue[i].permits > 0
  <2> DEFINE m == [at |-> "send", message |-> maker[i].message]
             q == [held |-> queue[i].held, state |-> queue[i].state, permits |-> queue[i].permits - 1,
                   open |-> queue[i].open]
  <2>1. maker' = [maker EXCEPT ![i] = m]
    <3>1. maker' = MakerAt(i, "send")
      BY <1>0, <1>2 DEF acquire
    <3> QED BY <3>1, MakerGoes
  <2>2. queue' = [queue EXCEPT ![i] = q]
    <3>1. queue' = [queue EXCEPT ![i].permits = queue[i].permits - 1]
      BY <1>0, <1>2 DEF acquire
    <3>2. [queue[i] EXCEPT !.permits = queue[i].permits - 1] = q
      BY <1>9, QueueIsRecord
    <3> QED BY <3>1, <3>2
  <2>3. q \in BoundedQueues /\ m \in MakerRecords
    <3>1. queue[i].permits - 1 \in Nat
      BY <1>9, <1>2
    <3> QED BY <3>1, <1>9, QueueFits DEF MakerRecords
  <2>4. queue'[i] = q /\ maker'[i] = m
    BY <2>1, <2>2, <1>0
  <2>5. ASSUME Working, consumer[output] = "pulling" PROVE MakerInv(i)'
    <3>1. MakerInv(i)
      BY <2>5, MakerIsRecord
    <3>3. /\ queue'[i].state = queue[i].state /\ maker'[i].at = "send" /\ queue'[i].open = queue[i].open
          /\ maker'[i].message = maker[i].message /\ queue'[i].held = queue[i].held
      BY <2>4
    <3> QED BY <3>1, <3>3, <1>0, <1>2 DEF MakerInv
  <2>6. q.held = queue[i].held /\ m.message = maker[i].message
    OBVIOUS
  <2> HIDE DEF q, m
  <2> QED BY <2>1, <2>2, <2>3, <2>5, <2>6, MakerMoves
<1>3. CASE maker[i].message <= NMessages /\ ~ queue[i].open
  <2> DEFINE m == [at |-> "leave", message |-> maker[i].message]
  <2>1. maker' = [maker EXCEPT ![i] = m] /\ queue' = [queue EXCEPT ![i] = queue[i]]
    <3>1. maker' = MakerAt(i, "leave") /\ UNCHANGED queue
      BY <1>0, <1>3 DEF acquire
    <3> QED BY <3>1, MakerGoes, QueueStays
  <2>2. ~ (Working /\ consumer[output] = "pulling")
    <3>1. ASSUME MakerInv(i) PROVE FALSE
      BY <3>1, <1>0, <1>3 DEF MakerInv
    <3> QED BY <3>1, MakerIsRecord
  <2>3. m \in MakerRecords
    BY <1>9 DEF MakerRecords
  <2> HIDE DEF m
  <2> QED BY <2>1, <2>2, <2>3, MakerMoves, MakerIsRecord
<1> QED BY <1>1, <1>2, <1>3 DEF acquire

LEMMA MakerSends ==
  ASSUME LineariserInv, NEW i \in Makers, ticket_send(i),
         UNCHANGED <<draining, rb, container, received, consumer, producer>>
  PROVE  LineariserInv'
<1>9. /\ queue[i] \in BoundedQueues /\ queue[i].held \in Seq(Nat) /\ queue[i].state \in States
      /\ queue[i].permits \in Nat /\ queue[i].open \in BOOLEAN
      /\ maker[i] \in MakerRecords /\ maker[i].message \in Nat
      /\ maker[i].at \in {"acquire", "send", "drain", "leave", "ended"}
  BY MakerIsRecord DEF BoundedQueues, MakerRecords
<1>0. /\ maker[i].at = "send" /\ NMessages \in Nat /\ maker[i].message \in Nat /\ NMakers \in Nat
      /\ queue \in [Makers -> BoundedQueues]
      /\ maker \in [Makers -> [at : {"acquire", "send", "drain", "leave", "ended"}, message : Nat]]
  BY LineariserFacts DEF ticket_send
<1>1. CASE queue[i].state = "running"
  <2> DEFINE m == [at |-> "acquire", message |-> maker[i].message + NMakers]
             q == [held |-> Append(queue[i].held, maker[i].message), state |-> queue[i].state,
                   permits |-> queue[i].permits, open |-> queue[i].open]
  <2>1. maker' = [maker EXCEPT ![i] = m]
    BY <1>0, <1>1 DEF ticket_send
  <2>2. queue' = [queue EXCEPT ![i] = q]
    <3>1. queue' = [queue EXCEPT ![i].held = Append(queue[i].held, maker[i].message)]
      BY <1>0, <1>1 DEF ticket_send
    <3>2. [queue[i] EXCEPT !.held = Append(queue[i].held, maker[i].message)] = q
      BY <1>9, QueueIsRecord
    <3> QED BY <3>1, <3>2
  <2>3. q \in BoundedQueues /\ m \in MakerRecords
    <3>1. Append(queue[i].held, maker[i].message) \in Seq(Nat) /\ maker[i].message + NMakers \in Nat
      BY <1>0, <1>9
    <3> QED BY <3>1, <1>9, QueueFits DEF MakerRecords
  <2>4. queue'[i] = q /\ maker'[i] = m
    BY <2>1, <2>2, <1>0
  <2>5. ASSUME Working, consumer[output] = "pulling"
        PROVE  /\ MakerInv(i)' /\ maker[i].message <= NMessages
               /\ \A first : Chain(queue[i].held, maker[i].message, first) => Chain(q.held, m.message, first)
    <3>1. MakerInv(i) /\ maker[i].message <= NMessages
      BY <2>5, <1>0, MakerIsRecord DEF MakerInv
    <3>2. MakerInv(i)'
      BY <2>4, <3>1, <1>0, <1>1 DEF MakerInv
    <3>3. \A first : Chain(queue[i].held, maker[i].message, first) => Chain(q.held, m.message, first)
      BY <3>1, <1>9, ChainAppend
    <3> QED BY <3>1, <3>2, <3>3
  <2> HIDE DEF q, m
  <2>6. maker[i].message <= NMessages => ~ (maker[i].message > NMessages)
    BY <1>0
  <2> QED BY <2>1, <2>2, <2>3, <2>5, <2>6, MakerMoves
<1>2. CASE queue[i].state # "running"
  <2> DEFINE m == [at |-> "leave", message |-> maker[i].message]
  <2>1. maker' = [maker EXCEPT ![i] = m] /\ queue' = [queue EXCEPT ![i] = queue[i]]
    <3>1. maker' = MakerAt(i, "leave") /\ UNCHANGED queue
      BY <1>0, <1>2 DEF ticket_send
    <3> QED BY <3>1, MakerGoes, QueueStays
  <2>2. ~ (Working /\ consumer[output] = "pulling")
    <3>1. ASSUME MakerInv(i) PROVE FALSE
      BY <3>1, <1>0, <1>2 DEF MakerInv
    <3> QED BY <3>1, MakerIsRecord
  <2>3. m \in MakerRecords
    BY <1>9 DEF MakerRecords
  <2> HIDE DEF m
  <2> QED BY <2>1, <2>2, <2>3, MakerMoves, MakerIsRecord
<1> QED BY <1>1, <1>2

LEMMA MakerLeaves ==
  ASSUME LineariserInv, NEW i \in Makers, maker_leave(i),
         UNCHANGED <<draining, rb, container, received, consumer, producer>>
  PROVE  LineariserInv'
<1> DEFINE m == [at |-> "ended", message |-> maker[i].message]
           q == ShutDown(queue[i])
<1>9. /\ queue[i] \in BoundedQueues /\ queue[i].held \in Seq(Nat) /\ queue[i].state \in States
      /\ queue[i].permits \in Nat /\ queue[i].open \in BOOLEAN
      /\ maker[i] \in MakerRecords /\ maker[i].message \in Nat
      /\ maker[i].at \in {"acquire", "send", "drain", "leave", "ended"}
  BY MakerIsRecord DEF BoundedQueues, MakerRecords
<1>0. /\ queue \in [Makers -> BoundedQueues]
      /\ maker \in [Makers -> [at : {"acquire", "send", "drain", "leave", "ended"}, message : Nat]]
  BY LineariserFacts
<1>1. maker' = [maker EXCEPT ![i] = m]
  BY MakerGoes DEF maker_leave
<1>2. queue' = [queue EXCEPT ![i] = q]
  BY DEF maker_leave
<1>3. /\ q \in BoundedQueues /\ q.held = queue[i].held /\ q.state = "stopped"
      /\ m \in MakerRecords /\ m.at = "ended" /\ m.message = maker[i].message
  BY <1>9, QueueIsRecord DEF MakerRecords
<1> HIDE DEF q
<1>4. queue'[i] = q /\ maker'[i] = m
  BY <1>0, <1>1, <1>2
<1>5. ASSUME Working, consumer[output] = "pulling" PROVE MakerInv(i)'
  <2>1. MakerInv(i)
    BY <1>5, MakerIsRecord
  <2>2. maker[i].at = "drain" /\ queue[i].held = <<>>
    BY <2>1, <1>9 DEF MakerInv, maker_leave, States
  <2>3. /\ queue'[i].state = "stopped" /\ maker'[i].at = "ended" /\ queue'[i].held = <<>>
        /\ maker'[i].message = maker[i].message
    BY <2>2, <1>3, <1>4
  <2> QED BY <2>1, <2>2, <2>3 DEF MakerInv
<1> HIDE DEF m
<1> QED BY <1>1, <1>2, <1>3, <1>5, MakerMoves

LEMMA MakerSteps == ASSUME LineariserInv, NEW i \in Makers, maker_step(i) PROVE LineariserInv'
<1>1. UNCHANGED <<draining, rb, container, received, consumer, producer>>
  BY DEF maker_step, channelVars, leafVars
<1> QED BY <1>1, MakerAcquires, MakerSends, MakerLeaves DEF maker_step

DrainRecords ==
    [at : {"receive", "insert", "produce", "receipt", "finish", "drained", "ended"},
     queues : Seq(Makers), pos : Nat \ {0}, got : Seq(Nat)]

\* What holds while drain() works for a consumer that stays.
InTurn ==
    /\ \A i \in Makers : MakerInv(i)
    /\ AllTaken \/ \E b \in Nat : Round(b)
    /\ Taken <= NMessages
    /\ draining.at \in {"insert", "produce"} => draining.got = <<Taken>>

\* A step of drain().
LEMMA DrainMoves ==
  ASSUME LineariserInv, UNCHANGED <<received, consumer, producer, maker>>,
         rb' \in [Channels -> RingBuffers], queue' \in [Makers -> BoundedQueues], draining' \in DrainRecords,
         draining'.at \in {"insert", "produce", "receipt"} => draining'.pos <= Len(draining'.queues),
         OutputIs(output, LineariserState, LineariserSent)',
         Working' /\ consumer[output] = "pulling" => InTurn'
  PROVE  LineariserInv'
<1>1. LineariserTypes'
  BY DEF LineariserInv, LineariserTypes, ChannelTypes, DrainRecords
<1>2. \A o \in Outputs \ {output} : Idle(o)'
  BY DEF LineariserInv, Idle
<1> QED BY <1>1, <1>2 DEF LineariserInv, InTurn

LEMMA DrainFacts ==
  ASSUME LineariserInv
  PROVE  /\ draining \in DrainRecords /\ draining.queues \in Seq(Makers)
         /\ draining.pos \in Nat /\ draining.pos # 0 /\ draining.got \in Seq(Nat)
         /\ Len(draining.queues) \in Nat
         /\ \A p \in 1 .. Len(draining.queues) : draining.queues[p] \in Makers
         /\ Working /\ consumer[output] = "pulling" => InTurn
         /\ OutputIs(output, LineariserState, LineariserSent)
<1>1. draining \in DrainRecords
  BY DEF LineariserInv, LineariserTypes, DrainRecords
<1>2. /\ draining.queues \in Seq(Makers) /\ draining.pos \in Nat /\ draining.pos # 0 /\ draining.got \in Seq(Nat)
  BY <1>1 DEF DrainRecords
<1>3. Len(draining.queues) \in Nat /\ \A p \in 1 .. Len(draining.queues) : draining.queues[p] \in Makers
  BY <1>2
<1> QED BY <1>1, <1>2, <1>3 DEF LineariserInv, InTurn

\* What drain() knows while no queue has ended.
LEMMA RoundFacts ==
  ASSUME LineariserInv, NEW b \in Nat, Round(b)
  PROVE  /\ Len(draining.queues) = NMakers /\ draining.queues # <<>>
         /\ \A p \in 1 .. NMakers : draining.queues[p] = p
<1>1. NMakers \in Nat \ {0} /\ Makers = 1 .. NMakers /\ draining.queues = [i \in Makers |-> i]
  BY LineariserFacts DEF Round
<1>2. DOMAIN draining.queues = 1 .. NMakers
  BY <1>1
<1>3. Len(draining.queues) \in Nat /\ DOMAIN draining.queues = 1 .. Len(draining.queues)
  BY DrainFacts
<1>4. Len(draining.queues) = NMakers
  BY <1>1, <1>2, <1>3
<1>5. \A p \in 1 .. NMakers : draining.queues[p] = p
  BY <1>1
<1>6. draining.queues # <<>>
  <2>1. ASSUME draining.queues = <<>> PROVE FALSE
    <3>1. Len(<<>>) = 0
      OBVIOUS
    <3>2. Len(draining.queues) = 0
      BY <2>1, <3>1, Zenon
    <3> QED BY <3>2, <1>1, <1>4
  <2> QED BY <2>1
<1> QED BY <1>4, <1>5, <1>6

\* drain() has seen that all its queues have ended.
LEMMA TurnsEnd ==
  ASSUME LineariserInv, take_turn, draining.queues = <<>>, UNCHANGED maker
  PROVE  LineariserInv'
<1>1. /\ draining.at = "receive" /\ UNCHANGED <<rb, received, consumer, producer, queue>>
      /\ draining' = [draining EXCEPT !.at = "finish"]
  BY DEF take_turn, channelVars, leafVars
<1>2. /\ draining' \in DrainRecords /\ draining'.at = "finish"
  BY <1>1, DrainFacts DEF DrainRecords
<1>3. Working /\ LineariserState = "running" /\ LineariserSent = Given(output)
  BY <1>1 DEF Working, LineariserState, LineariserSent
<1>4. ~ Working' /\ LineariserState' = "running" /\ LineariserSent' = NMessages
  BY <1>2 DEF Working, LineariserState, LineariserSent
<1>5. consumer[output] = "pulling" => Given(output) = NMessages
  <2> SUFFICES ASSUME consumer[output] = "pulling" PROVE Given(output) = NMessages
    OBVIOUS
  <2>1. AllTaken
    BY <1>3, DrainFacts, RoundFacts DEF InTurn
  <2> QED BY <2>1, <1>1 DEF AllTaken, Taken
<1>6. OutputIs(output, "running", NMessages)
  BY <1>3, <1>5, DrainFacts, NotServed
<1>7. OutputIs(output, LineariserState, LineariserSent)'
  BY <1>1, <1>4, <1>6, OutputStays
<1> QED BY <1>1, <1>2, <1>4, <1>7, DrainMoves, LineariserFacts

\* What stays in a step of drain() within a round that leaves the output alone.
LEMMA TurnKeeps ==
  ASSUME LineariserInv, Working, Working', UNCHANGED <<rb, received, consumer, producer>>
  PROVE  OutputIs(output, LineariserState, LineariserSent)' /\ Given(output)' = Given(output)
<1>1. /\ LineariserState = "running" /\ LineariserSent = Given(output) /\ LineariserState' = "running"
      /\ LineariserSent' = Given(output) /\ Given(output)' = Given(output)
  BY DEF LineariserState, LineariserSent, Given
<1>2. OutputIs(output, "running", Given(output))'
  BY <1>1, DrainFacts, OutputStays
<1> QED BY <1>1, <1>2

\* The next round begins.
LEMMA TurnsRestart ==
  ASSUME LineariserInv, take_turn, draining.queues # <<>>, draining.pos > Len(draining.queues), UNCHANGED maker
  PROVE  LineariserInv'
<1>1. /\ draining.at = "receive" /\ UNCHANGED <<rb, received, consumer, producer, queue>>
      /\ draining' = [draining EXCEPT !.pos = 1]
  BY DEF take_turn, channelVars, leafVars
<1>2. /\ draining' \in DrainRecords /\ draining'.at = "receive" /\ draining'.queues = draining.queues
      /\ draining'.pos = 1
  BY <1>1, DrainFacts, SMTT(30) DEF DrainRecords
<1>3. Working /\ Working'
  BY <1>1, <1>2 DEF Working
<1>4. OutputIs(output, LineariserState, LineariserSent)' /\ Given(output)' = Given(output)
  BY <1>1, <1>3, TurnKeeps
<1>5. Taken' = Taken /\ Taken = Given(output)
  BY <1>1, <1>2, <1>4 DEF Taken
<1>6. ASSUME consumer[output] = "pulling" PROVE InTurn'
  <2>1. InTurn
    BY <1>3, <1>6, DrainFacts
  <2>2. \A i \in Makers : MakerInv(i)'
    BY <2>1, <1>1 DEF InTurn, MakerInv
  <2>3. CASE AllTaken
    BY <2>1, <2>2, <2>3, <1>1, <1>2, <1>5 DEF InTurn, AllTaken
  <2>4. ASSUME NEW b \in Nat, Round(b) PROVE Round(b + NMakers)' /\ b + NMakers \in Nat
    <3>1. /\ NMakers \in Nat \ {0} /\ Makers = 1 .. NMakers /\ draining.pos = NMakers + 1
          /\ draining.pos \in Nat /\ Len(draining.queues) = NMakers
      BY <2>4, LineariserFacts, RoundFacts, DrainFacts DEF Round
    <3>2. ASSUME NEW i \in Makers PROVE Due(i, b + NMakers)' = Due(i, b)
      <4>1. i \in Int /\ i >= 1 /\ i < draining.pos
        BY <3>1
      <4>2. Due(i, b) = b + NMakers + i
        BY <4>1 DEF Due
      <4>3. Due(i, b + NMakers)' = b + NMakers + i
        BY <4>1, <1>2 DEF Due
      <4> QED BY <4>2, <4>3
    <3>3. Taken' = b + NMakers + 1 - 1
      BY <3>1, <2>4, <1>1, <1>5 DEF Round
    <3>4. \A i \in Makers : Chain(queue'[i].held, maker'[i].message, Due(i, b + NMakers)')
      BY <3>2, <2>4, <1>1 DEF Round
    <3> QED BY <3>1, <3>3, <3>4, <2>4, <1>1, <1>2 DEF Round
  <2> QED BY <2>1, <2>2, <2>3, <2>4, <1>2, <1>5 DEF InTurn
<1> QED BY <1>1, <1>2, <1>4, <1>6, DrainMoves, LineariserFacts

\* A queue that has ended is left out: nothing is left in the others either.
LEMMA TurnSkips ==
  ASSUME LineariserInv, draining.at = "receive", draining.pos <= Len(draining.queues),
         queue[Current].state = "stopped", draining' = [draining EXCEPT !.queues = RemoveAt(@, draining.pos)],
         UNCHANGED <<rb, container, received, consumer, producer, queue, maker>>
  PROVE  LineariserInv'
<1>0. /\ draining.pos \in 1 .. Len(draining.queues) /\ Current \in Makers
      /\ RemoveAt(draining.queues, draining.pos) \in Seq(Makers)
  <2>1. draining.pos \in 1 .. Len(draining.queues) /\ draining.queues \in Seq(Makers)
    BY DrainFacts
  <2>2. Current \in Makers
    BY <2>1 DEF Current
  <2>3. RemoveAt(draining.queues, draining.pos) \in Seq(Makers)
    <3>0. PICK q \in Seq(Makers) : q = draining.queues
      BY <2>1
    <3>1. PICK k \in 1 .. Len(q) : q = draining.queues /\ k = draining.pos
      BY <2>1, <3>0
    <3>2. SubSeq(q, 1, k - 1) \in Seq(Makers) /\ SubSeq(q, k + 1, Len(q)) \in Seq(Makers)
      OBVIOUS
    <3> QED BY <3>1, <3>2, ConcatProperties DEF RemoveAt
  <2> QED BY <2>1, <2>2, <2>3
<1>1. /\ draining' \in DrainRecords /\ draining'.at = "receive" /\ draining'.pos = draining.pos
  BY <1>0, DrainFacts DEF DrainRecords
<1>3. Working /\ Working'
  BY <1>1 DEF Working
<1>4. OutputIs(output, LineariserState, LineariserSent)' /\ Given(output)' = Given(output)
  BY <1>3, TurnKeeps
<1>5. Taken' = Taken
  BY <1>1, <1>4 DEF Taken
<1>6. ASSUME consumer[output] = "pulling" PROVE InTurn'
  <2>1. InTurn /\ Taken \in Nat /\ NMessages \in Nat
    BY <1>3, <1>6, DrainFacts, LineariserFacts
  <2>2. \A i \in Makers : MakerInv(i)'
    BY <2>1 DEF InTurn, MakerInv
  <2>3. CASE AllTaken
    BY <2>1, <2>2, <2>3, <1>1, <1>5 DEF InTurn, AllTaken
  <2>4. ASSUME NEW b \in Nat, Round(b) PROVE AllTaken
    <3>1. /\ NMakers \in Nat \ {0} /\ Makers = 1 .. NMakers /\ Current = draining.pos /\ draining.pos \in Makers
          /\ draining.pos \in Nat
      BY <2>4, <1>0, LineariserFacts, RoundFacts, DrainFacts DEF Current
    <3>2. queue[Current].held = <<>> /\ maker[Current].message > NMessages
      BY <2>1, <1>0 DEF InTurn, MakerInv, States
    <3>3. Due(Current, b) = b + draining.pos
      BY <3>1 DEF Due
    <3>4. maker[Current].message = b + draining.pos
      BY <3>1, <3>2, <3>3, <2>4 DEF Round, Chain
    <3>5. b + draining.pos > NMessages /\ Taken = NMessages
      BY <3>1, <3>2, <3>4, <2>1, <2>4 DEF Round, InTurn
    <3>6. ASSUME NEW i \in Makers PROVE queue[i].held = <<>> /\ maker[i].message > NMessages
      <4>1. Due(i, b) \in Nat /\ Due(i, b) > NMessages
        <5>1. i \in Nat /\ i >= 1 /\ i <= NMakers /\ draining.pos <= NMakers
          BY <3>1
        <5>2. CASE i < draining.pos
          BY <5>1, <5>2, <3>1, <3>5, <2>1 DEF Due
        <5>3. CASE ~ (i < draining.pos)
          BY <5>1, <5>3, <3>1, <3>5, <2>1 DEF Due
        <5> QED BY <5>2, <5>3
      <4>2. Chain(queue[i].held, maker[i].message, Due(i, b)) /\ queue[i].held \in Seq(Nat)
        BY <2>4, LineariserFacts DEF Round
      <4> QED BY <4>1, <4>2, ChainEnd
    <3> QED BY <3>5, <3>6 DEF AllTaken
  <2>5. AllTaken'
    BY <2>1, <2>4, <1>1, <1>5 DEF InTurn, AllTaken
  <2> QED BY <2>1, <2>2, <2>5, <1>1, <1>5 DEF InTurn
<1> QED BY <1>1, <1>4, <1>6, DrainMoves, LineariserFacts

\* A message is taken from the queue whose turn it is.
LEMMA TurnTakes ==
  ASSUME LineariserInv, draining.at = "receive", draining.pos <= Len(draining.queues),
         queue[Current].state # "stopped", queue[Current].held # <<>>,
         draining' = [draining EXCEPT !.at = "insert", !.got = <<Head(queue[Current].held)>>],
         queue' = [queue EXCEPT ![Current].held = Tail(@)],
         UNCHANGED <<rb, container, received, consumer, producer, maker>>
  PROVE  LineariserInv'
<1>0. PICK c : c = Current
  OBVIOUS
<1>1. draining.pos \in 1 .. Len(draining.queues) /\ c \in Makers
  BY <1>0, DrainFacts DEF Current
<1>2. /\ queue[c].held \in Seq(Nat) /\ queue[c] \in BoundedQueues /\ queue[c].held # <<>>
      /\ queue[c].state # "stopped"
      /\ queue \in [Makers -> BoundedQueues]
  BY <1>0, <1>1, LineariserFacts
<1>3. Head(queue[c].held) \in Nat /\ Tail(queue[c].held) \in Seq(Nat)
  BY <1>2
<1>4. PICK h \in Nat : h = Head(queue[c].held)
  BY <1>3
<1>5. /\ draining' \in DrainRecords /\ draining'.at = "insert" /\ draining'.pos = draining.pos
      /\ draining'.queues = draining.queues /\ draining'.got = <<h>>
  <2>1. draining' = [draining EXCEPT !.at = "insert", !.got = <<h>>] /\ <<h>> \in Seq(Nat)
    BY <1>0, <1>4
  <2> QED BY <2>1, DrainFacts DEF DrainRecords
<1>6. /\ queue' \in [Makers -> BoundedQueues] /\ queue'[c].held = Tail(queue[c].held)
      /\ queue'[c].state = queue[c].state /\ queue'[c].open = queue[c].open
      /\ \A j \in Makers \ {c} : queue'[j] = queue[j]
  <2> DEFINE q == [held |-> Tail(queue[c].held), state |-> queue[c].state, permits |-> queue[c].permits,
                   open |-> queue[c].open]
  <2>1. [queue[c] EXCEPT !.held = Tail(queue[c].held)] = q
    BY <1>2, QueueIsRecord
  <2>2. q \in BoundedQueues
    BY <1>2, <1>3, QueueIsRecord, QueueFits
  <2>3. q.held = Tail(queue[c].held) /\ q.state = queue[c].state /\ q.open = queue[c].open
    OBVIOUS
  <2>4. queue' = [queue EXCEPT ![c] = q]
    BY <2>1, <1>0
  <2> HIDE DEF q
  <2> QED BY <2>2, <2>3, <2>4, <1>1, <1>2
<1>7. Working /\ Working'
  BY <1>5 DEF Working
<1>8. OutputIs(output, LineariserState, LineariserSent)' /\ Given(output)' = Given(output)
  BY <1>7, TurnKeeps
<1>9. Taken' = Given(output) + 1 /\ Taken = Given(output)
  BY <1>5, <1>8 DEF Taken
<1>10. ASSUME consumer[output] = "pulling" PROVE InTurn'
  <2>1. InTurn
    BY <1>7, <1>10, DrainFacts
  <2>2. \A i \in Makers : MakerInv(i)'
    <3>1. ASSUME NEW i \in Makers PROVE MakerInv(i)'
      <4>1. CASE i = c
        <5>1. MakerInv(c)
          BY <2>1, <1>1 DEF InTurn
        <5> QED BY <4>1, <5>1, <1>2, <1>6 DEF MakerInv
      <4>2. CASE i # c
        BY <4>2, <2>1, <1>6 DEF InTurn, MakerInv
      <4> QED BY <4>1, <4>2
    <3> QED BY <3>1
  <2>3. ~ AllTaken
    BY <1>1, <1>2 DEF AllTaken
  <2>4. PICK b \in Nat : Round(b)
    BY <2>1, <2>3 DEF InTurn
  <2>5. /\ NMakers \in Nat \ {0} /\ Makers = 1 .. NMakers /\ c = draining.pos
        /\ draining.pos \in Nat /\ NMessages \in Nat /\ Len(draining.queues) = NMakers
    BY <2>4, <1>0, <1>1, LineariserFacts, RoundFacts, DrainFacts DEF Current
  <2>6. Chain(queue[c].held, maker[c].message, b + c) /\ maker[c].message \in Nat
    <3>1. Due(c, b) = b + c
      BY <2>5 DEF Due
    <3> QED BY <3>1, <2>4, <1>1, LineariserFacts DEF Round
  <2>7. /\ h = b + c /\ b + c <= NMessages
        /\ Chain(Tail(queue[c].held), maker[c].message, b + c + NMakers)
    BY <2>6, <1>2, <1>4, ChainTail
  <2>8. Taken' = b + c
    BY <2>4, <2>5, <1>9 DEF Round
  <2>9. ASSUME NEW i \in Makers PROVE Chain(queue'[i].held, maker'[i].message, Due(i, b)')
    <3>1. CASE i = c
      <4>1. Due(i, b)' = b + c + NMakers
        BY <3>1, <2>5, <1>5 DEF Due
      <4> QED BY <3>1, <4>1, <2>7, <1>6
    <3>2. CASE i # c
      <4>1. Due(i, b)' = Due(i, b)
        BY <3>2, <2>5, <1>5 DEF Due
      <4> QED BY <3>2, <4>1, <2>4, <1>6 DEF Round
    <3> QED BY <3>1, <3>2
  <2>10. Round(b)'
    BY <2>4, <2>5, <2>8, <2>9, <1>5 DEF Round
  <2> QED BY <2>2, <2>7, <2>8, <2>10, <1>5 DEF InTurn
<1> QED BY <1>1, <1>5, <1>6, <1>8, <1>10, DrainMoves, LineariserFacts

LEMMA TurnsKeep == ASSUME LineariserInv, take_turn, UNCHANGED maker PROVE LineariserInv'
<1>0. draining.at = "receive" /\ UNCHANGED <<rb, container, received, consumer, producer>>
  BY DEF take_turn, channelVars, leafVars
<1>1. CASE draining.queues = <<>>
  BY <1>1, TurnsEnd
<1>2. CASE draining.queues # <<>> /\ draining.pos > Len(draining.queues)
  BY <1>2, TurnsRestart
<1>3. CASE draining.queues # <<>> /\ ~ (draining.pos > Len(draining.queues))
  <2>1. draining.pos <= Len(draining.queues)
    BY <1>3, DrainFacts
  <2>2. CASE /\ queue[Current].state # "stopped" /\ queue[Current].held # <<>>
             /\ draining' = [draining EXCEPT !.at = "insert", !.got = <<Head(queue[Current].held)>>]
             /\ queue' = [queue EXCEPT ![Current].held = Tail(@)]
    BY <2>1, <2>2, <1>0, TurnTakes
  <2>3. CASE /\ queue[Current].state = "stopped" /\ UNCHANGED queue
             /\ draining' = [draining EXCEPT !.queues = RemoveAt(@, draining.pos)]
    BY <2>1, <2>3, <1>0, TurnSkips
  <2> QED BY <2>2, <2>3, <1>3 DEF take_turn
<1> QED BY <1>1, <1>2, <1>3

\* From the insertion into the container to the send.
LEMMA ForwardInserts ==
  ASSUME LineariserInv, draining.at = "insert", draining' = [draining EXCEPT !.at = "produce"],
         UNCHANGED <<rb, received, consumer, producer, queue, maker>>
  PROVE  LineariserInv'
<1>1. /\ draining' \in DrainRecords /\ draining'.at = "produce" /\ draining'.pos = draining.pos
      /\ draining'.queues = draining.queues /\ draining'.got = draining.got
      /\ draining.pos <= Len(draining.queues)
  BY DrainFacts DEF DrainRecords, LineariserInv, LineariserTypes
<1>2. Working /\ Working'
  BY <1>1 DEF Working
<1>3. OutputIs(output, LineariserState, LineariserSent)' /\ Given(output)' = Given(output)
  BY <1>2, TurnKeeps
<1>4. Taken' = Taken
  BY <1>1, <1>3 DEF Taken
<1>5. ASSUME consumer[output] = "pulling" PROVE InTurn'
  <2>1. InTurn
    BY <1>2, <1>5, DrainFacts
  <2>2. \A i \in Makers : MakerInv(i)'
    BY <2>1 DEF InTurn, MakerInv
  <2>3. PICK b \in Nat : Round(b)
    BY <2>1 DEF InTurn, AllTaken
  <2>4. \A i \in Makers : Due(i, b)' = Due(i, b)
    BY <1>1 DEF Due
  <2>5. Round(b)'
    BY <2>3, <2>4, <1>1, <1>4 DEF Round
  <2> QED BY <2>1, <2>2, <2>5, <1>1, <1>4 DEF InTurn
<1> QED BY <1>1, <1>3, <1>5, DrainMoves, LineariserFacts

LEMMA ForwardSends ==
  ASSUME LineariserInv, draining.at = "produce", draining' = [draining EXCEPT !.at = "receipt"],
         send_produce(output, Head(draining.got)),
         UNCHANGED <<received, consumer, producer, queue, maker>>
  PROVE  LineariserInv'
<1>0. PICK n \in Nat : n = Given(output)
  BY LineariserFacts
<1>1. /\ draining' \in DrainRecords /\ draining'.at = "receipt" /\ draining'.pos = draining.pos
      /\ draining'.queues = draining.queues /\ draining.pos <= Len(draining.queues)
  BY DrainFacts DEF DrainRecords, LineariserInv, LineariserTypes
<1>2. /\ Working /\ Working' /\ LineariserState' = "running" /\ LineariserSent' = Given(output)'
      /\ OutputIs(output, "running", n) /\ Taken = n + 1 /\ Taken' = Given(output)'
  BY <1>0, <1>1, DrainFacts DEF Working, LineariserState, LineariserSent, Taken
<1>3. consumer[output] = "pulling"
  <2>1. rb[output].state = "running" /\ consumer[output] \in {"pulling", "closed", "ended"}
    BY LineariserFacts DEF send_produce, CanProduce, ChannelTypes
  <2> QED BY <2>1, <1>2 DEF OutputIs
<1>4. InTurn /\ draining.got = <<n + 1>> /\ Head(draining.got) = n + 1
  BY <1>2, <1>3, DrainFacts DEF InTurn
<1>5. rb' \in [Channels -> RingBuffers] /\ OutputIs(output, "running", n + 1)'
  <2>1. send_produce(output, n + 1) /\ UNCHANGED <<leafVars, producer>>
    BY <1>4 DEF leafVars
  <2> QED BY <2>1, <1>2, LineariserFacts, SendTo
<1>6. Given(output)' = n + 1
  BY <1>3, <1>5 DEF OutputIs
<1>7. OutputIs(output, LineariserState, LineariserSent)'
  BY <1>2, <1>5, <1>6
<1>8. InTurn'
  <2>1. \A i \in Makers : MakerInv(i)'
    BY <1>4 DEF InTurn, MakerInv
  <2>2. PICK b \in Nat : Round(b)
    BY <1>4 DEF InTurn, AllTaken
  <2>3. \A i \in Makers : Due(i, b)' = Due(i, b)
    BY <1>1 DEF Due
  <2>4. Round(b)'
    BY <2>2, <2>3, <1>1, <1>2, <1>6 DEF Round
  <2> QED BY <2>1, <2>4, <1>1, <1>2, <1>4, <1>6 DEF InTurn
<1> QED BY <1>1, <1>5, <1>7, <1>8, DrainMoves, LineariserFacts

\* The receipt: the ticket goes back to the queue, and the next queue has its turn.
LEMMA ForwardReleases ==
  ASSUME LineariserInv, draining.at = "receipt",
         queue' = [queue EXCEPT ![Current].permits = @ + 1],
         draining' = [draining EXCEPT !.at = "receive", !.pos = @ + 1, !.got = <<>>],
         UNCHANGED <<rb, received, consumer, producer, maker>>
  PROVE  LineariserInv'
<1>0. PICK c : c = Current
  OBVIOUS
<1>1. /\ draining.pos <= Len(draining.queues) /\ draining.pos \in Nat
      /\ draining.pos \in 1 .. Len(draining.queues) /\ c \in Makers
  <2>1. draining.pos <= Len(draining.queues)
    BY DEF LineariserInv, LineariserTypes
  <2> QED BY <2>1, <1>0, DrainFacts DEF Current
<1>2. /\ draining' \in DrainRecords /\ draining'.at = "receive" /\ draining'.pos = draining.pos + 1
      /\ draining'.queues = draining.queues
  <2>1. draining.pos + 1 \in Nat \ {0} /\ <<>> \in Seq(Nat)
    BY <1>1
  <2> QED BY <2>1, DrainFacts DEF DrainRecords
<1>3. queue[c] \in BoundedQueues /\ queue \in [Makers -> BoundedQueues]
  BY <1>1, LineariserFacts
<1>4. /\ queue' \in [Makers -> BoundedQueues]
      /\ \A j \in Makers : /\ queue'[j].held = queue[j].held /\ queue'[j].state = queue[j].state
                           /\ queue'[j].open = queue[j].open
  <2> DEFINE q == [held |-> queue[c].held, state |-> queue[c].state, permits |-> queue[c].permits + 1,
                   open |-> queue[c].open]
  <2>1. [queue[c] EXCEPT !.permits = queue[c].permits + 1] = q
    BY <1>3, QueueIsRecord
  <2>2. q \in BoundedQueues
    <3>1. queue[c].permits + 1 \in Nat
      BY <1>3, QueueIsRecord
    <3> QED BY <3>1, <1>3, QueueIsRecord, QueueFits
  <2>3. q.held = queue[c].held /\ q.state = queue[c].state /\ q.open = queue[c].open
    OBVIOUS
  <2>4. queue' = [queue EXCEPT ![c] = q]
    BY <2>1, <1>0
  <2> HIDE DEF q
  <2> QED BY <2>2, <2>3, <2>4, <1>1, <1>3
<1>5. Working /\ Working'
  BY <1>2 DEF Working
<1>6. OutputIs(output, LineariserState, LineariserSent)' /\ Given(output)' = Given(output)
  BY <1>5, TurnKeeps
<1>7. Taken' = Taken
  BY <1>2, <1>6 DEF Taken
<1>8. ASSUME consumer[output] = "pulling" PROVE InTurn'
  <2>1. InTurn
    BY <1>5, <1>8, DrainFacts
  <2>2. \A i \in Makers : MakerInv(i)'
    BY <2>1, <1>4 DEF InTurn, MakerInv
  <2>3. PICK b \in Nat : Round(b)
    BY <2>1 DEF InTurn, AllTaken
  <2>4. NMakers \in Nat \ {0} /\ Makers = 1 .. NMakers /\ Len(draining.queues) = NMakers
    BY <2>3, LineariserFacts, RoundFacts
  <2>5. \A i \in Makers : Due(i, b)' = Due(i, b)
    BY <2>4, <1>1, <1>2 DEF Due
  <2>6. Taken = b + draining.pos
    BY <2>3 DEF Round
  <2>7. Taken' = b + (draining.pos + 1) - 1
    BY <2>6, <1>1, <1>7
  <2>8. Round(b)'
    BY <2>3, <2>4, <2>5, <2>7, <1>1, <1>2, <1>4 DEF Round
  <2> QED BY <2>1, <2>2, <2>8, <1>2, <1>7 DEF InTurn
<1> QED BY <1>2, <1>4, <1>6, <1>8, DrainMoves, LineariserFacts

LEMMA ForwardFails ==
  ASSUME LineariserInv, draining.at = "produce", draining' = [draining EXCEPT !.at = "finish"],
         ProduceFails(output), UNCHANGED <<rb, received, consumer, producer, queue, maker>>
  PROVE  LineariserInv'
<1>1. draining' \in DrainRecords /\ draining'.at = "finish"
  BY DrainFacts DEF DrainRecords
<1>2. /\ ~ Working' /\ OutputIs(output, "running", Given(output))
  BY <1>1, DrainFacts DEF Working, LineariserState, LineariserSent
<1>3. consumer[output] # "pulling"
  BY <1>2, SendFails
<1>4. OutputIs(output, LineariserState', LineariserSent')
  BY <1>2, <1>3, NotServed
<1>5. OutputIs(output, LineariserState, LineariserSent)'
  BY <1>4, OutputStays
<1> QED BY <1>1, <1>2, <1>5, DrainMoves, LineariserFacts

LEMMA ForwardKeeps == ASSUME LineariserInv, forward, UNCHANGED maker PROVE LineariserInv'
<1>0. UNCHANGED <<received, consumer, producer>>
  BY DEF forward, leafVars
<1>1. CASE draining.at = "insert" /\ draining' = [draining EXCEPT !.at = "produce"] /\ UNCHANGED <<rb, queue>>
  BY <1>0, <1>1, ForwardInserts
<1>2. CASE /\ draining.at = "produce" /\ UNCHANGED queue
           /\ send_produce(output, Head(draining.got)) /\ draining' = [draining EXCEPT !.at = "receipt"]
  BY <1>0, <1>2, ForwardSends
<1>3. CASE /\ draining.at = "produce" /\ UNCHANGED queue
           /\ ProduceFails(output) /\ draining' = [draining EXCEPT !.at = "finish"] /\ UNCHANGED rb
  BY <1>0, <1>3, ForwardFails
<1>4. CASE /\ draining.at = "receipt" /\ queue' = [queue EXCEPT ![Current].permits = @ + 1]
           /\ draining' = [draining EXCEPT !.at = "receive", !.pos = @ + 1, !.got = <<>>]
           /\ UNCHANGED rb
  BY <1>0, <1>4, ForwardReleases
<1> QED BY <1>1, <1>2, <1>3, <1>4 DEF forward

LEMMA FinishKeeps == ASSUME LineariserInv, finish, UNCHANGED maker PROVE LineariserInv'
<1>0. UNCHANGED <<received, consumer, producer, leafVars>> /\ producer.of = NMessages
  BY LineariserFacts DEF finish, leafVars
<1>1. CASE draining.at = "finish"
  <2>1. /\ queue' = [i \in Makers |-> IF i \in Range(draining.queues) THEN ShutDown(queue[i]) ELSE queue[i]]
        /\ rb' = Draining({output}) /\ draining' = [draining EXCEPT !.at = "drained"]
    BY <1>1 DEF finish
  <2>2. queue' \in [Makers -> BoundedQueues]
    BY <2>1, LineariserFacts, QueueIsRecord
  <2>3. draining' \in DrainRecords /\ draining'.at = "drained"
    BY <2>1, DrainFacts DEF DrainRecords
  <2>4. OutputIs(output, "running", NMessages) /\ rb' \in [Channels -> RingBuffers]
    BY <2>1, <1>1, DrainFacts, LineariserFacts, RbShutdown DEF LineariserState, LineariserSent, Working
  <2>5. OutputIs(output, "draining", NMessages)'
    BY <2>1, <2>4, <1>0, LineariserFacts, DrainKeeps
  <2>6. ~ Working' /\ LineariserState' = "draining" /\ LineariserSent' = NMessages
    BY <2>3 DEF LineariserState, LineariserSent, Working
  <2>7. OutputIs(output, LineariserState, LineariserSent)'
    BY <2>5, <2>6
  <2> QED BY <2>2, <2>3, <2>4, <2>6, <2>7, <1>0, DrainMoves
<1>2. CASE draining.at = "drained"
  <2>1. /\ drained({output}) /\ rb' = Stopped({output}) /\ draining' = [draining EXCEPT !.at = "ended"]
        /\ UNCHANGED queue
    BY <1>2 DEF finish
  <2>2. draining' \in DrainRecords /\ draining'.at = "ended" /\ queue' \in [Makers -> BoundedQueues]
    BY <2>1, DrainFacts, LineariserFacts DEF DrainRecords
  <2>3. OutputIs(output, "draining", NMessages) /\ rb' \in [Channels -> RingBuffers]
    BY <2>1, <1>2, DrainFacts, LineariserFacts, RbShutdown DEF LineariserState, LineariserSent, Working
  <2>4. consumer[output] = "pulling" => rb[output].held = <<>>
    BY <2>1, <2>3 DEF drained, CanStop, OutputIs
  <2>5. OutputIs(output, "stopped", NMessages)'
    BY <2>1, <2>3, <2>4, <1>0, LineariserFacts, StopKeeps
  <2>6. ~ Working' /\ LineariserState' = "stopped" /\ LineariserSent' = NMessages
    BY <2>2 DEF LineariserState, LineariserSent, Working
  <2>7. OutputIs(output, LineariserState, LineariserSent)'
    BY <2>5, <2>6
  <2> QED BY <2>2, <2>3, <2>6, <2>7, <1>0, DrainMoves
<1> QED BY <1>1, <1>2 DEF finish

LEMMA LineariserLeaves ==
  ASSUME LineariserInv, pull_from_channel(output) \/ close_channel(output), UNCHANGED <<queue, maker, draining>>
  PROVE  LineariserInv'
<1>0. PICK n \in Nat : n = Given(output)
  BY LineariserFacts
<1>1. ChannelTypes /\ output \in Outputs /\ InSequence(output) /\ NMessages \in Nat /\ producer.of = NMessages
  BY LineariserFacts, DrainFacts DEF OutputIs
<1>2. /\ ChannelTypes' /\ producer' = producer
      /\ consumer'[output] = "pulling" => consumer[output] = "pulling"
  BY <1>1, LeafKeeps, Zenon
<1>3. \A state \in States, k \in Nat : OutputIs(output, state, k) => OutputIs(output, state, k)'
  BY <1>1, LeafKeeps, Zenon
<1>4. \A o \in Outputs \ {output} : received'[o] = received[o] /\ consumer'[o] = consumer[o]
  BY <1>1 DEF pull_from_channel, close_channel, ChannelTypes
<1>5. \A o \in Outputs \ {output} : Idle(o)'
  BY <1>4, IdleStays DEF LineariserInv
<1>6. LineariserTypes'
  BY <1>2 DEF LineariserInv, LineariserTypes
<1>7. /\ LineariserState' = LineariserState /\ LineariserState \in States /\ Working' = Working
  BY DEF LineariserState, Working, States
<1>8. CASE Working
  <2>1. OutputIs(output, LineariserState, n)'
    BY <1>0, <1>3, <1>7, <1>8, DrainFacts DEF LineariserSent
  <2>2. consumer'[output] = "pulling" => Given(output)' = n
    BY <2>1 DEF OutputIs
  <2>3. OutputIs(output, LineariserState, LineariserSent)'
    <3>1. CASE consumer'[output] = "pulling"
      <4>1. LineariserSent' = n
        BY <3>1, <2>2, <1>7, <1>8 DEF LineariserSent
      <4> QED BY <4>1, <2>1
    <3>2. CASE consumer'[output] # "pulling"
      BY <3>2, <2>1 DEF OutputIs
    <3> QED BY <3>1, <3>2
  <2>4. ASSUME consumer'[output] = "pulling" PROVE InTurn'
    <3>1. InTurn
      BY <2>4, <1>2, <1>8, DrainFacts
    <3>2. Taken' = Taken
      BY <2>2, <2>4, <1>0 DEF Taken
    <3>3. \A i \in Makers : MakerInv(i)'
      BY <3>1 DEF InTurn, MakerInv
    <3>4. AllTaken => AllTaken'
      BY <3>2 DEF AllTaken
    <3>5. \A b \in Nat : Round(b) => Round(b)'
      BY <3>2 DEF Round, Due
    <3> QED BY <3>1, <3>2, <3>3, <3>4, <3>5 DEF InTurn
  <2> QED BY <2>3, <2>4, <1>5, <1>6 DEF LineariserInv, InTurn
<1>9. CASE ~ Working
  <2>1. LineariserSent' = LineariserSent /\ LineariserSent \in Nat
    BY <1>1, <1>7, <1>9 DEF LineariserSent
  <2>2. OutputIs(output, LineariserState, LineariserSent)'
    BY <2>1, <1>3, <1>7, DrainFacts
  <2> QED BY <2>2, <1>5, <1>6, <1>7, <1>9 DEF LineariserInv
<1> QED BY <1>8, <1>9

LEMMA LineariserIsFaithful == ASSUME LineariserInv PROVE InOrderAndComplete
<1>1. ASSUME NEW o \in Outputs
      PROVE  /\ received[o] = [i \in 1 .. Len(received[o]) |-> i]
             /\ consumer[o] = "ended" => Len(received[o]) = producer.of
  <2>1. CASE o = output
    BY <2>1, LineariserFacts, DrainFacts DEF OutputIs, InSequence, ChannelTypes
  <2>2. CASE o # output
    BY <2>2 DEF LineariserInv, Idle
  <2> QED BY <2>1, <2>2
<1> QED BY <1>1 DEF InOrderAndComplete

-----------------------------------------------------------------------------
(* All the networks. *)

\* The consumers of an output in sequence get the beginning of the stream, or all of it.
LEMMA SequenceIsFaithful ==
  ASSUME ChannelTypes, \A o \in Outputs : \E s, n : OutputIs(o, s, n)
  PROVE  InOrderAndComplete
<1>1. ASSUME NEW o \in Outputs
      PROVE  /\ received[o] = [i \in 1 .. Len(received[o]) |-> i]
             /\ consumer[o] = "ended" => Len(received[o]) = producer.of
  <2>1. PICK s, n : OutputIs(o, s, n)
    OBVIOUS
  <2>2. received[o] \in Seq(Messages) /\ \A i \in 1 .. Len(received[o]) : received[o][i] = i
    BY <2>1 DEF ChannelTypes, OutputIs, InSequence
  <2> QED BY <2>1, <2>2 DEF OutputIs
<1> QED BY <1>1 DEF InOrderAndComplete

LEMMA CollectiveStays == ASSUME CollectiveInv, UNCHANGED streamingVars PROVE CollectiveInv'
<1>1. /\ UNCHANGED <<rb, container, received, consumer, producer>>
      /\ UNCHANGED <<kind, actor, inserted, function, event, context>>
  BY StreamingStays DEF collectiveVars
<1>2. CollectiveTypes'
  BY <1>1 DEF CollectiveInv, CollectiveTypes, ChannelTypes
<1>3. OutputIs(ch_out, ActorState, ActorSent)'
  BY <1>1 DEF CollectiveInv, OutputIs, InSequence, Given, ActorState, ActorSent
<1>4. \A o \in Outputs \ {ch_out} : Idle(o)'
  BY <1>1 DEF CollectiveInv, Idle
<1>5. actor'.at \in {"schedule", "receive"} => InputIs(Len(inserted))'
  BY <1>1 DEF CollectiveInv, InputIs
<1> QED BY <1>1, <1>2, <1>3, <1>4, <1>5 DEF CollectiveInv

LEMMA LineariserStays == ASSUME LineariserInv, UNCHANGED streamingVars PROVE LineariserInv'
<1>1. UNCHANGED <<rb, container, received, consumer, producer, queue, maker, draining>>
  BY StreamingStays DEF lineariserVars
<1>2. /\ LineariserState' = LineariserState /\ LineariserSent' = LineariserSent /\ Taken' = Taken
      /\ Working' = Working /\ \A j, b : Due(j, b)' = Due(j, b)
  BY <1>1 DEF LineariserState, LineariserSent, Taken, Working, Given, Due
<1>3. OutputIs(output, LineariserState, LineariserSent)'
  BY <1>1, <1>2, DrainFacts, OutputStays
<1>4. InTurn => InTurn'
  BY <1>1, <1>2 DEF InTurn, MakerInv, AllTaken, Round
<1>5. /\ queue' \in [Makers -> BoundedQueues] /\ draining' \in DrainRecords /\ rb' \in [Channels -> RingBuffers]
      /\ draining'.at \in {"insert", "produce", "receipt"} => draining'.pos <= Len(draining'.queues)
  BY <1>1, DrainFacts, LineariserFacts DEF LineariserInv, LineariserTypes
<1> QED BY <1>1, <1>2, <1>3, <1>4, <1>5, DrainFacts, DrainMoves

LEMMA ThrottleStays == ASSUME ThrottleInv, UNCHANGED streamingVars PROVE ThrottleInv'
<1>1. UNCHANGED <<rb, received, consumer, producer, semaphore, throttled>>
  BY StreamingStays DEF throttleVars
<1>2. Past' = Past /\ Arrived' = Arrived /\ InHand' = InHand
  BY <1>1 DEF Past, Arrived, InHand
<1> QED BY <1>1, <1>2 DEF ThrottleInv, ChannelTypes

Networks == {"bounded", "unbounded", "linearise", "throttle", "collective"}
StreamsInv ==
    /\ FanoutInv
    /\ network = "collective" => CollectiveInv
    /\ network = "linearise" => LineariserInv
    /\ network = "throttle" => ThrottleInv
    /\ network \notin Networks => \A o \in Outputs : Idle(o)

LEMMA StreamsBegin == ASSUME Init PROVE StreamsInv
<1>1. /\ ChannelInit /\ FanoutInit /\ LineariserInit /\ ThrottleInit /\ CollectiveInit
      /\ network # "unbounded" => producer.of = NMessages
  BY DEF Init
<1>2. \A o \in Outputs : Idle(o)
  BY <1>1 DEF ChannelInit, Idle
<1> QED BY <1>1, <1>2, FanoutBegins, CollectiveBegins, LineariserBegins, ThrottleBegins DEF StreamsInv

LEMMA StreamsStepKeeps == ASSUME StreamsInv, [Next]_networkVars PROVE StreamsInv'
<1>1. network' = network /\ FanoutInv'
  BY NetworkSteps, FanoutStepKeeps DEF StreamsInv
<1>2. CASE UNCHANGED streamingVars
  <2>1. UNCHANGED <<received, consumer>>
    BY <1>2, StreamingStays
  <2>2. network \notin Networks => \A o \in Outputs : Idle(o)'
    BY <2>1 DEF StreamsInv, Idle
  <2>3. network = "collective" => CollectiveInv'
    BY <1>2, CollectiveStays DEF StreamsInv
  <2>4. network = "linearise" => LineariserInv'
    BY <1>2, LineariserStays DEF StreamsInv
  <2>5. network = "throttle" => ThrottleInv'
    BY <1>2, ThrottleStays DEF StreamsInv
  <2> QED BY <2>2, <2>3, <2>4, <2>5, <1>1 DEF StreamsInv
<1>3. CASE /\ \/ \E o \in Consumers : pull_from_channel(o) \/ close_channel(o)
              \/ network \in {"bounded", "unbounded", "collective"} /\ push_to_channel
           /\ UNCHANGED <<fanoutVars, lineariserVars, throttleVars, collectiveVars>>
  <2>1. /\ UNCHANGED <<queue, maker, draining, semaphore, throttled, collectiveVars>>
    BY <1>3 DEF lineariserVars, throttleVars
  <2>2. network \in Networks
    BY <1>3 DEF Consumers, Networks
  <2>3. ASSUME network = "collective" PROVE CollectiveInv'
    <3>1. push_to_channel \/ pull_from_channel(ch_out) \/ close_channel(ch_out)
      BY <1>3, <2>3 DEF Consumers
    <3> QED BY <3>1, <2>1, <2>3, CollectiveLeaves DEF StreamsInv
  <2>4. ASSUME network = "linearise" PROVE LineariserInv'
    <3>1. pull_from_channel(output) \/ close_channel(output)
      BY <1>3, <2>4 DEF Consumers
    <3> QED BY <3>1, <2>1, <2>4, LineariserLeaves DEF StreamsInv
  <2>5. ASSUME network = "throttle" PROVE ThrottleInv'
    <3>1. pull_from_channel(throttled_ch) \/ close_channel(throttled_ch)
      BY <1>3, <2>5 DEF Consumers
    <3> QED BY <3>1, <2>1, <2>5, ThrottleLeaves DEF StreamsInv
  <2> QED BY <2>2, <2>3, <2>4, <2>5, <1>1 DEF StreamsInv
<1>4. CASE Actors
  <2>1. CASE network \in {"bounded", "unbounded"}
    BY <2>1, <1>1 DEF StreamsInv, Networks
  <2>2. CASE network = "linearise"
    <3>1. lineariser_drain \/ \E i \in Makers : maker_step(i)
      BY <1>4, <2>2 DEF Actors
    <3>2. LineariserInv'
      BY <3>1, <2>2, MakerSteps, TurnsKeep, ForwardKeeps, FinishKeeps DEF StreamsInv, lineariser_drain
    <3> QED BY <3>2, <2>2, <1>1 DEF StreamsInv, Networks
  <2>3. CASE network = "throttle"
    <3>1. throttle_end \/ \E t \in Throttled : throttled_task(t)
      BY <1>4, <2>3 DEF Actors
    <3>2. ThrottleInv'
      BY <3>1, <2>3, ThrottleEnds, TaskAcquires, TaskHasTicket DEF StreamsInv, throttled_task
    <3> QED BY <3>2, <2>3, <1>1 DEF StreamsInv, Networks
  <2>4. CASE network = "collective"
    <3>1. CollectiveNext
      BY <1>4, <2>4 DEF Actors
    <3>2. CollectiveInv'
      BY <3>1, <2>4, CollectiveStepKeeps DEF StreamsInv
    <3> QED BY <3>2, <2>4, <1>1 DEF StreamsInv, Networks
  <2> QED BY <2>1, <2>2, <2>3, <2>4, <1>4 DEF Actors
<1> QED BY <1>2, <1>3, <1>4, NetworkSteps

LEMMA StreamsInvIsFaithful == ASSUME StreamsInv PROVE StreamsAreFaithful
<1>1. CASE network = "bounded"
  <2>1. InOrderAndComplete
    BY <1>1, SequenceIsFaithful DEF StreamsInv, FanoutInv, BoundedInv, BoundedTypes
  <2> QED BY <2>1, <1>1 DEF StreamsAreFaithful
<1>2. CASE network = "unbounded"
  <2>1. InOrderAndComplete
    BY <1>2, SequenceIsFaithful DEF StreamsInv, FanoutInv, UnboundedInv, SenderInv
  <2> QED BY <2>1, <1>2 DEF StreamsAreFaithful
<1>3. CASE network = "linearise"
  BY <1>3, LineariserIsFaithful DEF StreamsInv, StreamsAreFaithful
<1>4. CASE network = "throttle"
  BY <1>4, ThrottleIsFaithful DEF StreamsInv, StreamsAreFaithful
<1>5. CASE network = "collective"
  BY <1>5, CollectiveIsFaithful DEF StreamsInv, StreamsAreFaithful
<1>6. CASE network \notin Networks
  <2>1. InOrderAndComplete
    <3>1. \A o \in Outputs : received[o] = <<>> /\ consumer[o] # "ended"
      BY <1>6 DEF StreamsInv, Idle
    <3>2. <<>> = [i \in 1 .. Len(<<>>) |-> i]
      OBVIOUS
    <3> QED BY <3>1, <3>2 DEF InOrderAndComplete
  <2> QED BY <2>1, <1>6 DEF StreamsAreFaithful, Networks
<1> QED BY <1>1, <1>2, <1>3, <1>4, <1>5, <1>6 DEF Networks

\* With any outputs, messages, producers, queue sizes, tasks and tickets, and consumers that leave
\* when they like: through the fanouts, the lineariser and the collectives the consumers that stay
\* get the stream in order and all of it, throttled tasks send every message once, and a collective
\* goes away only after its progress function.
THEOREM StreamsHold == Spec => []StreamsAreFaithful
<1>1. StreamsInv /\ [Next]_networkVars => StreamsInv'
  BY StreamsStepKeeps
<1>2. StreamsInv => StreamsAreFaithful
  BY StreamsInvIsFaithful
<1>3. Init => StreamsInv
  BY StreamsBegin
<1> QED BY <1>1, <1>2, <1>3, PTL DEF Spec
=============================================================================
