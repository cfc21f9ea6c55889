---------------------------- MODULE ShufflerProofs ----------------------------
(***************************************************************************)
(* The shuffler, for any number of ranks, partitions and chunks and any    *)
(* partition owner: termination markers come last, a shutdown after wait() *)
(* is drained, every rank's finish counter is used as FinishCounter says,  *)
(* and wait() returns only when the shuffle is complete.                   *)
(***************************************************************************)
EXTENDS Shuffler, ProofLemmas

UserPlaces ==
    {"insert", "insert_tally", "finish", "finish_tally", "wait", "extract", "remove", "end"}
Tallying == {"insert_tally", "finish_tally"}
Later == {"wait", "extract", "remove", "end"}
ProgressPlaces == {"send", "submit", "communicate", "insert", "tally", "idle", "wake", "Done"}

Counters == [reported : SUBSET Rank, n_ranks_with_goalpost : Nat, total_chunk_goal : Nat,
             total_finished_chunks : Nat]

UserTypes ==
    /\ upc \in [Rank -> UserPlaces]
    /\ cur \in [Rank -> Chunk \cup {NoChunk}]
    /\ fin \in [Rank -> 0 .. NRanks]
    /\ cid \in [Rank -> Nat]
    /\ outbound \in [Rank -> [Rank -> Nat]]
    /\ to_send \in [Rank -> Seq(Chunk)]

ProgressTypes ==
    /\ ppc \in [Rank -> ProgressPlaces]
    /\ ready \in [Rank -> Seq(Chunk)]
    /\ inbox \in [Rank -> [Rank -> Seq(Chunk)]]
    /\ pcur \in [Rank -> Chunk \cup {NoChunk}]
    /\ wire \in [Rank -> [Rank -> Seq(Chunk \cup {Term})]]
    /\ terminated \in [Rank -> SUBSET Rank]

FlagTypes ==
    /\ locally_finished \in [Rank -> BOOLEAN]
    /\ active \in [Rank -> BOOLEAN]
    /\ can_extract \in [Rank -> BOOLEAN]
    /\ mpe_finish_called \in [Rank -> BOOLEAN]
    /\ containers_empty \in [Rank -> BOOLEAN]

DataTypes ==
    /\ received \in [Rank -> SUBSET Chunk]
    /\ extracted \in [Rank -> SUBSET Chunk]
    /\ fc \in [Rank -> Counters]
    /\ fault \in [Rank -> BOOLEAN]

-----------------------------------------------------------------------------
(* The parts of the inductive invariant.                                   *)

\* The user thread: what it has counted and numbered at each place of its program.
UserAt(r) ==
    /\ upc[r] \in {"insert", "insert_tally"} =>
          /\ fin[r] = 0 /\ cid[r] <= MaxInserts
          /\ \A d \in Rank : outbound[r][d] <= cid[r]
    /\ cid[r] <= MaxInserts + fin[r]
    /\ upc[r] \in Later => fin[r] = NRanks /\ cur[r] = NoChunk
    /\ upc[r] \in Tallying => cur[r] # NoChunk /\ owner(cur[r]) = r

UserInv == \A r \in Rank : UserAt(r)

\* What the progress function has in hand at each place of an iteration.
LoopAt(r) ==
    /\ ready[r] # <<>> <=> ppc[r] = "submit"
    /\ pcur[r] # NoChunk <=> ppc[r] = "tally"
    /\ ppc[r] \notin {"insert", "tally"} => \A s \in Rank : inbox[r][s] = <<>>
    /\ containers_empty[r] => ppc[r] = "wake"

LoopInv == \A r \in Rank : LoopAt(r)

\* The markers: sent once, after everything else.
MarkerLast(q) == \A i \in 1 .. Len(q) - 1 : q[i] # Term

FinishAt(s) ==
    /\ locally_finished[s] <=> upc[s] \in Later
    /\ mpe_finish_called[s] =>
          locally_finished[s] /\ to_send[s] = <<>> /\ ready[s] = <<>>
    /\ wire[s][s] = <<>> /\ inbox[s][s] = <<>>

LaneAt(s, d) ==
    /\ MarkerLast(wire[s][d])
    /\ Term \in Range(wire[s][d]) => mpe_finish_called[s]
    /\ s \in terminated[d] => mpe_finish_called[s] /\ wire[s][d] = <<>>

MarkerInv == \A s \in Rank : FinishAt(s) /\ \A d \in Rank : LaneAt(s, d)

\* What an iteration that ends with an inactive shuffler has seen.
ShutdownAt(r) ==
    /\ can_extract[r] => locally_finished[r]
    /\ ~ active[r] <=> upc[r] \in {"remove", "end"}
    /\ upc[r] = "extract" => can_extract[r]
    /\ WaitFirst /\ upc[r] \in {"remove", "end"} => can_extract[r]
    /\ can_extract[r] /\ ppc[r] \in {"idle", "wake"} =>
          mpe_finish_called[r] \/ to_send[r] # <<>>
    /\ can_extract[r] /\ containers_empty[r] => mpe_finish_called[r]
    /\ containers_empty[r] /\ mpe_finish_called[r] => terminated[r] = Rank \ {r}
    /\ WaitFirst /\ ppc[r] = "Done" =>
          mpe_finish_called[r] /\ terminated[r] = Rank \ {r}

ShutdownInv == \A r \in Rank : ShutdownAt(r)

\* A chunk of rank s: its number is one of those s has counted for the destination.
Numbered(s, c) ==
    /\ c \in Chunk /\ extract_rank(c.cid) = s
    /\ IF is_control_message(c)
       THEN /\ c.expected = outbound[s][owner(c)] + 1 /\ c.nth = c.expected
            /\ fin[s] > owner(c)
       ELSE c.nth \in 1 .. outbound[s][owner(c)]

\* Every chunk is of the rank that sent it and on its way to the owner of its partition.
HomeChunks(s) ==
    /\ cur[s] # NoChunk => Numbered(s, cur[s])
    /\ \A c \in Range(to_send[s]) \cup Range(ready[s]) : Numbered(s, c) /\ owner(c) # s

OnLane(s, d) == (Range(wire[s][d]) \ {Term}) \cup Range(inbox[d][s])
LaneChunks(s, d) == \A c \in OnLane(s, d) : Numbered(s, c) /\ owner(c) = d

HeldChunk(d) ==
    pcur[d] # NoChunk => owner(pcur[d]) = d /\ \E s \in Rank \ {d} : Numbered(s, pcur[d])

ChunksInv ==
    /\ \A s \in Rank : HomeChunks(s) /\ HeldChunk(s)
    /\ \A s, d \in Rank : LaneChunks(s, d)

\* A chunk is in one place at a time, and a number is used once.
HomePlaces(s) ==
    /\ IsInjective(to_send[s]) /\ IsInjective(ready[s])
    /\ Range(to_send[s]) \cap Range(ready[s]) = {}
    /\ cur[s] # NoChunk => cur[s] \notin Range(to_send[s]) \cup Range(ready[s])

LanePlaces(s, d) ==
    /\ IsInjective(wire[s][d]) /\ IsInjective(inbox[d][s])
    /\ Range(wire[s][d]) \cap Range(inbox[d][s]) = {}
    /\ OnLane(s, d) \cap Unsent(s) = {}
    /\ \A b, c \in InFlight(s, d) : b.nth = c.nth => b = c

PlacesInv ==
    /\ \A s \in Rank : HomePlaces(s)
    /\ \A s, d \in Rank : LanePlaces(s, d)

\* The chunks of a destination by source and number: those counted, those on their
\* way or half inserted.
Announced(d) == IF local_partitions(d) = {} THEN {} ELSE {s \in Rank : fin[s] > d}
Count(s, d) == outbound[s][d] + (IF s \in Announced(d) THEN 1 ELSE 0)
Slots(d) == UNION {{s} \X (1 .. Count(s, d)) : s \in Rank}
Key(c) == <<extract_rank(c.cid), c.nth>>
Keys(A) == {Key(c) : c \in A}

\* The totals of a finish counter are those of its chunks.
CounterAt(d) ==
    /\ IsFiniteSet(Slots(d))
    /\ Keys(Inbound(d)) \cap Keys(Held(d)) = {}
    /\ \A s \in Rank : s \in fc[d].reported <=>
          s \in Announced(d) /\ <<s, Count(s, d)>> \notin Keys(Inbound(d))
    /\ fc[d].n_ranks_with_goalpost = Cardinality(fc[d].reported)
    /\ fc[d].total_chunk_goal = Cardinality({k \in Slots(d) : k[1] \in fc[d].reported})
    /\ fc[d].total_finished_chunks
          = Cardinality(Slots(d) \ (Keys(Inbound(d)) \cup Keys(Held(d))))
    /\ ~ fault[d]

\* What is received or extracted is what was counted and is not on its way.
Collected(d) == received[d] \cup extracted[d]

StoreAt(d) ==
    /\ received[d] \cap extracted[d] = {}
    /\ \A b, c \in Collected(d) : Key(b) = Key(c) => b = c
    /\ Keys(Collected(d)) = Counted(d) \ Keys(Inbound(d))

\* What wait() has been told stays true.
CompleteAt(r) ==
    can_extract[r] =>
        /\ local_partitions(r) # {} => \A s \in Rank : fin[s] > r
        /\ Inbound(r) = {} /\ Held(r) = {}

CountingInv == \A d \in Rank : CounterAt(d) /\ StoreAt(d) /\ CompleteAt(d)

IInv ==
    /\ UserTypes /\ ProgressTypes /\ FlagTypes /\ DataTypes
    /\ UserInv /\ LoopInv /\ MarkerInv /\ ShutdownInv
    /\ ChunksInv /\ PlacesInv

-----------------------------------------------------------------------------
(* Ranks, partitions and chunk IDs. *)

\* The ranks are finitely many numbers.
LEMMA Ranks ==
  /\ NRanks \in Nat /\ NRanks > 0 /\ Rank \subseteq Nat
  /\ \A r \in Rank : r \in Nat /\ r < NRanks
  /\ \A r \in Nat : r < NRanks => r \in Rank
  /\ IsFiniteSet(Rank) /\ Cardinality(Rank) = NRanks
<1>1. NRanks \in Nat /\ NRanks > 0
  BY RanksAssumption
<1>2. IsFiniteSet(0 .. NRanks - 1) /\ Cardinality(0 .. NRanks - 1) = NRanks
  BY <1>1, FS_Interval
<1> QED
  BY <1>1, <1>2 DEF Rank

\* A rank's representative partition is one of its partitions.
LEMMA Representative ==
  ASSUME NEW d, local_partitions(d) # {}
  PROVE  representative_pid(d) \in Part /\ partition_owner(representative_pid(d)) = d
<1>1. /\ local_partitions(d) \in SUBSET Nat
      /\ NParts - 1 \in Nat /\ \A p \in local_partitions(d) : p <= NParts - 1
  BY PartsAssumption DEF local_partitions, Part
<1>2. representative_pid(d) \in local_partitions(d)
  BY <1>1, MaxIsGreatest DEF representative_pid
<1> QED
  BY <1>2 DEF local_partitions

\* A new chunk ID is a number, and its rank can be read from it.
LEMMA NewChunkID ==
  ASSUME NEW r \in Rank, cid[r] \in Nat, cid[r] < MaxInserts + NRanks
  PROVE  new_cid(r) \in Nat /\ extract_rank(new_cid(r)) = r
<1> DEFINE B == 2^chunk_id_counter_bits
<1>1. B \in Nat /\ cid[r] + 1 \in Nat /\ cid[r] + 1 < B /\ r \in Nat
  BY BitsAssumption, Ranks, InsertsAssumption
<1>2. new_cid(r) = r * B + (cid[r] + 1)
  <2>1. r * B \in Nat
    BY <1>1
  <2> QED
    BY <1>1, <2>1 DEF new_cid
<1> HIDE DEF B
<1>3. r * B + (cid[r] + 1) \in Nat /\ (r * B + (cid[r] + 1)) \div B = r
  BY <1>1, QuotientOfDigits
<1> QED
  BY <1>2, <1>3 DEF extract_rank, B

\* The rank in a chunk ID is a number.
LEMMA ExtractRankType == ASSUME NEW id \in Nat PROVE extract_rank(id) \in Nat
<1>1. 2^chunk_id_counter_bits \in Nat /\ 2^chunk_id_counter_bits > 0
  BY BitsAssumption, Ranks, InsertsAssumption
<1>2. \A a, b \in Nat : b > 0 => a \div b \in Nat
  OBVIOUS
<1> QED
  BY <1>1, <1>2 DEF extract_rank

\* The markers are no chunks, and the owner of a chunk is a rank.
LEMMA Chunks ==
  /\ NoChunk \notin Chunk /\ Term \notin Chunk
  /\ \A c \in Chunk : owner(c) \in Rank /\ c.pid \in Part
  /\ \A c \in Chunk : owner(c) = partition_owner(c.pid)
<1>1. \A c \in Chunk : c.cid \in Nat /\ c.pid \in Part
  BY DEF Chunk
<1>2. NoChunk.cid = -1 /\ Term.cid = -2
  BY DEF NoChunk, Term
<1> QED
  BY <1>1, <1>2, OwnerAssumption DEF owner

-----------------------------------------------------------------------------
(* What the actions of the user thread do with the chunk in hand.          *)

\* Rank r makes the next data chunk for rank d.
MakesData(r, d, c) ==
    /\ c.cid \in Nat /\ extract_rank(c.cid) = r /\ owner(c) = d
    /\ c.expected = 0 /\ c.nth = outbound[r][d] + 1
    /\ upc[r] = "insert" /\ cur[r] = NoChunk /\ cid[r] < MaxInserts
    /\ cid' = [cid EXCEPT ![r] = @ + 1]
    /\ outbound' = [outbound EXCEPT ![r][d] = @ + 1]
    /\ cur' = [cur EXCEPT ![r] = c]
    /\ UNCHANGED <<upc, fin, progressVars, mpeVars, locally_finished, active,
                   can_extract, to_send, received, extracted, fc, fault>>

\* insert() makes a data chunk, the next for its destination.
LEMMA insertEffect ==
  ASSUME IInv, NEW r \in Rank, NEW p \in Part, insert(r, p)
  PROVE  \E d \in Rank, c \in Chunk : MakesData(r, d, c)
<1> DEFINE d == partition_owner(p)
           c == [cid |-> new_cid(r), pid |-> p, expected |-> 0, nth |-> outbound[r][d] + 1]
<1>t. UserTypes
  BY DEF IInv
<1>1. new_cid(r) \in Nat /\ extract_rank(new_cid(r)) = r
  <2>1. cid[r] \in Nat /\ cid[r] < MaxInserts + NRanks
    BY <1>t, InsertsAssumption, RanksAssumption DEF insert, UserTypes
  <2> QED
    BY <2>1, NewChunkID
<1>2. d \in Rank
  BY OwnerAssumption
<1>3. c \in Chunk
  <2>1. outbound[r][d] + 1 \in Nat
    BY <1>t, <1>2 DEF UserTypes
  <2> QED
    BY <1>1, <2>1 DEF Chunk
<1>4. extract_rank(c.cid) = r /\ owner(c) = d
  BY <1>1 DEF owner
<1> QED
  BY <1>1, <1>2, <1>3, <1>4 DEF insert, MakesData

\* Rank r passes rank fin[r], which owns no partitions.
Passes(r) ==
    /\ upc[r] = "finish" /\ cur[r] = NoChunk /\ local_partitions(fin[r]) = {}
    /\ fin[r] \in Rank /\ fin[r] + 1 \in 0 .. NRanks /\ fin' = [fin EXCEPT ![r] = @ + 1]
    /\ UNCHANGED <<upc, cur, cid, outbound, progressVars, mpeVars, locally_finished, active,
                   can_extract, to_send, received, extracted, fc, fault>>

\* Rank r makes the control message for rank fin[r].
MakesControl(r, c) ==
    /\ upc[r] = "finish" /\ cur[r] = NoChunk /\ local_partitions(fin[r]) # {}
    /\ fin[r] \in Rank /\ fin[r] + 1 \in 0 .. NRanks /\ fin' = [fin EXCEPT ![r] = @ + 1]
    /\ extract_rank(c.cid) = r /\ owner(c) = fin[r]
    /\ c.expected = outbound[r][fin[r]] + 1 /\ c.nth = outbound[r][fin[r]] + 1
    /\ cid' = [cid EXCEPT ![r] = @ + 1]
    /\ cur' = [cur EXCEPT ![r] = c]
    /\ UNCHANGED <<upc, outbound, progressVars, mpeVars, locally_finished, active,
                   can_extract, to_send, received, extracted, fc, fault>>

\* insert_finished() makes the control message of a destination that owns partitions,
\* which announces the chunks counted for it and itself.
LEMMA insert_finishedEffect ==
  ASSUME IInv, NEW r \in Rank, insert_finished(r)
  PROVE  Passes(r) \/ \E c \in Chunk : MakesControl(r, c)
<1> DEFINE d == fin[r]
           c == [cid |-> new_cid(r), pid |-> representative_pid(d),
                 expected |-> outbound[r][d] + 1, nth |-> outbound[r][d] + 1]
<1>t. UserTypes
  BY DEF IInv
<1>1. d \in Rank /\ d + 1 \in 0 .. NRanks
  <2>1. d \in Nat /\ d < NRanks /\ NRanks \in Nat
    BY <1>t, RanksAssumption DEF insert_finished, UserTypes
  <2> QED
    BY <2>1, Ranks
<1>2. ASSUME local_partitions(d) # {}
      PROVE  /\ c \in Chunk /\ extract_rank(c.cid) = r /\ owner(c) = d
             /\ cid' = [cid EXCEPT ![r] = @ + 1]
             /\ cur' = [cur EXCEPT ![r] = c]
  <2>1. cid[r] \in Nat /\ cid[r] < MaxInserts + NRanks
    <3>1. /\ cid[r] \in Nat /\ d \in Nat /\ d < NRanks
          /\ MaxInserts \in Nat /\ NRanks \in Nat /\ cid[r] <= MaxInserts + d
      BY <1>t, <1>1, Ranks, InsertsAssumption DEF UserTypes, UserInv, UserAt, IInv
    <3> QED
      BY <3>1
  <2>2. new_cid(r) \in Nat /\ extract_rank(new_cid(r)) = r
    BY <2>1, NewChunkID
  <2>3. representative_pid(d) \in Part /\ partition_owner(representative_pid(d)) = d
    BY <1>2, Representative
  <2>4. outbound[r][d] + 1 \in Nat
    BY <1>t, <1>1 DEF UserTypes
  <2>5. c \in Chunk
    BY <2>2, <2>3, <2>4 DEF Chunk
  <2>6. extract_rank(c.cid) = r /\ owner(c) = d
    BY <2>2, <2>3 DEF owner
  <2>7. cid' = [cid EXCEPT ![r] = @ + 1] /\ cur' = [cur EXCEPT ![r] = c]
    BY <1>2 DEF insert_finished
  <2> QED
    BY <2>5, <2>6, <2>7
<1>3. c.expected = outbound[r][d] + 1 /\ c.nth = outbound[r][d] + 1
  OBVIOUS
<1> HIDE DEF c
<1> QED
  BY <1>1, <1>2, <1>3 DEF insert_finished, Passes, MakesControl

-----------------------------------------------------------------------------
(* What the progress function takes from the wire.                         *)

\* Messages q on the wire are cut in those taken, without the marker, and the others.
Cut(q, taken, rest) ==
    /\ taken \in Seq(Chunk) /\ rest \in Seq(Chunk \cup {Term})
    /\ IsInjective(taken) /\ IsInjective(rest)
    /\ Range(rest) \subseteq Range(q)
    /\ Range(taken) = Range(q) \ (Range(rest) \cup {Term})
    /\ MarkerLast(rest)

\* Taking the first n of them cuts them; the marker is taken after everything else.
LEMMA TakeFirst ==
  ASSUME NEW q \in Seq(Chunk \cup {Term}), NEW n \in 0 .. Len(q), IsInjective(q), MarkerLast(q)
  PROVE  LET first == SubSeq(q, 1, n)
             rest == SubSeq(q, n + 1, Len(q))
         IN  /\ Cut(q, RemoveFirst(first, Term), rest)
             /\ Term \in Range(first) => Term \in Range(q) /\ rest = <<>>
<1> DEFINE first == SubSeq(q, 1, n)
           rest == SubSeq(q, n + 1, Len(q))
<1>1. /\ first \in Seq(Chunk \cup {Term}) /\ Len(first) = n /\ \A i \in 1 .. n : first[i] = q[i]
      /\ rest \in Seq(Chunk \cup {Term}) /\ Len(rest) = Len(q) - n
      /\ \A i \in 1 .. Len(q) - n : rest[i] = q[n + i]
      /\ Range(first) \cup Range(rest) = Range(q)
      /\ IsInjective(first) /\ IsInjective(rest) /\ Range(first) \cap Range(rest) = {}
  BY SplitProperties
<1>2. Len(q) \in Nat /\ n \in Nat /\ n <= Len(q)
  OBVIOUS
<1> HIDE DEF first, rest
<1>3. MarkerLast(first) /\ MarkerLast(rest)
  <2>1. \A i \in 1 .. n - 1 : first[i] # Term
    BY <1>1, <1>2 DEF MarkerLast
  <2>2. ASSUME NEW i \in 1 .. Len(q) - n - 1 PROVE rest[i] # Term
    <3>1. i \in 1 .. Len(q) - n /\ n + i \in 1 .. Len(q) - 1
      BY <1>2
    <3> QED
      BY <1>1, <3>1 DEF MarkerLast
  <2> QED
    BY <1>1, <2>1, <2>2 DEF MarkerLast
<1>4. /\ RemoveFirst(first, Term) \in Seq(Chunk)
      /\ Range(RemoveFirst(first, Term)) = Range(first) \ {Term}
      /\ IsInjective(RemoveFirst(first, Term))
  BY <1>1, <1>3, Chunks, DropMarker DEF MarkerLast
<1>5. ASSUME Term \in Range(first) PROVE rest = <<>>
  <2>1. PICK i \in 1 .. n : q[i] = Term
    <3>1. DOMAIN first = 1 .. n
      BY <1>1
    <3> QED
      BY <1>1, <1>5, <3>1 DEF Range
  <2>2. i = n /\ n = Len(q)
    BY <1>2, <2>1 DEF MarkerLast
  <2> QED
    BY <1>1, <1>2, <2>2
<1> QED
  BY <1>1, <1>3, <1>4, <1>5 DEF Cut, first, rest

\* The progress function of rank r takes messages of every peer.
Receives(r) ==
    /\ ppc[r] = "communicate" /\ ppc' = [ppc EXCEPT ![r] = "insert"]
    /\ inbox' \in [Rank -> [Rank -> Seq(Chunk)]]
    /\ wire' \in [Rank -> [Rank -> Seq(Chunk \cup {Term})]]
    /\ terminated' \in [Rank -> SUBSET Rank]
    /\ \A d \in Rank \ {r} :
          /\ inbox'[d] = inbox[d] /\ terminated'[d] = terminated[d]
          /\ \A s \in Rank : wire'[s][d] = wire[s][d]
    /\ \A s \in Rank :
          /\ Cut(wire[s][r], inbox'[r][s], wire'[s][r])
          /\ s \in terminated[r] => s \in terminated'[r]
          /\ s \in terminated'[r] \ terminated[r] =>
                Term \in Range(wire[s][r]) /\ wire'[s][r] = <<>>
    /\ UNCHANGED <<userVars, ready, pcur, mpe_finish_called, containers_empty, locally_finished,
                   active, can_extract, to_send, received, extracted, fc, fault>>

\* That is what communicate does.
LEMMA communicateEffect ==
  ASSUME IInv, NEW r \in Rank, NEW n, \A s \in Rank : n[s] \in 0 .. Len(wire[s][r]),
         NEW sent, communicate(r, n, sent)
  PROVE  Receives(r)
<1> DEFINE First(s) == SubSeq(wire[s][r], 1, n[s])
           Rest(s) == SubSeq(wire[s][r], n[s] + 1, Len(wire[s][r]))
<1>1. /\ wire \in [Rank -> [Rank -> Seq(Chunk \cup {Term})]]
      /\ inbox \in [Rank -> [Rank -> Seq(Chunk)]]
      /\ terminated \in [Rank -> SUBSET Rank]
      /\ ppc \in [Rank -> ProgressPlaces]
  BY DEF IInv, ProgressTypes
<1>2. ASSUME NEW s \in Rank
      PROVE  /\ Cut(wire[s][r], RemoveFirst(First(s), Term), Rest(s))
             /\ Term \in Range(First(s)) => Term \in Range(wire[s][r]) /\ Rest(s) = <<>>
  <2>1. wire[s][r] \in Seq(Chunk \cup {Term}) /\ IsInjective(wire[s][r])
    BY <1>1 DEF IInv, PlacesInv, LanePlaces
  <2>2. MarkerLast(wire[s][r])
    BY DEF IInv, MarkerInv, LaneAt
  <2> QED
    BY <2>1, <2>2, TakeFirst
<1>3. /\ inbox' = [inbox EXCEPT ![r] = [s \in Rank |-> RemoveFirst(First(s), Term)]]
      /\ terminated' = [terminated EXCEPT ![r] = @ \cup {s \in Rank : Term \in Range(First(s))}]
      /\ wire' = [s \in Rank |-> [wire[s] EXCEPT ![r] = Rest(s)]]
  BY DEF communicate
<1>4. /\ ppc[r] = "communicate" /\ ppc' = [ppc EXCEPT ![r] = "insert"]
      /\ UNCHANGED <<userVars, ready, pcur, mpe_finish_called, containers_empty,
                     locally_finished, active, can_extract, to_send, received, extracted,
                     fc, fault>>
  BY DEF communicate, Goto
<1> HIDE DEF First, Rest
<1>5. \A s \in Rank : RemoveFirst(First(s), Term) \in Seq(Chunk)
                      /\ Rest(s) \in Seq(Chunk \cup {Term})
  BY <1>2 DEF Cut
<1>6. /\ inbox' \in [Rank -> [Rank -> Seq(Chunk)]]
      /\ \A s \in Rank : inbox'[r][s] = RemoveFirst(First(s), Term)
      /\ \A d \in Rank \ {r} : inbox'[d] = inbox[d]
  BY <1>1, <1>3, <1>5
<1>7. /\ wire' \in [Rank -> [Rank -> Seq(Chunk \cup {Term})]]
      /\ \A s \in Rank : wire'[s][r] = Rest(s)
      /\ \A d \in Rank \ {r} : \A s \in Rank : wire'[s][d] = wire[s][d]
  BY <1>1, <1>3, <1>5
<1>8. /\ terminated' \in [Rank -> SUBSET Rank]
      /\ terminated'[r] = terminated[r] \cup {s \in Rank : Term \in Range(First(s))}
      /\ \A d \in Rank \ {r} : terminated'[d] = terminated[d]
  BY <1>1, <1>3
<1> QED
  BY <1>2, <1>4, <1>6, <1>7, <1>8 DEF Receives

-----------------------------------------------------------------------------
(* What the other actions that move chunks do.                             *)

\* The user thread of rank r queues its chunk.
Queues(r) ==
    /\ upc[r] \in {"insert", "finish"} /\ cur[r] \in Chunk /\ owner(cur[r]) # r
    /\ to_send' = [to_send EXCEPT ![r] = Append(@, cur[r])]
    /\ cur' = [cur EXCEPT ![r] = NoChunk]
    /\ UNCHANGED <<upc, fin, cid, outbound, progressVars, mpeVars, locally_finished,
                   active, can_extract, received, extracted, fc, fault>>

\* The user thread of rank r receives its chunk, which is for its own rank.
ReceivesOwn(r) ==
    /\ upc[r] \in {"insert", "finish"} /\ cur[r] \in Chunk /\ owner(cur[r]) = r
    /\ upc' = [upc EXCEPT ![r] = IF @ = "insert" THEN "insert_tally" ELSE "finish_tally"]
    /\ insert_into_received(r, cur[r])
    /\ UNCHANGED <<cur, fin, cid, outbound, progressVars, mpeVars, locally_finished,
                   active, can_extract, to_send, extracted>>

\* insert(Chunk) does one or the other.
LEMMA insert_chunkEffect ==
  ASSUME IInv, NEW r \in Rank, insert_chunk(r) PROVE Queues(r) \/ ReceivesOwn(r)
<1>1. cur[r] \in Chunk
  BY DEF IInv, UserTypes, insert_chunk
<1>2. CASE owner(cur[r]) = r
  BY <1>1, <1>2 DEF insert_chunk, ReceivesOwn
<1>3. CASE owner(cur[r]) # r
  BY <1>1, <1>3 DEF insert_chunk, Queues
<1> QED
  BY <1>2, <1>3

\* The progress function of rank r takes chunks a from the queue and leaves b.
TakesReady(r, a, b) ==
    /\ ppc[r] = "send" /\ ppc' = [ppc EXCEPT ![r] = IF a = <<>> THEN "communicate" ELSE "submit"]
    /\ ready' = [ready EXCEPT ![r] = a]
    /\ to_send' = [to_send EXCEPT ![r] = b]
    /\ IsInjective(a) /\ IsInjective(b)
    /\ Range(a) \cup Range(b) = Range(to_send[r]) /\ Range(a) \cap Range(b) = {}
    /\ UNCHANGED <<userVars, mpeVars, inbox, pcur, mpe_finish_called, containers_empty,
                   locally_finished, active, can_extract, received, extracted, fc, fault>>

\* extract_ready() does that.
LEMMA extract_readyEffect ==
  ASSUME IInv, NEW r \in Rank, NEW k \in 0 .. Len(to_send[r]), extract_ready(r, k)
  PROVE  \E a, b \in Seq(Chunk) : TakesReady(r, a, b)
<1> DEFINE q == to_send[r]
           a == SubSeq(q, 1, k)
           b == SubSeq(q, k + 1, Len(q))
<1>1. q \in Seq(Chunk) /\ IsInjective(q)
  BY DEF IInv, UserTypes, PlacesInv, HomePlaces
<1>2. /\ a \in Seq(Chunk) /\ b \in Seq(Chunk) /\ Len(a) = k
      /\ IsInjective(a) /\ IsInjective(b)
      /\ Range(a) \cup Range(b) = Range(q) /\ Range(a) \cap Range(b) = {}
  BY <1>1, SplitProperties
<1>3. k = 0 <=> a = <<>>
  <2> HIDE DEF a
  <2> QED
    BY <1>2
<1>4. /\ ppc[r] = "send" /\ ppc' = [ppc EXCEPT ![r] = IF k = 0 THEN "communicate" ELSE "submit"]
      /\ ready' = [ready EXCEPT ![r] = a]
      /\ to_send' = [to_send EXCEPT ![r] = b]
      /\ UNCHANGED <<userVars, mpeVars, inbox, pcur, mpe_finish_called, containers_empty,
                     locally_finished, active, can_extract, received, extracted, fc, fault>>
  BY DEF extract_ready, Goto
<1> HIDE DEF a, b, q
<1>5. TakesReady(r, a, b)
  BY <1>2, <1>3, <1>4 DEF TakesReady, q
<1> QED
  BY <1>2, <1>5

\* The progress function of rank r sends chunk c to its owner, and keeps b.
Sends(r, c, b) ==
    /\ ppc[r] = "submit" /\ c \in Range(ready[r]) /\ owner(c) # r
    /\ ppc' = [ppc EXCEPT ![r] = IF b = <<>> THEN "communicate" ELSE "submit"]
    /\ ready' = [ready EXCEPT ![r] = b]
    /\ IsInjective(b) /\ Range(b) = Range(ready[r]) \ {c}
    /\ wire' = [wire EXCEPT ![r][owner(c)] = Append(@, c)]
    /\ UNCHANGED <<userVars, inbox, pcur, mpe_finish_called, containers_empty, terminated,
                   locally_finished, active, can_extract, to_send, received, extracted,
                   fc, fault>>

\* submit_outgoing does that, and never sends a chunk to its own rank.
LEMMA submit_outgoingEffect ==
  ASSUME IInv, NEW r \in Rank, submit_outgoing(r)
  PROVE  \E c \in Chunk, b \in Seq(Chunk) : Sends(r, c, b)
<1> DEFINE q == ready[r]
           c == Head(q)
           b == Tail(q)
<1>1. q \in Seq(Chunk) /\ IsInjective(q) /\ q # <<>>
  BY DEF IInv, ProgressTypes, PlacesInv, HomePlaces, LoopInv, LoopAt, submit_outgoing
<1>2. /\ c \in Chunk /\ b \in Seq(Chunk) /\ IsInjective(b) /\ Range(b) = Range(q) \ {c}
      /\ c \in Range(q)
  BY <1>1, RangeOfTail, InjectiveTail
<1>3. Len(q) = 1 <=> b = <<>>
  <2>1. Len(b) = Len(q) - 1 /\ Len(q) \in Nat
    BY <1>1
  <2>2. b \in Seq(Chunk)
    BY <1>2
  <2>3. b = <<>> <=> Len(b) = 0
    BY <2>2, EmptySeq
  <2> HIDE DEF b, q
  <2> QED
    BY <2>1, <2>3
<1>4. owner(c) # r
  BY <1>2 DEF IInv, ChunksInv, HomeChunks
<1>5. /\ wire' = [wire EXCEPT ![r][owner(c)] = Append(@, c)]
      /\ fault' = [fault EXCEPT ![r] = @ \/ owner(c) = r]
      /\ ready' = [ready EXCEPT ![r] = b]
      /\ ppc[r] = "submit"
      /\ ppc' = [ppc EXCEPT ![r] = IF Len(q) = 1 THEN "communicate" ELSE "submit"]
      /\ UNCHANGED <<userVars, inbox, pcur, mpe_finish_called, containers_empty, terminated,
                     locally_finished, active, can_extract, to_send, received, extracted, fc>>
  BY DEF submit_outgoing, Goto
<1>6. fault' = fault
  BY <1>4, <1>5 DEF IInv, DataTypes
<1> HIDE DEF b, c, q
<1>7. Sends(r, c, b)
  BY <1>2, <1>3, <1>4, <1>5, <1>6 DEF Sends, q
<1> QED
  BY <1>2, <1>7

\* The progress function of rank r receives chunk c of rank s, and keeps b.
ReceivesFrom(r, s, c, b) ==
    /\ ppc[r] = "insert" /\ ppc' = [ppc EXCEPT ![r] = "tally"]
    /\ c \in Range(inbox[r][s]) /\ owner(c) = r
    /\ inbox' = [inbox EXCEPT ![r][s] = b]
    /\ IsInjective(b) /\ Range(b) = Range(inbox[r][s]) \ {c}
    /\ pcur' = [pcur EXCEPT ![r] = c]
    /\ insert_into_received(r, c)
    /\ UNCHANGED <<userVars, mpeVars, ready, mpe_finish_called, containers_empty,
                   locally_finished, active, can_extract, to_send, extracted>>

\* insert_received does that, and never meets a chunk of another rank's partition.
LEMMA insert_receivedEffect ==
  ASSUME IInv, NEW r \in Rank, NEW s \in Rank, insert_received(r, s)
  PROVE  \E c \in Chunk, b \in Seq(Chunk) : ReceivesFrom(r, s, c, b)
<1> DEFINE q == inbox[r][s]
           c == Head(q)
           b == Tail(q)
<1>1. q \in Seq(Chunk) /\ IsInjective(q) /\ q # <<>>
  BY DEF IInv, ProgressTypes, PlacesInv, LanePlaces, insert_received
<1>2. /\ c \in Chunk /\ b \in Seq(Chunk) /\ IsInjective(b) /\ Range(b) = Range(q) \ {c}
      /\ c \in Range(q)
  BY <1>1, RangeOfTail, InjectiveTail
<1>3. owner(c) = r
  BY <1>2 DEF IInv, ChunksInv, LaneChunks, OnLane
<1>4. /\ ppc[r] = "insert" /\ ppc' = [ppc EXCEPT ![r] = "tally"]
      /\ inbox' = [inbox EXCEPT ![r][s] = b]
      /\ pcur' = [pcur EXCEPT ![r] = c]
      /\ insert_into_received(r, c)
      /\ UNCHANGED <<userVars, mpeVars, ready, mpe_finish_called, containers_empty,
                     locally_finished, active, can_extract, to_send, extracted>>
  BY <1>3 DEF insert_received, Goto
<1> HIDE DEF b, c, q
<1>5. ReceivesFrom(r, s, c, b)
  BY <1>2, <1>3, <1>4 DEF ReceivesFrom, q
<1> QED
  BY <1>2, <1>5

\* The steps of the user thread.
LEMMA userCases ==
  ASSUME IInv, NEW r \in Rank, user(r)
  PROVE  \/ \E d \in Rank, c \in Chunk : MakesData(r, d, c)
         \/ Passes(r) \/ \E c \in Chunk : MakesControl(r, c)
         \/ Queues(r) \/ ReceivesOwn(r) \/ insert_chunk_tally(r)
         \/ begin_insert_finished(r) \/ end_insert_finished(r) \/ wait(r)
         \/ \E p \in Part : extract(r, p)
         \/ shutdown(r) \/ remove_function(r)
<1>1. ASSUME NEW p \in Part, insert(r, p) PROVE \E d \in Rank, c \in Chunk : MakesData(r, d, c)
  BY <1>1, insertEffect
<1>2. insert_finished(r) => Passes(r) \/ \E c \in Chunk : MakesControl(r, c)
  BY insert_finishedEffect
<1>3. insert_chunk(r) => Queues(r) \/ ReceivesOwn(r)
  BY insert_chunkEffect
<1> QED
  BY <1>1, <1>2, <1>3, Zenon DEF user

\* The steps of the progress function.
LEMMA progressCases ==
  ASSUME IInv, NEW r \in Rank, progress(r)
  PROVE  \/ \E a, b \in Seq(Chunk) : TakesReady(r, a, b)
         \/ \E c \in Chunk, b \in Seq(Chunk) : Sends(r, c, b)
         \/ Receives(r)
         \/ \E s \in Rank, c \in Chunk, b \in Seq(Chunk) : ReceivesFrom(r, s, c, b)
         \/ insert_received_tally(r) \/ finish_mpe(r) \/ check_containers(r) \/ wake_waiters(r)
<1>1. ASSUME NEW k \in 0 .. Len(to_send[r]), extract_ready(r, k)
      PROVE  \E a, b \in Seq(Chunk) : TakesReady(r, a, b)
  BY <1>1, extract_readyEffect
<1>2. submit_outgoing(r) => \E c \in Chunk, b \in Seq(Chunk) : Sends(r, c, b)
  BY submit_outgoingEffect
<1>3. ASSUME NEW n \in [Rank -> 0 .. Max({AllOnWire(r)[s] : s \in Rank})], NEW sent \in BOOLEAN,
             \A s \in Rank : n[s] <= AllOnWire(r)[s], communicate(r, n, sent)
      PROVE  Receives(r)
  <2>1. ASSUME NEW s \in Rank PROVE n[s] \in 0 .. Len(wire[s][r])
    <3>1. n[s] \in 0 .. Max({AllOnWire(r)[x] : x \in Rank})
      BY <1>3
    <3>2. Len(wire[s][r]) \in Nat /\ n[s] <= Len(wire[s][r])
      BY <1>3 DEF AllOnWire, IInv, ProgressTypes
    <3> HIDE DEF Max
    <3> QED
      BY <3>1, <3>2
  <2> QED
    BY <1>3, <2>1, communicateEffect
<1>4. ASSUME NEW s \in Rank, insert_received(r, s)
      PROVE  \E c \in Chunk, b \in Seq(Chunk) : ReceivesFrom(r, s, c, b)
  BY <1>4, insert_receivedEffect
<1> QED
  BY <1>1, <1>2, <1>3, <1>4, Zenon DEF progress

-----------------------------------------------------------------------------
(* Type correctness. *)

\* The user thread's state keeps its type.
LEMMA UserTypesStep == ASSUME IInv, [Next]_vars PROVE UserTypes'
<1>0. CASE UNCHANGED vars
  BY <1>0 DEF vars, userVars, UserTypes, IInv
<1> SUFFICES ASSUME NEW r \in Rank, user(r) \/ progress(r) PROVE UserTypes'
  BY <1>0 DEF Next, Terminated
<1> USE DEF UserTypes
<1>t. UserTypes
  BY DEF IInv
<1>1. ASSUME NEW d \in Rank, NEW c \in Chunk, MakesData(r, d, c) PROVE UserTypes'
  BY <1>t, <1>1, SMTT(40) DEF MakesData
<1>2. CASE Passes(r)
  BY <1>t, <1>2 DEF Passes
<1>3. ASSUME NEW c \in Chunk, MakesControl(r, c) PROVE UserTypes'
  BY <1>t, <1>3 DEF MakesControl
<1>4. CASE Queues(r)
  BY <1>t, <1>4 DEF Queues
<1>5. CASE ReceivesOwn(r)
  BY <1>t, <1>5 DEF ReceivesOwn, UserPlaces
<1>6. CASE insert_chunk_tally(r)
  BY <1>t, <1>6 DEF insert_chunk_tally, UserPlaces
<1>7. CASE \/ begin_insert_finished(r) \/ end_insert_finished(r) \/ wait(r)
           \/ shutdown(r) \/ remove_function(r)
  BY <1>t, <1>7 DEF begin_insert_finished, end_insert_finished, wait, shutdown,
              remove_function, UserPlaces
<1>8. ASSUME NEW p \in Part, extract(r, p) PROVE UserTypes'
  BY <1>t, <1>8 DEF extract, userVars
<1>9. ASSUME NEW a \in Seq(Chunk), NEW b \in Seq(Chunk), TakesReady(r, a, b) PROVE UserTypes'
  BY <1>t, <1>9 DEF TakesReady, userVars
<1>10. ASSUME NEW c \in Chunk, NEW b \in Seq(Chunk), Sends(r, c, b) PROVE UserTypes'
  BY <1>t, <1>10 DEF Sends, userVars
<1>11. CASE Receives(r)
  BY <1>t, <1>11 DEF Receives, userVars
<1>12. ASSUME NEW s \in Rank, NEW c \in Chunk, NEW b \in Seq(Chunk), ReceivesFrom(r, s, c, b)
       PROVE  UserTypes'
  BY <1>t, <1>12 DEF ReceivesFrom, userVars
<1>13. CASE insert_received_tally(r) \/ finish_mpe(r) \/ check_containers(r) \/ wake_waiters(r)
  BY <1>t, <1>13 DEF insert_received_tally, finish_mpe, check_containers, wake_waiters, userVars
<1> QED
  BY <1>1, <1>2, <1>3, <1>4, <1>5, <1>6, <1>7, <1>8, <1>9, <1>10, <1>11, <1>12, <1>13,
     userCases, progressCases

\* The progress function's state and the wire keep their type.
LEMMA ProgressTypesStep == ASSUME IInv, [Next]_vars PROVE ProgressTypes'
<1>0. CASE UNCHANGED vars
  BY <1>0 DEF vars, userVars, progressVars, mpeVars, IInv, ProgressTypes
<1> SUFFICES ASSUME NEW r \in Rank, user(r) \/ progress(r) PROVE ProgressTypes'
  BY <1>0 DEF Next, Terminated
<1> USE DEF ProgressTypes
<1>t. ProgressTypes
  BY DEF IInv
<1>1. ASSUME NEW d \in Rank, NEW c \in Chunk, MakesData(r, d, c) PROVE ProgressTypes'
  BY <1>t, <1>1 DEF MakesData, progressVars, mpeVars, ProgressPlaces, Goto
<1>2. CASE Passes(r)
  BY <1>t, <1>2 DEF Passes, progressVars, mpeVars, ProgressPlaces, Goto
<1>3. ASSUME NEW c \in Chunk, MakesControl(r, c) PROVE ProgressTypes'
  BY <1>t, <1>3 DEF MakesControl, progressVars, mpeVars, ProgressPlaces, Goto
<1>4. CASE Queues(r)
  BY <1>t, <1>4 DEF Queues, progressVars, mpeVars, ProgressPlaces, Goto
<1>5. CASE ReceivesOwn(r)
  BY <1>t, <1>5 DEF ReceivesOwn, progressVars, mpeVars, ProgressPlaces, Goto
<1>6. CASE insert_chunk_tally(r)
  BY <1>t, <1>6 DEF insert_chunk_tally, progressVars, mpeVars, ProgressPlaces, Goto
<1>7. CASE \/ begin_insert_finished(r) \/ end_insert_finished(r) \/ wait(r)
           \/ shutdown(r) \/ remove_function(r)
  BY <1>t, <1>7 DEF begin_insert_finished, end_insert_finished, wait, shutdown, remove_function,
                    progressVars, mpeVars, ProgressPlaces, Goto
<1>8. ASSUME NEW p \in Part, extract(r, p) PROVE ProgressTypes'
  BY <1>t, <1>8 DEF extract, progressVars, mpeVars, ProgressPlaces, Goto
<1>9. ASSUME NEW a \in Seq(Chunk), NEW b \in Seq(Chunk), TakesReady(r, a, b) PROVE ProgressTypes'
  BY <1>t, <1>9 DEF TakesReady, ProgressPlaces, mpeVars
<1>10. ASSUME NEW c \in Chunk, NEW b \in Seq(Chunk), Sends(r, c, b) PROVE ProgressTypes'
  <2>1. owner(c) \in Rank
    BY Chunks
  <2>2. Append(wire[r][owner(c)], c) \in Seq(Chunk \cup {Term})
    BY <1>t, <2>1
  <2> QED
    BY <1>t, <1>10, <2>1, <2>2 DEF Sends, ProgressPlaces
<1>11. CASE Receives(r)
  BY <1>t, <1>11 DEF Receives, ProgressPlaces
<1>12. ASSUME NEW s \in Rank, NEW c \in Chunk, NEW b \in Seq(Chunk),
             ReceivesFrom(r, s, c, b)
      PROVE  ProgressTypes'
  BY <1>t, <1>12 DEF ReceivesFrom, progressVars, mpeVars, ProgressPlaces, Goto
<1>13. CASE \/ insert_received_tally(r) \/ check_containers(r) \/ wake_waiters(r)
  BY <1>t, <1>13 DEF insert_received_tally, check_containers, wake_waiters, progressVars,
                     mpeVars, ProgressPlaces, Goto
<1>14. CASE finish_mpe(r)
  <2>1. ASSUME NEW s \in Rank, NEW d \in Rank
        PROVE  Append(wire[s][d], Term) \in Seq(Chunk \cup {Term})
    <3>1. wire[s][d] \in Seq(Chunk \cup {Term}) /\ Term \in Chunk \cup {Term}
      BY <1>t
    <3> QED
      BY <3>1, AppendProperties
  <2>2. wire' \in [Rank -> [Rank -> Seq(Chunk \cup {Term})]]
    <3> DEFINE w == [d \in Rank |-> IF d = r THEN wire[r][d] ELSE Append(wire[r][d], Term)]
    <3>1. w \in [Rank -> Seq(Chunk \cup {Term})]
      BY <1>t, <2>1
    <3>2. wire' = wire \/ wire' = [wire EXCEPT ![r] = w]
      BY <1>t, <1>14 DEF finish_mpe
    <3> HIDE DEF w
    <3> QED
      BY <1>t, <3>1, <3>2
  <2> QED
    BY <1>t, <1>14, <2>2 DEF finish_mpe, ProgressPlaces, Goto
<1> QED
  BY <1>1, <1>2, <1>3, <1>4, <1>5, <1>6, <1>7, <1>8, <1>9, <1>10, <1>11, <1>12, <1>13, <1>14,
     userCases, progressCases

\* The flags keep their type.
LEMMA FlagTypesStep == ASSUME IInv, [Next]_vars PROVE FlagTypes'
<1>0. CASE UNCHANGED vars
  BY <1>0 DEF vars, userVars, progressVars, mpeVars, IInv, FlagTypes
<1> SUFFICES ASSUME NEW r \in Rank, user(r) \/ progress(r) PROVE FlagTypes'
  BY <1>0 DEF Next, Terminated
<1> USE DEF FlagTypes
<1>t. FlagTypes
  BY DEF IInv
<1>1. ASSUME NEW d \in Rank, NEW c \in Chunk, MakesData(r, d, c) PROVE FlagTypes'
  BY <1>t, <1>1 DEF MakesData, progressVars, mpeVars, Goto
<1>2. CASE Passes(r)
  BY <1>t, <1>2 DEF Passes, progressVars, mpeVars, Goto
<1>3. ASSUME NEW c \in Chunk, MakesControl(r, c) PROVE FlagTypes'
  BY <1>t, <1>3 DEF MakesControl, progressVars, mpeVars, Goto
<1>4. CASE \/ Queues(r) \/ ReceivesOwn(r) \/ insert_chunk_tally(r)
  BY <1>t, <1>4 DEF Queues, ReceivesOwn, insert_chunk_tally, progressVars, mpeVars, Goto
<1>5. CASE \/ begin_insert_finished(r) \/ end_insert_finished(r) \/ wait(r)
           \/ shutdown(r) \/ remove_function(r)
  BY <1>t, <1>5 DEF begin_insert_finished, end_insert_finished, wait, shutdown, remove_function,
                    progressVars, mpeVars, Goto
<1>6. ASSUME NEW p \in Part, extract(r, p) PROVE FlagTypes'
  BY <1>t, <1>6 DEF extract, progressVars, mpeVars, Goto
<1>7. ASSUME NEW a \in Seq(Chunk), NEW b \in Seq(Chunk), TakesReady(r, a, b) PROVE FlagTypes'
  BY <1>t, <1>7 DEF TakesReady, progressVars, mpeVars, Goto
<1>8. ASSUME NEW c \in Chunk, NEW b \in Seq(Chunk), Sends(r, c, b) PROVE FlagTypes'
  BY <1>t, <1>8 DEF Sends, progressVars, mpeVars, Goto
<1>9. CASE Receives(r)
  BY <1>t, <1>9 DEF Receives, progressVars, mpeVars, Goto
<1>10. ASSUME NEW s \in Rank, NEW c \in Chunk, NEW b \in Seq(Chunk),
             ReceivesFrom(r, s, c, b)
      PROVE  FlagTypes'
  BY <1>t, <1>10 DEF ReceivesFrom, progressVars, mpeVars, Goto
<1>11. CASE \/ insert_received_tally(r) \/ finish_mpe(r)
  BY <1>t, <1>11 DEF insert_received_tally, finish_mpe, progressVars, mpeVars, Goto
<1>12. CASE check_containers(r)
  BY <1>t, <1>12 DEF check_containers, progressVars, mpeVars, Goto
<1>13. CASE wake_waiters(r)
  BY <1>t, <1>13 DEF wake_waiters, progressVars, mpeVars, Goto
<1> QED
  BY <1>1, <1>2, <1>3, <1>4, <1>5, <1>6, <1>7, <1>8, <1>9, <1>10, <1>11, <1>12, <1>13,
     userCases, progressCases

\* insert_into_received() keeps the types of what it changes.
LEMMA insert_into_receivedTypes ==
  ASSUME DataTypes, NEW r \in Rank, NEW c \in Chunk, insert_into_received(r, c), UNCHANGED extracted
  PROVE  DataTypes'
<1> USE DEF DataTypes
<1>1. CASE is_control_message(c)
  <2>1. UNCHANGED <<received, extracted>> /\ move_goalpost(r, c)
    BY <1>1 DEF insert_into_received
  <2>2. fault' \in [Rank -> BOOLEAN]
    BY <2>1 DEF move_goalpost
  <2>3. fc' \in [Rank -> Counters]
    <3> DEFINE src == extract_rank(c.cid)
               f == [fc[r] EXCEPT !.reported = @ \cup {src}, !.n_ranks_with_goalpost = @ + 1,
                                  !.total_chunk_goal = @ + c.expected]
    <3>1. fc' = fc \/ (src < nranks(r) /\ fc' = [fc EXCEPT ![r] = f])
      BY <2>1 DEF move_goalpost
    <3>2. src < nranks(r) => src \in Rank
      <4>1. src \in Nat
        BY ExtractRankType DEF Chunk
      <4> QED
        BY <4>1, Ranks DEF nranks
    <3>3. ASSUME src \in Rank PROVE f \in Counters
      <4>1. fc[r] \in Counters /\ c.expected \in Nat
        BY DEF Chunk
      <4> HIDE DEF src
      <4>2. ASSUME NEW g \in Counters, NEW x \in Rank, NEW e \in Nat
            PROVE  [g EXCEPT !.reported = @ \cup {x}, !.n_ranks_with_goalpost = @ + 1,
                             !.total_chunk_goal = @ + e] \in Counters
        <5>1. /\ g.reported \cup {x} \in SUBSET Rank
              /\ g.n_ranks_with_goalpost + 1 \in Nat /\ g.total_chunk_goal + e \in Nat
          BY DEF Counters
        <5> QED
          BY <5>1 DEF Counters
      <4> QED
        BY <3>3, <4>1, <4>2
    <3> HIDE DEF f, src
    <3> QED
      BY <3>1, <3>2, <3>3
  <2> QED
    BY <2>1, <2>2, <2>3
<1>2. CASE ~ is_control_message(c)
  BY <1>2 DEF insert_into_received
<1> QED
  BY <1>1, <1>2

\* add_finished_chunk() keeps the types of what it changes.
LEMMA add_finished_chunkTypes ==
  ASSUME DataTypes, NEW r \in Rank, add_finished_chunk(r), UNCHANGED <<received, extracted>>
  PROVE  DataTypes'
<1> USE DEF DataTypes
<1>1. fault' \in [Rank -> BOOLEAN]
  BY DEF add_finished_chunk
<1>2. fc' \in [Rank -> Counters]
  <2> DEFINE f == [fc[r] EXCEPT !.total_finished_chunks = @ + 1]
  <2>1. fc' = [fc EXCEPT ![r] = f]
    BY DEF add_finished_chunk
  <2>2. f \in Counters
    BY DEF Counters
  <2> HIDE DEF f
  <2> QED
    BY <2>1, <2>2
<1> QED
  BY <1>1, <1>2

\* The chunks received and the finish counters keep their type.
LEMMA DataTypesStep == ASSUME IInv, [Next]_vars PROVE DataTypes'
<1>0. CASE UNCHANGED vars
  BY <1>0 DEF vars, userVars, progressVars, mpeVars, IInv, DataTypes
<1> SUFFICES ASSUME NEW r \in Rank, user(r) \/ progress(r) PROVE DataTypes'
  BY <1>0 DEF Next, Terminated
<1>t. DataTypes
  BY DEF IInv
<1>1. ASSUME NEW d \in Rank, NEW c \in Chunk, MakesData(r, d, c) PROVE DataTypes'
  BY <1>t, <1>1 DEF MakesData, DataTypes
<1>2. CASE Passes(r)
  BY <1>t, <1>2 DEF Passes, DataTypes
<1>3. ASSUME NEW c \in Chunk, MakesControl(r, c) PROVE DataTypes'
  BY <1>t, <1>3 DEF MakesControl, DataTypes
<1>4. CASE Queues(r)
  BY <1>t, <1>4 DEF Queues, DataTypes
<1>5. CASE ReceivesOwn(r)
  <2>1. cur[r] \in Chunk /\ insert_into_received(r, cur[r]) /\ UNCHANGED extracted
    BY <1>5 DEF ReceivesOwn
  <2> QED
    BY <1>t, <2>1, insert_into_receivedTypes
<1>6. CASE \/ insert_chunk_tally(r) \/ insert_received_tally(r)
  <2>1. add_finished_chunk(r) /\ UNCHANGED <<received, extracted>>
    BY <1>6 DEF insert_chunk_tally, insert_received_tally
  <2> QED
    BY <1>t, <2>1, add_finished_chunkTypes
<1>7. CASE \/ begin_insert_finished(r) \/ end_insert_finished(r) \/ wait(r)
           \/ shutdown(r) \/ remove_function(r)
  BY <1>t, <1>7 DEF begin_insert_finished, end_insert_finished, wait, shutdown, remove_function,
                    DataTypes
<1>8. ASSUME NEW p \in Part, extract(r, p) PROVE DataTypes'
  BY <1>t, <1>8 DEF extract, DataTypes
<1>9. ASSUME NEW a \in Seq(Chunk), NEW b \in Seq(Chunk), TakesReady(r, a, b) PROVE DataTypes'
  BY <1>t, <1>9 DEF TakesReady, DataTypes
<1>10. ASSUME NEW c \in Chunk, NEW b \in Seq(Chunk), Sends(r, c, b) PROVE DataTypes'
  BY <1>t, <1>10 DEF Sends, DataTypes
<1>11. CASE Receives(r)
  BY <1>t, <1>11 DEF Receives, DataTypes
<1>12. ASSUME NEW s \in Rank, NEW c \in Chunk, NEW b \in Seq(Chunk),
             ReceivesFrom(r, s, c, b)
      PROVE  DataTypes'
  <2>1. insert_into_received(r, c) /\ UNCHANGED extracted
    BY <1>12 DEF ReceivesFrom
  <2> QED
    BY <1>t, <2>1, insert_into_receivedTypes
<1>13. CASE \/ finish_mpe(r) \/ check_containers(r) \/ wake_waiters(r)
  BY <1>t, <1>13 DEF finish_mpe, check_containers, wake_waiters, DataTypes
<1> QED
  BY <1>1, <1>2, <1>3, <1>4, <1>5, <1>6, <1>7, <1>8, <1>9, <1>10, <1>11, <1>12, <1>13,
     userCases, progressCases

-----------------------------------------------------------------------------
(* The places of the two threads. *)

\* The user thread counts and numbers as its place says.
LEMMA UserInvStep == ASSUME IInv, [Next]_vars PROVE UserInv'
<1>0. CASE UNCHANGED vars
  BY <1>0 DEF vars, userVars, IInv, UserInv, UserAt, Later, Tallying, UserAt, Later, Tallying
<1> SUFFICES ASSUME NEW r \in Rank, user(r) \/ progress(r) PROVE UserInv'
  BY <1>0 DEF Next, Terminated
<1>t. UserTypes /\ UserInv
  BY DEF IInv
<1>1. ASSUME NEW d \in Rank, NEW c \in Chunk, MakesData(r, d, c) PROVE UserInv'
  <2>1. ASSUME NEW q \in Rank, q # r PROVE UserAt(q)'
    BY <1>t, <1>1, <2>1 DEF MakesData, UserTypes, UserInv, UserAt
  <2>2. /\ upc[r] \in UserPlaces /\ cid[r] \in Nat /\ fin[r] \in Nat /\ MaxInserts \in Nat
        /\ upc'[r] = "insert" /\ fin'[r] = fin[r] /\ cid'[r] = cid[r] + 1 /\ cid[r] < MaxInserts
        /\ fin[r] = 0 /\ cur'[r] = c
        /\ \A x \in Rank : outbound[r][x] \in Nat /\ outbound[r][x] <= cid[r]
        /\ \A x \in Rank : outbound'[r][x] \in {outbound[r][x], outbound[r][x] + 1}
    BY <1>t, <1>1, InsertsAssumption, RanksAssumption DEF MakesData, UserTypes, UserInv, UserAt
  <2>3. UserAt(r)'
    <3>1. \A x \in Rank : outbound'[r][x] <= cid'[r]
      BY <2>2
    <3> QED
      BY <2>2, <3>1 DEF UserAt, Later, Tallying
  <2> QED
    BY <2>1, <2>3 DEF UserInv
<1>2. CASE Passes(r)
  <2>1. ASSUME NEW q \in Rank, q # r PROVE UserAt(q)'
    BY <1>t, <1>2, <2>1 DEF Passes, UserTypes, UserInv, UserAt
  <2>2. /\ upc[r] \in UserPlaces /\ cid[r] \in Nat /\ fin[r] \in Nat /\ MaxInserts \in Nat
        /\ upc'[r] = "finish" /\ fin'[r] = fin[r] + 1 /\ cid'[r] = cid[r]
        /\ cid[r] <= MaxInserts + fin[r]
    BY <1>t, <1>2, InsertsAssumption, RanksAssumption DEF Passes, UserTypes, UserInv, UserAt
  <2>3. UserAt(r)'
    BY <2>2 DEF UserAt, Later, Tallying
  <2> QED
    BY <2>1, <2>3 DEF UserInv
<1>3. ASSUME NEW c \in Chunk, MakesControl(r, c) PROVE UserInv'
  <2>1. ASSUME NEW q \in Rank, q # r PROVE UserAt(q)'
    BY <1>t, <1>3, <2>1 DEF MakesControl, UserTypes, UserInv, UserAt
  <2>2. /\ upc[r] \in UserPlaces /\ cid[r] \in Nat /\ fin[r] \in Nat /\ MaxInserts \in Nat
        /\ upc'[r] = "finish" /\ fin'[r] = fin[r] + 1 /\ cid'[r] = cid[r] + 1
        /\ cid[r] <= MaxInserts + fin[r]
    BY <1>t, <1>3, InsertsAssumption, RanksAssumption DEF MakesControl, UserTypes, UserInv, UserAt
  <2>3. UserAt(r)'
    BY <2>2 DEF UserAt, Later, Tallying
  <2> QED
    BY <2>1, <2>3 DEF UserInv
<1>4. CASE Queues(r)
  BY <1>t, <1>4 DEF Queues, userVars, UserTypes, UserInv, UserAt, Later, Tallying
<1>5. CASE ReceivesOwn(r)
  BY <1>t, <1>5, Chunks DEF ReceivesOwn, UserTypes, UserInv, UserAt, Later, Tallying
<1>6. CASE insert_chunk_tally(r)
  BY <1>t, <1>6 DEF insert_chunk_tally, userVars, UserTypes, UserInv, UserAt, Later, Tallying
<1>7. CASE begin_insert_finished(r)
  BY <1>t, <1>7 DEF begin_insert_finished, userVars, UserTypes, UserInv, UserAt, Later, Tallying
<1>8. CASE end_insert_finished(r)
  BY <1>t, <1>8 DEF end_insert_finished, userVars, UserTypes, UserInv, UserAt, Later, Tallying
<1>9. CASE \/ wait(r) \/ shutdown(r) \/ remove_function(r)
  BY <1>t, <1>9 DEF wait, shutdown, remove_function, userVars, UserTypes, UserInv, UserAt,
                    Later, Tallying
<1>10. ASSUME NEW p \in Part, extract(r, p) PROVE UserInv'
  BY <1>t, <1>10 DEF extract, userVars, UserTypes, UserInv, UserAt, Later, Tallying
<1>11. ASSUME NEW a \in Seq(Chunk), NEW b \in Seq(Chunk), TakesReady(r, a, b) PROVE UserInv'
  BY <1>t, <1>11 DEF TakesReady, userVars, UserTypes, UserInv, UserAt, Later, Tallying
<1>12. ASSUME NEW c \in Chunk, NEW b \in Seq(Chunk), Sends(r, c, b) PROVE UserInv'
  BY <1>t, <1>12 DEF Sends, userVars, UserTypes, UserInv, UserAt, Later, Tallying
<1>13. CASE Receives(r)
  BY <1>t, <1>13 DEF Receives, userVars, UserTypes, UserInv, UserAt, Later, Tallying
<1>14. ASSUME NEW s \in Rank, NEW c \in Chunk, NEW b \in Seq(Chunk),
             ReceivesFrom(r, s, c, b)
      PROVE  UserInv'
  BY <1>t, <1>14 DEF ReceivesFrom, userVars, UserTypes, UserInv, UserAt, Later, Tallying
<1>15. CASE \/ insert_received_tally(r) \/ finish_mpe(r) \/ check_containers(r)
            \/ wake_waiters(r)
  BY <1>t, <1>15 DEF insert_received_tally, finish_mpe, check_containers, wake_waiters,
                     userVars, UserTypes, UserInv, UserAt, Later, Tallying
<1> QED
  BY <1>1, <1>2, <1>3, <1>4, <1>5, <1>6, <1>7, <1>8, <1>9, <1>10, <1>11, <1>12, <1>13, <1>14,
     <1>15,
     userCases, progressCases

\* The progress function holds what its place says.
LEMMA LoopInvStep == ASSUME IInv, [Next]_vars PROVE LoopInv'
<1>0. CASE UNCHANGED vars
  BY <1>0 DEF vars, progressVars, IInv, LoopInv, LoopAt, LoopAt
<1> SUFFICES ASSUME NEW r \in Rank, user(r) \/ progress(r) PROVE LoopInv'
  BY <1>0 DEF Next, Terminated
<1>t. ProgressTypes /\ FlagTypes /\ LoopInv
  BY DEF IInv
<1>1. ASSUME NEW d \in Rank, NEW c \in Chunk, MakesData(r, d, c) PROVE LoopInv'
  BY <1>t, <1>1 DEF MakesData, progressVars, mpeVars, Goto, LoopInv, LoopAt, LoopAt,
                    ProgressTypes, FlagTypes
<1>2. CASE Passes(r)
  BY <1>t, <1>2 DEF Passes, progressVars, mpeVars, Goto, LoopInv, LoopAt, LoopAt, ProgressTypes,
                    FlagTypes
<1>3. ASSUME NEW c \in Chunk, MakesControl(r, c) PROVE LoopInv'
  BY <1>t, <1>3 DEF MakesControl, progressVars, mpeVars, Goto, LoopInv, LoopAt, LoopAt,
                    ProgressTypes, FlagTypes
<1>4. CASE \/ Queues(r) \/ ReceivesOwn(r) \/ insert_chunk_tally(r)
  BY <1>t, <1>4 DEF Queues, ReceivesOwn, insert_chunk_tally, progressVars, mpeVars, Goto,
                    LoopInv, LoopAt, LoopAt, ProgressTypes, FlagTypes
<1>5. CASE \/ begin_insert_finished(r) \/ end_insert_finished(r) \/ wait(r)
           \/ shutdown(r) \/ remove_function(r)
  BY <1>t, <1>5 DEF begin_insert_finished, end_insert_finished, wait, shutdown, remove_function,
                    progressVars, mpeVars, Goto, LoopInv, LoopAt, LoopAt, ProgressTypes, FlagTypes
<1>6. ASSUME NEW p \in Part, extract(r, p) PROVE LoopInv'
  BY <1>t, <1>6 DEF extract, progressVars, mpeVars, Goto, LoopInv, LoopAt, LoopAt,
                    ProgressTypes, FlagTypes
<1>7. ASSUME NEW a \in Seq(Chunk), NEW b \in Seq(Chunk), TakesReady(r, a, b) PROVE LoopInv'
  BY <1>t, <1>7 DEF TakesReady, userVars, mpeVars, LoopInv, LoopAt, LoopAt, ProgressTypes,
                    FlagTypes
<1>8. ASSUME NEW c \in Chunk, NEW b \in Seq(Chunk), Sends(r, c, b) PROVE LoopInv'
  BY <1>t, <1>8 DEF Sends, userVars, LoopInv, LoopAt, LoopAt, ProgressTypes, FlagTypes
<1>9. CASE Receives(r)
  <2>1. ASSUME NEW q \in Rank, q # r PROVE LoopAt(q)'
    BY <1>t, <1>9, <2>1 DEF Receives, LoopInv, LoopAt, ProgressTypes
  <2>2. /\ ppc[r] = "communicate" /\ ppc'[r] = "insert"
        /\ UNCHANGED <<ready, pcur, containers_empty>>
    BY <1>t, <1>9 DEF Receives, ProgressTypes
  <2>3. LoopAt(r)'
    BY <1>t, <2>2 DEF LoopInv, LoopAt
  <2> QED
    BY <2>1, <2>3 DEF LoopInv
<1>10. ASSUME NEW s \in Rank, NEW c \in Chunk, NEW b \in Seq(Chunk),
             ReceivesFrom(r, s, c, b)
      PROVE  LoopInv'
  <2>1. ASSUME NEW q \in Rank, q # r PROVE LoopAt(q)'
    BY <1>t, <1>10, <2>1 DEF ReceivesFrom, LoopInv, LoopAt, ProgressTypes
  <2>2. /\ ppc[r] = "insert" /\ ppc'[r] = "tally" /\ pcur'[r] = c /\ c # NoChunk
        /\ ready'[r] = ready[r] /\ containers_empty'[r] = containers_empty[r]
    BY <1>t, <1>10, Chunks DEF ReceivesFrom, ProgressTypes
  <2>3. LoopAt(r)'
    BY <1>t, <2>2 DEF LoopInv, LoopAt
  <2> QED
    BY <2>1, <2>3 DEF LoopInv
<1>11. CASE insert_received_tally(r)
  BY <1>t, <1>11 DEF insert_received_tally, progressVars, mpeVars, Goto, LoopInv, LoopAt,
                     LoopAt, ProgressTypes, FlagTypes
<1>12. CASE finish_mpe(r)
  BY <1>t, <1>12 DEF finish_mpe, progressVars, mpeVars, Goto, LoopInv, LoopAt, LoopAt,
                     ProgressTypes, FlagTypes
<1>13. CASE check_containers(r)
  BY <1>t, <1>13 DEF check_containers, progressVars, mpeVars, Goto, LoopInv, LoopAt, LoopAt,
                     ProgressTypes, FlagTypes
<1>14. CASE wake_waiters(r)
  BY <1>t, <1>14 DEF wake_waiters, progressVars, mpeVars, Goto, LoopInv, LoopAt, LoopAt,
                     ProgressTypes, FlagTypes
<1> QED
  BY <1>1, <1>2, <1>3, <1>4, <1>5, <1>6, <1>7, <1>8, <1>9, <1>10, <1>11, <1>12, <1>13, <1>14,
     userCases, progressCases

-----------------------------------------------------------------------------
(* Termination markers and shutdown. *)

\* A marker may follow messages without one, and so may a chunk.
LEMMA AppendToLane ==
  ASSUME NEW q \in Seq(Chunk \cup {Term}), Term \notin Range(q), NEW e \in Chunk \cup {Term}
  PROVE  MarkerLast(Append(q, e)) /\ Range(Append(q, e)) = Range(q) \cup {e}
<1>1. /\ Append(q, e) \in Seq(Chunk \cup {Term}) /\ Len(Append(q, e)) = Len(q) + 1
      /\ Len(q) \in Nat /\ \A i \in 1 .. Len(q) : Append(q, e)[i] = q[i]
  OBVIOUS
<1>2. \A i \in 1 .. Len(q) : q[i] # Term
  BY DEF Range
<1>3. Range(Append(q, e)) = Range(q) \cup {e}
  BY AppendFresh
<1> QED
  BY <1>1, <1>2, <1>3 DEF MarkerLast

\* The wire and the queues stay as they are.
QueuesKept == UNCHANGED <<wire, inbox, terminated, mpe_finish_called, to_send, ready>>

\* A rank has finished when its user thread has passed insert_finished().
FinishKept ==
    \A s \in Rank : /\ locally_finished'[s] <=> upc'[s] \in Later
                    /\ locally_finished[s] => locally_finished'[s]

\* The markers are not touched while the wire and the queues stay as they are.
LEMMA MarkerFrame ==
  ASSUME MarkerInv, QueuesKept, FinishKept
  PROVE  MarkerInv'
<1>1. ASSUME NEW s \in Rank PROVE FinishAt(s)'
  BY DEF MarkerInv, FinishAt, QueuesKept, FinishKept
<1>2. ASSUME NEW s \in Rank, NEW d \in Rank PROVE LaneAt(s, d)'
  BY DEF MarkerInv, LaneAt, MarkerLast, QueuesKept
<1> QED
  BY <1>1, <1>2 DEF MarkerInv

\* A marker stays the last thing that is sent to a peer.
LEMMA MarkerInvStep == ASSUME IInv, [Next]_vars PROVE MarkerInv'
<1>0. CASE UNCHANGED vars
  BY <1>0 DEF vars, userVars, progressVars, mpeVars, IInv, MarkerInv, FinishAt, LaneAt,
              MarkerLast, Later
<1> SUFFICES ASSUME NEW r \in Rank, user(r) \/ progress(r) PROVE MarkerInv'
  BY <1>0 DEF Next, Terminated
<1>t. UserTypes /\ ProgressTypes /\ FlagTypes /\ LoopInv /\ MarkerInv
  BY DEF IInv
<1>1. ASSUME NEW d \in Rank, NEW c \in Chunk, MakesData(r, d, c) PROVE MarkerInv'
  <2>1. QueuesKept
    BY <1>1 DEF MakesData, userVars, progressVars, mpeVars, QueuesKept
  <2>2. FinishKept
    BY <1>t, <1>1 DEF MakesData, userVars, UserTypes, FlagTypes, MarkerInv, FinishAt, Later,
                      FinishKept
  <2> QED
    BY <1>t, <2>1, <2>2, MarkerFrame
<1>2. CASE Passes(r)
  <2>1. QueuesKept
    BY <1>2 DEF Passes, userVars, progressVars, mpeVars, QueuesKept
  <2>2. FinishKept
    BY <1>t, <1>2 DEF Passes, userVars, UserTypes, FlagTypes, MarkerInv, FinishAt, Later,
                      FinishKept
  <2> QED
    BY <1>t, <2>1, <2>2, MarkerFrame
<1>3. ASSUME NEW c \in Chunk, MakesControl(r, c) PROVE MarkerInv'
  <2>1. QueuesKept
    BY <1>3 DEF MakesControl, userVars, progressVars, mpeVars, QueuesKept
  <2>2. FinishKept
    BY <1>t, <1>3 DEF MakesControl, userVars, UserTypes, FlagTypes, MarkerInv, FinishAt, Later,
                      FinishKept
  <2> QED
    BY <1>t, <2>1, <2>2, MarkerFrame
<1>4. CASE Queues(r)
  <2>1. ~ mpe_finish_called[r]
    BY <1>t, <1>4 DEF Queues, MarkerInv, FinishAt, Later
  <2> QED
    BY <1>t, <1>4, <2>1 DEF Queues, progressVars, mpeVars, UserTypes, MarkerInv, FinishAt,
                            LaneAt, MarkerLast
<1>5. CASE ReceivesOwn(r)
  <2>1. QueuesKept
    BY <1>5 DEF ReceivesOwn, userVars, progressVars, mpeVars, QueuesKept
  <2>2. FinishKept
    BY <1>t, <1>5 DEF ReceivesOwn, userVars, UserTypes, FlagTypes, MarkerInv, FinishAt, Later,
                      FinishKept
  <2> QED
    BY <1>t, <2>1, <2>2, MarkerFrame
<1>6. CASE insert_chunk_tally(r)
  <2>1. QueuesKept
    BY <1>6 DEF insert_chunk_tally, userVars, progressVars, mpeVars, QueuesKept
  <2>2. FinishKept
    BY <1>t, <1>6 DEF insert_chunk_tally, userVars, UserTypes, FlagTypes, MarkerInv, FinishAt,
                      Later, FinishKept
  <2> QED
    BY <1>t, <2>1, <2>2, MarkerFrame
<1>7. CASE begin_insert_finished(r)
  <2>1. QueuesKept
    BY <1>7 DEF begin_insert_finished, userVars, progressVars, mpeVars, QueuesKept
  <2>2. FinishKept
    BY <1>t, <1>7 DEF begin_insert_finished, userVars, UserTypes, FlagTypes, MarkerInv,
                      FinishAt, Later, FinishKept
  <2> QED
    BY <1>t, <2>1, <2>2, MarkerFrame
<1>8. CASE end_insert_finished(r)
  <2>1. QueuesKept
    BY <1>8 DEF end_insert_finished, userVars, progressVars, mpeVars, QueuesKept
  <2>2. FinishKept
    BY <1>t, <1>8 DEF end_insert_finished, userVars, UserTypes, FlagTypes, MarkerInv, FinishAt,
                      Later, FinishKept
  <2> QED
    BY <1>t, <2>1, <2>2, MarkerFrame
<1>9. CASE \/ wait(r) \/ shutdown(r) \/ remove_function(r)
  <2>1. QueuesKept
    BY <1>9 DEF wait, shutdown, remove_function, userVars, progressVars, mpeVars, QueuesKept
  <2>2. FinishKept
    BY <1>t, <1>9 DEF wait, shutdown, remove_function, userVars, UserTypes, FlagTypes,
                      MarkerInv, FinishAt, Later, FinishKept
  <2> QED
    BY <1>t, <2>1, <2>2, MarkerFrame
<1>10. ASSUME NEW p \in Part, extract(r, p) PROVE MarkerInv'
  <2>1. QueuesKept
    BY <1>10 DEF extract, userVars, progressVars, mpeVars, QueuesKept
  <2>2. FinishKept
    BY <1>t, <1>10 DEF extract, userVars, UserTypes, FlagTypes, MarkerInv, FinishAt, Later,
                       FinishKept
  <2> QED
    BY <1>t, <2>1, <2>2, MarkerFrame
<1>11. ASSUME NEW a \in Seq(Chunk), NEW b \in Seq(Chunk), TakesReady(r, a, b) PROVE MarkerInv'
  <2>1. mpe_finish_called[r] => a = <<>> /\ b = <<>>
    <3>1. mpe_finish_called[r] => Range(to_send[r]) = {}
      BY <1>t, EmptyRange DEF MarkerInv, FinishAt, UserTypes
    <3> QED
      BY <1>11, <3>1, EmptyRange DEF TakesReady
  <2>2. /\ ready' = [ready EXCEPT ![r] = a] /\ to_send' = [to_send EXCEPT ![r] = b]
        /\ UNCHANGED <<upc, wire, terminated, inbox, mpe_finish_called, locally_finished>>
    BY <1>11 DEF TakesReady, userVars, mpeVars
  <2>3. ASSUME NEW x \in Rank PROVE FinishAt(x)'
    BY <1>t, <2>1, <2>2 DEF MarkerInv, FinishAt, UserTypes, ProgressTypes
  <2> QED
    BY <1>t, <2>2, <2>3 DEF MarkerInv, LaneAt, MarkerLast
<1>12. ASSUME NEW c \in Chunk, NEW b \in Seq(Chunk), Sends(r, c, b) PROVE MarkerInv'
  <2> DEFINE d == owner(c)
  <2>1. d \in Rank /\ d # r /\ ready[r] # <<>> /\ ~ mpe_finish_called[r]
    <3>1. d \in Rank /\ d # r /\ ready[r] # <<>>
      BY <1>t, <1>12, Chunks DEF Sends, LoopInv, LoopAt
    <3> QED
      BY <1>t, <3>1 DEF MarkerInv, FinishAt
  <2>2. wire[r][d] \in Seq(Chunk \cup {Term}) /\ Term \notin Range(wire[r][d])
    BY <1>t, <2>1 DEF ProgressTypes, MarkerInv, LaneAt
  <2>3. /\ MarkerLast(Append(wire[r][d], c)) /\ Term \notin Range(Append(wire[r][d], c))
    BY <2>2, Chunks, AppendToLane
  <2>4. /\ wire'[r][d] = Append(wire[r][d], c)
        /\ \A x, y \in Rank : x # r \/ y # d => wire'[x][y] = wire[x][y]
        /\ \A x \in Rank \ {r} : ready'[x] = ready[x]
        /\ UNCHANGED <<upc, mpe_finish_called, inbox, terminated, locally_finished, to_send>>
    BY <1>t, <1>12, <2>1 DEF Sends, ProgressTypes, userVars
  <2> HIDE DEF d
  <2>5. ASSUME NEW x \in Rank PROVE FinishAt(x)'
    BY <1>t, <2>1, <2>4 DEF MarkerInv, FinishAt
  <2>6. ASSUME NEW x \in Rank, NEW y \in Rank PROVE LaneAt(x, y)'
    <3>1. CASE x = r /\ y = d
      BY <1>t, <2>1, <2>3, <2>4, <3>1 DEF MarkerInv, LaneAt
    <3>2. CASE x # r \/ y # d
      BY <1>t, <2>4, <3>2 DEF MarkerInv, LaneAt, MarkerLast
    <3> QED
      BY <3>1, <3>2
  <2> QED
    BY <2>5, <2>6 DEF MarkerInv
<1>13. CASE Receives(r)
  <2>1. ASSUME NEW x \in Rank PROVE FinishAt(x)'
    <3>1. UNCHANGED <<upc, mpe_finish_called, locally_finished, to_send, ready>>
      BY <1>13 DEF Receives, userVars
    <3>2. CASE x = r
      <4>1. Cut(wire[r][r], inbox'[r][r], wire'[r][r]) /\ wire[r][r] = <<>>
        BY <1>t, <1>13 DEF Receives, MarkerInv, FinishAt
      <4>2. Range(wire[r][r]) = {}
        BY <1>t, <4>1, EmptyRange DEF ProgressTypes
      <4>3. inbox'[r][r] = <<>> /\ wire'[r][r] = <<>>
        BY <4>1, <4>2, EmptyRange DEF Cut
      <4> QED
        BY <1>t, <3>1, <3>2, <4>3 DEF MarkerInv, FinishAt
    <3>3. CASE x # r
      BY <1>t, <1>13, <3>1, <3>3 DEF Receives, MarkerInv, FinishAt
    <3> QED
      BY <3>2, <3>3
  <2>2. ASSUME NEW x \in Rank, NEW y \in Rank PROVE LaneAt(x, y)'
    <3>1. CASE y = r
      <4>1. /\ Cut(wire[x][r], inbox'[r][x], wire'[x][r]) /\ UNCHANGED mpe_finish_called
            /\ x \in terminated'[r] \ terminated[r] =>
                  Term \in Range(wire[x][r]) /\ wire'[x][r] = <<>>
        BY <1>13 DEF Receives
      <4>2. x \in terminated[r] => wire'[x][r] = <<>>
        <5>0. x \in terminated[r] => wire[x][r] = <<>>
          BY <1>t DEF MarkerInv, LaneAt
        <5>1. x \in terminated[r] => Range(wire[x][r]) = {}
          BY <5>0 DEF Range
        <5> QED
          BY <4>1, <5>1, EmptyRange DEF Cut
      <4> QED
        BY <1>t, <3>1, <4>1, <4>2 DEF MarkerInv, LaneAt, Cut
    <3>2. CASE y # r
      <4>1. wire'[x][y] = wire[x][y] /\ terminated'[y] = terminated[y] /\ UNCHANGED mpe_finish_called
        BY <1>13, <3>2 DEF Receives
      <4> QED
        BY <1>t, <4>1 DEF MarkerInv, LaneAt, MarkerLast
    <3> QED
      BY <3>1, <3>2
  <2> QED
    BY <2>1, <2>2 DEF MarkerInv
<1>14. ASSUME NEW s \in Rank, NEW c \in Chunk, NEW b \in Seq(Chunk),
             ReceivesFrom(r, s, c, b)
      PROVE  MarkerInv'
  <2>1. s # r
    <3>1. Range(inbox[r][s]) # {}
      BY <1>14 DEF ReceivesFrom
    <3>2. inbox[r][s] # <<>>
      BY <1>t, <3>1, EmptyRange DEF ProgressTypes
    <3> QED
      BY <1>t, <3>2 DEF MarkerInv, FinishAt
  <2>2. /\ \A x \in Rank : inbox'[x][x] = inbox[x][x]
        /\ UNCHANGED <<upc, wire, terminated, ready, mpe_finish_called, locally_finished, to_send>>
    BY <1>t, <1>14, <2>1 DEF ReceivesFrom, ProgressTypes, userVars, mpeVars
  <2> QED
    BY <1>t, <2>2 DEF MarkerInv, FinishAt, LaneAt, MarkerLast
<1>15. CASE \/ insert_received_tally(r) \/ check_containers(r) \/ wake_waiters(r)
  <2>1. QueuesKept
    BY <1>15 DEF insert_received_tally, check_containers, wake_waiters, userVars, progressVars,
                 mpeVars, QueuesKept
  <2>2. FinishKept
    BY <1>t, <1>15 DEF insert_received_tally, check_containers, wake_waiters, userVars,
                       UserTypes, FlagTypes, MarkerInv, FinishAt, Later, FinishKept
  <2> QED
    BY <1>t, <2>1, <2>2, MarkerFrame
<1>16. CASE finish_mpe(r)
  <2>1. ready[r] = <<>> /\ UNCHANGED <<upc, inbox, ready, terminated, locally_finished, to_send>>
    BY <1>t, <1>16 DEF LoopInv, LoopAt, finish_mpe, userVars
  <2>2. CASE mpe_finish_called[r] \/ ~ locally_finished[r] \/ to_send[r] # <<>>
    <3>1. UNCHANGED <<mpe_finish_called, wire>>
      BY <1>t, <1>16, <2>2 DEF finish_mpe, FlagTypes
    <3> QED
      BY <1>t, <2>1, <3>1 DEF MarkerInv, FinishAt, LaneAt, MarkerLast
  <2>3. CASE ~ mpe_finish_called[r] /\ locally_finished[r] /\ to_send[r] = <<>>
    <3>1. /\ mpe_finish_called' = [mpe_finish_called EXCEPT ![r] = TRUE]
          /\ wire' = [wire EXCEPT ![r] =
                [d \in Rank |-> IF d = r THEN wire[r][d] ELSE Append(wire[r][d], Term)]]
      BY <1>16, <2>3 DEF finish_mpe
    <3>2. /\ \A x \in Rank \ {r} : wire'[x] = wire[x]
          /\ wire'[r][r] = wire[r][r]
          /\ \A y \in Rank \ {r} : wire'[r][y] = Append(wire[r][y], Term)
      BY <1>t, <3>1 DEF ProgressTypes
    <3>3. ASSUME NEW x \in Rank PROVE FinishAt(x)'
      BY <1>t, <2>1, <2>3, <3>1, <3>2 DEF MarkerInv, FinishAt, FlagTypes
    <3>4. ASSUME NEW x \in Rank, NEW y \in Rank PROVE LaneAt(x, y)'
      <4>1. CASE x # r \/ y = r
        <5>1. wire'[x][y] = wire[x][y] /\ mpe_finish_called[x] => mpe_finish_called'[x]
          BY <1>t, <3>1, <3>2, <4>1 DEF FlagTypes
        <5>2. wire'[x][y] = wire[x][y]
          BY <3>2, <4>1
        <5> QED
          BY <1>t, <2>1, <5>1, <5>2 DEF MarkerInv, LaneAt, MarkerLast
      <4>2. CASE x = r /\ y # r
        <5>1. /\ wire[r][y] \in Seq(Chunk \cup {Term}) /\ Term \notin Range(wire[r][y])
              /\ r \notin terminated[y]
          BY <1>t, <2>3, <4>2 DEF ProgressTypes, MarkerInv, LaneAt
        <5>2. MarkerLast(Append(wire[r][y], Term))
          BY <5>1, AppendToLane
        <5>3. wire'[x][y] = Append(wire[r][y], Term) /\ mpe_finish_called'[x]
          BY <1>t, <3>1, <3>2, <4>2 DEF FlagTypes
        <5> QED
          BY <2>1, <4>2, <5>1, <5>2, <5>3 DEF LaneAt
      <4> QED
        BY <4>1, <4>2
    <3> QED
      BY <3>3, <3>4 DEF MarkerInv
  <2> QED
    BY <1>t, <2>2, <2>3 DEF FlagTypes
<1> QED
  BY <1>1, <1>2, <1>3, <1>4, <1>5, <1>6, <1>7, <1>8, <1>9, <1>10, <1>11, <1>12, <1>13, <1>14,
     <1>15, <1>16,
     userCases, progressCases

\* What wait() and shutdown() rely on is kept.
LEMMA ShutdownInvStep == ASSUME IInv, [Next]_vars PROVE ShutdownInv'
<1>0. CASE UNCHANGED vars
  BY <1>0 DEF vars, userVars, progressVars, mpeVars, IInv, ShutdownInv, ShutdownAt
<1> SUFFICES ASSUME NEW r \in Rank, user(r) \/ progress(r) PROVE ShutdownInv'
  BY <1>0 DEF Next, Terminated
<1>t. UserTypes /\ ProgressTypes /\ FlagTypes /\ LoopInv /\ MarkerInv /\ ShutdownInv
  BY DEF IInv
<1>1. ASSUME NEW d \in Rank, NEW c \in Chunk, MakesData(r, d, c) PROVE ShutdownInv'
  BY <1>t, <1>1 DEF MakesData, userVars, progressVars, mpeVars, Goto, ShutdownInv, ShutdownAt,
                    UserTypes, ProgressTypes, FlagTypes
<1>2. CASE Passes(r)
  BY <1>t, <1>2 DEF Passes, userVars, progressVars, mpeVars, Goto, ShutdownInv, ShutdownAt,
                    UserTypes, ProgressTypes, FlagTypes
<1>3. ASSUME NEW c \in Chunk, MakesControl(r, c) PROVE ShutdownInv'
  BY <1>t, <1>3 DEF MakesControl, userVars, progressVars, mpeVars, Goto, ShutdownInv,
                    ShutdownAt, UserTypes, ProgressTypes, FlagTypes
<1>4. CASE Queues(r)
  <2>1. ASSUME NEW q \in Rank, q # r PROVE ShutdownAt(q)'
    BY <1>t, <1>4, <2>1 DEF Queues, progressVars, mpeVars, ShutdownInv, ShutdownAt, UserTypes,
                            ProgressTypes, FlagTypes
  <2>2. ShutdownAt(r)'
    BY <1>t, <1>4 DEF Queues, progressVars, mpeVars, ShutdownInv, ShutdownAt, UserTypes,
                      ProgressTypes, FlagTypes, MarkerInv, FinishAt, Later
  <2> QED
    BY <2>1, <2>2 DEF ShutdownInv
<1>5. CASE ReceivesOwn(r)
  BY <1>t, <1>5 DEF ReceivesOwn, userVars, progressVars, mpeVars, Goto, ShutdownInv, ShutdownAt,
                    UserTypes, ProgressTypes, FlagTypes
<1>6. CASE insert_chunk_tally(r)
  BY <1>t, <1>6 DEF insert_chunk_tally, userVars, progressVars, mpeVars, Goto, ShutdownInv,
                    ShutdownAt, UserTypes, ProgressTypes, FlagTypes
<1>7. CASE begin_insert_finished(r)
  BY <1>t, <1>7 DEF begin_insert_finished, userVars, progressVars, mpeVars, Goto, ShutdownInv,
                    ShutdownAt, UserTypes, ProgressTypes, FlagTypes
<1>8. CASE end_insert_finished(r)
  BY <1>t, <1>8 DEF end_insert_finished, userVars, progressVars, mpeVars, Goto, ShutdownInv,
                    ShutdownAt, UserTypes, ProgressTypes, FlagTypes
<1>9. CASE wait(r)
  BY <1>t, <1>9 DEF wait, userVars, progressVars, mpeVars, Goto, ShutdownInv, ShutdownAt,
                    UserTypes, ProgressTypes, FlagTypes
<1>10. ASSUME NEW p \in Part, extract(r, p) PROVE ShutdownInv'
  BY <1>t, <1>10 DEF extract, userVars, progressVars, mpeVars, Goto, ShutdownInv, ShutdownAt,
                     UserTypes, ProgressTypes, FlagTypes
<1>11. CASE shutdown(r)
  <2>1. ASSUME NEW q \in Rank, q # r PROVE ShutdownAt(q)'
    BY <1>t, <1>11, <2>1 DEF shutdown, progressVars, mpeVars, ShutdownInv, ShutdownAt,
                             UserTypes, ProgressTypes, FlagTypes
  <2>2. ShutdownAt(r)'
    BY <1>t, <1>11 DEF shutdown, progressVars, mpeVars, ShutdownInv, ShutdownAt, UserTypes,
                       ProgressTypes, FlagTypes
  <2> QED
    BY <2>1, <2>2 DEF ShutdownInv
<1>12. CASE remove_function(r)
  BY <1>t, <1>12 DEF remove_function, userVars, progressVars, mpeVars, Goto, ShutdownInv,
                     ShutdownAt, UserTypes, ProgressTypes, FlagTypes
<1>13. ASSUME NEW a \in Seq(Chunk), NEW b \in Seq(Chunk), TakesReady(r, a, b) PROVE ShutdownInv'
  <2>1. ASSUME NEW q \in Rank, q # r PROVE ShutdownAt(q)'
    BY <1>t, <1>13, <2>1 DEF TakesReady, userVars, mpeVars, ShutdownInv, ShutdownAt, UserTypes,
                             ProgressTypes, FlagTypes
  <2>2. ShutdownAt(r)'
    <3>1. /\ ppc'[r] \in {"communicate", "submit"} /\ ppc[r] = "send"
          /\ UNCHANGED <<upc, terminated, mpe_finish_called, containers_empty,
                         locally_finished, active, can_extract>>
      BY <1>t, <1>13 DEF TakesReady, userVars, mpeVars, ProgressTypes
    <3> QED
      BY <1>t, <3>1 DEF ShutdownInv, ShutdownAt, LoopInv, LoopAt
  <2> QED
    BY <2>1, <2>2 DEF ShutdownInv
<1>14. ASSUME NEW c \in Chunk, NEW b \in Seq(Chunk), Sends(r, c, b) PROVE ShutdownInv'
  <2>1. /\ ppc' = [ppc EXCEPT ![r] = IF b = <<>> THEN "communicate" ELSE "submit"]
        /\ ppc[r] = "submit"
        /\ UNCHANGED <<upc, to_send, terminated, mpe_finish_called, containers_empty,
                       locally_finished, active, can_extract>>
    BY <1>14 DEF Sends, userVars
  <2>2. ASSUME NEW q \in Rank PROVE ShutdownAt(q)'
    <3>1. CASE q = r
      BY <1>t, <2>1, <3>1 DEF ShutdownInv, ShutdownAt, ProgressTypes
    <3>2. CASE q # r
      BY <1>t, <2>1, <3>2 DEF ShutdownInv, ShutdownAt, ProgressTypes
    <3> QED
      BY <3>1, <3>2
  <2> QED
    BY <2>2 DEF ShutdownInv
<1>15. CASE Receives(r)
  <2>1. ASSUME NEW q \in Rank, q # r PROVE ShutdownAt(q)'
    <3>1. /\ ppc'[q] = ppc[q] /\ terminated'[q] = terminated[q]
          /\ UNCHANGED <<upc, to_send, mpe_finish_called, containers_empty,
                         locally_finished, active, can_extract>>
      BY <1>t, <1>15, <2>1 DEF Receives, userVars, ProgressTypes
    <3> QED
      BY <1>t, <3>1 DEF ShutdownInv, ShutdownAt
  <2>2. ShutdownAt(r)'
    <3>1. /\ ppc'[r] = "insert" /\ ppc[r] = "communicate"
          /\ UNCHANGED <<upc, to_send, mpe_finish_called, containers_empty,
                         locally_finished, active, can_extract>>
      BY <1>t, <1>15 DEF Receives, userVars, ProgressTypes
    <3> QED
      BY <1>t, <3>1 DEF ShutdownInv, ShutdownAt, LoopInv, LoopAt
  <2> QED
    BY <2>1, <2>2 DEF ShutdownInv
<1>16. ASSUME NEW s \in Rank, NEW c \in Chunk, NEW b \in Seq(Chunk),
             ReceivesFrom(r, s, c, b)
      PROVE  ShutdownInv'
  <2>1. /\ ppc' = [ppc EXCEPT ![r] = "tally"] /\ ppc[r] = "insert"
        /\ UNCHANGED <<upc, to_send, terminated, mpe_finish_called, containers_empty,
                       locally_finished, active, can_extract>>
    BY <1>16 DEF ReceivesFrom, userVars, mpeVars
  <2>2. ASSUME NEW q \in Rank PROVE ShutdownAt(q)'
    <3>1. CASE q = r
      BY <1>t, <2>1, <3>1 DEF ShutdownInv, ShutdownAt, ProgressTypes
    <3>2. CASE q # r
      BY <1>t, <2>1, <3>2 DEF ShutdownInv, ShutdownAt, ProgressTypes
    <3> QED
      BY <3>1, <3>2
  <2> QED
    BY <2>2 DEF ShutdownInv
<1>17. CASE insert_received_tally(r)
  BY <1>t, <1>17 DEF insert_received_tally, userVars, progressVars, mpeVars, Goto, ShutdownInv,
                     ShutdownAt, UserTypes, ProgressTypes, FlagTypes
<1>18. CASE finish_mpe(r)
  <2>1. ASSUME NEW q \in Rank, q # r PROVE ShutdownAt(q)'
    <3>1. /\ ppc'[q] = ppc[q] /\ mpe_finish_called'[q] = mpe_finish_called[q]
          /\ UNCHANGED <<upc, to_send, terminated, containers_empty,
                         locally_finished, active, can_extract>>
      BY <1>t, <1>18, <2>1 DEF finish_mpe, userVars, Goto, ProgressTypes, FlagTypes
    <3> QED
      BY <1>t, <3>1 DEF ShutdownInv, ShutdownAt
  <2>2. ShutdownAt(r)'
    BY <1>t, <1>18 DEF finish_mpe, userVars, Goto, ShutdownInv, ShutdownAt, UserTypes,
                       ProgressTypes, FlagTypes, LoopInv, LoopAt
  <2> QED
    BY <2>1, <2>2 DEF ShutdownInv
<1>19. CASE check_containers(r)
  <2>1. ASSUME NEW q \in Rank, q # r PROVE ShutdownAt(q)'
    <3>1. /\ ppc'[q] = ppc[q] /\ containers_empty'[q] = containers_empty[q]
          /\ UNCHANGED <<upc, to_send, terminated, mpe_finish_called,
                         locally_finished, active, can_extract>>
      BY <1>t, <1>19, <2>1 DEF check_containers, userVars, mpeVars, Goto, ProgressTypes, FlagTypes
    <3> QED
      BY <1>t, <3>1 DEF ShutdownInv, ShutdownAt
  <2>2. ShutdownAt(r)'
    BY <1>t, <1>19 DEF check_containers, userVars, mpeVars, Goto, ShutdownInv, ShutdownAt,
                       UserTypes, ProgressTypes, FlagTypes, LoopInv, LoopAt, is_idle
  <2> QED
    BY <2>1, <2>2 DEF ShutdownInv
<1>20. CASE wake_waiters(r)
  <2>1. ASSUME NEW q \in Rank, q # r PROVE ShutdownAt(q)'
    BY <1>t, <1>20, <2>1 DEF wake_waiters, userVars, mpeVars, Goto, ShutdownInv, ShutdownAt,
                             UserTypes, ProgressTypes, FlagTypes
  <2>2. ShutdownAt(r)'
    BY <1>t, <1>20 DEF wake_waiters, userVars, mpeVars, Goto, ShutdownInv, ShutdownAt,
                       UserTypes, ProgressTypes, FlagTypes
  <2> QED
    BY <2>1, <2>2 DEF ShutdownInv
<1> QED
  BY <1>1, <1>2, <1>3, <1>4, <1>5, <1>6, <1>7, <1>8, <1>9, <1>10, <1>11, <1>12, <1>13, <1>14,
     <1>15, <1>16, <1>17, <1>18, <1>19, <1>20,
     userCases, progressCases

-----------------------------------------------------------------------------
(* The chunks on their way. *)

\* A chunk stays one that its source has counted.
LEMMA NumberedStays ==
  ASSUME IInv, [Next]_vars, NEW s \in Rank, NEW c, Numbered(s, c) PROVE Numbered(s, c)'
<1>t. UserTypes /\ UserInv
  BY DEF IInv
<1>1. CASE UNCHANGED <<outbound, fin>>
  BY <1>1 DEF Numbered
<1>2. c \in Chunk /\ owner(c) \in Rank /\ s \in Nat /\ c.nth \in Nat
  BY Chunks, Ranks DEF Numbered, Chunk
<1>3. ASSUME NEW r \in Rank, NEW d \in Rank, NEW b \in Chunk, MakesData(r, d, b)
      PROVE  Numbered(s, c)'
  <2>1. CASE s # r
    BY <1>t, <1>2, <1>3, <2>1 DEF Numbered, MakesData, UserTypes
  <2>2. CASE s = r
    <3>1. fin[s] = 0 /\ ~ (fin[s] > owner(c))
      BY <1>t, <1>2, <1>3, <2>2, Ranks DEF MakesData, UserInv, UserAt
    <3>2. ~ is_control_message(c) /\ c.nth \in 1 .. outbound[s][owner(c)]
      BY <3>1 DEF Numbered
    <3>3. /\ outbound[s][owner(c)] \in Nat /\ outbound' = [outbound EXCEPT ![s][d] = @ + 1]
          /\ outbound \in [Rank -> [Rank -> Nat]]
      BY <1>t, <1>2, <1>3, <2>2 DEF MakesData, UserTypes
    <3>4. outbound'[s][owner(c)] = outbound[s][owner(c)]
          \/ outbound'[s][owner(c)] = outbound[s][owner(c)] + 1
      BY <1>2, <3>3
    <3> QED
      BY <1>2, <3>2, <3>3, <3>4 DEF Numbered
  <2> QED
    BY <2>1, <2>2
<1>4. ASSUME NEW r \in Rank, Passes(r) \/ \E b \in Chunk : MakesControl(r, b)
      PROVE  Numbered(s, c)'
  <2>0. outbound' = outbound /\ fin[s] \in Nat /\ fin' = [fin EXCEPT ![r] = @ + 1]
    <3>1. fin[s] \in Nat
      BY <1>t, Ranks DEF UserTypes
    <3>2. outbound' = outbound /\ fin' = [fin EXCEPT ![r] = @ + 1]
      BY <1>4 DEF Passes, MakesControl
    <3> QED
      BY <3>1, <3>2
  <2>1. outbound' = outbound /\ fin[s] \in Nat /\ fin'[s] \in Nat /\ fin'[s] >= fin[s]
    BY <1>t, <2>0 DEF UserTypes
  <2>2. owner(c) \in Nat
    BY <1>2, Ranks
  <2> QED
    BY <2>1, <2>2 DEF Numbered
<1>5. ASSUME NEW r \in Rank, user(r)
      PROVE  \/ UNCHANGED <<outbound, fin>>
             \/ \E d \in Rank, b \in Chunk : MakesData(r, d, b)
             \/ Passes(r) \/ \E b \in Chunk : MakesControl(r, b)
  <2>1. Queues(r) \/ ReceivesOwn(r) => UNCHANGED <<outbound, fin>>
    BY DEF Queues, ReceivesOwn
  <2>2. insert_chunk_tally(r) \/ begin_insert_finished(r) \/ end_insert_finished(r) \/ wait(r)
        \/ shutdown(r) \/ remove_function(r) => UNCHANGED <<outbound, fin>>
    BY DEF insert_chunk_tally, begin_insert_finished, end_insert_finished, wait, shutdown,
           remove_function
  <2>3. \A p \in Part : extract(r, p) => UNCHANGED <<outbound, fin>>
    BY DEF extract, userVars
  <2> QED
    BY <1>5, <2>1, <2>2, <2>3, userCases
<1>6. ASSUME NEW r \in Rank, progress(r) PROVE UNCHANGED <<outbound, fin>>
  <2>1. \A a, b : TakesReady(r, a, b) => UNCHANGED <<outbound, fin>>
    BY DEF TakesReady, userVars
  <2>2. \A b, x : Sends(r, x, b) => UNCHANGED <<outbound, fin>>
    BY DEF Sends, userVars
  <2>3. Receives(r) => UNCHANGED <<outbound, fin>>
    BY DEF Receives, userVars
  <2>4. \A b, x, y : ReceivesFrom(r, y, x, b) => UNCHANGED <<outbound, fin>>
    BY DEF ReceivesFrom, userVars
  <2>5. insert_received_tally(r) \/ finish_mpe(r) \/ check_containers(r) \/ wake_waiters(r)
        => UNCHANGED <<outbound, fin>>
    BY DEF insert_received_tally, finish_mpe, check_containers, wake_waiters, userVars
  <2> QED
    BY <1>6, <2>1, <2>2, <2>3, <2>4, <2>5, progressCases
<1>7. UNCHANGED vars => UNCHANGED <<outbound, fin>>
  BY DEF vars, userVars
<1> QED
  BY <1>1, <1>3, <1>4, <1>5, <1>6, <1>7 DEF Next, Terminated

\* The chunk that is made is one that its source has counted.
LEMMA MadeIsNumbered ==
  ASSUME IInv, NEW r \in Rank, NEW d \in Rank, NEW c \in Chunk,
         MakesData(r, d, c) \/ MakesControl(r, c)
  PROVE  Numbered(r, c)'
<1>t. UserTypes
  BY DEF IInv
<1>1. CASE MakesData(r, d, c)
  <2>1. /\ c.nth = outbound'[r][d] /\ outbound'[r][d] \in Nat /\ outbound'[r][d] > 0
        /\ owner(c) = d /\ extract_rank(c.cid) = r /\ c.expected = 0
    BY <1>t, <1>1 DEF MakesData, UserTypes
  <2> QED
    BY <2>1 DEF Numbered, is_control_message
<1>2. CASE MakesControl(r, c)
  <2>1. /\ outbound' = outbound /\ fin'[r] = fin[r] + 1 /\ fin[r] \in Nat /\ fin[r] \in Rank
        /\ owner(c) = fin[r] /\ extract_rank(c.cid) = r
        /\ c.expected = outbound[r][fin[r]] + 1 /\ c.nth = c.expected
    BY <1>t, <1>2, Ranks DEF MakesControl, UserTypes
  <2>2. outbound[r][fin[r]] \in Nat
    BY <1>t, <2>1 DEF UserTypes
  <2> QED
    BY <2>1, <2>2 DEF Numbered, is_control_message
<1> QED
  BY <1>1, <1>2

\* What the steps do to the chunks on a lane: sending adds one, receiving takes one away.
LEMMA LaneOfSends ==
  ASSUME IInv, NEW r \in Rank, NEW c \in Chunk, NEW b, Sends(r, c, b)
  PROVE  /\ owner(c) \in Rank /\ OnLane(r, owner(c))' = OnLane(r, owner(c)) \cup {c}
         /\ \A x, y \in Rank : x # r \/ y # owner(c) => OnLane(x, y)' = OnLane(x, y)
<1>t. ProgressTypes
  BY DEF IInv
<1> DEFINE d == owner(c)
<1>1. d \in Rank /\ c # Term
  BY Chunks
<1>2. wire[r][d] \in Seq(Chunk \cup {Term})
  BY <1>t, <1>1 DEF ProgressTypes
<1>3. Range(Append(wire[r][d], c)) = Range(wire[r][d]) \cup {c}
  BY <1>2, AppendFresh
<1>4. wire' = [wire EXCEPT ![r][d] = Append(@, c)] /\ UNCHANGED inbox
  BY DEF Sends
<1> HIDE DEF d
<1>5. wire'[r][d] = Append(wire[r][d], c)
  BY <1>t, <1>1, <1>4 DEF ProgressTypes
<1>6. \A x, y \in Rank : x # r \/ y # d => wire'[x][y] = wire[x][y]
  BY <1>t, <1>1, <1>4 DEF ProgressTypes
<1>7. OnLane(r, d)' = OnLane(r, d) \cup {c}
  BY <1>1, <1>3, <1>4, <1>5 DEF OnLane
<1>8. \A x, y \in Rank : x # r \/ y # d => OnLane(x, y)' = OnLane(x, y)
  BY <1>4, <1>6 DEF OnLane
<1> QED
  BY <1>1, <1>7, <1>8 DEF d

\* Taking messages from the wire keeps them on the lane.
LEMMA LaneOfReceives ==
  ASSUME IInv, NEW r \in Rank, Receives(r), NEW x \in Rank, NEW y \in Rank
  PROVE  OnLane(x, y)' = OnLane(x, y)
<1>1. CASE y = r
  <2>1. inbox[r][x] = <<>> /\ ppc[r] = "communicate"
    BY DEF IInv, LoopInv, LoopAt, Receives
  <2>2. Range(inbox[r][x]) = {}
    BY <2>1 DEF Range
  <2>3. Cut(wire[x][r], inbox'[r][x], wire'[x][r])
    BY DEF Receives
  <2>4. Term \notin Range(inbox'[r][x])
    BY <2>3 DEF Cut
  <2> QED
    BY <1>1, <2>2, <2>3, <2>4 DEF OnLane, Cut
<1>2. CASE y # r
  BY <1>2 DEF Receives, OnLane
<1> QED
  BY <1>1, <1>2

\* A chunk received was on a lane from a peer.
LEMMA LaneOfReceivesFrom ==
  ASSUME IInv, NEW r \in Rank, NEW s \in Rank, NEW c \in Chunk, NEW b, ReceivesFrom(r, s, c, b)
  PROVE  /\ s # r /\ Numbered(s, c) /\ c \in OnLane(s, r)
         /\ OnLane(s, r)' = OnLane(s, r) \ {c}
         /\ \A x, y \in Rank : x # s \/ y # r => OnLane(x, y)' = OnLane(x, y)
<1>t. ProgressTypes
  BY DEF IInv
<1>1. c \in OnLane(s, r)
  BY DEF ReceivesFrom, OnLane
<1>2. Numbered(s, c)
  BY <1>1 DEF IInv, ChunksInv, LaneChunks
<1>3. s # r
  <2>1. Range(inbox[r][s]) # {}
    BY DEF ReceivesFrom
  <2>2. inbox[r][s] # <<>>
    BY <1>t, <2>1, EmptyRange DEF ProgressTypes
  <2> QED
    BY <2>2 DEF IInv, MarkerInv, FinishAt
<1>4. UNCHANGED wire /\ inbox' = [inbox EXCEPT ![r][s] = b]
  BY DEF ReceivesFrom, mpeVars
<1>5. inbox'[r][s] = b /\ \A x, y \in Rank : x # s \/ y # r => inbox'[y][x] = inbox[y][x]
  BY <1>t, <1>4 DEF ProgressTypes
<1>6. /\ Range(b) = Range(inbox[r][s]) \ {c} /\ c \in Range(inbox[r][s])
      /\ Range(wire[s][r]) \cap Range(inbox[r][s]) = {}
  BY DEF ReceivesFrom, IInv, PlacesInv, LanePlaces
<1>7. OnLane(s, r)' = OnLane(s, r) \ {c}
  BY <1>4, <1>5, <1>6 DEF OnLane
<1>8. \A x, y \in Rank : x # s \/ y # r => OnLane(x, y)' = OnLane(x, y)
  BY <1>4, <1>5 DEF OnLane
<1> QED
  BY <1>1, <1>2, <1>3, <1>7, <1>8

\* Sending the markers keeps the chunks.
LEMMA LaneOfFinish ==
  ASSUME IInv, NEW r \in Rank, finish_mpe(r), NEW x \in Rank, NEW y \in Rank
  PROVE  OnLane(x, y)' = OnLane(x, y)
<1>t. wire \in [Rank -> [Rank -> Seq(Chunk \cup {Term})]]
  BY DEF IInv, ProgressTypes
<1>1. wire[x][y] \in Seq(Chunk \cup {Term})
  BY <1>t
<1>2. Range(Append(wire[x][y], Term)) = Range(wire[x][y]) \cup {Term}
  BY <1>1, AppendFresh
<1>3. \/ wire' = wire
      \/ wire' = [wire EXCEPT ![r] =
                    [d \in Rank |-> IF d = r THEN wire[r][d] ELSE Append(wire[r][d], Term)]]
  BY DEF finish_mpe
<1>4. wire'[x][y] = wire[x][y] \/ wire'[x][y] = Append(wire[x][y], Term)
  <2>1. CASE x # r \/ wire' = wire
    BY <1>t, <1>3, <2>1
  <2>2. CASE x = r /\ wire' # wire
    <3>1. wire'[r] = [d \in Rank |-> IF d = r THEN wire[r][d] ELSE Append(wire[r][d], Term)]
      BY <1>t, <1>3, <2>2
    <3> QED
      BY <2>2, <3>1
  <2> QED
    BY <2>1, <2>2
<1>5. UNCHANGED inbox
  BY DEF finish_mpe
<1> QED
  BY <1>2, <1>4, <1>5 DEF OnLane

\* The chunks of a source that is not making one.
NumbersKept == \A x \in Rank : \A c : Numbered(x, c) => Numbered(x, c)'
PipelineKept == UNCHANGED <<to_send, ready, wire, inbox>>

\* Chunks stay where they are, or are no longer in hand.
LEMMA ChunksFrame ==
  ASSUME ChunksInv, NumbersKept, PipelineKept,
         \A x \in Rank : cur'[x] \in {cur[x], NoChunk} /\ pcur'[x] \in {pcur[x], NoChunk}
  PROVE  ChunksInv'
<1>1. ASSUME NEW x \in Rank PROVE HomeChunks(x)' /\ HeldChunk(x)'
  BY DEF ChunksInv, HomeChunks, HeldChunk, NumbersKept, PipelineKept
<1>2. ASSUME NEW x \in Rank, NEW y \in Rank PROVE LaneChunks(x, y)'
  BY DEF ChunksInv, LaneChunks, OnLane, NumbersKept, PipelineKept
<1> QED
  BY <1>1, <1>2 DEF ChunksInv

\* Every chunk stays on its way to the owner of its partition.
LEMMA ChunksInvStep == ASSUME IInv, [Next]_vars PROVE ChunksInv'
<1>0. CASE UNCHANGED vars
  BY <1>0 DEF vars, userVars, progressVars, mpeVars, IInv, ChunksInv, HomeChunks, HeldChunk,
              LaneChunks, OnLane, Numbered
<1> SUFFICES ASSUME NEW r \in Rank, user(r) \/ progress(r) PROVE ChunksInv'
  BY <1>0 DEF Next, Terminated
<1>t. UserTypes /\ ProgressTypes /\ MarkerInv /\ ChunksInv
  BY DEF IInv
<1>k. NumbersKept
  BY NumberedStays DEF NumbersKept
<1>1. ASSUME NEW d \in Rank, NEW c \in Chunk, MakesData(r, d, c) PROVE ChunksInv'
  <2>1. Numbered(r, c)'
    BY <1>1, MadeIsNumbered
  <2>a. ASSUME NEW x \in Rank PROVE HomeChunks(x)'
    BY <1>t, <1>k, <1>1, <2>1 DEF MakesData, userVars, progressVars, mpeVars, ChunksInv,
                                  HomeChunks, UserTypes, ProgressTypes, NumbersKept
  <2>b. ASSUME NEW x \in Rank PROVE HeldChunk(x)'
    BY <1>t, <1>k, <1>1 DEF MakesData, userVars, progressVars, mpeVars, ChunksInv, HeldChunk,
                            UserTypes, ProgressTypes, NumbersKept
  <2>c. ASSUME NEW x \in Rank, NEW y \in Rank PROVE LaneChunks(x, y)'
    BY <1>t, <1>k, <1>1 DEF ChunksInv, LaneChunks, NumbersKept, OnLane, MakesData, userVars,
                            progressVars, mpeVars
  <2> QED
    BY <2>a, <2>b, <2>c DEF ChunksInv
<1>2. CASE Passes(r)
  <2>1. PipelineKept
    BY <1>2 DEF Passes, progressVars, mpeVars, PipelineKept
  <2>2. \A x \in Rank : cur'[x] \in {cur[x], NoChunk} /\ pcur'[x] \in {pcur[x], NoChunk}
    BY <1>t, <1>2 DEF Passes, userVars, progressVars, UserTypes, ProgressTypes
  <2> QED
    BY <1>t, <1>k, <2>1, <2>2, ChunksFrame
<1>3. ASSUME NEW c \in Chunk, MakesControl(r, c) PROVE ChunksInv'
  <2>1. Numbered(r, c)'
    BY <1>3, MadeIsNumbered
  <2>a. ASSUME NEW x \in Rank PROVE HomeChunks(x)'
    BY <1>t, <1>k, <1>3, <2>1 DEF MakesControl, userVars, progressVars, mpeVars, ChunksInv,
                                  HomeChunks, UserTypes, ProgressTypes, NumbersKept
  <2>b. ASSUME NEW x \in Rank PROVE HeldChunk(x)'
    BY <1>t, <1>k, <1>3 DEF MakesControl, userVars, progressVars, mpeVars, ChunksInv, HeldChunk,
                            UserTypes, ProgressTypes, NumbersKept
  <2>c. ASSUME NEW x \in Rank, NEW y \in Rank PROVE LaneChunks(x, y)'
    BY <1>t, <1>k, <1>3 DEF ChunksInv, LaneChunks, NumbersKept, OnLane, MakesControl, userVars,
                            progressVars, mpeVars
  <2> QED
    BY <2>a, <2>b, <2>c DEF ChunksInv
<1>4. CASE Queues(r)
  <2>1. Range(Append(to_send[r], cur[r])) = Range(to_send[r]) \cup {cur[r]} /\ cur[r] # NoChunk
    BY <1>t, <1>4, Chunks, AppendFresh DEF Queues, UserTypes
  <2>a. ASSUME NEW x \in Rank PROVE HomeChunks(x)'
    BY <1>t, <1>k, <1>4, <2>1 DEF Queues, userVars, progressVars, mpeVars, ChunksInv,
                                  HomeChunks, UserTypes, ProgressTypes, NumbersKept
  <2>b. ASSUME NEW x \in Rank PROVE HeldChunk(x)'
    BY <1>t, <1>k, <1>4 DEF Queues, userVars, progressVars, mpeVars, ChunksInv, HeldChunk,
                            UserTypes, ProgressTypes, NumbersKept
  <2>c. ASSUME NEW x \in Rank, NEW y \in Rank PROVE LaneChunks(x, y)'
    BY <1>t, <1>k, <1>4 DEF ChunksInv, LaneChunks, NumbersKept, OnLane, Queues, userVars,
                            progressVars, mpeVars
  <2> QED
    BY <2>a, <2>b, <2>c DEF ChunksInv
<1>5. CASE ReceivesOwn(r)
  <2>1. PipelineKept
    BY <1>5 DEF ReceivesOwn, progressVars, mpeVars, PipelineKept
  <2>2. \A x \in Rank : cur'[x] \in {cur[x], NoChunk} /\ pcur'[x] \in {pcur[x], NoChunk}
    BY <1>t, <1>5 DEF ReceivesOwn, userVars, progressVars, UserTypes, ProgressTypes
  <2> QED
    BY <1>t, <1>k, <2>1, <2>2, ChunksFrame
<1>6. CASE insert_chunk_tally(r)
  <2>1. PipelineKept
    BY <1>6 DEF insert_chunk_tally, progressVars, mpeVars, PipelineKept
  <2>2. \A x \in Rank : cur'[x] \in {cur[x], NoChunk} /\ pcur'[x] \in {pcur[x], NoChunk}
    BY <1>t, <1>6 DEF insert_chunk_tally, userVars, progressVars, UserTypes, ProgressTypes
  <2> QED
    BY <1>t, <1>k, <2>1, <2>2, ChunksFrame
<1>7. CASE \/ begin_insert_finished(r) \/ end_insert_finished(r) \/ wait(r)
           \/ shutdown(r) \/ remove_function(r)
  <2>1. PipelineKept
    BY <1>7 DEF begin_insert_finished, end_insert_finished, wait, shutdown, remove_function,
                progressVars, mpeVars, PipelineKept
  <2>2. \A x \in Rank : cur'[x] \in {cur[x], NoChunk} /\ pcur'[x] \in {pcur[x], NoChunk}
    BY <1>t, <1>7 DEF begin_insert_finished, end_insert_finished, wait, shutdown,
                      remove_function, userVars, progressVars, UserTypes, ProgressTypes
  <2> QED
    BY <1>t, <1>k, <2>1, <2>2, ChunksFrame
<1>8. ASSUME NEW p \in Part, extract(r, p) PROVE ChunksInv'
  <2>1. PipelineKept
    BY <1>8 DEF extract, progressVars, mpeVars, PipelineKept
  <2>2. \A x \in Rank : cur'[x] \in {cur[x], NoChunk} /\ pcur'[x] \in {pcur[x], NoChunk}
    BY <1>t, <1>8 DEF extract, userVars, progressVars, UserTypes, ProgressTypes
  <2> QED
    BY <1>t, <1>k, <2>1, <2>2, ChunksFrame
<1>9. ASSUME NEW a \in Seq(Chunk), NEW b \in Seq(Chunk), TakesReady(r, a, b) PROVE ChunksInv'
  <2>a. ASSUME NEW x \in Rank PROVE HomeChunks(x)'
    BY <1>t, <1>k, <1>9 DEF TakesReady, userVars, mpeVars, ChunksInv, HomeChunks, UserTypes,
                            ProgressTypes, NumbersKept
  <2>b. ASSUME NEW x \in Rank PROVE HeldChunk(x)'
    BY <1>t, <1>k, <1>9 DEF TakesReady, userVars, mpeVars, ChunksInv, HeldChunk, UserTypes,
                            ProgressTypes, NumbersKept
  <2>c. ASSUME NEW x \in Rank, NEW y \in Rank PROVE LaneChunks(x, y)'
    BY <1>t, <1>k, <1>9 DEF ChunksInv, LaneChunks, NumbersKept, OnLane, TakesReady, userVars,
                            mpeVars
  <2> QED
    BY <2>a, <2>b, <2>c DEF ChunksInv
<1>10. ASSUME NEW c \in Chunk, NEW b \in Seq(Chunk), Sends(r, c, b) PROVE ChunksInv'
  <2>1. Numbered(r, c)
    BY <1>t, <1>10 DEF Sends, ChunksInv, HomeChunks
  <2>2. /\ OnLane(r, owner(c))' = OnLane(r, owner(c)) \cup {c}
        /\ \A x, y \in Rank : x # r \/ y # owner(c) => OnLane(x, y)' = OnLane(x, y)
    BY <1>10, LaneOfSends
  <2>3. /\ UNCHANGED <<cur, to_send>> /\ ready' = [ready EXCEPT ![r] = b]
        /\ Range(b) \subseteq Range(ready[r])
    BY <1>10 DEF Sends, userVars
  <2>a. ASSUME NEW x \in Rank PROVE HomeChunks(x)'
    <3>1. Range(ready'[x]) \subseteq Range(ready[x])
      BY <1>t, <2>3 DEF ProgressTypes
    <3> QED
      BY <1>t, <1>k, <2>3, <3>1 DEF ChunksInv, HomeChunks, NumbersKept
  <2>b. ASSUME NEW x \in Rank PROVE HeldChunk(x)'
    BY <1>t, <1>k, <1>10 DEF Sends, userVars, ChunksInv, HeldChunk, UserTypes, ProgressTypes,
                             NumbersKept
  <2>c. ASSUME NEW x \in Rank, NEW y \in Rank PROVE LaneChunks(x, y)'
    BY <1>t, <1>k, <2>1, <2>2 DEF ChunksInv, LaneChunks, NumbersKept
  <2> QED
    BY <2>a, <2>b, <2>c DEF ChunksInv
<1>11. CASE Receives(r)
  <2>1. \A x, y \in Rank : OnLane(x, y)' = OnLane(x, y)
    BY <1>11, LaneOfReceives
  <2>a. ASSUME NEW x \in Rank PROVE HomeChunks(x)'
    BY <1>t, <1>k, <1>11 DEF Receives, userVars, ChunksInv, HomeChunks, UserTypes,
                             ProgressTypes, NumbersKept
  <2>b. ASSUME NEW x \in Rank PROVE HeldChunk(x)'
    BY <1>t, <1>k, <1>11 DEF Receives, userVars, ChunksInv, HeldChunk, UserTypes, ProgressTypes,
                             NumbersKept
  <2>c. ASSUME NEW x \in Rank, NEW y \in Rank PROVE LaneChunks(x, y)'
    BY <1>t, <1>k, <2>1 DEF ChunksInv, LaneChunks, NumbersKept
  <2> QED
    BY <2>a, <2>b, <2>c DEF ChunksInv
<1>12. ASSUME NEW s \in Rank, NEW c \in Chunk, NEW b \in Seq(Chunk),
             ReceivesFrom(r, s, c, b)
      PROVE  ChunksInv'
  <2>1. /\ s # r /\ Numbered(s, c)
        /\ OnLane(s, r)' = OnLane(s, r) \ {c}
        /\ \A x, y \in Rank : x # s \/ y # r => OnLane(x, y)' = OnLane(x, y)
    BY <1>12, LaneOfReceivesFrom
  <2>2. pcur' = [pcur EXCEPT ![r] = c] /\ owner(c) = r
    BY <1>12 DEF ReceivesFrom
  <2>a. ASSUME NEW x \in Rank PROVE HomeChunks(x)'
    BY <1>t, <1>k, <1>12 DEF ReceivesFrom, userVars, mpeVars, ChunksInv, HomeChunks, UserTypes,
                             ProgressTypes, NumbersKept
  <2>b. ASSUME NEW x \in Rank PROVE HeldChunk(x)'
    <3>1. CASE x = r
      <4>1. pcur'[r] = c /\ Numbered(s, c)'
        BY <1>t, <1>k, <2>1, <2>2 DEF NumbersKept, ProgressTypes
      <4> QED
        BY <2>1, <2>2, <3>1, <4>1 DEF HeldChunk
    <3>2. CASE x # r
      <4>1. pcur'[x] = pcur[x]
        BY <1>t, <2>2, <3>2 DEF ProgressTypes
      <4> QED
        BY <1>t, <1>k, <4>1 DEF ChunksInv, HeldChunk, NumbersKept
    <3> QED
      BY <3>1, <3>2
  <2>c. ASSUME NEW x \in Rank, NEW y \in Rank PROVE LaneChunks(x, y)'
    BY <1>t, <1>k, <2>1 DEF ChunksInv, LaneChunks, NumbersKept
  <2> QED
    BY <2>a, <2>b, <2>c DEF ChunksInv
<1>13. CASE insert_received_tally(r)
  <2>1. PipelineKept
    BY <1>13 DEF insert_received_tally, progressVars, mpeVars, PipelineKept
  <2>2. \A x \in Rank : cur'[x] \in {cur[x], NoChunk} /\ pcur'[x] \in {pcur[x], NoChunk}
    BY <1>t, <1>13 DEF insert_received_tally, userVars, progressVars, UserTypes, ProgressTypes
  <2> QED
    BY <1>t, <1>k, <2>1, <2>2, ChunksFrame
<1>14. CASE finish_mpe(r)
  <2>1. \A x, y \in Rank : OnLane(x, y)' = OnLane(x, y)
    BY <1>14, LaneOfFinish
  <2>a. ASSUME NEW x \in Rank PROVE HomeChunks(x)'
    BY <1>t, <1>k, <1>14 DEF finish_mpe, userVars, ChunksInv, HomeChunks, UserTypes,
                             ProgressTypes, NumbersKept
  <2>b. ASSUME NEW x \in Rank PROVE HeldChunk(x)'
    BY <1>t, <1>k, <1>14 DEF finish_mpe, userVars, ChunksInv, HeldChunk, UserTypes,
                             ProgressTypes, NumbersKept
  <2>c. ASSUME NEW x \in Rank, NEW y \in Rank PROVE LaneChunks(x, y)'
    BY <1>t, <1>k, <2>1 DEF ChunksInv, LaneChunks, NumbersKept
  <2> QED
    BY <2>a, <2>b, <2>c DEF ChunksInv
<1>15. CASE \/ check_containers(r) \/ wake_waiters(r)
  <2>1. PipelineKept
    BY <1>15 DEF check_containers, wake_waiters, progressVars, mpeVars, PipelineKept
  <2>2. \A x \in Rank : cur'[x] \in {cur[x], NoChunk} /\ pcur'[x] \in {pcur[x], NoChunk}
    BY <1>t, <1>15 DEF check_containers, wake_waiters, userVars, progressVars, UserTypes,
                       ProgressTypes
  <2> QED
    BY <1>t, <1>k, <2>1, <2>2, ChunksFrame
<1> QED
  BY <1>1, <1>2, <1>3, <1>4, <1>5, <1>6, <1>7, <1>8, <1>9, <1>10, <1>11, <1>12, <1>13, <1>14,
     <1>15,
     userCases, progressCases

-----------------------------------------------------------------------------
(* What the steps do to the chunks in flight. *)

InHand(s) == IF upc[s] \in {"insert", "finish"} /\ cur[s] # NoChunk THEN {cur[s]} ELSE {}

\* What is in flight is not handed over yet, or on the lane.
LEMMA FlightParts ==
  /\ \A s : Unsent(s) = InHand(s) \cup Range(to_send[s]) \cup Range(ready[s])
  /\ \A s, d : InFlight(s, d) = {c \in Unsent(s) : owner(c) = d} \cup OnLane(s, d)
BY DEF Unsent, InHand, InFlight, OnLane

\* The steps that move no chunk between the places of the pipeline.
Quiet(r) ==
    \/ Passes(r) \/ insert_chunk_tally(r) \/ begin_insert_finished(r) \/ end_insert_finished(r)
    \/ wait(r) \/ (\E p \in Part : extract(r, p)) \/ shutdown(r) \/ remove_function(r)
    \/ insert_received_tally(r) \/ check_containers(r) \/ wake_waiters(r)

HandsKept ==
    \A x \in Rank : /\ InHand(x)' = InHand(x) /\ cur'[x] \in {cur[x], NoChunk}
                    /\ pcur'[x] \in {pcur[x], NoChunk}

\* A step is quiet or moves a chunk.
LEMMA stepCases ==
  ASSUME IInv, NEW r \in Rank, user(r) \/ progress(r)
  PROVE  \/ \E d \in Rank, c \in Chunk : MakesData(r, d, c)
         \/ \E c \in Chunk : MakesControl(r, c)
         \/ Queues(r) \/ ReceivesOwn(r)
         \/ \E a, b \in Seq(Chunk) : TakesReady(r, a, b)
         \/ \E c \in Chunk, b \in Seq(Chunk) : Sends(r, c, b)
         \/ Receives(r)
         \/ \E s \in Rank, c \in Chunk, b \in Seq(Chunk) : ReceivesFrom(r, s, c, b)
         \/ finish_mpe(r)
         \/ Quiet(r)
BY userCases, progressCases, Zenon DEF Quiet

\* A quiet step moves none.
LEMMA QuietSteps ==
  ASSUME IInv, NEW r \in Rank, Quiet(r) PROVE PipelineKept /\ HandsKept
<1>t. UserTypes /\ ProgressTypes /\ UserInv
  BY DEF IInv
<1> USE DEF PipelineKept, HandsKept, InHand, UserTypes, ProgressTypes
<1>1. CASE Passes(r)
  BY <1>t, <1>1 DEF Passes, progressVars, mpeVars
<1>2. CASE insert_chunk_tally(r)
  BY <1>t, <1>2 DEF insert_chunk_tally, progressVars, mpeVars
<1>3. CASE begin_insert_finished(r) \/ end_insert_finished(r)
  BY <1>t, <1>3 DEF begin_insert_finished, end_insert_finished, progressVars, mpeVars
<1>4. CASE wait(r) \/ shutdown(r) \/ remove_function(r)
  BY <1>t, <1>4 DEF wait, shutdown, remove_function, progressVars, mpeVars
<1>5. ASSUME NEW p \in Part, extract(r, p) PROVE PipelineKept /\ HandsKept
  BY <1>t, <1>5 DEF extract, userVars, progressVars, mpeVars
<1>6. CASE insert_received_tally(r)
  BY <1>t, <1>6 DEF insert_received_tally, userVars, mpeVars
<1>7. CASE check_containers(r) \/ wake_waiters(r)
  BY <1>t, <1>7 DEF check_containers, wake_waiters, userVars, mpeVars
<1> QED
  BY <1>1, <1>2, <1>3, <1>4, <1>5, <1>6, <1>7, Zenon DEF Quiet

\* Nothing changes in flight, in hand or on a lane.
FlightKept ==
    /\ \A x \in Rank : Unsent(x)' = Unsent(x)
    /\ \A x, y \in Rank : OnLane(x, y)' = OnLane(x, y) /\ InFlight(x, y)' = InFlight(x, y)

\* It does not in a quiet step.
LEMMA FlightOfQuiet ==
  ASSUME PipelineKept, HandsKept PROVE FlightKept
<1>1. \A x \in Rank : Unsent(x)' = Unsent(x)
  BY DEF PipelineKept, HandsKept, Unsent, InHand
<1>2. \A x, y \in Rank : OnLane(x, y)' = OnLane(x, y)
  BY DEF PipelineKept, OnLane
<1>3. \A x, y \in Rank : InFlight(x, y)' = InFlight(x, y)
  BY <1>1, <1>2 DEF InFlight, OnLane
<1> QED
  BY <1>1, <1>2, <1>3 DEF FlightKept

\* A chunk moves on, from rank s to rank d.
FlightMoves(s, d, c) ==
    /\ c \in Unsent(s) /\ Unsent(s)' = Unsent(s) \ {c} /\ owner(c) = d
    /\ OnLane(s, d)' = OnLane(s, d) \cup {c}
    /\ \A x \in Rank : x # s => Unsent(x)' = Unsent(x)
    /\ \A x, y \in Rank : x # s \/ y # d => OnLane(x, y)' = OnLane(x, y)

\* A chunk of rank s leaves for rank d.
FlightEnds(s, d, c) ==
    /\ c \in InFlight(s, d) /\ InFlight(s, d)' = InFlight(s, d) \ {c}
    /\ \A x, y \in Rank : x # s \/ y # d => InFlight(x, y)' = InFlight(x, y)

\* Rank s starts a chunk for rank d.
FlightBegins(s, d, c) ==
    /\ c \notin InFlight(s, d) /\ InFlight(s, d)' = InFlight(s, d) \cup {c}
    /\ \A x, y \in Rank : x # s \/ y # d => InFlight(x, y)' = InFlight(x, y)

\* What is in flight is numbered and for its destination.
LEMMA FlightIsNumbered ==
  ASSUME IInv, NEW s \in Rank, NEW d \in Rank, NEW c \in InFlight(s, d)
  PROVE  Numbered(s, c) /\ owner(c) = d /\ c \in Chunk
<1>1. CASE c \in OnLane(s, d)
  BY <1>1 DEF IInv, ChunksInv, LaneChunks, Numbered
<1>2. CASE c \in Unsent(s) /\ owner(c) = d
  BY <1>2 DEF IInv, ChunksInv, HomeChunks, Unsent, Numbered
<1> QED
  BY <1>1, <1>2, FlightParts

\* A chunk that is made has the highest number of those in flight.
LEMMA MadeIsFresh ==
  ASSUME IInv, NEW r \in Rank, NEW d \in Rank, NEW c \in Chunk, owner(c) = d,
         MakesData(r, d, c) \/ MakesControl(r, c)
  PROVE  /\ \A b \in InFlight(r, d) : b.nth < c.nth
         /\ c \notin Unsent(r) /\ \A x \in Rank : c \notin OnLane(r, x)
<1>t. UserTypes /\ UserInv
  BY DEF IInv
<1>1. ASSUME NEW b \in InFlight(r, d) PROVE b.nth < c.nth
  <2>1. Numbered(r, b) /\ owner(b) = d /\ d \in Nat
    BY FlightIsNumbered, Ranks
  <2>2. fin[r] \in Nat /\ ~ (fin[r] > d) /\ c.nth = outbound[r][d] + 1 /\ outbound[r][d] \in Nat
    <3>1. CASE MakesData(r, d, c)
      BY <1>t, <2>1, <3>1 DEF MakesData, UserTypes, UserInv, UserAt
    <3>2. CASE MakesControl(r, c)
      BY <1>t, <2>1, <3>2 DEF MakesControl, UserTypes
    <3> QED
      BY <3>1, <3>2
  <2>3. b.nth \in 1 .. outbound[r][d]
    BY <2>1, <2>2 DEF Numbered
  <2> QED
    BY <2>2, <2>3
<1>2. c.nth \in Nat
  BY DEF Chunk
<1>3. c \notin InFlight(r, d)
  <2>1. ~ (c.nth < c.nth)
    BY <1>2
  <2> QED
    BY <1>1, <2>1
<1>4. c \notin Unsent(r) /\ c \notin OnLane(r, d)
  BY <1>3, FlightParts
<1>5. \A x \in Rank : c \in OnLane(r, x) => owner(c) = x
  BY DEF IInv, ChunksInv, LaneChunks
<1> QED
  BY <1>1, <1>4, <1>5

\* A new chunk is in hand.
LEMMA FlightOfMakes ==
  ASSUME IInv, NEW r \in Rank, NEW d \in Rank, NEW c \in Chunk, owner(c) = d,
         MakesData(r, d, c) \/ MakesControl(r, c)
  PROVE  /\ FlightBegins(r, d, c) /\ Unsent(r)' = Unsent(r) \cup {c}
         /\ \A x \in Rank : x # r => Unsent(x)' = Unsent(x)
         /\ \A x, y \in Rank : OnLane(x, y)' = OnLane(x, y)
<1>t. UserTypes /\ c # NoChunk
  BY Chunks DEF IInv
<1>1. /\ cur[r] = NoChunk /\ upc[r] \in {"insert", "finish"} /\ cur' = [cur EXCEPT ![r] = c]
      /\ UNCHANGED <<upc, to_send, ready, wire, inbox>>
  BY DEF MakesData, MakesControl, progressVars, mpeVars
<1>2. Unsent(r)' = Unsent(r) \cup {c} /\ \A x \in Rank : x # r => Unsent(x)' = Unsent(x)
  <2>1. cur'[r] = c /\ \A x \in Rank : x # r => cur'[x] = cur[x]
    BY <1>t, <1>1 DEF UserTypes
  <2> QED
    BY <1>t, <1>1, <2>1 DEF Unsent
<1>3. \A x, y \in Rank : OnLane(x, y)' = OnLane(x, y)
  BY <1>1 DEF OnLane
<1>4. c \notin InFlight(r, d)
  BY MadeIsFresh, FlightParts
<1>5. \A x, y \in Rank : /\ InFlight(x, y) = {b \in Unsent(x) : owner(b) = y} \cup OnLane(x, y)
                         /\ InFlight(x, y)' = {b \in Unsent(x)' : owner(b) = y} \cup OnLane(x, y)'
  BY DEF InFlight, OnLane
<1>6. InFlight(r, d)' = InFlight(r, d) \cup {c}
  BY <1>2, <1>3, <1>5
<1>7. ASSUME NEW x \in Rank, NEW y \in Rank, x # r \/ y # d PROVE InFlight(x, y)' = InFlight(x, y)
  BY <1>2, <1>3, <1>5, <1>7
<1> QED
  BY <1>2, <1>3, <1>4, <1>6, <1>7 DEF FlightBegins

\* Queueing a chunk keeps it in flight.
LEMMA FlightOfQueues == ASSUME IInv, NEW r \in Rank, Queues(r) PROVE FlightKept
<1>t. UserTypes /\ cur[r] # NoChunk
  BY Chunks DEF IInv, Queues
<1>1. /\ upc[r] \in {"insert", "finish"} /\ cur' = [cur EXCEPT ![r] = NoChunk]
      /\ to_send' = [to_send EXCEPT ![r] = Append(@, cur[r])]
      /\ UNCHANGED <<upc, ready, wire, inbox>>
  BY DEF Queues, progressVars, mpeVars
<1>2. Range(Append(to_send[r], cur[r])) = Range(to_send[r]) \cup {cur[r]}
  BY <1>t, AppendFresh DEF Queues, UserTypes
<1>3. /\ cur'[r] = NoChunk /\ \A x \in Rank : x # r => cur'[x] = cur[x]
      /\ to_send'[r] = Append(to_send[r], cur[r])
      /\ \A x \in Rank : x # r => to_send'[x] = to_send[x]
  BY <1>t, <1>1 DEF UserTypes
<1>4. \A x \in Rank : Unsent(x)' = Unsent(x)
  BY <1>t, <1>1, <1>2, <1>3 DEF Unsent
<1>5. \A x, y \in Rank : OnLane(x, y)' = OnLane(x, y)
  BY <1>1 DEF OnLane
<1> QED
  BY <1>4, <1>5 DEF FlightKept, InFlight, OnLane

\* Taking chunks from the queue keeps them in flight.
LEMMA FlightOfTakesReady ==
  ASSUME IInv, NEW r \in Rank, NEW a, NEW b, TakesReady(r, a, b) PROVE FlightKept
<1>t. UserTypes /\ ProgressTypes
  BY DEF IInv
<1>1. /\ ready' = [ready EXCEPT ![r] = a] /\ to_send' = [to_send EXCEPT ![r] = b]
      /\ Range(a) \cup Range(b) = Range(to_send[r])
      /\ UNCHANGED <<upc, cur, wire, inbox>>
  BY DEF TakesReady, userVars, mpeVars
<1>2. Range(ready[r]) = {}
  <2>1. ready[r] = <<>>
    BY DEF IInv, LoopInv, LoopAt, TakesReady
  <2> QED
    BY <1>t, <2>1, EmptyRange DEF ProgressTypes
<1>3. /\ ready'[r] = a /\ \A x \in Rank : x # r => ready'[x] = ready[x]
      /\ to_send'[r] = b /\ \A x \in Rank : x # r => to_send'[x] = to_send[x]
  BY <1>t, <1>1 DEF UserTypes, ProgressTypes
<1>4. \A x \in Rank : Unsent(x)' = Unsent(x)
  BY <1>1, <1>2, <1>3 DEF Unsent
<1>5. \A x, y \in Rank : OnLane(x, y)' = OnLane(x, y)
  BY <1>1 DEF OnLane
<1> QED
  BY <1>4, <1>5 DEF FlightKept, InFlight, OnLane

\* Sending a chunk moves it to the lane.
LEMMA FlightOfSends ==
  ASSUME IInv, NEW r \in Rank, NEW c \in Chunk, NEW b, Sends(r, c, b)
  PROVE  /\ owner(c) \in Rank /\ FlightMoves(r, owner(c), c)
         /\ \A x, y \in Rank : InFlight(x, y)' = InFlight(x, y)
<1>t. ProgressTypes /\ HomePlaces(r)
  BY DEF IInv, PlacesInv
<1> DEFINE d == owner(c)
<1>1. /\ d \in Rank /\ OnLane(r, d)' = OnLane(r, d) \cup {c}
      /\ \A x, y \in Rank : x # r \/ y # d => OnLane(x, y)' = OnLane(x, y)
  BY LaneOfSends
<1>2. /\ ready' = [ready EXCEPT ![r] = b] /\ Range(b) = Range(ready[r]) \ {c}
      /\ c \in Range(ready[r]) /\ UNCHANGED <<upc, cur, to_send>>
  BY DEF Sends, userVars
<1>3. ready'[r] = b /\ \A x \in Rank : x # r => ready'[x] = ready[x]
  BY <1>t, <1>2 DEF ProgressTypes
<1>4. /\ c \in Unsent(r) /\ Unsent(r)' = Unsent(r) \ {c}
      /\ \A x \in Rank : x # r => Unsent(x)' = Unsent(x)
  BY <1>t, <1>2, <1>3 DEF HomePlaces, Unsent
<1>5. \A x, y \in Rank : /\ InFlight(x, y) = {z \in Unsent(x) : owner(z) = y} \cup OnLane(x, y)
                         /\ InFlight(x, y)' = {z \in Unsent(x)' : owner(z) = y} \cup OnLane(x, y)'
  BY DEF InFlight, OnLane
<1>6. ASSUME NEW x \in Rank, NEW y \in Rank PROVE InFlight(x, y)' = InFlight(x, y)
  <2>1. CASE x # r
    <3>1. Unsent(x)' = Unsent(x) /\ OnLane(x, y)' = OnLane(x, y)
      BY <1>1, <1>4, <2>1
    <3> QED
      BY <3>1 DEF InFlight, OnLane
  <2>2. CASE x = r /\ y # d
    <3>1. {z \in Unsent(r)' : owner(z) = y} = {z \in Unsent(r) : owner(z) = y}
      BY <1>4, <2>2
    <3>2. OnLane(x, y)' = OnLane(x, y)
      BY <1>1, <2>2
    <3> QED
      BY <2>2, <3>1, <3>2 DEF InFlight, OnLane
  <2>3. CASE x = r /\ y = d
    BY <1>1, <1>4, <1>5, <2>3
  <2> QED
    BY <2>1, <2>2, <2>3
<1> QED
  BY <1>1, <1>4, <1>6 DEF FlightMoves

\* Taking messages from the wire, or sending the markers, keeps the chunks in flight.
LEMMA FlightOfReceives ==
  ASSUME IInv, NEW r \in Rank, Receives(r) \/ finish_mpe(r) PROVE FlightKept
<1>1. UNCHANGED <<upc, cur, to_send, ready>>
  BY DEF Receives, finish_mpe, userVars
<1>2. \A x \in Rank : Unsent(x)' = Unsent(x)
  BY <1>1 DEF Unsent
<1>3. \A x, y \in Rank : OnLane(x, y)' = OnLane(x, y)
  BY LaneOfReceives, LaneOfFinish
<1> QED
  BY <1>2, <1>3 DEF FlightKept, InFlight, OnLane

\* A chunk for the own rank arrives.
LEMMA FlightOfReceivesOwn ==
  ASSUME IInv, NEW r \in Rank, ReceivesOwn(r)
  PROVE  /\ FlightEnds(r, r, cur[r]) /\ Unsent(r)' = Unsent(r) \ {cur[r]}
         /\ \A x \in Rank : x # r => Unsent(x)' = Unsent(x)
         /\ \A x, y \in Rank : OnLane(x, y)' = OnLane(x, y)
<1>t. UserTypes /\ ProgressTypes /\ HomePlaces(r) /\ HomeChunks(r) /\ cur[r] # NoChunk
  BY Chunks DEF IInv, ReceivesOwn, PlacesInv, ChunksInv
<1> DEFINE c == cur[r]
<1>1. /\ upc[r] \in {"insert", "finish"} /\ owner(c) = r
      /\ upc' = [upc EXCEPT ![r] = IF @ = "insert" THEN "insert_tally" ELSE "finish_tally"]
      /\ UNCHANGED <<cur, to_send, ready, wire, inbox>>
  BY DEF ReceivesOwn, progressVars, mpeVars
<1>2. upc'[r] \notin {"insert", "finish"} /\ \A x \in Rank : x # r => upc'[x] = upc[x]
  BY <1>t, <1>1 DEF UserTypes
<1>3. /\ c \in Unsent(r) /\ Unsent(r)' = Unsent(r) \ {c}
      /\ \A x \in Rank : x # r => Unsent(x)' = Unsent(x)
  BY <1>t, <1>1, <1>2 DEF HomePlaces, Unsent
<1>4. \A x, y \in Rank : OnLane(x, y)' = OnLane(x, y)
  BY <1>1 DEF OnLane
<1>5. OnLane(r, r) = {}
  <2>1. wire[r][r] = <<>> /\ inbox[r][r] = <<>>
    BY DEF IInv, MarkerInv, FinishAt
  <2>2. Range(wire[r][r]) = {} /\ Range(inbox[r][r]) = {}
    BY <1>t, <2>1, EmptyRange DEF ProgressTypes
  <2> QED
    BY <2>2 DEF OnLane
<1>6. \A x, y \in Rank : /\ InFlight(x, y) = {z \in Unsent(x) : owner(z) = y} \cup OnLane(x, y)
                         /\ InFlight(x, y)' = {z \in Unsent(x)' : owner(z) = y} \cup OnLane(x, y)'
  BY DEF InFlight, OnLane
<1>7. c \in InFlight(r, r) /\ InFlight(r, r)' = InFlight(r, r) \ {c}
  BY <1>1, <1>3, <1>4, <1>5, <1>6
<1>8. ASSUME NEW x \in Rank, NEW y \in Rank, x # r \/ y # r PROVE InFlight(x, y)' = InFlight(x, y)
  <2>1. {z \in Unsent(x)' : owner(z) = y} = {z \in Unsent(x) : owner(z) = y}
    <3>1. CASE x # r
      BY <1>3, <3>1
    <3>2. CASE x = r
      BY <1>1, <1>3, <1>8, <3>2
    <3> QED
      BY <3>1, <3>2
  <2> QED
    BY <1>4, <2>1 DEF InFlight, OnLane
<1> QED
  BY <1>3, <1>4, <1>7, <1>8 DEF FlightEnds

\* A chunk of a peer arrives.
LEMMA FlightOfReceivesFrom ==
  ASSUME IInv, NEW r \in Rank, NEW s \in Rank, NEW c \in Chunk, NEW b, ReceivesFrom(r, s, c, b)
  PROVE  /\ FlightEnds(s, r, c) /\ s # r /\ Numbered(s, c)
         /\ \A x \in Rank : Unsent(x)' = Unsent(x)
         /\ \A x, y \in Rank : OnLane(x, y)' \subseteq OnLane(x, y)
<1>1. UNCHANGED <<upc, cur, to_send, ready>>
  BY DEF ReceivesFrom, userVars
<1>2. \A x \in Rank : Unsent(x)' = Unsent(x)
  BY <1>1 DEF Unsent
<1>3. /\ s # r /\ Numbered(s, c) /\ c \in OnLane(s, r) /\ OnLane(s, r)' = OnLane(s, r) \ {c}
      /\ \A x, y \in Rank : x # s \/ y # r => OnLane(x, y)' = OnLane(x, y)
  BY LaneOfReceivesFrom
<1>4. c \notin Unsent(s)
  BY <1>3 DEF IInv, PlacesInv, LanePlaces
<1>5. \A x, y \in Rank : /\ InFlight(x, y) = {z \in Unsent(x) : owner(z) = y} \cup OnLane(x, y)
                         /\ InFlight(x, y)' = {z \in Unsent(x)' : owner(z) = y} \cup OnLane(x, y)'
  BY DEF InFlight, OnLane
<1>6. c \in InFlight(s, r) /\ InFlight(s, r)' = InFlight(s, r) \ {c}
  BY <1>2, <1>3, <1>4, <1>5
<1>7. ASSUME NEW x \in Rank, NEW y \in Rank, x # s \/ y # r PROVE InFlight(x, y)' = InFlight(x, y)
  <2>1. Unsent(x)' = Unsent(x) /\ OnLane(x, y)' = OnLane(x, y)
    BY <1>2, <1>3, <1>7
  <2> QED
    BY <2>1 DEF InFlight, OnLane
<1>8. \A x, y \in Rank : OnLane(x, y)' \subseteq OnLane(x, y)
  BY <1>3
<1> QED
  BY <1>2, <1>3, <1>6, <1>7, <1>8 DEF FlightEnds

\* Numbers in flight stay unique when nothing new is in flight.
LEMMA UniqueStays ==
  ASSUME PlacesInv, NEW x \in Rank, NEW y \in Rank, InFlight(x, y)' \subseteq InFlight(x, y)
  PROVE  \A b, c \in InFlight(x, y)' : b.nth = c.nth => b = c
BY DEF PlacesInv, LanePlaces

\* A chunk stays in one place at a time.
LEMMA PlacesInvStep == ASSUME IInv, [Next]_vars PROVE PlacesInv'
<1>0. CASE UNCHANGED vars
  BY <1>0 DEF vars, userVars, progressVars, mpeVars, IInv, PlacesInv, HomePlaces, LanePlaces,
              OnLane, Unsent, InFlight
<1> SUFFICES ASSUME NEW r \in Rank, user(r) \/ progress(r) PROVE PlacesInv'
  BY <1>0 DEF Next, Terminated
<1>t. UserTypes /\ ProgressTypes /\ PlacesInv
  BY DEF IInv
<1>1. ASSUME NEW d \in Rank, NEW c \in Chunk, owner(c) = d, MakesData(r, d, c) \/ MakesControl(r, c)
      PROVE  PlacesInv'
  <2>1. /\ cur' = [cur EXCEPT ![r] = c] /\ UNCHANGED <<to_send, ready, wire, inbox>>
    BY <1>1 DEF MakesData, MakesControl, progressVars, mpeVars
  <2>2. /\ \A b \in InFlight(r, d) : b.nth < c.nth
        /\ c \notin Unsent(r) /\ \A x \in Rank : c \notin OnLane(r, x)
    BY <1>1, MadeIsFresh
  <2>3. /\ FlightBegins(r, d, c) /\ Unsent(r)' = Unsent(r) \cup {c}
        /\ \A x \in Rank : x # r => Unsent(x)' = Unsent(x)
        /\ \A x, y \in Rank : OnLane(x, y)' = OnLane(x, y)
    BY <1>1, FlightOfMakes
  <2>4. ASSUME NEW x \in Rank PROVE HomePlaces(x)'
    <3>1. c \notin Range(to_send[r]) \cup Range(ready[r])
      BY <2>2 DEF Unsent
    <3> QED
      BY <1>t, <2>1, <3>1 DEF PlacesInv, HomePlaces, UserTypes
  <2>5. ASSUME NEW x \in Rank, NEW y \in Rank PROVE LanePlaces(x, y)'
    <3>1. OnLane(x, y)' \cap Unsent(x)' = {}
      BY <1>t, <2>2, <2>3 DEF PlacesInv, LanePlaces
    <3>2. \A b, e \in InFlight(x, y)' : b.nth = e.nth => b = e
      <4>1. CASE x # r \/ y # d
        BY <1>t, <2>3, <4>1, UniqueStays DEF FlightBegins
      <4>2. CASE x = r /\ y = d
        <5>1. c.nth \in Nat /\ \A b \in InFlight(r, d) : b.nth # c.nth
          <6>1. c.nth \in Nat /\ \A b \in InFlight(r, d) : b.nth \in Nat
            BY FlightIsNumbered DEF Chunk
          <6> QED
            BY <2>2, <6>1
        <5>2. InFlight(r, d)' = InFlight(r, d) \cup {c}
          BY <2>3 DEF FlightBegins
        <5>3. \A b, e \in InFlight(r, d) : b.nth = e.nth => b = e
          BY <1>t DEF PlacesInv, LanePlaces
        <5> QED
          BY <4>2, <5>1, <5>2, <5>3
      <4> QED
        BY <4>1, <4>2
    <3> QED
      BY <1>t, <2>1, <3>1, <3>2 DEF PlacesInv, LanePlaces
  <2> QED
    BY <2>4, <2>5 DEF PlacesInv
<1>2. CASE Queues(r)
  <2>1. FlightKept
    BY <1>2, FlightOfQueues
  <2>2. /\ cur[r] \in Chunk /\ cur[r] # NoChunk /\ to_send[r] \in Seq(Chunk)
        /\ to_send' = [to_send EXCEPT ![r] = Append(@, cur[r])]
        /\ cur' = [cur EXCEPT ![r] = NoChunk]
        /\ UNCHANGED <<ready, wire, inbox>>
    BY <1>t, <1>2, Chunks DEF Queues, progressVars, mpeVars, UserTypes
  <2>3. cur[r] \notin Range(to_send[r]) \cup Range(ready[r])
    BY <1>t, <2>2 DEF PlacesInv, HomePlaces
  <2>4. /\ IsInjective(Append(to_send[r], cur[r]))
        /\ Range(Append(to_send[r], cur[r])) = Range(to_send[r]) \cup {cur[r]}
    BY <1>t, <2>2, <2>3, AppendFresh DEF PlacesInv, HomePlaces
  <2>5. ASSUME NEW x \in Rank PROVE HomePlaces(x)'
    <3>1. CASE x = r
      <4>1. to_send'[r] = Append(to_send[r], cur[r]) /\ cur'[r] = NoChunk /\ ready'[r] = ready[r]
        BY <1>t, <2>2 DEF UserTypes
      <4> QED
        BY <1>t, <2>3, <2>4, <3>1, <4>1 DEF PlacesInv, HomePlaces
    <3>2. CASE x # r
      BY <1>t, <2>2, <3>2 DEF UserTypes, PlacesInv, HomePlaces
    <3> QED
      BY <3>1, <3>2
  <2>6. ASSUME NEW x \in Rank, NEW y \in Rank PROVE LanePlaces(x, y)'
    BY <1>t, <2>1, <2>2 DEF PlacesInv, LanePlaces, FlightKept
  <2> QED
    BY <2>5, <2>6 DEF PlacesInv
<1>3. CASE ReceivesOwn(r)
  <2>1. /\ FlightEnds(r, r, cur[r]) /\ Unsent(r)' = Unsent(r) \ {cur[r]}
        /\ \A x \in Rank : x # r => Unsent(x)' = Unsent(x)
        /\ \A x, y \in Rank : OnLane(x, y)' = OnLane(x, y)
    BY <1>3, FlightOfReceivesOwn
  <2>2. UNCHANGED <<cur, to_send, ready, wire, inbox>>
    BY <1>3 DEF ReceivesOwn, progressVars, mpeVars
  <2>3. ASSUME NEW x \in Rank, NEW y \in Rank PROVE LanePlaces(x, y)'
    <3>1. InFlight(x, y)' \subseteq InFlight(x, y)
      BY <2>1 DEF FlightEnds
    <3>2. \A b, e \in InFlight(x, y)' : b.nth = e.nth => b = e
      BY <1>t, <3>1, UniqueStays
    <3>3. OnLane(x, y)' \cap Unsent(x)' = {}
      BY <1>t, <2>1 DEF PlacesInv, LanePlaces
    <3> QED
      BY <1>t, <2>2, <3>2, <3>3 DEF PlacesInv, LanePlaces
  <2> QED
    BY <1>t, <2>2, <2>3 DEF PlacesInv, HomePlaces
<1>4. ASSUME NEW a \in Seq(Chunk), NEW b \in Seq(Chunk), TakesReady(r, a, b) PROVE PlacesInv'
  <2>1. FlightKept
    BY <1>4, FlightOfTakesReady
  <2>2. /\ ready' = [ready EXCEPT ![r] = a] /\ to_send' = [to_send EXCEPT ![r] = b]
        /\ IsInjective(a) /\ IsInjective(b)
        /\ Range(a) \cup Range(b) = Range(to_send[r]) /\ Range(a) \cap Range(b) = {}
        /\ UNCHANGED <<cur, wire, inbox>>
    BY <1>4 DEF TakesReady, userVars, mpeVars
  <2>3. ASSUME NEW x \in Rank PROVE HomePlaces(x)'
    <3>1. CASE x = r
      <4>1. ready'[r] = a /\ to_send'[r] = b /\ cur'[r] = cur[r]
        BY <1>t, <2>2 DEF UserTypes, ProgressTypes
      <4> QED
        BY <1>t, <2>2, <3>1, <4>1 DEF PlacesInv, HomePlaces
    <3>2. CASE x # r
      BY <1>t, <2>2, <3>2 DEF UserTypes, ProgressTypes, PlacesInv, HomePlaces
    <3> QED
      BY <3>1, <3>2
  <2>4. ASSUME NEW x \in Rank, NEW y \in Rank PROVE LanePlaces(x, y)'
    BY <1>t, <2>1, <2>2 DEF PlacesInv, LanePlaces, FlightKept
  <2> QED
    BY <2>3, <2>4 DEF PlacesInv
<1>5. ASSUME NEW c \in Chunk, NEW b \in Seq(Chunk), Sends(r, c, b) PROVE PlacesInv'
  <2> DEFINE d == owner(c)
  <2>1. /\ d \in Rank /\ FlightMoves(r, d, c)
        /\ \A x, y \in Rank : InFlight(x, y)' = InFlight(x, y)
    BY <1>5, FlightOfSends
  <2>2. /\ ready' = [ready EXCEPT ![r] = b] /\ IsInjective(b) /\ Range(b) = Range(ready[r]) \ {c}
        /\ wire' = [wire EXCEPT ![r][d] = Append(@, c)]
        /\ UNCHANGED <<cur, to_send, inbox>>
    BY <1>5 DEF Sends, userVars
  <2> HIDE DEF d
  <2>3. ASSUME NEW x \in Rank PROVE HomePlaces(x)'
    <3>1. CASE x = r
      <4>1. ready'[r] = b /\ to_send'[r] = to_send[r] /\ cur'[r] = cur[r]
        BY <1>t, <2>2 DEF ProgressTypes
      <4> QED
        BY <1>t, <2>2, <3>1, <4>1 DEF PlacesInv, HomePlaces
    <3>2. CASE x # r
      BY <1>t, <2>2, <3>2 DEF ProgressTypes, PlacesInv, HomePlaces
    <3> QED
      BY <3>1, <3>2
  <2>4. ASSUME NEW x \in Rank, NEW y \in Rank PROVE LanePlaces(x, y)'
    <3>1. \A z, e \in InFlight(x, y)' : z.nth = e.nth => z = e
      BY <1>t, <2>1, UniqueStays
    <3>2. OnLane(x, y)' \cap Unsent(x)' = {}
      BY <1>t, <2>1 DEF FlightMoves, PlacesInv, LanePlaces
    <3>3. IsInjective(wire'[x][y]) /\ Range(wire'[x][y]) \cap Range(inbox[y][x]) = {}
      <4>1. CASE x # r \/ y # d
        <5>1. wire'[x][y] = wire[x][y]
          BY <1>t, <2>1, <2>2, <4>1 DEF ProgressTypes
        <5> QED
          BY <1>t, <5>1 DEF PlacesInv, LanePlaces
      <4>2. CASE x = r /\ y = d
        <5>0. wire \in [Rank -> [Rank -> Seq(Chunk \cup {Term})]] /\ d \in Rank
          BY <1>t, <2>1 DEF ProgressTypes
        <5>1. wire'[r][d] = Append(wire[r][d], c) /\ wire[r][d] \in Seq(Chunk \cup {Term})
          BY <2>2, <5>0
        <5>2. c \notin Range(wire[r][d]) /\ c \notin Range(inbox[d][r])
          <6>1. c \notin OnLane(r, d) /\ c # Term
            BY <1>t, <2>1, Chunks DEF FlightMoves, PlacesInv, LanePlaces
          <6> QED
            BY <6>1 DEF OnLane
        <5>3. IsInjective(wire[r][d]) /\ Range(wire[r][d]) \cap Range(inbox[d][r]) = {}
          BY <1>t, <2>1 DEF PlacesInv, LanePlaces
        <5>4. /\ IsInjective(Append(wire[r][d], c))
              /\ Range(Append(wire[r][d], c)) = Range(wire[r][d]) \cup {c}
          BY <5>1, <5>2, <5>3, AppendFresh
        <5> QED
          BY <4>2, <5>1, <5>2, <5>3, <5>4
      <4> QED
        BY <4>1, <4>2
    <3> QED
      BY <1>t, <2>2, <3>1, <3>2, <3>3 DEF PlacesInv, LanePlaces
  <2> QED
    BY <2>3, <2>4 DEF PlacesInv
<1>6. CASE Receives(r)
  <2>1. FlightKept /\ UNCHANGED <<cur, to_send, ready>>
    BY <1>6, FlightOfReceives DEF Receives, userVars
  <2>2. ASSUME NEW x \in Rank, NEW y \in Rank PROVE LanePlaces(x, y)'
    <3>1. CASE y = r
      <4>1. Cut(wire[x][r], inbox'[r][x], wire'[x][r])
        BY <1>6 DEF Receives
      <4>2. /\ IsInjective(wire'[x][r]) /\ IsInjective(inbox'[r][x])
            /\ Range(wire'[x][r]) \cap Range(inbox'[r][x]) = {}
        BY <4>1 DEF Cut
      <4> QED
        BY <1>t, <2>1, <3>1, <4>2 DEF PlacesInv, LanePlaces, FlightKept
    <3>2. CASE y # r
      <4>1. wire'[x][y] = wire[x][y] /\ inbox'[y][x] = inbox[y][x]
        BY <1>6, <3>2 DEF Receives
      <4> QED
        BY <1>t, <2>1, <4>1 DEF PlacesInv, LanePlaces, FlightKept
    <3> QED
      BY <3>1, <3>2
  <2> QED
    BY <1>t, <2>1, <2>2 DEF PlacesInv, HomePlaces
<1>7. ASSUME NEW s \in Rank, NEW c \in Chunk, NEW b \in Seq(Chunk), ReceivesFrom(r, s, c, b)
      PROVE  PlacesInv'
  <2>1. /\ FlightEnds(s, r, c) /\ \A x \in Rank : Unsent(x)' = Unsent(x)
        /\ \A x, y \in Rank : OnLane(x, y)' \subseteq OnLane(x, y)
    BY <1>7, FlightOfReceivesFrom
  <2>2. /\ inbox' = [inbox EXCEPT ![r][s] = b] /\ IsInjective(b)
        /\ Range(b) = Range(inbox[r][s]) \ {c}
        /\ UNCHANGED <<cur, to_send, ready, wire>>
    BY <1>7 DEF ReceivesFrom, userVars, mpeVars
  <2>3. ASSUME NEW x \in Rank, NEW y \in Rank PROVE LanePlaces(x, y)'
    <3>1. InFlight(x, y)' \subseteq InFlight(x, y)
      BY <2>1 DEF FlightEnds
    <3>2. \A z, e \in InFlight(x, y)' : z.nth = e.nth => z = e
      BY <1>t, <3>1, UniqueStays
    <3>3. OnLane(x, y)' \cap Unsent(x)' = {}
      BY <1>t, <2>1 DEF PlacesInv, LanePlaces
    <3>4. IsInjective(inbox'[y][x]) /\ Range(inbox'[y][x]) \subseteq Range(inbox[y][x])
      <4>1. CASE x # s \/ y # r
        <5>1. inbox'[y][x] = inbox[y][x]
          BY <1>t, <2>2, <4>1 DEF ProgressTypes
        <5> QED
          BY <1>t, <5>1 DEF PlacesInv, LanePlaces
      <4>2. CASE x = s /\ y = r
        <5>1. inbox'[r][s] = b
          BY <1>t, <2>2 DEF ProgressTypes
        <5> QED
          BY <2>2, <4>2, <5>1
      <4> QED
        BY <4>1, <4>2
    <3> QED
      BY <1>t, <2>2, <3>2, <3>3, <3>4 DEF PlacesInv, LanePlaces
  <2> QED
    BY <1>t, <2>2, <2>3 DEF PlacesInv, HomePlaces
<1>8. CASE finish_mpe(r)
  <2>1. FlightKept /\ UNCHANGED <<cur, to_send, ready, inbox>>
    BY <1>8, FlightOfReceives DEF finish_mpe, userVars
  <2>2. ASSUME NEW x \in Rank, NEW y \in Rank PROVE LanePlaces(x, y)'
    <3>1. IsInjective(wire'[x][y]) /\ Range(wire'[x][y]) \cap Range(inbox[y][x]) = {}
      <4>1. CASE wire'[x][y] = wire[x][y]
        BY <1>t, <4>1 DEF PlacesInv, LanePlaces
      <4>2. CASE wire'[x][y] # wire[x][y]
        <5>1. ~ mpe_finish_called[r] /\ x = r
          BY <1>t, <1>8, <4>2 DEF finish_mpe, ProgressTypes
        <5>2. wire'[x][y] = Append(wire[x][y], Term)
          <6>1. wire' = [wire EXCEPT ![r] =
                   [d \in Rank |-> IF d = r THEN wire[r][d] ELSE Append(wire[r][d], Term)]]
            BY <1>8, <4>2 DEF finish_mpe
          <6>2. wire'[r] = [d \in Rank |-> IF d = r THEN wire[r][d] ELSE Append(wire[r][d], Term)]
            BY <1>t, <6>1 DEF ProgressTypes
          <6> QED
            BY <4>2, <5>1, <6>2
        <5>3. wire[x][y] \in Seq(Chunk \cup {Term}) /\ Term \notin Range(wire[x][y])
          BY <1>t, <5>1 DEF ProgressTypes, IInv, MarkerInv, LaneAt
        <5>4. Term \notin Range(inbox[y][x])
          <6>1. inbox[y][x] \in Seq(Chunk)
            BY <1>t DEF ProgressTypes
          <6>2. Range(inbox[y][x]) \subseteq Chunk
            BY <6>1 DEF Range
          <6> QED
            BY <6>2, Chunks
        <5>5. IsInjective(wire[x][y]) /\ Range(wire[x][y]) \cap Range(inbox[y][x]) = {}
          BY <1>t DEF PlacesInv, LanePlaces
        <5>6. /\ IsInjective(Append(wire[x][y], Term))
              /\ Range(Append(wire[x][y], Term)) = Range(wire[x][y]) \cup {Term}
          BY <5>3, <5>5, AppendFresh
        <5> QED
          BY <5>2, <5>4, <5>5, <5>6
      <4> QED
        BY <4>1, <4>2
    <3> QED
      BY <1>t, <2>1, <3>1 DEF PlacesInv, LanePlaces, FlightKept
  <2> QED
    BY <1>t, <2>1, <2>2 DEF PlacesInv, HomePlaces
<1>9. CASE Quiet(r)
  <2>1. PipelineKept /\ HandsKept
    BY <1>9, QuietSteps
  <2>2. FlightKept
    BY <2>1, FlightOfQuiet
  <2>3. ASSUME NEW x \in Rank PROVE HomePlaces(x)'
    BY <1>t, <2>1 DEF PipelineKept, HandsKept, PlacesInv, HomePlaces
  <2>4. ASSUME NEW x \in Rank, NEW y \in Rank PROVE LanePlaces(x, y)'
    BY <1>t, <2>1, <2>2 DEF PipelineKept, PlacesInv, LanePlaces, FlightKept
  <2> QED
    BY <2>3, <2>4 DEF PlacesInv
<1>10. ASSUME NEW d \in Rank, NEW c \in Chunk, MakesData(r, d, c) PROVE PlacesInv'
  <2>1. owner(c) = d
    BY <1>10 DEF MakesData
  <2> QED
    BY <1>1, <1>10, <2>1
<1>11. ASSUME NEW c \in Chunk, MakesControl(r, c) PROVE PlacesInv'
  BY <1>1, <1>11, Chunks
<1> QED
  BY <1>2, <1>3, <1>4, <1>5, <1>6, <1>7, <1>8, <1>9, <1>10, <1>11, stepCases

-----------------------------------------------------------------------------
(* The invariant holds, and with it the first two properties. *)

\* Nothing is in hand, queued or on the wire when the shuffler is constructed.
LEMMA InitIInv == Init => IInv
<1> SUFFICES ASSUME Init PROVE IInv
  OBVIOUS
<1>1. UserTypes
  <2>1. 0 \in 0 .. NRanks /\ 0 \in Nat /\ <<>> \in Seq(Chunk)
    BY Ranks
  <2> QED
    BY <2>1 DEF Init, UserTypes, UserPlaces
<1>2. ProgressTypes /\ FlagTypes
  BY DEF Init, ProgressTypes, FlagTypes, ProgressPlaces
<1>3. DataTypes
  BY DEF Init, DataTypes, Counters
<1>4. UserInv /\ LoopInv
  BY Ranks, InsertsAssumption DEF Init, UserInv, UserAt, LoopInv, LoopAt, Later, Tallying
<1>e. Range(<<>>) = {}
  BY DEF Range
<1>5. \A s, d \in Rank : Range(wire[s][d]) = {} /\ Range(inbox[d][s]) = {}
  BY <1>e DEF Init
<1>6. \A s \in Rank : Range(to_send[s]) = {} /\ Range(ready[s]) = {} /\ cur[s] = NoChunk
  BY <1>e DEF Init
<1>7. MarkerInv
  <2>1. \A s \in Rank : FinishAt(s)
    BY DEF Init, FinishAt, Later
  <2>2. \A s, d \in Rank : LaneAt(s, d)
    BY <1>5 DEF Init, LaneAt, MarkerLast
  <2> QED
    BY <2>1, <2>2 DEF MarkerInv
<1>8. ShutdownInv
  BY DEF Init, ShutdownInv, ShutdownAt
<1>9. ChunksInv
  <2>1. \A s \in Rank : HomeChunks(s) /\ HeldChunk(s)
    BY <1>6 DEF Init, HomeChunks, HeldChunk
  <2>2. \A s, d \in Rank : LaneChunks(s, d)
    BY <1>5 DEF LaneChunks, OnLane
  <2> QED
    BY <2>1, <2>2 DEF ChunksInv
<1>10. PlacesInv
  <2>1. IsInjective(<<>>)
    BY DEF IsInjective
  <2>2. \A s, d \in Rank : InFlight(s, d) = {} /\ OnLane(s, d) = {}
    BY <1>5, <1>6 DEF InFlight, Unsent, OnLane
  <2>3. \A s \in Rank : HomePlaces(s)
    BY <1>6, <2>1 DEF Init, HomePlaces
  <2>4. \A s, d \in Rank : LanePlaces(s, d)
    BY <1>5, <2>1, <2>2 DEF Init, LanePlaces
  <2> QED
    BY <2>3, <2>4 DEF PlacesInv
<1> QED
  BY <1>1, <1>2, <1>3, <1>4, <1>7, <1>8, <1>9, <1>10 DEF IInv

\* Every step of the shuffler preserves the invariant.
LEMMA NextIInv == IInv /\ [Next]_vars => IInv'
<1> SUFFICES ASSUME IInv, [Next]_vars PROVE IInv'
  OBVIOUS
<1>1. UserTypes' /\ ProgressTypes' /\ FlagTypes' /\ DataTypes'
  BY UserTypesStep, ProgressTypesStep, FlagTypesStep, DataTypesStep
<1>2. UserInv' /\ LoopInv' /\ MarkerInv' /\ ShutdownInv'
  BY UserInvStep, LoopInvStep, MarkerInvStep, ShutdownInvStep
<1>3. ChunksInv' /\ PlacesInv'
  BY ChunksInvStep, PlacesInvStep
<1> QED
  BY <1>1, <1>2, <1>3 DEF IInv

\* The inductive invariant: the types of every variable, what the user thread and the
\* progress function have in hand at each of their places, where the termination
\* markers are, and that a chunk is in one place and its number is used once.
THEOREM ShufflerInvariant == Spec => []IInv
<1>1. Init => IInv
  BY InitIInv
<1>2. IInv /\ [Next]_vars => IInv'
  BY NextIInv
<1> QED
  BY <1>1, <1>2, PTL DEF Spec

\* finish() of the MPE is called when everything has been handed to it: nothing follows
\* the termination marker on any lane, however the two threads of a rank interleave.
THEOREM MarkersAreLast == Spec => []MarkerIsLast
<1>1. IInv => MarkerIsLast
  <2> SUFFICES ASSUME IInv, NEW s \in Rank, NEW d \in Rank
               PROVE  /\ \A i \in 1 .. Len(wire[s][d]) - 1 : wire[s][d][i] # Term
                      /\ s \in terminated[d] =>
                            wire[s][d] = <<>> /\ \A c \in Unsent(s) : owner(c) # d
    BY DEF MarkerIsLast
  <2>1. FinishAt(s) /\ LaneAt(s, d)
    BY DEF IInv, MarkerInv
  <2>2. ASSUME s \in terminated[d] PROVE Unsent(s) = {}
    <3>1. /\ locally_finished[s] /\ to_send[s] = <<>> /\ ready[s] = <<>>
          /\ upc[s] \in Later
      BY <2>1, <2>2 DEF FinishAt, LaneAt
    <3>2. ~ (upc[s] \in {"insert", "finish"})
      BY <3>1 DEF Later
    <3>3. Range(to_send[s]) = {} /\ Range(ready[s]) = {}
      BY <3>1 DEF Range
    <3> QED
      BY <3>2, <3>3 DEF Unsent
  <2> QED
    BY <2>1, <2>2 DEF LaneAt, MarkerLast
<1> QED
  BY <1>1, ShufflerInvariant, PTL

\* A user that waits before it shuts down leaves nothing behind: when the progress
\* function is done, the peers have been told and everything for this rank is received.
THEOREM ShutdownDrains == ASSUME WaitFirst PROVE Spec => []ShutdownIsDrained
<1>1. IInv => ShutdownIsDrained
  <2> SUFFICES ASSUME IInv, NEW r \in Rank, ppc[r] = "Done"
               PROVE  /\ to_send[r] = <<>> /\ mpe_finish_called[r]
                      /\ \A s \in Rank : wire[s][r] = <<>>
    BY DEF ShutdownIsDrained
  <2>1. mpe_finish_called[r] /\ terminated[r] = Rank \ {r}
    BY DEF IInv, ShutdownInv, ShutdownAt
  <2>2. to_send[r] = <<>> /\ wire[r][r] = <<>>
    BY <2>1 DEF IInv, MarkerInv, FinishAt
  <2>3. ASSUME NEW s \in Rank, s # r PROVE wire[s][r] = <<>>
    BY <2>1, <2>3 DEF IInv, MarkerInv, LaneAt
  <2> QED
    BY <2>1, <2>2, <2>3
<1> QED
  BY <1>1, ShufflerInvariant, PTL

-----------------------------------------------------------------------------
(* What a step does to the chunks of one destination and to its counter. *)

CountsKept(d) ==
    Announced(d)' = Announced(d) /\ \A x \in Rank : outbound'[x][d] = outbound[x][d]

StoreKept(d) ==
    /\ Collected(d)' = Collected(d)
    /\ received[d] \cap extracted[d] = {} => received'[d] \cap extracted'[d] = {}

CounterKept(d) == fc'[d] = fc[d] /\ fault'[d] = fault[d]

\* Nothing.
DestKept(d) ==
    /\ Inbound(d)' = Inbound(d) /\ Held(d)' = Held(d)
    /\ CountsKept(d) /\ StoreKept(d) /\ CounterKept(d)

\* Rank s makes chunk c for it, the next of its chunks: data, or the announcement.
Starts(s, d, c) ==
    /\ local_partitions(d) # {} /\ s \notin Announced(d)
    /\ extract_rank(c.cid) = s /\ c.nth = outbound[s][d] + 1
    /\ Inbound(d)' = Inbound(d) \cup {c} /\ Held(d)' = Held(d)
    /\ StoreKept(d) /\ CounterKept(d)

StartsData(s, d, c) ==
    /\ Starts(s, d, c) /\ c.expected = 0 /\ outbound[s][d] < MaxInserts
    /\ Announced(d)' = Announced(d)
    /\ \A x \in Rank : outbound'[x][d] = IF x = s THEN outbound[s][d] + 1 ELSE outbound[x][d]

Announces(s, d, c) ==
    /\ Starts(s, d, c) /\ c.expected = outbound[s][d] + 1
    /\ Announced(d)' = Announced(d) \cup {s}
    /\ \A x \in Rank : outbound'[x][d] = outbound[x][d]

\* One of its threads begins to insert chunk c of rank s.
Accepts(s, d, c) ==
    /\ c \in Inbound(d) /\ Numbered(s, c) /\ owner(c) = d
    /\ Inbound(d)' = Inbound(d) \ {c} /\ Held(d)' = Held(d) \cup {c}
    /\ CountsKept(d) /\ extracted' = extracted
    /\ insert_into_received(d, c)

\* One of its threads has inserted chunk c.
Tallies(d, c) ==
    /\ c \in Held(d) /\ Held(d)' = Held(d) \ {c} /\ Inbound(d)' = Inbound(d)
    /\ CountsKept(d) /\ StoreKept(d)
    /\ add_finished_chunk(d)

\* When nothing changes in flight for a destination, nothing changes inbound.
LEMMA InboundKept ==
  ASSUME NEW d \in Rank, \A x \in Rank : InFlight(x, d)' = InFlight(x, d)
  PROVE  Inbound(d)' = Inbound(d)
<1>1. \A c : c \in Inbound(d) <=> \E x \in Rank : c \in InFlight(x, d)
  BY DEF Inbound
<1>2. \A c : c \in Inbound(d)' <=> \E x \in Rank : c \in InFlight(x, d)'
  BY DEF Inbound
<1> QED
  BY <1>1, <1>2

\* A chunk that starts is inbound for its destination, and for no other.
LEMMA InboundBegins ==
  ASSUME NEW s \in Rank, NEW d \in Rank, NEW c, FlightBegins(s, d, c)
  PROVE  /\ Inbound(d)' = Inbound(d) \cup {c}
         /\ \A y \in Rank : y # d => Inbound(y)' = Inbound(y)
<1>1. \A e : e \in Inbound(d) <=> \E x \in Rank : e \in InFlight(x, d)
  BY DEF Inbound
<1>2. \A e : e \in Inbound(d)' <=> \E x \in Rank : e \in InFlight(x, d)'
  BY DEF Inbound
<1>3. \A x \in Rank : x # s => InFlight(x, d)' = InFlight(x, d)
  BY DEF FlightBegins
<1>4. InFlight(s, d)' = InFlight(s, d) \cup {c}
  BY DEF FlightBegins
<1>5. ASSUME NEW y \in Rank, y # d PROVE Inbound(y)' = Inbound(y)
  <2>1. \A x \in Rank : InFlight(x, y)' = InFlight(x, y)
    BY <1>5 DEF FlightBegins
  <2> QED
    BY <2>1, InboundKept
<1> QED
  BY <1>1, <1>2, <1>3, <1>4, <1>5

\* A chunk that arrives is no longer inbound.
LEMMA InboundEnds ==
  ASSUME IInv, NEW s \in Rank, NEW d \in Rank, NEW c, FlightEnds(s, d, c)
  PROVE  /\ c \in Inbound(d) /\ Inbound(d)' = Inbound(d) \ {c}
         /\ \A y \in Rank : y # d => Inbound(y)' = Inbound(y)
<1>1. \A e : e \in Inbound(d) <=> \E x \in Rank : e \in InFlight(x, d)
  BY DEF Inbound
<1>2. \A e : e \in Inbound(d)' <=> \E x \in Rank : e \in InFlight(x, d)'
  BY DEF Inbound
<1>3. \A x \in Rank : x # s => InFlight(x, d)' = InFlight(x, d)
  BY DEF FlightEnds
<1>4. c \in InFlight(s, d) /\ InFlight(s, d)' = InFlight(s, d) \ {c}
  BY DEF FlightEnds
<1>5. ASSUME NEW y \in Rank, y # d PROVE Inbound(y)' = Inbound(y)
  <2>1. \A x \in Rank : InFlight(x, y)' = InFlight(x, y)
    BY <1>5 DEF FlightEnds
  <2> QED
    BY <2>1, InboundKept
<1>6. \A x \in Rank : x # s => c \notin InFlight(x, d)
  <2>1. extract_rank(c.cid) = s
    BY <1>4, FlightIsNumbered DEF Numbered
  <2>2. \A x \in Rank : c \in InFlight(x, d) => extract_rank(c.cid) = x
    BY FlightIsNumbered DEF Numbered
  <2> QED
    BY <2>1, <2>2
<1> QED
  BY <1>1, <1>2, <1>3, <1>4, <1>5, <1>6

\* What the two threads of a rank hold are chunks of different ranks.
LEMMA HeldApart ==
  ASSUME IInv, NEW d \in Rank, upc[d] \in Tallying, pcur[d] # NoChunk
  PROVE  extract_rank(cur[d].cid) = d /\ extract_rank(pcur[d].cid) # d /\ cur[d] # pcur[d]
<1>1. cur[d] # NoChunk
  BY DEF IInv, UserInv, UserAt
<1>2. extract_rank(cur[d].cid) = d
  BY <1>1 DEF IInv, ChunksInv, HomeChunks, Numbered
<1>3. extract_rank(pcur[d].cid) # d
  BY DEF IInv, ChunksInv, HeldChunk, Numbered
<1> QED
  BY <1>2, <1>3

\* Received, extracted and counted chunks of a destination are kept by a step that
\* changes none of their variables there.
LEMMA SideKept ==
  ASSUME NEW d, UNCHANGED <<received, extracted>>
  PROVE  StoreKept(d)
BY DEF StoreKept, Collected

\* So are its counts.
LEMMA CountKept ==
  ASSUME NEW d, UNCHANGED <<outbound, fin>>
  PROVE  CountsKept(d)
BY DEF CountsKept, Announced

\* A step that leaves the places and the pointers of both threads alone keeps what they hold.
LEMMA HeldKept ==
  ASSUME NEW d, upc'[d] = upc[d] \/ (upc[d] \notin Tallying /\ upc'[d] \notin Tallying),
         upc[d] \in Tallying => cur'[d] = cur[d], pcur'[d] = pcur[d]
  PROVE  Held(d)' = Held(d)
BY DEF Held, Tallying

\* The disjunction of the ways a step may concern destination d.
DestStep(d) ==
    \/ DestKept(d)
    \/ \E s \in Rank, c \in Chunk : StartsData(s, d, c) \/ Announces(s, d, c) \/ Accepts(s, d, c)
    \/ \E c \in Chunk : Tallies(d, c)

\* A data chunk is counted for its destination when it is made.
LEMMA DestOfMakesData ==
  ASSUME IInv, NEW r \in Rank, NEW e \in Rank, NEW c \in Chunk, MakesData(r, e, c), NEW d \in Rank
  PROVE  DestStep(d)
<1>t. UserTypes /\ UserAt(r)
  BY DEF IInv, UserInv
<1>1. /\ extract_rank(c.cid) = r /\ owner(c) = e /\ c.expected = 0 /\ c.nth = outbound[r][e] + 1
      /\ upc[r] = "insert" /\ cid[r] < MaxInserts /\ cur[r] = NoChunk
      /\ outbound' = [outbound EXCEPT ![r][e] = @ + 1] /\ cur' = [cur EXCEPT ![r] = c]
      /\ UNCHANGED <<upc, fin, pcur, received, extracted, fc, fault>>
  BY DEF MakesData, progressVars
<1>2. FlightBegins(r, e, c)
  BY <1>1, FlightOfMakes
<1>3. Held(d)' = Held(d)
  <2>1. upc[d] \in Tallying => d # r
    BY <1>1 DEF Tallying
  <2>2. upc[d] \in Tallying => cur'[d] = cur[d]
    BY <1>t, <1>1, <2>1 DEF UserTypes
  <2> QED
    BY <1>1, <2>2, HeldKept
<1>4. StoreKept(d) /\ CounterKept(d) /\ Announced(d)' = Announced(d)
  <2>1. Announced(d)' = Announced(d)
    BY <1>1 DEF Announced
  <2> QED
    BY <1>1, <2>1, SideKept DEF CounterKept
<1>5. CASE d = e
  <2>1. Inbound(d)' = Inbound(d) \cup {c}
    BY <1>2, <1>5, InboundBegins
  <2>2. local_partitions(d) # {}
    BY <1>1, <1>5, Chunks DEF local_partitions
  <2>3. r \notin Announced(d)
    <3>1. fin[r] = 0 /\ d \in Nat
      BY <1>t, <1>1, Ranks DEF UserAt
    <3> QED
      BY <3>1 DEF Announced
  <2>4. outbound[r][d] < MaxInserts
    <3>1. /\ outbound[r][d] \in Nat /\ cid[r] \in Nat /\ outbound[r][d] <= cid[r]
          /\ MaxInserts \in Nat
      BY <1>t, <1>1, InsertsAssumption DEF UserTypes, UserAt
    <3> QED
      BY <1>1, <3>1
  <2>5. \A x \in Rank : outbound'[x][d] = IF x = r THEN outbound[r][d] + 1 ELSE outbound[x][d]
    BY <1>t, <1>1, <1>5 DEF UserTypes
  <2>6. Starts(r, d, c)
    BY <1>1, <1>3, <1>4, <1>5, <2>1, <2>2, <2>3 DEF Starts
  <2>7. StartsData(r, d, c)
    BY <1>1, <1>4, <2>4, <2>5, <2>6 DEF StartsData
  <2> QED
    BY <2>7 DEF DestStep
<1>6. CASE d # e
  <2>1. Inbound(d)' = Inbound(d)
    BY <1>2, <1>6, InboundBegins
  <2>2. \A x \in Rank : outbound'[x][d] = outbound[x][d]
    BY <1>t, <1>1, <1>6 DEF UserTypes
  <2> QED
    BY <1>3, <1>4, <2>1, <2>2 DEF DestKept, DestStep, CountsKept
<1> QED
  BY <1>5, <1>6

\* A control message announces the count of its destination when it is made.
LEMMA DestOfMakesControl ==
  ASSUME IInv, NEW r \in Rank, NEW c \in Chunk, MakesControl(r, c), NEW d \in Rank
  PROVE  DestStep(d)
<1>t. UserTypes
  BY DEF IInv
<1> DEFINE e == fin[r]
<1>1. /\ extract_rank(c.cid) = r /\ owner(c) = e /\ c.expected = outbound[r][e] + 1
      /\ c.nth = outbound[r][e] + 1 /\ e \in Rank /\ local_partitions(e) # {}
      /\ upc[r] = "finish" /\ fin' = [fin EXCEPT ![r] = @ + 1]
      /\ cur' = [cur EXCEPT ![r] = c]
      /\ UNCHANGED <<upc, outbound, pcur, received, extracted, fc, fault>>
  BY DEF MakesControl, progressVars
<1>2. FlightBegins(r, e, c)
  BY <1>1, FlightOfMakes
<1>3. Held(d)' = Held(d)
  <2>1. upc[d] \in Tallying => d # r
    BY <1>1 DEF Tallying
  <2>2. upc[d] \in Tallying => cur'[d] = cur[d]
    BY <1>t, <1>1, <2>1 DEF UserTypes
  <2> QED
    BY <1>1, <2>2, HeldKept
<1>4. StoreKept(d) /\ CounterKept(d)
  BY <1>1, SideKept DEF CounterKept
<1>5. /\ fin'[r] = fin[r] + 1 /\ fin[r] \in Nat /\ d \in Nat
      /\ \A x \in Rank : x # r => fin'[x] = fin[x]
  BY <1>t, <1>1, Ranks DEF UserTypes
<1>6. CASE d = e
  <2>1. Inbound(d)' = Inbound(d) \cup {c}
    BY <1>1, <1>2, <1>6, InboundBegins
  <2>2. r \notin Announced(d)
    BY <1>5, <1>6 DEF Announced
  <2>3. Announced(d)' = Announced(d) \cup {r}
    BY <1>1, <1>5, <1>6 DEF Announced
  <2>4. Starts(r, d, c)
    BY <1>1, <1>3, <1>4, <1>6, <2>1, <2>2 DEF Starts
  <2>5. Announces(r, d, c)
    BY <1>1, <1>6, <2>3, <2>4 DEF Announces
  <2> QED
    BY <2>5 DEF DestStep
<1>7. CASE d # e
  <2>1. Inbound(d)' = Inbound(d)
    BY <1>1, <1>2, <1>7, InboundBegins
  <2>2. \A x \in Rank : fin'[x] > d <=> fin[x] > d
    BY <1>5, <1>7
  <2>3. CountsKept(d)
    BY <1>1, <2>2 DEF CountsKept, Announced
  <2> QED
    BY <1>3, <1>4, <2>1, <2>3 DEF DestKept, DestStep
<1> QED
  BY <1>6, <1>7

\* What insert_into_received() of one rank leaves alone on the others.
LEMMA OthersKept ==
  ASSUME IInv, NEW r \in Rank, NEW d \in Rank, d # r, UNCHANGED extracted,
         (\E c : insert_into_received(r, c)) \/ (add_finished_chunk(r) /\ UNCHANGED received)
  PROVE  StoreKept(d) /\ CounterKept(d)
<1>t. DataTypes
  BY DEF IInv
<1>1. ASSUME NEW c, insert_into_received(r, c)
      PROVE  received'[d] = received[d] /\ fc'[d] = fc[d] /\ fault'[d] = fault[d]
  <2>1. CASE is_control_message(c)
    BY <1>t, <1>1, <2>1 DEF insert_into_received, move_goalpost, DataTypes
  <2>2. CASE ~ is_control_message(c)
    BY <1>t, <1>1, <2>2 DEF insert_into_received, DataTypes
  <2> QED
    BY <2>1, <2>2
<1>2. CASE add_finished_chunk(r) /\ UNCHANGED received
  BY <1>t, <1>2 DEF add_finished_chunk, DataTypes, StoreKept, Collected, CounterKept
<1> QED
  BY <1>1, <1>2 DEF StoreKept, Collected, CounterKept

\* A chunk for the own rank is accepted at once.
LEMMA DestOfReceivesOwn ==
  ASSUME IInv, NEW r \in Rank, ReceivesOwn(r), NEW d \in Rank
  PROVE  DestStep(d)
<1>t. UserTypes /\ HomeChunks(r)
  BY DEF IInv, ChunksInv
<1> DEFINE c == cur[r]
<1>1. /\ upc[r] \in {"insert", "finish"} /\ c \in Chunk /\ owner(c) = r
      /\ upc' = [upc EXCEPT ![r] = IF @ = "insert" THEN "insert_tally" ELSE "finish_tally"]
      /\ insert_into_received(r, c)
      /\ UNCHANGED <<cur, fin, outbound, pcur, extracted>>
  BY DEF ReceivesOwn, progressVars
<1>2. FlightEnds(r, r, c)
  BY FlightOfReceivesOwn
<1>3. CountsKept(d)
  BY <1>1, CountKept
<1>4. CASE d = r
  <2>1. c \in Inbound(d) /\ Inbound(d)' = Inbound(d) \ {c}
    BY <1>2, <1>4, InboundEnds
  <2>2. Held(d)' = Held(d) \cup {c}
    <3>1. upc[r] \notin Tallying /\ upc'[r] \in Tallying
      BY <1>t, <1>1 DEF UserTypes, Tallying
    <3> QED
      BY <1>1, <1>4, <3>1 DEF Held, Tallying
  <2>3. Numbered(r, c)
    BY <1>t, <1>1, Chunks DEF HomeChunks
  <2>4. Accepts(r, d, c)
    BY <1>1, <1>3, <1>4, <2>1, <2>2, <2>3 DEF Accepts
  <2> QED
    BY <1>1, <2>4 DEF DestStep
<1>5. CASE d # r
  <2>1. Inbound(d)' = Inbound(d)
    BY <1>2, <1>5, InboundEnds
  <2>2. Held(d)' = Held(d)
    BY <1>t, <1>1, <1>5, HeldKept DEF UserTypes
  <2>3. StoreKept(d) /\ CounterKept(d)
    BY <1>1, <1>5, OthersKept
  <2> QED
    BY <1>3, <2>1, <2>2, <2>3 DEF DestKept, DestStep
<1> QED
  BY <1>4, <1>5

\* So is a chunk of a peer, by the progress function.
LEMMA DestOfReceivesFrom ==
  ASSUME IInv, NEW r \in Rank, NEW s \in Rank, NEW c \in Chunk, NEW b, ReceivesFrom(r, s, c, b),
         NEW d \in Rank
  PROVE  DestStep(d)
<1>t. ProgressTypes
  BY DEF IInv
<1>1. /\ ppc[r] = "insert" /\ owner(c) = r /\ pcur' = [pcur EXCEPT ![r] = c]
      /\ insert_into_received(r, c)
      /\ UNCHANGED <<upc, cur, fin, outbound, extracted>>
  BY DEF ReceivesFrom, userVars
<1>2. FlightEnds(s, r, c) /\ Numbered(s, c)
  BY FlightOfReceivesFrom
<1>3. CountsKept(d)
  BY <1>1, CountKept
<1>4. CASE d = r
  <2>1. c \in Inbound(d) /\ Inbound(d)' = Inbound(d) \ {c}
    BY <1>2, <1>4, InboundEnds
  <2>2. Held(d)' = Held(d) \cup {c}
    <3>1. pcur[r] = NoChunk
      BY <1>1 DEF IInv, LoopInv, LoopAt
    <3>2. pcur'[r] = c /\ c # NoChunk
      BY <1>t, <1>1, Chunks DEF ProgressTypes
    <3> QED
      BY <1>1, <1>4, <3>1, <3>2 DEF Held
  <2>3. Accepts(s, d, c)
    BY <1>1, <1>2, <1>3, <1>4, <2>1, <2>2 DEF Accepts
  <2> QED
    BY <2>3 DEF DestStep
<1>5. CASE d # r
  <2>1. Inbound(d)' = Inbound(d)
    BY <1>2, <1>5, InboundEnds
  <2>2. Held(d)' = Held(d)
    BY <1>t, <1>1, <1>5, HeldKept DEF ProgressTypes
  <2>3. StoreKept(d) /\ CounterKept(d)
    BY <1>1, <1>5, OthersKept
  <2> QED
    BY <1>3, <2>1, <2>2, <2>3 DEF DestKept, DestStep
<1> QED
  BY <1>4, <1>5

\* Both threads tally what they hold.
LEMMA DestOfTally ==
  ASSUME IInv, NEW r \in Rank, insert_chunk_tally(r) \/ insert_received_tally(r), NEW d \in Rank
  PROVE  DestStep(d)
<1>t. UserTypes /\ ProgressTypes
  BY DEF IInv
<1>1. add_finished_chunk(r) /\ UNCHANGED <<fin, outbound, received, extracted>>
  BY DEF insert_chunk_tally, insert_received_tally, userVars
<1>2. Quiet(r)
  BY DEF Quiet
<1>3. Inbound(d)' = Inbound(d)
  BY <1>2, QuietSteps, FlightOfQuiet, InboundKept DEF FlightKept
<1>4. CountsKept(d) /\ StoreKept(d)
  BY <1>1, CountKept, SideKept
<1>5. ASSUME NEW c \in Held(r), Held(r)' = Held(r) \ {c}, c \in Chunk,
             d # r => Held(d)' = Held(d)
      PROVE  DestStep(d)
  <2>1. CASE d = r
    <3>1. Tallies(d, c)
      BY <1>1, <1>3, <1>4, <1>5, <2>1 DEF Tallies
    <3> QED
      BY <1>5, <3>1 DEF DestStep
  <2>2. CASE d # r
    <3>1. CounterKept(d)
      BY <1>1, <2>2, OthersKept
    <3> QED
      BY <1>3, <1>4, <1>5, <2>2, <3>1 DEF DestKept, DestStep
  <2> QED
    BY <2>1, <2>2
<1>6. CASE insert_chunk_tally(r)
  <2>1. /\ upc[r] \in Tallying /\ pcur' = pcur
        /\ upc' = [upc EXCEPT ![r] = IF @ = "insert_tally" THEN "insert" ELSE "finish"]
        /\ cur' = [cur EXCEPT ![r] = NoChunk]
    BY <1>6 DEF insert_chunk_tally, Tallying, progressVars
  <2>2. upc'[r] \notin Tallying /\ (d # r => upc'[d] = upc[d] /\ cur'[d] = cur[d])
    BY <1>t, <2>1 DEF UserTypes, Tallying
  <2>3. cur[r] \in Chunk
    BY <1>t, <2>1 DEF UserTypes, IInv, UserInv, UserAt
  <2>4. pcur[r] # cur[r]
    BY <2>1, <2>3, HeldApart, Chunks
  <2>5. cur[r] \in Held(r) /\ Held(r)' = Held(r) \ {cur[r]}
    BY <2>1, <2>2, <2>4 DEF Held, Tallying
  <2>6. d # r => Held(d)' = Held(d)
    BY <2>1, <2>2, HeldKept
  <2> QED
    BY <1>5, <2>3, <2>5, <2>6
<1>7. CASE insert_received_tally(r)
  <2>1. ppc[r] = "tally" /\ UNCHANGED <<upc, cur>> /\ pcur' = [pcur EXCEPT ![r] = NoChunk]
    BY <1>7 DEF insert_received_tally, userVars
  <2>2. pcur'[r] = NoChunk /\ (d # r => pcur'[d] = pcur[d])
    BY <1>t, <2>1 DEF ProgressTypes
  <2>3. pcur[r] \in Chunk /\ pcur[r] # NoChunk
    BY <1>t, <2>1 DEF ProgressTypes, IInv, LoopInv, LoopAt
  <2>4. upc[r] \in Tallying => pcur[r] # cur[r]
    BY <2>3, HeldApart
  <2>5. pcur[r] \in Held(r) /\ Held(r)' = Held(r) \ {pcur[r]}
    BY <2>1, <2>2, <2>3, <2>4 DEF Held, Tallying
  <2>6. d # r => Held(d)' = Held(d)
    BY <2>1, <2>2, HeldKept
  <2> QED
    BY <1>5, <2>3, <2>5, <2>6
<1> QED
  BY <1>6, <1>7

\* The steps that concern no destination.
LEMMA DestOfOthers ==
  ASSUME IInv, NEW r \in Rank, NEW d \in Rank, FlightKept,
         \/ Queues(r) \/ (\E a, b : TakesReady(r, a, b)) \/ Receives(r)
         \/ finish_mpe(r) \/ Passes(r)
         \/ begin_insert_finished(r) \/ end_insert_finished(r) \/ wait(r)
         \/ (\E p \in Part : extract(r, p)) \/ shutdown(r) \/ remove_function(r)
         \/ check_containers(r) \/ wake_waiters(r)
  PROVE  DestKept(d)
<1>t. UserTypes /\ ProgressTypes /\ DataTypes
  BY DEF IInv
<1>1. Inbound(d)' = Inbound(d)
  BY InboundKept DEF FlightKept
<1>2. Held(d)' = Held(d)
  <2>1. CASE Queues(r)
    <3>1. /\ upc[r] \notin Tallying /\ UNCHANGED <<upc, pcur>>
          /\ cur' = [cur EXCEPT ![r] = NoChunk]
      BY <2>1 DEF Queues, progressVars, Tallying
    <3>2. upc[d] \in Tallying => cur'[d] = cur[d]
      BY <1>t, <3>1 DEF UserTypes
    <3> QED
      BY <3>1, <3>2, HeldKept
  <2>2. CASE UNCHANGED <<upc, cur, pcur>>
    BY <2>2, HeldKept
  <2>3. CASE \/ begin_insert_finished(r) \/ end_insert_finished(r) \/ wait(r)
             \/ shutdown(r) \/ remove_function(r)
    <3>1. /\ UNCHANGED <<cur, pcur>>
          /\ upc'[d] = upc[d] \/ (upc[d] \notin Tallying /\ upc'[d] \notin Tallying)
      BY <1>t, <2>3 DEF begin_insert_finished, end_insert_finished, wait, shutdown,
         remove_function, progressVars, UserTypes, Tallying
    <3> QED
      BY <3>1, HeldKept
  <2> QED
    BY <2>1, <2>2, <2>3 DEF TakesReady, Receives, finish_mpe, Passes, extract,
       check_containers, wake_waiters, userVars, progressVars
<1>3. CounterKept(d)
  <2>1. UNCHANGED <<fc, fault>>
    BY DEF TakesReady, Receives, finish_mpe, Passes, extract, Queues,
       check_containers, wake_waiters, begin_insert_finished, end_insert_finished, wait, shutdown,
       remove_function
  <2> QED
    BY <2>1 DEF CounterKept
<1>4. StoreKept(d)
  <2>1. CASE UNCHANGED <<received, extracted>>
    BY <2>1, SideKept
  <2>2. ASSUME NEW p \in Part, extract(r, p) PROVE StoreKept(d)
    <3>1. PICK A : /\ A \subseteq received[r]
                   /\ received' = [received EXCEPT ![r] = @ \ A]
                   /\ extracted' = [extracted EXCEPT ![r] = @ \cup A]
      BY <2>2 DEF extract
    <3>2. CASE d = r
      BY <1>t, <3>1, <3>2 DEF DataTypes, StoreKept, Collected
    <3>3. CASE d # r
      BY <1>t, <3>1, <3>3 DEF DataTypes, StoreKept, Collected
    <3> QED
      BY <3>2, <3>3
  <2> QED
    BY <2>1, <2>2 DEF TakesReady, Receives, finish_mpe, Passes, Queues,
       check_containers, wake_waiters, begin_insert_finished, end_insert_finished, wait, shutdown,
       remove_function
<1>5. CountsKept(d)
  <2>1. CASE UNCHANGED <<outbound, fin>>
    BY <2>1, CountKept
  <2>2. CASE Passes(r)
    <3>1. /\ local_partitions(fin[r]) = {} /\ fin[r] \in Rank /\ UNCHANGED outbound
          /\ fin' = [fin EXCEPT ![r] = @ + 1]
      BY <2>2 DEF Passes
    <3>2. /\ fin'[r] = fin[r] + 1 /\ fin[r] \in Nat /\ d \in Nat
          /\ \A x \in Rank : x # r => fin'[x] = fin[x]
      BY <1>t, <3>1, Ranks DEF UserTypes
    <3>3. local_partitions(d) # {} => \A x \in Rank : fin'[x] > d <=> fin[x] > d
      BY <3>1, <3>2
    <3> QED
      BY <3>1, <3>3 DEF CountsKept, Announced
  <2> QED
    BY <2>1, <2>2 DEF TakesReady, Receives, finish_mpe, Queues, extract, userVars,
       check_containers, wake_waiters, begin_insert_finished, end_insert_finished, wait, shutdown,
       remove_function
<1> QED
  BY <1>1, <1>2, <1>3, <1>4, <1>5 DEF DestKept

\* Every step concerns every destination in one of those ways.
LEMMA DestCases ==
  ASSUME IInv, [Next]_vars, NEW d \in Rank PROVE DestStep(d)
<1>0. CASE UNCHANGED vars
  <2>1. PipelineKept /\ UNCHANGED <<upc, cur, pcur, fin, outbound, received, extracted, fc, fault>>
    BY <1>0 DEF vars, userVars, progressVars, mpeVars, PipelineKept
  <2>2. HandsKept
    BY <2>1 DEF HandsKept, InHand
  <2>3. Inbound(d)' = Inbound(d)
    BY <2>1, <2>2, FlightOfQuiet, InboundKept DEF FlightKept
  <2>4. Held(d)' = Held(d)
    BY <2>1, HeldKept
  <2> QED
    BY <2>1, <2>3, <2>4, CountKept, SideKept DEF DestStep, DestKept, CounterKept
<1> SUFFICES ASSUME NEW r \in Rank, user(r) \/ progress(r) PROVE DestStep(d)
  BY <1>0 DEF Next, Terminated
<1>1. ASSUME NEW e \in Rank, NEW c \in Chunk, MakesData(r, e, c) PROVE DestStep(d)
  BY <1>1, DestOfMakesData
<1>2. ASSUME NEW c \in Chunk, MakesControl(r, c) PROVE DestStep(d)
  BY <1>2, DestOfMakesControl
<1>3. CASE Queues(r)
  BY <1>3, FlightOfQueues, DestOfOthers DEF DestStep
<1>4. CASE ReceivesOwn(r)
  BY <1>4, DestOfReceivesOwn
<1>5. ASSUME NEW a \in Seq(Chunk), NEW b \in Seq(Chunk), TakesReady(r, a, b) PROVE DestStep(d)
  <2>1. FlightKept
    BY <1>5, FlightOfTakesReady
  <2> QED
    BY <1>5, <2>1, DestOfOthers DEF DestStep
<1>6. ASSUME NEW c \in Chunk, NEW b \in Seq(Chunk), Sends(r, c, b) PROVE DestStep(d)
  <2>1. \A x \in Rank : InFlight(x, d)' = InFlight(x, d)
    BY <1>6, FlightOfSends
  <2>2. Inbound(d)' = Inbound(d)
    BY <2>1, InboundKept
  <2>3. UNCHANGED <<upc, cur, pcur, fin, outbound, received, extracted, fc, fault>>
    BY <1>6 DEF Sends, userVars
  <2> QED
    BY <2>2, <2>3, HeldKept, CountKept, SideKept DEF DestStep, DestKept, CounterKept
<1>7. CASE Receives(r)
  BY <1>7, FlightOfReceives, DestOfOthers DEF DestStep
<1>8. ASSUME NEW s \in Rank, NEW c \in Chunk, NEW b \in Seq(Chunk), ReceivesFrom(r, s, c, b)
      PROVE  DestStep(d)
  BY <1>8, DestOfReceivesFrom
<1>9. CASE finish_mpe(r)
  BY <1>9, FlightOfReceives, DestOfOthers DEF DestStep
<1>10. CASE insert_chunk_tally(r) \/ insert_received_tally(r)
  BY <1>10, DestOfTally
<1>11. CASE Quiet(r) /\ ~ (insert_chunk_tally(r) \/ insert_received_tally(r))
  <2>1. FlightKept
    BY <1>11, QuietSteps, FlightOfQuiet
  <2>2. DestKept(d)
    BY <1>11, <2>1, DestOfOthers, Zenon DEF Quiet
  <2> QED
    BY <2>2 DEF DestStep
<1> QED
  BY <1>1, <1>2, <1>3, <1>4, <1>5, <1>6, <1>7, <1>8, <1>9, <1>10, <1>11, stepCases, Zenon

-----------------------------------------------------------------------------
(* Every rank's finish counter implements FinishCounter. *)

\* A chunk inbound for d is known by its source and its number.
LEMMA InboundIsNumbered ==
  ASSUME IInv, NEW d \in Rank, NEW c \in Inbound(d)
  PROVE  /\ \E s \in Rank : c \in InFlight(s, d)
         /\ c \in Chunk /\ owner(c) = d /\ extract_rank(c.cid) \in Rank
         /\ Numbered(extract_rank(c.cid), c)
         /\ \A b \in Inbound(d) : Key(b) = Key(c) => b = c
<1>1. \A e : e \in Inbound(d) <=> \E x \in Rank : e \in InFlight(x, d)
  BY DEF Inbound
<1>2. PICK s \in Rank : c \in InFlight(s, d)
  BY <1>1
<1>3. Numbered(s, c) /\ owner(c) = d /\ c \in Chunk /\ extract_rank(c.cid) = s
  BY <1>2, FlightIsNumbered DEF Numbered
<1>4. ASSUME NEW b \in Inbound(d), Key(b) = Key(c) PROVE b = c
  <2>1. PICK x \in Rank : b \in InFlight(x, d)
    BY <1>1
  <2>2. extract_rank(b.cid) = x
    BY <2>1, FlightIsNumbered DEF Numbered
  <2>3. x = s /\ b.nth = c.nth
    BY <1>3, <1>4, <2>2 DEF Key
  <2> QED
    BY <1>2, <2>1, <2>3 DEF IInv, PlacesInv, LanePlaces
<1> QED
  BY <1>2, <1>3, <1>4

\* So is a chunk a thread of d holds.
LEMMA HeldIsNumbered ==
  ASSUME IInv, NEW d \in Rank, NEW c \in Held(d)
  PROVE  /\ c \in Chunk /\ owner(c) = d /\ extract_rank(c.cid) \in Rank
         /\ Numbered(extract_rank(c.cid), c)
         /\ \A b \in Held(d) : Key(b) = Key(c) => b = c
<1> DEFINE Known == /\ c \in Chunk /\ owner(c) = d /\ extract_rank(c.cid) \in Rank
                    /\ Numbered(extract_rank(c.cid), c)
<1>1. ASSUME upc[d] \in Tallying, c = cur[d] PROVE Known
  BY <1>1 DEF IInv, UserInv, UserAt, ChunksInv, HomeChunks, Numbered
<1>2. ASSUME c = pcur[d], pcur[d] # NoChunk PROVE Known
  BY <1>2 DEF IInv, ChunksInv, HeldChunk, Numbered
<1>3. (upc[d] \in Tallying /\ c = cur[d]) \/ (c = pcur[d] /\ pcur[d] # NoChunk)
  BY DEF Held, Tallying
<1>4. ASSUME NEW b \in Held(d), Key(b) = Key(c) PROVE b = c
  <2>1. (upc[d] \in Tallying /\ b = cur[d]) \/ (b = pcur[d] /\ pcur[d] # NoChunk)
    BY DEF Held, Tallying
  <2>2. extract_rank(b.cid) = extract_rank(c.cid)
    BY <1>4 DEF Key
  <2> QED
    BY <1>3, <2>1, <2>2, HeldApart
<1> QED
  BY <1>1, <1>2, <1>3, <1>4

Image(A) == {FCChunk(c) : c \in A}

\* The image of a set of chunks that are known by source and number.
LEMMA ImageOfSet ==
  ASSUME NEW A, NEW c
  PROVE  /\ Image(A \cup {c}) = Image(A) \cup {FCChunk(c)}
         /\ c \in A => FCChunk(c) \in Image(A)
         /\ c \in A /\ (\A b \in A : Key(b) = Key(c) => b = c) =>
               Image(A \ {c}) = Image(A) \ {FCChunk(c)}
<1>1. \A b : FCChunk(b) = FCChunk(c) => Key(b) = Key(c)
  BY DEF FCChunk, Key
<1> QED
  BY <1>1 DEF Image

\* A rank owns partitions when their number is not zero.
LEMMA OwnsPartitions ==
  ASSUME NEW d \in Rank
  PROVE  Cardinality(local_partitions(d)) \in Nat
         /\ (Cardinality(local_partitions(d)) > 0 <=> local_partitions(d) # {})
<1>1. IsFiniteSet(Part)
  BY PartsAssumption, FS_Interval DEF Part
<1>2. IsFiniteSet(local_partitions(d))
  BY <1>1, FS_Subset DEF local_partitions
<1> QED
  BY <1>2, FS_CardinalityType, FS_EmptySet

Sent(d) == [s \in Rank |-> outbound[s][d]]

\* The counter of rank d makes a step of FinishCounter.
LEMMA CounterStep ==
  ASSUME IInv, DataTypes', NEW d \in Rank, DestStep(d)
  PROVE  [FC(d)!CounterNext]_(FC(d)!counterVars)
<1>t. UserTypes /\ DataTypes
  BY DEF IInv
<1> DEFINE NL == Cardinality(local_partitions(d))
<1>p. NL \in Nat /\ (NL > 0 <=> local_partitions(d) # {})
  BY OwnsPartitions
<1>1. CASE DestKept(d)
  <2>1. /\ Sent(d)' = Sent(d) /\ Announced(d)' = Announced(d)
        /\ Image(Inbound(d))' = Image(Inbound(d)) /\ Image(Held(d))' = Image(Held(d))
        /\ fc'[d] = fc[d] /\ fault'[d] = fault[d]
    BY <1>1 DEF DestKept, CountsKept, CounterKept, Sent, Image
  <2>2. UNCHANGED FC(d)!counterVars
    BY <2>1 DEF FC!counterVars, Sent, Announced, Image
  <2> QED
    BY <2>2
<1>f. \A c : FCChunk(c) = [src |-> extract_rank(c.cid), seq |-> c.nth, expected |-> c.expected]
  BY DEF FCChunk
<1>2. ASSUME NEW s \in Rank, NEW c \in Chunk, StartsData(s, d, c) PROVE FC(d)!insert_data(s)
  <2>1. /\ local_partitions(d) # {} /\ s \notin Announced(d) /\ outbound[s][d] < MaxInserts
        /\ Announced(d)' = Announced(d) /\ Held(d)' = Held(d)
        /\ fc'[d] = fc[d] /\ fault'[d] = fault[d]
    BY <1>2 DEF StartsData, Starts, CounterKept
  <2>2. Sent(d)' = [Sent(d) EXCEPT ![s] = @ + 1]
    BY <1>2 DEF StartsData, Sent
  <2>3. FCChunk(c) = [src |-> s, seq |-> Sent(d)[s] + 1, expected |-> 0]
    BY <1>2, <1>f DEF StartsData, Starts, Sent
  <2>4. Image(Inbound(d))' = Image(Inbound(d)) \cup {FCChunk(c)}
    <3>1. Inbound(d)' = Inbound(d) \cup {c}
      BY <1>2 DEF StartsData, Starts
    <3>2. Image(Inbound(d))' = Image(Inbound(d)')
      BY DEF Image, FCChunk, extract_rank
    <3> QED
      BY <3>1, <3>2, ImageOfSet
  <2>5. Image(Held(d))' = Image(Held(d))
    BY <2>1 DEF Image
  <2> QED
    BY <1>p, <2>1, <2>2, <2>3, <2>4, <2>5 DEF FC!insert_data, Sent, Announced, Image
<1>3. ASSUME NEW s \in Rank, NEW c \in Chunk, Announces(s, d, c) PROVE FC(d)!insert_finished(s)
  <2>1. /\ local_partitions(d) # {} /\ s \notin Announced(d)
        /\ Announced(d)' = Announced(d) \cup {s} /\ Held(d)' = Held(d)
        /\ fc'[d] = fc[d] /\ fault'[d] = fault[d]
    BY <1>3 DEF Announces, Starts, CounterKept
  <2>2. Sent(d)' = Sent(d)
    BY <1>3 DEF Announces, Sent
  <2>3. FCChunk(c) = [src |-> s, seq |-> Sent(d)[s] + 1, expected |-> Sent(d)[s] + 1]
    BY <1>3, <1>f DEF Announces, Starts, Sent
  <2>4. Image(Inbound(d))' = Image(Inbound(d)) \cup {FCChunk(c)}
    <3>1. Inbound(d)' = Inbound(d) \cup {c}
      BY <1>3 DEF Announces, Starts
    <3>2. Image(Inbound(d))' = Image(Inbound(d)')
      BY DEF Image, FCChunk, extract_rank
    <3> QED
      BY <3>1, <3>2, ImageOfSet
  <2>5. Image(Held(d))' = Image(Held(d))
    BY <2>1 DEF Image
  <2> QED
    BY <1>p, <2>1, <2>2, <2>3, <2>4, <2>5 DEF FC!insert_finished, Sent, Announced, Image
<1>4. ASSUME NEW s \in Rank, NEW c \in Chunk, Accepts(s, d, c)
      PROVE  FCChunk(c) \in Image(Inbound(d)) /\ FC(d)!insert_into_received(FCChunk(c))
  <2>1. c \in Inbound(d) /\ extract_rank(c.cid) = s /\ CountsKept(d) /\ insert_into_received(d, c)
    BY <1>4 DEF Accepts, Numbered
  <2>2. Image(Inbound(d))' = Image(Inbound(d)) \ {FCChunk(c)} /\ FCChunk(c) \in Image(Inbound(d))
    <3>1. Inbound(d)' = Inbound(d) \ {c} /\ \A b \in Inbound(d) : Key(b) = Key(c) => b = c
      BY <1>4, <2>1, InboundIsNumbered DEF Accepts
    <3>2. Image(Inbound(d))' = Image(Inbound(d)')
      BY DEF Image, FCChunk, extract_rank
    <3> QED
      BY <2>1, <3>1, <3>2, ImageOfSet
  <2>3. Image(Held(d))' = Image(Held(d)) \cup {FCChunk(c)}
    <3>1. Held(d)' = Held(d) \cup {c}
      BY <1>4 DEF Accepts
    <3>2. Image(Held(d))' = Image(Held(d)')
      BY DEF Image, FCChunk, extract_rank
    <3> QED
      BY <3>1, <3>2, ImageOfSet
  <2>4. Sent(d)' = Sent(d) /\ Announced(d)' = Announced(d)
    BY <2>1 DEF CountsKept, Sent
  <2>5. FCChunk(c).src = s /\ FCChunk(c).expected = c.expected /\ c.expected \in Nat
    BY <1>f, <2>1 DEF Chunk
  <2>6. CASE ~ is_control_message(c)
    <3>1. UNCHANGED <<fc, fault>> /\ ~ (c.expected > 0)
      BY <2>1, <2>6 DEF insert_into_received, is_control_message
    <3> QED
      BY <2>2, <2>3, <2>4, <2>5, <3>1
         DEF FC!insert_into_received, FC!is_control_message, Sent, Announced, Image
  <2>7. CASE is_control_message(c)
    <3> DEFINE ok == s < nranks(d) /\ s \notin fc[d].reported
    <3>1. move_goalpost(d, c) /\ c.expected > 0 /\ c.expected # 0
      BY <2>1, <2>5, <2>7 DEF insert_into_received, is_control_message
    <3>2. s < nranks(d) <=> local_partitions(d) # {}
      BY Ranks DEF nranks
    <3>3. FC(d)!GoalpostMayMove(FCChunk(c)) <=> ok
      BY <1>p, <2>5, <3>1, <3>2 DEF FC!GoalpostMayMove, FC!known
    <3>4. ASSUME ok
          PROVE  /\ fc'[d].reported = fc[d].reported \cup {s}
                 /\ fc'[d].n_ranks_with_goalpost = fc[d].n_ranks_with_goalpost + 1
                 /\ fc'[d].total_chunk_goal = fc[d].total_chunk_goal + c.expected
                 /\ fc'[d].total_finished_chunks = fc[d].total_finished_chunks
                 /\ fault'[d] = fault[d]
      <4>1. fc' = [fc EXCEPT ![d].reported = @ \cup {s}, ![d].n_ranks_with_goalpost = @ + 1,
                             ![d].total_chunk_goal = @ + c.expected]
        BY <2>1, <3>1, <3>4 DEF move_goalpost
      <4>2. fault'[d] = fault[d]
        BY <1>t, <2>1, <3>1, <3>4 DEF move_goalpost, DataTypes
      <4>3. fc \in [Rank -> Counters]
        BY <1>t DEF DataTypes
      <4> QED
        BY <4>1, <4>2, <4>3 DEF Counters
    <3>5. ASSUME ~ ok PROVE fc' = fc /\ fault'[d] = TRUE
      <4>1. fc' = fc
        BY <2>1, <3>1, <3>5 DEF move_goalpost
      <4>2. fault'[d]
        BY <1>t, <2>1, <3>1, <3>5 DEF move_goalpost, DataTypes
      <4>3. fault'[d] \in BOOLEAN
        BY DEF DataTypes
      <4> QED
        BY <4>1, <4>2, <4>3, Zenon
    <3> HIDE DEF ok
    <3>6. FC(d)!move_goalpost(FCChunk(c))
      <4>1. CASE ok
        BY <2>5, <3>3, <3>4, <4>1 DEF FC!move_goalpost
      <4>2. CASE ~ ok
        BY <3>3, <3>5, <4>2 DEF FC!move_goalpost
      <4> QED
        BY <4>1, <4>2
    <3>7. fc'[d].total_finished_chunks = fc[d].total_finished_chunks
      BY <3>4, <3>5
    <3> QED
      BY <2>2, <2>3, <2>4, <2>5, <3>1, <3>6, <3>7
         DEF FC!insert_into_received, FC!is_control_message, Sent, Announced, Image
  <2> QED
    BY <2>2, <2>6, <2>7
<1>5. ASSUME NEW c \in Chunk, Tallies(d, c)
      PROVE  FCChunk(c) \in Image(Held(d)) /\ FC(d)!add_finished_chunk(FCChunk(c))
  <2>1. c \in Held(d) /\ CountsKept(d) /\ add_finished_chunk(d) /\ Inbound(d)' = Inbound(d)
    BY <1>5 DEF Tallies
  <2>2. Image(Held(d))' = Image(Held(d)) \ {FCChunk(c)} /\ FCChunk(c) \in Image(Held(d))
    <3>1. Held(d)' = Held(d) \ {c} /\ \A b \in Held(d) : Key(b) = Key(c) => b = c
      BY <1>5, <2>1, HeldIsNumbered DEF Tallies
    <3>2. Image(Held(d))' = Image(Held(d)')
      BY DEF Image, FCChunk, extract_rank
    <3> QED
      BY <2>1, <3>1, <3>2, ImageOfSet
  <2>3. Image(Inbound(d))' = Image(Inbound(d))
    BY <2>1 DEF Image
  <2>4. Sent(d)' = Sent(d) /\ Announced(d)' = Announced(d)
    BY <2>1 DEF CountsKept, Sent
  <2>5. fc'[d] = [fc[d] EXCEPT !.total_finished_chunks = @ + 1]
    BY <1>t, <2>1 DEF add_finished_chunk, DataTypes
  <2>6. /\ fc'[d].reported = fc[d].reported
        /\ fc'[d].n_ranks_with_goalpost = fc[d].n_ranks_with_goalpost
        /\ fc'[d].total_chunk_goal = fc[d].total_chunk_goal
        /\ fc'[d].total_finished_chunks = fc[d].total_finished_chunks + 1
    BY <1>t, <2>5 DEF DataTypes, Counters
  <2>7. fault'[d] <=> \/ fault[d]
                      \/ ~ (\/ fc[d].n_ranks_with_goalpost < nranks(d)
                            \/ fc'[d].total_finished_chunks <= fc[d].total_chunk_goal)
    <3> DEFINE f == [fc[d] EXCEPT !.total_finished_chunks = @ + 1]
               over == ~ (\/ f.n_ranks_with_goalpost < nranks(d)
                          \/ f.total_finished_chunks <= f.total_chunk_goal)
    <3>1. fault' = [fault EXCEPT ![d] = @ \/ over]
      BY <2>1 DEF add_finished_chunk
    <3> HIDE DEF over
    <3>2. fault'[d] <=> fault[d] \/ over
      BY <1>t, <3>1 DEF DataTypes
    <3> QED
      BY <2>5, <2>6, <3>2 DEF over
  <2>8. nranks(d) = FC(d)!nranks
    <3>1. nranks(d) = IF NL > 0 THEN Cardinality(Rank) ELSE 0
      BY <1>p, Ranks DEF nranks
    <3> QED
      BY <3>1 DEF FC!nranks, FC!Cardinality, Cardinality
  <2>9. fault'[d] = (\/ fault[d]
                     \/ ~ (\/ fc[d].n_ranks_with_goalpost < FC(d)!nranks
                           \/ fc'[d].total_finished_chunks <= fc[d].total_chunk_goal))
    <3>1. fault'[d] \in BOOLEAN /\ fault[d] \in BOOLEAN
      BY <1>t DEF DataTypes
    <3> QED
      BY <2>7, <2>8, <3>1, Zenon
  <2> QED
    BY <2>2, <2>3, <2>4, <2>6, <2>9 DEF FC!add_finished_chunk, Sent, Announced, Image
<1> QED
  <2>1. Image(Inbound(d)) = {FCChunk(c) : c \in Inbound(d)}
        /\ Image(Held(d)) = {FCChunk(c) : c \in Held(d)}
    BY DEF Image
  <2> QED
    BY <1>1, <1>2, <1>3, <1>4, <1>5, <2>1 DEF DestStep, FC!CounterNext

\* Nothing is counted when the shuffler is constructed.
LEMMA CounterBegins == ASSUME Init, NEW d \in Rank PROVE FC(d)!CounterInit
<1>1. Inbound(d) = {} /\ Held(d) = {}
  <2>1. \A s \in Rank : InFlight(s, d) = {}
    BY DEF Init, InFlight, Unsent, Range
  <2> QED
    BY <2>1 DEF Inbound, Held, Init
<1>2. {FCChunk(c) : c \in Inbound(d)} = {} /\ {FCChunk(c) : c \in Held(d)} = {}
  BY <1>1
<1>3. {s \in Rank : fin[s] > d} = {}
  BY Ranks DEF Init
<1>4. [s \in Rank |-> outbound[s][d]] = [s \in Rank |-> 0]
  BY DEF Init
<1>5. fault[d] = FALSE
  BY Zenon DEF Init
<1>6. /\ fc[d].reported = {} /\ fc[d].n_ranks_with_goalpost = 0
      /\ fc[d].total_chunk_goal = 0 /\ fc[d].total_finished_chunks = 0
  BY DEF Init
<1> QED
  BY <1>2, <1>3, <1>4, <1>5, <1>6 DEF FC!CounterInit

\* The shuffler calls every rank's finish counter the way FinishCounter says, and every
\* counter does what FinishCounter does.
THEOREM CountersRefine == Spec => CounterRefinement
<1>1. Init => \A d \in Rank : FC(d)!CounterInit
  BY CounterBegins
<1>2. IInv /\ [Next]_vars => [\A d \in Rank : [FC(d)!CounterNext]_(FC(d)!counterVars)]_vars
  <2> SUFFICES ASSUME IInv, [Next]_vars, NEW d \in Rank PROVE [FC(d)!CounterNext]_(FC(d)!counterVars)
    OBVIOUS
  <2>1. DataTypes' /\ DestStep(d)
    BY DataTypesStep, DestCases
  <2> QED
    BY <2>1, CounterStep
<1> QED
  BY <1>1, <1>2, ShufflerInvariant, PTL DEF Spec, CounterRefinement

-----------------------------------------------------------------------------
(* The totals of a finish counter: the steps of one destination. *)

\* The counts of the sources are numbers.
LEMMA CountTypes ==
  ASSUME IInv, NEW d \in Rank
  PROVE  /\ Announced(d) \subseteq Rank
         /\ \A s \in Rank : outbound[s][d] \in Nat /\ Count(s, d) \in Nat
<1>1. \A s \in Rank : outbound[s][d] \in Nat
  BY DEF IInv, UserTypes
<1> QED
  BY <1>1 DEF Announced, Count

\* The slots of a destination are pairs of a source and a number.
LEMMA InSlots ==
  ASSUME NEW d
  PROVE  \A k : k \in Slots(d) <=> \E s \in Rank : \E n \in 1 .. Count(s, d) : k = <<s, n>>
BY DEF Slots

\* Every chunk of a destination has a slot, and a control message the last of its source.
LEMMA SlotOf ==
  ASSUME IInv, NEW d \in Rank, NEW s \in Rank, NEW c \in Chunk, Numbered(s, c), owner(c) = d
  PROVE  /\ Key(c) \in Slots(d)
         /\ is_control_message(c) =>
               s \in Announced(d) /\ Key(c) = <<s, Count(s, d)>> /\ c.expected = Count(s, d)
         /\ ~ is_control_message(c) => c.nth \in 1 .. outbound[s][d] /\ Key(c) = <<s, c.nth>>
<1>1. Key(c) = <<s, c.nth>> /\ outbound[s][d] \in Nat
  BY CountTypes DEF Key, Numbered
<1>2. local_partitions(d) # {}
  BY Chunks DEF local_partitions
<1>3. CASE is_control_message(c)
  <2>1. c.expected = outbound[s][d] + 1 /\ c.nth = c.expected /\ s \in Announced(d)
    BY <1>2, <1>3 DEF Numbered, Announced
  <2>2. c.nth = Count(s, d) /\ c.nth \in 1 .. Count(s, d)
    BY <1>1, <2>1 DEF Count
  <2> QED
    BY <1>1, <1>3, <2>1, <2>2, InSlots
<1>4. CASE ~ is_control_message(c)
  <2>1. c.nth \in 1 .. outbound[s][d]
    BY <1>4 DEF Numbered
  <2>2. c.nth \in 1 .. Count(s, d)
    BY <1>1, <2>1 DEF Count
  <2> QED
    BY <1>1, <1>4, <2>1, <2>2, InSlots
<1> QED
  BY <1>3, <1>4

\* The chunks inbound and held have slots.
LEMMA KeysAreSlots ==
  ASSUME IInv, NEW d \in Rank
  PROVE  Keys(Inbound(d)) \subseteq Slots(d) /\ Keys(Held(d)) \subseteq Slots(d)
<1>1. ASSUME NEW c \in Inbound(d) PROVE Key(c) \in Slots(d)
  BY InboundIsNumbered, SlotOf
<1>2. ASSUME NEW c \in Held(d) PROVE Key(c) \in Slots(d)
  BY HeldIsNumbered, SlotOf
<1> QED
  BY <1>1, <1>2 DEF Keys

\* The keys of a set of chunks that are known by source and number.
LEMMA KeysOfSet ==
  ASSUME NEW A, NEW c
  PROVE  /\ Keys(A \cup {c}) = Keys(A) \cup {Key(c)}
         /\ c \in A => Key(c) \in Keys(A)
         /\ c \in A /\ (\A b \in A : Key(b) = Key(c) => b = c) =>
               Keys(A \ {c}) = Keys(A) \ {Key(c)}
BY DEF Keys

\* The keys of the next state are those of the chunks of the next state.
LEMMA KeysNext ==
  ASSUME NEW d
  PROVE  /\ Keys(Inbound(d))' = Keys(Inbound(d)') /\ Keys(Held(d))' = Keys(Held(d)')
         /\ Keys(Collected(d))' = Keys(Collected(d)')
BY DEF Keys, Key, extract_rank

\* A new chunk adds a slot, the next of its source.
LEMMA SlotsGrow ==
  ASSUME IInv, NEW d \in Rank, NEW s \in Rank, NEW c \in Chunk,
         StartsData(s, d, c) \/ Announces(s, d, c)
  PROVE  /\ Key(c) = <<s, Count(s, d)'>> /\ Key(c) \notin Slots(d)
         /\ Slots(d)' = Slots(d) \cup {Key(c)}
         /\ \A x \in Rank : x # s => Count(x, d)' = Count(x, d)
         /\ \A x \in Rank : x # s => (x \in Announced(d)' <=> x \in Announced(d))
<1>1. Starts(s, d, c)
  BY DEF StartsData, Announces
<1>2. s \notin Announced(d) /\ outbound[s][d] \in Nat /\ Count(s, d) = outbound[s][d]
  BY <1>1, CountTypes DEF Starts, Count
<1>3. Key(c) = <<s, Count(s, d) + 1>>
  BY <1>1, <1>2 DEF Starts, Key
<1>4. Count(s, d)' = Count(s, d) + 1
  <2>1. CASE StartsData(s, d, c)
    <3>1. outbound'[s][d] = outbound[s][d] + 1 /\ s \notin Announced(d)'
      BY <1>2, <2>1 DEF StartsData
    <3> QED
      BY <1>2, <3>1 DEF Count
  <2>2. CASE Announces(s, d, c)
    <3>1. outbound'[s][d] = outbound[s][d] /\ s \in Announced(d)'
      BY <2>2 DEF Announces
    <3> QED
      BY <1>2, <3>1 DEF Count
  <2> QED
    BY <2>1, <2>2
<1>5. ASSUME NEW x \in Rank, x # s
      PROVE  /\ x \in Announced(d)' <=> x \in Announced(d)
             /\ outbound'[x][d] = outbound[x][d]
  BY <1>5 DEF StartsData, Announces
<1>6. ASSUME NEW x \in Rank, x # s PROVE Count(x, d)' = Count(x, d)
  <2>1. /\ x \in Announced(d)' <=> x \in Announced(d)
        /\ outbound'[x][d] = outbound[x][d]
    BY <1>5, <1>6
  <2> QED
    BY <2>1 DEF Count
<1>7. \A k : k \in Slots(d)' <=> \E x \in Rank : \E n \in 1 .. Count(x, d)' : k = <<x, n>>
  BY DEF Slots
<1>8. 1 .. Count(s, d)' = (1 .. Count(s, d)) \cup {Count(s, d) + 1}
  BY <1>2, <1>4
<1>9. Count(s, d) + 1 \notin 1 .. Count(s, d)
  BY <1>2
<1>10. Slots(d)' = Slots(d) \cup {Key(c)}
  <2>1. ASSUME NEW k \in Slots(d)' PROVE k \in Slots(d) \cup {Key(c)}
    <3>1. PICK x \in Rank : \E n \in 1 .. Count(x, d)' : k = <<x, n>>
      BY <1>7
    <3> QED
      BY <1>3, <1>6, <1>8, <3>1, InSlots
  <2>2. ASSUME NEW k \in Slots(d) PROVE k \in Slots(d)'
    <3>1. PICK x \in Rank : \E n \in 1 .. Count(x, d) : k = <<x, n>>
      BY InSlots
    <3> QED
      BY <1>6, <1>7, <1>8, <3>1
  <2>3. Key(c) \in Slots(d)'
    BY <1>3, <1>7, <1>8
  <2> QED
    BY <2>1, <2>2, <2>3
<1>11. Key(c) \notin Slots(d)
  BY <1>3, <1>9, InSlots
<1> QED
  BY <1>3, <1>4, <1>5, <1>6, <1>10, <1>11

\* A new chunk is inbound and in no total yet.
LEMMA CounterOfStart ==
  ASSUME IInv, NEW d \in Rank, CounterAt(d), NEW s \in Rank, NEW c \in Chunk,
         StartsData(s, d, c) \/ Announces(s, d, c)
  PROVE  CounterAt(d)'
<1>1. /\ s \notin Announced(d) /\ Held(d)' = Held(d) /\ Inbound(d)' = Inbound(d) \cup {c}
      /\ fc'[d] = fc[d] /\ fault'[d] = fault[d]
  BY DEF StartsData, Announces, Starts, CounterKept
<1>2. /\ Key(c) = <<s, Count(s, d)'>> /\ Key(c) \notin Slots(d)
      /\ Slots(d)' = Slots(d) \cup {Key(c)}
      /\ \A x \in Rank : x # s => Count(x, d)' = Count(x, d)
      /\ \A x \in Rank : x # s => (x \in Announced(d)' <=> x \in Announced(d))
  BY SlotsGrow
<1>3. Keys(Inbound(d))' = Keys(Inbound(d)) \cup {Key(c)} /\ Keys(Held(d))' = Keys(Held(d))
  BY <1>1, KeysNext, KeysOfSet
<1>4. Keys(Inbound(d)) \subseteq Slots(d) /\ Keys(Held(d)) \subseteq Slots(d)
  BY KeysAreSlots
<1>5. s \notin fc[d].reported
  BY <1>1 DEF CounterAt
<1>6. IsFiniteSet(Slots(d)')
  BY <1>2, FS_AddElement DEF CounterAt
<1>7. {k \in Slots(d)' : k[1] \in fc[d].reported} = {k \in Slots(d) : k[1] \in fc[d].reported}
  BY <1>2, <1>5
<1>8. Slots(d)' \ (Keys(Inbound(d))' \cup Keys(Held(d))')
         = Slots(d) \ (Keys(Inbound(d)) \cup Keys(Held(d)))
  BY <1>2, <1>3, <1>4
<1>9. ASSUME NEW x \in Rank
      PROVE  x \in fc[d].reported <=>
                x \in Announced(d)' /\ <<x, Count(x, d)'>> \notin Keys(Inbound(d))'
  <2>1. CASE x = s
    BY <1>2, <1>3, <1>5, <2>1
  <2>2. CASE x # s
    BY <1>2, <1>3, <2>2 DEF CounterAt
  <2> QED
    BY <2>1, <2>2
<1>10. Keys(Inbound(d))' \cap Keys(Held(d))' = {}
  BY <1>2, <1>3, <1>4 DEF CounterAt
<1> QED
  BY <1>1, <1>6, <1>7, <1>8, <1>9, <1>10 DEF CounterAt

\* The slots depend on the counts alone.
LEMMA SlotsKept ==
  ASSUME NEW d, CountsKept(d)
  PROVE  /\ \A x \in Rank : Count(x, d)' = Count(x, d)
         /\ Slots(d)' = Slots(d) /\ Counted(d)' = Counted(d)
<1>1. Announced(d)' = Announced(d) /\ \A x \in Rank : outbound'[x][d] = outbound[x][d]
  BY DEF CountsKept
<1>2. ASSUME NEW x \in Rank PROVE Count(x, d)' = Count(x, d)
  BY <1>1 DEF Count
<1>3. \A k : k \in Slots(d)' <=> \E x \in Rank : \E n \in 1 .. Count(x, d)' : k = <<x, n>>
  BY DEF Slots
<1>4. Slots(d)' = Slots(d)
  BY <1>2, <1>3, InSlots
<1>5. Counted(d)' = Counted(d)
  BY <1>1 DEF Counted
<1> QED
  BY <1>2, <1>4, <1>5

\* When every rank has reported, the goal stands for every chunk.
LEMMA FullGoal ==
  ASSUME IInv, NEW d \in Rank, CounterAt(d)
  PROVE  /\ IsFiniteSet(fc[d].reported) /\ fc[d].n_ranks_with_goalpost <= NRanks
         /\ fc[d].n_ranks_with_goalpost = NRanks =>
               /\ fc[d].reported = Rank /\ Announced(d) = Rank
               /\ fc[d].total_chunk_goal = Cardinality(Slots(d))
<1>1. fc[d].reported \subseteq Rank
  BY DEF IInv, DataTypes, Counters
<1>2. /\ IsFiniteSet(fc[d].reported) /\ Cardinality(fc[d].reported) <= Cardinality(Rank)
      /\ Cardinality(fc[d].reported) = Cardinality(Rank) => fc[d].reported = Rank
  BY <1>1, Ranks, FS_Subset
<1>3. ASSUME fc[d].n_ranks_with_goalpost = NRanks
      PROVE  /\ fc[d].reported = Rank /\ Announced(d) = Rank
             /\ fc[d].total_chunk_goal = Cardinality(Slots(d))
  <2>1. fc[d].reported = Rank
    BY <1>2, <1>3, Ranks DEF CounterAt
  <2>2. Announced(d) = Rank
    BY <2>1, CountTypes DEF CounterAt
  <2>3. {k \in Slots(d) : k[1] \in fc[d].reported} = Slots(d)
    BY <2>1, InSlots
  <2> QED
    BY <2>1, <2>2, <2>3 DEF CounterAt
<1> QED
  BY <1>2, <1>3, Ranks DEF CounterAt

\* Accepting a chunk: only a control message moves the goalpost, by the number of
\* its source's chunks, and it is the first of its source.
LEMMA CounterOfAccept ==
  ASSUME IInv, NEW d \in Rank, CounterAt(d), NEW s \in Rank, NEW c \in Chunk, Accepts(s, d, c)
  PROVE  CounterAt(d)'
<1>t. DataTypes
  BY DEF IInv
<1>1. /\ c \in Inbound(d) /\ Numbered(s, c) /\ owner(c) = d /\ CountsKept(d)
      /\ insert_into_received(d, c)
  BY DEF Accepts
<1>2. /\ \A x \in Rank : Count(x, d)' = Count(x, d)
      /\ Slots(d)' = Slots(d) /\ Announced(d)' = Announced(d)
  BY <1>1, SlotsKept DEF CountsKept
<1>3. /\ Keys(Inbound(d))' = Keys(Inbound(d)) \ {Key(c)}
      /\ Keys(Held(d))' = Keys(Held(d)) \cup {Key(c)} /\ Key(c) \in Keys(Inbound(d))
  <2>1. /\ Inbound(d)' = Inbound(d) \ {c} /\ Held(d)' = Held(d) \cup {c}
        /\ \A b \in Inbound(d) : Key(b) = Key(c) => b = c
    BY <1>1, InboundIsNumbered DEF Accepts
  <2> QED
    BY <1>1, <2>1, KeysNext, KeysOfSet
<1>4. Keys(Inbound(d))' \cap Keys(Held(d))' = {}
  BY <1>3 DEF CounterAt
<1>5. Slots(d)' \ (Keys(Inbound(d))' \cup Keys(Held(d))')
         = Slots(d) \ (Keys(Inbound(d)) \cup Keys(Held(d)))
  BY <1>2, <1>3
<1>6. IsFiniteSet(Slots(d)')
  BY <1>2 DEF CounterAt
<1>7. CASE ~ is_control_message(c)
  <2>1. UNCHANGED <<fc, fault>>
    BY <1>1, <1>7 DEF insert_into_received
  <2>2. Key(c) = <<s, c.nth>> /\ c.nth \in 1 .. outbound[s][d] /\ outbound[s][d] \in Nat
    BY <1>1, <1>7, SlotOf, CountTypes
  <2>3. s \in Announced(d) => Key(c) # <<s, Count(s, d)>>
    BY <2>2 DEF Count
  <2>4. ASSUME NEW x \in Rank
        PROVE  x \in fc[d].reported <=>
                  x \in Announced(d) /\ <<x, Count(x, d)>> \notin Keys(Inbound(d))'
    <3>1. x \in fc[d].reported <=> x \in Announced(d) /\ <<x, Count(x, d)>> \notin Keys(Inbound(d))
      BY DEF CounterAt
    <3>2. x \in Announced(d) => Key(c) # <<x, Count(x, d)>>
      BY <2>2, <2>3
    <3> QED
      BY <1>3, <3>1, <3>2
  <2>5. {k \in Slots(d) : k[1] \in fc[d].reported}'
           = {k \in Slots(d) : k[1] \in fc[d].reported}
    BY <1>2, <2>1
  <2> QED
    BY <1>2, <1>4, <1>5, <1>6, <2>1, <2>4, <2>5 DEF CounterAt
<1>8. CASE is_control_message(c)
  <2>1. s \in Announced(d) /\ Key(c) = <<s, Count(s, d)>> /\ c.expected = Count(s, d)
    BY <1>1, <1>8, SlotOf
  <2>2. s \notin fc[d].reported
    BY <1>3, <2>1 DEF CounterAt
  <2>3. /\ fc'[d].reported = fc[d].reported \cup {s}
        /\ fc'[d].n_ranks_with_goalpost = fc[d].n_ranks_with_goalpost + 1
        /\ fc'[d].total_chunk_goal = fc[d].total_chunk_goal + c.expected
        /\ fc'[d].total_finished_chunks = fc[d].total_finished_chunks
        /\ fault'[d] = fault[d]
    <3>1. move_goalpost(d, c) /\ extract_rank(c.cid) = s /\ c.expected # 0
      BY <1>1, <1>8 DEF insert_into_received, Numbered, is_control_message, Chunk
    <3>2. s < nranks(d)
      <4>1. local_partitions(d) # {}
        BY <2>1 DEF Announced
      <4> QED
        BY <4>1, Ranks DEF nranks
    <3>3. fc' = [fc EXCEPT ![d].reported = @ \cup {s}, ![d].n_ranks_with_goalpost = @ + 1,
                           ![d].total_chunk_goal = @ + c.expected]
      BY <2>2, <3>1, <3>2 DEF move_goalpost
    <3>4. fault'[d] = fault[d]
      BY <1>t, <2>2, <3>1, <3>2 DEF move_goalpost, DataTypes
    <3>5. fc \in [Rank -> Counters]
      BY <1>t DEF DataTypes
    <3> QED
      BY <3>3, <3>4, <3>5 DEF Counters
  <2>4. ASSUME NEW x \in Rank
        PROVE  x \in fc'[d].reported <=>
                  x \in Announced(d) /\ <<x, Count(x, d)>> \notin Keys(Inbound(d))'
    <3>1. x \in fc[d].reported <=> x \in Announced(d) /\ <<x, Count(x, d)>> \notin Keys(Inbound(d))
      BY DEF CounterAt
    <3>2. CASE x = s
      BY <1>3, <2>1, <2>3, <3>2
    <3>3. CASE x # s
      BY <1>3, <2>1, <2>3, <3>1, <3>3
    <3> QED
      BY <3>2, <3>3
  <2> DEFINE Goal == {k \in Slots(d) : k[1] \in fc[d].reported}
             Own == {s} \X (1 .. Count(s, d))
  <2>5. Cardinality(fc'[d].reported) = Cardinality(fc[d].reported) + 1
    BY <2>2, <2>3, FullGoal, FS_AddElement
  <2>6. {k \in Slots(d) : k[1] \in fc[d].reported}' = Goal \cup Own /\ Goal \cap Own = {}
    <3>1. ASSUME NEW k PROVE k \in Slots(d) /\ k[1] = s <=> k \in Own
      BY InSlots
    <3> QED
      BY <1>2, <2>2, <2>3, <3>1
  <2>7. IsFiniteSet(Own) /\ Cardinality(Own) = c.expected
    <3>1. Count(s, d) \in Nat
      BY CountTypes
    <3>2. IsFiniteSet(1 .. Count(s, d)) /\ Cardinality(1 .. Count(s, d)) = Count(s, d)
      BY <3>1, FS_Interval
    <3>3. IsFiniteSet({s}) /\ Cardinality({s}) = 1
      BY FS_Singleton
    <3>4. IsFiniteSet(Own) /\ Cardinality(Own) = Cardinality({s}) * Cardinality(1 .. Count(s, d))
      BY <3>2, <3>3, FS_Product, Zenon
    <3> HIDE DEF Own
    <3> QED
      BY <2>1, <3>1, <3>2, <3>3, <3>4
  <2>8. IsFiniteSet(Goal) /\ fc[d].total_chunk_goal = Cardinality(Goal)
    BY FS_Subset DEF CounterAt
  <2>9. Cardinality(Goal \cup Own) = Cardinality(Goal) + c.expected
    <3>1. Cardinality(Goal \cap Own) = 0
      BY <2>6, FS_EmptySet
    <3>2. Cardinality(Goal) \in Nat /\ Cardinality(Own) \in Nat
      BY <2>7, <2>8, FS_CardinalityType
    <3>3. Cardinality(Goal \cup Own)
             = Cardinality(Goal) + Cardinality(Own) - Cardinality(Goal \cap Own)
      BY <2>7, <2>8, FS_Union
    <3> HIDE DEF Goal, Own
    <3> QED
      BY <2>7, <3>1, <3>2, <3>3
  <2>10. fc'[d].total_chunk_goal = Cardinality({k \in Slots(d) : k[1] \in fc[d].reported}')
    BY <2>3, <2>6, <2>8, <2>9
  <2> HIDE DEF Goal, Own
  <2> QED
    BY <1>2, <1>4, <1>5, <1>6, <2>3, <2>4, <2>5, <2>10 DEF CounterAt
<1> QED
  BY <1>7, <1>8

\* Counting a chunk cannot exceed the goal.
LEMMA CounterOfTally ==
  ASSUME IInv, NEW d \in Rank, CounterAt(d), NEW c \in Chunk, Tallies(d, c)
  PROVE  CounterAt(d)'
<1>t. DataTypes
  BY DEF IInv
<1>1. /\ c \in Held(d) /\ CountsKept(d) /\ add_finished_chunk(d) /\ Inbound(d)' = Inbound(d)
      /\ Held(d)' = Held(d) \ {c}
  BY DEF Tallies
<1>2. /\ \A x \in Rank : Count(x, d)' = Count(x, d)
      /\ Slots(d)' = Slots(d) /\ Announced(d)' = Announced(d)
  BY <1>1, SlotsKept DEF CountsKept
<1>3. /\ Keys(Inbound(d))' = Keys(Inbound(d)) /\ Keys(Held(d))' = Keys(Held(d)) \ {Key(c)}
      /\ Key(c) \in Keys(Held(d)) /\ Key(c) \in Slots(d)
  <2>1. \A b \in Held(d) : Key(b) = Key(c) => b = c
    BY <1>1, HeldIsNumbered
  <2>2. Key(c) \in Keys(Held(d)) /\ Keys(Held(d) \ {c}) = Keys(Held(d)) \ {Key(c)}
    BY <1>1, <2>1, KeysOfSet
  <2> QED
    BY <1>1, <2>2, KeysNext, KeysAreSlots
<1> DEFINE Done == Slots(d) \ (Keys(Inbound(d)) \cup Keys(Held(d)))
           Now == Slots(d)' \ (Keys(Inbound(d))' \cup Keys(Held(d))')
<1>4. Now = Done \cup {Key(c)} /\ Key(c) \notin Done /\ Now \subseteq Slots(d)
  BY <1>2, <1>3 DEF CounterAt
<1>5. IsFiniteSet(Slots(d)) /\ IsFiniteSet(Done) /\ IsFiniteSet(Now)
  BY <1>4, FS_Subset DEF CounterAt
<1>6. Cardinality(Now) = Cardinality(Done) + 1 /\ Cardinality(Now) <= Cardinality(Slots(d))
  BY <1>4, <1>5, FS_AddElement, FS_Subset
<1>7. fc'[d] = [fc[d] EXCEPT !.total_finished_chunks = @ + 1]
  BY <1>t, <1>1 DEF add_finished_chunk, DataTypes
<1>8. /\ fc'[d].reported = fc[d].reported
      /\ fc'[d].n_ranks_with_goalpost = fc[d].n_ranks_with_goalpost
      /\ fc'[d].total_chunk_goal = fc[d].total_chunk_goal
      /\ fc'[d].total_finished_chunks = fc[d].total_finished_chunks + 1
  BY <1>t, <1>7 DEF DataTypes, Counters
<1>9. fc'[d].total_finished_chunks = Cardinality(Now)
  BY <1>6, <1>8 DEF CounterAt
<1>10. ~ fault'[d]
  <2> DEFINE f == [fc[d] EXCEPT !.total_finished_chunks = @ + 1]
             over == ~ (\/ f.n_ranks_with_goalpost < nranks(d)
                        \/ f.total_finished_chunks <= f.total_chunk_goal)
  <2>1. fault' = [fault EXCEPT ![d] = @ \/ over]
    BY <1>1 DEF add_finished_chunk
  <2>2. ~ over
    <3>1. local_partitions(d) # {}
      BY <1>1, HeldIsNumbered, Chunks DEF local_partitions
    <3>2. nranks(d) = NRanks
      BY <3>1 DEF nranks
    <3>3. /\ fc[d].n_ranks_with_goalpost <= NRanks
          /\ fc[d].n_ranks_with_goalpost = NRanks => fc[d].total_chunk_goal = Cardinality(Slots(d))
      BY FullGoal
    <3>4. fc[d].n_ranks_with_goalpost \in Nat /\ NRanks \in Nat
      BY <1>t, Ranks DEF DataTypes, Counters
    <3>5. fc[d].n_ranks_with_goalpost < NRanks \/ fc[d].n_ranks_with_goalpost = NRanks
      BY <3>3, <3>4
    <3>6. \/ fc[d].n_ranks_with_goalpost < nranks(d)
          \/ fc'[d].total_finished_chunks <= fc[d].total_chunk_goal
      BY <1>6, <1>9, <3>2, <3>3, <3>5
    <3> QED
      BY <1>7, <1>8, <3>6
  <2> HIDE DEF over
  <2>3. fault'[d] <=> fault[d] \/ over
    BY <1>t, <2>1 DEF DataTypes
  <2> QED
    BY <2>2, <2>3 DEF CounterAt
<1>11. Keys(Inbound(d))' \cap Keys(Held(d))' = {}
  BY <1>3 DEF CounterAt
<1>12. {k \in Slots(d) : k[1] \in fc[d].reported}' = {k \in Slots(d) : k[1] \in fc[d].reported}
  BY <1>2, <1>8
<1> QED
  BY <1>2, <1>3, <1>8, <1>9, <1>10, <1>11, <1>12 DEF CounterAt

\* The totals of a destination stay right.
LEMMA CounterAtStep ==
  ASSUME IInv, NEW d \in Rank, CounterAt(d), DestStep(d) PROVE CounterAt(d)'
<1>1. CASE DestKept(d)
  <2>1. /\ Inbound(d)' = Inbound(d) /\ Held(d)' = Held(d) /\ CountsKept(d)
        /\ fc'[d] = fc[d] /\ fault'[d] = fault[d]
    BY <1>1 DEF DestKept, CounterKept
  <2>2. /\ \A x \in Rank : Count(x, d)' = Count(x, d)
        /\ Slots(d)' = Slots(d) /\ Announced(d)' = Announced(d)
    BY <2>1, SlotsKept DEF CountsKept
  <2>3. Keys(Inbound(d))' = Keys(Inbound(d)) /\ Keys(Held(d))' = Keys(Held(d))
    BY <2>1, KeysNext
  <2>4. {k \in Slots(d) : k[1] \in fc[d].reported}' = {k \in Slots(d) : k[1] \in fc[d].reported}
    BY <2>1, <2>2
  <2> QED
    BY <2>1, <2>2, <2>3, <2>4 DEF CounterAt
<1> QED
  BY <1>1, CounterOfStart, CounterOfAccept, CounterOfTally DEF DestStep

-----------------------------------------------------------------------------
(* What is received, and when wait() returns. *)

\* The data chunks counted are pairs of a source and a number.
LEMMA InCounted ==
  ASSUME NEW d
  PROVE  \A k : k \in Counted(d) <=> \E s \in Rank : \E n \in 1 .. outbound[s][d] : k = <<s, n>>
BY DEF Counted

\* Every data chunk counted for a destination is inbound or has been received, once.
LEMMA StoreAtStep ==
  ASSUME IInv, NEW d \in Rank, StoreAt(d), DestStep(d) PROVE StoreAt(d)'
<1>1. ASSUME Keys(Inbound(d))' = Keys(Inbound(d)), CountsKept(d), StoreKept(d) PROVE StoreAt(d)'
  <2>1. Counted(d)' = Counted(d) /\ Collected(d)' = Collected(d)
    BY <1>1, SlotsKept DEF StoreKept
  <2>2. Keys(Collected(d))' = Keys(Collected(d))
    BY <2>1, KeysNext
  <2> QED
    BY <1>1, <2>1, <2>2 DEF StoreAt, StoreKept
<1>2. CASE DestKept(d)
  <2>1. Keys(Inbound(d))' = Keys(Inbound(d))
    BY <1>2, KeysNext DEF DestKept
  <2> QED
    BY <1>1, <1>2, <2>1 DEF DestKept
<1>3. ASSUME NEW c \in Chunk, Tallies(d, c) PROVE StoreAt(d)'
  <2>1. Keys(Inbound(d))' = Keys(Inbound(d))
    BY <1>3, KeysNext DEF Tallies
  <2> QED
    BY <1>1, <1>3, <2>1 DEF Tallies
<1>4. ASSUME NEW s \in Rank, NEW c \in Chunk, StartsData(s, d, c) \/ Announces(s, d, c)
      PROVE  StoreAt(d)'
  <2>1. Starts(s, d, c)
    BY <1>4 DEF StartsData, Announces
  <2>2. Keys(Inbound(d))' = Keys(Inbound(d)) \cup {Key(c)}
    BY <2>1, KeysNext, KeysOfSet DEF Starts
  <2>3. Collected(d)' = Collected(d) /\ Keys(Collected(d))' = Keys(Collected(d))
    BY <2>1, KeysNext DEF Starts, StoreKept
  <2>4. outbound[s][d] \in Nat /\ Key(c) = <<s, outbound[s][d] + 1>>
    BY <2>1, CountTypes DEF Starts, Key
  <2>5. Key(c) \notin Counted(d)
    <3>1. outbound[s][d] + 1 \notin 1 .. outbound[s][d]
      BY <2>4
    <3> QED
      BY <2>4, <3>1, InCounted
  <2>6. Counted(d)' \ {Key(c)} = Counted(d)
    <3>1. \A k : k \in Counted(d)' <=>
                    \E x \in Rank : \E n \in 1 .. outbound'[x][d] : k = <<x, n>>
      BY DEF Counted
    <3>2. CASE StartsData(s, d, c)
      <4>1. \A x \in Rank : outbound'[x][d] = IF x = s THEN outbound[s][d] + 1 ELSE outbound[x][d]
        BY <3>2 DEF StartsData
      <4>2. 1 .. outbound'[s][d] = (1 .. outbound[s][d]) \cup {outbound[s][d] + 1}
        BY <2>4, <4>1
      <4>3. ASSUME NEW k \in Counted(d)' PROVE k \in Counted(d) \/ k = Key(c)
        <5>1. PICK x \in Rank : \E n \in 1 .. outbound'[x][d] : k = <<x, n>>
          BY <3>1
        <5> QED
          BY <2>4, <4>1, <4>2, <5>1, InCounted
      <4>4. ASSUME NEW k \in Counted(d) PROVE k \in Counted(d)'
        <5>1. PICK x \in Rank : \E n \in 1 .. outbound[x][d] : k = <<x, n>>
          BY InCounted
        <5> QED
          BY <3>1, <4>1, <4>2, <5>1
      <4> QED
        BY <2>5, <4>3, <4>4
    <3>3. CASE Announces(s, d, c)
      <4>1. \A x \in Rank : outbound'[x][d] = outbound[x][d]
        BY <3>3 DEF Announces
      <4>2. Counted(d)' = Counted(d)
        BY <4>1 DEF Counted
      <4> QED
        BY <2>5, <4>2
    <3> QED
      BY <1>4, <3>2, <3>3
  <2>7. Keys(Collected(d))' = Counted(d)' \ Keys(Inbound(d))'
    BY <2>2, <2>3, <2>6 DEF StoreAt
  <2> QED
    BY <2>1, <2>3, <2>7 DEF StoreAt, Starts, StoreKept
<1>5. ASSUME NEW s \in Rank, NEW c \in Chunk, Accepts(s, d, c) PROVE StoreAt(d)'
  <2>1. /\ c \in Inbound(d) /\ Numbered(s, c) /\ owner(c) = d /\ CountsKept(d)
        /\ insert_into_received(d, c) /\ extracted' = extracted
    BY <1>5 DEF Accepts
  <2>2. Counted(d)' = Counted(d) /\ outbound[s][d] \in Nat
    BY <2>1, SlotsKept, CountTypes
  <2>3. Key(c) \in Keys(Inbound(d)) /\ Keys(Inbound(d))' = Keys(Inbound(d)) \ {Key(c)}
    <3>1. Inbound(d)' = Inbound(d) \ {c} /\ \A b \in Inbound(d) : Key(b) = Key(c) => b = c
      BY <1>5, <2>1, InboundIsNumbered DEF Accepts
    <3> QED
      BY <2>1, <3>1, KeysNext, KeysOfSet
  <2>4. CASE is_control_message(c)
    <3>1. received' = received
      BY <2>1, <2>4 DEF insert_into_received
    <3>2. Collected(d)' = Collected(d) /\ Keys(Collected(d))' = Keys(Collected(d))
      BY <2>1, <3>1, KeysNext DEF Collected
    <3>3. Key(c) \notin Counted(d)
      <4>1. Key(c) = <<s, outbound[s][d] + 1>>
        BY <2>1, <2>4 DEF Numbered, Key
      <4>2. outbound[s][d] + 1 \notin 1 .. outbound[s][d]
        BY <2>2
      <4> QED
        BY <4>1, <4>2, InCounted
    <3> QED
      BY <2>1, <2>2, <2>3, <3>1, <3>2, <3>3 DEF StoreAt
  <2>5. CASE ~ is_control_message(c)
    <3>1. received'[d] = received[d] \cup {c} /\ extracted'[d] = extracted[d]
      BY <2>1, <2>5 DEF insert_into_received, IInv, DataTypes
    <3>2. Collected(d)' = Collected(d) \cup {c}
      BY <3>1 DEF Collected
    <3>3. Keys(Collected(d))' = Keys(Collected(d)) \cup {Key(c)}
      BY <3>2, KeysNext, KeysOfSet
    <3>4. Key(c) \in Counted(d)
      BY <2>1, <2>5, SlotOf, InCounted
    <3>5. Key(c) \notin Keys(Collected(d))
      BY <2>3 DEF StoreAt
    <3>6. \A b \in Collected(d) : Key(b) # Key(c)
      BY <3>5 DEF Keys
    <3>7. received'[d] \cap extracted'[d] = {}
      BY <3>1, <3>6 DEF StoreAt, Collected
    <3>8. \A a, b \in Collected(d)' : Key(a) = Key(b) => a = b
      BY <3>2, <3>6 DEF StoreAt
    <3>9. Keys(Collected(d))' = Counted(d)' \ Keys(Inbound(d))'
      BY <2>2, <2>3, <3>3, <3>4 DEF StoreAt
    <3> QED
      BY <3>7, <3>8, <3>9 DEF StoreAt
  <2> QED
    BY <2>4, <2>5
<1> QED
  BY <1>2, <1>3, <1>4, <1>5 DEF DestStep

\* all_finished() is true only when the shuffle is complete for the rank.
LEMMA FinishedIsComplete ==
  ASSUME IInv, NEW r \in Rank, CounterAt(r), all_finished(r)
  PROVE  /\ local_partitions(r) # {} => \A s \in Rank : fin[s] > r
         /\ Inbound(r) = {} /\ Held(r) = {}
<1>1. CASE local_partitions(r) = {}
  <2>1. \A c \in Chunk : owner(c) # r
    BY <1>1, Chunks DEF local_partitions
  <2>2. Inbound(r) = {}
    BY <2>1, InboundIsNumbered
  <2>3. Held(r) = {}
    BY <2>1, HeldIsNumbered
  <2> QED
    BY <1>1, <2>2, <2>3
<1>2. CASE local_partitions(r) # {}
  <2>1. fc[r].n_ranks_with_goalpost = NRanks /\ fc[r].total_finished_chunks = fc[r].total_chunk_goal
    BY <1>2 DEF all_finished, nranks
  <2>2. Announced(r) = Rank /\ fc[r].total_chunk_goal = Cardinality(Slots(r))
    BY <2>1, FullGoal
  <2> DEFINE Done == Slots(r) \ (Keys(Inbound(r)) \cup Keys(Held(r)))
  <2>3. Cardinality(Done) = Cardinality(Slots(r)) /\ Done \subseteq Slots(r)
    BY <2>1, <2>2 DEF CounterAt
  <2>4. Done = Slots(r)
    BY <2>3, FS_Subset DEF CounterAt
  <2>5. Keys(Inbound(r)) = {} /\ Keys(Held(r)) = {}
    BY <2>4, KeysAreSlots
  <2>6. Inbound(r) = {} /\ Held(r) = {}
    BY <2>5 DEF Keys
  <2>7. \A s \in Rank : fin[s] > r
    BY <1>2, <2>2 DEF Announced
  <2> QED
    BY <2>6, <2>7
<1> QED
  BY <1>1, <1>2

\* What wait() has been told stays true: nothing is made for a rank whose sources
\* have all announced their counts.
LEMMA CompleteAtStep ==
  ASSUME IInv, [Next]_vars, NEW d \in Rank, CounterAt(d), CompleteAt(d), DestStep(d)
  PROVE  CompleteAt(d)'
<1>t. UserTypes /\ FlagTypes
  BY DEF IInv
<1> DEFINE Complete == /\ local_partitions(d) # {} => \A s \in Rank : fin[s] > d
                       /\ Inbound(d) = {} /\ Held(d) = {}
<1>1. can_extract'[d] => can_extract[d] \/ all_finished(d)
  <2>1. CASE can_extract' = can_extract
    BY <2>1
  <2>2. ASSUME NEW r \in Rank, wake_waiters(r)
        PROVE  can_extract'[d] => can_extract[d] \/ all_finished(d)
    BY <1>t, <2>2 DEF wake_waiters, FlagTypes
  <2>3. can_extract' = can_extract \/ \E r \in Rank : wake_waiters(r)
    <3>1. ASSUME NEW r \in Rank, user(r)
          PROVE can_extract' = can_extract
      BY <3>1 DEF user, insert, extract, begin_insert_finished, insert_finished, insert_chunk,
         insert_chunk_tally, end_insert_finished, wait, shutdown, remove_function
    <3>2. ASSUME NEW r \in Rank, progress(r), ~ wake_waiters(r)
          PROVE can_extract' = can_extract
      BY <3>2 DEF progress, extract_ready, submit_outgoing, communicate, insert_received,
         insert_received_tally, finish_mpe, check_containers
    <3>3. CASE UNCHANGED vars
      BY <3>3 DEF vars
    <3> QED
      BY <3>1, <3>2, <3>3 DEF Next, Terminated
  <2> QED
    BY <2>1, <2>2, <2>3
<1>2. can_extract'[d] => Complete
  BY <1>1, FinishedIsComplete DEF CompleteAt
<1>3. ASSUME Complete PROVE Complete'
  <2>1. Announced(d) = IF local_partitions(d) = {} THEN {} ELSE Rank
    BY <1>3 DEF Announced
  <2>2. ASSUME NEW s \in Rank, NEW c \in Chunk, StartsData(s, d, c) \/ Announces(s, d, c)
        PROVE  FALSE
    BY <2>1, <2>2 DEF StartsData, Announces, Starts
  <2>3. ASSUME NEW s \in Rank, NEW c \in Chunk, Accepts(s, d, c) PROVE FALSE
    BY <1>3, <2>3 DEF Accepts
  <2>4. ASSUME NEW c \in Chunk, Tallies(d, c) PROVE FALSE
    BY <1>3, <2>4 DEF Tallies
  <2>5. DestKept(d)
    BY <2>2, <2>3, <2>4 DEF DestStep
  <2>6. Inbound(d)' = Inbound(d) /\ Held(d)' = Held(d) /\ Announced(d)' = Announced(d)
    BY <2>5 DEF DestKept, CountsKept
  <2>7. local_partitions(d) # {} => \A s \in Rank : fin'[s] > d
    BY <2>1, <2>6 DEF Announced
  <2> QED
    BY <1>3, <2>6, <2>7
<1> HIDE DEF Complete
<1>4. can_extract'[d] => Complete'
  BY <1>2, <1>3
<1> QED
  BY <1>4 DEF CompleteAt, Complete

\* Every destination is counted right from the start.
LEMMA InitCounting == ASSUME Init PROVE CountingInv
<1> SUFFICES ASSUME NEW d \in Rank PROVE CounterAt(d) /\ StoreAt(d) /\ CompleteAt(d)
  BY DEF CountingInv
<1>1. Inbound(d) = {} /\ Held(d) = {}
  <2>1. \A s \in Rank : InFlight(s, d) = {}
    BY DEF Init, InFlight, Unsent, Range
  <2> QED
    BY <2>1 DEF Inbound, Held, Init
<1>2. Announced(d) = {} /\ \A s \in Rank : outbound[s][d] = 0 /\ Count(s, d) = 0
  <2>1. Announced(d) = {}
    BY Ranks DEF Init, Announced
  <2> QED
    BY <2>1 DEF Init, Count
<1>3. Slots(d) = {} /\ Counted(d) = {}
  <2>1. 1 .. 0 = {}
    OBVIOUS
  <2> QED
    BY <1>2, <2>1, InSlots, InCounted
<1>4. received[d] = {} /\ extracted[d] = {} /\ ~ can_extract[d] /\ ~ fault[d]
  BY DEF Init
<1>5. /\ fc[d].reported = {} /\ fc[d].n_ranks_with_goalpost = 0
      /\ fc[d].total_chunk_goal = 0 /\ fc[d].total_finished_chunks = 0
  BY DEF Init
<1>6. IsFiniteSet({}) /\ Cardinality({}) = 0
  BY FS_EmptySet
<1>7. Keys({}) = {}
  BY DEF Keys
<1>8. CounterAt(d)
  <2>1. {k \in Slots(d) : k[1] \in fc[d].reported} = {} /\ Slots(d) \ (Keys({}) \cup Keys({})) = {}
    BY <1>3
  <2> QED
    BY <1>1, <1>2, <1>3, <1>4, <1>5, <1>6, <1>7, <2>1 DEF CounterAt
<1>9. StoreAt(d)
  BY <1>1, <1>3, <1>4, <1>7 DEF StoreAt, Collected
<1> QED
  BY <1>4, <1>8, <1>9 DEF CompleteAt

\* The counting of every destination: the finish counter's totals are the numbers of the
\* chunks counted and announced, none of its expectations throws, every data chunk that
\* is not on its way is received once, and can_extract is true only when it is complete.
THEOREM CountingInvariant == Spec => []CountingInv
<1>1. Init => CountingInv
  BY InitCounting
<1>2. IInv /\ CountingInv /\ [Next]_vars => CountingInv'
  <2> SUFFICES ASSUME IInv, CountingInv, [Next]_vars, NEW d \in Rank
               PROVE  CounterAt(d)' /\ StoreAt(d)' /\ CompleteAt(d)'
    BY DEF CountingInv
  <2>1. CounterAt(d) /\ StoreAt(d) /\ CompleteAt(d) /\ DestStep(d)
    BY DestCases DEF CountingInv
  <2> QED
    BY <2>1, CounterAtStep, StoreAtStep, CompleteAtStep
<1> QED
  BY <1>1, <1>2, ShufflerInvariant, PTL DEF Spec

\* wait() returns only when the shuffle is complete for this rank, for every number of
\* ranks, partitions and chunks and every order in which they arrive.
THEOREM ExtractsComplete == Spec => []ExtractIsComplete
<1>1. IInv /\ CountingInv => ExtractIsComplete
  <2> SUFFICES ASSUME IInv, CountingInv, NEW r \in Rank, can_extract[r]
               PROVE  /\ local_partitions(r) # {} => \A s \in Rank : fin[s] > r
                      /\ Inbound(r) = {} /\ Held(r) = {}
                      /\ Cardinality(received[r]) + Cardinality(extracted[r])
                            = Cardinality(Counted(r))
    BY DEF ExtractIsComplete
  <2>1. CounterAt(r) /\ StoreAt(r) /\ CompleteAt(r)
    BY DEF CountingInv
  <2>2. /\ local_partitions(r) # {} => \A s \in Rank : fin[s] > r
        /\ Inbound(r) = {} /\ Held(r) = {}
    BY <2>1 DEF CompleteAt
  <2>3. Keys(Collected(r)) = Counted(r)
    <3>1. Keys({}) = {}
      BY DEF Keys
    <3> QED
      BY <2>1, <2>2, <3>1 DEF StoreAt
  <2>4. IsFiniteSet(Counted(r))
    <3>1. Counted(r) \subseteq Slots(r)
      <4>1. \A s \in Rank : outbound[s][r] \in Nat /\ 1 .. outbound[s][r] \subseteq 1 .. Count(s, r)
        BY CountTypes DEF Count
      <4> QED
        BY <4>1, InCounted, InSlots
    <3> QED
      BY <2>1, <3>1, FS_Subset DEF CounterAt
  <2> DEFINE f == [c \in Collected(r) |-> Key(c)]
  <2>5. f \in Injection(Collected(r), Counted(r)) /\ f \in Surjection(Collected(r), Counted(r))
    <3>1. f \in [Collected(r) -> Counted(r)]
      BY <2>3 DEF Keys
    <3>2. \A b, c \in Collected(r) : f[b] = f[c] => b = c
      BY <2>1 DEF StoreAt
    <3>3. \A k \in Counted(r) : \E c \in Collected(r) : f[c] = k
      BY <2>3 DEF Keys
    <3> QED
      BY <3>1, <3>2, <3>3 DEF Injection, Surjection, IsInjective
  <2>6. IsFiniteSet(Collected(r)) /\ Cardinality(Collected(r)) = Cardinality(Counted(r))
    BY <2>4, <2>5, FS_Injection
  <2>7. Cardinality(Collected(r)) = Cardinality(received[r]) + Cardinality(extracted[r])
    <3>1. received[r] \cap extracted[r] = {} /\ Collected(r) = received[r] \cup extracted[r]
      BY <2>1 DEF StoreAt, Collected
    <3>2. IsFiniteSet(received[r]) /\ IsFiniteSet(extracted[r])
      BY <2>6, <3>1, FS_Subset
    <3>3. Cardinality(received[r] \cap extracted[r]) = 0
      BY <3>1, FS_EmptySet
    <3>4. Cardinality(received[r]) \in Nat /\ Cardinality(extracted[r]) \in Nat
      BY <3>2, FS_CardinalityType
    <3>5. Cardinality(received[r] \cup extracted[r])
             = Cardinality(received[r]) + Cardinality(extracted[r])
               - Cardinality(received[r] \cap extracted[r])
      BY <3>2, FS_Union
    <3> QED
      BY <3>1, <3>3, <3>4, <3>5
  <2> QED
    BY <2>2, <2>6, <2>7
<1> QED
  BY <1>1, ShufflerInvariant, CountingInvariant, PTL

=============================================================================
