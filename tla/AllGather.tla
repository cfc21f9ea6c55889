------------------------------ MODULE AllGather ------------------------------
(***************************************************************************)
(* rapidsmpf::coll::AllGather on every rank of a ring: the                 *)
(* user inserts chunks and a finish marker; event_loop() sends what is in  *)
(* inserted_ to the right neighbour, forwards what the left neighbour      *)
(* sends until it has gone round, and is Done when every rank's finish     *)
(* marker is seen, as many chunks as the markers announce are ready for    *)
(* extraction, and every container is empty.  A rank that has gathered    *)
(* starts the next allgather with the SAME op_id, hence on the same tags,  *)
(* while its neighbours may still be in this one.                          *)
(*                                                                         *)
(* event_loop() is one action for each of its parts.  They run in turn,    *)
(* but an iteration in which nothing is ready and nothing has arrived      *)
(* changes nothing, so that they take effect in any order.                 *)
(***************************************************************************)
EXTENDS Integers, Sequences, FiniteSets, FiniteSetsExt, SequencesExt

CONSTANTS
    RingSizes,            \* the numbers of ranks to consider
    MaxInserts(_, _, _),  \* bound: data chunks a rank of a ring inserts in its n-th allgather
    MaxRounds(_)          \* bound: consecutive allgathers of a ring with the same op_id

ASSUME RingSizesAssumption == RingSizes \subseteq Nat \ {0}
ASSUME MaxRoundsAssumption == \A n \in RingSizes : MaxRounds(n) \in Nat \ {0}

VARIABLES
    ring_size,         \* comm->nranks()
    round,             \* the allgather a rank is in (auxiliary)
    upc,               \* where the user thread is
    nlocal,            \* nlocal_insertions_
    inserted,          \* inserted_
    for_extraction,    \* for_extraction_
    gathered,         \* what wait_and_extract() has returned in this round
    can_extract,       \* can_extract_
    finish_counter,    \* finish_counter_
    goalpost,          \* extraction_goalpost_
    remote_finish,     \* remote_finish_counter_
    num_expected,      \* num_expected_messages_
    num_received,      \* num_received_messages_
    to_receive,        \* to_receive_
    ring_posted,       \* receive_posted_, in the order posted
    sent_posted,       \* sent_posted_
    fire,              \* fire_and_forget_ is not empty
    meta,              \* metadata_tag messages from a rank to its right neighbour
    data               \* gpu_data_tag messages, not yet matched by a receive

userVars == <<round, upc, nlocal, gathered>>
counters == <<finish_counter, goalpost, remote_finish, num_expected, num_received>>
queues == <<to_receive, ring_posted, sent_posted, fire>>
wires == <<meta, data>>
gatherVars == <<ring_size, userVars, counters, queues, wires, inserted, for_extraction, can_extract>>

Rank == 0 .. ring_size - 1

-----------------------------------------------------------------------------
(* Chunks.  A finish marker has the number of insertions as its sequence.  *)
(* Field got is the payload that a receive was matched with (auxiliary),   *)
(* as is the round the chunk was inserted in.                              *)

Data(r, seq) ==
    [finish |-> FALSE, origin |-> r, sequence |-> seq, round |-> round[r],
     got |-> <<round[r], r, seq>>]

Finish(r) ==
    [finish |-> TRUE, origin |-> r, sequence |-> nlocal[r], round |-> round[r],
     got |-> <<>>]

Key(c) == <<c.round, c.origin, c.sequence>>

dst(r) == (r + 1) % ring_size
src(r) == (r + ring_size - 1) % ring_size

GatherInit ==
    /\ ring_size \in RingSizes
    /\ round = [r \in Rank |-> 1]
    /\ upc = [r \in Rank |-> "insert"]
    /\ nlocal = [r \in Rank |-> 0]
    /\ inserted = [r \in Rank |-> <<>>]
    /\ for_extraction = [r \in Rank |-> {}]
    /\ gathered = [r \in Rank |-> {}]
    /\ can_extract = [r \in Rank |-> FALSE]
    /\ finish_counter = [r \in Rank |-> ring_size]
    /\ goalpost = [r \in Rank |-> 0]
    /\ remote_finish = [r \in Rank |-> ring_size - 1]
    /\ num_expected = [r \in Rank |-> 0]
    /\ num_received = [r \in Rank |-> 0]
    /\ to_receive = [r \in Rank |-> <<>>]
    /\ ring_posted = [r \in Rank |-> <<>>]
    /\ sent_posted = [r \in Rank |-> {}]
    /\ fire = [r \in Rank |-> FALSE]
    /\ meta = [r \in Rank |-> <<>>]
    /\ data = [r \in Rank |-> <<>>]

-----------------------------------------------------------------------------
(* The user thread of rank r.                                              *)

insert(r) ==
    /\ upc[r] = "insert"
    /\ nlocal[r] < MaxInserts(ring_size, r, round[r])
    /\ nlocal' = [nlocal EXCEPT ![r] = @ + 1]
    /\ inserted' = [inserted EXCEPT ![r] = Append(@, Data(r, nlocal[r]))]
    /\ UNCHANGED <<round, upc, gathered, counters, queues, wires, for_extraction,
                   can_extract>>

gather_insert_finished(r) ==
    /\ upc[r] = "insert"
    /\ inserted' = [inserted EXCEPT ![r] = Append(@, Finish(r))]
    /\ upc' = [upc EXCEPT ![r] = "wait"]
    /\ UNCHANGED <<round, nlocal, gathered, counters, queues, wires, for_extraction,
                   can_extract>>

gather_wait_and_extract(r) ==
    /\ upc[r] = "wait"
    /\ can_extract[r]
    /\ gathered' = [gathered EXCEPT ![r] = for_extraction[r]]
    /\ for_extraction' = [for_extraction EXCEPT ![r] = {}]
    /\ goalpost' = [goalpost EXCEPT ![r] = @ - Cardinality(for_extraction[r])]
    /\ upc' = [upc EXCEPT ![r] = "extracted"]
    /\ UNCHANGED <<round, nlocal, inserted, can_extract, finish_counter, remote_finish,
                   num_expected, num_received, queues, wires>>

\* A new AllGather with the same op_id, as soon as wait_and_extract() has returned here.
reuse_op_id(r) ==
    /\ upc[r] = "extracted"
    /\ round[r] < MaxRounds(ring_size)
    /\ round' = [round EXCEPT ![r] = @ + 1]
    /\ upc' = [upc EXCEPT ![r] = "insert"]
    /\ nlocal' = [nlocal EXCEPT ![r] = 0]
    /\ gathered' = [gathered EXCEPT ![r] = {}]
    /\ can_extract' = [can_extract EXCEPT ![r] = FALSE]
    /\ finish_counter' = [finish_counter EXCEPT ![r] = ring_size]
    /\ remote_finish' = [remote_finish EXCEPT ![r] = ring_size - 1]
    /\ num_expected' = [num_expected EXCEPT ![r] = 0]
    /\ num_received' = [num_received EXCEPT ![r] = 0]
    /\ goalpost' = [goalpost EXCEPT ![r] = 0]
    /\ inserted' = [inserted EXCEPT ![r] = <<>>]
    /\ for_extraction' = [for_extraction EXCEPT ![r] = {}]
    /\ to_receive' = [to_receive EXCEPT ![r] = <<>>]
    /\ ring_posted' = [ring_posted EXCEPT ![r] = <<>>]
    /\ sent_posted' = [sent_posted EXCEPT ![r] = {}]
    /\ fire' = [fire EXCEPT ![r] = FALSE]
    /\ UNCHANGED wires

-----------------------------------------------------------------------------
(* event_loop() of rank r, until it has returned Done.                     *)

\* The goalpost moves before the counter; only event_loop() of r reads the two.
mark_finish(r, markers) ==
    /\ goalpost' = [goalpost EXCEPT ![r] = @ + MapThenSumSet(LAMBDA c : c.sequence, markers)]
    /\ finish_counter' = [finish_counter EXCEPT ![r] = @ - Cardinality(markers)]

\* extract_ready() skips the chunks that are not ready, so that a finish marker, which
\* always is, may overtake data.
Ready(r) == {s \in SUBSET DOMAIN inserted[r] :
                \A i \in DOMAIN inserted[r] : inserted[r][i].finish => i \in s}

\* The elements of q at the positions in s, in order.
Pick(q, s) ==
    LET at == SetToSortSeq(s, <) IN [i \in DOMAIN at |-> q[at[i]]]

Markers(q) == {c \in Range(q) : c.finish}
DataOf(q) == SelectSeq(q, LAMBDA c : ~ c.finish)

\* With one rank, chunks go straight to for_extraction_, ready or not.
gather_locally(r) ==
    /\ ring_size = 1 /\ inserted[r] # <<>>
    /\ mark_finish(r, Markers(inserted[r]))
    /\ for_extraction' = [for_extraction EXCEPT ![r] = @ \cup Range(DataOf(inserted[r]))]
    /\ inserted' = [inserted EXCEPT ![r] = <<>>]
    /\ UNCHANGED <<userVars, remote_finish, num_expected, num_received, queues, wires, can_extract>>

\* Send metadata and then data of every ready chunk to the right neighbour.
send_ready(r, s) ==
    /\ ring_size > 1 /\ s # {}
    /\ LET chunks == Pick(inserted[r], s)
       IN  /\ meta' = [meta EXCEPT ![r] = @ \o chunks]
           /\ data' = [data EXCEPT ![r] =
                 @ \o [i \in DOMAIN DataOf(chunks) |-> DataOf(chunks)[i].got]]
           /\ sent_posted' = [sent_posted EXCEPT ![r] = @ \cup Range(DataOf(chunks))]
           /\ mark_finish(r, Markers(chunks))
    /\ fire' = [fire EXCEPT ![r] = TRUE]
    /\ inserted' = [inserted EXCEPT ![r] = Pick(@, DOMAIN @ \ s)]
    /\ UNCHANGED <<userVars, remote_finish, num_expected, num_received, to_receive,
                   ring_posted, for_extraction, can_extract>>

\* This allgather has more metadata to read.
needs_metadata(r) == remote_finish[r] > 0 \/ num_received[r] < num_expected[r]

\* Read a metadata message of the left neighbour; forward a marker that has not gone round.
receive_metadata(r) ==
    /\ needs_metadata(r) /\ meta[src(r)] # <<>>
    /\ LET c == Head(meta[src(r)])
           forward == IF c.finish /\ c.origin # dst(r) THEN <<c>> ELSE <<>>
       IN  /\ IF c.finish
              THEN /\ remote_finish' = [remote_finish EXCEPT ![r] = @ - 1]
                   /\ num_expected' = [num_expected EXCEPT ![r] = @ + c.sequence]
                   /\ UNCHANGED <<num_received, to_receive>>
              ELSE /\ num_received' = [num_received EXCEPT ![r] = @ + 1]
                   /\ to_receive' = [to_receive EXCEPT ![r] = Append(@, c)]
                   /\ UNCHANGED <<remote_finish, num_expected>>
           /\ mark_finish(r, Markers(<<c>>))
           /\ meta' = [[meta EXCEPT ![src(r)] = Tail(@)] EXCEPT ![r] = @ \o forward]
           /\ fire' = [fire EXCEPT ![r] = @ \/ forward # <<>>]
    /\ UNCHANGED <<userVars, data, inserted, for_extraction, can_extract, ring_posted, sent_posted>>

\* Mutant: a chunk that is not ready is skipped, and the next one gets its message.
Mut_Matched(r) == IF Len(to_receive[r]) > 1 THEN 2 ELSE 1
\* The receive of the first chunk is posted next.
Matched(r) == 1

\* Post a receive, once the buffer of the chunk is ready.  It gets the oldest data message
\* of the left neighbour.
post_receive(r) ==
    /\ to_receive[r] # <<>>
    /\ ring_posted' = [ring_posted EXCEPT ![r] =
          Append(@, [to_receive[r][Matched(r)] EXCEPT !.got = Head(data[src(r)])])]
    /\ to_receive' = [to_receive EXCEPT ![r] = RemoveAt(@, Matched(r))]
    /\ data' = [data EXCEPT ![src(r)] = Tail(@)]
    /\ UNCHANGED <<userVars, counters, meta, inserted, for_extraction, can_extract, sent_posted, fire>>

\* A posted receive is complete.  The chunk is forwarded unless it has gone round.
receive_completes(r, i) ==
    /\ LET c == ring_posted[r][i]
       IN  IF c.origin = dst(r)
           THEN /\ for_extraction' = [for_extraction EXCEPT ![r] = @ \cup {c}]
                /\ UNCHANGED inserted
           ELSE /\ inserted' = [inserted EXCEPT ![r] = Append(@, c)]
                /\ UNCHANGED for_extraction
    /\ ring_posted' = [ring_posted EXCEPT ![r] = RemoveAt(@, i)]
    /\ UNCHANGED <<userVars, counters, wires, can_extract, to_receive, sent_posted, fire>>

\* A send of data is complete, and the chunk is kept.
send_completes(r, c) ==
    /\ for_extraction' = [for_extraction EXCEPT ![r] = @ \cup {c}]
    /\ sent_posted' = [sent_posted EXCEPT ![r] = @ \ {c}]
    /\ UNCHANGED <<userVars, counters, wires, inserted, can_extract, to_receive, ring_posted, fire>>

forget_sent(r) ==
    /\ fire[r]
    /\ fire' = [fire EXCEPT ![r] = FALSE]
    /\ UNCHANGED <<userVars, counters, wires, inserted, for_extraction, can_extract, to_receive,
                   ring_posted, sent_posted>>

ring_empty(r) ==
    /\ ~ fire[r] /\ sent_posted[r] = {} /\ ring_posted[r] = <<>>
    /\ to_receive[r] = <<>> /\ inserted[r] = <<>>

\* Once the finish counter is zero only event_loop() changes what is read here.
is_done(r) ==
    /\ finish_counter[r] = 0
    /\ goalpost[r] = Cardinality(for_extraction[r])
    /\ ring_empty(r)

check_done(r) ==
    /\ is_done(r)
    /\ can_extract' = [can_extract EXCEPT ![r] = TRUE]
    /\ UNCHANGED <<userVars, counters, queues, wires, inserted, for_extraction>>

event_loop(r) ==
    /\ ~ can_extract[r]
    /\ \/ gather_locally(r)
       \/ \E s \in Ready(r) : send_ready(r, s)
       \/ receive_metadata(r)
       \/ post_receive(r)
       \/ \E i \in DOMAIN ring_posted[r] : receive_completes(r, i)
       \/ \E c \in sent_posted[r] : send_completes(r, c)
       \/ forget_sent(r)
       \/ check_done(r)

\* What follows an insertion; nobody has to insert.
GatherProgress ==
    \E r \in Rank : \/ event_loop(r)
                    \/ gather_insert_finished(r) \/ gather_wait_and_extract(r) \/ reuse_op_id(r)

GatherNext == UNCHANGED ring_size /\ (GatherProgress \/ \E r \in Rank : insert(r))

-----------------------------------------------------------------------------

(***************************************************************************)
(* wait_and_extract() returns every rank's chunks of this allgather, each  *)
(* with its own payload, and nothing else, although finish markers may     *)
(* overtake data and neighbours may be an allgather behind or ahead.       *)
(***************************************************************************)
ExtractedIsComplete ==
    \A r \in Rank : upc[r] = "extracted" =>
        /\ \A c \in gathered[r] : c.got = Key(c) /\ c.round = round[r]
        /\ \A s \in Rank : round[s] = round[r] =>
              /\ upc[s] # "insert"
              /\ {c.sequence : c \in {x \in gathered[r] : x.origin = s}} = 0 .. nlocal[s] - 1

(***************************************************************************)
(* What the comment in event_loop() requires for the reuse of an op_id:    *)
(* when wait_and_extract() may return, all metadata and data of this       *)
(* allgather that the left neighbour has for this rank has been taken, and *)
(* all of it that this rank has for the right one has been sent.           *)
(***************************************************************************)
SafeToReuse ==
    \A r \in Rank : can_extract[r] =>
        /\ \A c \in Range(meta[src(r)]) : c.round > round[r]
        /\ \A p \in Range(data[src(r)]) : p[1] > round[r]
        /\ inserted[r] = <<>> /\ to_receive[r] = <<>> /\ ring_posted[r] = <<>>

\* An allgather is complete when it is extracted, and has left nothing behind by then
\* for the next one that uses its tags.
GatherIsComplete == ExtractedIsComplete /\ SafeToReuse

\* Every rank is through all its allgathers.
Gathered == (\A r \in Rank : round[r] = MaxRounds(ring_size) /\ upc[r] = "extracted")
=============================================================================
