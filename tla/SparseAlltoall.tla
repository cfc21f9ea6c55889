---------------------------- MODULE SparseAlltoall ----------------------------
(***************************************************************************)
(* rapidsmpf::coll::SparseAlltoall on every rank: user threads insert      *)
(* chunks for the destinations of their rank and a finish message to each; *)
(* event_loop() sends what is ready, which lets a finish message overtake  *)
(* data, reads the metadata of each source until the number its finish     *)
(* message announces is reached, and receives payloads in the order of the *)
(* metadata.  A rank that is through starts the next exchange with the     *)
(* same op_id while its peers may be behind.                               *)
(***************************************************************************)
EXTENDS Integers, Sequences, FiniteSets, FiniteSetsExt, SequencesExt

CONSTANTS
    Peers,              \* the ranks
    Dsts(_),            \* dsts of a rank; srcs are consistent with it
    Inserters,          \* threads of a rank that insert
    MaxOrdinal(_, _),   \* bound: chunks a rank inserts for a destination in an exchange
    MaxExchanges        \* bound: consecutive exchanges with the same op_id

ASSUME DstsAssumption == \A r \in Peers : Dsts(r) \subseteq Peers \ {r}
ASSUME MaxExchangesAssumption == MaxExchanges \in Nat \ {0}

Srcs(r) == {s \in Peers : r \in Dsts(s)}

VARIABLES
    exchange_no,      \* the exchange a rank is in (auxiliary)
    next_ordinal,     \* next_ordinal_per_dst_
    holding,          \* the chunk a thread has numbered and not yet put in outgoing_
    outgoing,         \* outgoing_
    locally_finished, \* locally_finished_
    status,           \* "running", "complete" (can_extract_, event_loop() is Done), "extracted"
    expected_count,   \* source_states_[src].expected_count
    received_count,   \* source_states_[src].received_count
    incoming,         \* source_states_[src].incoming
    chunks,           \* source_states_[src].chunks
    receive_posted,   \* receive_posted_ and receive_futures_, in the order posted
    fire_and_forget,  \* fire_and_forget_ is not empty
    metadata_wire,    \* metadata_wire[s][d]: metadata under way
    payload_wire,     \* payload_wire[s][d]: payloads not yet matched by a receive
    extracted         \* extracted[d][s]: what extract(s) returned in this exchange

userState == <<exchange_no, next_ordinal, holding, locally_finished, extracted>>
sourceStates == <<expected_count, received_count, incoming, chunks>>
sparseVars == <<userState, sourceStates, outgoing, status, receive_posted,
                fire_and_forget, metadata_wire, payload_wire>>

-----------------------------------------------------------------------------
(* A finish chunk carries the number of metadata messages in its sequence. *)
(* Field got is the payload a receive was matched with (auxiliary), as is  *)
(* the exchange; a chunk without data has no payload message.              *)

DataChunk(r, d, seq, sized) ==
    [finish |-> FALSE, origin |-> r, dst |-> d, sequence |-> seq, sized |-> sized,
     no |-> exchange_no[r], got |-> <<exchange_no[r], r, d, seq>>]

FinishChunk(r, d, count) ==
    [finish |-> TRUE, origin |-> r, dst |-> d, sequence |-> count, sized |-> FALSE,
     no |-> exchange_no[r], got |-> <<>>]

Identity(c) == <<c.no, c.origin, c.dst, c.sequence>>

PerPeer(x) == [r \in Peers |-> x]
PerPair(x) == [r \in Peers |-> [p \in Peers |-> x]]

SparseInit ==
    /\ exchange_no = PerPeer(1)
    /\ next_ordinal = PerPair(0)
    /\ holding = [r \in Peers |-> [t \in Inserters |-> {}]]
    /\ outgoing = PerPeer(<<>>)
    /\ locally_finished = PerPeer(FALSE)
    /\ status = PerPeer("running")
    /\ expected_count = PerPair(0)
    /\ received_count = PerPair(0)
    /\ incoming = PerPair(<<>>)
    /\ chunks = PerPair({})
    /\ receive_posted = PerPeer(<<>>)
    /\ fire_and_forget = PerPeer(FALSE)
    /\ metadata_wire = PerPair(<<>>)
    /\ payload_wire = PerPair(<<>>)
    /\ extracted = PerPair(<<>>)

-----------------------------------------------------------------------------
(* The user threads of rank r.                                             *)

\* insert(): fetch_add on the ordinal ...
number_chunk(r, t, d, sized) ==
    /\ ~ locally_finished[r]
    /\ holding[r][t] = {}
    /\ next_ordinal[r][d] < MaxOrdinal(r, d)
    /\ holding' = [holding EXCEPT ![r][t] = {DataChunk(r, d, next_ordinal[r][d], sized)}]
    /\ next_ordinal' = [next_ordinal EXCEPT ![r][d] = @ + 1]
    /\ UNCHANGED <<exchange_no, locally_finished, extracted, sourceStates, outgoing,
                   status, receive_posted, fire_and_forget, metadata_wire, payload_wire>>

\* ... and then outgoing_.insert().
post_chunk(r, t) == \E c \in holding[r][t] :
    /\ outgoing' = [outgoing EXCEPT ![r] = Append(@, c)]
    /\ holding' = [holding EXCEPT ![r][t] = {}]
    /\ UNCHANGED <<exchange_no, next_ordinal, locally_finished, extracted, sourceStates,
                   status, receive_posted, fire_and_forget, metadata_wire, payload_wire>>

\* Mutant: the finish message does not count itself.
Mut_Announced(r, d) == next_ordinal[r][d]

Announced(r, d) == next_ordinal[r][d] + 1

\* insert_finished(), after every insert() has returned.
insert_finished(r) ==
    /\ ~ locally_finished[r]
    /\ \A t \in Inserters : holding[r][t] = {}
    /\ LET dsts == SetToSeq(Dsts(r))
       IN  outgoing' = [outgoing EXCEPT ![r] =
               @ \o [i \in DOMAIN dsts |-> FinishChunk(r, dsts[i], Announced(r, dsts[i]))]]
    /\ locally_finished' = [locally_finished EXCEPT ![r] = TRUE]
    /\ UNCHANGED <<exchange_no, next_ordinal, holding, extracted, sourceStates, status,
                   receive_posted, fire_and_forget, metadata_wire, payload_wire>>

BySequence(s) == SetToSortSeq(s, LAMBDA a, b : a.sequence < b.sequence)

\* wait() and extract() of every source; then a new exchange with the same op_id.
extract(r) ==
    /\ status[r] = "complete"
    /\ extracted' = [extracted EXCEPT ![r] = [s \in Peers |-> BySequence(chunks[r][s])]]
    /\ chunks' = [chunks EXCEPT ![r] = [s \in Peers |-> {}]]
    /\ status' = [status EXCEPT ![r] = "extracted"]
    /\ UNCHANGED <<exchange_no, next_ordinal, holding, locally_finished, expected_count,
                   received_count, incoming, outgoing, receive_posted, fire_and_forget,
                   metadata_wire, payload_wire>>

next_exchange(r) ==
    /\ status[r] = "extracted"
    /\ exchange_no[r] < MaxExchanges
    /\ exchange_no' = [exchange_no EXCEPT ![r] = @ + 1]
    /\ next_ordinal' = [next_ordinal EXCEPT ![r] = PerPeer(0)]
    /\ expected_count' = [expected_count EXCEPT ![r] = PerPeer(0)]
    /\ received_count' = [received_count EXCEPT ![r] = PerPeer(0)]
    /\ extracted' = [extracted EXCEPT ![r] = PerPeer(<<>>)]
    /\ locally_finished' = [locally_finished EXCEPT ![r] = FALSE]
    /\ status' = [status EXCEPT ![r] = "running"]
    /\ UNCHANGED <<holding, incoming, chunks, outgoing, receive_posted, fire_and_forget,
                   metadata_wire, payload_wire>>

-----------------------------------------------------------------------------
(* event_loop() of rank r, one action for each of its functions.  They run *)
(* in turn, but an iteration in which nothing is ready and nothing has      *)
(* arrived changes nothing, so that they take effect in any order; the      *)
(* user threads meet them in outgoing_ only, which has a mutex.             *)

Select(q, at) == LET i == SetToSortSeq(at, <) IN [k \in DOMAIN i |-> q[i[k]]]

\* extract_ready(): chunks without data are always ready.
ReadyAt(r) == {at \in SUBSET DOMAIN outgoing[r] :
                  \A i \in DOMAIN outgoing[r] : ~ outgoing[r][i].sized => i \in at}

send_ready_messages(r, at) ==
    /\ status[r] = "running"
    /\ at # {}
    /\ LET ready == Select(outgoing[r], at)
           To(d) == SelectSeq(ready, LAMBDA c : c.dst = d)
           Payloads(d) == SelectSeq(To(d), LAMBDA c : c.sized)
       IN  /\ metadata_wire' = [metadata_wire EXCEPT ![r] = [d \in Peers |-> @[d] \o To(d)]]
           /\ payload_wire' = [payload_wire EXCEPT ![r] =
                 [d \in Peers |-> @[d] \o [i \in DOMAIN Payloads(d) |-> Payloads(d)[i].got]]]
           /\ fire_and_forget' = [fire_and_forget EXCEPT ![r] = @ \/ ready # <<>>]
    /\ outgoing' = [outgoing EXCEPT ![r] = Select(@, DOMAIN @ \ at)]
    /\ UNCHANGED <<userState, sourceStates, status, receive_posted>>

FinishIn(q) == {c.sequence : c \in {x \in Range(q) : x.finish}}
DataIn(q) == SelectSeq(q, LAMBDA c : ~ c.finish)

\* Mutant: the number of messages received so far is not compared.
Mut_ready(r, s, q) == expected_count[r][s] > 0 \/ FinishIn(q) # {}

\* SourceState::ready() once the messages q are counted as well.
ready(r, s, q) ==
    LET expected == expected_count[r][s] + SumSet(FinishIn(q))
    IN  expected > 0 /\ expected = received_count[r][s] + Len(q)

\* The receives posted for queue get the oldest payloads in turn.
Match(queue, wire) ==
    [i \in DOMAIN queue |-> [queue[i] EXCEPT !.got = wire[i]]]

\* From source s: read n metadata messages and take the first k of incoming, whose
\* buffers are ready; those with data get a receive.
receive_from(r, s, n, k) ==
    LET taken == SubSeq(metadata_wire[s][r], 1, n)
        queue == incoming[r][s] \o DataIn(taken)
        first == SubSeq(queue, 1, k)
        sized == SelectSeq(first, LAMBDA c : c.sized)
    IN  /\ k <= Len(queue)
        /\ \A i \in 0 .. n - 1 : ~ ready(r, s, SubSeq(metadata_wire[s][r], 1, i))
        /\ expected_count' = [expected_count EXCEPT ![r][s] = @ + SumSet(FinishIn(taken))]
        /\ received_count' = [received_count EXCEPT ![r][s] = @ + n]
        /\ incoming' = [incoming EXCEPT ![r][s] = SubSeq(queue, k + 1, Len(queue))]
        /\ chunks' = [chunks EXCEPT ![r][s] = @ \cup {c \in Range(first) : ~ c.sized}]
        /\ receive_posted' = [receive_posted EXCEPT ![r] =
              @ \o Match(sized, payload_wire[s][r])]
        /\ metadata_wire' = [metadata_wire EXCEPT ![s][r] = SubSeq(@, n + 1, Len(@))]
        /\ payload_wire' = [payload_wire EXCEPT ![s][r] = SubSeq(@, Len(sized) + 1, Len(@))]

\* receive_metadata_messages() and receive_data_messages() for one source at a time: what
\* one source does to this rank does not touch the state of another.
receive_messages(r, s, n, k) ==
    /\ status[r] = "running"
    /\ n + k > 0
    /\ receive_from(r, s, n, k)
    /\ UNCHANGED <<userState, outgoing, status, fire_and_forget>>

\* complete_data_messages() and the test of fire_and_forget_.
complete_data_messages(r, at, sent) ==
    /\ status[r] = "running"
    /\ at # {} \/ (sent /\ fire_and_forget[r])
    /\ LET done == Range(Select(receive_posted[r], at))
       IN  chunks' = [chunks EXCEPT ![r] =
               [s \in Peers |-> @[s] \cup {c \in done : c.origin = s}]]
    /\ receive_posted' = [receive_posted EXCEPT ![r] = Select(@, DOMAIN @ \ at)]
    /\ fire_and_forget' = [fire_and_forget EXCEPT ![r] = @ /\ ~ sent]
    /\ UNCHANGED <<userState, expected_count, received_count, incoming, outgoing, status,
                   metadata_wire, payload_wire>>

containers_empty(r) ==
    /\ outgoing[r] = <<>> /\ receive_posted[r] = <<>> /\ ~ fire_and_forget[r]
    /\ \A s \in Srcs(r) : incoming[r][s] = <<>>

is_complete(r) ==
    /\ locally_finished[r]
    /\ \A s \in Srcs(r) : ready(r, s, <<>>)
    /\ containers_empty(r)

check_complete(r) ==
    /\ status[r] = "running"
    /\ is_complete(r)
    /\ status' = [status EXCEPT ![r] = "complete"]
    /\ UNCHANGED <<userState, sourceStates, outgoing, receive_posted, fire_and_forget,
                   metadata_wire, payload_wire>>

sparse_event_loop(r) ==
    \/ \E at \in ReadyAt(r) : send_ready_messages(r, at)
    \/ \E s \in Srcs(r) : \E n \in 0 .. Len(metadata_wire[s][r]) :
          \E k \in 0 .. Len(incoming[r][s]) + n : receive_messages(r, s, n, k)
    \/ \E at \in SUBSET DOMAIN receive_posted[r], sent \in BOOLEAN :
          complete_data_messages(r, at, sent)
    \/ check_complete(r)

\* What follows an insertion; nobody has to insert.
SparseProgress ==
    \E r \in Peers : \/ sparse_event_loop(r)
                     \/ \E t \in Inserters : post_chunk(r, t)
                     \/ insert_finished(r) \/ extract(r) \/ next_exchange(r)

SparseNext ==
    \/ SparseProgress
    \/ \E r \in Peers, t \in Inserters, sized \in BOOLEAN :
          \E d \in Dsts(r) : number_chunk(r, t, d, sized)

-----------------------------------------------------------------------------

(***************************************************************************)
(* extract(src) returns every chunk src inserted for this rank in this     *)
(* exchange, in the order of insertion and each with its own payload,      *)
(* although finish messages overtake data, threads put numbered chunks     *)
(* into outgoing_ in any order, and peers may be an exchange ahead.        *)
(***************************************************************************)
ExtractedInOrder ==
    \A r \in Peers : status[r] = "extracted" =>
        \A s \in Peers :
            /\ \A i \in DOMAIN extracted[r][s] :
                  LET c == extracted[r][s][i]
                  IN  c.no = exchange_no[r] /\ c.sequence = i - 1 /\ c.got = Identity(c)
            /\ exchange_no[s] = exchange_no[r] /\ s \in Srcs(r) =>
                  Len(extracted[r][s]) = next_ordinal[s][r]

\* Every rank is through all its exchanges.
Exchanged == \A r \in Peers : exchange_no[r] = MaxExchanges /\ status[r] = "extracted"
=============================================================================
