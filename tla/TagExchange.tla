------------------------------ MODULE TagExchange ------------------------------
(***************************************************************************)
(* rapidsmpf::communicator::TagMetadataPayloadExchange, as one rank sees   *)
(* it: its peers send it messages (metadata, then the payload if there is  *)
(* one) and end with a termination marker; the rank calls progress(),      *)
(* recv() and finish() from one thread, and when the exchange is idle it   *)
(* may start the next one with the SAME op_id, hence on the same tags.     *)
(* The communicator matches sends and receives of a (peer, tag) in order;  *)
(* two transfers of a peer may complete in any order.  Receive buffers may *)
(* be refused until the allocation timeout forces one.                     *)
(***************************************************************************)
EXTENDS Integers, Sequences, FiniteSets, FiniteSetsExt, SequencesExt

CONSTANTS
    Peer,           \* the other ranks
    MaxMsgs(_, _),  \* bound: messages of a peer in an exchange
    MaxExchanges,   \* bound: consecutive exchanges with the same op_id
    ReportsOnce     \* test_some() reports a completed future only once (MPI)

ASSUME PeerAssumption == IsFiniteSet(Peer) /\ Peer # {} /\ Peer \subseteq Nat
ASSUME MaxExchangesAssumption == MaxExchanges \in Nat \ {0}
ASSUME MaxMsgsAssumption == \A p \in Peer, x \in 1 .. MaxExchanges : MaxMsgs(p, x) \in Nat
ASSUME ReportsOnceAssumption == ReportsOnce \in BOOLEAN

VARIABLES
    pexch,          \* the exchange each peer is in
    messages_sent,  \* a peer's messages_sent_to_ this rank
    meta,           \* the peer's messages on metadata_tag_
    data,           \* the peer's payloads on gpu_data_tag_, not yet matched
    exch,           \* the exchange this rank is in
    pc,             \* where progress() is
    todo,           \* the peers the current loop of progress() has yet to visit
    incoming,       \* incoming_messages_
    in_transit,     \* in_transit_messages_
    done,           \* the in-transit messages whose transfer has completed
    stale,          \* those that test_some() has reported already
    received,       \* received_messages_, by peer
    delivered,      \* what recv() has returned, by peer
    peer_received,
    peer_expected,
    peer_terminated,
    num_awaiting_buffer,
    total_awaiting_buffer,
    stalled,        \* allocation_stall_start_.has_value()
    next_arrival,
    finished,
    fire,           \* fire_and_forget_ is not empty
    fault           \* a RAPIDSMPF_EXPECTS has thrown

peerVars == <<pexch, messages_sent>>
waitVars == <<num_awaiting_buffer, total_awaiting_buffer, stalled>>
termVars == <<peer_received, peer_expected, peer_terminated>>
vars == <<peerVars, meta, data, exch, pc, todo, incoming, in_transit, done, stale,
          received, delivered, termVars, waitVars, next_arrival, finished, fire, fault>>

-----------------------------------------------------------------------------
(* Messages.  A marker carries the count; a message gets a buffer and then *)
(* a payload.  Both keep the exchange they belong to (auxiliary).          *)

Marker(x, count) == [marker |-> TRUE, exch |-> x, count |-> count]

Message(x, id, payload) ==
    [marker |-> FALSE, exch |-> x, id |-> id, payload |-> payload,
     buffer |-> FALSE, arrival |-> 0, forced |-> FALSE, got |-> <<>>]

is_awaiting_buffer(m) == m.payload /\ ~ m.buffer

\* The position of the first message of a peer that waits for a buffer.
FirstAwaiting(p) ==
    LET waiting == {i \in DOMAIN incoming[p] : is_awaiting_buffer(incoming[p][i])}
    IN  IF waiting = {} THEN 0 ELSE Min(waiting)

\* The largest message identifier, and the number of messages of an exchange.
MaxId == Max({MaxMsgs(p, x) : p \in Peer, x \in 1 .. MaxExchanges})
MaxArrivals == Cardinality(Peer) * MaxId

ids(q) == [i \in DOMAIN q |-> q[i].id]

-----------------------------------------------------------------------------

Init ==
    /\ pexch = [p \in Peer |-> 1]
    /\ messages_sent = [p \in Peer |-> 0]
    /\ meta = [p \in Peer |-> <<>>]
    /\ data = [p \in Peer |-> <<>>]
    /\ exch = 1
    /\ pc = "out"
    /\ todo = {}
    /\ incoming = [p \in Peer |-> <<>>]
    /\ in_transit = [p \in Peer |-> <<>>]
    /\ done = [p \in Peer |-> {}]
    /\ stale = [p \in Peer |-> {}]
    /\ received = [p \in Peer |-> <<>>]
    /\ delivered = [p \in Peer |-> <<>>]
    /\ peer_received = [p \in Peer |-> 0]
    /\ peer_expected = [p \in Peer |-> 0]
    /\ peer_terminated = [p \in Peer |-> FALSE]
    /\ num_awaiting_buffer = [p \in Peer |-> 0]
    /\ total_awaiting_buffer = 0
    /\ stalled = FALSE
    /\ next_arrival = 0
    /\ finished = FALSE
    /\ fire = FALSE
    /\ fault = FALSE

-----------------------------------------------------------------------------
(* A peer's send() and finish(), and the network. *)

\* A peer leaves an exchange when it has this rank's termination marker, too.
MayBeIn(p, x) == x <= MaxExchanges /\ x <= exch + (IF finished THEN 1 ELSE 0)

\* The metadata and right after it the payload.
peer_send(p, payload) ==
    /\ MayBeIn(p, pexch[p])
    /\ messages_sent[p] < MaxMsgs(p, pexch[p])
    /\ LET id == messages_sent[p] + 1
       IN  /\ messages_sent' = [messages_sent EXCEPT ![p] = id]
           /\ meta' = [meta EXCEPT ![p] = Append(@, Message(pexch[p], id, payload))]
           /\ data' = IF payload
                      THEN [data EXCEPT ![p] = Append(@, <<pexch[p], id>>)]
                      ELSE data
    /\ UNCHANGED <<pexch, exch, pc, todo, incoming, in_transit, done, stale, received,
                   delivered, termVars, waitVars, next_arrival, finished, fire, fault>>

\* Mutant: the marker of a peer without messages is not sent.
Mut_peer_finish_silent(p) ==
    /\ MayBeIn(p, pexch[p])
    /\ meta' = IF messages_sent[p] = 0 THEN meta
               ELSE [meta EXCEPT ![p] = Append(@, Marker(pexch[p], messages_sent[p]))]
    /\ pexch' = [pexch EXCEPT ![p] = @ + 1]
    /\ messages_sent' = [messages_sent EXCEPT ![p] = 0]
    /\ UNCHANGED <<data, exch, pc, todo, incoming, in_transit, done, stale, received,
                   delivered, termVars, waitVars, next_arrival, finished, fire, fault>>

peer_finish(p) ==
    /\ MayBeIn(p, pexch[p])
    /\ meta' = [meta EXCEPT ![p] = Append(@, Marker(pexch[p], messages_sent[p]))]
    /\ pexch' = [pexch EXCEPT ![p] = @ + 1]
    /\ messages_sent' = [messages_sent EXCEPT ![p] = 0]
    /\ UNCHANGED <<data, exch, pc, todo, incoming, in_transit, done, stale, received,
                   delivered, termVars, waitVars, next_arrival, finished, fire, fault>>

\* A posted receive completes; not necessarily the oldest one.
transfer_done(p, id) ==
    /\ id \in Range(ids(in_transit[p])) \ done[p]
    /\ done' = [done EXCEPT ![p] = @ \cup {id}]
    /\ UNCHANGED <<peerVars, meta, data, exch, pc, todo, incoming, in_transit, stale,
                   received, delivered, termVars, waitVars, next_arrival, finished, fire,
                   fault>>

-----------------------------------------------------------------------------
(* progress() *)

Goto(label, peers) == pc' = label /\ todo' = peers

\* The loops visit the peers one by one.  The order is that of the ranks in
\* receive_metadata() and that of a hash map in setup_data_receives(), where it
\* does not matter: the loop bodies of two peers touch different containers.
Turn(p) == todo # {} /\ p = Min(todo)

progress ==
    /\ pc = "out"
    /\ Goto("receive", Peer)
    /\ UNCHANGED <<peerVars, meta, data, exch, incoming, in_transit, done, stale, received,
                   delivered, termVars, waitVars, next_arrival, finished, fire, fault>>

\* This peer has sent its marker and all messages it announced.
FullyDone(p) == peer_terminated[p] /\ peer_received[p] >= peer_expected[p]

\* Mutant: poll the peers that are done, too.
Mut_poll_everyone(p) == meta[p] # <<>>

\* recv_from() is called on the peers that are not fully done.
poll(p) == ~ FullyDone(p) /\ meta[p] # <<>>

\* Mutants: a success stops the timer although others wait; it is never reset.
Mut_stall_after(waiting, attached) == waiting > 0 /\ ~ attached

\* The stall timer after an allocation attempt: it runs exactly while messages wait.
stall_after(waiting, attached) ==
    IF attached THEN waiting > 0 ELSE TRUE

\* receive_metadata(), one message of peer p.  The allocator is only asked when no
\* earlier message of this peer waits; attached says whether it had memory.
receive_metadata(p, attached) ==
    /\ pc = "receive" /\ Turn(p)
    /\ poll(p)
    /\ meta' = [meta EXCEPT ![p] = Tail(@)]
    /\ LET m == Head(meta[p])
           new == [m EXCEPT !.arrival = next_arrival, !.buffer = attached]
       IN  IF m.marker
           THEN /\ ~ attached
                /\ peer_expected' = [peer_expected EXCEPT ![p] = m.count]
                /\ peer_terminated' = [peer_terminated EXCEPT ![p] = TRUE]
                /\ todo' = todo \ {p}
                /\ UNCHANGED <<incoming, waitVars, next_arrival, peer_received>>
           ELSE /\ attached => m.payload /\ num_awaiting_buffer[p] = 0
                /\ peer_received' = [peer_received EXCEPT ![p] = @ + 1]
                /\ incoming' = [incoming EXCEPT ![p] = Append(@, new)]
                /\ next_arrival' = next_arrival + 1
                /\ IF m.payload
                   THEN LET waits == IF attached THEN 0 ELSE 1
                        IN  /\ num_awaiting_buffer' = [num_awaiting_buffer EXCEPT ![p] = @ + waits]
                            /\ total_awaiting_buffer' = total_awaiting_buffer + waits
                            /\ stalled' = stall_after(total_awaiting_buffer', attached)
                   ELSE UNCHANGED waitVars
                /\ UNCHANGED <<peer_expected, peer_terminated, todo>>
    /\ UNCHANGED <<peerVars, data, exch, pc, in_transit, done, stale, received, delivered,
                   finished, fire, fault>>

\* Nothing (more) to receive from p.
receive_nothing(p) ==
    /\ pc = "receive" /\ Turn(p)
    /\ ~ poll(p)
    /\ todo' = todo \ {p}
    /\ UNCHANGED <<peerVars, meta, data, exch, pc, incoming, in_transit, done, stale,
                   received, delivered, termVars, waitVars, next_arrival, finished, fire,
                   fault>>

\* try_attach_receive_buffer() succeeds for the i-th incoming message of p.
attach(p, i, forced) ==
    /\ incoming' = [incoming EXCEPT ![p][i].buffer = TRUE, ![p][i].forced = forced]
    /\ num_awaiting_buffer' = [num_awaiting_buffer EXCEPT ![p] = @ - 1]
    /\ total_awaiting_buffer' = total_awaiting_buffer - 1
    /\ stalled' = stall_after(total_awaiting_buffer', TRUE)

\* The peer whose first waiting message arrived before all others.
oldest(p) ==
    /\ FirstAwaiting(p) # 0
    /\ \A q \in Peer : FirstAwaiting(q) # 0 =>
          incoming[p][FirstAwaiting(p)].arrival <= incoming[q][FirstAwaiting(q)].arrival

AfterForce == Goto("setup", {p \in Peer : incoming[p] # <<>>})

\* force_allocation_progress_if_stalled() before the timeout.
force_not_due ==
    /\ pc = "receive" /\ todo = {}
    /\ AfterForce
    /\ UNCHANGED <<peerVars, meta, data, exch, incoming, in_transit, done, stale, received,
                   delivered, termVars, waitVars, next_arrival, finished, fire, fault>>

\* After the timeout: the oldest waiting message gets a buffer, by force if the
\* allocator refuses it again.
force_allocation(forced) ==
    /\ pc = "receive" /\ todo = {}
    /\ stalled
    /\ IF \E p \in Peer : oldest(p)
       THEN \E p \in Peer : oldest(p) /\ attach(p, FirstAwaiting(p), forced) /\ fault' = fault
       ELSE fault' = TRUE /\ UNCHANGED <<incoming, waitVars>>
    /\ AfterForce
    /\ UNCHANGED <<peerVars, meta, data, exch, in_transit, done, stale, received, delivered,
                   termVars, next_arrival, finished, fire>>

\* setup_data_receives(): the next message of p has no payload and is complete,
\* unless an earlier message of p is in transit.
setup_metadata_only(p) ==
    /\ pc = "setup" /\ Turn(p)
    /\ incoming[p] # <<>> /\ ~ Head(incoming[p]).payload
    /\ in_transit[p] = <<>>
    /\ received' = [received EXCEPT ![p] = Append(@, Head(incoming[p]))]
    /\ incoming' = [incoming EXCEPT ![p] = Tail(@)]
    /\ UNCHANGED <<peerVars, meta, data, exch, pc, todo, in_transit, done, stale, delivered,
                   termVars, waitVars, next_arrival, finished, fire, fault>>

\* It waits for a buffer and gets one now.
setup_allocate(p) ==
    /\ pc = "setup" /\ Turn(p)
    /\ incoming[p] # <<>> /\ is_awaiting_buffer(Head(incoming[p]))
    /\ attach(p, 1, FALSE)
    /\ UNCHANGED <<peerVars, meta, data, exch, pc, todo, in_transit, done, stale, received,
                   delivered, termVars, next_arrival, finished, fire, fault>>

\* It has a buffer that is ready: post the receive, one message per peer and call.
setup_receive(p) ==
    /\ pc = "setup" /\ Turn(p)
    /\ incoming[p] # <<>> /\ Head(incoming[p]).buffer
    /\ data[p] # <<>>
    /\ LET m == [Head(incoming[p]) EXCEPT !.got = Head(data[p])]
       IN  /\ fault' = (fault \/ m.id \in Range(ids(in_transit[p])))
           /\ in_transit' = [in_transit EXCEPT ![p] = Append(@, m)]
    /\ data' = [data EXCEPT ![p] = Tail(@)]
    /\ incoming' = [incoming EXCEPT ![p] = Tail(@)]
    /\ todo' = todo \ {p}
    /\ UNCHANGED <<peerVars, meta, exch, pc, done, stale, received, delivered, termVars,
                   waitVars, next_arrival, finished, fire>>

\* Break for this peer: nothing left, an earlier message in transit, no buffer, or a
\* buffer that is not ready.
setup_break(p) ==
    /\ pc = "setup" /\ Turn(p)
    /\ incoming[p] # <<>> => (Head(incoming[p]).payload \/ in_transit[p] # <<>>)
    /\ todo' = todo \ {p}
    /\ UNCHANGED <<peerVars, meta, data, exch, pc, incoming, in_transit, done, stale,
                   received, delivered, termVars, waitVars, next_arrival, finished, fire,
                   fault>>

\* test_some() on the in-transit futures.  A request that MPI has already reported
\* is freed, and what testing it again reports is up to the MPI library.
test_some(reported) ==
    IF ReportsOnce
    THEN \A p \in Peer : done[p] \ stale[p] \subseteq reported[p] /\ reported[p] \subseteq done[p]
    ELSE reported = done

\* The number of leading messages of p that are reported complete.
CompletePrefix(p, reported) ==
    Max({k \in 0 .. Len(in_transit[p]) : \A i \in 1 .. k : in_transit[p][i].id \in reported[p]})

\* Mutant: return the completed transfers whatever their order.
Mut_complete_data_transfers(reported) ==
    /\ pc = "setup" /\ todo = {}
    /\ test_some(reported)
    /\ received' = [p \in Peer |->
          received[p] \o SelectSeq(in_transit[p], LAMBDA m : m.id \in reported[p])]
    /\ in_transit' = [p \in Peer |->
          SelectSeq(in_transit[p], LAMBDA m : m.id \notin reported[p])]
    /\ done' = [p \in Peer |-> done[p] \ reported[p]]
    /\ stale' = [p \in Peer |-> {}]
    /\ Goto("cleanup", {})
    /\ UNCHANGED <<peerVars, meta, data, exch, incoming, delivered, termVars, waitVars,
                   next_arrival, finished, fire, fault>>

\* complete_data_transfers(): per peer, in order, stopping at the first message that
\* is not complete.
complete_data_transfers(reported) ==
    /\ pc = "setup" /\ todo = {}
    /\ test_some(reported)
    /\ LET k(p) == CompletePrefix(p, reported)
           taken(p) == {in_transit[p][i].id : i \in 1 .. k(p)}
       IN  /\ received' = [p \in Peer |-> received[p] \o SubSeq(in_transit[p], 1, k(p))]
           /\ in_transit' = [p \in Peer |-> SubSeq(in_transit[p], k(p) + 1, Len(in_transit[p]))]
           /\ done' = [p \in Peer |-> done[p] \ taken(p)]
           /\ stale' = [p \in Peer |-> IF ReportsOnce THEN (stale[p] \cup reported[p]) \ taken(p)
                                       ELSE {}]
    /\ Goto("cleanup", {})
    /\ UNCHANGED <<peerVars, meta, data, exch, incoming, delivered, termVars, waitVars,
                   next_arrival, finished, fire, fault>>

\* cleanup_completed_operations() ends progress(); the caller then calls recv().
cleanup_completed_operations(sent) ==
    /\ pc = "cleanup"
    /\ fire' = (fire /\ ~ sent)
    /\ Goto("recv", {})
    /\ UNCHANGED <<peerVars, meta, data, exch, incoming, in_transit, done, stale, received,
                   delivered, termVars, waitVars, next_arrival, finished, fault>>

-----------------------------------------------------------------------------
(* recv(), finish(), is_idle() and the next exchange. *)

recv ==
    /\ pc = "recv"
    /\ Goto("out", {})
    /\ delivered' = [p \in Peer |-> delivered[p] \o received[p]]
    /\ received' = [p \in Peer |-> <<>>]
    /\ UNCHANGED <<peerVars, meta, data, exch, incoming, in_transit, done, stale,
                   termVars, waitVars, next_arrival, finished, fire, fault>>

finish ==
    /\ pc = "out"
    /\ ~ finished
    /\ finished' = TRUE
    /\ fire' = TRUE
    /\ UNCHANGED <<peerVars, meta, data, exch, pc, todo, incoming, in_transit, done, stale,
                   received, delivered, termVars, waitVars, next_arrival, fault>>

\* Mutant: idle as soon as nothing is under way.
Mut_is_idle ==
    /\ ~ fire
    /\ \A p \in Peer : incoming[p] = <<>> /\ in_transit[p] = <<>>

is_idle ==
    /\ ~ fire
    /\ \A p \in Peer : incoming[p] = <<>> /\ in_transit[p] = <<>>
    /\ finished => \A p \in Peer : FullyDone(p)

\* The application has everything of this exchange and starts the next one.
next_exchange ==
    /\ pc = "out"
    /\ exch < MaxExchanges
    /\ finished /\ is_idle
    /\ exch' = exch + 1
    /\ delivered' = [p \in Peer |-> <<>>]
    /\ peer_received' = [p \in Peer |-> 0]
    /\ peer_expected' = [p \in Peer |-> 0]
    /\ peer_terminated' = [p \in Peer |-> FALSE]
    /\ next_arrival' = 0
    /\ finished' = FALSE
    /\ UNCHANGED <<peerVars, meta, data, pc, todo, incoming, in_transit, done, stale,
                   received, waitVars, fire, fault>>

ThreadStep ==
    \/ progress
    \/ \E p \in Peer, attached \in BOOLEAN : receive_metadata(p, attached)
    \/ \E p \in Peer : receive_nothing(p)
    \/ force_not_due
    \/ \E forced \in BOOLEAN : force_allocation(forced)
    \/ \E p \in Peer :
          setup_metadata_only(p) \/ setup_allocate(p) \/ setup_receive(p) \/ setup_break(p)
    \/ /\ pc = "setup" /\ todo = {}
       /\ \E reported \in [Peer -> SUBSET (1 .. MaxId)] : complete_data_transfers(reported)
    \/ \E sent \in BOOLEAN : cleanup_completed_operations(sent)
    \/ recv
    \/ finish
    \/ next_exchange

Next ==
    \/ \E p \in Peer, payload \in BOOLEAN : peer_send(p, payload)
    \/ \E p \in Peer : peer_finish(p)
    \/ \E p \in Peer, id \in 1 .. MaxId : transfer_done(p, id)
    \/ ThreadStep

Spec == Init /\ [][Next]_vars

(***************************************************************************)
(* The progress thread keeps calling progress() and recv(); every rank     *)
(* finishes; transfers and sends complete; a buffer that is allocated      *)
(* becomes ready; the clock passes the allocation timeout.  Nothing is     *)
(* assumed about the allocator: MAY_FAIL may fail for ever.  Each of these *)
(* steps can be taken only so many times, so that fairness to any of them  *)
(* is fairness to each.                                                    *)
(***************************************************************************)
DueStep ==
    \/ finish
    \/ next_exchange
    \/ fire /\ cleanup_completed_operations(TRUE)
    \/ force_allocation(TRUE)
    \/ \E p \in Peer : setup_metadata_only(p) \/ setup_receive(p)

Fairness ==
    /\ WF_vars(ThreadStep)
    /\ SF_vars(DueStep)
    /\ WF_vars(\E p \in Peer : peer_finish(p))
    /\ WF_vars(\E p \in Peer, id \in 1 .. MaxId : transfer_done(p, id))

-----------------------------------------------------------------------------

\* Type correctness of the exchange's bookkeeping.
TypeOK ==
    /\ pexch \in [Peer -> 1 .. MaxExchanges + 1]
    /\ messages_sent \in [Peer -> 0 .. MaxId]
    /\ exch \in 1 .. MaxExchanges
    /\ pc \in {"out", "receive", "setup", "cleanup", "recv"}
    /\ todo \subseteq Peer
    /\ \A p \in Peer : done[p] \subseteq 1 .. MaxId /\ stale[p] \subseteq done[p]
    /\ peer_received \in [Peer -> 0 .. MaxId]
    /\ peer_expected \in [Peer -> 0 .. MaxId]
    /\ peer_terminated \in [Peer -> BOOLEAN]
    /\ num_awaiting_buffer \in [Peer -> 0 .. MaxId]
    /\ total_awaiting_buffer \in 0 .. MaxArrivals
    /\ next_arrival \in 0 .. MaxArrivals
    /\ {stalled, finished, fire, fault} \subseteq BOOLEAN

\* What the application has got of peer p in this exchange.
Out(p) == delivered[p] \o received[p]

(***************************************************************************)
(* Messages of a peer are delivered in the order they were sent, none is   *)
(* skipped or repeated, and each with its own payload.                     *)
(***************************************************************************)
InOrderWithPayload ==
    \A p \in Peer : \A i \in DOMAIN Out(p) :
        /\ Out(p)[i].id = i
        /\ Out(p)[i].payload => Out(p)[i].got = <<exch, i>>

(***************************************************************************)
(* An exchange never takes a message of the next exchange, although both   *)
(* use the same tags and a peer may be one exchange ahead.                 *)
(***************************************************************************)
NoCrossTalk ==
    \A p \in Peer : \A m \in Range(incoming[p] \o in_transit[p] \o Out(p)) : m.exch = exch

\* The messages of a peer that wait for a buffer.
Awaiting(p) == {m.id : m \in {m \in Range(incoming[p]) : is_awaiting_buffer(m)}}
AllAwaiting == UNION {{p} \X Awaiting(p) : p \in Peer}

(***************************************************************************)
(* The counts of waiting messages are exact, the stall timer runs exactly  *)
(* while a message waits, and per peer buffers are given in message order. *)
(***************************************************************************)
AwaitingExact ==
    /\ \A p \in Peer : num_awaiting_buffer[p] = Cardinality(Awaiting(p))
    /\ total_awaiting_buffer = Cardinality(AllAwaiting)
    /\ stalled <=> total_awaiting_buffer > 0
    /\ \A p \in Peer : \A i, j \in DOMAIN incoming[p] :
          i < j /\ is_awaiting_buffer(incoming[p][i]) => ~ incoming[p][j].buffer

(***************************************************************************)
(* What the application gets is in order, complete up to there, with the   *)
(* right payloads, and of this exchange.                                   *)
(***************************************************************************)
DeliveryIsSound == InOrderWithPayload /\ NoCrossTalk

\* After finish(), an idle exchange has everything its peers sent in it.
IdleIsComplete ==
    finished /\ is_idle /\ pc = "out" =>
        \A p \in Peer : pexch[p] > exch /\ Len(Out(p)) = peer_expected[p]

\* No RAPIDSMPF_EXPECTS of progress() throws.
NoFault == ~ fault

(***************************************************************************)
(* Over refused, late and forced allocations the bookkeeping of the        *)
(* exchange stays well typed and exact, and none of its checks throws.     *)
(***************************************************************************)
BookkeepingIsExact == TypeOK /\ AwaitingExact /\ NoFault

(***************************************************************************)
(* A message is never dropped: every exchange becomes idle with all its    *)
(* messages delivered, even if the allocator never has memory.             *)
(***************************************************************************)
EverythingIsDelivered ==
    <>(/\ exch = MaxExchanges /\ finished /\ is_idle
       /\ \A p \in Peer : FullyDone(p) /\ Len(delivered[p]) = peer_expected[p])

-----------------------------------------------------------------------------
(* The exchange implements its interface. *)

Keys(q) == [i \in DOMAIN q |-> <<q[i].exch, IF q[i].marker THEN 0 ELSE q[i].id>>]

\* A marker that was taken before the messages in front of it are out.
Ending(p) == IF peer_terminated[p] THEN <<<<exch, 0>>>> ELSE <<>>

MPE == INSTANCE MetadataPayloadExchange WITH
    MsgId <- 1 .. MaxId,
    MaxBatch <- MaxId,
    queue <- [p \in Peer |->
        Keys(in_transit[p]) \o (Keys(incoming[p]) \o (Ending(p) \o Keys(meta[p])))],
    out <- [p \in Peer |-> Keys(Out(p))]

\* Whatever the allocator refuses and in whatever order transfers complete, a peer's
\* messages come out of a FIFO queue, and every exchange gets exactly its own.
ContractRefinement == MPE!Spec

=============================================================================
