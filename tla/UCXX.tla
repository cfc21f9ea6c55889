-------------------------------- MODULE UCXX --------------------------------
(***************************************************************************)
(* rapidsmpf::ucxx: processes connect to the root, which hands out ranks   *)
(* in the order in which they arrive; the first barrier() distributes the  *)
(* listener addresses, from which get_endpoint() connects to other ranks.  *)
(* Active messages of one process to another arrive in order (external).   *)
(***************************************************************************)
EXTENDS Integers, Sequences, FiniteSets, Functions

CONSTANTS
    Procs,       \* the processes
    Root,        \* the one that starts without a remote address
    MaxRounds    \* bound: calls of barrier() per process

ASSUME ProcsAssumption == IsFiniteSet(Procs)
ASSUME RootAssumption == Root \in Procs
ASSUME MaxRoundsAssumption == MaxRounds \in Nat

WorldSize == Cardinality(Procs)
World == 0 .. WorldSize - 1

VARIABLES
    by_host_port,       \* remote_address is a HostPortPair and not a worker address
    threaded,           \* the UCXX worker has its own progress thread
    rank,               \* rank_
    next_rank,          \* next_rank_ of the root
    endpoint,           \* endpoint[p][r]: the process rank_to_endpoint_ leads to
    address,            \* address[p][r]: whose address is in rank_to_listener_address_
    delayed_callbacks,  \* ranks of the root's delayed_progress_callbacks_
    distributed,        \* listener_addresses_distributed_ of the root
    am_wire,            \* am_wire[p][q]: active messages under way from p to q
    am_pool,            \* am_pool[p][q]: plain messages of q that p has not received yet
    position,           \* position[p]: the loop in which p is
    rounds_entered,     \* rounds_entered[p]: barriers p has entered
    rounds_left         \* rounds_left[p]: barriers p has left

options == <<by_host_port, threaded>>
sharedResources == <<rank, next_rank, endpoint, address, delayed_callbacks, distributed>>
rounds == <<rounds_entered, rounds_left>>
ucxxVars == <<options, sharedResources, am_wire, am_pool, position, rounds>>

\* emplace(): the entry that is there stays.  register_endpoint() also throws when
\* the rank has an endpoint, which no step of this protocol meets: every rank is
\* registered once, and get_endpoint() looks before it registers.
Entry(r, p) == [x \in {r} |-> p]
Emplace(map, entries) ==
    [r \in DOMAIN map \cup DOMAIN entries |-> IF r \in DOMAIN map THEN map[r] ELSE entries[r]]

\* init(), up to the connection: every process registers its listener under its rank_ of the
\* moment, and the root its own endpoint.
UcxxInit ==
    /\ by_host_port \in BOOLEAN
    /\ threaded \in BOOLEAN
    /\ rank = [p \in Procs |-> IF p = Root THEN 0 ELSE -1]
    /\ next_rank = 1
    /\ endpoint = [p \in Procs |-> IF p = Root THEN Entry(0, p) ELSE <<>>]
    /\ address = [p \in Procs |-> Entry(rank[p], p)]
    /\ delayed_callbacks = <<>>
    /\ distributed = FALSE
    /\ am_wire = [p \in Procs |-> [q \in Procs |-> <<>>]]
    /\ am_pool = [p \in Procs |-> [q \in Procs |-> 0]]
    /\ position = [p \in Procs |-> IF p = Root THEN "idle" ELSE "start"]
    /\ rounds_entered = [p \in Procs |-> 0]
    /\ rounds_left = [p \in Procs |-> 0]

\* p is in a loop that calls progress_worker().
Polls(p) == position[p] \notin {"start", "idle"}

AmSend(p, q, m) == am_wire' = [am_wire EXCEPT ![p][q] = Append(@, m)]

-----------------------------------------------------------------------------
(* init() of a process that is not the root.                               *)

connect_to_root(p) ==
    /\ position[p] = "start"
    /\ AmSend(p, Root, [type |-> IF by_host_port THEN "ConnectionRequest" ELSE "QueryRank"])
    /\ endpoint' = [endpoint EXCEPT ![p] = Emplace(@, Entry(0, Root))]
    /\ position' = [position EXCEPT ![p] = "get_rank"]
    /\ UNCHANGED <<options, rank, next_rank, address, delayed_callbacks, distributed, am_pool, rounds>>

rank_known(p) ==
    /\ position[p] = "get_rank" /\ rank[p] # -1
    /\ endpoint' = [endpoint EXCEPT ![p] = Emplace(@, Entry(rank[p], p))]
    /\ IF by_host_port
       THEN AmSend(p, Root, [type |-> "RegisterListenerAddress", rank |-> rank[p]])
       ELSE UNCHANGED am_wire
    /\ position' = [position EXCEPT ![p] = "idle"]
    /\ UNCHANGED <<options, rank, next_rank, address, delayed_callbacks, distributed, am_pool, rounds>>

-----------------------------------------------------------------------------
(* What arrives at process q while its worker is progressed, by a loop of  *)
(* q or by the progress thread.                                            *)

\* control_unpack(): AssignRank, DistributeListenerAddresses, RegisterListenerAddress.
control_unpack(q, p, m) ==
    /\ rank' = IF m.type = "AssignRank" THEN [rank EXCEPT ![q] = m.rank] ELSE rank
    /\ address' = CASE m.type = "DistributeListenerAddresses" ->
                          [address EXCEPT ![q] = Emplace(@, m.addresses)]
                    [] m.type = "RegisterListenerAddress" ->
                          [address EXCEPT ![q] = Emplace(@, Entry(m.rank, p))]
                    [] OTHER -> address

deliver_control(q, p) ==
    LET m == Head(am_wire[p][q])
    IN  /\ m.type \in {"AssignRank", "DistributeListenerAddresses", "RegisterListenerAddress"}
        /\ control_unpack(q, p, m)
        /\ am_wire' = [am_wire EXCEPT ![p][q] = Tail(@)]
        /\ UNCHANGED <<options, next_rank, endpoint, delayed_callbacks, distributed, am_pool, position, rounds>>

\* control_unpack(): QueryRank.  The endpoint is for a callback to create.
deliver_query(p) ==
    /\ Head(am_wire[p][Root]).type = "QueryRank"
    /\ next_rank' = next_rank + 1
    /\ address' = [address EXCEPT ![Root] = Emplace(@, Entry(next_rank, p))]
    /\ delayed_callbacks' = Append(delayed_callbacks, next_rank)
    /\ am_wire' = [am_wire EXCEPT ![p][Root] = Tail(@)]
    /\ UNCHANGED <<options, rank, endpoint, distributed, am_pool, position, rounds>>

listener_callback(p) ==
    /\ Head(am_wire[p][Root]).type = "ConnectionRequest"
    /\ next_rank' = next_rank + 1
    /\ endpoint' = [endpoint EXCEPT ![Root] = Emplace(@, Entry(next_rank, p))]
    /\ am_wire' = [am_wire EXCEPT ![p][Root] = Tail(@),
                                  ![Root][p] = Append(@, [type |-> "AssignRank", rank |-> next_rank])]
    /\ UNCHANGED <<options, rank, address, delayed_callbacks, distributed, am_pool, position, rounds>>

deliver_plain(q, p) ==
    /\ Head(am_wire[p][q]).type = "plain"
    /\ am_pool' = [am_pool EXCEPT ![q][p] = @ + 1]
    /\ am_wire' = [am_wire EXCEPT ![p][q] = Tail(@)]
    /\ UNCHANGED <<options, sharedResources, position, rounds>>

worker_progress(q, p) ==
    /\ threaded \/ Polls(q)
    /\ am_wire[p][q] # <<>>
    /\ \/ deliver_control(q, p) \/ deliver_plain(q, p)
       \/ q = Root /\ (deliver_query(p) \/ listener_callback(p))

\* progress_worker() runs the delayed callbacks before it progresses the worker.
delayed_progress_callback ==
    /\ Polls(Root) /\ delayed_callbacks # <<>>
    /\ LET r == Head(delayed_callbacks)
           p == address[Root][r]
       IN  /\ endpoint' = [endpoint EXCEPT ![Root] = Emplace(@, Entry(r, p))]
           /\ AmSend(Root, p, [type |-> "AssignRank", rank |-> r])
    /\ delayed_callbacks' = Tail(delayed_callbacks)
    /\ UNCHANGED <<options, rank, next_rank, address, distributed, am_pool, position, rounds>>

-----------------------------------------------------------------------------
(* barrier().                                                              *)

barrier_call(p) ==
    /\ position[p] = "idle" /\ rounds_entered[p] < MaxRounds
    /\ rounds_entered' = [rounds_entered EXCEPT ![p] = @ + 1]
    /\ position' = [position EXCEPT ![p] = IF p = Root THEN "all_connected" ELSE "called"]
    /\ UNCHANGED <<options, sharedResources, am_wire, am_pool, rounds_left>>

Plain == [type |-> "plain"]
Others == Procs \ {Root}
Connected == {endpoint[Root][r] : r \in DOMAIN endpoint[Root] \ {0}}
Receive(p, from) == am_pool' = [am_pool EXCEPT ![p] = [q \in Procs |-> @[q] - IF q \in from THEN 1 ELSE 0]]

\* The root sends to every endpoint once it has all of them.
root_calls ==
    /\ position[Root] = "all_connected"
    /\ Cardinality(DOMAIN endpoint[Root]) = WorldSize
    /\ am_wire' = [am_wire EXCEPT ![Root] =
          [q \in Procs |-> IF q \in Connected THEN Append(@[q], Plain) ELSE @[q]]]
    /\ position' = [position EXCEPT ![Root] = "reported"]
    /\ UNCHANGED <<options, sharedResources, am_pool, rounds>>

\* Mutant: each rank is told its own listener address instead of those of the others.
Mut_AddressesFor(dst) == Restrict(address[Root], {r \in DOMAIN address[Root] : address[Root][r] = dst})

\* What distribute_listener_addresses() sends to process dst.
AddressesFor(dst) ==
    Restrict(address[Root], {r \in DOMAIN address[Root] : address[Root][r] # dst})

Distribution(q) ==
    IF distributed
    THEN <<>>
    ELSE <<[type |-> "DistributeListenerAddresses", addresses |-> AddressesFor(q)]>>

AllReported == \A q \in Connected : am_pool[Root][q] > 0

\* Everyone has reported: the addresses, the first time, and the release.
root_releases ==
    /\ position[Root] = "reported"
    /\ AllReported
    /\ Receive(Root, Connected)
    /\ am_wire' = [am_wire EXCEPT ![Root] =
          [q \in Procs |-> IF q \in Connected THEN @[q] \o Distribution(q) \o <<Plain>> ELSE @[q]]]
    /\ distributed' = TRUE
    /\ position' = [position EXCEPT ![Root] = "idle"]
    /\ rounds_left' = [rounds_left EXCEPT ![Root] = @ + 1]
    /\ UNCHANGED <<options, rank, next_rank, endpoint, address, delayed_callbacks, rounds_entered>>

\* Another rank answers the call of the root ...
report(p) ==
    /\ position[p] = "called" /\ am_pool[p][Root] > 0
    /\ Receive(p, {Root})
    /\ AmSend(p, Root, Plain)
    /\ position' = [position EXCEPT ![p] = "released"]
    /\ UNCHANGED <<options, sharedResources, rounds>>

\* ... and waits for the release.
released(p) ==
    /\ position[p] = "released" /\ am_pool[p][Root] > 0
    /\ Receive(p, {Root})
    /\ position' = [position EXCEPT ![p] = "idle"]
    /\ rounds_left' = [rounds_left EXCEPT ![p] = @ + 1]
    /\ UNCHANGED <<options, sharedResources, am_wire, rounds_entered>>

\* UCXX::get_endpoint() on a communicator that create_ucxx_comm() has returned.
get_endpoint(p, r) ==
    /\ position[p] = "idle" /\ rounds_left[p] > 0
    /\ r \notin DOMAIN endpoint[p]
    /\ r \in DOMAIN address[p]
    /\ endpoint' = [endpoint EXCEPT ![p] = Emplace(@, Entry(r, address[p][r]))]
    /\ UNCHANGED <<options, rank, next_rank, address, delayed_callbacks, distributed, am_wire,
                   am_pool, position, rounds>>

proc_step(p) ==
    connect_to_root(p) \/ rank_known(p) \/ barrier_call(p) \/ report(p) \/ released(p)

root_step == root_calls \/ root_releases \/ delayed_progress_callback

UcxxNext ==
    \/ root_step
    \/ \E p \in Procs : proc_step(p) \/ \E r \in World : get_endpoint(p, r)
    \/ \E p, q \in Procs : worker_progress(q, p)

(***************************************************************************)
(* Every process keeps running, and what is sent to a process whose worker *)
(* is progressed arrives.  Each of these steps can be taken only so many   *)
(* times, so that fairness to any of them is fairness to each.             *)
(***************************************************************************)
UcxxProgress ==
    root_step \/ (\E p \in Procs : proc_step(p)) \/ (\E p, q \in Procs : worker_progress(q, p))

-----------------------------------------------------------------------------

(***************************************************************************)
(* Once barrier() has returned the first time, get_endpoint() of a rank    *)
(* finds an endpoint or the address for every rank, and it leads to the    *)
(* process that has this rank: the RegisterListenerAddress messages have   *)
(* reached the root before it distributes the addresses, and those have    *)
(* reached a rank before its release does.                                 *)
(***************************************************************************)
EveryRankIsReachable ==
    \A p \in Procs : rounds_left[p] > 0 =>
        \A r \in World :
            LET known == Emplace(endpoint[p], address[p])
            IN  r \in DOMAIN known /\ rank[known[r]] = r

\* All barriers are through everywhere.
UcxxDone == \A p \in Procs : rounds_left[p] = MaxRounds /\ position[p] = "idle"
=============================================================================
