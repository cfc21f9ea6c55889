------------------------------- MODULE Shuffler -------------------------------
(***************************************************************************)
(* rapidsmpf::shuffler::Shuffler on every rank: the user thread (insert,   *)
(* insert_finished, wait, extract, shutdown) and the progress function the *)
(* progress thread calls over and over.  The two threads of a rank share   *)
(* to_send, received, the finish counter, locally_finished, can_extract    *)
(* and active; every atomic or locked access to them is a step of its own  *)
(* where the order of the accesses can matter.                             *)
(*                                                                         *)
(* The metadata/payload exchange (MPE) is used through its contract: per   *)
(* peer, messages arrive in the order they were sent, and finish() sends   *)
(* every peer a termination marker after the messages.  A message stays on *)
(* wire[s][d] until the receiver's progress() has its payload, too.        *)
(***************************************************************************)
EXTENDS Integers, Sequences, FiniteSets, FiniteSetsExt, SequencesExt

CONSTANTS
    NRanks,                 \* comm->nranks()
    NParts,                 \* total_num_partitions
    partition_owner(_),     \* the PartitionOwner given to the constructor
    chunk_id_counter_bits,  \* width of the counter part of a chunk ID
    Inserters,              \* the ranks that have data
    MaxInserts,             \* bound: data chunks inserted on such a rank
    WaitFirst               \* does the user wait() and extract before shutdown()?

Rank == 0 .. NRanks - 1
Part == 0 .. NParts - 1

ASSUME RanksAssumption == NRanks \in Nat \ {0}
ASSUME PartsAssumption == NParts \in Nat \ {0}
ASSUME OwnerAssumption == \A p \in Part : partition_owner(p) \in Rank
ASSUME InsertsAssumption == Inserters \subseteq Rank /\ MaxInserts \in Nat
ASSUME BitsAssumption ==
    /\ chunk_id_counter_bits \in Nat /\ 2^chunk_id_counter_bits \in Nat
    /\ MaxInserts + NRanks < 2^chunk_id_counter_bits
ASSUME WaitAssumption == WaitFirst \in BOOLEAN

VARIABLES
    upc,                  \* the user thread: where it is in its program
    cur,                  \* the chunk the user thread is inserting
    fin,                  \* the next rank of the loop of insert_finished()
    cid,                  \* chunk_id_counter_
    outbound,             \* outbound_chunk_counter_
    locally_finished,     \* locally_finished_
    active,               \* active_
    can_extract,          \* can_extract_
    to_send,              \* to_send_
    ready,                \* ready_chunks of this iteration, not yet sent
    received,             \* received_, as a set of chunks
    extracted,            \* the chunks extract() has returned
    fc,                   \* finish_counter_
    ppc,                  \* the progress function: where it is in an iteration
    inbox,                \* completed_messages of this iteration, by peer
    pcur,                 \* the chunk the progress function is inserting
    mpe_finish_called,    \* mpe_finish_called_
    containers_empty,     \* the local of this iteration
    wire,                 \* MPE messages from s to d, not yet received
    fire,                 \* the MPE has fire-and-forget sends that are not done
    terminated,           \* the MPE's peers whose termination marker was received
    fault                 \* a RAPIDSMPF_EXPECTS has thrown

userVars == <<upc, cur, fin, cid, outbound>>
progressVars == <<ppc, ready, inbox, pcur, mpe_finish_called, containers_empty>>
mpeVars == <<wire, fire, terminated>>
vars == <<userVars, progressVars, mpeVars, locally_finished, active, can_extract,
          to_send, received, extracted, fc, fault>>

-----------------------------------------------------------------------------
(* Chunks and partitions. *)

NoChunk == [cid |-> -1]     \* no chunk in hand
Term == [cid |-> -2]        \* a termination marker of the MPE

\* The counter is in the low bits of a chunk ID, the rank above them.
new_cid(r) == r * 2^chunk_id_counter_bits + cid[r] + 1

extract_rank(id) == id \div 2^chunk_id_counter_bits

\* Field nth is auxiliary: it numbers the chunks of a source for a destination.
Chunk == [cid : Nat, pid : Part, expected : Nat, nth : Nat]

is_control_message(c) == c.expected > 0

\* Shuffler::round_robin and Shuffler::contiguous, the partition owners the code provides.
round_robin(p) == p % NRanks
contiguous(p) == (p * NRanks) \div NParts

local_partitions(r) == {p \in Part : partition_owner(p) = r}

owner(c) == partition_owner(c.pid)

\* The last partition of a rank stands for the rank in insert_finished().
representative_pid(r) == Max(local_partitions(r))

-----------------------------------------------------------------------------
(* The finish counter of rank r; both methods may throw. *)

nranks(r) == IF local_partitions(r) # {} THEN NRanks ELSE 0

move_goalpost(r, c) ==
    LET src == extract_rank(c.cid)
        ok == c.expected # 0 /\ src < nranks(r) /\ src \notin fc[r].reported
    IN  /\ fc' = IF ok
                 THEN [fc EXCEPT ![r].reported = @ \cup {src},
                                 ![r].n_ranks_with_goalpost = @ + 1,
                                 ![r].total_chunk_goal = @ + c.expected]
                 ELSE fc
        /\ fault' = [fault EXCEPT ![r] = @ \/ ~ ok]

add_finished_chunk(r) ==
    LET f == [fc[r] EXCEPT !.total_finished_chunks = @ + 1]
        ok == \/ f.n_ranks_with_goalpost < nranks(r)
              \/ f.total_finished_chunks <= f.total_chunk_goal
    IN  /\ fc' = [fc EXCEPT ![r] = f]
        /\ fault' = [fault EXCEPT ![r] = @ \/ ~ ok]

all_finished(r) ==
    /\ fc[r].n_ranks_with_goalpost = nranks(r)
    /\ fc[r].total_finished_chunks = fc[r].total_chunk_goal

\* insert_into_received() up to add_finished_chunk(), on either thread of rank r.
insert_into_received(r, c) ==
    IF is_control_message(c)
    THEN move_goalpost(r, c) /\ UNCHANGED received
    ELSE received' = [received EXCEPT ![r] = @ \cup {c}] /\ UNCHANGED <<fc, fault>>

-----------------------------------------------------------------------------

Init ==
    /\ upc = [r \in Rank |-> "insert"]
    /\ cur = [r \in Rank |-> NoChunk]
    /\ fin = [r \in Rank |-> 0]
    /\ cid = [r \in Rank |-> 0]
    /\ outbound = [r \in Rank |-> [d \in Rank |-> 0]]
    /\ locally_finished = [r \in Rank |-> FALSE]
    /\ active = [r \in Rank |-> TRUE]
    /\ can_extract = [r \in Rank |-> FALSE]
    /\ to_send = [r \in Rank |-> <<>>]
    /\ received = [r \in Rank |-> {}]
    /\ extracted = [r \in Rank |-> {}]
    /\ fc = [r \in Rank |-> [reported |-> {}, n_ranks_with_goalpost |-> 0,
                             total_chunk_goal |-> 0, total_finished_chunks |-> 0]]
    /\ ppc = [r \in Rank |-> "send"]
    /\ ready = [r \in Rank |-> <<>>]
    /\ inbox = [r \in Rank |-> [s \in Rank |-> <<>>]]
    /\ pcur = [r \in Rank |-> NoChunk]
    /\ mpe_finish_called = [r \in Rank |-> FALSE]
    /\ containers_empty = [r \in Rank |-> FALSE]
    /\ wire = [s \in Rank |-> [d \in Rank |-> <<>>]]
    /\ fire = [r \in Rank |-> FALSE]
    /\ terminated = [r \in Rank |-> {}]
    /\ fault = [r \in Rank |-> FALSE]

-----------------------------------------------------------------------------
(* The user thread of rank r. *)

\* insert(): create the chunk and count it for its destination.
insert(r, p) ==
    /\ upc[r] = "insert" /\ cur[r] = NoChunk
    /\ ~ locally_finished[r]
    /\ r \in Inserters /\ cid[r] < MaxInserts
    /\ LET d == partition_owner(p)
       IN  /\ cid' = [cid EXCEPT ![r] = @ + 1]
           /\ outbound' = [outbound EXCEPT ![r][d] = @ + 1]
           /\ cur' = [cur EXCEPT ![r] = [cid |-> new_cid(r), pid |-> p, expected |-> 0,
                                         nth |-> outbound[r][d] + 1]]
    /\ UNCHANGED <<upc, fin, progressVars, mpeVars, locally_finished, active,
                   can_extract, to_send, received, extracted, fc, fault>>

\* Mutant: locally_finished is stored before the control messages are queued.
Mut_begin_insert_finished_early(r) ==
    /\ upc[r] = "insert" /\ cur[r] = NoChunk
    /\ upc' = [upc EXCEPT ![r] = "finish"]
    /\ locally_finished' = [locally_finished EXCEPT ![r] = TRUE]
    /\ UNCHANGED <<cur, fin, cid, outbound, progressVars, mpeVars, active, can_extract,
                   to_send, received, extracted, fc, fault>>

\* insert_finished() is called once all inserts have returned.
begin_insert_finished(r) ==
    /\ upc[r] = "insert" /\ cur[r] = NoChunk
    /\ upc' = [upc EXCEPT ![r] = "finish"]
    /\ UNCHANGED <<cur, fin, cid, outbound, progressVars, mpeVars, locally_finished,
                   active, can_extract, to_send, received, extracted, fc, fault>>

\* Mutant: insert(Chunk) counts the control message as a data chunk.
Mut_insert_finished_as_data(r) ==
    /\ upc[r] = "finish" /\ cur[r] = NoChunk
    /\ fin[r] < NRanks /\ local_partitions(fin[r]) # {}
    /\ cid' = [cid EXCEPT ![r] = @ + 1]
    /\ outbound' = [outbound EXCEPT ![r][fin[r]] = @ + 1]
    /\ cur' = [cur EXCEPT ![r] =
          [cid |-> new_cid(r), pid |-> representative_pid(fin[r]),
           expected |-> outbound'[r][fin[r]], nth |-> outbound'[r][fin[r]]]]
    /\ fin' = [fin EXCEPT ![r] = @ + 1]
    /\ UNCHANGED <<upc, progressVars, mpeVars, locally_finished, active, can_extract,
                   to_send, received, extracted, fc, fault>>

\* One iteration of its loop: a control message for rank fin[r], unless that rank
\* owns no partitions.
insert_finished(r) ==
    /\ upc[r] = "finish" /\ cur[r] = NoChunk
    /\ fin[r] < NRanks
    /\ LET d == fin[r]
       IN  IF local_partitions(d) = {}
           THEN UNCHANGED <<cid, cur>>
           ELSE /\ cid' = [cid EXCEPT ![r] = @ + 1]
                /\ cur' = [cur EXCEPT ![r] =
                      [cid |-> new_cid(r), pid |-> representative_pid(d),
                       expected |-> outbound[r][d] + 1, nth |-> outbound[r][d] + 1]]
    /\ fin' = [fin EXCEPT ![r] = @ + 1]
    /\ UNCHANGED <<upc, outbound, progressVars, mpeVars, locally_finished, active,
                   can_extract, to_send, received, extracted, fc, fault>>

\* insert(Chunk): a local chunk is received at once, a remote one is queued.
insert_chunk(r) ==
    /\ upc[r] \in {"insert", "finish"} /\ cur[r] # NoChunk
    /\ IF owner(cur[r]) = r
       THEN /\ insert_into_received(r, cur[r])
            /\ upc' = [upc EXCEPT ![r] = IF @ = "insert" THEN "insert_tally" ELSE "finish_tally"]
            /\ UNCHANGED <<cur, to_send>>
       ELSE /\ to_send' = [to_send EXCEPT ![r] = Append(@, cur[r])]
            /\ cur' = [cur EXCEPT ![r] = NoChunk]
            /\ UNCHANGED <<upc, received, fc, fault>>
    /\ UNCHANGED <<fin, cid, outbound, progressVars, mpeVars, locally_finished,
                   active, can_extract, extracted>>

\* The end of insert_into_received() for a local chunk.
insert_chunk_tally(r) ==
    /\ upc[r] \in {"insert_tally", "finish_tally"}
    /\ add_finished_chunk(r)
    /\ upc' = [upc EXCEPT ![r] = IF @ = "insert_tally" THEN "insert" ELSE "finish"]
    /\ cur' = [cur EXCEPT ![r] = NoChunk]
    /\ UNCHANGED <<fin, cid, outbound, progressVars, mpeVars, locally_finished,
                   active, can_extract, to_send, received, extracted>>

\* The end of insert_finished().
end_insert_finished(r) ==
    /\ upc[r] = "finish" /\ fin[r] = NRanks /\ cur[r] = NoChunk
    /\ locally_finished' = [locally_finished EXCEPT ![r] = TRUE]
    /\ upc' = [upc EXCEPT ![r] = "wait"]
    /\ UNCHANGED <<cur, fin, cid, outbound, progressVars, mpeVars, active, can_extract,
                   to_send, received, extracted, fc, fault>>

wait(r) ==
    /\ upc[r] = "wait"
    /\ can_extract[r]
    /\ upc' = [upc EXCEPT ![r] = "extract"]
    /\ UNCHANGED <<cur, fin, cid, outbound, progressVars, mpeVars, locally_finished,
                   active, can_extract, to_send, received, extracted, fc, fault>>

\* The user extracts its partitions one by one; an empty one returns at once.
extract(r, p) ==
    /\ upc[r] = "extract"
    /\ LET chunks == {c \in received[r] : c.pid = p}
       IN  /\ chunks # {}
           /\ received' = [received EXCEPT ![r] = @ \ chunks]
           /\ extracted' = [extracted EXCEPT ![r] = @ \cup chunks]
    /\ UNCHANGED <<userVars, progressVars, mpeVars, locally_finished, active,
                   can_extract, to_send, fc, fault>>

\* shutdown() clears active and then blocks in remove_function().  The user calls it
\* when it has extracted everything; unless WaitFirst, it may skip wait() altogether.
shutdown(r) ==
    /\ upc[r] \in (IF WaitFirst THEN {"extract"} ELSE {"wait", "extract"})
    /\ upc[r] = "extract" => received[r] = {}
    /\ active' = [active EXCEPT ![r] = FALSE]
    /\ upc' = [upc EXCEPT ![r] = "remove"]
    /\ UNCHANGED <<cur, fin, cid, outbound, progressVars, mpeVars, locally_finished,
                   can_extract, to_send, received, extracted, fc, fault>>

remove_function(r) ==
    /\ upc[r] = "remove"
    /\ ppc[r] = "Done"
    /\ upc' = [upc EXCEPT ![r] = "end"]
    /\ UNCHANGED <<cur, fin, cid, outbound, progressVars, mpeVars, locally_finished,
                   active, can_extract, to_send, received, extracted, fc, fault>>

user(r) ==
    \/ \E p \in Part : insert(r, p) \/ extract(r, p)
    \/ begin_insert_finished(r)
    \/ insert_finished(r)
    \/ insert_chunk(r)
    \/ insert_chunk_tally(r)
    \/ end_insert_finished(r)
    \/ wait(r)
    \/ shutdown(r)
    \/ remove_function(r)

-----------------------------------------------------------------------------
(* The progress function of rank r: one iteration of Progress::operator(). *)

Goto(r, label) == ppc' = [ppc EXCEPT ![r] = label]

\* extract_ready() takes the chunks before the first one whose data still has
\* stream-ordered work; a control message has none.
ReadyPrefix(q) == {k \in 0 .. Len(q) : k < Len(q) => ~ is_control_message(q[k + 1])}

\* extract_ready(): the first k chunks leave to_send.
extract_ready(r, k) ==
    /\ ppc[r] = "send"
    /\ k \in ReadyPrefix(to_send[r])
    /\ ready' = [ready EXCEPT ![r] = SubSeq(to_send[r], 1, k)]
    /\ to_send' = [to_send EXCEPT ![r] = SubSeq(@, k + 1, Len(@))]
    /\ Goto(r, IF k = 0 THEN "communicate" ELSE "submit")
    /\ UNCHANGED <<userVars, mpeVars, inbox, pcur, mpe_finish_called, containers_empty,
                   locally_finished, active, can_extract, received, extracted, fc, fault>>

\* mpe->send(): the next of them goes to the owner of its partition, which is another rank.
submit_outgoing(r) ==
    /\ ppc[r] = "submit"
    /\ LET c == Head(ready[r])
       IN  /\ wire' = [wire EXCEPT ![r][owner(c)] = Append(@, c)]
           /\ fault' = [fault EXCEPT ![r] = @ \/ owner(c) = r]
    /\ ready' = [ready EXCEPT ![r] = Tail(@)]
    /\ fire' = [fire EXCEPT ![r] = TRUE]
    /\ Goto(r, IF Len(ready[r]) = 1 THEN "communicate" ELSE "submit")
    /\ UNCHANGED <<userVars, inbox, pcur, mpe_finish_called, containers_empty, terminated,
                   locally_finished, active, can_extract, to_send, received, extracted, fc>>

\* mpe->progress() and mpe->recv(): take n[s] messages of each peer s, and
\* forget the sends that are done.
communicate(r, n, sent) ==
    /\ ppc[r] = "communicate"
    /\ LET Taken(s) == SubSeq(wire[s][r], 1, n[s])
       IN  /\ inbox' = [inbox EXCEPT ![r] =
                 [s \in Rank |-> RemoveFirst(Taken(s), Term)]]
           /\ terminated' = [terminated EXCEPT ![r] =
                 @ \cup {s \in Rank : Term \in Range(Taken(s))}]
           /\ wire' = [s \in Rank |->
                 [wire[s] EXCEPT ![r] = SubSeq(@, n[s] + 1, Len(@))]]
    /\ fire' = [fire EXCEPT ![r] = @ /\ ~ sent]
    /\ Goto(r, "insert")
    /\ UNCHANGED <<userVars, ready, pcur, mpe_finish_called, containers_empty, locally_finished,
                   active, can_extract, to_send, received, extracted, fc, fault>>

\* Everything that is on the wire to r.
AllOnWire(r) == [s \in Rank |-> Len(wire[s][r])]

\* Insert a received chunk; it must be for one of our partitions.
insert_received(r, s) ==
    /\ ppc[r] = "insert"
    /\ inbox[r][s] # <<>>
    /\ LET c == Head(inbox[r][s])
       IN  IF owner(c) = r
           THEN /\ insert_into_received(r, c)
                /\ pcur' = [pcur EXCEPT ![r] = c]
                /\ Goto(r, "tally")
           ELSE /\ fault' = [fault EXCEPT ![r] = TRUE]
                /\ UNCHANGED <<received, fc, pcur, ppc>>
    /\ inbox' = [inbox EXCEPT ![r][s] = Tail(@)]
    /\ UNCHANGED <<userVars, mpeVars, ready, mpe_finish_called, containers_empty,
                   locally_finished, active, can_extract, to_send, extracted>>

insert_received_tally(r) ==
    /\ ppc[r] = "tally"
    /\ add_finished_chunk(r)
    /\ pcur' = [pcur EXCEPT ![r] = NoChunk]
    /\ Goto(r, "insert")
    /\ UNCHANGED <<userVars, mpeVars, ready, inbox, mpe_finish_called, containers_empty,
                   locally_finished, active, can_extract, to_send, received, extracted>>

\* After the last message: finish the MPE once everything has been handed to it.
finish_mpe(r) ==
    /\ ppc[r] = "insert"
    /\ \A s \in Rank : inbox[r][s] = <<>>
    /\ IF ~ mpe_finish_called[r] /\ locally_finished[r] /\ to_send[r] = <<>>
       THEN /\ mpe_finish_called' = [mpe_finish_called EXCEPT ![r] = TRUE]
            /\ wire' = [wire EXCEPT ![r] =
                  [d \in Rank |-> IF d = r THEN @[d] ELSE Append(@[d], Term)]]
            /\ fire' = [fire EXCEPT ![r] = NRanks > 1 \/ @]
       ELSE UNCHANGED <<mpe_finish_called, wire, fire>>
    /\ Goto(r, "idle")
    /\ UNCHANGED <<userVars, ready, inbox, pcur, containers_empty, terminated, locally_finished,
                   active, can_extract, to_send, received, extracted, fc, fault>>

is_idle(r) ==
    /\ ~ fire[r]
    /\ mpe_finish_called[r] => terminated[r] = Rank \ {r}

check_containers(r) ==
    /\ ppc[r] = "idle"
    /\ containers_empty' = [containers_empty EXCEPT ![r] = is_idle(r) /\ to_send[r] = <<>>]
    /\ Goto(r, "wake")
    /\ UNCHANGED <<userVars, mpeVars, ready, inbox, pcur, mpe_finish_called, locally_finished,
                   active, can_extract, to_send, received, extracted, fc, fault>>

\* Mutants of the end of an iteration: it ignores all_finished(); it is done
\* without looking at the containers; it waits for the user to shut down.
Mut_wake_waiters_unfinished(r) ==
    /\ ppc[r] = "wake"
    /\ LET is_finished == locally_finished[r]
           is_done == ~ active[r] /\ is_finished /\ containers_empty[r]
       IN  /\ can_extract' = [can_extract EXCEPT ![r] =
                 @ \/ (is_finished /\ containers_empty[r])]
           /\ Goto(r, IF is_done THEN "Done" ELSE "send")
    /\ containers_empty' = [containers_empty EXCEPT ![r] = FALSE]
    /\ UNCHANGED <<userVars, mpeVars, ready, inbox, pcur, mpe_finish_called, locally_finished,
                   active, to_send, received, extracted, fc, fault>>

Mut_wake_waiters_undrained(r) ==
    /\ ppc[r] = "wake"
    /\ LET is_finished == locally_finished[r] /\ all_finished(r)
           is_done == ~ active[r] /\ is_finished
       IN  /\ can_extract' = [can_extract EXCEPT ![r] = @ \/ is_finished]
           /\ Goto(r, IF is_done THEN "Done" ELSE "send")
    /\ containers_empty' = [containers_empty EXCEPT ![r] = FALSE]
    /\ UNCHANGED <<userVars, mpeVars, ready, inbox, pcur, mpe_finish_called, locally_finished,
                   active, to_send, received, extracted, fc, fault>>

Mut_wake_waiters_inactive(r) ==
    /\ ppc[r] = "wake"
    /\ LET is_finished == locally_finished[r] /\ all_finished(r)
           is_done == ~ active[r] /\ is_finished /\ containers_empty[r]
       IN  /\ can_extract' = [can_extract EXCEPT ![r] = @ \/ is_done]
           /\ Goto(r, IF is_done THEN "Done" ELSE "send")
    /\ containers_empty' = [containers_empty EXCEPT ![r] = FALSE]
    /\ UNCHANGED <<userVars, mpeVars, ready, inbox, pcur, mpe_finish_called, locally_finished,
                   active, to_send, received, extracted, fc, fault>>

\* The end of an iteration: wake the waiters, report Done or InProgress.
wake_waiters(r) ==
    /\ ppc[r] = "wake"
    /\ LET is_finished == locally_finished[r] /\ all_finished(r)
           is_done == ~ active[r] /\ is_finished /\ containers_empty[r]
       IN  /\ can_extract' = [can_extract EXCEPT ![r] =
                 @ \/ (is_finished /\ containers_empty[r])]
           /\ Goto(r, IF is_done THEN "Done" ELSE "send")
    /\ containers_empty' = [containers_empty EXCEPT ![r] = FALSE]
    /\ UNCHANGED <<userVars, mpeVars, ready, inbox, pcur, mpe_finish_called, locally_finished,
                   active, to_send, received, extracted, fc, fault>>

progress(r) ==
    \/ \E k \in 0 .. Len(to_send[r]) : extract_ready(r, k)
    \/ submit_outgoing(r)
    \/ /\ ppc[r] = "communicate"
       /\ \E n \in [Rank -> 0 .. Max({AllOnWire(r)[s] : s \in Rank})], sent \in BOOLEAN :
             /\ \A s \in Rank : n[s] <= AllOnWire(r)[s]
             /\ communicate(r, n, sent)
    \/ \E s \in Rank : insert_received(r, s)
    \/ insert_received_tally(r)
    \/ finish_mpe(r)
    \/ check_containers(r)
    \/ wake_waiters(r)

\* Every rank has shut down.
Terminated == (\A r \in Rank : upc[r] = "end") /\ UNCHANGED vars

Next ==
    \/ \E r \in Rank : user(r) \/ progress(r)
    \/ Terminated

Spec == Init /\ [][Next]_vars

(***************************************************************************)
(* The user thread runs on and calls insert_finished(); the progress       *)
(* thread keeps calling the progress function; CUDA streams complete, so   *)
(* that again and again everything queued is ready; and the communicator   *)
(* completes every send and delivers every message.  A user thread makes   *)
(* so many steps, and only so much is sent: fairness to the steps of any   *)
(* rank is fairness to those of each.                                      *)
(***************************************************************************)
DueStep(r) ==
    \/ to_send[r] # <<>> /\ extract_ready(r, Len(to_send[r]))
    \/ /\ fire[r] \/ \E s \in Rank : wire[s][r] # <<>>
       /\ communicate(r, AllOnWire(r), TRUE)

Fairness ==
    /\ WF_vars(\E r \in Rank : user(r))
    /\ WF_vars(\E r \in Rank : begin_insert_finished(r))
    /\ \A r \in Rank : WF_vars(progress(r))
    /\ SF_vars(\E r \in Rank : DueStep(r))

FairSpec == Spec /\ Fairness

-----------------------------------------------------------------------------

\* The chunks of rank s that are not handed to the MPE yet.
Unsent(s) ==
    (IF upc[s] \in {"insert", "finish"} /\ cur[s] # NoChunk THEN {cur[s]} ELSE {})
    \cup Range(to_send[s]) \cup Range(ready[s])

\* The chunks of rank s for rank d that no thread of d has begun to insert.
InFlight(s, d) ==
    {c \in Unsent(s) : owner(c) = d}
    \cup (Range(wire[s][d]) \ {Term}) \cup Range(inbox[d][s])

Inbound(d) == UNION {InFlight(s, d) : s \in Rank}

\* The chunks that a thread of d has received and not counted yet.
Held(d) ==
    (IF upc[d] \in {"insert_tally", "finish_tally"} THEN {cur[d]} ELSE {})
    \cup ({pcur[d]} \ {NoChunk})

\* The data chunks that the sources have counted for rank d, by source and number.
Counted(d) == UNION {{s} \X (1 .. outbound[s][d]) : s \in Rank}

(***************************************************************************)
(* wait() returns only when the shuffle is complete for this rank: every   *)
(* source has announced its count, nothing for this rank is queued, on the *)
(* wire or half inserted, and the chunks received or already extracted are *)
(* as many as the sources have counted for it.                             *)
(***************************************************************************)
ExtractIsComplete ==
    \A r \in Rank : can_extract[r] =>
        /\ local_partitions(r) # {} => \A s \in Rank : fin[s] > r
        /\ Inbound(r) = {} /\ Held(r) = {}
        /\ Cardinality(received[r]) + Cardinality(extracted[r]) = Cardinality(Counted(r))

(***************************************************************************)
(* A termination marker is the last thing the MPE sends to a peer: when    *)
(* the peer has it, it has everything, and reading further would consume   *)
(* messages of the next operation with the same op_id.                     *)
(***************************************************************************)
MarkerIsLast ==
    \A s, d \in Rank :
        /\ \A i \in 1 .. Len(wire[s][d]) - 1 : wire[s][d][i] # Term
        /\ s \in terminated[d] =>
              wire[s][d] = <<>> /\ \A c \in Unsent(s) : owner(c) # d

(***************************************************************************)
(* shutdown() blocks "until all inflight communication is done": when the  *)
(* progress function is done, everything of this rank is sent, the peers   *)
(* have been told, and nothing sent to this rank is left.                  *)
(***************************************************************************)
ShutdownIsDrained ==
    \A r \in Rank : ppc[r] = "Done" =>
        /\ to_send[r] = <<>>
        /\ mpe_finish_called[r]
        /\ \A s \in Rank : wire[s][r] = <<>>

\* Every rank gets through wait() and shutdown().
Terminates == <>(\A r \in Rank : upc[r] = "end")

-----------------------------------------------------------------------------
(* Every rank's finish counter behaves as FinishCounter says. *)

FCChunk(c) == [src |-> extract_rank(c.cid), seq |-> c.nth, expected |-> c.expected]

FC(d) == INSTANCE FinishCounter WITH
    NLocalPartitions <- Cardinality(local_partitions(d)),
    MaxChunks <- MaxInserts,
    counts <- [s \in Rank |-> outbound[s][d]],
    announced <- IF local_partitions(d) = {} THEN {} ELSE {s \in Rank : fin[s] > d},
    inbound <- {FCChunk(c) : c \in Inbound(d)},
    held <- {FCChunk(c) : c \in Held(d)},
    rank_reported <- fc[d].reported,
    n_ranks_with_goalpost <- fc[d].n_ranks_with_goalpost,
    total_chunk_goal <- fc[d].total_chunk_goal,
    total_finished_chunks <- fc[d].total_finished_chunks,
    fault <- fault[d]

\* The shuffler uses every rank's finish counter the way FinishCounter proves
\* it correct: every rank's counter implements FC(d)!CounterSpec.
CounterRefinement ==
    /\ \A d \in Rank : FC(d)!CounterInit
    /\ [][\A d \in Rank : [FC(d)!CounterNext]_(FC(d)!counterVars)]_vars

=============================================================================
