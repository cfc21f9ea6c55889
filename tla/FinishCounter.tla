---------------------------- MODULE FinishCounter ----------------------------
(***************************************************************************)
(* rapidsmpf::shuffler::detail::FinishCounter, for ONE receiving rank,     *)
(* with the calls the shuffler makes on it.                                *)
(*                                                                         *)
(* Every source counts the data chunks it sends to this rank and, in       *)
(* insert_finished(), announces that count plus one (the control message   *)
(* counts itself).  The receiver moves its goalpost by every announcement, *)
(* counts every chunk, and calls itself finished when every source has     *)
(* reported and the two totals agree.  The receiver's threads (its user    *)
(* threads for local chunks, its progress thread for remote ones) run      *)
(* insert_into_received() concurrently and in any order: the goalpost and  *)
(* the count are moved in two separate critical sections.                  *)
(***************************************************************************)
EXTENDS Naturals, FiniteSets

CONSTANTS
    Rank,               \* the ranks of the communicator
    NLocalPartitions,   \* partitions the receiving rank owns
    MaxChunks           \* bound: data chunks a source sends to this rank

ASSUME RankAssumption == IsFiniteSet(Rank) /\ Rank # {}
ASSUME PartitionsAssumption == NLocalPartitions \in Nat
ASSUME MaxChunksAssumption == MaxChunks \in Nat

VARIABLES
    counts,                  \* outbound_chunk_counter_[receiver], per source
    announced,               \* sources whose insert_finished() reached this rank
    inbound,                 \* chunks inserted, not yet taken by a receiver thread
    held,                    \* chunks between the two halves of insert_into_received
    rank_reported,           \* rank_reported_, as the set of reported ranks
    n_ranks_with_goalpost,   \* n_ranks_with_goalpost_
    total_chunk_goal,        \* total_chunk_goal_
    total_finished_chunks,   \* total_finished_chunks_
    fault                    \* a RAPIDSMPF_EXPECTS of the counter has thrown

counterVars == <<counts, announced, inbound, held, rank_reported,
          n_ranks_with_goalpost, total_chunk_goal, total_finished_chunks, fault>>

\* A chunk: a control message announces expected > 0 chunks, data has expected = 0.
Chunk == [src : Rank, seq : Nat, expected : Nat]

is_control_message(c) == c.expected > 0

\* A rank without partitions expects no goalpost at all.
nranks == IF NLocalPartitions > 0 THEN Cardinality(Rank) ELSE 0

\* src_rank < nranks_
known(r) == NLocalPartitions > 0 /\ r \in Rank

-----------------------------------------------------------------------------

CounterInit ==
    /\ counts = [s \in Rank |-> 0]
    /\ announced = {}
    /\ inbound = {}
    /\ held = {}
    /\ rank_reported = {}
    /\ n_ranks_with_goalpost = 0
    /\ total_chunk_goal = 0
    /\ total_finished_chunks = 0
    /\ fault = FALSE

\* Source s inserts a data chunk for a partition of this rank.
insert_data(s) ==
    /\ NLocalPartitions > 0
    /\ s \notin announced
    /\ counts[s] < MaxChunks
    /\ counts' = [counts EXCEPT ![s] = @ + 1]
    /\ inbound' = inbound \cup {[src |-> s, seq |-> counts[s] + 1, expected |-> 0]}
    /\ UNCHANGED <<announced, held, rank_reported, n_ranks_with_goalpost,
                   total_chunk_goal, total_finished_chunks, fault>>

\* Mutants of insert_finished(): it does not count the control message itself; it may
\* be repeated.
Mut_insert_finished_uncounted(s) ==
    /\ NLocalPartitions > 0
    /\ s \notin announced
    /\ announced' = announced \cup {s}
    /\ inbound' = inbound \cup
          {[src |-> s, seq |-> counts[s] + 1, expected |-> counts[s]]}
    /\ UNCHANGED <<counts, held, rank_reported, n_ranks_with_goalpost,
                   total_chunk_goal, total_finished_chunks, fault>>

Mut_insert_finished_repeats(s) ==
    /\ NLocalPartitions > 0
    /\ announced' = announced \cup {s}
    /\ inbound' = inbound \cup
          {[src |-> s, seq |-> counts[s] + 1, expected |-> counts[s] + 1]}
    /\ UNCHANGED <<counts, held, rank_reported, n_ranks_with_goalpost,
                   total_chunk_goal, total_finished_chunks, fault>>

\* Source s runs the iteration of insert_finished() that is for this rank.
insert_finished(s) ==
    /\ NLocalPartitions > 0
    /\ s \notin announced
    /\ announced' = announced \cup {s}
    /\ inbound' = inbound \cup
          {[src |-> s, seq |-> counts[s] + 1, expected |-> counts[s] + 1]}
    /\ UNCHANGED <<counts, held, rank_reported, n_ranks_with_goalpost,
                   total_chunk_goal, total_finished_chunks, fault>>

\* The three expectations of move_goalpost().
GoalpostMayMove(c) ==
    /\ c.expected # 0
    /\ known(c.src)
    /\ c.src \notin rank_reported

move_goalpost(c) ==
    IF GoalpostMayMove(c)
    THEN /\ rank_reported' = rank_reported \cup {c.src}
         /\ n_ranks_with_goalpost' = n_ranks_with_goalpost + 1
         /\ total_chunk_goal' = total_chunk_goal + c.expected
         /\ fault' = fault
    ELSE /\ fault' = TRUE
         /\ UNCHANGED <<rank_reported, n_ranks_with_goalpost, total_chunk_goal>>

\* insert_into_received(), first half: a control message moves the goalpost, a
\* data chunk goes to its pigeonhole.
insert_into_received(c) ==
    /\ c \in inbound
    /\ inbound' = inbound \ {c}
    /\ held' = held \cup {c}
    /\ IF is_control_message(c)
       THEN move_goalpost(c)
       ELSE UNCHANGED <<rank_reported, n_ranks_with_goalpost, total_chunk_goal, fault>>
    /\ UNCHANGED <<counts, announced, total_finished_chunks>>

\* insert_into_received(), second half.
add_finished_chunk(c) ==
    /\ c \in held
    /\ held' = held \ {c}
    /\ total_finished_chunks' = total_finished_chunks + 1
    /\ fault' = (fault \/ ~ (\/ n_ranks_with_goalpost < nranks
                             \/ total_finished_chunks' <= total_chunk_goal))
    /\ UNCHANGED <<counts, announced, inbound, rank_reported,
                   n_ranks_with_goalpost, total_chunk_goal>>

\* Mutant: the totals agree before every rank has reported.
Mut_all_finished_ignores_goalposts == total_finished_chunks = total_chunk_goal

all_finished ==
    /\ n_ranks_with_goalpost = nranks
    /\ total_finished_chunks = total_chunk_goal

CounterNext ==
    \/ \E s \in Rank : insert_data(s) \/ insert_finished(s)
    \/ \E c \in inbound : insert_into_received(c)
    \/ \E c \in held : add_finished_chunk(c)

CounterSpec == CounterInit /\ [][CounterNext]_counterVars

-----------------------------------------------------------------------------

\* Type correctness of the counter and of the chunks on their way to it.
CounterTypeOK ==
    /\ counts \in [Rank -> 0..MaxChunks]
    /\ announced \subseteq Rank
    /\ inbound \subseteq Chunk
    /\ held \subseteq Chunk
    /\ rank_reported \subseteq Rank
    /\ n_ranks_with_goalpost \in Nat
    /\ total_chunk_goal \in Nat
    /\ total_finished_chunks \in Nat
    /\ fault \in BOOLEAN

(***************************************************************************)
(* all_finished() is never premature: when it is true on a rank that owns  *)
(* partitions, every source has announced its count, and no chunk is still *)
(* on its way or half inserted, whatever order the chunks and the control  *)
(* messages arrived in.                                                    *)
(***************************************************************************)
NeverPremature ==
    all_finished /\ NLocalPartitions > 0 =>
        announced = Rank /\ inbound = {} /\ held = {}

(***************************************************************************)
(* None of the counter's RAPIDSMPF_EXPECTS can throw: no goalpost is moved *)
(* by zero, for an unknown rank or twice for a rank, and the finished      *)
(* chunks never exceed the goal once every rank has reported.              *)
(***************************************************************************)
NoFault == ~ fault

\* Once all_finished() has returned true it never returns false again, so that
\* Shuffler::finished() and the progress thread may act on an earlier answer.
StaysFinished == [][NLocalPartitions > 0 /\ all_finished => all_finished']_counterVars

=============================================================================
