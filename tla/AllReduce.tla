------------------------------ MODULE AllReduce ------------------------------
(***************************************************************************)
(* rapidsmpf::coll::AllReduce on every rank: recursive doubling over the   *)
(* nearest power of two of ranks, with a step before it in which the even  *)
(* ranks of the remainder hand their contribution to their odd neighbour   *)
(* and a step after it in which they get the result.  Every message uses   *)
(* one tag; copies and reductions are ordered by a stream and run later    *)
(* than they are submitted.  A rank that has read its result starts the    *)
(* next reduction with the same op_id while others may be behind.          *)
(*                                                                         *)
(* A value is the term that was computed: Leaf(i, r) for the contribution  *)
(* of rank r to reduction i, Apply(l, x) for what an operator of which     *)
(* nothing is known returns, so that equal terms are equal results for     *)
(* every operator, associative and commutative or not.                     *)
(***************************************************************************)
EXTENDS Integers, Sequences, FiniteSets, FiniteSetsExt

CONSTANTS
    MaxRanks,         \* bound: reductions over 1 .. MaxRanks ranks
    MaxReductions(_)  \* bound: consecutive reductions with the same op_id of n ranks

ASSUME MaxRanksAssumption == MaxRanks \in Nat \ {0}
ASSUME MaxReductionsAssumption ==
    \A n \in 1 .. MaxRanks : MaxReductions(n) \in Nat \ {0}

VARIABLES
    nranks,       \* comm->nranks()
    phase,        \* phase_, and "Extracted" once the user has the buffers
    stage_mask,   \* stage_mask_
    in_buffer,    \* which of the two buffers in_buffer_ owns; out_buffer_ has the other
    memory,       \* the contents of the two buffers
    stream,       \* the copies and reductions submitted and not yet run, in order
    send_future,  \* send_future_: a set with at most one [to, buf, done]
    recv_future,  \* recv_future_: a set with at most one [from, buf, done]
    wire,         \* wire[s][d]: what is under way from s to d, all with the same tag
    results       \* what the user of a rank has read, reduction by reduction

reduceVars == <<nranks, phase, stage_mask, in_buffer, memory, stream, send_future,
                recv_future, wire, results>>

Ranks == 0 .. nranks - 1
Leaf(i, r) == <<i, r>>
Apply(left, right) == <<"op", left, right>>
Garbage == <<>>

-----------------------------------------------------------------------------
(* The pattern of the exchange.                                            *)

\* nearest_pow2_: std::bit_floor(nranks)
nearest_pow2 == Max({p \in {2 ^ k : k \in 0 .. MaxRanks} : p <= nranks})
non_pow2_remainder == nranks - nearest_pow2
InRemainder(r) == r < 2 * non_pow2_remainder
is_even(r) == r % 2 = 0

\* logical_rank_: -1 for the ranks that leave the butterfly to their neighbour.
logical_rank(r) ==
    CASE InRemainder(r) /\ is_even(r) -> -1
      [] InRemainder(r) /\ ~ is_even(r) -> r \div 2
      [] OTHER -> r - non_pow2_remainder

\* logical_rank_ ^ stage_mask_, for a mask that is a power of two
FlipBit(l, mask) == IF (l \div mask) % 2 = 0 THEN l + mask ELSE l - mask

stage_partner(r) ==
    LET logical_dst == FlipBit(logical_rank(r), stage_mask[r])
    IN  IF logical_dst < non_pow2_remainder
        THEN logical_dst * 2 + 1 ELSE logical_dst + non_pow2_remainder

-----------------------------------------------------------------------------
(* Buffers.  An operation on the stream reads `left' and writes `right'.   *)

out_buffer(r) == 1 - in_buffer[r]

is_latest_write_done(r, b) == \A i \in DOMAIN stream[r] : stream[r][i].right # b

Submit(r, kind, left, right) ==
    stream' = [stream EXCEPT ![r] = Append(@, [kind |-> kind, left |-> left, right |-> right])]

\* The stream of rank r runs its next operation on what is in the buffers by now.
stream_step(r) ==
    /\ stream[r] # <<>>
    /\ LET op == Head(stream[r])
           m == memory[r]
       IN  memory' = [memory EXCEPT ![r][op.right] =
               IF op.kind = "copy" THEN m[op.left] ELSE Apply(m[op.left], m[op.right])]
    /\ stream' = [stream EXCEPT ![r] = Tail(@)]
    /\ UNCHANGED <<nranks, phase, stage_mask, in_buffer, send_future, recv_future, wire,
                   results>>

-----------------------------------------------------------------------------
(* The communicator: messages between two ranks do not overtake.           *)

Send(r, to) ==
    send_future' = [send_future EXCEPT ![r] = {[to |-> to, buf |-> out_buffer(r), done |-> FALSE]}]

Recv(r, from, buf) ==
    recv_future' = [recv_future EXCEPT ![r] = {[from |-> from, buf |-> buf, done |-> FALSE]}]

Test(futures) == \A f \in futures : f.done

\* The payload of a posted send leaves its buffer.
transmit(r) == \E f \in send_future[r] :
    /\ ~ f.done
    /\ wire' = [wire EXCEPT ![r][f.to] = Append(@, memory[r][f.buf])]
    /\ send_future' = [send_future EXCEPT ![r] = {[f EXCEPT !.done = TRUE]}]
    /\ UNCHANGED <<nranks, phase, stage_mask, in_buffer, memory, stream, recv_future, results>>

\* The oldest message of the source is written into the buffer of a posted receive.
deliver(r) == \E f \in recv_future[r] :
    /\ ~ f.done
    /\ wire[f.from][r] # <<>>
    /\ memory' = [memory EXCEPT ![r][f.buf] = Head(wire[f.from][r])]
    /\ wire' = [wire EXCEPT ![f.from][r] = Tail(@)]
    /\ recv_future' = [recv_future EXCEPT ![r] = {[f EXCEPT !.done = TRUE]}]
    /\ UNCHANGED <<nranks, phase, stage_mask, in_buffer, stream, send_future, results>>

-----------------------------------------------------------------------------
(* event_loop() of rank r, one action for each phase.                      *)

Advance(r, p) == phase' = [phase EXCEPT ![r] = p]

start_pre_remainder(r) ==
    /\ phase[r] = "StartPreRemainder"
    /\ is_latest_write_done(r, out_buffer(r))
    /\ \/ /\ is_even(r)
          /\ Send(r, r + 1)
          /\ UNCHANGED recv_future
       \/ /\ ~ is_even(r)
          /\ is_latest_write_done(r, in_buffer[r])
          /\ Recv(r, r - 1, in_buffer[r])
          /\ UNCHANGED send_future
    /\ Advance(r, "CompletePreRemainder")
    /\ UNCHANGED <<nranks, stage_mask, in_buffer, memory, stream, wire, results>>

complete_pre_remainder(r) ==
    /\ phase[r] = "CompletePreRemainder"
    /\ \/ /\ is_even(r)
          /\ Test(send_future[r])
          /\ send_future' = [send_future EXCEPT ![r] = {}]
          /\ Advance(r, "StartPostRemainder")
          /\ UNCHANGED <<recv_future, stream>>
       \/ /\ ~ is_even(r)
          /\ Test(recv_future[r])
          /\ recv_future' = [recv_future EXCEPT ![r] = {}]
          /\ Submit(r, "reduce", in_buffer[r], out_buffer(r))
          /\ Advance(r, "StartButterfly")
          /\ UNCHANGED send_future
    /\ UNCHANGED <<nranks, stage_mask, in_buffer, memory, wire, results>>

\* Mutant: no wait for the reduction that still reads in_buffer_.
Mut_exchange(r) ==
    /\ phase[r] = "StartButterfly"
    /\ stage_mask[r] < nearest_pow2
    /\ is_latest_write_done(r, in_buffer[r])
    /\ Recv(r, stage_partner(r), in_buffer[r])
    /\ Send(r, stage_partner(r))
    /\ Advance(r, "CompleteButterfly")
    /\ UNCHANGED <<nranks, stage_mask, in_buffer, memory, stream, wire, results>>

\* StartButterfly, another round: the receive may overwrite in_buffer_ only when the
\* operation that reads it, whose result is in out_buffer_, is done.
exchange(r) ==
    /\ phase[r] = "StartButterfly"
    /\ stage_mask[r] < nearest_pow2
    /\ is_latest_write_done(r, out_buffer(r))
    /\ is_latest_write_done(r, in_buffer[r])
    /\ Recv(r, stage_partner(r), in_buffer[r])
    /\ Send(r, stage_partner(r))
    /\ Advance(r, "CompleteButterfly")
    /\ UNCHANGED <<nranks, stage_mask, in_buffer, memory, stream, wire, results>>

\* StartButterfly, all rounds done.
leave_butterfly(r) ==
    /\ phase[r] = "StartButterfly"
    /\ stage_mask[r] >= nearest_pow2
    /\ Advance(r, IF InRemainder(r) THEN "StartPostRemainder" ELSE "Done")
    /\ UNCHANGED <<nranks, stage_mask, in_buffer, memory, stream, send_future, recv_future,
                   wire, results>>

\* The operand of the lower rank comes first; the result ends up in out_buffer_.
complete_butterfly(r) ==
    /\ phase[r] = "CompleteButterfly"
    /\ Test(recv_future[r]) /\ Test(send_future[r])
    /\ recv_future' = [recv_future EXCEPT ![r] = {}]
    /\ send_future' = [send_future EXCEPT ![r] = {}]
    /\ \/ /\ stage_partner(r) < r
          /\ Submit(r, "reduce", in_buffer[r], out_buffer(r))
          /\ UNCHANGED in_buffer
       \/ /\ stage_partner(r) >= r
          /\ Submit(r, "reduce", out_buffer(r), in_buffer[r])
          /\ in_buffer' = [in_buffer EXCEPT ![r] = out_buffer(r)]
    /\ stage_mask' = [stage_mask EXCEPT ![r] = 2 * @]
    /\ Advance(r, "StartButterfly")
    /\ UNCHANGED <<nranks, memory, wire, results>>

start_post_remainder(r) ==
    /\ phase[r] = "StartPostRemainder"
    /\ is_latest_write_done(r, out_buffer(r))
    /\ \/ /\ is_even(r)
          /\ Recv(r, r + 1, out_buffer(r))
          /\ UNCHANGED send_future
       \/ /\ ~ is_even(r)
          /\ Send(r, r - 1)
          /\ UNCHANGED recv_future
    /\ Advance(r, "CompletePostRemainder")
    /\ UNCHANGED <<nranks, stage_mask, in_buffer, memory, stream, wire, results>>

complete_post_remainder(r) ==
    /\ phase[r] = "CompletePostRemainder"
    /\ Test(IF is_even(r) THEN recv_future[r] ELSE send_future[r])
    /\ recv_future' = [recv_future EXCEPT ![r] = {}]
    /\ send_future' = [send_future EXCEPT ![r] = {}]
    /\ Advance(r, "Done")
    /\ UNCHANGED <<nranks, stage_mask, in_buffer, memory, stream, wire, results>>

\* The end of the iteration that reached Done, under the mutex of wait_and_extract().
publish_result(r) ==
    /\ phase[r] = "Done"
    /\ Advance(r, "ResultAvailable")
    /\ UNCHANGED <<nranks, stage_mask, in_buffer, memory, stream, send_future, recv_future,
                   wire, results>>

reduce_event_loop(r) ==
    \/ start_pre_remainder(r) \/ complete_pre_remainder(r)
    \/ exchange(r) \/ leave_butterfly(r) \/ complete_butterfly(r)
    \/ start_post_remainder(r) \/ complete_post_remainder(r)
    \/ publish_result(r)

-----------------------------------------------------------------------------
(* The user of rank r.                                                     *)

\* wait_and_extract() moves the buffers out; the result is read in the order of the stream.
wait_and_extract(r) ==
    /\ phase[r] = "ResultAvailable"
    /\ stream[r] = <<>>
    /\ results' = [results EXCEPT ![r] = Append(@, memory[r][out_buffer(r)])]
    /\ Advance(r, "Extracted")
    /\ UNCHANGED <<nranks, stage_mask, in_buffer, memory, stream, send_future, recv_future,
                   wire>>

\* The state AllReduce() leaves: a copy of the input is submitted, a phase is chosen.
FirstPhase(r) == IF InRemainder(r) THEN "StartPreRemainder" ELSE "StartButterfly"
Input(i, r) == [b \in {0, 1} |-> IF b = 0 THEN Leaf(i, r) ELSE Garbage]
FirstCopy == <<[kind |-> "copy", left |-> 0, right |-> 1]>>

\* ~AllReduce() and AllReduce() with the same op_id.
construct(r) ==
    /\ phase[r] = "Extracted"
    /\ Len(results[r]) < MaxReductions(nranks)
    /\ Advance(r, FirstPhase(r))
    /\ stage_mask' = [stage_mask EXCEPT ![r] = 1]
    /\ in_buffer' = [in_buffer EXCEPT ![r] = 0]
    /\ memory' = [memory EXCEPT ![r] = Input(Len(results[r]) + 1, r)]
    /\ stream' = [stream EXCEPT ![r] = FirstCopy]
    /\ UNCHANGED <<nranks, send_future, recv_future, wire, results>>

ReduceInit ==
    /\ nranks \in 1 .. MaxRanks
    /\ phase = [r \in Ranks |-> FirstPhase(r)]
    /\ stage_mask = [r \in Ranks |-> 1]
    /\ in_buffer = [r \in Ranks |-> 0]
    /\ memory = [r \in Ranks |-> Input(1, r)]
    /\ stream = [r \in Ranks |-> FirstCopy]
    /\ send_future = [r \in Ranks |-> {}]
    /\ recv_future = [r \in Ranks |-> {}]
    /\ wire = [s \in Ranks |-> [d \in Ranks |-> <<>>]]
    /\ results = [r \in Ranks |-> <<>>]

ReduceNext ==
    \E r \in Ranks : \/ reduce_event_loop(r) \/ stream_step(r) \/ transmit(r) \/ deliver(r)
                     \/ wait_and_extract(r) \/ construct(r)

-----------------------------------------------------------------------------

\* The contribution of the logical rank l: its own, after the one it took over.
Contribution(i, l) ==
    IF l < non_pow2_remainder THEN Apply(Leaf(i, 2 * l), Leaf(i, 2 * l + 1))
    ELSE Leaf(i, l + non_pow2_remainder)

\* Reduction i as one balanced tree over the contributions in rank order.
Answer(i) ==
    LET block[k \in Nat] ==
            [b \in 0 .. nearest_pow2 \div 2 ^ k - 1 |->
                IF k = 0 THEN Contribution(i, b)
                ELSE Apply(block[k - 1][2 * b], block[k - 1][2 * b + 1])]
        rounds == CHOOSE k \in 0 .. MaxRanks : 2 ^ k = nearest_pow2
    IN  block[rounds][0]

(***************************************************************************)
(* For every number of ranks and whatever the operator, every rank reads   *)
(* the same value, the contributions of all ranks combined in rank order,  *)
(* each exactly once: no receive overwrites a buffer that a reduction      *)
(* still reads, no message of another round or of the next reduction with  *)
(* the same tag is taken for this one.                                     *)
(***************************************************************************)
ResultIsOrderedReduction ==
    \A r \in Ranks : \A i \in DOMAIN results[r] : results[r][i] = Answer(i)

\* Every rank has the result of every reduction.
Reduced == \A r \in Ranks : Len(results[r]) = MaxReductions(nranks)
=============================================================================
