------------------------- MODULE FinishCounterProofs -------------------------
(***************************************************************************)
(* The finish counter is exact for any number of ranks and chunks: its     *)
(* expectations never throw, all_finished() is never premature, and it is  *)
(* stable.  The two totals are compared as cardinalities of sets of        *)
(* chunks: the chunks counted, and the chunks of the sources that have     *)
(* reported.                                                               *)
(***************************************************************************)
EXTENDS FinishCounter, FiniteSetTheorems, TLAPS

\* The chunks that a bounded run can create.
SomeChunk == [src : Rank, seq : 1..(MaxChunks + 1), expected : 0..(MaxChunks + 1)]

\* The control message of source s.
Ctrl(s) == [src |-> s, seq |-> counts[s] + 1, expected |-> counts[s] + 1]

\* Every chunk inserted for this rank so far.
AllSent ==
    {c \in SomeChunk :
        \/ c.expected = 0 /\ c.seq <= counts[c.src]
        \/ c.src \in announced /\ c = Ctrl(c.src)}

SentBy(s) == {c \in AllSent : c.src = s}

\* The chunks add_finished_chunk() has counted.
Tallied == AllSent \ (inbound \cup held)

\* The chunks the goal stands for.
GoalSet == {c \in AllSent : c.src \in rank_reported}

\* Chunks are in one place at a time, and were sent.
Places ==
    /\ inbound \subseteq AllSent
    /\ held \subseteq AllSent
    /\ inbound \cap held = {}

\* A source has reported exactly when its control message has left inbound.
Reported ==
    \A s \in Rank : s \in rank_reported <=> (s \in announced /\ Ctrl(s) \notin inbound)

\* A source's count is the number of its chunks.
Counted ==
    \A s \in Rank :
        Cardinality(SentBy(s)) = counts[s] + (IF s \in announced THEN 1 ELSE 0)

Totals ==
    /\ IsFiniteSet(AllSent)
    /\ n_ranks_with_goalpost = Cardinality(rank_reported)
    /\ total_finished_chunks = Cardinality(Tallied)
    /\ total_chunk_goal = Cardinality(GoalSet)

\* The inductive invariant.
IInv ==
    /\ CounterTypeOK
    /\ NoFault
    /\ Places
    /\ Reported
    /\ Counted
    /\ Totals
    /\ NLocalPartitions = 0 => announced = {} /\ AllSent = {}

-----------------------------------------------------------------------------

\* Nothing has been sent in the initial state.
LEMMA InitIInv == CounterInit => IInv
<1> SUFFICES ASSUME CounterInit PROVE IInv
  OBVIOUS
<1> USE RankAssumption, PartitionsAssumption, MaxChunksAssumption
<1>1. AllSent = {}
  BY DEF CounterInit, AllSent, SomeChunk
<1>2. \A s \in Rank : SentBy(s) = {}
  BY <1>1 DEF SentBy
<1>3. GoalSet = {} /\ Tallied = {}
  BY <1>1 DEF GoalSet, Tallied
<1>4. CounterTypeOK
  <2>1. fault \in BOOLEAN
    BY Zenon DEF CounterInit
  <2>2. counts \in [Rank -> 0..MaxChunks]
    BY DEF CounterInit
  <2> QED
    BY <2>1, <2>2 DEF CounterInit, CounterTypeOK
<1>5. Counted
  BY <1>2, FS_EmptySet DEF CounterInit, Counted
<1>6. Totals
  BY <1>1, <1>3, FS_EmptySet DEF CounterInit, Totals
<1> QED
  BY <1>1, <1>4, <1>5, <1>6 DEF CounterInit, IInv, NoFault, Places, Reported

\* Adding one chunk of s that has not been sent before: what changes in the
\* sets the invariant speaks of.  Shared by insert_data and insert_finished.
LEMMA SendOne ==
  ASSUME IInv, NEW s \in Rank, NEW c, c \notin AllSent, c.src = s,
         s \notin rank_reported,
         AllSent' = AllSent \cup {c},
         inbound' = inbound \cup {c},
         UNCHANGED <<held, rank_reported, n_ranks_with_goalpost,
                     total_chunk_goal, total_finished_chunks>>
  PROVE  /\ Places'
         /\ Totals'
         /\ Cardinality(SentBy(s)') = Cardinality(SentBy(s)) + 1
         /\ \A t \in Rank \ {s} : SentBy(t)' = SentBy(t)
<1>1. Places'
  BY DEF IInv, Places
<1>2. Tallied' = Tallied
  BY DEF IInv, Places, Tallied
<1>3. GoalSet' = GoalSet
  BY DEF GoalSet
<1>4. IsFiniteSet(AllSent')
  BY FS_AddElement DEF IInv, Totals
<1>5. Totals'
  BY <1>2, <1>3, <1>4 DEF IInv, Totals
<1>6. SentBy(s)' = SentBy(s) \cup {c} /\ c \notin SentBy(s)
  BY DEF SentBy
<1>7. IsFiniteSet(SentBy(s))
  BY FS_Subset DEF SentBy, IInv, Totals
<1>8. Cardinality(SentBy(s)') = Cardinality(SentBy(s)) + 1
  BY <1>6, <1>7, FS_AddElement
<1>9. \A t \in Rank \ {s} : SentBy(t)' = SentBy(t)
  BY DEF SentBy
<1> QED
  BY <1>1, <1>5, <1>8, <1>9

\* A source's data chunk preserves the invariant.
LEMMA insertDataIInv == ASSUME IInv, NEW s \in Rank, insert_data(s) PROVE IInv'
<1> USE RankAssumption, PartitionsAssumption, MaxChunksAssumption
<1> DEFINE c == [src |-> s, seq |-> counts[s] + 1, expected |-> 0]
<1>1. CounterTypeOK'
  BY DEF IInv, CounterTypeOK, insert_data, Chunk
<1>2. c \in SomeChunk /\ c \notin AllSent
  BY DEF IInv, CounterTypeOK, insert_data, SomeChunk, AllSent, Ctrl
<1>3. \A d \in SomeChunk : d.src \in Rank /\ d.seq \in Nat
  BY DEF SomeChunk
<1>4. \A t \in announced : Ctrl(t)' = Ctrl(t) /\ t # s
  BY DEF IInv, CounterTypeOK, insert_data, Ctrl
<1>5. ASSUME NEW d \in SomeChunk, d.expected = 0
      PROVE  d.seq <= counts'[d.src] <=> (d.seq <= counts[d.src] \/ d = c)
  <2>1. CASE d.src # s
    BY <1>3, <2>1 DEF IInv, CounterTypeOK, insert_data
  <2>2. CASE d.src = s
    <3>1. counts'[s] = counts[s] + 1 /\ counts[s] \in Nat
      BY DEF IInv, CounterTypeOK, insert_data
    <3>2. d.seq = counts[s] + 1 => d = c
      BY <1>5, <2>2 DEF SomeChunk
    <3> QED
      BY <1>3, <2>2, <3>1, <3>2
  <2> QED
    BY <2>1, <2>2
<1>6. AllSent' = AllSent \cup {c}
  <2>1. announced' = announced
    BY DEF insert_data
  <2>2. \A d \in SomeChunk : d \in AllSent' <=> d \in AllSent \/ d = c
    BY <1>4, <1>5, <2>1 DEF AllSent, SomeChunk
  <2> QED
    BY <1>2, <2>2 DEF AllSent
<1>7. s \notin rank_reported
  BY DEF IInv, Reported, insert_data
<1>8. /\ Places' /\ Totals'
      /\ Cardinality(SentBy(s)') = Cardinality(SentBy(s)) + 1
      /\ \A t \in Rank \ {s} : SentBy(t)' = SentBy(t)
  BY <1>2, <1>6, <1>7, SendOne DEF insert_data
<1>9. Reported'
  BY <1>4, <1>7 DEF IInv, Reported, insert_data, Ctrl
<1>10. Counted'
  BY <1>8 DEF IInv, CounterTypeOK, Counted, insert_data
<1> QED
  BY <1>1, <1>8, <1>9, <1>10 DEF IInv, NoFault, insert_data

\* A source's announcement preserves the invariant.
LEMMA insert_finishedIInv == ASSUME IInv, NEW s \in Rank, insert_finished(s) PROVE IInv'
<1> USE RankAssumption, PartitionsAssumption, MaxChunksAssumption
<1>1. CounterTypeOK'
  BY DEF IInv, CounterTypeOK, insert_finished, Chunk
<1>2. Ctrl(s) \in SomeChunk /\ Ctrl(s) \notin AllSent /\ Ctrl(s).src = s
  BY DEF IInv, CounterTypeOK, insert_finished, SomeChunk, AllSent, Ctrl
<1>3. AllSent' = AllSent \cup {Ctrl(s)}
  <2>1. counts' = counts /\ announced' = announced \cup {s}
    BY DEF insert_finished
  <2>2. \A d \in SomeChunk : d \in AllSent' <=> d \in AllSent \/ d = Ctrl(s)
    BY <2>1, <1>2 DEF AllSent, Ctrl
  <2> QED
    BY <1>2, <2>2 DEF AllSent
<1>4. s \notin rank_reported
  BY DEF IInv, Reported, insert_finished
<1>5. inbound' = inbound \cup {Ctrl(s)}
  BY DEF insert_finished, Ctrl
<1>6. /\ Places' /\ Totals'
      /\ Cardinality(SentBy(s)') = Cardinality(SentBy(s)) + 1
      /\ \A t \in Rank \ {s} : SentBy(t)' = SentBy(t)
  BY <1>2, <1>3, <1>4, <1>5, SendOne DEF insert_finished
<1>7. Reported'
  BY <1>2, <1>4, <1>5 DEF IInv, Reported, insert_finished, Ctrl
<1>8. Counted'
  BY <1>6 DEF IInv, CounterTypeOK, Counted, insert_finished
<1> QED
  BY <1>1, <1>6, <1>7, <1>8 DEF IInv, NoFault, insert_finished

\* Taking a chunk: only a control message moves the goalpost, by the number of
\* its source's chunks.
LEMMA insert_into_receivedIInv ==
  ASSUME IInv, NEW c \in inbound, insert_into_received(c) PROVE IInv'
<1> USE RankAssumption, PartitionsAssumption, MaxChunksAssumption
<1>1. c \in AllSent /\ c \in SomeChunk /\ c.src \in Rank
  BY DEF IInv, Places, AllSent, SomeChunk
<1>2. NLocalPartitions > 0
  BY <1>1 DEF IInv
<1>3. UNCHANGED <<counts, announced, total_finished_chunks>>
  BY DEF insert_into_received
<1>4. AllSent' = AllSent /\ \A s \in Rank : SentBy(s)' = SentBy(s) /\ Ctrl(s)' = Ctrl(s)
  BY <1>3 DEF AllSent, SentBy, Ctrl
<1>5. Places'
  BY <1>4 DEF IInv, Places, insert_into_received
<1>6. Tallied' = Tallied
  BY <1>4 DEF Tallied, insert_into_received
<1>7. Counted'
  BY <1>3, <1>4 DEF IInv, Counted
<1>8. CASE ~ is_control_message(c)
  <2>1. UNCHANGED <<rank_reported, n_ranks_with_goalpost, total_chunk_goal, fault>>
    BY <1>8 DEF insert_into_received
  <2>2. CounterTypeOK'
    BY <1>3, <2>1 DEF IInv, CounterTypeOK, insert_into_received
  <2>3. \A s \in Rank : c # Ctrl(s)
    BY <1>8 DEF IInv, CounterTypeOK, Ctrl, is_control_message
  <2>4. Reported'
    BY <1>3, <1>4, <2>1, <2>3 DEF IInv, Reported, insert_into_received
  <2>5. Totals'
    BY <1>3, <1>4, <1>6, <2>1 DEF IInv, Totals, GoalSet
  <2> QED
    BY <1>3, <1>4, <1>5, <1>7, <2>1, <2>2, <2>4, <2>5 DEF IInv, NoFault
<1>9. CASE is_control_message(c)
  <2> DEFINE s == c.src
  <2>1. s \in announced /\ c = Ctrl(s) /\ s \notin rank_reported
    BY <1>1, <1>9 DEF IInv, Reported, AllSent, is_control_message, SomeChunk
  <2>2. GoalpostMayMove(c)
    BY <1>1, <1>2, <1>9, <2>1 DEF GoalpostMayMove, known, is_control_message, SomeChunk
  <2>3. /\ rank_reported' = rank_reported \cup {s}
        /\ n_ranks_with_goalpost' = n_ranks_with_goalpost + 1
        /\ total_chunk_goal' = total_chunk_goal + c.expected
        /\ fault' = fault
    BY <1>9, <2>2 DEF insert_into_received, move_goalpost
  <2>4. CounterTypeOK'
    BY <1>1, <1>3, <2>3 DEF IInv, CounterTypeOK, insert_into_received, SomeChunk
  <2>5. Reported'
    <3>1. inbound' = inbound \ {c}
      BY DEF insert_into_received
    <3>2. \A t \in Rank : t # s => Ctrl(t) # c
      BY <2>1 DEF Ctrl
    <3> QED
      BY <1>1, <1>3, <1>4, <2>1, <2>3, <3>1, <3>2 DEF IInv, Reported
  <2>6. GoalSet' = GoalSet \cup SentBy(s) /\ GoalSet \cap SentBy(s) = {}
    BY <1>4, <2>1, <2>3 DEF GoalSet, SentBy
  <2>7. IsFiniteSet(GoalSet) /\ IsFiniteSet(SentBy(s))
    BY FS_Subset DEF IInv, Totals, GoalSet, SentBy
  <2>8. Cardinality(SentBy(s)) = c.expected /\ c.expected \in Nat
    BY <1>1, <2>1 DEF IInv, CounterTypeOK, Counted, Ctrl
  <2>9. Cardinality(GoalSet') = Cardinality(GoalSet) + c.expected
    <3>1. Cardinality(GoalSet \cap SentBy(s)) = 0
      BY <2>6, FS_EmptySet
    <3>2. Cardinality(GoalSet) \in Nat
      BY <2>7, FS_CardinalityType
    <3>3. Cardinality(GoalSet \cup SentBy(s)) =
              Cardinality(GoalSet) + Cardinality(SentBy(s)) - Cardinality(GoalSet \cap SentBy(s))
      BY <2>7, FS_Union
    <3> QED
      BY <2>6, <2>8, <3>1, <3>2, <3>3
  <2>10. Cardinality(rank_reported') = Cardinality(rank_reported) + 1
    <3>1. IsFiniteSet(rank_reported)
      BY FS_Subset DEF IInv, CounterTypeOK
    <3> QED
      BY <2>1, <2>3, <3>1, FS_AddElement
  <2>11. Totals'
    BY <1>3, <1>4, <1>6, <2>3, <2>9, <2>10 DEF IInv, Totals
  <2> QED
    BY <1>2, <1>3, <1>4, <1>5, <1>7, <2>3, <2>4, <2>5, <2>11 DEF IInv, NoFault
<1> QED
  BY <1>8, <1>9

\* When every rank has reported, the goal stands for every chunk.
LEMMA FullGoal ==
  ASSUME IInv, NLocalPartitions > 0, n_ranks_with_goalpost = nranks
  PROVE  rank_reported = Rank /\ announced = Rank /\ GoalSet = AllSent
<1> USE RankAssumption, PartitionsAssumption
<1>1. rank_reported = Rank
  BY FS_Subset DEF IInv, CounterTypeOK, Totals, nranks
<1>2. announced = Rank
  BY <1>1 DEF IInv, CounterTypeOK, Reported
<1>3. GoalSet = AllSent
  BY <1>1 DEF GoalSet, AllSent, SomeChunk
<1> QED
  BY <1>1, <1>2, <1>3

\* Counting a chunk cannot exceed the goal.
LEMMA add_finished_chunkIInv ==
  ASSUME IInv, NEW c \in held, add_finished_chunk(c) PROVE IInv'
<1> USE RankAssumption, PartitionsAssumption, MaxChunksAssumption
<1>1. c \in AllSent /\ NLocalPartitions > 0
  BY DEF IInv, Places
<1>2. UNCHANGED <<counts, announced, inbound, rank_reported,
                  n_ranks_with_goalpost, total_chunk_goal>>
  BY DEF add_finished_chunk
<1>3. AllSent' = AllSent /\ GoalSet' = GoalSet
      /\ \A s \in Rank : SentBy(s)' = SentBy(s) /\ Ctrl(s)' = Ctrl(s)
  BY <1>2 DEF AllSent, GoalSet, SentBy, Ctrl
<1>4. Places' /\ Counted' /\ Reported'
  BY <1>2, <1>3 DEF IInv, Places, Counted, Reported, add_finished_chunk
<1>5. Tallied' = Tallied \cup {c} /\ c \notin Tallied /\ Tallied' \subseteq AllSent
  BY <1>1, <1>2, <1>3 DEF IInv, Places, Tallied, add_finished_chunk
<1>6. IsFiniteSet(Tallied)
  BY FS_Subset DEF IInv, Totals, Tallied
<1>7. Cardinality(Tallied') = Cardinality(Tallied) + 1
  BY <1>5, <1>6, FS_AddElement
<1>8. Totals'
  BY <1>2, <1>3, <1>7 DEF IInv, Totals, add_finished_chunk
<1>9. n_ranks_with_goalpost = nranks => total_finished_chunks' <= total_chunk_goal
  <2>1. Cardinality(Tallied') <= Cardinality(AllSent)
    BY <1>5, FS_Subset DEF IInv, Totals
  <2> QED
    BY <1>1, <1>2, <1>3, <1>8, <2>1, FullGoal DEF Totals
<1>10. n_ranks_with_goalpost <= nranks /\ n_ranks_with_goalpost \in Nat /\ nranks \in Nat
  BY <1>1, FS_Subset, FS_CardinalityType DEF IInv, CounterTypeOK, Totals, nranks
<1>11. NoFault'
  <2>1. n_ranks_with_goalpost < nranks \/ total_finished_chunks' <= total_chunk_goal
    BY <1>9, <1>10
  <2> QED
    BY <2>1, Zenon DEF IInv, NoFault, add_finished_chunk
<1>12. CounterTypeOK'
  BY <1>2, <1>11 DEF IInv, CounterTypeOK, add_finished_chunk, NoFault
<1> QED
  BY <1>1, <1>2, <1>3, <1>4, <1>8, <1>11, <1>12 DEF IInv

\* A stuttering step changes nothing the invariant speaks of.
LEMMA StutterIInv == ASSUME IInv, UNCHANGED counterVars PROVE IInv'
BY DEF IInv, counterVars, CounterTypeOK, NoFault, Places, Reported, Counted, Totals, AllSent,
       SentBy, Tallied, GoalSet, Ctrl, SomeChunk

\* The invariant holds in every state.
THEOREM Inductive == CounterSpec => []IInv
<1>1. CounterInit => IInv
  BY InitIInv
<1>2. IInv /\ [CounterNext]_counterVars => IInv'
  BY insertDataIInv, insert_finishedIInv, insert_into_receivedIInv,
     add_finished_chunkIInv, StutterIInv DEF CounterNext
<1> QED
  BY <1>1, <1>2, PTL DEF CounterSpec

\* The counter's state is always of its type.
THEOREM TypeCorrect == CounterSpec => []CounterTypeOK
BY Inductive, PTL DEF IInv

\* No RAPIDSMPF_EXPECTS of the finish counter can throw.
THEOREM NeverThrows == CounterSpec => []NoFault
BY Inductive, PTL DEF IInv

\* all_finished() implies that every chunk has been sent, taken and counted.
LEMMA IInvNeverPremature == IInv => NeverPremature
<1> SUFFICES ASSUME IInv, all_finished, NLocalPartitions > 0
             PROVE  announced = Rank /\ inbound = {} /\ held = {}
  BY DEF NeverPremature
<1>1. announced = Rank /\ GoalSet = AllSent
  BY FullGoal DEF all_finished
<1>2. Tallied = AllSent
  BY <1>1, FS_Subset DEF IInv, Totals, Tallied, all_finished
<1> QED
  BY <1>1, <1>2 DEF IInv, Places, Tallied

\* all_finished() is never true while a chunk is missing.
THEOREM FinishedIsComplete == CounterSpec => []NeverPremature
BY Inductive, IInvNeverPremature, PTL

\* all_finished() never goes back to false.
THEOREM FinishedIsStable == CounterSpec => StaysFinished
<1>1. ASSUME IInv, CounterNext, NLocalPartitions > 0, all_finished PROVE all_finished'
  <2>1. announced = Rank /\ inbound = {} /\ held = {}
    BY <1>1, IInvNeverPremature DEF NeverPremature
  <2> QED
    BY <1>1, <2>1 DEF CounterNext, insert_data, insert_finished
<1>2. IInv /\ [CounterNext]_counterVars => [NLocalPartitions > 0 /\ all_finished => all_finished']_counterVars
  BY <1>1
<1> QED
  BY <1>2, Inductive, PTL DEF CounterSpec, StaysFinished

=============================================================================
