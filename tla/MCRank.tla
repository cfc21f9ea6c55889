------------------------------- MODULE MCRank -------------------------------
(* The finish counter of a rank and its memory, which share no state: an instance *)
(* runs one of them.                                                              *)
EXTENDS FinishCounter, MemoryReserveOrWait

VARIABLE part           \* "counter" or "memory"

AllThreads == Callers \cup {"checker", "spill_thread"}

\* Memory for two units, which the message of "a" fills.  "c" and "d" wait for it,
\* and "d" overbooks if it must; "b" spills it.  Nobody uses it next to the counter.
Together == {{"a", "c", "d"}, {"a", "b"}, {"a", "c", "shutdown"}, {}}
SizeOf(c) == IF c = "a" THEN 2 ELSE 1
DeltaOf(c) == IF c = "d" THEN -1 ELSE 1
ApiOf(c) ==
    CASE c = "a" -> "overbook" [] c = "b" -> "spill_or_fail" [] c = "c" -> "fail"
      [] c = "d" -> "overbook"

RankInit ==
    /\ part \in {"counter", "memory"}
    /\ CounterInit /\ Init
    /\ part = "memory" <=> \E c \in Callers : at[c] # "done"

RankNext ==
    /\ \/ part = "counter" /\ CounterNext /\ UNCHANGED vars
       \/ part = "memory" /\ Next /\ UNCHANGED counterVars
    /\ UNCHANGED part

RankSpec == RankInit /\ [][RankNext]_<<part, counterVars, vars>> /\ Fairness
=============================================================================
