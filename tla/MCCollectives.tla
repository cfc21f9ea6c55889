---------------------------- MODULE MCCollectives ----------------------------
(* The collectives do not share state: an instance runs one of them, or the buffers that  *)
(* they and the shuffler keep and the spills of these.                                    *)
EXTENDS AllReduce, SparseAlltoall, AllGather, Spilling

VARIABLE collective   \* the collective this instance runs

Twice(n) == IF n <= 3 THEN 2 ELSE 1
Both(r) == Peers \ {r}
TwoOrNone(r, d) == IF d = 1 THEN 2 ELSE 0

\* A buffer of one unit and two of two; the device holds two units.
SizeOfBuffer(c) == IF c = 1 THEN 1 ELSE 2
LimitOf(type) == CASE type = "device" -> 2 [] type = "pinned" -> 1 [] type = "host" -> 3

\* A chunk of rank 0 goes round a ring of three; with fewer ranks it contributes two chunks
\* to the first and one to the second of two allgathers, and rank 1 one to the first.
Contributed(n, r, i) ==
    CASE n < 3 /\ r = 0 -> 3 - i
      [] (n < 3 /\ r = 1) \/ (n = 3 /\ r = 0) -> 2 - i
      [] OTHER -> 0
TwoRounds(n) == 2

vars == <<collective, reduceVars, sparseVars, gatherVars, spillingVars>>

Init ==
    /\ collective \in {"AllReduce", "SparseAlltoall", "AllGather", "Spilling"}
    /\ ReduceInit /\ SparseInit /\ GatherInit /\ SpillingInit
    /\ collective # "AllReduce" => nranks = 1
    /\ collective # "AllGather" => ring_size = 2
    /\ collective # "Spilling" => ~has_disk

Next ==
    /\ UNCHANGED collective
    /\ \/ /\ collective = "AllReduce" /\ ReduceNext
          /\ UNCHANGED <<sparseVars, gatherVars, spillingVars>>
       \/ /\ collective = "SparseAlltoall" /\ SparseNext
          /\ UNCHANGED <<reduceVars, gatherVars, spillingVars>>
       \/ /\ collective = "AllGather" /\ GatherNext
          /\ UNCHANGED <<reduceVars, sparseVars, spillingVars>>
       \/ /\ collective = "Spilling" /\ SpillingNext
          /\ UNCHANGED <<reduceVars, sparseVars, gatherVars>>

\* The progress thread keeps calling event_loop(), streams run, messages arrive, and users
\* finish and extract what they have started.  A collective takes finitely many steps, so
\* that fairness of them together is fairness of each.
Progress ==
    /\ UNCHANGED <<collective, spillingVars>>
    /\ \/ collective = "AllReduce" /\ ReduceNext /\ UNCHANGED <<sparseVars, gatherVars>>
       \/ collective = "SparseAlltoall" /\ SparseProgress /\ UNCHANGED <<reduceVars, gatherVars>>
       \/ /\ collective = "AllGather" /\ GatherProgress
          /\ UNCHANGED <<reduceVars, sparseVars, ring_size>>

Spec == Init /\ [][Next]_vars /\ WF_vars(Progress)

-----------------------------------------------------------------------------
\* What an extract() of SparseAlltoall or AllGather returns is complete and in order, and a
\* collective that reuses an op_id sees nothing of the one before.
ExtractsAreComplete == ExtractedInOrder /\ GatherIsComplete

\* Every reduction, exchange and allgather that is started completes on every rank.
CollectivesComplete ==
    <>CASE collective = "AllReduce" -> Reduced
        [] collective = "SparseAlltoall" -> Exchanged
        [] collective = "AllGather" -> Gathered
        [] OTHER -> TRUE
=============================================================================
