----------------------------- MODULE SlurmBackend -----------------------------
(***************************************************************************)
(* rapidsmpf::bootstrap::detail::SlurmBackend: put() commits to the PMIx   *)
(* cache of rank 0, a fence that collects data makes it visible, get()     *)
(* polls.  PMIx itself is external.                                        *)
(***************************************************************************)
EXTENDS BootstrapUser

VARIABLES
    committed,   \* rank 0 has put and committed the value
    collected,   \* a fence has exchanged it
    fences       \* fences[r]: fences rank r has entered

slurmVars == <<committed, collected, fences>>

SlurmInit == committed = FALSE /\ collected = FALSE /\ fences = [r \in Ranks |-> 0]

slurm_open_close(r) ==
    /\ At(r, "init") \/ At(r, "close")
    /\ Finish(r)
    /\ UNCHANGED <<slurmVars, timed_out, effects>>

slurm_put(r) ==
    /\ At(r, "put")
    /\ committed' = TRUE
    /\ Finish(r) /\ Publish
    /\ UNCHANGED <<collected, fences, timed_out>>

slurm_get(r) ==
    /\ At(r, "get")
    /\ \/ collected /\ Finish(r) /\ Obtain(r) /\ UNCHANGED timed_out
       \/ ~ collected /\ Timeout(r) /\ UNCHANGED effects
    /\ UNCHANGED slurmVars

\* PMIx_Fence(): the last rank to enter completes it.
fence_enter(r, collect) ==
    /\ fences' = [fences EXCEPT ![r] = @ + 1]
    /\ collected' = (collected \/ (collect /\ committed
                                   /\ \A q \in Ranks \ {r} : fences[q] > fences[r]))
    /\ Start(r)
    /\ UNCHANGED <<committed, timed_out>>

fence_leave(r) ==
    /\ \A q \in Ranks : fences[q] >= fences[r]
    /\ Finish(r)
    /\ UNCHANGED <<slurmVars, timed_out>>

slurm_sync(r) ==
    /\ \/ At(r, "sync") /\ fence_enter(r, TRUE)
       \/ In(r, "sync") /\ fence_leave(r)
    /\ UNCHANGED effects

slurm_barrier(r) ==
    \/ At(r, "barrier") /\ fence_enter(r, FALSE) /\ EnterBarrier(r)
    \/ In(r, "barrier") /\ fence_leave(r) /\ LeaveBarrier(r)

SlurmNext(r) ==
    slurm_open_close(r) \/ slurm_put(r) \/ slurm_get(r) \/ slurm_sync(r) \/ slurm_barrier(r)
=============================================================================
