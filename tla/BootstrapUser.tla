---------------------------- MODULE BootstrapUser ----------------------------
(***************************************************************************)
(* The processes that use a bootstrap backend.  Each rank runs a script of *)
(* backend calls: the one of create_ucxx_comm(), or a number of barriers.  *)
(* A call that throws unwinds to the destructor of the backend.            *)
(***************************************************************************)
EXTENDS Integers, Sequences, FiniteSets

CONSTANTS
    nranks,       \* number of ranks
    MaxBarriers,  \* bound: barriers in the script that only uses barriers
    MaxCrashes    \* bound: processes that are killed

ASSUME nranksAssumption == nranks \in Nat \ {0}
ASSUME MaxBarriersAssumption == MaxBarriers \in Nat \ {0}

Ranks == 0 .. nranks - 1

VARIABLES
    program,    \* the script all ranks run
    step,       \* step[r]: position of rank r in its script
    in_call,    \* in_call[r]: rank r is inside the call at its position
    error,      \* error[r]: why a call of rank r has thrown
    crashed,    \* ranks whose process was killed
    timed_out,  \* some wait has run into its timeout (auxiliary)
    published, got, entered, left   \* what the calls have done, see BootstrapContract

scriptVars == <<step, in_call, error>>
effects == <<published, got, entered, left>>
userVars == <<program, scriptVars, crashed, timed_out, effects>>

create_ucxx_comm(r) ==
    IF r = 0 THEN <<"init", "put", "sync", "comm_barrier", "close">>
             ELSE <<"init", "sync", "get", "comm_barrier", "close">>

Script(r) ==
    IF program = "create_ucxx_comm"
    THEN create_ucxx_comm(r)
    ELSE <<"init">> \o [i \in 1 .. MaxBarriers |-> "barrier"] \o <<"close">>

UserInit ==
    /\ program \in {"create_ucxx_comm", "barriers"}
    /\ step = [r \in Ranks |-> 1]
    /\ in_call = [r \in Ranks |-> FALSE]
    /\ error = [r \in Ranks |-> "none"]
    /\ crashed = {}
    /\ timed_out = FALSE
    /\ published = FALSE
    /\ got = [r \in Ranks |-> FALSE]
    /\ entered = [r \in Ranks |-> 0]
    /\ left = [r \in Ranks |-> 0]

Ended(r) == step[r] > Len(Script(r))

Op(r) == IF Ended(r) THEN "exited" ELSE Script(r)[step[r]]

At(r, op) == r \notin crashed /\ Op(r) = op /\ ~ in_call[r]
In(r, op) == r \notin crashed /\ Op(r) = op /\ in_call[r]

\* The call is made and has not returned; it returns; it throws.
Start(r) == in_call' = [in_call EXCEPT ![r] = TRUE] /\ UNCHANGED <<step, error>>

Finish(r) ==
    /\ step' = [step EXCEPT ![r] = @ + 1]
    /\ in_call' = [in_call EXCEPT ![r] = FALSE]
    /\ UNCHANGED error

\* A constructor that throws has no destructor to run.
Throw(r, why) ==
    /\ error' = [error EXCEPT ![r] = why]
    /\ step' = [step EXCEPT ![r] = Len(Script(r)) + IF Op(r) = "init" THEN 1 ELSE 0]
    /\ in_call' = [in_call EXCEPT ![r] = FALSE]

Timeout(r) == Throw(r, "timeout") /\ timed_out' = TRUE

\* The effects of the calls.
EnterBarrier(r) ==
    entered' = [entered EXCEPT ![r] = @ + 1] /\ UNCHANGED <<published, got, left>>
LeaveBarrier(r) ==
    left' = [left EXCEPT ![r] = @ + 1] /\ UNCHANGED <<published, got, entered>>
Publish == published' = TRUE /\ UNCHANGED <<got, entered, left>>
Obtain(r) == got' = [got EXCEPT ![r] = TRUE] /\ UNCHANGED <<published, entered, left>>

\* comm->barrier() of the new communicator.
comm_barrier(r) ==
    \/ At(r, "comm_barrier") /\ Start(r)
    \/ /\ In(r, "comm_barrier")
       /\ \A q \in Ranks : step[q] > step[r] \/ (step[q] = step[r] /\ in_call[q])
       /\ Finish(r)

\* The process of rank r is killed.
crash(r) ==
    /\ r \notin crashed /\ ~ Ended(r)
    /\ Cardinality(crashed) < MaxCrashes
    /\ crashed' = crashed \cup {r}
    /\ UNCHANGED <<program, scriptVars, timed_out, effects>>
=============================================================================
