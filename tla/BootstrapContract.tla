-------------------------- MODULE BootstrapContract --------------------------
(***************************************************************************)
(* What rapidsmpf::bootstrap::detail::Backend promises its users: get()    *)
(* returns what rank 0 has put, and no rank leaves its n-th barrier before *)
(* every rank has entered its n-th.  A call may fail instead of returning. *)
(***************************************************************************)
EXTENDS Naturals

CONSTANT Ranks

VARIABLES
    published,   \* rank 0 has put the value
    got,         \* got[r]: get() has returned the value to rank r
    entered,     \* entered[r]: barriers rank r has entered
    left         \* left[r]: barriers rank r has left

contractVars == <<published, got, entered, left>>

Init ==
    /\ published = FALSE
    /\ got = [r \in Ranks |-> FALSE]
    /\ entered = [r \in Ranks |-> 0]
    /\ left = [r \in Ranks |-> 0]

Put == published' = TRUE /\ UNCHANGED <<got, entered, left>>

Get(r) ==
    /\ published
    /\ got' = [got EXCEPT ![r] = TRUE]
    /\ UNCHANGED <<published, entered, left>>

Enter(r) ==
    /\ entered[r] = left[r]
    /\ entered' = [entered EXCEPT ![r] = @ + 1]
    /\ UNCHANGED <<published, got, left>>

Leave(r) ==
    /\ left[r] < entered[r]
    /\ \A q \in Ranks : entered[q] >= entered[r]
    /\ left' = [left EXCEPT ![r] = @ + 1]
    /\ UNCHANGED <<published, got, entered>>

Next == Put \/ \E r \in Ranks : Get(r) \/ Enter(r) \/ Leave(r)

Spec == Init /\ [][Next]_contractVars
=============================================================================
