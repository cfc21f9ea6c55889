-------------------------- MODULE RmmResourceAdaptor --------------------------
(***************************************************************************)
(* rapidsmpf::detail::RmmResourceAdaptorImpl: an allocator that keeps      *)
(* records of what is allocated, for the process and for the scopes that a *)
(* thread has opened.  The upstream resource, which is external, is called *)
(* outside the lock, and gives an address out again once it has it back.   *)
(* Every allocation is of one unit.                                        *)
(***************************************************************************)
EXTENDS Integers, Sequences, FiniteSets, SequencesExt

CONSTANTS
    Users,       \* threads
    Addresses,   \* what the upstream resource can give out
    MaxScopes,   \* bound: scopes that are opened
    MaxAllocs    \* bound: allocations

VARIABLES
    upstream,            \* addresses in use upstream
    main_record,         \* main_record_
    record_stacks,       \* record_stacks_, the top of a stack last
    allocating_threads,  \* allocating_threads_, without the addresses it does not map
    user_at,             \* where a thread is in allocate() or deallocate(), and its address
    in_use,              \* addresses whose allocate() has returned and that are not freed
    duplicate,           \* "duplicate memory pointer" was thrown
    true_scopes,         \* for every open scope, what it really holds and held at most (auxiliary)
    scopes,              \* number of scopes so far
    wrong_peaks          \* records that were returned with another peak (auxiliary)

rmmVars == <<upstream, main_record, record_stacks, allocating_threads, user_at, in_use, duplicate,
             true_scopes, scopes, wrong_peaks>>

Larger(a, b) == IF a > b THEN a ELSE b

\* ScopedMemoryRecord.
EmptyRecord == [current |-> 0, total |-> 0, peak |-> 0]

record_allocation(r) ==
    [current |-> r.current + 1, total |-> r.total + 1, peak |-> Larger(r.peak, r.current + 1)]
record_deallocation(r) == [r EXCEPT !.current = @ - 1]

\* Mutant: what the parent holds itself is not added to the peak of the scope inside it.
Mut_add_subscope(r, sub) ==
    [current |-> r.current + sub.current, total |-> r.total + sub.total,
     peak |-> Larger(r.peak, sub.peak)]
add_subscope(r, sub) ==
    [current |-> r.current + sub.current, total |-> r.total + sub.total,
     peak |-> Larger(r.peak, r.current + sub.peak)]

RmmInit ==
    /\ upstream = {}
    /\ main_record = EmptyRecord
    /\ record_stacks = [t \in Users |-> <<>>]
    /\ allocating_threads = <<>>
    /\ user_at = [t \in Users |-> <<"idle">>]
    /\ in_use = {}
    /\ duplicate = FALSE
    /\ true_scopes = [t \in Users |-> <<>>]
    /\ scopes = 0
    /\ wrong_peaks = 0

OnTop(t, Op(_)) ==
    IF record_stacks[t] = <<>> THEN record_stacks
    ELSE [record_stacks EXCEPT ![t][Len(record_stacks[t])] = Op(@)]

\* An allocation or deallocation of a thread concerns every scope it has open.
EmptyScope == [held |-> 0, peak |-> 0]
ScopesAllocate(s) ==
    [d \in DOMAIN s |-> [held |-> s[d].held + 1, peak |-> Larger(s[d].peak, s[d].held + 1)]]
ScopesDeallocate(s) == [d \in DOMAIN s |-> [held |-> s[d].held - 1, peak |-> s[d].peak]]

begin_scoped_memory_record(t) ==
    /\ user_at[t] = <<"idle">> /\ scopes < MaxScopes
    /\ scopes' = scopes + 1
    /\ record_stacks' = [record_stacks EXCEPT ![t] = Append(@, EmptyRecord)]
    /\ true_scopes' = [true_scopes EXCEPT ![t] = Append(@, EmptyScope)]
    /\ UNCHANGED <<upstream, main_record, allocating_threads, user_at, in_use, duplicate, wrong_peaks>>

end_scoped_memory_record(t) ==
    /\ user_at[t] = <<"idle">> /\ record_stacks[t] # <<>>
    /\ LET ret   == Last(record_stacks[t])
           rest  == Front(record_stacks[t])
       IN  /\ record_stacks' = [record_stacks EXCEPT ![t] =
                  IF rest = <<>> THEN rest ELSE Append(Front(rest), add_subscope(Last(rest), ret))]
           /\ wrong_peaks' = wrong_peaks + IF ret.peak = Last(true_scopes[t]).peak THEN 0 ELSE 1
    /\ true_scopes' = [true_scopes EXCEPT ![t] = Front(@)]
    /\ UNCHANGED <<upstream, main_record, allocating_threads, user_at, in_use, duplicate, scopes>>

\* allocate(): upstream first, then the records under the lock.
allocate_upstream(t) ==
    /\ user_at[t] = <<"idle">> /\ main_record.total < MaxAllocs
    /\ \E p \in Addresses \ upstream :
          upstream' = upstream \cup {p} /\ user_at' = [user_at EXCEPT ![t] = <<"allocated", p>>]
    /\ UNCHANGED <<main_record, record_stacks, allocating_threads, in_use, duplicate, true_scopes, scopes,
                   wrong_peaks>>

Insert(p, t) ==
    [q \in DOMAIN allocating_threads \cup {p} |-> IF q = p THEN t ELSE allocating_threads[q]]

allocate_record(t) ==
    /\ user_at[t][1] = "allocated"
    /\ LET p == user_at[t][2]
           scoped == record_stacks[t] # <<>>
       IN  /\ record_stacks' = OnTop(t, record_allocation)
           /\ duplicate' = (duplicate \/ (scoped /\ p \in DOMAIN allocating_threads))
           /\ allocating_threads' = IF scoped THEN Insert(p, t) ELSE allocating_threads
           /\ in_use' = in_use \cup {p}
    /\ main_record' = record_allocation(main_record)
    /\ true_scopes' = [true_scopes EXCEPT ![t] = ScopesAllocate(@)]
    /\ user_at' = [user_at EXCEPT ![t] = <<"idle">>]
    /\ UNCHANGED <<upstream, scopes, wrong_peaks>>

\* deallocate(), by any thread: the records first, of the thread that has allocated, then
\* upstream.
Deallocated(p) ==
    /\ main_record' = record_deallocation(main_record)
    /\ record_stacks' = IF p \in DOMAIN allocating_threads
                        THEN OnTop(allocating_threads[p], record_deallocation) ELSE record_stacks
    /\ true_scopes' = IF p \in DOMAIN allocating_threads
                      THEN [true_scopes EXCEPT ![allocating_threads[p]] = ScopesDeallocate(@)]
                      ELSE true_scopes
    /\ allocating_threads' = [q \in DOMAIN allocating_threads \ {p} |-> allocating_threads[q]]

deallocate_record(t) ==
    /\ user_at[t] = <<"idle">>
    /\ \E p \in in_use :
          /\ in_use' = in_use \ {p} /\ Deallocated(p)
          /\ user_at' = [user_at EXCEPT ![t] = <<"deallocating", p>>]
    /\ UNCHANGED <<upstream, duplicate, scopes, wrong_peaks>>

deallocate_upstream(t) ==
    /\ user_at[t][1] = "deallocating"
    /\ upstream' = upstream \ {user_at[t][2]}
    /\ user_at' = [user_at EXCEPT ![t] = <<"idle">>]
    /\ UNCHANGED <<main_record, record_stacks, allocating_threads, in_use, duplicate, true_scopes, scopes,
                   wrong_peaks>>

RmmNext ==
    \E t \in Users :
        \/ begin_scoped_memory_record(t) \/ end_scoped_memory_record(t)
        \/ allocate_upstream(t) \/ allocate_record(t) \/ deallocate_record(t) \/ deallocate_upstream(t)

(***************************************************************************)
(* Reuse of an address by another thread never finds the record of its     *)
(* former owner: "duplicate memory pointer" is not thrown, and what is     *)
(* recorded as allocated is never more than what is in use upstream.       *)
(* However scopes nest, and whichever thread frees, the peak that ending a *)
(* scope returns is the most that the scope and the scopes inside it have  *)
(* held at one time.                                                       *)
(***************************************************************************)
ReuseIsClean == ~ duplicate /\ main_record.current <= Cardinality(upstream)
ScopePeakIsTrue == wrong_peaks = 0

AllocationRecordsAreTrue == ReuseIsClean /\ ScopePeakIsTrue
=============================================================================
