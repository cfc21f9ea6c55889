------------------------- MODULE MemoryReserveOrWait -------------------------
(***************************************************************************)
(* rapidsmpf::streaming::MemoryReserveOrWait for device memory, and the    *)
(* tasks that use it: reserve_memory(), then a buffer from the             *)
(* reservation, then a message that waits in SpillableMessages.  Requests  *)
(* that do not fit wait for periodic_memory_check(), a task that the first *)
(* of them starts and that ends when none is left.                         *)
(***************************************************************************)
EXTENDS SpillManager

CONSTANTS
    Callers,           \* tasks that reserve memory once
    Crews,             \* which callers run together, and if shutdown() is called
    Size(_),           \* size of a caller's request
    NetMemoryDelta(_), \* its net_memory_delta
    Builders,          \* callers that make a buffer; the others drop the reservation
    Api(_)             \* "overbook" or "fail" (reserve_memory), or "spill" or
                       \* "spill_or_fail" (reserve_device_memory_and_spill)

ASSUME CallersAssumption ==
    /\ IsFiniteSet(Callers) /\ "nobody" \notin Callers
    /\ Messages = Callers
    /\ Threads = Callers \cup {"checker", "spill_thread"}
    /\ Crews \subseteq SUBSET (Callers \cup {"shutdown"})
    /\ \A c \in Callers : Size(c) \in Nat \ {0} /\ NetMemoryDelta(c) \in Int

VARIABLES
    at,                       \* where a caller is
    own_overbooking,          \* of a caller in reserve_device_memory_and_spill()
    answered,                 \* callers whose queue was pushed to or shut down
    reservation_requests,     \* callers whose request is pending, oldest first
    periodic_task_running,    \* periodic_task_running_
    periodic_memory_check_task, \* the joinable task, 0 for none
    check,                    \* where each periodic task is
    awaited,                  \* the periodic task a caller or shutdown() waits for
    elapsed,                  \* time since last_reservation_success: within the
                              \* timeout, beyond it, or beyond the cap
    window,                   \* the local variables of the wait window
    selected,                 \* the request being admitted or forced
    shutdown_at,              \* where shutdown() is
    owed                      \* the checker was told to wait for a spill, which has
                              \* ended without an admission pass since (auxiliary)

requestVars == <<answered, reservation_requests, periodic_task_running,
                 periodic_memory_check_task>>
checkVars == <<check, elapsed, window, selected, owed>>
callVars == <<at, own_overbooking, awaited>>
mrowVars == <<requestVars, checkVars, callVars, shutdown_at>>
vars == <<brVars, spillVars, mrowVars>>

Checks == 1 .. Cardinality(Callers)
InTimeout == 0
PastTimeout == 1
PastCap == 2
FreshWindow == [extended |-> FALSE, recheck |-> FALSE, stalled |-> FALSE,
                generation |-> 0, available |-> 0]

Init ==
    /\ BufferResourceInit
    /\ SpillInit
    /\ \E crew \in Crews :
          /\ at = [c \in Callers |-> IF c \in crew THEN "reserve" ELSE "done"]
          /\ shutdown_at = IF "shutdown" \in crew THEN "due" ELSE "never"
    /\ own_overbooking = [c \in Callers |-> 0]
    /\ answered = {}
    /\ reservation_requests = <<>>
    /\ periodic_task_running = FALSE
    /\ periodic_memory_check_task = 0
    /\ check = [k \in Checks |-> "none"]
    /\ awaited = [w \in Callers \cup {"shutdown"} |-> 0]
    /\ elapsed = InTimeout
    /\ window = FreshWindow
    /\ selected = "nobody"
    /\ owed = "nothing"

Goto(c, place) == at' = [at EXCEPT ![c] = place]
Waits(c) == Api(c) \in {"overbook", "fail"}

\* The periodic task holds mutex_ across the reserve() of a request it admits.
Unlocked == \A k \in Checks : check[k] # "admit"

-----------------------------------------------------------------------------
(* A caller.                                                               *)

\* The unlocked read of a reserve() of the caller.
call_reserve(c) ==
    /\ at[c] \in {"reserve", "zero"}
    /\ at[c] = "zero" => Api(c) = "overbook"
    /\ Goto(c, IF at[c] = "zero" THEN "overbook" ELSE "try")
    /\ sample(c)
    /\ UNCHANGED <<allocated, memory_reserved, reservation, overbooked, spillVars,
                   own_overbooking, awaited, requestVars, checkVars, shutdown_at>>

\* reserve_or_wait(): the immediate attempt.
try_immediately(c) ==
    /\ at[c] = "try" /\ Waits(c)
    /\ reserve(c, c, Size(c), FALSE)
    /\ Goto(c, IF reservation'[c] = Size(c) THEN "holding" ELSE "enqueue")
    /\ UNCHANGED <<spillVars, own_overbooking, awaited, requestVars, checkVars, shutdown_at>>

\* The request is queued, and a periodic task started if none is running.
enqueue(c) ==
    /\ at[c] = "enqueue" /\ Unlocked
    /\ reservation_requests' = Append(reservation_requests, c)
    /\ periodic_task_running' = TRUE
    /\ IF periodic_task_running
       THEN /\ Goto(c, "waiting")
            /\ UNCHANGED <<awaited, periodic_memory_check_task, check>>
       ELSE LET k == Min({j \in Checks : check[j] = "none"})
            IN  /\ check' = [check EXCEPT ![k] = "pending"]
                /\ periodic_memory_check_task' = k
                /\ awaited' = [awaited EXCEPT ![c] = periodic_memory_check_task]
                /\ Goto(c, IF periodic_memory_check_task = 0 THEN "waiting" ELSE "join")
    /\ UNCHANGED <<brVars, spillVars, own_overbooking, answered, elapsed, window, selected,
                   owed, shutdown_at>>

\* The caller waits for the previous periodic task to exit.
join_previous(c) ==
    /\ at[c] = "join" /\ check[awaited[c]] = "done"
    /\ Goto(c, "waiting")
    /\ awaited' = [awaited EXCEPT ![c] = 0]
    /\ UNCHANGED <<brVars, spillVars, own_overbooking, requestVars, checkVars,
                   shutdown_at>>

\* The pop() of the request's queue returns; a queue that was shut down throws.
pop(c) ==
    /\ at[c] = "waiting" /\ c \in answered
    /\ Goto(c, IF reservation[c] = Size(c) THEN "holding" ELSE "zero")
    /\ answered' = answered \ {c}
    /\ UNCHANGED <<brVars, spillVars, own_overbooking, awaited, reservation_requests,
                   periodic_task_running, periodic_memory_check_task, checkVars, shutdown_at>>

pop_throws(c) ==
    /\ at[c] = "waiting" /\ c \notin answered /\ shutdown_at \in {"join", "returned"}
    /\ c \notin Range(reservation_requests) /\ c # selected
    /\ Goto(c, "failed")
    /\ UNCHANGED <<brVars, spillVars, own_overbooking, awaited, requestVars, checkVars,
                   shutdown_at>>

\* reserve_or_wait_or_overbook()
overbook(c) ==
    /\ at[c] = "overbook"
    /\ reserve(c, c, Size(c), TRUE)
    /\ Goto(c, "holding")
    /\ UNCHANGED <<spillVars, own_overbooking, awaited, requestVars, checkVars, shutdown_at>>

\* reserve_or_wait_or_fail()
fail(c) ==
    /\ at[c] = "zero" /\ Api(c) = "fail"
    /\ Goto(c, "failed")
    /\ UNCHANGED <<brVars, spillVars, own_overbooking, awaited, requestVars, checkVars,
                   shutdown_at>>

\* reserve_device_memory_and_spill(): book in any case, then spill what is missing.
reserve_and_spill(c) ==
    /\ at[c] = "try" /\ ~Waits(c)
    /\ reserve(c, c, Size(c), TRUE)
    /\ own_overbooking' =
          [own_overbooking EXCEPT ![c] = Min({Size(c), Overbooking(c, Size(c))})]
    /\ Goto(c, IF Overbooking(c, Size(c)) > 0 THEN "spill" ELSE "holding")
    /\ UNCHANGED <<spillVars, awaited, requestVars, checkVars, shutdown_at>>

call_spill(c) ==
    /\ at[c] = "spill"
    /\ \/ spill_begin(c) /\ Goto(c, "spilling")
       \/ spill_not_needed /\ Goto(c, "holding") /\ UNCHANGED spillVars
    /\ UNCHANGED <<brVars, own_overbooking, awaited, requestVars, checkVars, shutdown_at>>

\* The exception releases the reservation.
spilled_enough(c) ==
    /\ at[c] = "spilling"
    /\ spill_return(c)
    /\ IF Api(c) = "spill" \/ spill.spilled >= Min({own_overbooking[c], spill.amount})
       THEN Goto(c, "holding") /\ UNCHANGED brVars
       ELSE Goto(c, "failed") /\ clear(c)
    /\ own_overbooking' = [own_overbooking EXCEPT ![c] = 0]
    /\ UNCHANGED <<awaited, requestVars, checkVars, shutdown_at>>

\* make_buffer(): first the allocation, then release().
make_buffer(c) ==
    /\ \/ at[c] = "holding" /\ c \in Builders /\ allocate(Size(c)) /\ Goto(c, "allocated")
       \/ at[c] = "allocated" /\ release(c, Size(c)) /\ Goto(c, "made")
    /\ UNCHANGED <<spillVars, own_overbooking, awaited, requestVars, checkVars, shutdown_at>>

\* A reservation that is not used.
drop_reservation(c) ==
    /\ at[c] = "holding" /\ c \notin Builders
    /\ clear(c)
    /\ Goto(c, "done")
    /\ UNCHANGED <<spillVars, own_overbooking, awaited, requestVars, checkVars, shutdown_at>>

send_message(c) ==
    /\ at[c] = "made"
    /\ insert(c, Size(c))
    /\ Goto(c, "sent")
    /\ UNCHANGED <<brVars, managerVars, own_overbooking, awaited, requestVars, checkVars,
                   shutdown_at>>

\* The message is extracted in two steps, and destroyed.
consume_message(c) ==
    /\ \/ /\ at[c] = "sent"
          /\ extract_item(c)
          /\ Goto(c, "extract")
          /\ UNCHANGED brVars
       \/ /\ at[c] = "extract"
          /\ take_message(c)
          /\ Goto(c, "done")
          /\ deallocate(IF memory_type[c] = "device" THEN content_size[c] ELSE 0)
    /\ UNCHANGED <<managerVars, own_overbooking, awaited, requestVars, checkVars, shutdown_at>>

caller_step(c) ==
    \/ call_reserve(c) \/ try_immediately(c) \/ enqueue(c) \/ join_previous(c)
    \/ pop(c) \/ pop_throws(c) \/ overbook(c) \/ fail(c)
    \/ reserve_and_spill(c) \/ call_spill(c) \/ spilled_enough(c)
    \/ make_buffer(c) \/ drop_reservation(c) \/ send_message(c) \/ consume_message(c)

-----------------------------------------------------------------------------
(* periodic_memory_check().                                                *)

Moves(k, place) == check' = [check EXCEPT ![k] = place]

\* The local variables start afresh, here as soon as their scope is left.
NewWindow ==
    /\ elapsed' = InTimeout
    /\ window' = FreshWindow
    /\ owed' = "nothing"

\* The exit decision and the flag are one critical section.
ExitIfEmpty(k, otherwise) ==
    IF reservation_requests = <<>>
    THEN periodic_task_running' = FALSE /\ Moves(k, "returned") /\ NewWindow
    ELSE Moves(k, otherwise) /\ UNCHANGED <<periodic_task_running, elapsed, window, owed>>

check_pending(k) ==
    /\ check[k] = "pending"
    /\ ExitIfEmpty(k, "yield")
    /\ UNCHANGED <<brVars, spillVars, callVars, shutdown_at, answered, reservation_requests,
                   periodic_memory_check_task, selected>>

\* In time, or after a judgement that lets the requests wait: the allocator is read
\* for an admission pass.
begin_pass(k) ==
    /\ \/ check[k] = "yield" /\ elapsed = InTimeout
       \/ check[k] = "pass"
    /\ Moves(k, "measure")
    /\ sample("checker")
    /\ UNCHANGED <<allocated, memory_reserved, reservation, overbooked, spillVars, callVars,
                   shutdown_at, requestVars, elapsed, window, selected, owed>>

\* Late: did a spill that completed during the extension free memory?
judge_progress(k) ==
    LET available == memory_available - memory_reserved
    IN  /\ check[k] = "yield" /\ elapsed # InTimeout
        /\ Moves(k, "judge")
        /\ window' = IF /\ window.extended /\ ~window.stalled
                        /\ spill_generation # window.generation
                     THEN [window EXCEPT !.stalled = available <= window.available,
                                         !.generation = spill_generation,
                                         !.available = available]
                     ELSE window
        /\ UNCHANGED <<brVars, spillVars, callVars, shutdown_at, requestVars, elapsed,
                       selected, owed>>

\* Mutant: no cap on the extension.
Mut_KeepWaiting == ~window.stalled /\ spills_in_flight > 0

KeepWaiting == ~window.stalled /\ elapsed # PastCap /\ spills_in_flight > 0

\* Mutant: no admission pass after the spill.
Mut_Recheck == FALSE

Recheck == window.recheck

judge_spilling(k) ==
    /\ check[k] = "judge"
    /\ \/ /\ KeepWaiting
          /\ Moves(k, IF window.extended THEN "pass" ELSE "extend")
          /\ window' = [window EXCEPT !.recheck = TRUE]
          /\ owed' = "spill runs"
       \/ /\ ~KeepWaiting /\ Recheck
          /\ Moves(k, "pass")
          /\ window' = [window EXCEPT !.recheck = FALSE]
          /\ UNCHANGED owed
       \/ /\ ~KeepWaiting /\ ~Recheck
          /\ Moves(k, "force")
          /\ UNCHANGED <<window, owed>>
    /\ UNCHANGED <<brVars, spillVars, callVars, shutdown_at, requestVars, elapsed, selected>>

start_extension(k) ==
    /\ check[k] = "extend"
    /\ Moves(k, "pass")
    /\ window' = [window EXCEPT !.extended = TRUE, !.generation = spill_generation,
                                !.available = memory_available - memory_reserved]
    /\ UNCHANGED <<brVars, spillVars, callVars, shutdown_at, requestVars, elapsed, selected,
                   owed>>

\* Positions of the pending requests of at most that size.
Eligible(max_size) ==
    {i \in DOMAIN reservation_requests : Size(reservation_requests[i]) <= max_size}

\* min_element over requests sorted by size and age.
Before(i, j) ==
    LET a == reservation_requests[i]
        b == reservation_requests[j]
    IN  \/ NetMemoryDelta(a) < NetMemoryDelta(b)
        \/ NetMemoryDelta(a) = NetMemoryDelta(b) /\ Size(a) < Size(b)
        \/ NetMemoryDelta(a) = NetMemoryDelta(b) /\ Size(a) = Size(b) /\ i <= j

Preferred(positions) == CHOOSE i \in positions : \A j \in positions : Before(i, j)

\* The request that is chosen, and the read of its reserve(), under mutex_.
select_request(k) ==
    /\ check[k] = "measure"
    /\ LET eligible == Eligible(memory_available_for_reservation("checker"))
       IN  IF eligible = {}
           THEN /\ Moves(k, "pending")
                /\ forget("checker")
                /\ UNCHANGED selected
           ELSE /\ Moves(k, "admit")
                /\ selected' = reservation_requests[Preferred(eligible)]
                /\ sample("checker")
    /\ owed' = IF owed = "pass is due" THEN "nothing" ELSE owed
    /\ UNCHANGED <<allocated, memory_reserved, reservation, overbooked, spillVars, callVars,
                   shutdown_at, requestVars, elapsed, window>>

\* Moves what the checker reserved into the queue of the selected request.
Answer(c) ==
    /\ answered' = answered \cup {c}
    /\ selected' = "nobody"

\* The reserve() of the selected request succeeds and the request is answered, or
\* memory is no longer available and the request stays.
admit(k) ==
    /\ check[k] = "admit"
    /\ Moves(k, "pending")
    /\ reserve("checker", selected, Size(selected), FALSE)
    /\ IF reservation'[selected] # 0
       THEN /\ reservation_requests' = RemoveFirst(reservation_requests, selected)
            /\ Answer(selected)
            /\ NewWindow
       ELSE /\ selected' = "nobody"
            /\ UNCHANGED <<reservation_requests, answered, elapsed, window, owed>>
    /\ UNCHANGED <<spillVars, callVars, shutdown_at, periodic_task_running,
                   periodic_memory_check_task>>

\* Timed out: the smallest request is taken out, and the allocator read for it.
Smallest ==
    {i \in DOMAIN reservation_requests :
        \A j \in DOMAIN reservation_requests :
            Size(reservation_requests[i]) <= Size(reservation_requests[j])}

force(k) ==
    /\ check[k] = "force"
    /\ ExitIfEmpty(k, "forced")
    /\ IF reservation_requests = <<>>
       THEN UNCHANGED <<reservation_requests, selected, sampled, fresh>>
       ELSE LET i == Preferred(Smallest)
            IN  /\ selected' = reservation_requests[i]
                /\ reservation_requests' = RemoveAt(reservation_requests, i)
                /\ sample("checker")
    /\ UNCHANGED <<allocated, memory_reserved, reservation, overbooked, spillVars, callVars,
                   shutdown_at, answered, periodic_memory_check_task>>

\* It is answered with what fits, or with nothing, and a new window starts.
force_reserve(k) ==
    /\ check[k] = "forced"
    /\ Moves(k, "pending")
    /\ reserve("checker", selected, Size(selected), FALSE)
    /\ Answer(selected)
    /\ NewWindow
    /\ UNCHANGED <<spillVars, callVars, shutdown_at, reservation_requests,
                   periodic_task_running, periodic_memory_check_task>>

\* The coroutine is finished and can be joined.
complete(k) ==
    /\ check[k] = "returned"
    /\ Moves(k, "done")
    /\ UNCHANGED <<brVars, spillVars, callVars, shutdown_at, requestVars, elapsed, window,
                   selected, owed>>

check_step(k) ==
    \/ check_pending(k) \/ begin_pass(k) \/ judge_progress(k) \/ judge_spilling(k)
    \/ start_extension(k) \/ select_request(k) \/ admit(k)
    \/ force(k) \/ force_reserve(k) \/ complete(k)

\* Time passes while requests wait.
tick ==
    /\ elapsed < PastCap
    /\ periodic_task_running
    /\ elapsed' = elapsed + 1
    /\ UNCHANGED <<brVars, spillVars, callVars, shutdown_at, requestVars, check, window,
                   selected, owed>>

-----------------------------------------------------------------------------
(* shutdown().                                                             *)

\* The pending requests and the task are moved out, and the queues shut down.
shutdown ==
    /\ shutdown_at = "due" /\ Unlocked
    /\ shutdown_at' = "join"
    /\ reservation_requests' = <<>>
    /\ periodic_memory_check_task' = 0
    /\ awaited' = [awaited EXCEPT !["shutdown"] = periodic_memory_check_task]
    /\ UNCHANGED <<brVars, spillVars, at, own_overbooking, checkVars, answered,
                   periodic_task_running>>

shutdown_return ==
    /\ shutdown_at = "join"
    /\ awaited["shutdown"] # 0 => check[awaited["shutdown"]] = "done"
    /\ shutdown_at' = "returned"
    /\ UNCHANGED <<brVars, spillVars, callVars, requestVars, checkVars>>

-----------------------------------------------------------------------------
\* The steps of a spill, seen by the checker's account of what it waited for.
spilling ==
    /\ spill_step \/ periodic_spill_check
    /\ owed' = IF owed = "spill runs" /\ spills_in_flight' < spills_in_flight
               THEN "pass is due" ELSE owed
    /\ UNCHANGED <<callVars, shutdown_at, requestVars, check, elapsed, window, selected>>

Next ==
    \/ \E c \in Callers : caller_step(c)
    \/ \E k \in Checks : check_step(k)
    \/ tick
    \/ shutdown
    \/ shutdown_return
    \/ spilling

\* The executor goes on running tasks that can, and time passes.  Nothing is
\* assumed about spills: SPILL_WAIT_CAP_FACTOR is there for one that never ends.
Fairness ==
    /\ WF_vars(\E c \in Callers : caller_step(c))
    /\ WF_vars(\E k \in Checks : check_step(k))
    /\ WF_vars(tick)

Spec == Init /\ [][Next]_vars /\ Fairness

-----------------------------------------------------------------------------
Running == {k \in Checks : check[k] \notin {"none", "returned", "done"}}

\* reserve_or_wait() starts a task only when none is running, and the task leaves
\* only when no request is pending: at most one task runs, and no request is ever
\* left without one.
PendingHasChecker ==
    /\ Cardinality(Running) <= 1
    /\ reservation_requests # <<>> => Running # {}

\* "When the spill ends, one more admission pass runs before giving up, so the
\* memory it freed is not missed": unless the wait ran into its cap or a spill
\* freed nothing, no request is forced between a spill the checker waited for
\* and the admission pass after it.
SpillIsNotMissed ==
    (\E k \in Checks : check[k] = "force") /\ owed = "pass is due"
        => window.stalled \/ elapsed = PastCap

\* Nothing that would answer a pending request is missed: no request is without a
\* checker, no spill ends unseen, and none is forced before the pass that is due.
NothingIsMissed == PendingHasChecker /\ QuietIsCounted /\ SpillIsNotMissed

\* Every request is answered, with a reservation, without one, or by shutdown().
RequestsAreAnswered == []<>(\A c \in Callers : at[c] # "waiting")
=============================================================================
