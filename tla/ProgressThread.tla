--------------------------- MODULE ProgressThread ---------------------------
(***************************************************************************)
(* The progress thread of a rank: ProgressThread (progress_thread.cpp) on  *)
(* top of its PausableThreadLoop (pausable_thread_loop.cpp).               *)
(*                                                                         *)
(* One loop thread repeatedly calls every registered function under        *)
(* mutex_.  Client threads register functions (Shuffler, AllGather, ...),  *)
(* remove them, and may pause, resume or stop the loop.  state_ is an      *)
(* atomic that both sides change by compare-exchange and without mutex_;   *)
(* active_ is a second, mutex_-protected record of the same fact, which is *)
(* what remove_function looks at.  cv_ is modelled by its waiters: a       *)
(* client at "waiting" re-evaluates its predicate only after a notify_all. *)
(*                                                                         *)
(* A critical section of a client does not block while it holds mutex_, so *)
(* it is one step; the loop thread holds mutex_ across many steps, one per *)
(* function called.  A client owns at most one function at a time.         *)
(***************************************************************************)
EXTENDS Integers, FiniteSets, TLAPS

CONSTANTS
    Client,     \* the threads that use the ProgressThread
    Ops,        \* Ops[c]: the calls c makes: "add", "pause", "resume", "stop"
    Endless,    \* clients whose function never returns ProgressState::Done
    MaxAdds     \* bound: calls of add_function in a behaviour

ASSUME ClientAssumption == Endless \subseteq Client
ASSUME OpsAssumption ==
    Ops \in [Client -> SUBSET {"add", "pause", "resume", "stop"}]
ASSUME MaxAddsAssumption == MaxAdds \in Nat

FunctionIndex == 0 .. MaxAdds - 1
NoFunction == -1    \* a FunctionID with thread_address 0

State == {"Stopped", "Stopping", "Paused", "Pausing", "Running"}

VARIABLES
    state,      \* PausableThreadLoop::state_
    loop,       \* where the loop thread is
    todo,       \* functions this pass of event_loop has still to call
    functions,  \* keys of functions_
    is_done,    \* the registered functions whose is_done is set
    active,     \* active_
    next_id,    \* next_function_id_
    pc,         \* where each client is
    fid         \* the FunctionID each client holds

vars == <<state, loop, todo, functions, is_done, active, next_id, pc, fid>>

(* The loop thread owns mutex_ exactly while it iterates functions_.       *)
MutexFree == loop # "run"

Init ==
    /\ state = "Paused"
    /\ loop = "top"
    /\ todo = {}
    /\ functions = {}
    /\ is_done = {}
    /\ active = FALSE
    /\ next_id = 0
    /\ pc = [c \in Client |-> "idle"]
    /\ fid = [c \in Client |-> NoFunction]

-----------------------------------------------------------------------------
(* What the calls do to state_ and to the waiters of cv_.                  *)

(* Mutants: pause claims Paused itself; one finished function releases     *)
(* every waiter.                                                           *)
Mut_paused_nb == IF state = "Running" THEN "Paused" ELSE state
Mut_may_remove(c) == ~active \/ is_done # {}

(* A compare-exchange loop ends with one successful exchange, or with the  *)
(* observation of a state it does not change.                              *)
resumed == IF state \in {"Paused", "Pausing"} THEN "Running" ELSE state
paused_nb == IF state = "Running" THEN "Pausing" ELSE state
Stoppable == {"Running", "Pausing", "Paused"}

(* cv_.notify_all(): every waiter will take mutex_ and test again.         *)
notify_all(at) == [c \in Client |-> IF at[c] = "waiting" THEN "relock" ELSE at[c]]

(* The predicate of remove_function's wait.                                *)
may_remove(c) == ~active \/ fid[c] \in is_done

-----------------------------------------------------------------------------
(* Clients.                                                                *)

add_function(c) ==
    /\ pc[c] = "idle"
    /\ "add" \in Ops[c]
    /\ fid[c] = NoFunction
    /\ next_id < MaxAdds
    /\ MutexFree
    /\ next_id' = next_id + 1
    /\ functions' = functions \union {next_id}
    /\ fid' = [fid EXCEPT ![c] = next_id]
    /\ state' = resumed
    /\ active' = TRUE
    /\ UNCHANGED <<loop, todo, is_done, pc>>

(* The rest of remove_function once its predicate holds, mutex_ held.      *)
erase(c) ==
    LET left == functions \ {fid[c]}
    IN  /\ functions' = left
        /\ is_done' = is_done \ {fid[c]}
        /\ state' = IF left = {} THEN paused_nb ELSE state
        /\ active' = (left # {} /\ active)
        /\ fid' = [fid EXCEPT ![c] = NoFunction]
        /\ pc' = [pc EXCEPT ![c] = "notify"]

(* Mutant: the entry is erased without mutex_.                             *)
Mut_remove_function(c) ==
    /\ fid[c] # NoFunction
    /\ pc[c] \in {"idle", "relock"}
    /\ may_remove(c)
    /\ erase(c)
    /\ UNCHANGED <<loop, todo, next_id>>

(* From the call, or from the wait after a notification.                   *)
remove_function(c) ==
    /\ fid[c] # NoFunction
    /\ pc[c] \in {"idle", "relock"}
    /\ MutexFree
    /\ may_remove(c)
    /\ erase(c)
    /\ UNCHANGED <<loop, todo, next_id>>

remove_function_wait(c) ==
    /\ fid[c] # NoFunction
    /\ pc[c] \in {"idle", "relock"}
    /\ MutexFree
    /\ ~may_remove(c)
    /\ pc' = [pc EXCEPT ![c] = "waiting"]
    /\ UNCHANGED <<state, loop, todo, functions, is_done, active, next_id, fid>>

(* The notify_all that ends remove_function, pause and resume, after the   *)
(* unlock.                                                                 *)
notify(c) ==
    /\ pc[c] = "notify"
    /\ pc' = notify_all([pc EXCEPT ![c] = "idle"])
    /\ UNCHANGED <<state, loop, todo, functions, is_done, active, next_id, fid>>

(* pause(): request, wait while Pausing, clear active_, notify.            *)
pause(c) ==
    /\ pc[c] = "idle"
    /\ "pause" \in Ops[c]
    /\ state' = paused_nb
    /\ pc' = [pc EXCEPT ![c] = "pausing"]
    /\ UNCHANGED <<loop, todo, functions, is_done, active, next_id, fid>>

pause_wait(c) ==
    /\ pc[c] = "pausing"
    /\ state # "Pausing"
    /\ pc' = [pc EXCEPT ![c] = "pause_flag"]
    /\ UNCHANGED <<state, loop, todo, functions, is_done, active, next_id, fid>>

(* Mutant: the notification at the end of pause() is forgotten.            *)
Mut_pause_flag(c) ==
    /\ pc[c] = "pause_flag"
    /\ MutexFree
    /\ active' = FALSE
    /\ pc' = [pc EXCEPT ![c] = "idle"]
    /\ UNCHANGED <<state, loop, todo, functions, is_done, next_id, fid>>

pause_flag(c) ==
    /\ pc[c] = "pause_flag"
    /\ MutexFree
    /\ active' = FALSE
    /\ pc' = [pc EXCEPT ![c] = "notify"]
    /\ UNCHANGED <<state, loop, todo, functions, is_done, next_id, fid>>

(* resume(): resume the loop, then set active_, then notify.               *)
resume(c) ==
    /\ pc[c] = "idle"
    /\ "resume" \in Ops[c]
    /\ state' = resumed
    /\ pc' = [pc EXCEPT ![c] = "resume_flag"]
    /\ UNCHANGED <<loop, todo, functions, is_done, active, next_id, fid>>

resume_flag(c) ==
    /\ pc[c] = "resume_flag"
    /\ MutexFree
    /\ active' = TRUE
    /\ pc' = [pc EXCEPT ![c] = "notify"]
    /\ UNCHANGED <<state, loop, todo, functions, is_done, next_id, fid>>

(* stop(): only the call that makes the transition joins the thread.  It   *)
(* takes no lock, and leaves active_ and functions_ alone.                 *)
stop(c) ==
    /\ pc[c] = "idle"
    /\ "stop" \in Ops[c]
    /\ state \in Stoppable
    /\ state' = "Stopping"
    /\ pc' = [pc EXCEPT ![c] = "joining"]
    /\ UNCHANGED <<loop, todo, functions, is_done, active, next_id, fid>>

join(c) ==
    /\ pc[c] = "joining"
    /\ loop = "exited"
    /\ pc' = [pc EXCEPT ![c] = "idle"]
    /\ UNCHANGED <<state, loop, todo, functions, is_done, active, next_id, fid>>

-----------------------------------------------------------------------------
(* The loop thread.                                                        *)

wait_while_paused ==
    /\ loop = "top"
    /\ state # "Paused"
    /\ loop' = "cas_pausing"
    /\ UNCHANGED <<state, todo, functions, is_done, active, next_id, pc, fid>>

(* Pausing -> Paused by compare-exchange; a success restarts the loop.     *)
cas_pausing ==
    /\ loop = "cas_pausing"
    /\ state' = IF state = "Pausing" THEN "Paused" ELSE state
    /\ loop' = IF state = "Pausing" THEN "top" ELSE "cas_stopping"
    /\ UNCHANGED <<todo, functions, is_done, active, next_id, pc, fid>>

cas_stopping ==
    /\ loop = "cas_stopping"
    /\ state' = IF state = "Stopping" THEN "Stopped" ELSE state
    /\ loop' = IF state = "Stopping" THEN "exited" ELSE "lock"
    /\ UNCHANGED <<todo, functions, is_done, active, next_id, pc, fid>>

event_loop ==
    /\ loop = "lock"
    /\ loop' = "run"
    /\ todo' = functions
    /\ UNCHANGED <<state, functions, is_done, active, next_id, pc, fid>>

(* FunctionState::operator(): a function that is done is not called again. *)
(* functions_ is an unordered_map: any order.                              *)
call_function(f, done) ==
    /\ loop = "run"
    /\ f \in todo
    /\ done => /\ f \notin is_done
               /\ \E c \in Client \ Endless : fid[c] = f
    /\ todo' = todo \ {f}
    /\ is_done' = IF done THEN is_done \union {f} ELSE is_done
    /\ UNCHANGED <<state, loop, functions, active, next_id, pc, fid>>

unlock ==
    /\ loop = "run"
    /\ todo = {}
    /\ loop' = "notify"
    /\ UNCHANGED <<state, todo, functions, is_done, active, next_id, pc, fid>>

(* Mutant: a pass of event_loop does not notify.                           *)
Mut_event_loop_notify ==
    /\ loop = "notify"
    /\ loop' = "top"
    /\ UNCHANGED <<state, todo, functions, is_done, active, next_id, pc, fid>>

event_loop_notify ==
    /\ loop = "notify"
    /\ pc' = notify_all(pc)
    /\ loop' = "top"
    /\ UNCHANGED <<state, todo, functions, is_done, active, next_id, fid>>

ClientStep(c) ==
    \/ add_function(c)
    \/ remove_function(c)
    \/ remove_function_wait(c)
    \/ notify(c)
    \/ pause(c)
    \/ pause_wait(c)
    \/ pause_flag(c)
    \/ resume(c)
    \/ resume_flag(c)
    \/ stop(c)
    \/ join(c)

LoopStep ==
    \/ wait_while_paused
    \/ cas_pausing
    \/ cas_stopping
    \/ event_loop
    \/ \E f \in FunctionIndex, done \in BOOLEAN : call_function(f, done)
    \/ unlock
    \/ event_loop_notify

Next == LoopStep \/ \E c \in Client : ClientStep(c)

Spec == Init /\ [][Next]_vars

(***************************************************************************)
(* The loop thread and a call in progress keep being scheduled.  mutex_ is *)
(* not fair, but the loop sleeps between two passes so that the others get *)
(* it (the sleep parameter of the constructor), so a call that finds it    *)
(* free again and again gets it.  A function that is not endless does not  *)
(* answer InProgress for ever; as it is done only once, fairness to any of *)
(* them is fairness to each.                                               *)
(***************************************************************************)
Fairness ==
    /\ WF_vars(LoopStep)
    /\ \A c \in Client :
        /\ WF_vars(notify(c) \/ pause_wait(c) \/ join(c))
        /\ SF_vars(pause_flag(c) \/ resume_flag(c))
        /\ SF_vars(pc[c] = "relock" /\ (remove_function(c) \/ remove_function_wait(c)))
    /\ SF_vars(\E f \in FunctionIndex : call_function(f, TRUE))

-----------------------------------------------------------------------------
(* Properties.                                                             *)

(* Every variable has its type.                                            *)
TypeOK ==
    /\ state \in State
    /\ loop \in {"top", "cas_pausing", "cas_stopping", "lock", "run", "notify", "exited"}
    /\ todo \subseteq FunctionIndex
    /\ functions \subseteq FunctionIndex
    /\ is_done \subseteq functions
    /\ active \in BOOLEAN
    /\ next_id \in 0 .. MaxAdds
    /\ pc \in [Client -> {"idle", "waiting", "relock", "notify", "pausing",
                          "pause_flag", "resume_flag", "joining"}]
    /\ fid \in [Client -> FunctionIndex \union {NoFunction}]

(* A remove_function that sleeps on cv_ although its function is done, or  *)
(* the thread inactive, has a notification coming: every write of active_  *)
(* and is_done is followed by a notify_all of the thread that made it      *)
(* (progress_thread.cpp:81, 90, 99, 121).                                  *)
NoLostWakeup ==
    \A c \in Client :
        pc[c] = "waiting" /\ may_remove(c) =>
            \/ loop \in {"run", "notify"}
            \/ \E d \in Client : pc[d] = "notify"

(* While the loop is Paused or Stopped no pass over the functions is under *)
(* way: what pause() and stop() wait for (progress_thread.hpp:165,         *)
(* pausable_thread_loop.cpp:92-95) does mean that no callback is running.  *)
PausedIsQuiet ==
    state \in {"Paused", "Stopped"} => loop \in {"top", "exited"}

(* The loop never calls a function after its remove_function: the range-   *)
(* for of event_loop iterates over entries that stay in functions_, and    *)
(* each belongs to a client that has not returned from remove_function, so *)
(* the object the callback points to is alive.                             *)
CallsOnlyRegistered ==
    \A f \in todo : f \in functions /\ \E c \in Client : fid[c] = f

(* With add_function and remove_function as the only calls, the loop runs  *)
(* exactly while a function is registered, and active_ says so.            *)
RunsIffRegistered ==
    active = (functions # {}) /\ active = (state = "Running")

(* remove_function gives up on an unfinished function only if the loop is  *)
(* not running (progress_thread.cpp:65-66).                                *)
RemoveWaitsWhileRunning ==
    [][state = "Running" => functions \ functions' \subseteq is_done]_vars

-----------------------------------------------------------------------------
(***************************************************************************)
(* Proofs: safety for every set of clients, every assignment of calls to   *)
(* them and every number of functions.                                     *)
(***************************************************************************)

(* Only the loop thread enters Paused and Stopped, and it does so where it *)
(* starts a round and where it leaves the loop.                            *)
LoopInv ==
    /\ state = "Paused" => loop = "top"
    /\ state = "Stopped" <=> loop = "exited"

(* A pass over functions_ is under way only while mutex_ is held, it has   *)
(* only registered functions left to call, and each registered function    *)
(* has an owner that has not removed it.                                   *)
OwnerInv ==
    /\ loop # "run" => todo = {}
    /\ todo \subseteq functions
    /\ \A f \in functions : \E c \in Client : fid[c] = f

IInv == TypeOK /\ LoopInv /\ OwnerInv /\ NoLostWakeup

USE ClientAssumption, OpsAssumption, MaxAddsAssumption
    DEF FunctionIndex, NoFunction, MutexFree

(* The progress thread starts Paused, with nothing registered.             *)
LEMMA InitIInv == Init => IInv
<1> SUFFICES ASSUME Init PROVE IInv
  OBVIOUS
<1>1. TypeOK
  <2>1. active \in BOOLEAN
    BY Zenon DEF Init
  <2>2. next_id \in 0 .. MaxAdds
    BY DEF Init
  <2>3. pc \in [Client -> {"idle", "waiting", "relock", "notify", "pausing",
                          "pause_flag", "resume_flag", "joining"}]
    BY DEF Init
  <2>4. fid \in [Client -> FunctionIndex \union {NoFunction}]
    BY DEF Init
  <2> QED BY <2>1, <2>2, <2>3, <2>4 DEF Init, TypeOK, State
<1>2. LoopInv /\ OwnerInv
  BY DEF Init, LoopInv, OwnerInv
<1>3. NoLostWakeup
  BY DEF Init, NoLostWakeup
<1> QED BY <1>1, <1>2, <1>3 DEF IInv

(* The steps of the loop thread.                                           *)
LEMMA LoopStepIInv ==
    ASSUME IInv, LoopStep
    PROVE  IInv'
<1> USE DEF IInv, TypeOK, LoopInv, OwnerInv, NoLostWakeup, State, may_remove, notify_all
<1>1. CASE wait_while_paused
  BY <1>1 DEF wait_while_paused
<1>2. CASE cas_pausing
  BY <1>2 DEF cas_pausing
<1>3. CASE cas_stopping
  BY <1>3 DEF cas_stopping
<1>4. CASE event_loop
  BY <1>4 DEF event_loop
<1>5. ASSUME NEW f \in FunctionIndex, NEW done \in BOOLEAN, call_function(f, done)
      PROVE  IInv'
  BY <1>5 DEF call_function
<1>6. CASE unlock
  BY <1>6 DEF unlock
<1>7. CASE event_loop_notify
  BY <1>7 DEF event_loop_notify
<1> QED
  BY <1>1, <1>2, <1>3, <1>4, <1>5, <1>6, <1>7 DEF LoopStep

(* The steps of a client that use mutex_ or cv_.                           *)
LEMMA RegistrationIInv ==
    ASSUME IInv, NEW c \in Client,
           \/ add_function(c)
           \/ remove_function(c)
           \/ remove_function_wait(c)
           \/ notify(c)
    PROVE  IInv'
<1>1. CASE add_function(c)
  <2>1. TypeOK'
    BY <1>1 DEF add_function, IInv, TypeOK, State, resumed
  <2>2. LoopInv'
    BY <1>1 DEF add_function, IInv, TypeOK, LoopInv, State, resumed
  <2>3. OwnerInv'
    BY <1>1 DEF add_function, IInv, TypeOK, OwnerInv
  <2>4. NoLostWakeup'
    BY <1>1 DEF add_function, IInv, TypeOK, NoLostWakeup, may_remove
  <2> QED BY <2>1, <2>2, <2>3, <2>4 DEF IInv
<1>2. CASE remove_function(c)
  <2>1. TypeOK'
    BY <1>2 DEF remove_function, erase, IInv, TypeOK, State, paused_nb
  <2>2. LoopInv'
    BY <1>2 DEF remove_function, erase, IInv, TypeOK, LoopInv, State, paused_nb
  <2>3. OwnerInv'
    BY <1>2 DEF remove_function, erase, IInv, TypeOK, OwnerInv
  <2>4. NoLostWakeup'
    BY <1>2 DEF remove_function, erase, IInv, TypeOK, NoLostWakeup
  <2> QED BY <2>1, <2>2, <2>3, <2>4 DEF IInv
<1>3. CASE remove_function_wait(c)
  BY <1>3 DEF remove_function_wait, IInv, TypeOK, LoopInv, OwnerInv, NoLostWakeup,
              may_remove
<1>4. CASE notify(c)
  BY <1>4 DEF notify, notify_all, IInv, TypeOK, LoopInv, OwnerInv, NoLostWakeup
<1> QED
  BY <1>1, <1>2, <1>3, <1>4

(* The steps of pause, resume and stop.                                    *)
LEMMA ControlIInv ==
    ASSUME IInv, NEW c \in Client,
           \/ pause(c) \/ pause_wait(c) \/ pause_flag(c)
           \/ resume(c) \/ resume_flag(c)
           \/ stop(c) \/ join(c)
    PROVE  IInv'
<1> USE DEF IInv, TypeOK, LoopInv, OwnerInv, NoLostWakeup, State, may_remove
<1>1. CASE pause(c)
  BY <1>1 DEF pause, paused_nb
<1>2. CASE pause_wait(c)
  BY <1>2 DEF pause_wait
<1>3. CASE pause_flag(c)
  BY <1>3 DEF pause_flag
<1>4. CASE resume(c)
  BY <1>4 DEF resume, resumed
<1>5. CASE resume_flag(c)
  BY <1>5 DEF resume_flag
<1>6. CASE stop(c)
  BY <1>6 DEF stop, Stoppable
<1>7. CASE join(c)
  BY <1>7 DEF join
<1> QED
  BY <1>1, <1>2, <1>3, <1>4, <1>5, <1>6, <1>7

(* The inductive invariant: the loop thread's place agrees with state_,    *)
(* the pass it makes agrees with functions_, and no waiter is forgotten.   *)
THEOREM Inductive == Spec => []IInv
<1>1. IInv /\ [Next]_vars => IInv'
  <2> SUFFICES ASSUME IInv, [Next]_vars PROVE IInv'
    OBVIOUS
  <2>1. CASE UNCHANGED vars
    BY <2>1 DEF vars, IInv, TypeOK, LoopInv, OwnerInv, NoLostWakeup, may_remove
  <2>2. CASE LoopStep
    BY <2>2, LoopStepIInv
  <2>3. ASSUME NEW c \in Client, ClientStep(c) PROVE IInv'
    BY <2>3, RegistrationIInv, ControlIInv DEF ClientStep
  <2> QED BY <2>1, <2>2, <2>3 DEF Next
<1> QED BY InitIInv, <1>1, PTL DEF Spec

(* Every reachable state is well typed.                                    *)
THEOREM TypeCorrect == Spec => []TypeOK
<1>1. IInv => TypeOK
  BY DEF IInv
<1> QED BY <1>1, Inductive, PTL

(* No remove_function sleeps through the event it waits for, however many  *)
(* threads add, remove, pause, resume and stop at the same time.           *)
THEOREM WakeupsAreNotLost == Spec => []NoLostWakeup
<1>1. IInv => NoLostWakeup
  BY DEF IInv
<1> QED BY <1>1, Inductive, PTL

(* In Paused and Stopped no callback runs.                                 *)
THEOREM PauseQuietens == Spec => []PausedIsQuiet
<1>1. IInv => PausedIsQuiet
  BY DEF IInv, LoopInv, PausedIsQuiet
<1> QED BY <1>1, Inductive, PTL

(* The loop thread calls no function that has been removed.                *)
THEOREM NoCallAfterRemove == Spec => []CallsOnlyRegistered
<1>1. IInv => CallsOnlyRegistered
  BY DEF IInv, OwnerInv, CallsOnlyRegistered
<1> QED BY <1>1, Inductive, PTL
=============================================================================
