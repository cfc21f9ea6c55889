----------------------------- MODULE CuptiMonitor -----------------------------
(***************************************************************************)
(* rapidsmpf::CuptiMonitor: memory samples taken by an owner that starts   *)
(* and stops the monitor, by CUPTI callbacks in the threads that call      *)
(* CUDA, and by a sampling thread.  The mutex covers each access to the    *)
(* samples and the counters, and nothing that spans two of them, so each   *)
(* locked section is one step.                                             *)
(***************************************************************************)
EXTENDS Integers, FiniteSets

CONSTANTS
    CudaThreads,      \* threads that call CUDA or capture_memory_sample()
    MaxSamples,       \* bound: from here on no sample or callback begins
    MaxStarts         \* bound: calls of start_monitoring()

VARIABLES
    periodic,             \* enable_periodic_sampling_
    monitoring_active,    \* monitoring_active_
    subscribed,           \* a CUPTI subscription points to the monitor
    half_subscribed,      \* subscribe() failed after cuptiSubscribe()
    memory_samples,       \* how many memory_samples_ there are
    callback_counters,    \* the sum of callback_counters_
    owner,                \* where the owner is, and how often it may still start
    sampling_thread,      \* where the thread is; "none": not joinable
    cuda                  \* where each thread is in callback()

monitorState == <<periodic, monitoring_active, subscribed, half_subscribed>>
sampleVars == <<memory_samples, callback_counters>>
monitorVars == <<monitorState, sampleVars, owner, sampling_thread, cuda>>

MonitorInit ==
    /\ periodic \in BOOLEAN
    /\ monitoring_active = FALSE /\ subscribed = FALSE /\ half_subscribed = FALSE
    /\ memory_samples = 0 /\ callback_counters = 0
    /\ owner = [at |-> "idle", starts |-> MaxStarts]
    /\ sampling_thread = "none"
    /\ cuda = [t \in CudaThreads |-> "outside"]

\* cudaMemGetInfo() may fail, and then there is no sample.
capture_memory_usage_impl == memory_samples' \in {memory_samples, memory_samples + 1}

OwnerAt(place) == owner' = [owner EXCEPT !.at = place]

-----------------------------------------------------------------------------
(* The owner.                                                              *)

\* CUPTI has one subscriber at a time.  A callback that cannot be enabled leaves the
\* subscription behind.
subscribe ==
    /\ owner.at = "idle" /\ owner.starts > 0 /\ ~monitoring_active
    /\ \/ /\ ~subscribed
          /\ subscribed' = TRUE
          /\ owner' = [at |-> "activate", starts |-> owner.starts - 1]
          /\ UNCHANGED half_subscribed
       \/ /\ ~subscribed
          /\ subscribed' = TRUE /\ half_subscribed' = TRUE
          /\ owner' = [owner EXCEPT !.starts = @ - 1]
       \/ /\ owner' = [owner EXCEPT !.starts = @ - 1]
          /\ UNCHANGED <<subscribed, half_subscribed>>
    /\ UNCHANGED <<periodic, monitoring_active, sampleVars, sampling_thread, cuda>>

activate ==
    /\ owner.at = "activate"
    /\ monitoring_active' = TRUE
    /\ OwnerAt("first")
    /\ UNCHANGED <<periodic, subscribed, half_subscribed, sampleVars, sampling_thread, cuda>>

first_sample ==
    /\ owner.at = "first"
    /\ capture_memory_usage_impl
    /\ sampling_thread' = IF periodic THEN "check" ELSE sampling_thread
    /\ OwnerAt("idle")
    /\ UNCHANGED <<monitorState, callback_counters, cuda>>

start_monitoring == subscribe \/ activate \/ first_sample

\* stop_monitoring() of an active monitor, by a caller or by the destructor.
deactivate ==
    /\ owner.at = "idle" /\ monitoring_active
    /\ monitoring_active' = FALSE
    /\ OwnerAt("join")
    /\ UNCHANGED <<periodic, subscribed, half_subscribed, sampleVars, sampling_thread, cuda>>

join_sampler ==
    /\ owner.at = "join" /\ sampling_thread \in {"none", "exited"}
    /\ sampling_thread' = "none"
    /\ OwnerAt("final")
    /\ UNCHANGED <<monitorState, sampleVars, cuda>>

final_sample ==
    /\ owner.at = "final"
    /\ capture_memory_usage_impl
    /\ OwnerAt("unsubscribe")
    /\ UNCHANGED <<monitorState, callback_counters, sampling_thread, cuda>>

unsubscribe ==
    /\ owner.at = "unsubscribe"
    /\ subscribed' = FALSE
    /\ OwnerAt("idle")
    /\ UNCHANGED <<periodic, monitoring_active, half_subscribed, sampleVars, sampling_thread, cuda>>

stop_monitoring == deactivate \/ join_sampler \/ final_sample \/ unsubscribe

\* A monitor that is active is stopped first.
destroy_monitor ==
    /\ owner.at = "idle" /\ ~monitoring_active
    /\ OwnerAt("destroyed")
    /\ UNCHANGED <<monitorState, sampleVars, sampling_thread, cuda>>

clear_samples ==
    /\ owner.at = "idle"
    /\ memory_samples' = 0
    /\ UNCHANGED <<monitorState, callback_counters, owner, sampling_thread, cuda>>

clear_callback_counters ==
    /\ owner.at = "idle"
    /\ callback_counters' = 0
    /\ UNCHANGED <<monitorState, memory_samples, owner, sampling_thread, cuda>>

-----------------------------------------------------------------------------
(* The sampling thread and the threads in CUDA.  Both look twice if the    *)
(* monitor is active: around the capture and in capture_memory_sample().   *)

periodic_memory_sampling ==
    /\ \/ /\ sampling_thread = "check"
          /\ \/ ~monitoring_active /\ sampling_thread' = "exited"
             \/ monitoring_active /\ memory_samples < MaxSamples /\ sampling_thread' = "capture"
          /\ UNCHANGED memory_samples
       \/ /\ sampling_thread = "capture"
          /\ sampling_thread' = IF monitoring_active THEN "store" ELSE "check"
          /\ UNCHANGED memory_samples
       \/ /\ sampling_thread = "store"
          /\ capture_memory_usage_impl
          /\ sampling_thread' = "check"
    /\ UNCHANGED <<monitorState, callback_counters, owner, cuda>>

CudaAt(t, place) == cuda' = [cuda EXCEPT ![t] = place]

\* CUPTI calls back on the way out of a monitored function, or a user captures a sample.
enter_monitor(t) ==
    /\ cuda[t] = "outside" /\ memory_samples < MaxSamples
    /\ \/ subscribed /\ callback_counters < MaxSamples /\ CudaAt(t, "callback")
       \/ owner.at # "destroyed" /\ CudaAt(t, "capture")
    /\ UNCHANGED sampleVars

callback(t) ==
    \/ /\ cuda[t] = "callback"
       /\ CudaAt(t, IF monitoring_active THEN "count" ELSE "outside")
       /\ UNCHANGED sampleVars
    \/ /\ cuda[t] = "count"
       /\ callback_counters' = callback_counters + 1
       /\ CudaAt(t, "capture")
       /\ UNCHANGED memory_samples

capture_memory_sample(t) ==
    \/ /\ cuda[t] = "capture"
       /\ CudaAt(t, IF monitoring_active THEN "store" ELSE "outside")
       /\ UNCHANGED sampleVars
    \/ /\ cuda[t] = "store"
       /\ capture_memory_usage_impl
       /\ CudaAt(t, "outside")
       /\ UNCHANGED callback_counters

MonitorNext ==
    \/ start_monitoring \/ stop_monitoring \/ destroy_monitor
    \/ clear_samples \/ clear_callback_counters
    \/ periodic_memory_sampling
    \/ /\ \E t \in CudaThreads : enter_monitor(t) \/ callback(t) \/ capture_memory_sample(t)
       /\ UNCHANGED <<monitorState, owner, sampling_thread>>

-----------------------------------------------------------------------------
\* Whenever the owner is back from a call, a monitor that is not active has no thread
\* that a second start or the destructor would find joinable, and none of its own
\* subscriptions is left; CUPTI calls no destroyed monitor, unless enabling a callback
\* had failed; and an active monitor is subscribed.
MonitorIsSound ==
    /\ owner.at \in {"idle", "destroyed"} /\ ~monitoring_active =>
           sampling_thread = "none" /\ (subscribed => half_subscribed)
    /\ monitoring_active => subscribed /\ ~half_subscribed
=============================================================================
