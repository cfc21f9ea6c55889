---------------------------- MODULE CollectiveActor ----------------------------
(***************************************************************************)
(* The streaming collectives: an actor on a coroutine executor that feeds  *)
(* a channel into an AllGather or a Shuffler, awaits the event that the    *)
(* collective's finished callback sets on the progress thread, and sends   *)
(* on what it extracts; and the thread that runs the network and then      *)
(* shuts its Context down.                                                 *)
(*                                                                         *)
(* The collective is its promise, which its own module establishes: when   *)
(* all ranks have finished inserting, the progress thread makes the data   *)
(* extractable, runs the callback and lets go of the object.  The peers    *)
(* insert no data here.                                                    *)
(***************************************************************************)
EXTENDS Channel

CONSTANT ch_out       \* the channel behind the actor

ASSUME ChOutAssumption == ch_out \in Outputs

VARIABLES
    kind,             \* "allgather" or "shuffler"
    actor,            \* where the actor is, and how many messages it has sent
    inserted,         \* what it has inserted
    finished,         \* who has finished inserting: "local", "peers"
    function,         \* the collective's function in the progress thread
    event,            \* event_: "unset", "set" or "destroyed"
    context           \* of the Context: "running", "unhooked", "stopped" or "cleared"

collectiveVars == <<kind, actor, inserted, finished, function, event, context>>

CollectiveInit ==
    /\ kind \in {"allgather", "shuffler"}
    /\ actor = [at |-> "schedule", sent |-> 0]
    /\ inserted = <<>>
    /\ finished = {}
    /\ function = "registered"
    /\ event = "unset"
    /\ context = "running"

ActorAt(place) == actor' = [actor EXCEPT !.at = place]

\* One message for each gathered chunk; one for each local partition, of which
\* the instance has as many.
Batch == 1 .. (IF kind = "allgather" THEN Len(inserted) ELSE NMessages)

-----------------------------------------------------------------------------
(* The actor.                                                              *)

schedule ==
    /\ actor.at = "schedule" /\ ActorAt("receive")
    /\ UNCHANGED <<channelVars, inserted, finished, event>>

receive_and_insert ==
    /\ actor.at = "receive"
    /\ \/ /\ receive("in")
          /\ inserted' = Append(inserted, Head(rb["in"].held))
          /\ UNCHANGED <<actor, finished>>
       \/ /\ ConsumeFails("in")
          /\ finished' = finished \cup {"local"}
          /\ ActorAt("finished")
          /\ UNCHANGED <<rb, container, inserted>>
    /\ UNCHANGED <<leafVars, producer, event>>

\* co_await event_: an event that is set does not suspend.
await_event ==
    /\ actor.at = "finished"
    /\ ActorAt(IF event = "set" THEN "extract" ELSE "suspended")
    /\ UNCHANGED <<channelVars, inserted, finished, event>>

\* wait_and_extract() blocks the executor's thread until the data is extractable.
actor_extract ==
    /\ actor.at = "extract" /\ function # "registered"
    /\ ActorAt("next")
    /\ UNCHANGED <<channelVars, inserted, finished, event>>

\* The result of send() is ignored.
actor_send ==
    LET m == actor.sent + 1
    IN  /\ \/ /\ actor.at = "next" /\ m \in Batch
              /\ send_insert(ch_out, m)
              /\ ActorAt("produce")
              /\ UNCHANGED rb
           \/ /\ actor.at = "produce"
              /\ send_produce(ch_out, m) \/ (ProduceFails(ch_out) /\ UNCHANGED rb)
              /\ actor' = [at |-> "next", sent |-> m]
              /\ UNCHANGED container
        /\ UNCHANGED <<leafVars, producer, inserted, finished, event>>

actor_drain ==
    /\ \/ /\ actor.at = "next" /\ actor.sent + 1 \notin Batch
          /\ rb' = Draining({ch_out})
          /\ ActorAt(IF Drains(ch_out) THEN "drain" ELSE "destroy")
       \/ /\ actor.at = "drain" /\ drained({ch_out})
          /\ rb' = Stopped({ch_out})
          /\ ActorAt("destroy")
    /\ UNCHANGED <<container, leafVars, producer, inserted, finished, event>>

\* The members go in reverse order: the collective, which waits for its function in
\* the progress thread, before the event.  ShutdownAtExit comes last.
destroy_collective ==
    /\ actor.at = "destroy" /\ function = "done"
    /\ event' = "destroyed"
    /\ rb' = Stopped({"in", ch_out})
    /\ ActorAt("ended")
    /\ UNCHANGED <<container, leafVars, producer, inserted, finished>>

collective_actor ==
    /\ \/ schedule \/ receive_and_insert \/ await_event \/ actor_extract
       \/ actor_send \/ actor_drain \/ destroy_collective
    /\ UNCHANGED <<kind, function, context>>

-----------------------------------------------------------------------------
(* The progress thread, the other ranks, and the thread that owns all.     *)

\* event_.set(): the waiter is handed to the executor, which runs it later.
finished_callback ==
    /\ function = "extractable"
    /\ function' = "called"
    /\ event' = "set"
    /\ IF actor.at = "suspended" THEN ActorAt("extract") ELSE UNCHANGED actor
    /\ UNCHANGED finished

progress_function ==
    /\ \/ /\ function = "registered" /\ finished = {"local", "peers"}
          /\ function' = "extractable"
          /\ UNCHANGED <<actor, finished, event>>
       \/ finished_callback
       \/ /\ function = "called" /\ function' = "done"
          /\ UNCHANGED <<actor, finished, event>>
    /\ UNCHANGED <<channelVars, kind, inserted, context>>

peers_finish ==
    /\ "peers" \notin finished
    /\ finished' = finished \cup {"peers"}
    /\ UNCHANGED <<channelVars, kind, actor, inserted, function, event, context>>

\* sync_wait() of all actors.
run_actor_network ==
    /\ producer.at = "ended" /\ actor.at = "ended"
    /\ consumer[ch_out] # "pulling"

\* Once, and by the thread that made it.
executor_shutdown == context = "unhooked" /\ context' = "stopped" /\ UNCHANGED container

\* The spill function is removed, the executor runs dry and stops, and the messages
\* that nobody received are dropped.
shutdown_context ==
    /\ run_actor_network
    /\ \/ context = "running" /\ context' = "unhooked" /\ UNCHANGED container
       \/ executor_shutdown
       \/ context = "stopped" /\ context' = "cleared" /\ container' = {}
    /\ UNCHANGED <<rb, leafVars, producer, kind, actor, inserted, finished, function, event>>

CollectiveNext == collective_actor \/ progress_function \/ peers_finish \/ shutdown_context

-----------------------------------------------------------------------------
\* The collective outlives every step of the progress thread in it, no actor is
\* suspended on an event that has been set, what is extracted is everything that was
\* inserted, and the executor stops when nothing is left to run on it.
CollectiveIsSafe ==
    /\ event = "destroyed" => function = "done"
    /\ actor.at = "suspended" => event = "unset"
    /\ actor.at \in {"next", "produce", "drain", "destroy", "ended"} =>
           Len(inserted) = NMessages
    /\ context \in {"stopped", "cleared"} => function = "done" /\ event = "destroyed"
    /\ context = "cleared" => container = {}
=============================================================================
