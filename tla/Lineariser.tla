------------------------------ MODULE Lineariser ------------------------------
(***************************************************************************)
(* rapidsmpf::streaming::Lineariser: producers that work in parallel, each *)
(* with a BoundedQueue, and drain(), which takes one message from each     *)
(* queue in turn so that the output is in sequence.  Message j is          *)
(* produced by producer 1 + (j - 1) % NMakers.                             *)
(***************************************************************************)
EXTENDS Channel

CONSTANTS
    NMakers,       \* num_producers
    buffer_size,   \* buffer_size of each queue
    output         \* ch_out_

ASSUME LineariserAssumption ==
    NMakers \in Nat \ {0} /\ buffer_size \in Nat \ {0} /\ output \in Outputs

Makers == 1 .. NMakers

VARIABLES
    queue,      \* queues: q_ and its running state, semaphore_ and if it is shut down
    maker,      \* where each producer is, and the message it is at
    draining    \* drain(): where it is, queues_, the position and the message in hand

lineariserVars == <<queue, maker, draining>>

LineariserInit ==
    /\ queue = [i \in Makers |->
               [held |-> <<>>, state |-> "running", permits |-> buffer_size, open |-> TRUE]]
    /\ maker = [i \in Makers |-> [at |-> "acquire", message |-> i]]
    /\ draining = [at |-> "receive", queues |-> [i \in Makers |-> i], pos |-> 1, got |-> <<>>]

ShutDown(bounded_queue) == [bounded_queue EXCEPT !.state = "stopped", !.open = FALSE]
MakerAt(i, place) == [maker EXCEPT ![i].at = place]

-----------------------------------------------------------------------------
(* A producer: acquire a ticket, send with it, and drain the queue.        *)

acquire(i) ==
    /\ maker[i].at = "acquire"
    /\ \/ /\ maker[i].message > NMessages
          /\ maker' = MakerAt(i, IF queue[i].state = "running" THEN "drain" ELSE "leave")
          /\ queue' = [queue EXCEPT ![i].state = IF @ = "running" THEN "draining" ELSE @]
       \/ /\ maker[i].message <= NMessages /\ queue[i].open /\ queue[i].permits > 0
          /\ maker' = MakerAt(i, "send")
          /\ queue' = [queue EXCEPT ![i].permits = @ - 1]
       \/ /\ maker[i].message <= NMessages /\ ~queue[i].open
          /\ maker' = MakerAt(i, "leave")
          /\ UNCHANGED queue

ticket_send(i) ==
    /\ maker[i].at = "send"
    /\ IF queue[i].state = "running"
       THEN /\ queue' = [queue EXCEPT ![i].held = Append(@, maker[i].message)]
            /\ maker' = [maker EXCEPT ![i] = [at |-> "acquire", message |-> @.message + NMakers]]
       ELSE maker' = MakerAt(i, "leave") /\ UNCHANGED queue

\* drain() of the queue has ended, or raii_shutdown() ends it.
maker_leave(i) ==
    /\ \/ maker[i].at = "drain" /\ (queue[i].state = "stopped" \/ queue[i].held = <<>>)
       \/ maker[i].at = "leave"
    /\ maker' = MakerAt(i, "ended")
    /\ queue' = [queue EXCEPT ![i] = ShutDown(@)]

maker_step(i) ==
    /\ acquire(i) \/ ticket_send(i) \/ maker_leave(i)
    /\ UNCHANGED <<draining, channelVars>>

-----------------------------------------------------------------------------
(* Lineariser::drain().                                                    *)

Current == draining.queues[draining.pos]

\* A message from the queue whose turn it is; a queue that has ended is left out.
take_turn ==
    /\ draining.at = "receive"
    /\ IF draining.queues = <<>>
       THEN draining' = [draining EXCEPT !.at = "finish"] /\ UNCHANGED queue
       ELSE IF draining.pos > Len(draining.queues)
       THEN draining' = [draining EXCEPT !.pos = 1] /\ UNCHANGED queue
       ELSE \/ /\ queue[Current].state # "stopped" /\ queue[Current].held # <<>>
               /\ draining' = [draining EXCEPT !.at = "insert", !.got = <<Head(queue[Current].held)>>]
               /\ queue' = [queue EXCEPT ![Current].held = Tail(@)]
            \/ /\ queue[Current].state = "stopped"
               /\ draining' = [draining EXCEPT !.queues = RemoveAt(@, draining.pos)]
               /\ UNCHANGED queue
    /\ UNCHANGED channelVars

\* ch_out_->send(), and the receipt; when the output is shut down, so are the queues.
forward ==
    /\ \/ /\ draining.at = "insert"
          /\ send_insert(output, Head(draining.got))
          /\ draining' = [draining EXCEPT !.at = "produce"]
          /\ UNCHANGED <<rb, queue>>
       \/ /\ draining.at = "produce"
          /\ \/ send_produce(output, Head(draining.got))
                /\ draining' = [draining EXCEPT !.at = "receipt"]
             \/ /\ ProduceFails(output)
                /\ draining' = [draining EXCEPT !.at = "finish"]
                /\ UNCHANGED rb
          /\ UNCHANGED <<container, queue>>
       \/ /\ draining.at = "receipt"
          /\ queue' = [queue EXCEPT ![Current].permits = @ + 1]
          /\ draining' = [draining EXCEPT !.at = "receive", !.pos = @ + 1, !.got = <<>>]
          /\ UNCHANGED <<rb, container>>
    /\ UNCHANGED <<leafVars, producer>>

finish ==
    /\ \/ /\ draining.at = "finish"
          /\ queue' = [i \in Makers |-> IF i \in Range(draining.queues) THEN ShutDown(queue[i]) ELSE queue[i]]
          /\ rb' = Draining({output})
          /\ draining' = [draining EXCEPT !.at = "drained"]
       \/ /\ draining.at = "drained" /\ drained({output})
          /\ rb' = Stopped({output})
          /\ draining' = [draining EXCEPT !.at = "ended"]
          /\ UNCHANGED queue
    /\ UNCHANGED <<container, leafVars, producer>>

lineariser_drain == (take_turn \/ forward \/ finish) /\ UNCHANGED maker
=============================================================================
