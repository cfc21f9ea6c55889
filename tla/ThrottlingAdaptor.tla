--------------------------- MODULE ThrottlingAdaptor ---------------------------
(***************************************************************************)
(* rapidsmpf::streaming::ThrottlingAdaptor: tasks that acquire a ticket,   *)
(* send one message with it and release the ticket afterwards.  A send     *)
(* that fails shuts the semaphore down so that the tasks that wait for a   *)
(* ticket do not wait for ever.                                            *)
(***************************************************************************)
EXTENDS Channel

CONSTANTS
    Throttled,     \* the tasks
    max_tickets,   \* max_tickets
    throttled_ch   \* ch_

ASSUME ThrottleAssumption ==
    IsFiniteSet(Throttled) /\ max_tickets \in Nat \ {0} /\ throttled_ch \in Outputs

VARIABLES
    semaphore,   \* semaphore_: tickets left, and if it is shut down
    throttled    \* where each task is

throttleVars == <<semaphore, throttled>>

ThrottleInit ==
    /\ semaphore = [tickets |-> max_tickets, open |-> TRUE]
    /\ throttled = [t \in Throttled |-> "acquire"]

TaskAt(t, place) == throttled' = [throttled EXCEPT ![t] = place]

\* acquire() throws when the semaphore was shut down.
acquire_ticket(t) ==
    /\ throttled[t] = "acquire"
    /\ \/ /\ semaphore.open /\ semaphore.tickets > 0
          /\ semaphore' = [semaphore EXCEPT !.tickets = @ - 1]
          /\ TaskAt(t, "insert")
       \/ /\ ~semaphore.open
          /\ TaskAt(t, "ended")
          /\ UNCHANGED semaphore
    /\ UNCHANGED channelVars

OnFailure == semaphore' = [semaphore EXCEPT !.open = FALSE]

\* Ticket::send(), then the receipt.
ticket(t) ==
    /\ \/ /\ throttled[t] = "insert"
          /\ send_insert(throttled_ch, t)
          /\ TaskAt(t, "produce")
          /\ UNCHANGED <<rb, semaphore>>
       \/ /\ throttled[t] = "produce"
          /\ \/ /\ send_produce(throttled_ch, t)
                /\ TaskAt(t, "receipt")
                /\ UNCHANGED semaphore
             \/ /\ ProduceFails(throttled_ch)
                /\ OnFailure
                /\ TaskAt(t, "ended")
                /\ UNCHANGED rb
          /\ UNCHANGED container
       \/ /\ throttled[t] = "receipt"
          /\ semaphore' = [semaphore EXCEPT !.tickets = @ + 1]
          /\ TaskAt(t, "ended")
          /\ UNCHANGED <<rb, container>>
    /\ UNCHANGED <<leafVars, producer>>

throttled_task(t) == acquire_ticket(t) \/ ticket(t)

\* The actor drains the channel when all its tasks have ended.
throttle_end ==
    /\ \A t \in Throttled : throttled[t] = "ended"
    /\ \/ /\ Drains(throttled_ch)
          /\ rb' = Draining({throttled_ch})
       \/ /\ rb[throttled_ch].state = "draining" /\ drained({throttled_ch})
          /\ rb' = Stopped({throttled_ch})
    /\ UNCHANGED <<container, leafVars, producer, throttleVars>>
=============================================================================
