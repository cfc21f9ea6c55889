------------------------------- MODULE Channel -------------------------------
(***************************************************************************)
(* rapidsmpf::streaming::Channel: a ring buffer for one message id over    *)
(* the context's SpillableMessages, and the actors at its ends,            *)
(* push_to_channel() and pull_from_channel().  A consumer may also shut    *)
(* its channel down before it has seen everything.                         *)
(***************************************************************************)
EXTENDS Integers, Sequences, FiniteSets, SequencesExt

CONSTANTS
    Outputs,     \* channels that a consumer pulls from
    NMessages    \* bound: messages that enter the network

ASSUME NMessagesAssumption == NMessages \in Nat \ {0}
ASSUME OutputsAssumption == IsFiniteSet(Outputs) /\ "in" \notin Outputs /\ "cache" \notin Outputs

Channels == Outputs \cup {"in"}

VARIABLES
    rb,          \* rb_ of each channel: what it holds and its running state
    container,   \* keys of SpillableMessages::items_: a channel or a cache, and a message
    received,    \* what the consumer of an output has got
    consumer,    \* "pulling", "closed" (shut the channel down) or "ended"
    producer     \* where push_to_channel() is, the message it is at, and how many it is given

leafVars == <<received, consumer>>
channelVars == <<rb, container, leafVars, producer>>

ChannelInit ==
    /\ rb = [c \in Channels |-> [held |-> <<>>, state |-> "running"]]
    /\ container = {}
    /\ received = [o \in Outputs |-> <<>>]
    /\ consumer = [o \in Outputs |-> "pulling"]
    /\ producer \in {[at |-> "insert", message |-> 1, of |-> n] : n \in 1 .. NMessages}

-----------------------------------------------------------------------------
(* coro::ring_buffer with one element.  A buffer that drains takes no more *)
(* and stops when it is empty; one that is stopped gives nothing away.     *)

CanProduce(c) == rb[c].state = "running" /\ rb[c].held = <<>>
ProduceFails(c) == rb[c].state # "running"
CanConsume(c) == rb[c].state # "stopped" /\ rb[c].held # <<>>
ConsumeFails(c) == rb[c].state = "stopped"
CanStop(c) == rb[c].state # "draining" \/ rb[c].held = <<>>

Produced(c, m) == [rb EXCEPT ![c].held = <<m>>]
Consumed(c) == [rb EXCEPT ![c].held = <<>>]
Stopped(cs) == [c \in Channels |-> IF c \in cs THEN [rb[c] EXCEPT !.state = "stopped"] ELSE rb[c]]
Draining(cs) ==
    [c \in Channels |-> IF c \in cs /\ rb[c].state = "running"
                        THEN [rb[c] EXCEPT !.state = "draining"] ELSE rb[c]]

is_shutdown(c) == rb[c].state = "stopped"

-----------------------------------------------------------------------------
(* Channel::send() in two steps, and Channel::receive().                   *)

send_insert(c, m) == container' = container \cup {<<c, m>>}

\* The message stays in the container when the buffer was shut down.
send_produce(c, m) ==
    /\ CanProduce(c)
    /\ rb' = Produced(c, m)

receive(c) ==
    /\ CanConsume(c)
    /\ rb' = Consumed(c)
    /\ container' = container \ {<<c, Head(rb[c].held)>>}

\* shutdown_drain() returns at once when the buffer is not running; else it waits.
Drains(c) == rb[c].state = "running"
drained(cs) == \A c \in cs : CanStop(c)

-----------------------------------------------------------------------------
(* The leaf actors.                                                        *)

push_to_channel ==
    /\ \/ /\ producer.at = "insert"
          /\ IF producer.message <= producer.of
             THEN /\ send_insert("in", producer.message)
                  /\ producer' = [producer EXCEPT !.at = "send"]
                  /\ UNCHANGED rb
             ELSE /\ producer' = [producer EXCEPT !.at = IF Drains("in") THEN "drain" ELSE "leave"]
                  /\ rb' = Draining({"in"})
                  /\ UNCHANGED container
       \/ /\ producer.at = "send"
          /\ send_produce("in", producer.message) \/ (ProduceFails("in") /\ UNCHANGED rb)
          /\ producer' = [producer EXCEPT !.at = "insert", !.message = @ + 1]
          /\ UNCHANGED container
       \/ /\ \/ producer.at = "drain" /\ drained({"in"})
             \/ producer.at = "leave"
          /\ producer' = [producer EXCEPT !.at = "ended"]
          /\ rb' = Stopped({"in"})
          /\ UNCHANGED container
    /\ UNCHANGED leafVars

pull_from_channel(o) ==
    /\ consumer[o] = "pulling"
    /\ \/ /\ receive(o)
          /\ received' = [received EXCEPT ![o] = Append(@, Head(rb[o].held))]
          /\ UNCHANGED consumer
       \/ /\ ConsumeFails(o)
          /\ consumer' = [consumer EXCEPT ![o] = "ended"]
          /\ UNCHANGED <<rb, container, received>>
    /\ UNCHANGED producer

\* ShutdownAtExit of a consumer that leaves early.
close_channel(o) ==
    /\ consumer[o] = "pulling"
    /\ consumer' = [consumer EXCEPT ![o] = "closed"]
    /\ rb' = Stopped({o})
    /\ UNCHANGED <<container, received, producer>>

-----------------------------------------------------------------------------
\* What a producer of a stream sends is what the consumers at its end get: in
\* order, and everything unless the consumer leaves early, whatever the other
\* consumers do.
InOrderAndComplete ==
    \A o \in Outputs :
        /\ received[o] = [i \in 1 .. Len(received[o]) |-> i]
        /\ consumer[o] = "ended" => Len(received[o]) = producer.of
=============================================================================
