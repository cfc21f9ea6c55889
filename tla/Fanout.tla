-------------------------------- MODULE Fanout --------------------------------
(***************************************************************************)
(* rapidsmpf::streaming::actor::fanout under both policies.  Bounded: one  *)
(* coroutine hands each message to all outputs before it takes the next.   *)
(* Unbounded: a receiving task fills a cache that sending tasks, one for   *)
(* each output, copy from at their own pace; they meet at a mutex and two  *)
(* condition variables.                                                    *)
(***************************************************************************)
EXTENDS Channel, FiniteSetsExt

CONSTANT Invalid    \* InvalidIdx

ASSUME InvalidAssumption == Invalid \notin 0 .. NMessages

VARIABLES
    bounded,           \* the bounded coroutine: where it is and its message
    chs_out,           \* outputs the bounded coroutine still serves
    sends,             \* where each Channel::send() of the fanout is
    recv,              \* recv_task(): where it is, per_ch_processed_min, its message
    sender,            \* send_task() of each output
    per_ch_processed,  \* per_ch_processed
    recv_msg_ids,      \* recv_msg_ids
    no_more_input,     \* no_more_input
    faults             \* outputs whose send_task() looked up a message that is gone

boundedVars == <<bounded, chs_out>>
unboundedVars == <<recv, sender, per_ch_processed, recv_msg_ids, no_more_input, faults>>
fanoutVars == <<boundedVars, sends, unboundedVars>>

FanoutInit ==
    /\ bounded = [at |-> "receive", message |-> 0]
    /\ chs_out = Outputs
    /\ sends = [o \in Outputs |-> "idle"]
    /\ recv = [at |-> "wait", min |-> Invalid, got |-> <<>>]
    /\ sender = [o \in Outputs |-> [at |-> "check", batch |-> <<>>, available |-> 0]]
    /\ per_ch_processed = [o \in Outputs |-> 0]
    /\ recv_msg_ids = <<>>
    /\ no_more_input = FALSE
    /\ faults = {}

-----------------------------------------------------------------------------
(* The bounded policy.                                                     *)

bounded_receive ==
    /\ bounded.at = "receive"
    /\ \/ /\ receive("in")
          /\ bounded' = [at |-> "filter", message |-> Head(rb["in"].held)]
       \/ /\ ConsumeFails("in")
          /\ bounded' = [at |-> "drain", message |-> 0]
          /\ UNCHANGED <<rb, container>>
    /\ UNCHANGED <<chs_out, sends, leafVars, producer>>

\* chs_out keeps the order in which the outputs are given; the last one gets the message
\* itself and the others copies of it.
Order == SetToSeq(Outputs)
LastOf(os) == Order[Max({i \in DOMAIN Order : Order[i] \in os})]

\* Outputs that are shut down are dropped; without outputs the actor is done.
bounded_filter ==
    LET open == {o \in chs_out : ~is_shutdown(o)}
    IN  /\ bounded.at = "filter"
        /\ chs_out' = open
        /\ IF open = {}
           THEN bounded' = [at |-> "drain", message |-> 0] /\ UNCHANGED sends
           ELSE /\ bounded' = [bounded EXCEPT !.at = "copies"]
                /\ sends' = [o \in Outputs |-> IF o \in open \ {LastOf(open)} THEN "insert"
                                               ELSE "idle"]
        /\ UNCHANGED channelVars

\* A Channel::send() of the fanout to output o; a channel that is shut down is ignored.
send_step(o, m) ==
    \/ /\ sends[o] = "insert"
       /\ send_insert(o, m)
       /\ sends' = [sends EXCEPT ![o] = "produce"]
       /\ UNCHANGED rb
    \/ /\ sends[o] = "produce"
       /\ \/ send_produce(o, m) /\ sends' = [sends EXCEPT ![o] = "sent"]
          \/ ProduceFails(o) /\ sends' = [sends EXCEPT ![o] = "failed"] /\ UNCHANGED rb
       /\ UNCHANGED container

bounded_send(o) ==
    /\ bounded.at \in {"copies", "last"}
    /\ send_step(o, bounded.message)
    /\ UNCHANGED <<boundedVars, leafVars, producer>>

Settled(os) == \A o \in os : sends[o] \in {"sent", "failed"}

bounded_next ==
    LET last == LastOf(chs_out)
    IN  /\ \/ /\ bounded.at = "copies" /\ Settled(chs_out \ {last})
              /\ bounded' = [bounded EXCEPT !.at = "last"]
              /\ sends' = [sends EXCEPT ![last] = "insert"]
           \/ /\ bounded.at = "last" /\ Settled({last})
              /\ bounded' = [bounded EXCEPT !.at = "receive"]
              /\ UNCHANGED sends
        /\ UNCHANGED <<chs_out, channelVars>>

\* The outputs are drained, then ShutdownAtExit shuts everything down.
bounded_exit ==
    /\ \/ /\ bounded.at = "drain"
          /\ bounded' = [bounded EXCEPT !.at = "drained"]
          /\ rb' = Draining(chs_out)
       \/ /\ bounded.at = "drained" /\ drained(chs_out)
          /\ bounded' = [bounded EXCEPT !.at = "ended"]
          /\ rb' = Stopped(Channels)
    /\ UNCHANGED <<chs_out, sends, container, leafVars, producer>>

bounded_fanout ==
    /\ \/ bounded_receive \/ bounded_filter \/ bounded_next \/ bounded_exit
       \/ \E o \in Outputs : bounded_send(o)
    /\ UNCHANGED unboundedVars

-----------------------------------------------------------------------------
(* The unbounded policy: the receiving task.                               *)

Valid == {o \in Outputs : per_ch_processed[o] # Invalid}
Processed == {per_ch_processed[o] : o \in Valid}

\* Mutant: one invalid index ends the task.
Mut_AllInvalid == Valid # Outputs

AllInvalid == Valid = {}

\* The predicate of wait_for_data_request(), evaluated under the mutex.  Where all indices have
\* become invalid it leaves the values of its last evaluation as they are: only a call that
\* finds them invalid at once ends the loop, any other goes on to receive one more message.
wait_for_data_request ==
    /\ recv.at = "wait"
    /\ \/ /\ AllInvalid
          /\ recv' = [recv EXCEPT !.at = IF recv.min = Invalid THEN "drain" ELSE "receive"]
       \/ /\ ~AllInvalid
          /\ recv' = [recv EXCEPT
                 !.at = IF Max(Processed) = Len(recv_msg_ids) THEN "receive" ELSE "asleep",
                 !.min = Min(Processed)]
    /\ UNCHANGED <<channelVars, sender, per_ch_processed, recv_msg_ids, no_more_input, faults>>

recv_message ==
    /\ recv.at = "receive"
    /\ \/ receive("in") /\ recv' = [recv EXCEPT !.at = "store", !.got = rb["in"].held]
       \/ /\ ConsumeFails("in")
          /\ recv' = [recv EXCEPT !.at = "store", !.got = <<>>]
          /\ UNCHANGED <<rb, container>>
    /\ UNCHANGED <<leafVars, producer, sender, per_ch_processed, recv_msg_ids, no_more_input,
                   faults>>

\* Under the mutex: the message goes into the cache, or the input is done.
recv_store ==
    /\ recv.at = "store"
    /\ recv' = [recv EXCEPT !.at = "notify"]
    /\ recv_msg_ids' = recv_msg_ids \o recv.got
    /\ container' = container \cup {<<"cache", m>> : m \in Range(recv.got)}
    /\ no_more_input' = (recv.got = <<>>)
    /\ UNCHANGED <<rb, leafVars, producer, sender, per_ch_processed, faults>>

\* data_ready.notify_all()
WakeSenders ==
    sender' = [o \in Outputs |->
                  IF sender[o].at = "asleep" THEN [sender[o] EXCEPT !.at = "check"] ELSE sender[o]]

recv_notify ==
    /\ recv.at = "notify"
    /\ recv' = [recv EXCEPT !.at = "purge"]
    /\ WakeSenders
    /\ UNCHANGED <<channelVars, per_ch_processed, recv_msg_ids, no_more_input, faults>>

\* Mutant: what the fastest output is through with is released.
Mut_PurgeEnd == Max(Processed \cup {0})

\* What every output was through with when data was requested.
PurgeEnd == recv.min

recv_purge ==
    /\ recv.at = "purge"
    /\ container' = container \ {<<"cache", recv_msg_ids[i]>> : i \in 1 .. PurgeEnd}
    /\ recv' = [at |-> IF no_more_input THEN "drain" ELSE "wait", min |-> Invalid, got |-> <<>>]
    /\ UNCHANGED <<rb, leafVars, producer, sender, per_ch_processed, recv_msg_ids,
                   no_more_input, faults>>

\* The input is drained; at exit SetInputDoneAtExit sends the senders home, and
\* the input is shut down.
recv_exit ==
    /\ \/ /\ recv.at = "drain"
          /\ recv' = [recv EXCEPT !.at = IF Drains("in") THEN "drained" ELSE "leave"]
          /\ rb' = Draining({"in"})
          /\ UNCHANGED <<no_more_input, sender>>
       \/ /\ \/ recv.at = "drained" /\ drained({"in"})
             \/ recv.at = "leave"
          /\ recv' = [recv EXCEPT !.at = "left"]
          /\ no_more_input' = TRUE
          /\ UNCHANGED <<rb, sender>>
       \/ /\ recv.at = "left"
          /\ recv' = [recv EXCEPT !.at = "ended"]
          /\ WakeSenders
          /\ rb' = Stopped({"in"})
          /\ UNCHANGED no_more_input
    /\ UNCHANGED <<container, leafVars, producer, per_ch_processed, recv_msg_ids, faults>>

recv_task ==
    /\ \/ wait_for_data_request \/ recv_message \/ recv_store \/ recv_notify
       \/ recv_purge \/ recv_exit
    /\ UNCHANGED <<boundedVars, sends>>

-----------------------------------------------------------------------------
(* The unbounded policy: the sending task of output o.                     *)

SenderAt(o, place) == [sender EXCEPT ![o].at = place]

\* Under the mutex: sleep, leave, or copy the ids to send.
sender_check(o) ==
    LET available == Len(recv_msg_ids)
        next == per_ch_processed[o]
    IN  /\ sender[o].at = "check"
        /\ \/ /\ ~no_more_input /\ next >= available
              /\ sender' = SenderAt(o, "asleep")
           \/ /\ no_more_input /\ next = available
              /\ sender' = SenderAt(o, "drain")
           \/ /\ next < available
              /\ sender' = [sender EXCEPT ![o] =
                     [at |-> "send", batch |-> SubSeq(recv_msg_ids, next + 1, available),
                      available |-> available]]
        /\ UNCHANGED <<channelVars, sends, recv, per_ch_processed, recv_msg_ids, no_more_input,
                       faults>>

\* The next message of the batch is looked up and copied into the channel's send().
sender_copy(o) ==
    /\ sender[o].at = "send" /\ sender[o].batch # <<>> /\ sends[o] = "idle"
    /\ IF <<"cache", Head(sender[o].batch)>> \in container
       THEN /\ send_insert(o, Head(sender[o].batch))
            /\ sends' = [sends EXCEPT ![o] = "produce"]
            /\ UNCHANGED <<sender, faults>>
       ELSE /\ faults' = faults \cup {o}
            /\ sender' = SenderAt(o, "leave")
            /\ UNCHANGED <<sends, container>>
    /\ UNCHANGED <<rb, leafVars, producer, recv, per_ch_processed, recv_msg_ids, no_more_input>>

sender_send(o) ==
    /\ sender[o].at = "send" /\ sends[o] = "produce"
    /\ \/ /\ send_produce(o, Head(sender[o].batch))
          /\ sender' = [sender EXCEPT ![o].batch = Tail(@)]
       \/ /\ ProduceFails(o)
          /\ sender' = [sender EXCEPT ![o] = [at |-> "leave", batch |-> <<>>, available |-> 0]]
          /\ UNCHANGED rb
    /\ sends' = [sends EXCEPT ![o] = "idle"]
    /\ UNCHANGED <<container, leafVars, producer, recv, per_ch_processed, recv_msg_ids,
                   no_more_input, faults>>

\* Under the mutex again: the batch is done, and perhaps more data is needed.
sender_update(o) ==
    /\ sender[o].at = "send" /\ sender[o].batch = <<>>
    /\ per_ch_processed' = [per_ch_processed EXCEPT ![o] = sender[o].available]
    /\ sender' = SenderAt(o, IF sender[o].available # Len(recv_msg_ids) THEN "check"
                             ELSE IF no_more_input THEN "drain" ELSE "request")
    /\ UNCHANGED <<channelVars, sends, recv, recv_msg_ids, no_more_input, faults>>

\* request_data.notify_one(): only the receiving task waits for it.
WakeReceiver == recv' = IF recv.at = "asleep" THEN [recv EXCEPT !.at = "wait"] ELSE recv

sender_request(o) ==
    /\ sender[o].at = "request"
    /\ WakeReceiver
    /\ sender' = SenderAt(o, "check")
    /\ UNCHANGED <<channelVars, sends, per_ch_processed, recv_msg_ids, no_more_input, faults>>

sender_drain(o) ==
    /\ \/ /\ sender[o].at = "drain"
          /\ sender' = SenderAt(o, "drained")
          /\ rb' = Draining({o})
       \/ /\ sender[o].at = "drained" /\ drained({o})
          /\ sender' = SenderAt(o, "leave")
          /\ UNCHANGED rb
    /\ UNCHANGED <<container, leafVars, producer, sends, recv, per_ch_processed, recv_msg_ids,
                   no_more_input, faults>>

\* Mutant: a sender that gives up does not tell the receiving task.
Mut_LeaveNotify == UNCHANGED recv

LeaveNotify == WakeReceiver

\* set_channel_idx_invalid(), and the channel is shut down.
sender_leave(o) ==
    /\ \/ /\ sender[o].at = "leave"
          /\ per_ch_processed' = [per_ch_processed EXCEPT ![o] = Invalid]
          /\ sender' = SenderAt(o, "left")
          /\ UNCHANGED <<rb, recv>>
       \/ /\ sender[o].at = "left"
          /\ LeaveNotify
          /\ sender' = SenderAt(o, "ended")
          /\ rb' = Stopped({o})
          /\ UNCHANGED per_ch_processed
    /\ UNCHANGED <<container, leafVars, producer, sends, recv_msg_ids, no_more_input, faults>>

send_task(o) ==
    /\ \/ sender_check(o) \/ sender_copy(o) \/ sender_send(o) \/ sender_update(o)
       \/ sender_request(o) \/ sender_drain(o) \/ sender_leave(o)
    /\ UNCHANGED boundedVars

unbounded_fanout == recv_task \/ \E o \in Outputs : send_task(o)

-----------------------------------------------------------------------------
\* get_content_description() and copy() throw std::out_of_range for a message
\* that is gone: the receiving task releases none that an output still needs.
CopiesLiveMessages == faults = {}

\* FanoutPolicy::BOUNDED: "the next message is not processed until all output
\* channels have completed sending the current one", so consumers that stay are
\* at most a message in the buffer and a message being sent apart.
BoundedInStep ==
    \A o, p \in Outputs :
        consumer[o] = "pulling" /\ consumer[p] = "pulling"
            => Len(received[o]) <= Len(received[p]) + 2
=============================================================================
