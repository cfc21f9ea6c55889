----------------------------- MODULE MCStreaming -----------------------------
(* The actors share channels and nothing else: an instance runs one network, or  *)
(* one of the services below them, which share no state with the networks.       *)
EXTENDS Fanout, Lineariser, ThrottlingAdaptor, Buffer, RmmResourceAdaptor, Statistics, Config,
        CollectiveActor, CuptiMonitor, WireFormats

VARIABLE network   \* the network or the service this instance runs

\* The option strings of the instance, some beyond the limits.
McInsertedKeys ==
    {<<blank>>, <<blank, lower>>, <<upper>>, <<lower, upper>>, <<lower, lower, lower>>,
     <<blank, upper, blank, lower>>}
McTexts == {<<>>, <<lower>>, <<upper, blank>>, <<blank, blank, blank>>}
McReadKeys == {<<lower>>, <<lower, lower>>}
McStatNames == {<<lower>>, <<lower, upper>>}
McValues == {-1, 2}
McBytes == {<<>>, <<lower>>, <<blank, upper>>}

streamingVars == <<channelVars, fanoutVars, lineariserVars, throttleVars, collectiveVars>>
serviceVars == <<bufferVars, rmmVars, statisticsVars, options, monitorVars, mergeVars, wireVars>>
networkVars == <<network, streamingVars, serviceVars>>

Init ==
    /\ network \in {"bounded", "unbounded", "linearise", "throttle", "collective",
                    "buffers", "allocator", "statistics", "options",
                    "monitor", "merge", "wire"}
    /\ ChannelInit /\ FanoutInit /\ LineariserInit /\ ThrottleInit /\ CollectiveInit
    /\ BufferInit /\ RmmInit /\ StatisticsInit /\ ConfigInit /\ MonitorInit /\ MergeInit
    /\ WireInit
    /\ producer.of = IF network = "unbounded" THEN NMessages - 1 ELSE NMessages
    /\ network # "buffers" => \A b \in Buffers : stream[b] = CHOOSE s \in Streams : TRUE
    /\ network # "statistics" => enabled
    /\ network # "monitor" => periodic
    /\ network # "merge" => \A r \in Sites : collected[r].enabled
    /\ network # "collective" => kind = "allgather"

Consumers ==
    CASE network \in {"bounded", "unbounded"} -> Outputs
      [] network = "linearise" -> {output}
      [] network = "throttle" -> {throttled_ch}
      [] network = "collective" -> {ch_out}
      [] OTHER -> {}

Leave ==
    /\ \E o \in Consumers : close_channel(o)
    /\ UNCHANGED <<fanoutVars, lineariserVars, throttleVars, collectiveVars>>

Leaves ==
    /\ \/ \E o \in Consumers : pull_from_channel(o)
       \/ network \in {"bounded", "unbounded", "collective"} /\ push_to_channel
    /\ UNCHANGED <<fanoutVars, lineariserVars, throttleVars, collectiveVars>>

Actors ==
    \/ /\ \/ network = "bounded" /\ bounded_fanout
          \/ network = "unbounded" /\ unbounded_fanout
       /\ UNCHANGED <<lineariserVars, throttleVars, collectiveVars>>
    \/ /\ network = "linearise"
       /\ lineariser_drain \/ \E i \in Makers : maker_step(i)
       /\ UNCHANGED <<fanoutVars, throttleVars, collectiveVars>>
    \/ /\ network = "throttle"
       /\ throttle_end \/ \E t \in Throttled : throttled_task(t)
       /\ UNCHANGED <<fanoutVars, lineariserVars, collectiveVars>>
    \/ /\ network = "collective"
       /\ CollectiveNext
       /\ UNCHANGED <<fanoutVars, lineariserVars, throttleVars>>

\* What the executor goes on with as long as it can; nobody has to leave early.
Progress == UNCHANGED <<network, serviceVars>> /\ (Leaves \/ Actors)

Services ==
    \/ /\ network = "buffers" /\ BufferNext
       /\ UNCHANGED <<rmmVars, statisticsVars, options, monitorVars, mergeVars, wireVars>>
    \/ /\ network = "allocator" /\ RmmNext
       /\ UNCHANGED <<bufferVars, statisticsVars, options, monitorVars, mergeVars, wireVars>>
    \/ /\ network = "statistics" /\ StatisticsNext
       /\ UNCHANGED <<bufferVars, rmmVars, options, monitorVars, mergeVars, wireVars>>
    \/ /\ network = "options" /\ ConfigNext
       /\ UNCHANGED <<bufferVars, rmmVars, statisticsVars, monitorVars, mergeVars, wireVars>>
    \/ /\ network = "monitor" /\ MonitorNext
       /\ UNCHANGED <<bufferVars, rmmVars, statisticsVars, options, mergeVars, wireVars>>
    \/ /\ network = "merge" /\ MergeNext
       /\ UNCHANGED <<bufferVars, rmmVars, statisticsVars, options, monitorVars, wireVars>>
    \/ /\ network = "wire" /\ WireNext
       /\ UNCHANGED <<bufferVars, rmmVars, statisticsVars, options, monitorVars, mergeVars>>

Next ==
    \/ Progress
    \/ UNCHANGED <<network, serviceVars>> /\ Leave
    \/ UNCHANGED <<network, streamingVars>> /\ Services

Spec == Init /\ [][Next]_networkVars /\ WF_networkVars(Progress)

-----------------------------------------------------------------------------
\* InOrderAndComplete for the networks that keep an order; throttled tasks send in
\* any order, each message arrives at most once, and all do unless the consumer
\* leaves early.
StreamsAreFaithful ==
    IF network = "throttle"
    THEN /\ IsInjective(received[throttled_ch])
         /\ consumer[throttled_ch] = "ended" => Len(received[throttled_ch]) = Cardinality(Throttled)
    ELSE InOrderAndComplete /\ (network = "collective" => CollectiveIsSafe)

\* BoundedInStep, for the policy that promises it.
BackpressureHolds == network = "bounded" => BoundedInStep

\* Each fanout keeps the promise of its policy: the unbounded one copies no message
\* that it has purged, and the bounded one lets no output run ahead.
FanoutIsSound == CopiesLiveMessages /\ BackpressureHolds

\* What the profilers report has happened: the allocation records, and the CUPTI
\* monitor's threads and subscriptions.
ProfilesAreTrue ==
    /\ network = "allocator" => AllocationRecordsAreTrue
    /\ network = "monitor" => MonitorIsSound


\* Every network winds down, also when consumers leave early: no task waits for a
\* message, a ticket, a notification or a drain that will not come.
NetworksWindDown ==
    <>(/\ \A o \in Consumers : consumer[o] # "pulling"
       /\ network \in {"bounded", "unbounded"} => producer.at = "ended"
       /\ network = "bounded" => bounded.at = "ended"
       /\ network = "unbounded" =>
              recv.at = "ended" /\ \A o \in Outputs : sender[o].at = "ended"
       /\ network = "linearise" =>
              draining.at = "ended" /\ \A i \in Makers : maker[i].at = "ended"
       /\ network = "throttle" => \A t \in Throttled : throttled[t] = "ended"
       /\ network = "collective" => context = "cleared")
=============================================================================
