----------------------------- MODULE Statistics -----------------------------
(***************************************************************************)
(* rapidsmpf::Statistics with the stream-ordered timing of copies: the     *)
(* bytes of a copy are counted by the thread that enqueues it, its time    *)
(* and its delay by a callback of the CUDA stream, which may run late,     *)
(* after other calls, or after the last owner of the statistics is gone.   *)
(* Values are left out, counts are kept: report() renders an entry only    *)
(* when the counts of its three statistics match.                          *)
(*                                                                         *)
(* The second part is how the Statistics of several ranks become one: each *)
(* collects for itself, is serialized, sent, deserialized and merged.      *)
(* There a name is a string as in Config, and a serialized buffer one      *)
(* of units: a flag, a length, a character, a count, a value and a         *)
(* formatter take one unit each.                                           *)
(***************************************************************************)
EXTENDS Config, FiniteSetsExt

CONSTANTS
    Copiers,     \* threads that copy, each on a stream of its own
    MaxCopies,   \* bound: copies
    MaxResets    \* bound: calls of clear(), enable() and disable()

VARIABLES
    enabled,          \* enabled_
    count,            \* count[name]: counts in stats_
    has_entry,        \* the report entry is registered
    owned,            \* the owner holds its shared_ptr
    global_timings,   \* uids in global_timings_
    uid_counter,      \* global_uid_counter_
    copier,           \* copier[t]: where t is in a copy
    uid,              \* uid[t]: uid_ of its timing, 0 while statistics are disabled
    callbacks,        \* callbacks[t]: callbacks enqueued on the stream of t
    in_callback,      \* in_callback[t]: where the stop callback of the stream is
    resets,           \* number of resets so far
    disturbed         \* a reset has hit a copy on its way (auxiliary)

statisticsVars == <<enabled, count, has_entry, owned, global_timings, uid_counter, copier, uid,
                    callbacks, in_callback, resets, disturbed>>

Names == {"bytes", "time", "stream-delay"}

StatisticsInit ==
    /\ enabled \in BOOLEAN
    /\ count = [n \in Names |-> 0]
    /\ has_entry = FALSE
    /\ owned = TRUE
    /\ global_timings = {} /\ uid_counter = 1
    /\ copier = [t \in Copiers |-> "idle"]
    /\ uid = [t \in Copiers |-> 0]
    /\ callbacks = [t \in Copiers |-> <<>>]
    /\ in_callback = [t \in Copiers |-> "none"]
    /\ resets = 0
    /\ disturbed = FALSE

\* Threads and callbacks that hold a shared_ptr; without one the object is destroyed.
Holders == {t \in Copiers : copier[t] # "idle" \/ in_callback[t] # "none"}
Destroyed == ~ owned /\ Holders = {}

\* The destructor, in the step that gives the last shared_ptr up, cancels the timings.
cancel_inflight_timings == global_timings' = IF Destroyed' THEN {} ELSE global_timings

add_stat(n) == count' = IF enabled THEN [count EXCEPT ![n] = @ + 1] ELSE count

copies == uid_counter - 1

\* StreamOrderedTiming(): with disabled statistics it stays without effect.
timing_start(t) ==
    /\ copier[t] = "idle" /\ owned /\ copies < MaxCopies
    /\ copier' = [copier EXCEPT ![t] = "copying"]
    /\ IF enabled
       THEN /\ uid' = [uid EXCEPT ![t] = uid_counter]
            /\ uid_counter' = uid_counter + 1
            /\ global_timings' = global_timings \cup {uid_counter}
            /\ callbacks' = [callbacks EXCEPT ![t] = Append(@, <<"start", uid_counter>>)]
       ELSE /\ uid' = [uid EXCEPT ![t] = 0]
            /\ UNCHANGED <<uid_counter, global_timings, callbacks>>
    /\ UNCHANGED <<enabled, count, has_entry, owned, in_callback, resets, disturbed>>

\* Mutant: a copy that fails has been counted before.
Mut_copy_fails(t) ==
    /\ copier[t] = "copying"
    /\ add_stat("bytes")
    /\ copier' = [copier EXCEPT ![t] = "idle"]
    /\ UNCHANGED <<enabled, has_entry, owned, uid_counter, uid, callbacks, in_callback, resets, disturbed>>
    /\ cancel_inflight_timings
\* The copy throws: nothing is recorded, and the timing is left behind.
copy_fails(t) ==
    /\ copier[t] = "copying"
    /\ copier' = [copier EXCEPT ![t] = "idle"]
    /\ UNCHANGED <<enabled, count, has_entry, owned, uid_counter, uid, callbacks, in_callback, resets, disturbed>>
    /\ cancel_inflight_timings

\* After the copy: the stop callback, then the bytes and the report entry.
stop_and_record(t) ==
    /\ copier[t] = "copying"
    /\ callbacks' = IF uid[t] = 0 THEN callbacks
                    ELSE [callbacks EXCEPT ![t] = Append(@, <<"stop", uid[t]>>)]
    /\ copier' = [copier EXCEPT ![t] = "stopped"]
    /\ UNCHANGED <<enabled, count, has_entry, owned, global_timings, uid_counter, uid, in_callback,
                   resets, disturbed>>

record_copy(t) ==
    /\ copier[t] = "stopped"
    /\ add_stat("bytes")
    /\ copier' = [copier EXCEPT ![t] = "counted"]
    /\ UNCHANGED <<enabled, has_entry, owned, global_timings, uid_counter, uid, callbacks, in_callback,
                   resets, disturbed>>

add_report_entry(t) ==
    /\ copier[t] = "counted"
    /\ has_entry' = (has_entry \/ enabled)
    /\ copier' = [copier EXCEPT ![t] = "idle"]
    /\ UNCHANGED <<enabled, count, owned, uid_counter, uid, callbacks, in_callback, resets, disturbed>>
    /\ cancel_inflight_timings

Pop(t) == callbacks' = [callbacks EXCEPT ![t] = Tail(@)]

timing_start_cb(t) ==
    /\ callbacks[t] # <<>> /\ callbacks[t][1][1] = "start"
    /\ Pop(t)
    /\ UNCHANGED <<enabled, count, has_entry, owned, global_timings, uid_counter, copier, uid,
                   in_callback, resets, disturbed>>

\* The stop callback takes its timing out of the map, and a shared_ptr if there still is one.
timing_stop_cb(t) ==
    /\ callbacks[t] # <<>> /\ callbacks[t][1][1] = "stop" /\ in_callback[t] = "none"
    /\ LET u == callbacks[t][1][2]
       IN  /\ global_timings' = global_timings \ {u}
           /\ IF u \in global_timings /\ ~ Destroyed
              THEN in_callback' = [in_callback EXCEPT ![t] = "time"] /\ UNCHANGED callbacks
              ELSE Pop(t) /\ UNCHANGED in_callback
    /\ UNCHANGED <<enabled, count, has_entry, owned, uid_counter, copier, uid, resets, disturbed>>

\* It adds the time, then the delay, and gives the shared_ptr up.
callback_adds(t) ==
    /\ \/ /\ in_callback[t] = "time" /\ add_stat("time")
          /\ in_callback' = [in_callback EXCEPT ![t] = "delay"]
          /\ UNCHANGED callbacks
       \/ /\ in_callback[t] = "delay" /\ add_stat("stream-delay")
          /\ in_callback' = [in_callback EXCEPT ![t] = "none"]
          /\ Pop(t)
    /\ UNCHANGED <<copier, owned>> /\ cancel_inflight_timings
    /\ UNCHANGED <<enabled, has_entry, uid_counter, uid, resets, disturbed>>

\* A copy is on its way from its start until its callback has added both statistics.
OnTheWay == Holders # {} \/ \E t \in Copiers : callbacks[t] # <<>>

Reset ==
    /\ owned /\ resets < MaxResets
    /\ resets' = resets + 1
    /\ UNCHANGED <<has_entry, owned, global_timings, uid_counter, copier, uid, callbacks, in_callback>>

toggle_enabled ==
    /\ Reset
    /\ enabled' = ~ enabled
    /\ disturbed' = (disturbed \/ OnTheWay)
    /\ UNCHANGED count

clear_statistics ==
    /\ Reset
    /\ count' = [n \in Names |-> 0]
    /\ disturbed' = OnTheWay
    /\ UNCHANGED enabled

release_statistics ==
    /\ owned /\ owned' = FALSE
    /\ UNCHANGED <<copier, in_callback>> /\ cancel_inflight_timings
    /\ UNCHANGED <<enabled, count, has_entry, uid_counter, uid, callbacks, resets, disturbed>>

StatisticsNext ==
    \/ \E t \in Copiers :
          \/ timing_start(t) \/ copy_fails(t) \/ stop_and_record(t) \/ record_copy(t)
          \/ add_report_entry(t) \/ timing_start_cb(t) \/ timing_stop_cb(t) \/ callback_adds(t)
    \/ toggle_enabled \/ clear_statistics \/ release_statistics

StatisticsSpec == StatisticsInit /\ [][StatisticsNext]_statisticsVars

\* report() throws where the counts of an entry with data do not match.
ReportThrows ==
    has_entry /\ (\A n \in Names : count[n] > 0) /\ \E n \in Names : count[n] # count["bytes"]

(***************************************************************************)
(* Once the streams are synchronized and no call is on its way, report()   *)
(* does not throw, in whatever order the callbacks have run and whichever  *)
(* copies have failed, unless clear(), enable() or disable() has hit a     *)
(* copy on its way; and of destroyed statistics no timing is left, so that *)
(* no late callback can touch them.                                        *)
(***************************************************************************)
StatisticsSettle ==
    /\ ~ OnTheWay /\ ~ disturbed /\ ~ Destroyed => ~ ReportThrows /\ \A n \in Names : count[n] = count["bytes"]
    /\ Destroyed => global_timings = {}

-----------------------------------------------------------------------------
(* Statistics of several ranks.                                            *)

CONSTANTS
    StatNames,        \* names of statistics and of report entries
    Values,           \* what is added to a statistic
    Formatters,       \* values of Formatter, from 0 on
    MaxAdded          \* bound: statistics and entries added in all

Sites == {1, 2}       \* the ranks

VARIABLES
    collected,        \* what each rank has collected
    together,         \* the statistics of one process that did all of it (auxiliary)
    added             \* number of calls so far

mergeVars == <<collected, together, added>>

NoStatistics == [enabled |-> TRUE, stats |-> <<>>, entries |-> <<>>]

MergeInit ==
    /\ collected \in [Sites -> {NoStatistics, [NoStatistics EXCEPT !.enabled = FALSE]}]
    /\ together = <<>>
    /\ added = 0

\* Stat::add(), of a new Stat or an old one.
Stat_add(stats, name, value) ==
    (name :> IF name \in DOMAIN stats
             THEN [count |-> stats[name].count + 1, value |-> stats[name].value + value,
                   max |-> Max({stats[name].max, value})]
             ELSE [count |-> 1, value |-> value, max |-> value]) @@ stats

collect_stat(r, name, value) ==
    /\ collected[r].enabled
    /\ collected' = [collected EXCEPT ![r].stats = Stat_add(@, name, value)]
    /\ together' = Stat_add(together, name, value)

\* The first registration of a name stays.
collect_entry(r, name, names, formatter) ==
    /\ collected[r].enabled
    /\ collected' = [collected EXCEPT ![r].entries =
                        @ @@ (name :> [stat_names |-> names, formatter |-> formatter])]
    /\ UNCHANGED together

MergeNext ==
    /\ added < MaxAdded
    /\ added' = added + 1
    /\ \E r \in Sites, n \in StatNames :
          \/ \E v \in Values : collect_stat(r, n, v)
          \/ \E f \in Formatters, names \in {<<n>>} \cup {<<n, k>> : k \in StatNames} :
                collect_entry(r, n, names, f)

-----------------------------------------------------------------------------
(* merge().                                                                *)

Stat_merge(a, b) ==
    [count |-> a.count + b.count, value |-> a.value + b.value, max |-> Max({a.max, b.max})]

Conflict(a, b) ==
    \E n \in DOMAIN a.entries \cap DOMAIN b.entries : a.entries[n] # b.entries[n]

merge_two(a, b) ==
    [enabled |-> a.enabled \/ b.enabled,
     stats   |-> [n \in DOMAIN a.stats \cap DOMAIN b.stats |->
                     Stat_merge(a.stats[n], b.stats[n])] @@ a.stats @@ b.stats,
     entries |-> a.entries @@ b.entries]

-----------------------------------------------------------------------------
(* serialize() and deserialize().                                          *)

InOrder(f) == SetToSortSeq(DOMAIN f, Precedes)

String(s) == <<Len(s)>> \o s
Write(f, Payload(_)) ==
    LET names == InOrder(f)
    IN  <<Len(names)>> \o FlattenSeq([i \in DOMAIN names |-> String(names[i]) \o Payload(f[names[i]])])

Stat_serialize(stat) == <<stat.count, stat.value, stat.max>>
Entry_serialize(entry) ==
    <<entry.formatter, Len(entry.stat_names)>>
    \o FlattenSeq([i \in DOMAIN entry.stat_names |-> String(entry.stat_names[i])])

serialize_statistics(s) ==
    <<IF s.enabled THEN 1 ELSE 0>> \o Write(s.stats, Stat_serialize)
    \o Write(s.entries, Entry_serialize)

\* A reader: the units that are left, what was read, and if everything was there.
read_pod(r) ==
    IF r.left = <<>> THEN [r EXCEPT !.ok = FALSE]
    ELSE [r EXCEPT !.left = Tail(@), !.got = Append(@, Head(r.left))]

\* A length and as many characters, that become one item of what was read.
read_string(r) ==
    LET len == IF r.left = <<>> THEN 0 ELSE Head(r.left)
    IN  IF ~r.ok \/ r.left = <<>> \/ len > Len(r.left) - 1
        THEN [r EXCEPT !.ok = FALSE]
        ELSE [r EXCEPT !.left = SubSeq(@, len + 2, Len(@)),
                       !.got = Append(@, SubSeq(r.left, 2, len + 1))]

Times(n, Read(_), r) == FoldLeft(LAMBDA x, i : IF x.ok THEN Read(x) ELSE x, r, [i \in 1 .. n |-> i])

\* A count and as many items, each gathered into a tuple of its own.
read_list(Read(_), r) ==
    LET c == read_pod(r)
        each(x) == LET y == Read([x EXCEPT !.got = <<>>])
                   IN  [y EXCEPT !.got = Append(x.got, y.got)]
        items == Times(Last(c.got), each, [c EXCEPT !.got = <<>>])
    IN  IF ~r.ok \/ ~c.ok THEN [r EXCEPT !.ok = FALSE]
        ELSE [items EXCEPT !.got = Append(r.got, items.got)]

read_stat(r) == Times(3, read_pod, read_string(r))

\* A formatter that is out of range is refused.
read_entry(r) ==
    LET f == read_pod(read_string(r))
    IN  IF ~f.ok \/ Last(f.got) \notin Formatters THEN [r EXCEPT !.ok = FALSE]
        ELSE read_list(read_string, f)

deserialize_reader(b) ==
    read_list(read_entry, read_list(read_stat, read_pod([left |-> b, got |-> <<>>, ok |-> TRUE])))

ByName(items, Value(_)) ==
    [n \in {items[i][1] : i \in DOMAIN items} |->
        Value(items[CHOOSE i \in DOMAIN items : items[i][1] = n])]

deserialize_statistics(b) ==
    LET got == deserialize_reader(b).got
    IN  [enabled |-> got[1] # 0,
         stats   |-> ByName(got[2], LAMBDA x : [count |-> x[2], value |-> x[3], max |-> x[4]]),
         entries |-> ByName(got[3], LAMBDA x : [stat_names |-> FlattenSeq(x[3]), formatter |-> x[2]])]

-----------------------------------------------------------------------------
\* Statistics arrive as they were sent, a buffer that was cut off is refused, and the
\* merged statistics of all ranks are those of a process that did everything itself,
\* in whatever order they are merged, unless two ranks report a name differently.
StatisticsTravelSafely ==
    /\ \A r \in Sites :
          LET b == serialize_statistics(collected[r])
          IN  /\ deserialize_reader(b).ok
              /\ deserialize_statistics(b) = collected[r]
              /\ \A n \in 0 .. Len(b) - 1 : ~deserialize_reader(SubSeq(b, 1, n)).ok
    /\ ~Conflict(collected[1], collected[2]) =>
          /\ merge_two(collected[1], collected[2]) = merge_two(collected[2], collected[1])
          /\ merge_two(collected[1], collected[2]).stats = together
=============================================================================
