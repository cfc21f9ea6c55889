------------------------------- MODULE Buffer -------------------------------
(***************************************************************************)
(* rapidsmpf::Buffer: memory that is accessed in the order of a CUDA       *)
(* stream.  The host enqueues accesses; an event tells when the latest     *)
(* write is done, and streams wait for events of each other.  CUDA is      *)
(* external: a stream runs its operations one after the other, at its own  *)
(* pace.                                                                   *)
(***************************************************************************)
EXTENDS Integers, Sequences, SequencesExt

CONSTANTS
    Buffers,
    Streams,
    MaxCalls     \* bound: calls of the host

VARIABLES
    stream,      \* stream[b]: stream_
    latest,      \* latest[b]: what latest_write_event_ has last recorded, 0 for nothing
    storage,     \* storage[b]: "held", "locked" (lock_), "released" or "freed"
    work,        \* work[s]: operations enqueued on s and not done
    recorded,    \* number of events recorded so far
    done,        \* the events that have happened
    calls,       \* number of calls so far
    exposed      \* buffers whose pending reads were not waited for (auxiliary)

bufferVars == <<stream, latest, storage, work, recorded, done, calls, exposed>>

Access(n, reads, writes) == [kind |-> "access", n |-> n, reads |-> reads, writes |-> writes]
Record(e) == [kind |-> "record", event |-> e]
Wait(e) == [kind |-> "wait", event |-> e]

BufferInit ==
    /\ stream \in [Buffers -> Streams]
    /\ latest = [b \in Buffers |-> 0]
    /\ storage = [b \in Buffers |-> "held"]
    /\ work = [s \in Streams |-> <<>>]
    /\ recorded = 0 /\ done = {0}
    /\ calls = 0
    /\ exposed = {}

\* Accesses that are enqueued and have not ended.
Pending == {op \in UNION {ToSet(work[s]) : s \in Streams} : op.kind = "access"}

throw_if_locked(b) == storage[b] = "held"

Enqueue(w, s, ops) == [w EXCEPT ![s] = @ \o ops]

Call == calls < MaxCalls /\ calls' = calls + 1

\* The callable enqueues a write, and the write event is recorded after it.
write_access(b) ==
    /\ Call /\ throw_if_locked(b)
    /\ work' = Enqueue(work, stream[b], <<Access(calls, {}, {b}), Record(recorded + 1)>>)
    /\ latest' = [latest EXCEPT ![b] = recorded + 1]
    /\ recorded' = recorded + 1
    /\ UNCHANGED <<stream, storage, done, exposed>>

\* Mutant: the stream of the source does not wait for the copy.
Mut_SourceWaits(w, src, e) == w
\* The stream of the source waits for the copy, so that the source is not reused before.
SourceWaits(w, src, e) == Enqueue(w, stream[src], <<Wait(e)>>)

\* The copy waits for the latest write of the source.
buffer_copy(dst, src) ==
    /\ Call /\ dst # src /\ throw_if_locked(dst) /\ throw_if_locked(src)
    /\ LET copied == Enqueue(work, stream[dst],
                             <<Wait(latest[src]), Access(calls, {src}, {dst}), Record(recorded + 1)>>)
       IN  work' = SourceWaits(copied, src, recorded + 1)
    /\ latest' = [latest EXCEPT ![dst] = recorded + 1]
    /\ recorded' = recorded + 1
    /\ UNCHANGED <<stream, storage, done, exposed>>

Read(b) == \E op \in Pending : b \in op.reads

\* Only the latest write is waited for: a pending copy from the buffer is not.
rebind_stream(b, s) ==
    /\ Call /\ throw_if_locked(b) /\ s # stream[b]
    /\ work' = Enqueue(work, s, <<Wait(latest[b])>>)
    /\ stream' = [stream EXCEPT ![b] = s]
    /\ exposed' = IF Read(b) THEN exposed \cup {b} ELSE exposed
    /\ UNCHANGED <<latest, storage, recorded, done>>

is_latest_write_done(b) == throw_if_locked(b) /\ latest[b] \in done

\* Access of the host, between exclusive_data_access() and unlock().
exclusive_data_access(b) ==
    /\ Call /\ is_latest_write_done(b)
    /\ storage' = [storage EXCEPT ![b] = "locked"]
    /\ exposed' = IF Read(b) THEN exposed \cup {b} ELSE exposed
    /\ UNCHANGED <<stream, latest, work, recorded, done>>

unlock(b) ==
    /\ storage[b] = "locked"
    /\ storage' = [storage EXCEPT ![b] = "held"]
    /\ UNCHANGED <<stream, latest, work, recorded, done, calls, exposed>>

\* The caller gets the memory, and uses it on the stream it was bound to.
release_device_buffer(b) ==
    /\ throw_if_locked(b)
    /\ storage' = [storage EXCEPT ![b] = "released"]
    /\ UNCHANGED <<stream, latest, work, recorded, done, calls, exposed>>

\* The memory is freed in the order of the stream it is bound to.
free(b) ==
    /\ Call /\ storage[b] \in {"held", "released"}
    /\ work' = Enqueue(work, stream[b], <<Access(calls, {}, {b})>>)
    /\ storage' = [storage EXCEPT ![b] = "freed"]
    /\ UNCHANGED <<stream, latest, recorded, done, exposed>>

\* A stream ends its next operation.
stream_progress(s) ==
    /\ work[s] # <<>>
    /\ Head(work[s]).kind = "wait" => Head(work[s]).event \in done
    /\ done' = IF Head(work[s]).kind = "record" THEN done \cup {Head(work[s]).event} ELSE done
    /\ work' = [work EXCEPT ![s] = Tail(@)]
    /\ UNCHANGED <<stream, latest, storage, recorded, calls, exposed>>

BufferNext ==
    \/ \E b \in Buffers :
          \/ write_access(b) \/ exclusive_data_access(b) \/ unlock(b)
          \/ release_device_buffer(b) \/ free(b)
          \/ \E c \in Buffers : buffer_copy(b, c)
          \/ \E s \in Streams : rebind_stream(b, s)
    \/ \E s \in Streams : stream_progress(s)

BufferSpec == BufferInit /\ [][BufferNext]_bufferVars

(***************************************************************************)
(* Whatever the pace of the streams, an access runs only when every access *)
(* that the host has issued before it and that conflicts with it has       *)
(* ended, and the host touches locked memory only then: data is never read *)
(* before it is written, nor overwritten or freed while a copy still reads *)
(* it.  The exception are buffers that were rebound to another stream      *)
(* while a copy from them was pending, which rebind_stream() does not wait *)
(* for although its documentation says so, or locked, where the caller is  *)
(* warned that reads are not tracked.                                      *)
(***************************************************************************)
Runs(op) == \E s \in Streams : work[s] # <<>> /\ Head(work[s]) = op
Touches(op) == op.reads \cup op.writes

AccessesAreOrdered ==
    /\ \A op \in Pending : Runs(op) =>
          \A before \in Pending : before.n < op.n =>
              (before.writes \cap Touches(op)) \cup (Touches(before) \cap op.writes) \subseteq exposed
    /\ \A op \in Pending : \A b \in Touches(op) \ exposed : storage[b] # "locked"
=============================================================================
