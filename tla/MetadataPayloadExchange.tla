----------------------- MODULE MetadataPayloadExchange -----------------------
(***************************************************************************)
(* What rapidsmpf::communicator::MetadataPayloadExchange promises the code *)
(* that uses it (the shuffler): one rank's view of a series of exchanges   *)
(* with the same op_id.  Per peer there is one queue; messages leave it in *)
(* the order they entered; a peer that finishes puts an end mark behind    *)
(* its messages; an exchange hands out the messages in front of the marks  *)
(* and is over when only the marks are left of it.                         *)
(***************************************************************************)
EXTENDS Naturals, Sequences

CONSTANTS
    Peer,       \* the other ranks
    MsgId,      \* what a message may be
    MaxBatch    \* bound: messages of a peer that one progress() completes

VARIABLES
    queue,   \* messages <<exchange, id>> of a peer that are not handed out yet, end marks
    out,     \* messages of a peer that this exchange has handed out
    exch,    \* the exchange this rank is in
    pexch    \* the exchange each peer sends in

vars == <<queue, out, exch, pexch>>

Init ==
    /\ queue = [p \in Peer |-> <<>>]
    /\ out = [p \in Peer |-> <<>>]
    /\ exch = 1
    /\ pexch = [p \in Peer |-> 1]

End(x) == <<x, 0>>

\* A peer sends its next message, or finishes its exchange.
send(p, id) ==
    /\ queue' = [queue EXCEPT ![p] = Append(@, <<pexch[p], id>>)]
    /\ UNCHANGED <<out, exch, pexch>>

finish(p) ==
    /\ queue' = [queue EXCEPT ![p] = Append(@, End(pexch[p]))]
    /\ pexch' = [pexch EXCEPT ![p] = @ + 1]
    /\ UNCHANGED <<out, exch>>

\* progress() completes n[p] more messages of each peer p.
progress(n) ==
    /\ \A p \in Peer : \A i \in 1 .. n[p] : queue[p][i][1] = exch /\ queue[p][i] # End(exch)
    /\ out' = [p \in Peer |-> out[p] \o SubSeq(queue[p], 1, n[p])]
    /\ queue' = [p \in Peer |-> SubSeq(queue[p], n[p] + 1, Len(queue[p]))]
    /\ UNCHANGED <<exch, pexch>>

\* The exchange is idle after finish(): the next one may use the op_id.
next_exchange ==
    /\ \A p \in Peer : queue[p] # <<>> /\ Head(queue[p]) = End(exch)
    /\ exch' = exch + 1
    /\ queue' = [p \in Peer |-> Tail(queue[p])]
    /\ out' = [p \in Peer |-> <<>>]
    /\ UNCHANGED pexch

Next ==
    \/ \E p \in Peer, id \in MsgId : send(p, id)
    \/ \E p \in Peer : finish(p)
    \/ \E n \in [Peer -> 0 .. MaxBatch] : (\A p \in Peer : n[p] <= Len(queue[p])) /\ progress(n)
    \/ next_exchange

Spec == Init /\ [][Next]_vars

=============================================================================
