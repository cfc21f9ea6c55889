----------------------------- MODULE Communicator -----------------------------
(***************************************************************************)
(* The transfers of a rapidsmpf::Communicator: sends and receives with     *)
(* futures, probes, and the tests of futures, as UCXX, MPI and Single      *)
(* implement them.  UCX and MPI are external: messages between two ranks   *)
(* arrive in order, one that arrives is matched with the oldest receive    *)
(* that is posted for it, and one that nobody waits for is kept for later  *)
(* receives and probes.  Payloads are numbers, counted per sender,         *)
(* receiver, operation and stage.                                          *)
(***************************************************************************)
EXTENDS Integers, Sequences, FiniteSets, SequencesExt

CONSTANTS
    CommRanks,    \* ranks, from 0
    Lanes,        \* <<s, d, op, stage>>: rank s sends to rank d with this OpID and StageID
    OpSpan,       \* 2 ^ op_id_bits
    StageSpan,    \* 2 ^ stage_id_bits
    MaxSends(_),  \* bound: messages of a rank
    MaxRecvs(_)   \* bound: receives a rank posts

VARIABLES
    transport,    \* which implementation runs
    sends,        \* sends[s]: number of messages sent
    posts,        \* posts[d]: number of receives posted
    wire,         \* wire[<<s, d>>]: messages on their way, oldest first
    unexpected,   \* unexpected[d]: arrived messages nobody has asked for, oldest first
    futures,      \* futures[r]: the futures a rank holds, in the order of their calls
    scan,         \* scan[r]: how far test_some() of UCXX has come, 0 outside
    taken,        \* taken[lane]: payloads in the order in which they were matched
    returned      \* returned[r]: receives in the order in which they were returned

commVars == <<transport, sends, posts, wire, unexpected, futures, scan, taken, returned>>

Links == {<<k[1], k[2]>> : k \in Lanes}

\* Tag(op, stage), and what its accessors return.
Tag(op, stage) == op * StageSpan + stage
op_of(tag) == tag \div StageSpan
stage_of(tag) == tag % StageSpan
TagSpan == OpSpan * StageSpan

ASSUME CommAssumption ==
    /\ CommRanks \subseteq Nat /\ OpSpan \in Nat \ {0} /\ StageSpan \in Nat \ {0}
    /\ Lanes \subseteq CommRanks \X CommRanks \X (0 .. OpSpan - 1) \X (0 .. StageSpan - 1)

CommTags == {Tag(k[3], k[4]) : k \in Lanes}

CommInit ==
    /\ transport \in {"ucxx", "mpi", "single"}
    /\ sends = [r \in CommRanks |-> 0]
    /\ posts = [r \in CommRanks |-> 0]
    /\ wire = [p \in Links |-> <<>>]
    /\ unexpected = [r \in CommRanks |-> <<>>]
    /\ futures = [r \in CommRanks |-> <<>>]
    /\ scan = [r \in CommRanks |-> 0]
    /\ taken = [k \in Lanes |-> <<>>]
    /\ returned = [r \in CommRanks |-> <<>>]

\* Single has nobody to talk to: its sends, receives and tests throw.
Distributed == transport # "single"
Idle(r) == Distributed /\ scan[r] = 0

\* UCX matches on one number, with the rank of the sender above the user tag.
tag_with_rank(rank, tag) == rank * TagSpan + tag
UserTag(m) == m.tag % TagSpan
Sender(m) == m.tag \div TagSpan

\* What a receive from a rank, and what a probe for any rank, asks for.
Matches(m, rank, tag) == m.tag = tag_with_rank(rank, tag)
MatchesAny(m, tag) == UserTag(m) = tag

Lane(s, d, t) == <<s, d, op_of(t), stage_of(t)>>

Count(s, d, t) == Len(taken[Lane(s, d, t)])
                  + Cardinality({i \in DOMAIN wire[<<s, d>>] : Matches(wire[<<s, d>>][i], s, t)})
                  + Cardinality({i \in DOMAIN unexpected[d] : Matches(unexpected[d][i], s, t)})

Take(m, d) == [taken EXCEPT ![Lane(Sender(m), d, UserTag(m))] = Append(@, m.data)]

\* What the user gets for a send and for the n-th receive of a rank.
SendFuture(d, t) == [kind |-> "send", peer |-> d, tag |-> t, n |-> 0, at |-> "matched"]
RecvFuture(s, t, n, at) == [kind |-> "recv", peer |-> s, tag |-> t, n |-> n, at |-> at]

\* send(): the future is done when the library no longer needs the buffer.
comm_send(r, d, t) ==
    /\ Idle(r) /\ sends[r] < MaxSends(r)
    /\ sends' = [sends EXCEPT ![r] = @ + 1]
    /\ wire' = [wire EXCEPT ![<<r, d>>] =
                   Append(@, [tag |-> tag_with_rank(r, t), data |-> Count(r, d, t) + 1])]
    /\ futures' = [futures EXCEPT ![r] = Append(@, SendFuture(d, t))]
    /\ UNCHANGED <<transport, posts, unexpected, scan, taken, returned>>

\* recv() and recv_sync_host_data() take the oldest message that has arrived, or wait.
comm_recv(r, s, t) ==
    /\ Idle(r) /\ posts[r] < MaxRecvs(r)
    /\ posts' = [posts EXCEPT ![r] = @ + 1]
    /\ LET i == SelectInSeq(unexpected[r], LAMBDA m : Matches(m, s, t))
           f(at) == RecvFuture(s, t, posts[r] + 1, at)
       IN  IF i = 0
           THEN /\ futures' = [futures EXCEPT ![r] = Append(@, f("posted"))]
                /\ UNCHANGED <<unexpected, taken>>
           ELSE /\ futures' = [futures EXCEPT ![r] = Append(@, f("matched"))]
                /\ taken' = Take(unexpected[r][i], r)
                /\ unexpected' = [unexpected EXCEPT ![r] = RemoveAt(@, i)]
    /\ UNCHANGED <<transport, sends, wire, scan, returned>>

\* A message arrives: a posted receive gets it, or it is kept.
arrive(p) ==
    /\ wire[p] # <<>>
    /\ LET m == Head(wire[p])
           d == p[2]
           i == SelectInSeq(futures[d], LAMBDA f : f.at = "posted" /\ Matches(m, f.peer, f.tag))
       IN  /\ wire' = [wire EXCEPT ![p] = Tail(@)]
           /\ IF i = 0
              THEN unexpected' = [unexpected EXCEPT ![d] = Append(@, m)] /\ UNCHANGED <<futures, taken>>
              ELSE /\ futures' = [futures EXCEPT ![d][i].at = "matched"]
                   /\ taken' = Take(m, d)
                   /\ UNCHANGED unexpected
    /\ UNCHANGED <<transport, sends, posts, scan, returned>>

\* A transfer ends; with UCX not before an earlier one of the same kind with the same peer.
Earlier(r, i) ==
    {j \in 1..(i - 1) : /\ futures[r][j].kind = futures[r][i].kind
                        /\ futures[r][j].peer = futures[r][i].peer}
complete(r, i) ==
    /\ futures[r][i].at = "matched"
    /\ transport = "ucxx" => \A j \in Earlier(r, i) : futures[r][j].at # "matched"
    /\ futures' = [futures EXCEPT ![r][i].at = "complete"]
    /\ UNCHANGED <<transport, sends, posts, wire, unexpected, scan, taken, returned>>

\* recv_any() and recv_from(): a probe takes the message out, so that nobody else gets it.
Probe(r, Wanted(_)) ==
    /\ Idle(r)
    /\ LET i == SelectInSeq(unexpected[r], Wanted)
       IN  /\ i > 0
           /\ taken' = Take(unexpected[r][i], r)
           /\ unexpected' = [unexpected EXCEPT ![r] = RemoveAt(@, i)]
    /\ UNCHANGED <<transport, sends, posts, wire, futures, scan, returned>>

recv_any(r, t) == Probe(r, LAMBDA m : MatchesAny(m, t))
recv_from(r, s, t) == Probe(r, LAMBDA m : Matches(m, s, t))

\* The futures at these places are given up, the others keep their order.
Nth(S, k) == CHOOSE i \in S : Cardinality({j \in S : j <= i}) = k
At(r, S) == [k \in 1 .. Cardinality(S) |-> futures[r][Nth(S, k)]]
GiveUp(r, S) == futures' = [futures EXCEPT ![r] = At(r, DOMAIN futures[r] \ S)]

Completed(r) == {i \in DOMAIN futures[r] : futures[r][i].at = "complete"}

\* test(), or wait(), of one future, and release_data().
test(r) ==
    /\ Idle(r)
    /\ \E i \in Completed(r) : GiveUp(r, {i})
    /\ UNCHANGED <<transport, sends, posts, wire, unexpected, scan, taken, returned>>

\* wait_all() gives the data in the order of the futures.
wait_all(r) ==
    /\ Idle(r) /\ futures[r] # <<>> /\ Completed(r) = DOMAIN futures[r]
    /\ GiveUp(r, Completed(r))
    /\ UNCHANGED <<transport, sends, posts, wire, unexpected, scan, taken, returned>>

\* test_some() returns these futures, and takes them out of the vector.
Return(r, S) ==
    /\ GiveUp(r, S)
    /\ returned' = [returned EXCEPT ![r] =
           @ \o At(r, {i \in S : futures[r][i].kind = "recv"})]

\* MPI tells which transfers have ended, in one call.
mpi_test_some(r) ==
    /\ Idle(r) /\ transport = "mpi" /\ Completed(r) # {}
    /\ Return(r, Completed(r))
    /\ UNCHANGED <<transport, sends, posts, wire, unexpected, scan, taken>>

\* UCXX looks at one future after the other, while the worker goes on.
ucxx_test_some(r) ==
    /\ Idle(r) /\ transport = "ucxx" /\ futures[r] # <<>>
    /\ scan' = [scan EXCEPT ![r] = 1]
    /\ UNCHANGED <<transport, sends, posts, wire, unexpected, futures, taken, returned>>

\* Mutant: a future that has not ended is passed over.
Mut_ucxx_test_some_look(r) ==
    /\ scan[r] > 0
    /\ IF scan[r] <= Len(futures[r])
       THEN /\ scan' = [scan EXCEPT ![r] = @ + 1]
            /\ IF scan[r] \in Completed(r)
               THEN returned' = [returned EXCEPT ![r] =
                        @ \o SelectSeq(<<futures[r][scan[r]]>>, LAMBDA f : f.kind = "recv")]
               ELSE UNCHANGED returned
            /\ UNCHANGED futures
       ELSE scan' = [scan EXCEPT ![r] = 0] /\ UNCHANGED <<returned, futures>>
    /\ UNCHANGED <<transport, sends, posts, wire, unexpected, taken>>

\* It stops at the first that has not ended: a later one may have ended since.
ucxx_test_some_look(r) ==
    /\ scan[r] > 0
    /\ IF scan[r] \in Completed(r)
       THEN scan' = [scan EXCEPT ![r] = @ + 1] /\ UNCHANGED <<futures, returned>>
       ELSE scan' = [scan EXCEPT ![r] = 0] /\ Return(r, 1..(scan[r] - 1))
    /\ UNCHANGED <<transport, sends, posts, wire, unexpected, taken>>

CommNext ==
    \/ \E p \in Links : arrive(p)
    \/ \E r \in CommRanks :
          \/ \E i \in DOMAIN futures[r] : complete(r, i)
          \/ test(r) \/ wait_all(r) \/ mpi_test_some(r)
          \/ ucxx_test_some(r) \/ ucxx_test_some_look(r)
    \/ \E r \in CommRanks, t \in CommTags : recv_any(r, t)
    \/ \E k \in Lanes :
          LET tag == Tag(k[3], k[4])
          IN  comm_send(k[1], k[2], tag) \/ comm_recv(k[2], k[1], tag) \/ recv_from(k[2], k[1], tag)

(***************************************************************************)
(* No message overtakes another.  Whether by a posted receive or a probe,  *)
(* the messages of a rank in a stage are taken in the order in which they  *)
(* were sent; no receive waits while a message for it is there; and UCXX   *)
(* returns the receives from a rank in the order in which they were        *)
(* posted, although it looks at them while they end.                       *)
(***************************************************************************)
NoOvertaking ==
    /\ \A k \in DOMAIN taken : \A i \in DOMAIN taken[k] : taken[k][i] = i
    /\ \A r \in CommRanks : \A i \in DOMAIN futures[r] : \A m \in ToSet(unexpected[r]) :
          futures[r][i].at = "posted" => ~ Matches(m, futures[r][i].peer, futures[r][i].tag)
    /\ transport = "ucxx" =>
          \A r \in CommRanks : \A i, j \in DOMAIN returned[r] :
              /\ i < j
              /\ returned[r][i].peer = returned[r][j].peer
              => returned[r][i].n < returned[r][j].n
=============================================================================
