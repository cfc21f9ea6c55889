------------------------------ MODULE WireFormats ------------------------------
(***************************************************************************)
(* The messages that ranks exchange, as they are laid out on the wire:     *)
(* chunks of the shuffler inside the envelope of the tag exchange, chunks  *)
(* of the other collectives, and the control messages of UCXX.             *)
(*                                                                         *)
(* A buffer is a sequence of units: an id, a rank, a port, an enumerator,  *)
(* a size, a count and a byte of metadata, of a host name or of an address *)
(* take one unit each.  Ids and the size of a shuffler chunk's metadata    *)
(* keep a width, smaller than that of the code.                            *)
(***************************************************************************)
EXTENDS Integers, Sequences, SequencesExt, FiniteSets, FiniteSetsExt

CONSTANTS
    Senders,                 \* ranks, from 0 on
    WORD_BITS,               \* width of ChunkID and of a message id (64)
    chunk_id_counter_bits,   \* of the counter in a ChunkID of the shuffler (38)
    ID_BITS,                 \* of the sequence number in a ChunkID of a collective (38)
    MESSAGE_BITS,            \* of the sequence number in a message id (32)
    SIZE_BITS,               \* of the metadata size in a chunk of the shuffler (32)
    Bytes,                   \* metadata, host names and worker addresses
    Sizes,                   \* sizes of payloads, of which 0 is one
    MaxSent                  \* bound: chunks a rank creates

ASSUME WidthAssumption ==
    /\ \A r \in Senders : (r + 1) * 2 ^ MESSAGE_BITS < 2 ^ WORD_BITS
    /\ MaxSent < 2 ^ chunk_id_counter_bits
    /\ SIZE_BITS \in Nat

VARIABLES
    chunk_id_counter,   \* chunk_id_counter_ of each rank's shuffler
    next_message_id,    \* next_message_id_ of each rank's exchange
    issued,             \* the chunk ids and the message ids handed out so far
    wire                \* the message sent last: what it is, its size and its bytes

wireVars == <<chunk_id_counter, next_message_id, issued, wire>>

NoBuffer == -1
Word(x) == x % 2 ^ WORD_BITS

\* a | b on words.
Bit(x, i) == (x \div 2 ^ i) % 2
Or(a, b) == MapThenSumSet(LAMBDA i : 2 ^ i * Max({Bit(a, i), Bit(b, i)}), 0 .. WORD_BITS - 1)

-----------------------------------------------------------------------------
(* Ids.                                                                    *)

get_new_cid(r, count) == Or(Word(r * 2 ^ chunk_id_counter_bits), count)
extract_rank(cid) == cid \div 2 ^ chunk_id_counter_bits

message_id(r, n) == Or(Word(r * 2 ^ MESSAGE_BITS), n)
termination_sentinel == 2 ^ WORD_BITS - 1

chunk_id(sequence, origin) == Or(Word(origin * 2 ^ ID_BITS), sequence)
sequence_of(id) == id % 2 ^ ID_BITS
origin_of(id) == id \div 2 ^ ID_BITS

-----------------------------------------------------------------------------
(* Chunks of the shuffler.                                                 *)

\* The size of the metadata is narrowed without a check.
FitsSize(metadata) == Len(metadata) < 2 ^ SIZE_BITS

from_packed_data(cid, pid, metadata, size) ==
    [chunk_id |-> cid, part_id |-> pid, expected_num_chunks |-> 0,
     metadata_size |-> Len(metadata) % 2 ^ SIZE_BITS, data_size |-> size,
     metadata |-> metadata, data |-> size]
from_finished_partition(cid, pid, n) ==
    [chunk_id |-> cid, part_id |-> pid, expected_num_chunks |-> n,
     metadata_size |-> 0, data_size |-> 0, metadata |-> <<>>, data |-> NoBuffer]

metadata_message_header_size == 5

shuffle_serialize(c) ==
    <<c.chunk_id, c.part_id, c.expected_num_chunks, c.metadata_size, c.data_size>> \o c.metadata

validate_format(msg) ==
    /\ Len(msg) >= metadata_message_header_size
    /\ Len(msg) = metadata_message_header_size + msg[4]

\* A data chunk that came without a payload is given an empty buffer.
shuffle_deserialize(msg, data) ==
    [chunk_id |-> msg[1], part_id |-> msg[2], expected_num_chunks |-> msg[3],
     metadata_size |-> msg[4], data_size |-> msg[5],
     metadata |-> SubSeq(msg, metadata_message_header_size + 1, Len(msg)),
     data |-> IF data = NoBuffer /\ msg[3] = 0 THEN msg[5] ELSE data]

-----------------------------------------------------------------------------
(* The envelope: the trailer that TagMetadataPayloadExchange appends.      *)

Envelope(metadata, id, payload_size) == metadata \o <<id, payload_size>>
Termination(count) == <<termination_sentinel, count>>

Metadata(msg) == SubSeq(msg, 1, Len(msg) - 2)
IsTermination(msg) == msg[Len(msg) - 1] = termination_sentinel
Payload(msg) == IF Last(msg) > 0 THEN Last(msg) ELSE NoBuffer

-----------------------------------------------------------------------------
(* Chunks of AllGather and SparseAlltoall.                                 *)

from_packed(sequence, origin, metadata, size) ==
    [id |-> chunk_id(sequence, origin), metadata |-> metadata, data |-> size]
from_empty(sequence, origin) ==
    [id |-> chunk_id(sequence, origin), metadata |-> <<>>, data |-> NoBuffer]
is_finish(c) == c.data = NoBuffer

coll_serialize(c) == IF is_finish(c) THEN <<c.id>> ELSE <<c.id, c.data>> \o c.metadata

coll_deserialize(msg) ==
    IF Len(msg) = 1 THEN [id |-> msg[1], metadata |-> <<>>, data |-> NoBuffer]
    ELSE [id |-> msg[1], metadata |-> SubSeq(msg, 3, Len(msg)), data |-> msg[2]]

-----------------------------------------------------------------------------
(* Control messages of UCXX.                                               *)

AssignRank == 0
QueryRank == 1
RegisterListenerAddress == 2
DistributeListenerAddresses == 3
WorkerAddress == 0
HostPort == 1

listener_address_packed_size(a) == Len(a.text) + IF a.type = HostPort THEN 4 ELSE 3

listener_address_pack(a) ==
    <<a.type, Len(a.text)>> \o a.text
        \o (IF a.type = HostPort THEN <<a.port>> ELSE <<>>) \o <<a.rank>>

listener_address_unpack(b) ==
    LET after == 3 + b[2]
        text == SubSeq(b, 3, after - 1)
    IN  IF b[1] = HostPort
        THEN [type |-> HostPort, text |-> text, port |-> b[after], rank |-> b[after + 1]]
        ELSE [type |-> WorkerAddress, text |-> text, port |-> 0, rank |-> b[after]]

control_pack(control, a) ==
    <<control, listener_address_packed_size(a)>> \o listener_address_pack(a)

distribution_pack(addresses) ==
    <<DistributeListenerAddresses, Len(addresses)>> \o
        FlattenSeq([i \in DOMAIN addresses |->
            <<listener_address_packed_size(addresses[i])>> \o listener_address_pack(addresses[i])])

\* What the sender allocates before it encodes.
distribution_size(addresses) ==
    2 + FoldLeft(LAMBDA sum, a : sum + 1 + listener_address_packed_size(a), 0, addresses)

\* The addresses behind position at: each is copied out by its announced size.
unpack_addresses(b, at, count) ==
    FoldLeft(LAMBDA done, i :
                 [at |-> done.at + 1 + b[done.at],
                  addresses |-> Append(done.addresses, listener_address_unpack(
                                    SubSeq(b, done.at + 1, done.at + b[done.at])))],
             [at |-> at, addresses |-> <<>>], [i \in 1 .. count |-> i]).addresses

control_unpack(b) ==
    CASE b[1] = AssignRank -> <<b[2]>>
      [] b[1] \in {QueryRank, RegisterListenerAddress} -> unpack_addresses(b, 2, 1)
      [] b[1] = DistributeListenerAddresses -> unpack_addresses(b, 3, b[2])

-----------------------------------------------------------------------------
(* What ranks send.                                                        *)

Send(kind, what, size, bytes) ==
    wire' = [kind |-> kind, what |-> what, size |-> size, bytes |-> bytes]

\* create_chunk() and insert_finished() number a chunk; unless its partition is local,
\* convert_chunks_to_messages() and send() put it on the wire.
shuffle_chunk(r, chunk, local) ==
    LET count == chunk_id_counter[r] + 1
        cid == get_new_cid(r, count)
        c == [chunk EXCEPT !.chunk_id = cid]
        msg == shuffle_serialize(c)
        id == message_id(r, next_message_id[r])
    IN  /\ chunk_id_counter[r] < MaxSent
        /\ chunk_id_counter' = [chunk_id_counter EXCEPT ![r] = count]
        /\ IF local
           THEN /\ issued' = [issued EXCEPT !.chunks = @ \cup {cid}]
                /\ UNCHANGED <<next_message_id, wire>>
           ELSE /\ issued' = [chunks |-> issued.chunks \cup {cid},
                              messages |-> issued.messages \cup {id}]
                /\ next_message_id' = [next_message_id EXCEPT ![r] = @ + 1]
                /\ Send("shuffle", [from |-> r, chunk |-> c], Len(msg) + 2,
                        Envelope(msg, id, IF c.data = NoBuffer THEN 0 ELSE c.data))

terminate(count) ==
    /\ Send("terminate", count, 2, Termination(count))
    /\ UNCHANGED <<chunk_id_counter, next_message_id, issued>>

coll_chunk(r, sequence, metadata, data) ==
    LET c == IF data = NoBuffer THEN from_empty(sequence, r)
             ELSE from_packed(sequence, r, metadata, data)
    IN  /\ Send("collective", [from |-> r, sequence |-> sequence, chunk |-> c],
                1 + IF is_finish(c) THEN 0 ELSE 1 + Len(c.metadata), coll_serialize(c))
        /\ UNCHANGED <<chunk_id_counter, next_message_id, issued>>

ListenerAddresses(r) ==
    [type : {WorkerAddress}, text : Bytes, port : {0}, rank : {r, -1}]
        \cup [type : {HostPort}, text : Bytes, port : {7}, rank : {r}]

control(r) ==
    /\ \/ Send("control", <<r>>, 2, <<AssignRank, r>>)
       \/ \E a \in ListenerAddresses(r), c \in {QueryRank, RegisterListenerAddress} :
             Send("control", <<a>>, 2 + listener_address_packed_size(a), control_pack(c, a))
       \/ \E s \in {<<>>} \cup {<<a>> : a \in ListenerAddresses(r)}
                   \cup {<<a, b>> : a \in ListenerAddresses(r), b \in ListenerAddresses(r + 1)} :
             Send("control", s, distribution_size(s), distribution_pack(s))
    /\ UNCHANGED <<chunk_id_counter, next_message_id, issued>>

WireInit ==
    /\ chunk_id_counter = [r \in Senders |-> 0]
    /\ next_message_id = [r \in Senders |-> 0]
    /\ issued = [chunks |-> {}, messages |-> {}]
    /\ wire = [kind |-> "none", what |-> <<>>, size |-> 0, bytes |-> <<>>]

WireNext ==
    \/ \E r \in Senders, p \in {0, 1}, local \in BOOLEAN :
          \/ \E m \in Bytes, n \in Sizes : shuffle_chunk(r, from_packed_data(0, p, m, n), local)
          \/ \E n \in 1 .. 2 : shuffle_chunk(r, from_finished_partition(0, p, n), local)
    \/ /\ wire.kind = "none"     \* the others number nothing: one of each is enough
       /\ \/ \E n \in Sizes : terminate(n)
          \/ \E r \in Senders, s \in {0, 2 ^ ID_BITS - 1}, m \in Bytes,
                n \in Sizes \cup {NoBuffer} : coll_chunk(r, s, m, n)
          \/ \E r \in Senders : control(r)

-----------------------------------------------------------------------------
\* What serialize(), the trailer of the exchange, listener_address_pack_into() and
\* control_pack() write is read back as it was, and fills the buffer that was allocated for
\* it; no data message is taken for a termination marker or for a finish message;
\* validate_format() refuses a chunk that was cut short, and one with more metadata than
\* its header can say, for which deserialize() throws on the receiving rank.  Ids tell the ranks and the
\* numbers of their chunks and messages, and no two chunks or messages have the same.
WireIsFaithful ==
    /\ Len(wire.bytes) = wire.size
    /\ Cardinality(issued.chunks) =
           FoldFunction(LAMBDA m, n : m + n, 0, chunk_id_counter)
    /\ Cardinality(issued.messages) =
           FoldFunction(LAMBDA m, n : m + n, 0, next_message_id)
    /\ CASE wire.kind = "shuffle" ->
              LET msg == Metadata(wire.bytes)
              IN  /\ ~IsTermination(wire.bytes)
                  /\ shuffle_deserialize(msg, Payload(wire.bytes)) = wire.what.chunk
                  /\ extract_rank(msg[1]) = wire.what.from
                  /\ validate_format(msg) <=> FitsSize(wire.what.chunk.metadata)
                  /\ validate_format(msg) =>
                        \A n \in 0 .. Len(msg) - 1 : ~validate_format(SubSeq(msg, 1, n))
         [] wire.kind = "terminate" ->
              IsTermination(wire.bytes) /\ Last(wire.bytes) = wire.what
         [] wire.kind = "collective" ->
              LET c == coll_deserialize(wire.bytes)
              IN  /\ c = wire.what.chunk
                  /\ is_finish(c) = (wire.what.chunk.data = NoBuffer)
                  /\ origin_of(c.id) = wire.what.from
                  /\ sequence_of(c.id) = wire.what.sequence
         [] wire.kind = "control" -> control_unpack(wire.bytes) = wire.what
         [] OTHER -> TRUE
=============================================================================
