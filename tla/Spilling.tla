------------------------------- MODULE Spilling -------------------------------
(***************************************************************************)
(* Which buffers are spilled, and where they go: the spill functions of a  *)
(* Shuffler (its received chunks) and of an AllGather (its two post        *)
(* boxes), called by the SpillManager one spill at a time; receive buffers *)
(* that fit nowhere and go to disk; and the user, who inserts, extracts    *)
(* and unspills.                                                           *)
(*                                                                         *)
(* A box is locked while its buffers are spilled.  Making a reservation,   *)
(* allocating and copying are one step here; BufferResource.tla tells them *)
(* apart.                                                                  *)
(***************************************************************************)
EXTENDS Integers, Sequences, SequencesExt, FiniteSets, FiniteSetsExt

CONSTANTS
    Bufs,              \* buffers; each exists once
    BufSize(_),        \* their sizes in memory
    Remote,            \* those of them that other ranks send
    MemoryLimit(_),    \* memory_limits_ of "device", "pinned" and "host"
    MaxExtracted       \* bound: chunks the user extracts

Boxes == <<"received", "for_extraction", "inserted">>   \* in the order of the functions
Addressable == <<"device", "pinned", "host">>
SpillTargets == <<"pinned", "host">>

VARIABLES
    box,               \* pigeonhole_ of the Shuffler, chunks_ of the post boxes
    hand,              \* buffers the user holds
    mem_type,          \* memory type of every buffer, "none" if it does not exist
    spill_token,       \* buffers with a spill_track_token_
    files,             \* files in the directory of the DiskResource
    has_disk,          \* disk_resource_ is set
    user,              \* where the user is, and the buffer it unspills, if any
    spilling,          \* the spill that holds the mutex_ of the manager
    left_device,       \* buffers that were moved away from the device (auxiliary)
    forced,            \* buffers that were received by force (auxiliary)
    extracted_so_far   \* chunks the user has extracted

spillingVars == <<box, hand, mem_type, spill_token, files, has_disk, user, spilling,
                  left_device, forced, extracted_so_far>>

Nothing == "nothing"
Free == [at |-> "free", with |-> {}]
NotSpilling == [step |-> "idle", by |-> Nothing, amount |-> 0, spilled |-> 0, todo |-> <<>>,
                need |-> 0, before |-> {}, plan |-> <<>>, chosen |-> <<>>]

SpillingInit ==
    /\ box = [b \in Range(Boxes) |-> <<>>]
    /\ hand = {}
    /\ mem_type = [c \in Bufs |-> "unborn"]
    /\ spill_token = {}
    /\ files = {}
    /\ has_disk \in BOOLEAN
    /\ user = Free
    /\ spilling = NotSpilling
    /\ left_device = {}
    /\ forced = {}
    /\ extracted_so_far = 0

-----------------------------------------------------------------------------
(* BufferResource.                                                         *)

TotalSize(S) == MapThenSumSet(BufSize, S)
memory_available_of(type) == MemoryLimit(type) - TotalSize({c \in Bufs : mem_type[c] = type})

\* What the user is about to allocate on the device is reserved.
Reserved == TotalSize(user.with)

\* try_reserve(): the first type with room, or Nothing.
try_reserve(c, types) ==
    LET fits == SelectSeq(types, LAMBDA t : memory_available_of(t) >= BufSize(c))
    IN  IF fits = <<>> THEN Nothing ELSE Head(fits)

\* The file of a DiskBuffer.
create_file(c) == files \cup {c}
remove_file(c) == files \ {c}

\* move() to another type, with the file and the token of the buffer.
move(c, type) ==
    /\ mem_type' = [mem_type EXCEPT ![c] = type]
    /\ files' = IF type = "disk" THEN create_file(c) ELSE remove_file(c)
    /\ spill_token' = CASE type = mem_type[c] -> spill_token
                        [] mem_type[c] = "device" -> spill_token \cup {c}
                        [] type = "device" -> spill_token \ {c}
                        [] OTHER -> spill_token
    /\ left_device' = CASE mem_type[c] = "device" /\ type # "device" -> left_device \cup {c}
                        [] type = "device" -> left_device \ {c}
                        [] OTHER -> left_device

\* The type that ensure_memory_type() leaves a buffer in; the last resort is overbooked.
ensure_memory_type(c) ==
    IF mem_type[c] \in Range(Addressable) THEN mem_type[c]
    ELSE LET type == try_reserve(c, Reverse(Addressable))
         IN  IF type = Nothing THEN "host" ELSE type

deallocate_buffer(c) ==
    /\ mem_type' = [mem_type EXCEPT ![c] = "none"]
    /\ files' = remove_file(c)
    /\ spill_token' = spill_token \ {c}
    /\ left_device' = left_device \ {c}

-----------------------------------------------------------------------------
(* What the spill functions choose.                                        *)

OnDevice(b) == SelectSeq(box[b], LAMBDA c : mem_type[c] = "device")

\* ReceivedChunks::spill(): in order, until there is enough.
FirstOnes(s, amount) ==
    LET enough == {n \in DOMAIN s : TotalSize(Range(SubSeq(s, 1, n))) >= amount}
    IN  IF enough = {} THEN s ELSE SubSeq(s, 1, Min(enough))

\* Mutant: the loop goes on with the smallest buffer instead of the largest.
Mut_next_chunk(sorted, need) ==
    LET enough == {i \in DOMAIN sorted : BufSize(sorted[i]) >= need}
    IN  IF enough = {} THEN 1 ELSE Min(enough)

\* Of buffers sorted by size, the first that is large enough, or else the largest.
next_chunk(sorted, need) ==
    LET enough == {i \in DOMAIN sorted : BufSize(sorted[i]) >= need}
    IN  IF enough = {} THEN Len(sorted) ELSE Min(enough)

\* PostBox::spill(): the largest one is popped after each round, whichever was spilled.
FewestOnes(s, amount) ==
    LET sorted == SortSeq(s, LAMBDA c, d : BufSize(c) < BufSize(d))
        round(done, i) ==
            IF done.left = <<>> \/ TotalSize(Range(done.chosen)) >= amount THEN done
            ELSE LET c == done.left[next_chunk(done.left, amount - TotalSize(Range(done.chosen)))]
                 IN  [left |-> Front(done.left), chosen |-> Append(done.chosen, c)]
    IN  IF TotalSize(Range(s)) < amount THEN s
        ELSE FoldLeft(round, [left |-> sorted, chosen |-> <<>>], [i \in DOMAIN s |-> i]).chosen

spill_plan(b, amount) ==
    IF b = "received" THEN FirstOnes(OnDevice(b), amount) ELSE FewestOnes(OnDevice(b), amount)

-----------------------------------------------------------------------------
(* SpillManager::spill_to_make_headroom(), by the user or the periodic     *)
(* thread; a box is locked from spill_box() to leave_box().                *)

deficit == Reserved - memory_available_of("device")

\* Where the user goes on when its spill has ended.
AfterHeadroom == IF user.at = "reserved" THEN [user EXCEPT !.at = "unspill"] ELSE Free

spill_to_make_headroom(by) ==
    /\ spilling.step = "idle"
    /\ by = "user" => user.at \in {"reserved", "inserted"}
    /\ IF deficit > 0
       THEN /\ spilling' = [NotSpilling EXCEPT !.step = "box", !.by = by, !.amount = deficit,
                                               !.todo = Boxes]
            /\ UNCHANGED user
       ELSE /\ user' = IF by = "user" THEN AfterHeadroom ELSE user
            /\ UNCHANGED spilling
    /\ UNCHANGED <<box, hand, mem_type, spill_token, files, has_disk, left_device, forced, extracted_so_far>>

spill_box ==
    /\ spilling.step = "box" /\ spilling.todo # <<>> /\ spilling.spilled < spilling.amount
    /\ LET need == spilling.amount - spilling.spilled
           plan == spill_plan(Head(spilling.todo), need)
       IN  spilling' = [spilling EXCEPT !.step = "buffers", !.need = need, !.chosen = plan,
                            !.plan = plan, !.before = Range(OnDevice(Head(spilling.todo)))]
    /\ UNCHANGED <<box, hand, mem_type, spill_token, files, has_disk, user, left_device,
                   forced, extracted_so_far>>

\* reserve_or_fail() throws before anything has happened to the buffer, and ends the spill: the
\* user's call throws, and the process terminates if it is the periodic thread.
spill_throws ==
    /\ spilling' = [NotSpilling EXCEPT !.step = IF spilling.by = "user" THEN @ ELSE "terminated"]
    /\ user' = IF spilling.by = "user" THEN Free ELSE user
    /\ UNCHANGED <<mem_type, spill_token, files, left_device>>

spill_buffer ==
    /\ spilling.step = "buffers" /\ spilling.chosen # <<>>
    /\ LET c == Head(spilling.chosen)
           target == try_reserve(c, SpillTargets)
       IN  IF target = Nothing THEN spill_throws
           ELSE /\ move(c, target)
                /\ spilling' = [spilling EXCEPT !.chosen = Tail(@), !.spilled = @ + BufSize(c)]
                /\ UNCHANGED user
    /\ UNCHANGED <<box, hand, has_disk, forced, extracted_so_far>>

leave_box ==
    /\ spilling.step = "buffers" /\ spilling.chosen = <<>>
    /\ spilling' = [spilling EXCEPT !.step = "box", !.todo = Tail(@)]
    /\ UNCHANGED <<box, hand, mem_type, spill_token, files, has_disk, user, left_device,
                   forced, extracted_so_far>>

spill_ends ==
    /\ spilling.step = "box" /\ (spilling.todo = <<>> \/ spilling.spilled >= spilling.amount)
    /\ spilling' = NotSpilling
    /\ user' = IF spilling.by = "user" THEN AfterHeadroom ELSE user
    /\ UNCHANGED <<box, hand, mem_type, spill_token, files, has_disk, left_device, forced, extracted_so_far>>

-----------------------------------------------------------------------------
(* The user and the progress thread.                                       *)

Unlocked(b) == ~(spilling.step = "buffers" /\ Head(spilling.todo) = b)
put(b, c) == box' = [box EXCEPT ![b] = Append(@, c)]
take(b, c) == box' = [box EXCEPT ![b] = SelectSeq(@, LAMBDA d : d # c)]
UserIsFree == user = Free

\* Packed data on the device, which the user may overbook; one at a time.
create_packed(c) ==
    /\ hand = {}
    /\ UserIsFree /\ c \notin Remote /\ mem_type[c] = "unborn"
    /\ mem_type' = [mem_type EXCEPT ![c] = "device"]
    /\ hand' = hand \cup {c}
    /\ UNCHANGED <<box, spill_token, files, has_disk, user, spilling, left_device, forced, extracted_so_far>>

\* Shuffler::insert() of data for this rank: spilled at once if the device is overbooked, or
\* gone if there is no room for it; then spill_to_make_headroom().
shuffler_insert(c) ==
    LET type == IF memory_available_of("device") < 0 /\ mem_type[c] = "device"
                THEN try_reserve(c, SpillTargets) ELSE mem_type[c]
    IN  /\ UserIsFree /\ c \in hand
        /\ IF type = Nothing
           THEN deallocate_buffer(c) /\ UNCHANGED <<box, user>>
           ELSE /\ Unlocked("received") /\ move(c, type) /\ put("received", c)
                /\ user' = [user EXCEPT !.at = "inserted"]
        /\ hand' = hand \ {c}
        /\ UNCHANGED <<has_disk, spilling, forced, extracted_so_far>>

gather_insert_packed(c) ==
    /\ UserIsFree /\ c \in hand
    /\ Unlocked("inserted")
    /\ move(c, ensure_memory_type(c))
    /\ put("inserted", c)
    /\ hand' = hand \ {c}
    /\ UNCHANGED <<has_disk, user, spilling, forced, extracted_so_far>>

\* The event loop of the AllGather, with the chunks that are ready.
gather_chunk(c) ==
    /\ c \in Range(box["inserted"]) /\ Unlocked("inserted") /\ Unlocked("for_extraction")
    /\ box' = [box EXCEPT !["inserted"] = SelectSeq(@, LAMBDA d : d # c),
                          !["for_extraction"] = Append(@, c)]
    /\ UNCHANGED <<hand, mem_type, spill_token, files, has_disk, user, spilling,
                   left_device, forced, extracted_so_far>>

\* allocate_receive_buffer(); by force in host memory, from where try_move_to_disk() takes it.
receive_chunk(c) ==
    /\ c \in Remote /\ mem_type[c] = "unborn" /\ Unlocked("received")
    /\ LET type == try_reserve(c, Addressable)
           last == IF has_disk THEN "disk" ELSE "host"
       IN  /\ mem_type' = [mem_type EXCEPT ![c] = IF type = Nothing THEN last ELSE type]
           /\ forced' = IF type = Nothing THEN forced \cup {c} ELSE forced
           /\ files' = IF type = Nothing /\ has_disk THEN create_file(c) ELSE files
    /\ put("received", c)
    /\ UNCHANGED <<hand, spill_token, has_disk, user, spilling, left_device, extracted_so_far>>

extract_chunk(b, c) ==
    /\ UserIsFree /\ extracted_so_far < MaxExtracted
    /\ extracted_so_far' = extracted_so_far + 1
    /\ b \in {"received", "for_extraction"} /\ c \in Range(box[b]) /\ Unlocked(b)
    /\ take(b, c)
    /\ hand' = hand \cup {c}
    /\ UNCHANGED <<mem_type, spill_token, files, has_disk, user, spilling, left_device,
                   forced>>

\* unspill_partitions(): device memory is reserved first, and spilled for if needed.
unspill_begin(c) ==
    /\ UserIsFree /\ c \in hand /\ mem_type[c] # "device"
    /\ user' = [at |-> "reserved", with |-> {c}]
    /\ UNCHANGED <<box, hand, mem_type, spill_token, files, has_disk, spilling, left_device, forced, extracted_so_far>>

unspill_end ==
    /\ user.at = "unspill"
    /\ \E c \in user.with : move(c, "device")
    /\ user' = Free
    /\ UNCHANGED <<box, hand, has_disk, spilling, forced, extracted_so_far>>

destroy_packed(c) ==
    /\ UserIsFree /\ c \in hand
    /\ deallocate_buffer(c)
    /\ hand' = hand \ {c}
    /\ UNCHANGED <<box, has_disk, user, spilling, forced, extracted_so_far>>

SpillingNext ==
    /\ spilling.step # "terminated"
    /\ \/ \E by \in {"user", "periodic"} : spill_to_make_headroom(by)
       \/ spill_box \/ spill_buffer \/ leave_box \/ spill_ends
       \/ unspill_end
       \/ \E c \in Bufs :
             \/ create_packed(c) \/ shuffler_insert(c) \/ gather_insert_packed(c)
             \/ gather_chunk(c) \/ receive_chunk(c) \/ unspill_begin(c) \/ destroy_packed(c)
             \/ \E b \in Range(Boxes) : extract_chunk(b, c)

-----------------------------------------------------------------------------
\* From a post box, PostBox::spill() takes "the minimum number of buffers summing to the
\* amount we need", and none in vain; every spill function makes as much room as it can, up
\* to what is asked for, and takes no buffer twice.  While it does, no other thread moves its
\* buffers.
ChoiceIsExact ==
    spilling.step = "buffers" =>
        LET plan == Range(spilling.plan)
            Reaches(S) == TotalSize(S) >= spilling.need
        IN  /\ plan \subseteq spilling.before /\ IsInjective(spilling.plan)
            /\ Reaches(plan) \/ plan = spilling.before
            /\ Range(spilling.chosen) = {c \in plan : mem_type[c] = "device"}
            /\ plan \subseteq Range(box[Head(spilling.todo)])
            /\ Reaches(plan) /\ Head(spilling.todo) # "received" =>
                  /\ \A S \in SUBSET spilling.before :
                        Reaches(S) => Cardinality(S) >= Cardinality(plan)
                  /\ \A c \in plan : ~Reaches(plan \ {c})

\* Spilling never overbooks pinned or host memory: what exceeds a limit there was received by
\* force or fetched from disk.  Chunks that wait to be sent stay addressable.  The token of a
\* buffer says that it was spilled from the device and is not back, and every file backs a
\* buffer that exists.
PlacesAreRight ==
    /\ \A t \in Range(SpillTargets) :
          TotalSize({c \in Bufs \ forced : mem_type[c] = t}) <= MemoryLimit(t)
    /\ \A c \in Range(box["inserted"]) : mem_type[c] \in Range(Addressable)
    /\ spill_token = left_device
    /\ files = {c \in Bufs : mem_type[c] = "disk"}
    /\ \A c \in Bufs : Cardinality({b \in Range(Boxes) : c \in Range(box[b])})
                          + Cardinality({c} \cap hand)
                       = IF mem_type[c] \in {"unborn", "none"} THEN 0 ELSE 1

SpillingIsExact == ChoiceIsExact /\ PlacesAreRight
=============================================================================
