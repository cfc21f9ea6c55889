---------------------------- MODULE BufferResource ----------------------------
(***************************************************************************)
(* rapidsmpf::BufferResource and MemoryReservation, for device memory.     *)
(* A reservation is made in two steps: the allocator is read without the   *)
(* lock, then the decision is taken under mutex_.  make_buffer() allocates *)
(* first and consumes the reservation afterwards.                          *)
(***************************************************************************)
EXTENDS Integers, FiniteSets, FiniteSetsExt

CONSTANTS
    Threads,   \* whoever calls the resource; each holds at most one reservation
    limit      \* memory_limits_[DEVICE]

ASSUME LimitAssumption == limit \in Nat

VARIABLES
    allocated,         \* owning_mr_.current_allocated()
    memory_reserved,   \* memory_reserved_[DEVICE]
    reservation,       \* size_ of the reservation a thread holds
    sampled,           \* what a thread read from memory_available()
    fresh,             \* threads with no allocation since that read (auxiliary)
    overbooked         \* threads that were granted more than there was, although
                       \* they did not allow it and nothing overtook them (auxiliary)

brVars == <<allocated, memory_reserved, reservation, sampled, fresh, overbooked>>

BufferResourceInit ==
    /\ allocated = 0
    /\ memory_reserved = 0
    /\ reservation = [t \in Threads |-> 0]
    /\ sampled = [t \in Threads |-> 0]
    /\ fresh = {}
    /\ overbooked = {}

memory_available == limit - allocated

\* The read of memory_available() that precedes the lock.
sample(t) ==
    /\ sampled' = [sampled EXCEPT ![t] = memory_available]
    /\ fresh' = fresh \cup {t}

\* The value that was read is used once.
forget(t) ==
    /\ sampled' = [sampled EXCEPT ![t] = 0]
    /\ fresh' = fresh \ {t}

\* The value thread t gets once it has the lock.
memory_available_for_reservation(t) == sampled[t] - memory_reserved

\* Mutant: the reservations of others are not counted.
Mut_Headroom(t, size) == sampled[t] - size

Headroom(t, size) == sampled[t] - (memory_reserved + size)

Overbooking(t, size) == IF Headroom(t, size) < 0 THEN -Headroom(t, size) ELSE 0

\* The locked half of a reserve() by thread t, for a reservation that holder gets:
\* granted or not, according to the sample.
reserve(t, holder, size, allow_overbooking) ==
    LET granted == Overbooking(t, size) = 0 \/ allow_overbooking
        exceeds == allocated + memory_reserved + size > limit
    IN  /\ reservation' = [reservation EXCEPT ![holder] = IF granted THEN size ELSE 0]
        /\ memory_reserved' = memory_reserved + reservation'[holder]
        /\ overbooked' = IF granted /\ ~allow_overbooking /\ exceeds /\ t \in fresh
                         THEN overbooked \cup {t}
                         ELSE overbooked
        /\ forget(t)
        /\ UNCHANGED allocated

release(t, size) ==
    /\ size <= reservation[t]
    /\ memory_reserved' = memory_reserved - size
    /\ reservation' = [reservation EXCEPT ![t] = @ - size]
    /\ UNCHANGED <<allocated, sampled, fresh, overbooked>>

\* ~MemoryReservation()
clear(t) == release(t, reservation[t])

\* make_buffer() in two steps: allocate(size) and then release(t, size).
allocate(size) ==
    /\ allocated' = allocated + size
    /\ fresh' = {}
    /\ UNCHANGED <<memory_reserved, reservation, sampled, overbooked>>

deallocate(size) ==
    /\ allocated' = allocated - size
    /\ UNCHANGED <<memory_reserved, reservation, sampled, fresh, overbooked>>

-----------------------------------------------------------------------------
\* The bytes of the live reservations, numbered within each.
HeldBytes == UNION {{t} \X (1 .. reservation[t]) : t \in Threads}

\* BufferResource::release() throws "corrupted reservation stat" otherwise: what
\* is booked is what the live reservations hold, those still in a queue included.
ReservedIsHeld == memory_reserved = Cardinality(HeldBytes)

\* reserve() "returns a reservation of size zero on failure" when overbooking is
\* not allowed: without an allocation between the sample and the lock, what is
\* granted fits beside everything allocated and reserved at that moment.
GrantsFit == overbooked = {}

\* The accounting of reservations is true: it agrees with the reservations that
\* exist, and no decision that it was up to date for has overbooked the device.
AccountingIsTrue == ReservedIsHeld /\ GrantsFit
=============================================================================
