----------------------------- MODULE SpillManager -----------------------------
(***************************************************************************)
(* rapidsmpf::SpillManager with the spill function that a streaming        *)
(* Context registers, and the SpillableMessages it works on.  One spill    *)
(* runs at a time, under the manager's mutex_; a message is looked up      *)
(* under the global lock, moved under its own lock, and its description    *)
(* updated under the global lock again, so insert() and extract() may come *)
(* between any two of these steps.                                         *)
(***************************************************************************)
EXTENDS BufferResource, Sequences, SequencesExt

CONSTANTS
    Messages,    \* message ids; a message is inserted at most once
    MaxSpills    \* bound: the periodic thread spills while fewer have begun

VARIABLES
    items,                 \* keys of items_, in the order of insertion
    content_descriptions,  \* memory type on record of each message in items_
    memory_type,           \* "device" or "host", of a message that exists
    content_size,          \* bytes of a message
    item_locked,           \* the item mutex spill() holds
    spills_in_flight,      \* spills_in_flight_
    spill_generation,      \* spill_generation_
    spill,                 \* the spill that holds mutex_
    begun                  \* spills that found a deficit (auxiliary)

messageVars == <<items, content_descriptions, memory_type, content_size, item_locked>>
managerVars == <<spills_in_flight, spill_generation, spill, begun>>
spillVars == <<messageVars, managerVars>>

Idle == [by |-> "nobody", step |-> "idle", amount |-> 0, spilled |-> 0, todo |-> <<>>]
NoMessage == "none"

SpillInit ==
    /\ items = <<>>
    /\ content_descriptions = [m \in Messages |-> NoMessage]
    /\ memory_type = [m \in Messages |-> NoMessage]
    /\ content_size = [m \in Messages |-> 0]
    /\ item_locked = {}
    /\ spills_in_flight = 0
    /\ spill_generation = 0
    /\ spill = Idle
    /\ begun = 0

-----------------------------------------------------------------------------
(* SpillableMessages.                                                      *)

insert(m, size) ==
    /\ items' = Append(items, m)
    /\ content_descriptions' = [content_descriptions EXCEPT ![m] = "device"]
    /\ memory_type' = [memory_type EXCEPT ![m] = "device"]
    /\ content_size' = [content_size EXCEPT ![m] = size]
    /\ UNCHANGED item_locked

\* The half of extract() under the global lock.
extract_item(m) ==
    /\ items' = RemoveFirst(items, m)
    /\ content_descriptions' = [content_descriptions EXCEPT ![m] = NoMessage]
    /\ UNCHANGED <<memory_type, content_size, item_locked>>

\* The half of extract() under the item's lock: it waits for a spill of the item.
take_message(m) ==
    /\ m \notin item_locked
    /\ memory_type' = [memory_type EXCEPT ![m] = NoMessage]
    /\ content_size' = [content_size EXCEPT ![m] = 0]
    /\ UNCHANGED <<items, content_descriptions, item_locked>>

-----------------------------------------------------------------------------
(* The manager.  A spill measures the deficit, and for each message on     *)
(* record then does find, try_lock, move and update, as long as needed.    *)

\* A spill of what the reservations and allocations exceed the limit by.  spill_messages()
\* works through the content descriptions of that moment.
spill_begin(t) ==
    /\ spill.step = "idle"
    /\ memory_available < memory_reserved
    /\ spill' = [by |-> t, step |-> "find", amount |-> memory_reserved - memory_available,
                 spilled |-> 0, todo |-> items]
    /\ spills_in_flight' = spills_in_flight + 1
    /\ begun' = begun + 1
    /\ UNCHANGED <<messageVars, spill_generation>>

\* There is no deficit any more once the lock is held.
spill_not_needed == spill.step = "idle" /\ memory_available >= memory_reserved

Candidate == Head(spill.todo)
Skip == spill' = [spill EXCEPT !.step = "find", !.todo = Tail(@)]

spill_find ==
    /\ spill.step = "find"
    /\ spill.spilled < spill.amount /\ spill.todo # <<>>
    /\ IF Candidate \in Range(items) THEN spill' = [spill EXCEPT !.step = "try_lock"] ELSE Skip
    /\ UNCHANGED <<brVars, messageVars, spills_in_flight, spill_generation, begun>>

\* The message may have been extracted since it was found: then there is none.
spill_try_lock ==
    /\ spill.step = "try_lock"
    /\ IF memory_type[Candidate] = "device"
       THEN /\ spill' = [spill EXCEPT !.step = "move"]
            /\ item_locked' = item_locked \cup {Candidate}
       ELSE Skip /\ UNCHANGED item_locked
    /\ UNCHANGED <<brVars, items, content_descriptions, memory_type, content_size,
                   spills_in_flight, spill_generation, begun>>

\* The copy on the host is made and the device buffer destroyed.  Memory of the host has no
\* limit here: the reservation for the copy, which would throw without room, is granted.
spill_move ==
    /\ spill.step = "move"
    /\ memory_type' = [memory_type EXCEPT ![Candidate] = "host"]
    /\ item_locked' = item_locked \ {Candidate}
    /\ spill' = [spill EXCEPT !.step = "update", !.spilled = @ + content_size[Candidate]]
    /\ deallocate(content_size[Candidate])
    /\ UNCHANGED <<items, content_descriptions, content_size,
                   spills_in_flight, spill_generation, begun>>

\* Mutant: the record is updated although the message was extracted meanwhile.
Mut_Updated(m) == "host"

Updated(m) == IF m \in Range(items) THEN "host" ELSE content_descriptions[m]

spill_update ==
    /\ spill.step = "update"
    /\ content_descriptions' = [content_descriptions EXCEPT ![Candidate] = Updated(Candidate)]
    /\ Skip
    /\ UNCHANGED <<brVars, items, memory_type, content_size, item_locked,
                   spills_in_flight, spill_generation, begun>>

\* ~InFlightGuard: the generation first, then the count.
spill_bump ==
    /\ spill.step = "find"
    /\ spill.spilled >= spill.amount \/ spill.todo = <<>>
    /\ spill_generation' = spill_generation + 1
    /\ spill' = [spill EXCEPT !.step = "drop"]
    /\ UNCHANGED <<brVars, messageVars, spills_in_flight, begun>>

spill_drop ==
    /\ spill.step = "drop"
    /\ spills_in_flight' = spills_in_flight - 1
    /\ spill' = IF spill.by = "spill_thread" THEN Idle ELSE [spill EXCEPT !.step = "return"]
    /\ UNCHANGED <<brVars, messageVars, spill_generation, begun>>

\* spill_to_make_headroom() returns to its caller and gives the lock back.
spill_return(t) ==
    /\ spill.step = "return" /\ spill.by = t
    /\ spill' = Idle
    /\ UNCHANGED <<messageVars, spills_in_flight, spill_generation, begun>>

\* The thread started by the constructor.
periodic_spill_check ==
    /\ begun < MaxSpills
    /\ spill_begin("spill_thread")
    /\ UNCHANGED brVars

spill_step ==
    \/ spill_find \/ spill_try_lock \/ spill_move \/ spill_update \/ spill_bump \/ spill_drop

-----------------------------------------------------------------------------
\* What SpillableMessages has on record is where the message is, except while
\* spill() is between moving it and updating the record; a message that is gone
\* from the container never gets its record back, whatever spill() was doing.
RecordIsTrue ==
    \A m \in Messages :
        \/ content_descriptions[m] = IF m \in Range(items) THEN memory_type[m] ELSE NoMessage
        \/ /\ spill.step = "update" /\ m = Candidate
           /\ m \in Range(items) /\ content_descriptions[m] = "device"

\* spill_unsafe(): "an observer that sees no spill in flight also sees the new
\* generation".
QuietIsCounted == spills_in_flight = 0 => spill_generation = begun
=============================================================================
