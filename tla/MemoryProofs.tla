---------------------------- MODULE MemoryProofs ----------------------------
(***************************************************************************)
(* Device memory under MemoryReserveOrWait, for any number of callers and  *)
(* any sizes: what is booked is what is held, a grant that nothing         *)
(* overtook fits, the records of SpillableMessages are true, no request is *)
(* without a checker, and no spill the checker waited for is missed.       *)
(***************************************************************************)
EXTENDS MemoryReserveOrWait, ProofLemmas

AtPlaces ==
    {"reserve", "try", "enqueue", "join", "waiting", "zero", "overbook", "spill", "spilling",
     "holding", "allocated", "made", "sent", "extract", "done", "failed"}
CheckPlaces ==
    {"none", "pending", "yield", "pass", "measure", "admit", "judge", "extend", "force",
     "forced", "returned", "done"}
SpillSteps == {"idle", "find", "try_lock", "move", "update", "drop", "return"}

BrTypes ==
    /\ allocated \in Int
    /\ memory_reserved \in Int
    /\ reservation \in [Threads -> Nat]
    /\ sampled \in [Threads -> Int]
    /\ fresh \subseteq Threads

SpillTypes ==
    /\ items \in Seq(Callers)
    /\ content_descriptions \in [Callers -> {"none", "device", "host"}]
    /\ memory_type \in [Callers -> {"none", "device", "host"}]
    /\ content_size \in [Callers -> Nat]
    /\ spills_in_flight \in Nat /\ spill_generation \in Nat /\ begun \in Nat
    /\ spill.step \in SpillSteps
    /\ spill.todo \in Seq(Callers)
    /\ spill = [by |-> spill.by, step |-> spill.step, amount |-> spill.amount,
                spilled |-> spill.spilled, todo |-> spill.todo]

CallTypes ==
    /\ at \in [Callers -> AtPlaces]
    /\ answered \subseteq Callers
    /\ reservation_requests \in Seq(Callers)
    /\ check \in [Checks -> CheckPlaces]
    /\ elapsed \in 0 .. 2
    /\ owed \in {"nothing", "spill runs", "pass is due"}
    /\ window = [extended |-> window.extended, recheck |-> window.recheck,
                 stalled |-> window.stalled, generation |-> window.generation,
                 available |-> window.available]

\* What is booked is what is held, and no decision has gone wrong.
Booked == IsFiniteSet(HeldBytes) /\ ReservedIsHeld /\ GrantsFit

\* A sample that no allocation has followed is at most what is available now.
SamplesHold == \A t \in fresh : sampled[t] <= memory_available

\* A caller holds a reservation of its size, or none.
Holders == {"spill", "spilling", "holding", "allocated"}
Claims ==
    /\ \A c \in Callers : at[c] \in Holders => reservation[c] = Size(c)
    /\ \A c \in Callers : reservation[c] # 0 => at[c] \in Holders \/ c \in answered
    /\ \A c \in answered : reservation[c] \in {0, Size(c)}

\* A request is pending or answered while its caller waits, and not both.
Blocked == {"join", "waiting"}
Pending ==
    /\ IsInjective(reservation_requests)
    /\ \A c \in answered : at[c] \in Blocked
    /\ \A c \in Range(reservation_requests) : at[c] \in Blocked /\ c \notin answered
    /\ \A k \in Checks : check[k] = "admit" => selected \in Range(reservation_requests)
    /\ \A k \in Checks : check[k] = "forced" =>
          /\ selected \in Callers \ Range(reservation_requests)
          /\ at[selected] \in Blocked /\ selected \notin answered

\* The flag says whether a task runs; only a caller's first and only request starts one.
Started == {k \in Checks : check[k] # "none"}
Early == {"reserve", "try", "enqueue"}
Past == {c \in Callers : at[c] \notin Early}
Tasks ==
    /\ \A j, k \in Running : j = k
    /\ Running # {} => periodic_task_running = TRUE
    /\ Running = {} => periodic_task_running = FALSE
    /\ reservation_requests # <<>> => Running # {}
    /\ Cardinality(Started) <= Cardinality(Past)

\* The two counters in each step of a spill.
Counters ==
    /\ spill.step \in {"idle", "return"} => spills_in_flight = 0 /\ spill_generation = begun
    /\ spill.step = "drop" => spills_in_flight = 1 /\ spill_generation = begun
    /\ spill.step \in {"find", "try_lock", "move", "update"} =>
          spills_in_flight = 1 /\ spill_generation + 1 = begun

\* The messages in the container and in the hands of a spill.
Contents ==
    /\ IsInjective(items)
    /\ Range(items) = {c \in Callers : at[c] = "sent"}
    /\ \A m \in Range(spill.todo) : at[m] \in {"sent", "extract", "done"}
    /\ spill.step \in {"try_lock", "move", "update"} => spill.todo # <<>>
    /\ spill.step = "move" => memory_type[Candidate] = "device" /\ Candidate \in item_locked
    /\ spill.step = "update" =>
          memory_type[Candidate] = "host" \/ Candidate \notin Range(items)
    /\ RecordIsTrue

\* The checker's account of the spills it was told to wait for.
Excused == window.stalled \/ elapsed = PastCap
Account ==
    /\ owed = "spill runs" => spills_in_flight > 0 /\ (window.recheck \/ Excused)
    /\ owed = "pass is due" =>
          window.recheck \/ Excused \/ \E k \in Checks : check[k] \in {"pass", "measure"}
    /\ \A k \in Checks : check[k] = "force" => ~ window.recheck

BrInv == BrTypes /\ Booked /\ SamplesHold
SpillInv == SpillTypes /\ Counters /\ Contents
CallInv == CallTypes /\ Claims /\ Pending /\ Tasks /\ Account

\* The inductive invariant.
IInv ==
    /\ BrInv
    /\ SpillInv
    /\ CallInv

-----------------------------------------------------------------------------
(* The buffer resource.                                                    *)

\* HeldBytes, for any reservations.
Bytes(f) == UNION {{t} \X (1 .. f[t]) : t \in Threads}

\* The bytes of the live reservations when one thread with none gets one.
LEMMA BytesOf ==
  ASSUME NEW f \in [Threads -> Nat], NEW g \in [Threads -> Nat], NEW t \in Threads,
         f[t] = 0, \A u \in Threads \ {t} : g[u] = f[u]
  PROVE  /\ IsFiniteSet(Bytes(g)) => IsFiniteSet(Bytes(f))
         /\ IsFiniteSet(Bytes(f)) =>
               IsFiniteSet(Bytes(g)) /\ Cardinality(Bytes(g)) = Cardinality(Bytes(f)) + g[t]
<1> DEFINE New == {t} \X (1 .. g[t])
<1>1. Bytes(g) = Bytes(f) \cup New /\ Bytes(f) \cap New = {}
  <2>1. 1 .. f[t] = {}
    OBVIOUS
  <2>2. ASSUME NEW x PROVE x \in Bytes(g) <=> x \in Bytes(f) \/ x \in New
    <3>1. x \in Bytes(g) <=> \E u \in Threads : x \in {u} \X (1 .. g[u])
      BY DEF Bytes
    <3>2. x \in Bytes(f) <=> \E u \in Threads : x \in {u} \X (1 .. f[u])
      BY DEF Bytes
    <3> QED
      BY <2>1, <3>1, <3>2
  <2>3. ASSUME NEW x \in Bytes(f) PROVE x \notin New
    <3>1. PICK u \in Threads : x \in {u} \X (1 .. f[u])
      BY DEF Bytes
    <3>2. u # t
      BY <2>1, <3>1
    <3> QED
      BY <3>1, <3>2
  <2> QED
    BY <2>2, <2>3
<1>2. IsFiniteSet(New) /\ Cardinality(New) = g[t]
  <2>1. IsFiniteSet({t}) /\ Cardinality({t}) = 1
    BY FS_Singleton
  <2>2. IsFiniteSet(1 .. g[t]) /\ Cardinality(1 .. g[t]) = g[t]
    BY FS_Interval
  <2>3. IsFiniteSet(New) /\ Cardinality(New) = 1 * g[t]
    BY <2>1, <2>2, FS_Product
  <2> QED
    BY <2>3
<1> HIDE DEF New
<1>3. ASSUME IsFiniteSet(Bytes(f))
      PROVE  IsFiniteSet(Bytes(g)) /\ Cardinality(Bytes(g)) = Cardinality(Bytes(f)) + g[t]
  <2>1. /\ IsFiniteSet(Bytes(g))
        /\ Cardinality(Bytes(g)) = Cardinality(Bytes(f)) + g[t] - Cardinality(Bytes(f) \cap New)
    BY <1>1, <1>2, <1>3, FS_Union
  <2>2. Cardinality(Bytes(f) \cap New) = 0
    BY <1>1, FS_EmptySet
  <2>3. Cardinality(Bytes(f)) \in Nat
    BY <1>3, FS_CardinalityType
  <2> QED
    BY <2>1, <2>2, <2>3
<1>4. ASSUME IsFiniteSet(Bytes(g)) PROVE IsFiniteSet(Bytes(f))
  BY <1>1, <1>4, FS_Subset
<1> QED
  BY <1>3, <1>4

\* A read of the allocator leaves the bookkeeping alone, and is true when it is made.
LEMMA sampleBr ==
  ASSUME BrInv, NEW t \in Threads, sample(t),
         UNCHANGED <<allocated, memory_reserved, reservation, overbooked>>
  PROVE  BrInv'
<1> USE LimitAssumption
<1>1. BrTypes' /\ SamplesHold'
  BY DEF BrInv, BrTypes, SamplesHold, sample, memory_available
<1>2. Booked'
  BY DEF BrInv, Booked, HeldBytes, ReservedIsHeld, GrantsFit
<1> QED
  BY <1>1, <1>2 DEF BrInv

\* A sample that is used up leaves the bookkeeping alone.
LEMMA forgetBr ==
  ASSUME BrInv, NEW t \in Threads, forget(t),
         UNCHANGED <<allocated, memory_reserved, reservation, overbooked>>
  PROVE  BrInv'
<1> USE LimitAssumption
<1>1. BrTypes' /\ SamplesHold'
  BY DEF BrInv, BrTypes, SamplesHold, forget, memory_available
<1>2. Booked'
  BY DEF BrInv, Booked, HeldBytes, ReservedIsHeld, GrantsFit
<1> QED
  BY <1>1, <1>2 DEF BrInv

\* The locked half of reserve(): if nothing was allocated since the sample, a grant fits.
LEMMA reserveBr ==
  ASSUME BrInv, NEW t \in Threads, NEW h \in Threads, NEW size \in Nat,
         NEW allow \in BOOLEAN, reservation[h] = 0, reserve(t, h, size, allow)
  PROVE  /\ BrInv'
         /\ reservation' = [reservation EXCEPT ![h] = reservation'[h]]
         /\ reservation'[h] \in {0, size}
         /\ allow => reservation'[h] = size
<1> USE LimitAssumption
<1>1. PICK n \in {0, size} :
        /\ reservation' = [reservation EXCEPT ![h] = n]
        /\ memory_reserved' = memory_reserved + reservation'[h]
        /\ allow => n = size
  BY DEF reserve
<1>2. n \in Nat /\ reservation'[h] = n
  BY <1>1 DEF BrInv, BrTypes
<1>3. BrTypes' /\ SamplesHold'
  BY <1>1, <1>2 DEF BrInv, BrTypes, SamplesHold, reserve, forget, memory_available
<1>4. IsFiniteSet(HeldBytes') /\ Cardinality(HeldBytes') = Cardinality(HeldBytes) + n
  <2>1. reservation \in [Threads -> Nat] /\ reservation' \in [Threads -> Nat]
    BY <1>3 DEF BrInv, BrTypes
  <2>2. IsFiniteSet(HeldBytes)
    BY DEF BrInv, Booked
  <2>3. HeldBytes = Bytes(reservation) /\ HeldBytes' = Bytes(reservation')
    BY DEF HeldBytes, Bytes
  <2>4. \A u \in Threads \ {h} : reservation'[u] = reservation[u]
    BY <1>1, <2>1
  <2>5. IsFiniteSet(Bytes(reservation)) =>
          /\ IsFiniteSet(Bytes(reservation'))
          /\ Cardinality(Bytes(reservation')) = Cardinality(Bytes(reservation)) + n
    BY <1>2, <2>1, <2>4, BytesOf
  <2> QED
    BY <2>2, <2>3, <2>5
<1>5. ReservedIsHeld'
  BY <1>1, <1>2, <1>4 DEF ReservedIsHeld, BrInv, Booked
<1>6. GrantsFit'
  <2>1. CASE t \in fresh /\ ~ allow /\ Overbooking(t, size) = 0
    <3>1. sampled[t] - (memory_reserved + size) >= 0
      BY <2>1 DEF Overbooking, Headroom, BrInv, BrTypes
    <3>2. sampled[t] <= limit - allocated
      BY <2>1 DEF BrInv, SamplesHold, memory_available
    <3>3. ~ (allocated + memory_reserved + size > limit)
      BY <3>1, <3>2 DEF BrInv, BrTypes
    <3> QED
      BY <3>3 DEF reserve, GrantsFit, BrInv, Booked
  <2>2. CASE ~ (t \in fresh /\ ~ allow /\ Overbooking(t, size) = 0)
    BY <2>2 DEF reserve, GrantsFit, BrInv, Booked
  <2> QED
    BY <2>1, <2>2
<1> QED
  BY <1>1, <1>2, <1>3, <1>4, <1>5, <1>6 DEF BrInv, Booked

\* A reservation is given back as a whole.
LEMMA releaseBr ==
  ASSUME BrInv, NEW t \in Threads, release(t, reservation[t])
  PROVE  BrInv' /\ reservation' = [reservation EXCEPT ![t] = 0]
<1> USE LimitAssumption
<1>1. reservation' = [reservation EXCEPT ![t] = 0]
  <2>1. reservation[t] \in Nat
    BY DEF BrInv, BrTypes
  <2>2. reservation[t] - reservation[t] = 0
    BY <2>1
  <2> QED
    BY <2>2 DEF release
<1>2. BrTypes' /\ SamplesHold'
  BY <1>1 DEF BrInv, BrTypes, SamplesHold, release, memory_available
<1>3. /\ IsFiniteSet(HeldBytes')
      /\ Cardinality(HeldBytes) = Cardinality(HeldBytes') + reservation[t]
  <2>1. reservation \in [Threads -> Nat] /\ reservation' \in [Threads -> Nat]
    BY <1>2 DEF BrInv, BrTypes
  <2>2. reservation'[t] = 0 /\ \A u \in Threads \ {t} : reservation[u] = reservation'[u]
    BY <1>1, <2>1
  <2>3. IsFiniteSet(HeldBytes)
    BY DEF BrInv, Booked
  <2>4. HeldBytes = Bytes(reservation) /\ HeldBytes' = Bytes(reservation')
    BY DEF HeldBytes, Bytes
  <2>5. reservation[t] \in Nat
    BY <2>1
  <2> QED
    BY <2>1, <2>2, <2>3, <2>4, <2>5, BytesOf
<1>4. ReservedIsHeld' /\ GrantsFit'
  <2>1. Cardinality(HeldBytes') \in Nat /\ reservation[t] \in Nat
    BY <1>3, FS_CardinalityType DEF BrInv, BrTypes
  <2> QED
    BY <1>3, <2>1 DEF release, ReservedIsHeld, GrantsFit, BrInv, Booked
<1> QED
  BY <1>1, <1>2, <1>3, <1>4 DEF BrInv, Booked

\* After an allocation no sample counts as up to date.
LEMMA allocateBr ==
  ASSUME BrInv, NEW size \in Nat, allocate(size) PROVE BrInv'
<1>1. BrTypes' /\ SamplesHold'
  BY DEF BrInv, BrTypes, SamplesHold, allocate
<1>2. Booked'
  BY DEF BrInv, Booked, HeldBytes, ReservedIsHeld, GrantsFit, allocate
<1> QED
  BY <1>1, <1>2 DEF BrInv

\* What is freed only adds to what a sample found.
LEMMA deallocateBr ==
  ASSUME BrInv, NEW size \in Nat, deallocate(size) PROVE BrInv'
<1> USE LimitAssumption
<1>1. BrTypes' /\ SamplesHold'
  BY DEF BrInv, BrTypes, SamplesHold, deallocate, memory_available
<1>2. Booked'
  BY DEF BrInv, Booked, HeldBytes, ReservedIsHeld, GrantsFit, deallocate
<1> QED
  BY <1>1, <1>2 DEF BrInv

\* A step that leaves the buffer resource alone.
LEMMA idleBr == ASSUME BrInv, UNCHANGED brVars PROVE BrInv'
BY DEF brVars, BrInv, BrTypes, SamplesHold, memory_available, Booked, HeldBytes, ReservedIsHeld,
       GrantsFit

-----------------------------------------------------------------------------
(* The spill manager and SpillableMessages.                                *)

\* No caller inserts or extracts a message.
MessagesStay ==
    \A m \in Callers :
        at'[m] = at[m] \/ (at[m] \notin {"sent", "extract", "done"} /\ at'[m] # "sent")

\* The candidate of a spill is a message.
LEMMA HeadIsCaller ==
  ASSUME NEW q \in Seq(Callers), q # <<>>
  PROVE  Head(q) \in Range(q) /\ Head(q) \in Callers
<1>1. Head(q) \in Callers
  OBVIOUS
<1> QED
  BY <1>1, RangeOfTail

\* A step that leaves messages and spills alone.
LEMMA idleSpill ==
  ASSUME SpillInv, MessagesStay, UNCHANGED spillVars PROVE SpillInv'
<1> USE DEF spillVars, messageVars, managerVars
<1>1. SpillTypes' /\ Counters'
  BY DEF SpillInv, SpillTypes, Counters
<1>2. Range(items) = {c \in Callers : at'[c] = "sent"}
  BY DEF SpillInv, Contents, MessagesStay
<1>3. \A m \in Range(spill.todo) : at'[m] \in {"sent", "extract", "done"}
  BY RangeOfSeq DEF SpillInv, SpillTypes, Contents, MessagesStay
<1>4. RecordIsTrue'
  BY DEF SpillInv, Contents, RecordIsTrue, Candidate
<1>5. Contents'
  BY <1>2, <1>3, <1>4 DEF SpillInv, Contents, Candidate
<1> QED
  BY <1>1, <1>5 DEF SpillInv

\* insert(): the message is new to the container and to the spill.
LEMMA insertSpill ==
  ASSUME SpillInv, NEW c \in Callers, NEW size \in Nat, at[c] = "made",
         at' = [at EXCEPT ![c] = "sent"], at \in [Callers -> AtPlaces],
         insert(c, size), UNCHANGED managerVars
  PROVE  SpillInv'
<1> USE CallersAssumption DEF managerVars
<1>1. c \notin Range(items)
  BY DEF SpillInv, Contents
<1>2. /\ items' \in Seq(Callers) /\ IsInjective(items')
      /\ Range(items') = Range(items) \cup {c}
  BY <1>1, AppendFresh DEF insert, SpillInv, SpillTypes, Contents
<1>3. SpillTypes' /\ Counters'
  BY <1>2 DEF SpillInv, SpillTypes, Counters, insert
<1>4. c \notin Range(spill.todo)
  BY DEF SpillInv, Contents
<1>5. spill.step \in {"try_lock", "move", "update"} => Candidate # c
  BY <1>4, HeadIsCaller DEF SpillInv, SpillTypes, Contents, Candidate
<1>6. RecordIsTrue'
  BY <1>2, <1>5 DEF SpillInv, SpillTypes, Contents, RecordIsTrue, Candidate, insert
<1>7. Range(items') = {d \in Callers : at'[d] = "sent"}
  BY <1>2 DEF SpillInv, Contents
<1>8. \A m \in Range(spill.todo) : at'[m] \in {"sent", "extract", "done"}
  BY <1>4, RangeOfSeq DEF SpillInv, SpillTypes, Contents
<1>9. Contents'
  <2>1. \A m \in Callers \ {c} : memory_type'[m] = memory_type[m]
    BY DEF SpillInv, SpillTypes, insert
  <2>2. spill.step \in {"try_lock", "move", "update"} =>
           /\ Candidate \in Callers \ {c}
           /\ Candidate \in Range(items') <=> Candidate \in Range(items)
    BY <1>2, <1>5, HeadIsCaller DEF SpillInv, SpillTypes, Contents, Candidate
  <2>3. UNCHANGED <<spill, item_locked, Candidate>>
    BY DEF insert, Candidate
  <2>4. Contents
    BY DEF SpillInv
  <2> QED
    BY <1>2, <1>6, <1>7, <1>8, <2>1, <2>2, <2>3, <2>4 DEF Contents
<1> QED
  BY <1>3, <1>9 DEF SpillInv

\* extract(), first half: the record goes with the entry, even during a spill.
LEMMA extract_itemSpill ==
  ASSUME SpillInv, NEW c \in Callers, at[c] = "sent",
         at' = [at EXCEPT ![c] = "extract"], at \in [Callers -> AtPlaces],
         extract_item(c), UNCHANGED managerVars
  PROVE  SpillInv'
<1> USE CallersAssumption DEF managerVars, NoMessage
<1>1. /\ items' \in Seq(Callers) /\ IsInjective(items')
      /\ Range(items') = Range(items) \ {c}
  BY RemoveFirstProperties DEF extract_item, SpillInv, SpillTypes, Contents
<1>2. SpillTypes' /\ Counters'
  BY <1>1 DEF SpillInv, SpillTypes, Counters, extract_item
<1>3. RecordIsTrue'
  BY <1>1 DEF SpillInv, SpillTypes, Contents, RecordIsTrue, Candidate, extract_item
<1>4. Range(items') = {d \in Callers : at'[d] = "sent"}
  BY <1>1 DEF SpillInv, Contents
<1>5. \A m \in Range(spill.todo) : at'[m] \in {"sent", "extract", "done"}
  BY RangeOfSeq DEF SpillInv, SpillTypes, Contents
<1>6. Contents'
  BY <1>1, <1>3, <1>4, <1>5 DEF SpillInv, SpillTypes, Contents, Candidate, extract_item
<1> QED
  BY <1>2, <1>6 DEF SpillInv

\* extract(), second half: the item lock keeps it from a message being moved.
LEMMA take_messageSpill ==
  ASSUME SpillInv, NEW c \in Callers, at[c] = "extract",
         at' = [at EXCEPT ![c] = "done"], at \in [Callers -> AtPlaces],
         take_message(c), UNCHANGED managerVars
  PROVE  SpillInv'
<1> USE CallersAssumption DEF managerVars, NoMessage
<1>1. c \notin Range(items)
  BY DEF SpillInv, Contents
<1>2. SpillTypes' /\ Counters'
  BY DEF SpillInv, SpillTypes, Counters, take_message
<1>3. RecordIsTrue'
  BY <1>1 DEF SpillInv, SpillTypes, Contents, RecordIsTrue, Candidate, take_message
<1>4. Range(items') = {d \in Callers : at'[d] = "sent"}
  BY DEF SpillInv, Contents, take_message
<1>5. \A m \in Range(spill.todo) : at'[m] \in {"sent", "extract", "done"}
  BY RangeOfSeq DEF SpillInv, SpillTypes, Contents
<1>6. Contents'
  <2>1. UNCHANGED <<items, spill, item_locked, Candidate>>
    BY DEF take_message, Candidate
  <2>2. spill.step \in {"try_lock", "move", "update"} => Candidate \in Callers
    BY HeadIsCaller DEF SpillInv, SpillTypes, Contents, Candidate
  <2>3. spill.step = "move" => memory_type'[Candidate] = memory_type[Candidate]
    BY <2>2 DEF SpillInv, SpillTypes, Contents, take_message
  <2>4. spill.step = "update" /\ Candidate \in Range(items)
           => memory_type'[Candidate] = memory_type[Candidate]
    BY <1>1, <2>2 DEF SpillInv, SpillTypes, take_message
  <2>5. Contents
    BY DEF SpillInv
  <2> QED
    BY <1>3, <1>4, <1>5, <2>1, <2>3, <2>4, <2>5 DEF Contents
<1> QED
  BY <1>2, <1>6 DEF SpillInv

\* A spill starts on the messages on record.
LEMMA spill_beginSpill ==
  ASSUME SpillInv, MessagesStay, NEW t, spill_begin(t) PROVE SpillInv'
<1> USE DEF messageVars
<1>1. SpillTypes' /\ Counters'
  BY DEF SpillInv, SpillTypes, SpillSteps, Counters, spill_begin
<1>2. Range(items') = {c \in Callers : at'[c] = "sent"}
  BY DEF SpillInv, Contents, MessagesStay, spill_begin
<1>3. \A m \in Range(items) : at'[m] = "sent"
  BY <1>2 DEF spill_begin
<1>4. RecordIsTrue'
  BY DEF SpillInv, Contents, RecordIsTrue, spill_begin
<1>5. Contents'
  BY <1>2, <1>3, <1>4 DEF SpillInv, Contents, spill_begin
<1> QED
  BY <1>1, <1>5 DEF SpillInv

\* spill_to_make_headroom() returns with the counters settled.
LEMMA spill_returnSpill ==
  ASSUME SpillInv, MessagesStay, NEW t, spill_return(t) PROVE SpillInv'
<1> USE DEF messageVars
<1>1. SpillTypes' /\ Counters'
  BY DEF SpillInv, SpillTypes, SpillSteps, Counters, spill_return, Idle
<1>2. Range(items') = {c \in Callers : at'[c] = "sent"}
  BY DEF SpillInv, Contents, MessagesStay, spill_return
<1>3. RecordIsTrue'
  BY DEF SpillInv, Contents, RecordIsTrue, spill_return, Idle
<1>4. Range(<<>>) = {}
  BY DEF Range
<1>5. Contents'
  BY <1>2, <1>3, <1>4 DEF SpillInv, Contents, spill_return, Idle
<1> QED
  BY <1>1, <1>5 DEF SpillInv

\* The candidate is dropped and the spill goes on with the next.
Skipped ==
    /\ spill' = [by |-> spill'.by, step |-> "find", amount |-> spill'.amount,
                 spilled |-> spill'.spilled, todo |-> spill'.todo]
    /\ spill'.todo \in Seq(Callers)
    /\ Range(spill'.todo) \subseteq Range(spill.todo)

\* Skipping the candidate keeps the rest of the record.
LEMMA SkipSpill == ASSUME SpillInv, Skip, spill.todo # <<>> PROVE Skipped
<1>1. spill' = [by |-> spill.by, step |-> "find", amount |-> spill.amount,
                spilled |-> spill.spilled, todo |-> Tail(spill.todo)]
  BY DEF Skip, SpillInv, SpillTypes
<1>2. spill.todo \in Seq(Callers)
  BY DEF SpillInv, SpillTypes
<1>3. /\ Tail(spill.todo) \in Seq(Callers)
      /\ Range(Tail(spill.todo)) \subseteq Range(spill.todo)
  BY <1>2, RangeOfTail
<1> QED
  BY <1>1, <1>3 DEF Skipped

\* Each step of a spill, whatever was inserted or extracted since the last.
LEMMA spill_stepInv ==
  ASSUME BrInv, SpillInv, spill_step, UNCHANGED at PROVE BrInv' /\ SpillInv'
<1> USE CallersAssumption DEF messageVars
<1>1. CASE spill_find
  <2>1. BrInv'
    BY <1>1, idleBr DEF spill_find
  <2>2. CASE Candidate \in Range(items)
    <3>1. spill' = [spill EXCEPT !.step = "try_lock"]
      BY <1>1, <2>2 DEF spill_find
    <3>2. SpillTypes' /\ Counters'
      BY <1>1, <3>1 DEF spill_find, SpillInv, SpillTypes, SpillSteps, Counters
    <3>3. Contents'
      BY <1>1, <3>1 DEF spill_find, SpillInv, SpillTypes, Contents, RecordIsTrue, Candidate
    <3> QED
      BY <2>1, <3>2, <3>3 DEF SpillInv
  <2>3. CASE Candidate \notin Range(items)
    <3>1. Skip /\ spill.todo # <<>>
      BY <1>1, <2>3 DEF spill_find
    <3>2. Skipped
      BY <3>1, SkipSpill
    <3>3. SpillTypes' /\ Counters'
      BY <1>1, <3>2 DEF spill_find, Skipped, SpillInv, SpillTypes, SpillSteps, Counters
    <3>4. Contents'
      BY <1>1, <3>2 DEF spill_find, Skipped, SpillInv, SpillTypes, Contents, RecordIsTrue
    <3> QED
      BY <2>1, <3>3, <3>4 DEF SpillInv
  <2> QED
    BY <2>2, <2>3
<1>2. CASE spill_try_lock
  <2>1. BrInv'
    BY <1>2, idleBr DEF spill_try_lock
  <2>2. CASE memory_type[Candidate] = "device"
    <3>1. spill' = [spill EXCEPT !.step = "move"] /\ item_locked' = item_locked \cup {Candidate}
      BY <1>2, <2>2 DEF spill_try_lock
    <3>2. SpillTypes' /\ Counters'
      BY <1>2, <3>1 DEF spill_try_lock, SpillInv, SpillTypes, SpillSteps, Counters
    <3>3. Contents'
      BY <1>2, <2>2, <3>1
      DEF spill_try_lock, SpillInv, SpillTypes, Contents, RecordIsTrue, Candidate
    <3> QED
      BY <2>1, <3>2, <3>3 DEF SpillInv
  <2>3. CASE memory_type[Candidate] # "device"
    <3>1. Skip /\ spill.todo # <<>>
      BY <1>2, <2>3 DEF spill_try_lock, SpillInv, Contents
    <3>2. Skipped
      BY <3>1, SkipSpill
    <3>3. SpillTypes' /\ Counters'
      BY <1>2, <3>2 DEF spill_try_lock, Skipped, SpillInv, SpillTypes, SpillSteps, Counters
    <3>4. Contents'
      BY <1>2, <3>2 DEF spill_try_lock, Skipped, SpillInv, SpillTypes, Contents, RecordIsTrue
    <3> QED
      BY <2>1, <3>3, <3>4 DEF SpillInv
  <2> QED
    BY <2>2, <2>3
<1>3. CASE spill_move
  <2>1. spill.todo # <<>> /\ Candidate \in Callers /\ memory_type[Candidate] = "device"
    BY <1>3, HeadIsCaller DEF spill_move, SpillInv, SpillTypes, Contents, Candidate
  <2>2. BrInv'
    BY <1>3, <2>1, deallocateBr DEF spill_move, SpillInv, SpillTypes
  <2>3. SpillTypes' /\ Counters' /\ spill'.todo = spill.todo /\ spill'.step = "update"
    BY <1>3, <2>1 DEF spill_move, SpillInv, SpillTypes, SpillSteps, Counters
  <2>4. memory_type'[Candidate] = "host"
    BY <1>3, <2>1 DEF spill_move, SpillInv, SpillTypes
  <2>5. RecordIsTrue'
    BY <1>3, <2>1, <2>3
    DEF spill_move, SpillInv, SpillTypes, Contents, RecordIsTrue, Candidate, NoMessage
  <2>6. Contents'
    BY <1>3, <2>1, <2>3, <2>4, <2>5 DEF spill_move, SpillInv, Contents, Candidate
  <2> QED
    BY <2>2, <2>3, <2>6 DEF SpillInv
<1>4. CASE spill_update
  <2>1. BrInv'
    BY <1>4, idleBr DEF spill_update
  <2>2. /\ spill.todo # <<>> /\ Candidate \in Callers
        /\ memory_type[Candidate] = "host" \/ Candidate \notin Range(items)
    BY <1>4, HeadIsCaller DEF spill_update, SpillInv, SpillTypes, Contents, Candidate
  <2>3. Skipped
    BY <1>4, <2>2, SkipSpill DEF spill_update
  <2>4. SpillTypes'
    BY <1>4, <2>2, <2>3 DEF spill_update, Updated, Skipped, SpillInv, SpillTypes, SpillSteps
  <2>5. Counters'
    BY <1>4, <2>3 DEF spill_update, Skipped, SpillInv, Counters
  <2>6. RecordIsTrue'
    <3> SUFFICES ASSUME NEW m \in Callers
                 PROVE  content_descriptions'[m] =
                            IF m \in Range(items) THEN memory_type[m] ELSE NoMessage
      BY <1>4 DEF spill_update, RecordIsTrue
    <3>1. CASE m = Candidate
      BY <1>4, <2>2, <3>1
      DEF spill_update, Updated, SpillInv, SpillTypes, Contents, RecordIsTrue, NoMessage
    <3>2. CASE m # Candidate
      BY <1>4, <2>2, <3>2 DEF spill_update, SpillInv, SpillTypes, Contents, RecordIsTrue
    <3> QED
      BY <3>1, <3>2
  <2>7. Contents'
    BY <1>4, <2>3, <2>6 DEF spill_update, Skipped, SpillInv, Contents
  <2> QED
    BY <2>1, <2>4, <2>5, <2>7 DEF SpillInv
<1>5. CASE spill_bump
  <2>1. BrInv'
    BY <1>5, idleBr DEF spill_bump
  <2>2. SpillTypes' /\ Counters'
    BY <1>5 DEF spill_bump, SpillInv, SpillTypes, SpillSteps, Counters
  <2>3. Contents'
    BY <1>5 DEF spill_bump, SpillInv, SpillTypes, Contents, RecordIsTrue
  <2> QED
    BY <2>1, <2>2, <2>3 DEF SpillInv
<1>6. CASE spill_drop
  <2>1. BrInv'
    BY <1>6, idleBr DEF spill_drop
  <2>2. /\ spill'.step \in {"idle", "return"}
        /\ Range(spill'.todo) \subseteq Range(spill.todo)
        /\ spill'.todo \in Seq(Callers)
    BY <1>6 DEF spill_drop, SpillInv, SpillTypes, Idle, Range
  <2>3. SpillTypes' /\ Counters'
    <3>1. spill' = [by |-> spill'.by, step |-> spill'.step, amount |-> spill'.amount,
                    spilled |-> spill'.spilled, todo |-> spill'.todo]
      BY <1>6 DEF spill_drop, SpillInv, SpillTypes, Idle
    <3> QED
      BY <1>6, <2>2, <3>1 DEF spill_drop, SpillInv, SpillTypes, SpillSteps, Counters
  <2>4. Contents'
    BY <1>6, <2>2 DEF spill_drop, SpillInv, SpillTypes, Contents, RecordIsTrue
  <2> QED
    BY <2>1, <2>3, <2>4 DEF SpillInv
<1> QED
  BY <1>1, <1>2, <1>3, <1>4, <1>5, <1>6 DEF spill_step

-----------------------------------------------------------------------------
(* The callers.                                                            *)

\* The callers and the tasks can be counted.
LEMMA FiniteCounts ==
  /\ \A S \in SUBSET Callers : IsFiniteSet(S) /\ Cardinality(S) \in Nat
  /\ \A S \in SUBSET Checks : IsFiniteSet(S) /\ Cardinality(S) \in Nat
  /\ Cardinality(Checks) = Cardinality(Callers)
<1> USE CallersAssumption
<1>1. Cardinality(Callers) \in Nat
  BY FS_CardinalityType
<1>2. IsFiniteSet(Checks) /\ Cardinality(Checks) = Cardinality(Callers)
  BY <1>1, FS_Interval DEF Checks
<1> QED
  BY <1>2, FS_Subset, FS_CardinalityType

\* As many callers have got past their request as before, or more.
LEMMA PastGrows ==
  ASSUME Past \subseteq Past'
  PROVE  Cardinality(Past) <= Cardinality(Past')
<1>1. IsFiniteSet(Past')
  BY FiniteCounts DEF Past
<1> QED
  BY <1>1, FS_Subset

\* A caller that does not wait moves on, with the reservation that goes with its place.
LEMMA callerMoves ==
  ASSUME BrTypes, CallInv, NEW c \in Callers, NEW place \in AtPlaces \ Blocked,
         at' = [at EXCEPT ![c] = place],
         at[c] \notin Blocked, at[c] \in Early \/ place \notin Early,
         reservation' = [reservation EXCEPT ![c] = IF place \in Holders THEN Size(c) ELSE 0],
         UNCHANGED <<requestVars, checkVars>>,
         \/ spills_in_flight' = spills_in_flight
         \/ spills_in_flight' \in Nat /\ spills_in_flight' > 0
  PROVE  CallInv'
<1> USE CallersAssumption DEF requestVars, checkVars
<1>1. c \in Threads /\ reservation \in [Threads -> Nat]
  BY DEF BrTypes
<1>2. CallTypes'
  BY DEF CallInv, CallTypes
<1>3. c \notin answered /\ c \notin Range(reservation_requests)
  BY DEF CallInv, Pending
<1>4. Claims'
  <2>1. /\ at'[c] = place
        /\ reservation'[c] = IF place \in Holders THEN Size(c) ELSE 0
        /\ \A d \in Callers \ {c} : at'[d] = at[d] /\ reservation'[d] = reservation[d]
    BY <1>1 DEF CallInv, CallTypes
  <2>2. answered' = answered /\ answered \subseteq Callers \ {c} /\ Claims
    BY <1>3 DEF CallInv, CallTypes
  <2> QED
    BY <2>1, <2>2 DEF Claims
<1>5. Pending'
  BY <1>3, RangeOfSeq DEF CallInv, CallTypes, Pending
<1>6. Past \subseteq Past'
  BY DEF CallInv, CallTypes, Past
<1>7. Running' = Running /\ Started' = Started
  BY DEF Running, Started
<1>8. Cardinality(Started') <= Cardinality(Past')
  <2>1. Cardinality(Past) \in Nat /\ Cardinality(Past') \in Nat /\ Cardinality(Started) \in Nat
    BY FiniteCounts DEF Past, Started
  <2> QED
    BY <1>6, <1>7, <2>1, PastGrows DEF CallInv, Tasks
<1>9. Tasks'
  BY <1>7, <1>8 DEF CallInv, Tasks
<1>10. Account'
  BY DEF CallInv, Account, Excused
<1> QED
  BY <1>2, <1>4, <1>5, <1>9, <1>10 DEF CallInv

\* enqueue(): there is a task slot left whenever a task has to be started.
LEMMA enqueueInv == ASSUME IInv, NEW c \in Callers, enqueue(c) PROVE IInv'
<1> USE CallersAssumption DEF checkVars
<1>1. BrInv'
  BY idleBr DEF IInv, enqueue
<1>2. /\ at[c] = "enqueue" /\ Unlocked
      /\ c \notin answered /\ c \notin Range(reservation_requests) /\ reservation[c] = 0
      /\ at \in [Callers -> AtPlaces]
  BY DEF IInv, enqueue, CallInv, CallTypes, Pending, Claims, Holders, Blocked
<1>3. PICK place \in Blocked : at' = [at EXCEPT ![c] = place]
  BY DEF enqueue, Goto, Blocked
<1>4. SpillInv'
  <2>1. MessagesStay
    BY <1>2, <1>3 DEF MessagesStay, Blocked
  <2> QED
    BY <2>1, idleSpill DEF IInv, enqueue
<1>5. /\ reservation_requests' \in Seq(Callers) /\ IsInjective(reservation_requests')
      /\ Range(reservation_requests') = Range(reservation_requests) \cup {c}
  <2>1. reservation_requests \in Seq(Callers) /\ IsInjective(reservation_requests)
    BY DEF IInv, CallInv, CallTypes, Pending
  <2> QED
    BY <1>2, <2>1, AppendFresh DEF enqueue
<1>6. Past' = Past \cup {c} /\ c \notin Past
  BY <1>2, <1>3 DEF Past, Early, Blocked
<1>7. reservation' = reservation
  BY DEF enqueue, brVars
<1>8. CASE periodic_task_running = TRUE
  <2>1. UNCHANGED <<check, periodic_task_running>> /\ Running # {}
    BY <1>8 DEF enqueue, IInv, CallInv, Tasks
  <2>2. CallTypes'
    BY <1>2, <1>3, <1>5, <2>1 DEF IInv, CallInv, CallTypes, enqueue, AtPlaces, Blocked
  <2>3. Claims'
    BY <1>2, <1>3, <1>7 DEF IInv, CallInv, CallTypes, Claims, enqueue, Holders, Blocked
  <2>4. Pending'
    <3>1. \A d \in Callers \ {c} : at'[d] = at[d]
      BY <1>2, <1>3
    <3>2. at'[c] \in Blocked
      BY <1>2, <1>3
    <3>3. answered' = answered /\ selected' = selected /\ check' = check
      BY <2>1 DEF enqueue
    <3>4. Range(reservation_requests) \subseteq Callers /\ answered \subseteq Callers
      BY RangeOfSeq DEF IInv, CallInv, CallTypes
    <3>5. \A k \in Checks : check[k] = "forced" => selected # c
      BY <1>2 DEF IInv, CallInv, Pending, Blocked
    <3> QED
      BY <1>2, <1>5, <3>1, <3>2, <3>3, <3>4, <3>5 DEF IInv, CallInv, Pending
  <2>5. Running' = Running /\ Started' = Started
    BY <2>1 DEF Running, Started
  <2>6. Cardinality(Started') <= Cardinality(Past')
    <3>1. Cardinality(Past) \in Nat /\ Cardinality(Past') \in Nat /\ Cardinality(Started) \in Nat
      BY FiniteCounts DEF Past, Started
    <3> QED
      BY <1>6, <2>5, <3>1, PastGrows DEF IInv, CallInv, Tasks
  <2>7. Tasks'
    BY <2>1, <2>5, <2>6 DEF IInv, CallInv, Tasks
  <2>8. Account'
    BY <2>1 DEF IInv, CallInv, Account, Excused, enqueue, spillVars, managerVars
  <2> QED
    BY <1>1, <1>4, <2>2, <2>3, <2>4, <2>7, <2>8 DEF IInv, CallInv
<1>9. CASE periodic_task_running # TRUE
  <2>1. Running = {} /\ reservation_requests = <<>>
    BY <1>9 DEF IInv, CallInv, Tasks
  <2>2. \E j \in Checks : check[j] = "none"
    <3>1. Cardinality(Past) < Cardinality(Callers)
      <4>1. Past \subseteq Callers /\ Past # Callers
        BY <1>6 DEF Past
      <4>2. Cardinality(Past) \in Nat /\ Cardinality(Callers) \in Nat
        BY FiniteCounts DEF Past
      <4> QED
        BY <4>1, <4>2, FS_Subset
    <3>2. Cardinality(Started) < Cardinality(Checks)
      <4>1. /\ Cardinality(Past) \in Nat /\ Cardinality(Started) \in Nat
            /\ Cardinality(Checks) = Cardinality(Callers) /\ Cardinality(Callers) \in Nat
        BY FiniteCounts DEF Past, Started
      <4> QED
        BY <3>1, <4>1 DEF IInv, CallInv, Tasks
    <3>3. Started # Checks
      <4>1. Cardinality(Checks) \in Nat
        BY FiniteCounts
      <4> QED
        BY <3>2, <4>1
    <3> QED
      BY <3>3 DEF Started
  <2>3. PICK k \in Checks : check[k] = "none" /\ check' = [check EXCEPT ![k] = "pending"]
    <3> DEFINE Free == {j \in Checks : check[j] = "none"}
    <3>1. Free \in SUBSET Nat /\ Free # {}
      BY <2>2 DEF Checks
    <3>2. Min(Free) \in Free
      BY <3>1, MinIsLeast
    <3>3. check' = [check EXCEPT ![Min(Free)] = "pending"]
      BY <1>9 DEF enqueue
    <3> QED
      BY <3>2, <3>3
  <2>4. check \in [Checks -> CheckPlaces] /\ check' \in [Checks -> CheckPlaces]
    BY <2>3 DEF IInv, CallInv, CallTypes, CheckPlaces
  <2>5. CallTypes'
    BY <1>2, <1>3, <1>5, <2>4 DEF IInv, CallInv, CallTypes, enqueue, AtPlaces, Blocked
  <2>6. Claims'
    BY <1>2, <1>3, <1>7 DEF IInv, CallInv, CallTypes, Claims, enqueue, Holders, Blocked
  <2>7. \A j \in Checks : check'[j] \notin {"admit", "forced"}
    BY <2>1, <2>3, <2>4 DEF Running
  <2>8. Pending'
    BY <1>2, <1>3, <1>5, <2>7, RangeOfSeq DEF IInv, CallInv, CallTypes, Pending, enqueue
  <2>9. Running' = {k}
    BY <2>1, <2>3, <2>4 DEF Running
  <2>10. Cardinality(Started') <= Cardinality(Past')
    <3>1. Started' = Started \cup {k} /\ k \notin Started
      BY <2>3, <2>4 DEF Started
    <3>2. /\ IsFiniteSet(Past) /\ Cardinality(Past) \in Nat
          /\ IsFiniteSet(Started) /\ Cardinality(Started) \in Nat
      BY FiniteCounts DEF Past, Started
    <3>3. /\ Cardinality(Past') = Cardinality(Past) + 1
          /\ Cardinality(Started') = Cardinality(Started) + 1
      BY <1>6, <3>1, <3>2, FS_AddElement
    <3> QED
      BY <3>2, <3>3 DEF IInv, CallInv, Tasks
  <2>11. Tasks'
    BY <2>9, <2>10 DEF Tasks, enqueue
  <2>12. Account'
    BY <2>3, <2>4 DEF IInv, CallInv, Account, Excused, enqueue, spillVars, managerVars
  <2> QED
    BY <1>1, <1>4, <2>5, <2>6, <2>8, <2>11, <2>12 DEF IInv, CallInv
<1> QED
  BY <1>8, <1>9

\* A caller that waits moves on within its wait, or out of it.
LEMMA waitingMoves ==
  ASSUME BrTypes, CallInv, NEW c \in Callers, NEW place \in AtPlaces \ Early,
         at[c] \in Blocked, at' = [at EXCEPT ![c] = place],
         \/ place \in Blocked /\ answered' = answered
         \/ /\ place \notin Blocked
            /\ c \notin Range(reservation_requests)
            /\ \A k \in Checks : check[k] = "forced" => selected # c
            /\ answered' = answered \ {c}
            /\ place \in Holders => reservation[c] = Size(c)
            /\ place \notin Holders => reservation[c] = 0,
         UNCHANGED <<reservation, reservation_requests, periodic_task_running,
                     checkVars, spills_in_flight>>
  PROVE  CallInv'
<1> USE CallersAssumption DEF checkVars
<1>1. CallTypes'
  BY DEF CallInv, CallTypes
<1>2. Claims'
  BY DEF CallInv, CallTypes, Claims, Blocked, Holders
<1>3. Pending'
  <2>1. Range(reservation_requests) \subseteq Callers /\ answered \subseteq Callers
    BY RangeOfSeq DEF CallInv, CallTypes
  <2>2. at'[c] = place /\ \A d \in Callers \ {c} : at'[d] = at[d]
    BY DEF CallInv, CallTypes
  <2> QED
    BY <2>1, <2>2 DEF CallInv, Pending
<1>4. Past \subseteq Past'
  BY DEF CallInv, CallTypes, Past
<1>5. Running' = Running /\ Started' = Started
  BY DEF Running, Started
<1>6. Cardinality(Started') <= Cardinality(Past')
  <2>1. Cardinality(Past) \in Nat /\ Cardinality(Past') \in Nat /\ Cardinality(Started) \in Nat
    BY FiniteCounts DEF Past, Started
  <2> QED
    BY <1>4, <1>5, <2>1, PastGrows DEF CallInv, Tasks
<1>7. Tasks'
  BY <1>5, <1>6 DEF CallInv, Tasks
<1>8. Account'
  BY DEF CallInv, Account, Excused
<1> QED
  BY <1>1, <1>2, <1>3, <1>7, <1>8 DEF CallInv

\* join_previous(), pop() and pop_throws(): the caller of a request.
LEMMA waitingInv ==
  ASSUME IInv, NEW c \in Callers, join_previous(c) \/ pop(c) \/ pop_throws(c) PROVE IInv'
<1> USE CallersAssumption DEF requestVars, spillVars, managerVars
<1>0. at \in [Callers -> AtPlaces]
  BY DEF IInv, CallInv, CallTypes
<1>1. CASE join_previous(c)
  <2>1. at[c] \in Blocked /\ at' = [at EXCEPT ![c] = "waiting"]
    BY <1>1 DEF join_previous, Goto, Blocked
  <2>2. MessagesStay
    BY <1>0, <2>1 DEF MessagesStay, Blocked
  <2>3. CallInv'
    BY <1>1, <2>1, waitingMoves
    DEF IInv, BrInv, join_previous, brVars, AtPlaces, Early, Blocked
  <2> QED
    BY <1>1, <2>2, <2>3, idleBr, idleSpill DEF IInv, join_previous
<1>2. CASE pop(c)
  <2>1. at[c] = "waiting" /\ c \in answered /\ reservation[c] \in {0, Size(c)}
    BY <1>2 DEF pop, IInv, CallInv, Claims
  <2>2. PICK place \in {"holding", "zero"} :
          /\ at' = [at EXCEPT ![c] = place]
          /\ place = "holding" <=> reservation[c] = Size(c)
    BY <1>2 DEF pop, Goto
  <2>3. MessagesStay
    BY <1>0, <2>1, <2>2 DEF MessagesStay
  <2>4. /\ c \notin Range(reservation_requests)
        /\ \A k \in Checks : check[k] = "forced" => selected # c
    BY <2>1 DEF IInv, CallInv, Pending
  <2>5. /\ place \in AtPlaces \ Early /\ place \notin Blocked /\ at[c] \in Blocked
        /\ place \in Holders => reservation[c] = Size(c)
        /\ place \notin Holders => reservation[c] = 0
    BY <2>1, <2>2 DEF AtPlaces, Early, Blocked, Holders
  <2>6. CallInv'
    <3>1. UNCHANGED <<reservation, reservation_requests, periodic_task_running, checkVars,
                      spills_in_flight>> /\ answered' = answered \ {c}
      BY <1>2 DEF pop, brVars
    <3> QED
      BY <2>2, <2>4, <2>5, <3>1, waitingMoves DEF IInv, BrInv
  <2> QED
    BY <1>2, <2>3, <2>6, idleBr, idleSpill DEF IInv, pop
<1>3. CASE pop_throws(c)
  <2>1. /\ at[c] = "waiting" /\ c \notin answered /\ c \notin Range(reservation_requests)
        /\ selected # c /\ at' = [at EXCEPT ![c] = "failed"]
    BY <1>3 DEF pop_throws, Goto
  <2>2. reservation[c] = 0
    BY <2>1 DEF IInv, CallInv, Claims, Holders
  <2>3. MessagesStay
    BY <1>0, <2>1 DEF MessagesStay
  <2>4. CallInv'
    <3>1. UNCHANGED <<reservation, reservation_requests, periodic_task_running, checkVars,
                      spills_in_flight>> /\ answered' = answered \ {c}
      BY <1>3, <2>1 DEF pop_throws, brVars
    <3>2. /\ "failed" \in AtPlaces \ Early /\ "failed" \notin Blocked /\ at[c] \in Blocked
          /\ "failed" \notin Holders
      BY <2>1 DEF AtPlaces, Early, Blocked, Holders
    <3> QED
      BY <2>1, <2>2, <3>1, <3>2, waitingMoves DEF IInv, BrInv
  <2> QED
    BY <1>3, <2>3, <2>4, idleBr, idleSpill DEF IInv, pop_throws
<1> QED
  BY <1>1, <1>2, <1>3

\* What callerMoves needs of a caller that holds nothing, and of one that holds its size.
LEMMA HoldsNothing ==
  ASSUME IInv, NEW c \in Callers, at[c] \notin Blocked, at[c] \notin Holders
  PROVE  c \in Threads /\ reservation[c] = 0 /\ reservation \in [Threads -> Nat]
BY CallersAssumption DEF IInv, BrInv, BrTypes, CallInv, Claims, Pending

\* The same for a caller that holds its size.
LEMMA HoldsSize ==
  ASSUME IInv, NEW c \in Callers, at[c] \in Holders
  PROVE  c \in Threads /\ reservation[c] = Size(c) /\ reservation \in [Threads -> Nat]
BY CallersAssumption DEF IInv, BrInv, BrTypes, CallInv, Claims

\* One move of a caller that does not wait, given the parts it works on.
LEMMA moveInv ==
  ASSUME IInv, NEW c \in Callers, NEW place \in AtPlaces \ Blocked, Goto(c, place),
         at[c] \notin Blocked, at[c] \in Early \/ place \notin Early,
         reservation' = [reservation EXCEPT ![c] = IF place \in Holders THEN Size(c) ELSE 0],
         UNCHANGED <<requestVars, checkVars>>,
         BrInv', SpillInv',
         spills_in_flight' = spills_in_flight \/ spills_in_flight' = 1
  PROVE  IInv'
<1>1. /\ BrTypes /\ CallInv /\ at' = [at EXCEPT ![c] = place]
      /\ spills_in_flight' = spills_in_flight
            \/ (spills_in_flight' \in Nat /\ spills_in_flight' > 0)
  BY DEF IInv, BrInv, Goto
<1>2. CallInv'
  BY <1>1, callerMoves
<1> QED
  BY <1>2 DEF IInv

\* The steps of a caller that reads the allocator or reserves.
LEMMA bookingInv ==
  ASSUME IInv, NEW c \in Callers,
         \/ call_reserve(c) \/ try_immediately(c) \/ overbook(c) \/ fail(c)
         \/ reserve_and_spill(c)
  PROVE  IInv'
<1> USE CallersAssumption DEF spillVars, managerVars
<1>0. /\ at[c] \in {"reserve", "zero", "try", "overbook"}
      /\ at[c] \notin Blocked /\ at[c] \notin Holders
      /\ at \in [Callers -> AtPlaces] /\ Size(c) \in Nat \ {0}
      /\ UNCHANGED <<requestVars, checkVars, spillVars>>
  BY DEF IInv, CallInv, CallTypes, call_reserve, try_immediately, overbook, fail,
         reserve_and_spill, Blocked, Holders
<1>1. c \in Threads /\ reservation[c] = 0 /\ reservation \in [Threads -> Nat]
  BY <1>0, HoldsNothing
<1>2. ASSUME NEW place \in AtPlaces, Goto(c, place), place # "sent" PROVE SpillInv'
  <2>1. MessagesStay
    BY <1>0, <1>2 DEF MessagesStay, Goto
  <2> QED
    BY <1>0, <2>1, idleSpill DEF IInv
<1>3. UNCHANGED <<requestVars, checkVars, spills_in_flight>>
  BY <1>0
<1>4. CASE call_reserve(c)
  <2>1. BrInv'
    BY <1>1, <1>4, sampleBr DEF IInv, call_reserve
  <2>2. PICK place \in {"overbook", "try"} :
          Goto(c, place) /\ (place = "try" => at[c] \in Early)
    BY <1>4 DEF call_reserve, Early
  <2>3. place \in AtPlaces \ Blocked /\ place \notin Holders /\ place # "sent"
        /\ (at[c] \in Early \/ place \notin Early)
    BY <2>2 DEF AtPlaces, Blocked, Holders, Early
  <2>4. reservation' = [reservation EXCEPT ![c] = 0]
    BY <1>1, <1>4 DEF call_reserve
  <2> QED
    BY <1>0, <1>2, <1>3, <2>1, <2>2, <2>3, <2>4, moveInv
<1>5. CASE try_immediately(c)
  <2>1. /\ BrInv' /\ reservation' = [reservation EXCEPT ![c] = reservation'[c]]
        /\ reservation'[c] \in {0, Size(c)}
    BY <1>0, <1>1, <1>5, reserveBr DEF IInv, try_immediately
  <2>2. PICK place \in {"holding", "enqueue"} :
          Goto(c, place) /\ (place = "holding" <=> reservation'[c] = Size(c))
    BY <1>5 DEF try_immediately
  <2>3. /\ place \in AtPlaces \ Blocked /\ place # "sent" /\ at[c] \in Early
        /\ place \in Holders <=> reservation'[c] = Size(c)
    BY <1>5, <2>2 DEF try_immediately, AtPlaces, Blocked, Holders, Early
  <2>4. reservation' = [reservation EXCEPT ![c] = IF place \in Holders THEN Size(c) ELSE 0]
    BY <2>1, <2>3
  <2> QED
    BY <1>0, <1>2, <1>3, <2>1, <2>2, <2>3, <2>4, moveInv
<1>6. CASE overbook(c)
  <2>1. /\ BrInv' /\ reservation' = [reservation EXCEPT ![c] = Size(c)]
    BY <1>0, <1>1, <1>6, reserveBr DEF IInv, overbook
  <2>2. Goto(c, "holding") /\ "holding" \in AtPlaces \ Blocked /\ "holding" \in Holders
        /\ "holding" \notin Early
    BY <1>6 DEF overbook, AtPlaces, Blocked, Holders, Early
  <2> QED
    BY <1>0, <1>2, <1>3, <2>1, <2>2, moveInv
<1>7. CASE fail(c)
  <2>1. BrInv' /\ reservation' = [reservation EXCEPT ![c] = 0]
    BY <1>1, <1>7, idleBr DEF IInv, fail, brVars
  <2>2. Goto(c, "failed") /\ "failed" \in AtPlaces \ Blocked /\ "failed" \notin Holders
        /\ "failed" \notin Early
    BY <1>7 DEF fail, AtPlaces, Blocked, Holders, Early
  <2> QED
    BY <1>0, <1>2, <1>3, <2>1, <2>2, moveInv
<1>8. CASE reserve_and_spill(c)
  <2>1. /\ BrInv' /\ reservation' = [reservation EXCEPT ![c] = Size(c)]
    BY <1>0, <1>1, <1>8, reserveBr DEF IInv, reserve_and_spill
  <2>2. PICK place \in {"spill", "holding"} : Goto(c, place)
    BY <1>8 DEF reserve_and_spill
  <2>3. /\ place \in AtPlaces \ Blocked /\ place \in Holders /\ place # "sent"
        /\ place \notin Early
    BY <2>2 DEF AtPlaces, Blocked, Holders, Early
  <2> QED
    BY <1>0, <1>2, <1>3, <2>1, <2>2, <2>3, moveInv
<1> QED
  BY <1>4, <1>5, <1>6, <1>7, <1>8

\* The steps of a caller that holds a reservation, or gives it up.
LEMMA holdingInv ==
  ASSUME IInv, NEW c \in Callers,
         \/ call_spill(c) \/ spilled_enough(c) \/ make_buffer(c) \/ drop_reservation(c)
  PROVE  IInv'
<1> USE CallersAssumption
<1>0. /\ at[c] \in Holders
      /\ at[c] \notin Blocked /\ at[c] \notin {"sent", "extract", "done"}
      /\ at \in [Callers -> AtPlaces] /\ Size(c) \in Nat \ {0}
      /\ UNCHANGED <<requestVars, checkVars>>
  BY DEF IInv, CallInv, CallTypes, call_spill, spilled_enough, make_buffer, drop_reservation,
         Blocked, Holders
<1>1. c \in Threads /\ reservation[c] = Size(c) /\ reservation \in [Threads -> Nat]
  BY <1>0, HoldsSize
<1>2. ASSUME NEW place \in AtPlaces, Goto(c, place), place # "sent" PROVE MessagesStay
  BY <1>0, <1>2 DEF MessagesStay, Goto
<1>3. CASE call_spill(c)
  <2>1. BrInv' /\ reservation' = [reservation EXCEPT ![c] = Size(c)]
    BY <1>1, <1>3, idleBr DEF IInv, call_spill, brVars
  <2>2. PICK place \in {"spilling", "holding"} : Goto(c, place)
    BY <1>3 DEF call_spill
  <2>3. /\ place \in AtPlaces \ Blocked /\ place \in Holders /\ place # "sent"
        /\ place \notin Early
    BY <2>2 DEF AtPlaces, Blocked, Holders, Early
  <2>4. MessagesStay
    BY <1>2, <2>2, <2>3
  <2>5. SpillInv'
    BY <1>3, <2>4, idleSpill, spill_beginSpill DEF IInv, call_spill
  <2>6. spills_in_flight' = spills_in_flight \/ spills_in_flight' = 1
    BY <1>3 DEF call_spill, spill_begin, IInv, SpillInv, Counters, spillVars, managerVars
  <2> QED
    BY <1>0, <2>1, <2>2, <2>3, <2>5, <2>6, moveInv
<1>4. CASE spilled_enough(c)
  <2>1. PICK place \in {"holding", "failed"} :
          /\ Goto(c, place)
          /\ BrInv'
          /\ reservation' = [reservation EXCEPT ![c] = IF place = "holding" THEN Size(c) ELSE 0]
    <3>1. CASE Api(c) = "spill" \/ spill.spilled >= Min({own_overbooking[c], spill.amount})
      BY <1>1, <1>4, <3>1, idleBr DEF IInv, spilled_enough, brVars
    <3>2. CASE ~ (Api(c) = "spill" \/ spill.spilled >= Min({own_overbooking[c], spill.amount}))
      <4>1. Goto(c, "failed") /\ release(c, reservation[c])
        BY <1>4, <3>2 DEF spilled_enough, clear
      <4> QED
        BY <1>1, <4>1, releaseBr DEF IInv
    <3> QED
      BY <3>1, <3>2
  <2>2. /\ place \in AtPlaces \ Blocked /\ (place \in Holders <=> place = "holding")
        /\ place # "sent" /\ place \notin Early
    BY <2>1 DEF AtPlaces, Blocked, Holders, Early
  <2>3. MessagesStay
    BY <1>2, <2>1, <2>2
  <2>4. SpillInv' /\ spills_in_flight' = spills_in_flight
    BY <1>4, <2>3, spill_returnSpill DEF IInv, spilled_enough, spill_return
  <2>5. reservation' = [reservation EXCEPT ![c] = IF place \in Holders THEN Size(c) ELSE 0]
    BY <2>1, <2>2
  <2> QED
    BY <1>0, <2>1, <2>2, <2>4, <2>5, moveInv
<1>5. CASE make_buffer(c)
  <2>1. PICK place \in {"allocated", "made"} :
          /\ Goto(c, place)
          /\ BrInv'
          /\ reservation' = [reservation EXCEPT ![c] = IF place = "allocated" THEN Size(c) ELSE 0]
    <3>1. CASE at[c] = "holding" /\ allocate(Size(c)) /\ Goto(c, "allocated")
      <4>1. reservation' = reservation
        BY <3>1 DEF allocate
      <4> QED
        BY <1>0, <1>1, <3>1, <4>1, allocateBr DEF IInv
    <3>2. CASE at[c] = "allocated" /\ release(c, Size(c)) /\ Goto(c, "made")
      <4>1. release(c, reservation[c])
        BY <1>1, <3>2
      <4> QED
        BY <1>1, <3>2, <4>1, releaseBr DEF IInv
    <3> QED
      BY <1>5, <3>1, <3>2 DEF make_buffer
  <2>2. /\ place \in AtPlaces \ Blocked /\ (place \in Holders <=> place = "allocated")
        /\ place # "sent" /\ place \notin Early
    BY <2>1 DEF AtPlaces, Blocked, Holders, Early
  <2>3. SpillInv' /\ spills_in_flight' = spills_in_flight
    BY <1>2, <1>5, <2>1, <2>2, idleSpill DEF IInv, make_buffer, spillVars, managerVars
  <2>4. reservation' = [reservation EXCEPT ![c] = IF place \in Holders THEN Size(c) ELSE 0]
    BY <2>1, <2>2
  <2> QED
    BY <1>0, <2>1, <2>2, <2>3, <2>4, moveInv
<1>6. CASE drop_reservation(c)
  <2>1. BrInv' /\ reservation' = [reservation EXCEPT ![c] = 0]
    BY <1>1, <1>6, releaseBr DEF IInv, drop_reservation, clear
  <2>2. /\ Goto(c, "done") /\ "done" \in AtPlaces \ Blocked /\ "done" \notin Holders
        /\ "done" \notin Early
    BY <1>6 DEF drop_reservation, AtPlaces, Blocked, Holders, Early
  <2>3. SpillInv' /\ spills_in_flight' = spills_in_flight
    BY <1>2, <1>6, <2>2, idleSpill DEF IInv, drop_reservation, spillVars, managerVars
  <2> QED
    BY <1>0, <2>1, <2>2, <2>3, moveInv
<1> QED
  BY <1>3, <1>4, <1>5, <1>6

\* The steps of a caller whose message is inserted and extracted.
LEMMA messageInv ==
  ASSUME IInv, NEW c \in Callers, send_message(c) \/ consume_message(c) PROVE IInv'
<1> USE CallersAssumption DEF managerVars
<1>0. /\ at[c] \in {"made", "sent", "extract"}
      /\ at[c] \notin Blocked /\ at[c] \notin Holders /\ at[c] \notin Early
      /\ at \in [Callers -> AtPlaces] /\ Size(c) \in Nat \ {0}
      /\ UNCHANGED <<requestVars, checkVars, managerVars>>
  BY DEF IInv, CallInv, CallTypes, send_message, consume_message, Blocked, Holders, Early
<1>1. c \in Threads /\ reservation[c] = 0 /\ reservation \in [Threads -> Nat]
  BY <1>0, HoldsNothing
<1>2. ASSUME NEW place \in {"sent", "extract", "done"}
      PROVE  place \in AtPlaces \ Blocked /\ place \notin Holders /\ place \notin Early
  BY <1>2 DEF AtPlaces, Blocked, Holders, Early
<1>3. CASE send_message(c)
  <2>1. BrInv' /\ reservation' = [reservation EXCEPT ![c] = 0]
    BY <1>1, <1>3, idleBr DEF IInv, send_message, brVars
  <2>2. Goto(c, "sent")
    BY <1>3 DEF send_message
  <2>3. SpillInv'
    BY <1>0, <1>3, <2>2, insertSpill DEF IInv, send_message, Goto
  <2> QED
    BY <1>0, <1>2, <2>1, <2>2, <2>3, moveInv
<1>4. CASE at[c] = "sent" /\ extract_item(c) /\ Goto(c, "extract") /\ UNCHANGED brVars
  <2>1. BrInv' /\ reservation' = [reservation EXCEPT ![c] = 0]
    BY <1>1, <1>4, idleBr DEF IInv, brVars
  <2>2. SpillInv'
    BY <1>0, <1>4, extract_itemSpill DEF IInv, Goto
  <2> QED
    BY <1>0, <1>2, <1>4, <2>1, <2>2, moveInv
<1>5. CASE /\ at[c] = "extract" /\ take_message(c) /\ Goto(c, "done")
           /\ deallocate(IF memory_type[c] = "device" THEN content_size[c] ELSE 0)
  <2>1. (IF memory_type[c] = "device" THEN content_size[c] ELSE 0) \in Nat
    BY DEF IInv, SpillInv, SpillTypes
  <2>2. BrInv'
    BY <1>5, <2>1, deallocateBr DEF IInv
  <2>3. reservation' = [reservation EXCEPT ![c] = 0]
    BY <1>1, <1>5 DEF deallocate
  <2>4. SpillInv'
    BY <1>0, <1>5, take_messageSpill DEF IInv, Goto
  <2> QED
    BY <1>0, <1>2, <1>5, <2>2, <2>3, <2>4, moveInv
<1> QED
  BY <1>3, <1>4, <1>5 DEF consume_message

-----------------------------------------------------------------------------
(* The periodic task.                                                      *)

RunningPlaces == CheckPlaces \ {"none", "returned", "done"}

\* The task moves on, with no request in hand.
LEMMA checkMoves ==
  ASSUME CallInv, NEW k \in Checks, check[k] \in RunningPlaces,
         NEW place \in RunningPlaces \ {"admit", "forced"}, Moves(k, place),
         UNCHANGED <<at, answered, reservation, reservation_requests, periodic_task_running>>
  PROVE  /\ check' \in [Checks -> CheckPlaces]
         /\ Claims' /\ Pending' /\ Tasks'
         /\ \A j \in Checks \ {k} : check'[j] = check[j] /\ check[j] \notin RunningPlaces
         /\ check'[k] = place
<1>1. /\ check \in [Checks -> CheckPlaces] /\ check' \in [Checks -> CheckPlaces]
      /\ check'[k] = place /\ \A j \in Checks \ {k} : check'[j] = check[j]
  BY DEF Moves, RunningPlaces, CallInv, CallTypes
<1>2. \A j \in Checks : j \in Running <=> check[j] \in RunningPlaces
  BY <1>1 DEF Running, RunningPlaces
<1>3. \A j \in Checks \ {k} : check[j] \notin RunningPlaces
  BY <1>2 DEF CallInv, Tasks
<1>4. Running' = Running
  BY <1>1 DEF Running, RunningPlaces
<1>5. Started' = Started /\ Past' = Past
  BY <1>1 DEF Started, Past, RunningPlaces
<1>6. Tasks'
  BY <1>4, <1>5 DEF CallInv, Tasks
<1>7. Claims'
  BY DEF CallInv, Claims
<1>8. \A j \in Checks : check'[j] \notin {"admit", "forced"}
  BY <1>1, <1>3 DEF RunningPlaces, CheckPlaces
<1>9. Pending'
  BY <1>8 DEF CallInv, Pending
<1> QED
  BY <1>1, <1>3, <1>6, <1>7, <1>9

\* The task leaves when no request is pending.
LEMMA checkExits ==
  ASSUME IInv, NEW k \in Checks, check[k] \in RunningPlaces \ {"admit", "forced"},
         reservation_requests = <<>>, NEW otherwise, ExitIfEmpty(k, otherwise),
         UNCHANGED <<brVars, spillVars, callVars, answered, reservation_requests>>
  PROVE  IInv'
<1> USE DEF callVars
<1>1. BrInv' /\ SpillInv' /\ reservation' = reservation
  BY idleBr, idleSpill DEF IInv, MessagesStay, brVars
<1>2. /\ check \in [Checks -> CheckPlaces] /\ check' \in [Checks -> CheckPlaces]
      /\ check'[k] = "returned" /\ \A j \in Checks \ {k} : check'[j] = check[j]
  BY DEF ExitIfEmpty, Moves, CheckPlaces, IInv, CallInv, CallTypes
<1>3. \A j \in Checks : j \in Running <=> check[j] \in RunningPlaces
  BY <1>2 DEF Running, RunningPlaces
<1>4. \A j \in Checks \ {k} : check[j] \notin RunningPlaces
  BY <1>3 DEF IInv, CallInv, Tasks
<1>5. Running' = {}
  BY <1>2, <1>4 DEF Running, RunningPlaces
<1>6. Started' = Started /\ Past' = Past
  BY <1>2 DEF Started, Past, RunningPlaces
<1>7. Tasks'
  BY <1>5, <1>6 DEF IInv, CallInv, Tasks, ExitIfEmpty
<1>8. Claims'
  BY <1>1 DEF IInv, CallInv, Claims
<1>9. \A j \in Checks : check'[j] \notin {"admit", "forced", "force"}
  BY <1>2, <1>4 DEF RunningPlaces, CheckPlaces
<1>10. Pending'
  BY <1>9 DEF IInv, CallInv, Pending
<1>11. Account'
  BY <1>9 DEF ExitIfEmpty, NewWindow, Account, Excused
<1>12. CallTypes'
  <2>1. elapsed' = 0 /\ owed' = "nothing" /\ window' = FreshWindow
    BY DEF ExitIfEmpty, NewWindow, InTimeout
  <2>2. window' = [extended |-> window'.extended, recheck |-> window'.recheck,
                   stalled |-> window'.stalled, generation |-> window'.generation,
                   available |-> window'.available]
    BY <2>1 DEF FreshWindow
  <2>3. /\ at' \in [Callers -> AtPlaces] /\ answered' \subseteq Callers
        /\ reservation_requests' \in Seq(Callers)
    BY DEF IInv, CallInv, CallTypes
  <2> QED
    BY <1>2, <2>1, <2>2, <2>3 DEF CallTypes
<1> QED
  BY <1>1, <1>7, <1>8, <1>10, <1>11, <1>12 DEF IInv, CallInv

\* check_pending(): the exit decision and the flag are one step.
LEMMA check_pendingInv == ASSUME IInv, NEW k \in Checks, check_pending(k) PROVE IInv'
<1> USE DEF callVars
<1>1. CASE reservation_requests = <<>>
  BY <1>1, checkExits DEF check_pending, RunningPlaces, CheckPlaces
<1>2. CASE reservation_requests # <<>>
  <2>1. BrInv' /\ SpillInv' /\ reservation' = reservation
    BY idleBr, idleSpill DEF IInv, MessagesStay, brVars, check_pending
  <2>2. /\ Moves(k, "yield") /\ check[k] \in RunningPlaces
        /\ "yield" \in RunningPlaces \ {"admit", "forced"}
        /\ UNCHANGED <<at, answered, reservation, reservation_requests, periodic_task_running>>
    BY <1>2, <2>1 DEF check_pending, ExitIfEmpty, RunningPlaces, CheckPlaces
  <2>3. /\ check' \in [Checks -> CheckPlaces]
        /\ Claims' /\ Pending' /\ Tasks'
        /\ \A j \in Checks \ {k} : check'[j] = check[j] /\ check[j] \notin RunningPlaces
        /\ check'[k] = "yield"
    BY <2>2, checkMoves DEF IInv
  <2>4. Account'
    BY <1>2, <2>3
    DEF IInv, CallInv, Account, Excused, check_pending, ExitIfEmpty, spillVars, managerVars
  <2>5. CallTypes'
    BY <1>2, <2>3 DEF IInv, CallInv, CallTypes, check_pending, ExitIfEmpty
  <2> QED
    BY <2>1, <2>3, <2>4, <2>5 DEF IInv, CallInv
<1> QED
  BY <1>1, <1>2

\* begin_pass(): a pass after a judgement keeps what is owed.
LEMMA begin_passInv == ASSUME IInv, NEW k \in Checks, begin_pass(k) PROVE IInv'
<1> USE CallersAssumption DEF callVars, requestVars
<1>1. BrInv' /\ SpillInv' /\ reservation' = reservation
  BY sampleBr, idleSpill DEF IInv, MessagesStay, begin_pass
<1>2. /\ Moves(k, "measure") /\ check[k] \in RunningPlaces
      /\ "measure" \in RunningPlaces \ {"admit", "forced"}
      /\ UNCHANGED <<at, answered, reservation, reservation_requests, periodic_task_running>>
  BY <1>1 DEF begin_pass, RunningPlaces, CheckPlaces
<1>3. /\ check' \in [Checks -> CheckPlaces]
      /\ Claims' /\ Pending' /\ Tasks'
      /\ \A j \in Checks \ {k} : check'[j] = check[j] /\ check[j] \notin RunningPlaces
      /\ check'[k] = "measure"
  BY <1>2, checkMoves DEF IInv
<1>4. Account'
  BY <1>3 DEF IInv, CallInv, Account, Excused, begin_pass, spillVars, managerVars
<1>5. CallTypes'
  BY <1>3 DEF IInv, CallInv, CallTypes, begin_pass
<1> QED
  BY <1>1, <1>3, <1>4, <1>5 DEF IInv, CallInv

\* judge_progress() never takes back that a spill freed nothing.
LEMMA judge_progressInv == ASSUME IInv, NEW k \in Checks, judge_progress(k) PROVE IInv'
<1> USE CallersAssumption DEF callVars, requestVars
<1>1. BrInv' /\ SpillInv' /\ reservation' = reservation
  BY idleBr, idleSpill DEF IInv, MessagesStay, brVars, judge_progress
<1>2. /\ Moves(k, "judge") /\ check[k] = "yield" /\ check[k] \in RunningPlaces
      /\ "judge" \in RunningPlaces \ {"admit", "forced"}
      /\ UNCHANGED <<at, answered, reservation, reservation_requests, periodic_task_running>>
  BY <1>1 DEF judge_progress, RunningPlaces, CheckPlaces
<1>3. /\ check' \in [Checks -> CheckPlaces]
      /\ Claims' /\ Pending' /\ Tasks'
      /\ \A j \in Checks \ {k} : check'[j] = check[j] /\ check[j] \notin RunningPlaces
      /\ check'[k] = "judge"
  BY <1>2, checkMoves DEF IInv
<1>4. window'.recheck = window.recheck /\ (window.stalled => window'.stalled)
  BY DEF judge_progress, IInv, CallInv, CallTypes
<1>5. \A j \in Checks : check[j] \notin {"pass", "measure"} /\ check'[j] # "force"
  BY <1>2, <1>3 DEF RunningPlaces, CheckPlaces
<1>6. Account'
  BY <1>4, <1>5 DEF IInv, CallInv, Account, Excused, judge_progress, spillVars, managerVars
<1>7. CallTypes'
  BY <1>3 DEF IInv, CallInv, CallTypes, judge_progress
<1> QED
  BY <1>1, <1>3, <1>6, <1>7 DEF IInv, CallInv

\* judge_spilling(): a request is forced only when no pass is due.
LEMMA judge_spillingInv == ASSUME IInv, NEW k \in Checks, judge_spilling(k) PROVE IInv'
<1> USE CallersAssumption DEF callVars, requestVars
<1>1. BrInv' /\ SpillInv' /\ reservation' = reservation
  BY idleBr, idleSpill DEF IInv, MessagesStay, brVars, judge_spilling
<1>2. PICK place \in {"pass", "extend", "force"} : Moves(k, place)
  BY DEF judge_spilling
<1>3. /\ check[k] = "judge" /\ check[k] \in RunningPlaces
      /\ place \in RunningPlaces \ {"admit", "forced"}
      /\ UNCHANGED <<at, answered, reservation, reservation_requests, periodic_task_running>>
  BY <1>1, <1>2 DEF judge_spilling, RunningPlaces, CheckPlaces
<1>4. /\ check' \in [Checks -> CheckPlaces]
      /\ Claims' /\ Pending' /\ Tasks'
      /\ \A j \in Checks \ {k} : check'[j] = check[j] /\ check[j] \notin RunningPlaces
      /\ check'[k] = place
  BY <1>2, <1>3, checkMoves DEF IInv
<1>5. /\ \A j \in Checks : check[j] \notin {"pass", "measure"}
      /\ \A j \in Checks \ {k} : check'[j] # "force"
  BY <1>3, <1>4 DEF RunningPlaces, CheckPlaces
<1>6. Account'
  <2>1. CASE KeepWaiting
    <3>1. owed' = "spill runs" /\ window'.recheck /\ spills_in_flight' > 0
          /\ check'[k] # "force"
      BY <1>4, <2>1
      DEF judge_spilling, KeepWaiting, IInv, CallInv, CallTypes, spillVars, managerVars, Moves
    <3> QED
      BY <1>5, <3>1 DEF Account
  <2>2. CASE ~ KeepWaiting /\ Recheck
    <3>1. check'[k] = "pass" /\ owed' = owed /\ UNCHANGED <<spills_in_flight, elapsed>>
          /\ window'.recheck = FALSE /\ window'.stalled = window.stalled
      BY <1>4, <2>2
      DEF judge_spilling, IInv, CallInv, CallTypes, spillVars, managerVars, Moves
    <3>2. owed = "spill runs" => Excused
      BY <2>2 DEF KeepWaiting, IInv, CallInv, Account, Excused
    <3> QED
      BY <1>5, <3>1, <3>2 DEF IInv, CallInv, Account, Excused
  <2>3. CASE ~ KeepWaiting /\ ~ Recheck
    <3>1. check'[k] = "force" /\ UNCHANGED <<window, owed, spills_in_flight, elapsed>>
      BY <1>4, <2>3
      DEF judge_spilling, IInv, CallInv, CallTypes, spillVars, managerVars, Moves
    <3> QED
      BY <1>5, <2>3, <3>1 DEF IInv, CallInv, Account, Excused, Recheck
  <2> QED
    BY <2>1, <2>2, <2>3
<1>7. CallTypes'
  BY <1>4 DEF IInv, CallInv, CallTypes, judge_spilling
<1> QED
  BY <1>1, <1>4, <1>6, <1>7 DEF IInv, CallInv

\* start_extension(): the window opens, and what is owed stays.
LEMMA start_extensionInv == ASSUME IInv, NEW k \in Checks, start_extension(k) PROVE IInv'
<1> USE CallersAssumption DEF callVars, requestVars
<1>1. BrInv' /\ SpillInv' /\ reservation' = reservation
  BY idleBr, idleSpill DEF IInv, MessagesStay, brVars, start_extension
<1>2. /\ Moves(k, "pass") /\ check[k] = "extend" /\ check[k] \in RunningPlaces
      /\ "pass" \in RunningPlaces \ {"admit", "forced"}
      /\ UNCHANGED <<at, answered, reservation, reservation_requests, periodic_task_running>>
  BY <1>1 DEF start_extension, RunningPlaces, CheckPlaces
<1>3. /\ check' \in [Checks -> CheckPlaces]
      /\ Claims' /\ Pending' /\ Tasks'
      /\ \A j \in Checks \ {k} : check'[j] = check[j] /\ check[j] \notin RunningPlaces
      /\ check'[k] = "pass"
  BY <1>2, checkMoves DEF IInv
<1>4. window'.recheck = window.recheck /\ window'.stalled = window.stalled
  BY DEF start_extension, IInv, CallInv, CallTypes
<1>5. Account'
  BY <1>3, <1>4 DEF IInv, CallInv, Account, Excused, start_extension, spillVars, managerVars
<1>6. CallTypes'
  BY <1>3 DEF IInv, CallInv, CallTypes, start_extension
<1> QED
  BY <1>1, <1>3, <1>5, <1>6 DEF IInv, CallInv

\* Requests are ordered, so that the task finds a preferred one among any of them.
LEMMA PreferredIsOne ==
  ASSUME reservation_requests \in Seq(Callers),
         NEW P \in SUBSET (DOMAIN reservation_requests), P # {}
  PROVE  Preferred(P) \in P
<1> USE CallersAssumption
<1> DEFINE R == {p \in P \X P : Before(p[1], p[2])}
<1>1. DOMAIN reservation_requests = 1 .. Len(reservation_requests)
      /\ Len(reservation_requests) \in Nat
  OBVIOUS
<1>2. \A i \in P : /\ reservation_requests[i] \in Callers /\ i \in Int
                   /\ Size(reservation_requests[i]) \in Int
                   /\ NetMemoryDelta(reservation_requests[i]) \in Int
  BY <1>1
<1>3. IsFiniteSet(P)
  <2>1. IsFiniteSet(1 .. Len(reservation_requests))
    BY <1>1, FS_Interval
  <2> QED
    BY <1>1, <2>1, FS_Subset
<1>4. \A i, j \in P : <<i, j>> \in R <=> Before(i, j)
  OBVIOUS
<1>5. \A i, j \in P : Before(i, j) \/ Before(j, i)
  BY <1>2 DEF Before
<1>6. ASSUME NEW i \in P, NEW j \in P, NEW l \in P, Before(i, j), Before(j, l)
      PROVE  Before(i, l)
  <2> DEFINE d(x) == NetMemoryDelta(reservation_requests[x])
             z(x) == Size(reservation_requests[x])
  <2>1. \A x \in {i, j, l} : d(x) \in Int /\ z(x) \in Int /\ x \in Int
    BY <1>2
  <2>2. \A x, y \in {i, j, l} :
           Before(x, y) <=> LexLeq(<<d(x), z(x), x>>, <<d(y), z(y), y>>)
    BY DEF Before, LexLeq
  <2> HIDE DEF d, z
  <2>3. LexLeq(<<d(i), z(i), i>>, <<d(l), z(l), l>>)
    BY <1>6, <2>1, <2>2, LexLeqTransitive
  <2> QED
    BY <2>2, <2>3
<1> HIDE DEF R
<1>7. \E i \in P : \A j \in P : <<i, j>> \in R
  BY <1>3, <1>4, <1>5, <1>6, LeastInOrder
<1>8. \E i \in P : \A j \in P : Before(i, j)
  BY <1>4, <1>7
<1> QED
  BY <1>8 DEF Preferred

\* Some pending request is the smallest.
LEMMA SmallestIsSome ==
  ASSUME reservation_requests \in Seq(Callers), reservation_requests # <<>>
  PROVE  Smallest # {} /\ Smallest \subseteq DOMAIN reservation_requests
<1> USE CallersAssumption
<1> DEFINE Sizes == {Size(reservation_requests[i]) : i \in DOMAIN reservation_requests}
<1>1. \A i \in DOMAIN reservation_requests : Size(reservation_requests[i]) \in Nat
  <2>1. \A c \in Callers : Size(c) \in Nat
    OBVIOUS
  <2>2. \A i \in DOMAIN reservation_requests : reservation_requests[i] \in Callers
    OBVIOUS
  <2> QED
    BY <2>1, <2>2, Zenon
<1>2. DOMAIN reservation_requests # {}
  <2>1. DOMAIN reservation_requests = 1 .. Len(reservation_requests)
        /\ Len(reservation_requests) \in Nat /\ Len(reservation_requests) > 0
    OBVIOUS
  <2>2. 1 \in DOMAIN reservation_requests
    BY <2>1
  <2> QED
    BY <2>2
<1>3. Sizes \in SUBSET Nat /\ Sizes # {}
  BY <1>1, <1>2
<1>4. \E x \in Sizes : \A y \in Sizes : x <= y
  BY <1>3, LeastNatural
<1> QED
  BY <1>4 DEF Smallest

\* The request the task admits is a pending one.
LEMMA select_requestInv == ASSUME IInv, NEW k \in Checks, select_request(k) PROVE IInv'
<1> USE CallersAssumption DEF callVars, requestVars
<1> DEFINE eligible == Eligible(memory_available_for_reservation("checker"))
<1>1. BrInv' /\ SpillInv' /\ reservation' = reservation
  <2>1. "checker" \in Threads
    OBVIOUS
  <2>2. sample("checker") \/ forget("checker")
    BY DEF select_request
  <2> QED
    BY <2>1, <2>2, sampleBr, forgetBr, idleSpill DEF IInv, MessagesStay, select_request
<1>2. /\ check[k] = "measure" /\ check[k] \in RunningPlaces
      /\ UNCHANGED <<at, answered, reservation, reservation_requests, periodic_task_running>>
      /\ UNCHANGED <<elapsed, window, spills_in_flight>>
      /\ owed' = IF owed = "pass is due" THEN "nothing" ELSE owed
  BY <1>1 DEF select_request, RunningPlaces, CheckPlaces, spillVars, managerVars
<1>3. CASE eligible = {}
  <2>1. Moves(k, "pending") /\ "pending" \in RunningPlaces \ {"admit", "forced"}
    BY <1>3 DEF select_request, RunningPlaces, CheckPlaces
  <2>2. /\ check' \in [Checks -> CheckPlaces]
        /\ Claims' /\ Pending' /\ Tasks'
        /\ \A j \in Checks \ {k} : check'[j] = check[j] /\ check[j] \notin RunningPlaces
        /\ check'[k] = "pending"
    BY <1>2, <2>1, checkMoves DEF IInv
  <2>3. Account'
    BY <1>2, <2>2 DEF IInv, CallInv, CallTypes, Account, Excused
  <2>4. CallTypes'
    BY <1>2, <2>2 DEF IInv, CallInv, CallTypes
  <2> QED
    BY <1>1, <2>2, <2>3, <2>4 DEF IInv, CallInv
<1>4. CASE eligible # {}
  <2>1. Moves(k, "admit") /\ selected' = reservation_requests[Preferred(eligible)]
    BY <1>4 DEF select_request
  <2>2. selected' \in Range(reservation_requests)
    <3>1. eligible \in SUBSET (DOMAIN reservation_requests)
      BY DEF Eligible
    <3>2. Preferred(eligible) \in eligible
      <4>1. reservation_requests \in Seq(Callers)
        BY DEF IInv, CallInv, CallTypes
      <4> QED
        BY <1>4, <3>1, <4>1, PreferredIsOne
    <3> QED
      BY <2>1, <3>1, <3>2 DEF Range
  <2>3. /\ check \in [Checks -> CheckPlaces] /\ check' \in [Checks -> CheckPlaces]
        /\ check'[k] = "admit" /\ \A j \in Checks \ {k} : check'[j] = check[j]
    BY <2>1 DEF Moves, CheckPlaces, IInv, CallInv, CallTypes
  <2>4. \A j \in Checks \ {k} : check[j] \notin RunningPlaces
    BY <1>2, <2>3 DEF IInv, CallInv, Tasks, Running, RunningPlaces
  <2>5. Running' = Running /\ Started' = Started /\ Past' = Past
    BY <1>2, <2>3 DEF Running, RunningPlaces, Started, Past
  <2>6. Tasks'
    BY <1>2, <2>5 DEF IInv, CallInv, Tasks
  <2>7. Claims'
    BY <1>2 DEF IInv, CallInv, Claims
  <2>8. Pending'
    BY <1>2, <2>2, <2>3, <2>4 DEF IInv, CallInv, Pending, RunningPlaces, CheckPlaces
  <2>9. Account'
    BY <1>2, <2>3 DEF IInv, CallInv, CallTypes, Account, Excused
  <2>10. CallTypes'
    BY <1>2, <2>3 DEF IInv, CallInv, CallTypes
  <2> QED
    BY <1>1, <2>6, <2>7, <2>8, <2>9, <2>10 DEF IInv, CallInv
<1> QED
  BY <1>3, <1>4

\* The caller of the request in hand waits, has no answer yet and holds nothing.
LEMMA InHand ==
  ASSUME IInv, NEW k \in Checks, check[k] \in {"admit", "forced"}
  PROVE  /\ selected \in Callers /\ selected \in Threads /\ reservation[selected] = 0
         /\ at[selected] \in Blocked /\ selected \notin answered
         /\ Size(selected) \in Nat \ {0}
<1>1. Range(reservation_requests) \subseteq Callers
  BY RangeOfSeq DEF IInv, CallInv, CallTypes
<1>2. selected \in Callers /\ at[selected] \in Blocked /\ selected \notin answered
  BY <1>1 DEF IInv, CallInv, Pending
<1>3. reservation[selected] = 0
  BY <1>2 DEF IInv, CallInv, Claims, Blocked, Holders
<1> QED
  BY <1>2, <1>3, CallersAssumption

\* Answering the request in hand, which is pending no more.
LEMMA answers ==
  ASSUME IInv, NEW k \in Checks, check[k] \in {"admit", "forced"}, Moves(k, "pending"),
         reservation_requests' \in Seq(Callers), IsInjective(reservation_requests'),
         Range(reservation_requests') = Range(reservation_requests) \ {selected},
         reservation' = [reservation EXCEPT ![selected] = reservation'[selected]],
         reservation'[selected] \in {0, Size(selected)},
         Answer(selected), NewWindow, UNCHANGED <<at, periodic_task_running>>
  PROVE  CallInv'
<1> USE CallersAssumption
<1>1. /\ selected \in Callers /\ reservation[selected] = 0
      /\ at[selected] \in Blocked /\ selected \notin answered
  BY InHand
<1>2. /\ check \in [Checks -> CheckPlaces] /\ check' \in [Checks -> CheckPlaces]
      /\ check'[k] = "pending" /\ \A j \in Checks \ {k} : check'[j] = check[j]
  BY DEF Moves, CheckPlaces, IInv, CallInv, CallTypes
<1>3. \A j \in Checks : j \in Running <=> check[j] \in RunningPlaces
  BY <1>2 DEF Running, RunningPlaces
<1>4. \A j \in Checks \ {k} : check[j] \notin RunningPlaces
  BY <1>3 DEF IInv, CallInv, Tasks, RunningPlaces, CheckPlaces
<1>5. Running' = Running /\ Started' = Started /\ Past' = Past /\ k \in Running
  BY <1>2 DEF Running, Started, Past
<1>6. Tasks'
  BY <1>5 DEF IInv, CallInv, Tasks
<1>7. answered' = answered \cup {selected}
  BY DEF Answer
<1>8. Claims'
  <2>1. reservation \in [Threads -> Nat]
    BY DEF IInv, BrInv, BrTypes
  <2>2. at[selected] \notin Holders
    BY <1>1 DEF Blocked, Holders
  <2>3. \A c \in Callers \ {selected} : reservation'[c] = reservation[c]
    BY <2>1
  <2>4. answered \subseteq Callers
    BY DEF IInv, CallInv, CallTypes
  <2> QED
    BY <1>1, <1>7, <2>2, <2>3, <2>4 DEF IInv, CallInv, Claims
<1>9. \A j \in Checks : check'[j] \notin {"admit", "forced", "force"}
  BY <1>2, <1>4 DEF RunningPlaces, CheckPlaces
<1>10. Pending'
  BY <1>1, <1>7, <1>9 DEF IInv, CallInv, Pending
<1>11. Account'
  BY <1>9 DEF NewWindow, Account, Excused
<1>12. CallTypes'
  <2>1. /\ elapsed' = 0 /\ owed' = "nothing"
        /\ window' = [extended |-> window'.extended, recheck |-> window'.recheck,
                      stalled |-> window'.stalled, generation |-> window'.generation,
                      available |-> window'.available]
    BY DEF NewWindow, InTimeout, FreshWindow
  <2>2. at' \in [Callers -> AtPlaces] /\ answered' \subseteq Callers
    BY <1>1, <1>7 DEF IInv, CallInv, CallTypes
  <2> QED
    BY <1>2, <2>1, <2>2 DEF CallTypes
<1> QED
  BY <1>6, <1>8, <1>10, <1>11, <1>12 DEF CallInv

\* admit(): the request is answered and leaves the queue, or stays in it.
LEMMA admitInv == ASSUME IInv, NEW k \in Checks, admit(k) PROVE IInv'
<1> USE CallersAssumption DEF callVars
<1>1. /\ check[k] = "admit" /\ selected \in Callers /\ selected \in Threads
      /\ "checker" \in Threads /\ reservation[selected] = 0 /\ Size(selected) \in Nat \ {0}
      /\ at[selected] \in Blocked /\ selected \notin answered
  BY InHand DEF admit
<1>2. /\ BrInv'
      /\ reservation' = [reservation EXCEPT ![selected] = reservation'[selected]]
      /\ reservation'[selected] \in {0, Size(selected)}
  BY <1>1, reserveBr DEF IInv, admit
<1>3. SpillInv'
  BY idleSpill DEF IInv, MessagesStay, admit
<1>4. /\ Moves(k, "pending") /\ UNCHANGED <<at, periodic_task_running>>
      /\ reservation_requests \in Seq(Callers) /\ IsInjective(reservation_requests)
  BY DEF admit, IInv, CallInv, CallTypes, Pending
<1>5. CASE reservation'[selected] # 0
  <2>1. /\ Answer(selected) /\ NewWindow
        /\ reservation_requests' = RemoveFirst(reservation_requests, selected)
    BY <1>5 DEF admit
  <2>2. /\ reservation_requests' \in Seq(Callers) /\ IsInjective(reservation_requests')
        /\ Range(reservation_requests') = Range(reservation_requests) \ {selected}
    BY <1>4, <2>1, RemoveFirstProperties
  <2>3. CallInv'
    BY <1>1, <1>2, <1>4, <2>1, <2>2, answers
  <2> QED
    BY <1>2, <1>3, <2>3 DEF IInv
<1>6. CASE reservation'[selected] = 0
  <2>1. UNCHANGED <<reservation_requests, answered, elapsed, window, owed, spills_in_flight>>
    BY <1>6 DEF admit, spillVars, managerVars
  <2>2. reservation' = reservation
    <3>1. reservation \in [Threads -> Nat]
      BY DEF IInv, BrInv, BrTypes
    <3>2. reservation' = [reservation EXCEPT ![selected] = reservation[selected]]
      BY <1>1, <1>2, <1>6
    <3> QED
      BY <1>1, <3>1, <3>2
  <2>3. check[k] \in RunningPlaces /\ "pending" \in RunningPlaces \ {"admit", "forced"}
    BY <1>1 DEF RunningPlaces, CheckPlaces
  <2>4. /\ check' \in [Checks -> CheckPlaces]
        /\ Claims' /\ Pending' /\ Tasks'
        /\ \A j \in Checks \ {k} : check'[j] = check[j] /\ check[j] \notin RunningPlaces
        /\ check'[k] = "pending"
    BY <1>4, <2>1, <2>2, <2>3, checkMoves DEF IInv
  <2>5. \A j \in Checks : check[j] \notin {"pass", "measure"} /\ check'[j] # "force"
    BY <1>1, <2>4 DEF RunningPlaces, CheckPlaces
  <2>6. Account'
    BY <2>1, <2>5 DEF IInv, CallInv, Account, Excused
  <2>7. CallTypes'
    BY <1>4, <2>1, <2>4 DEF IInv, CallInv, CallTypes
  <2> QED
    BY <1>2, <1>3, <2>4, <2>6, <2>7 DEF IInv, CallInv
<1> QED
  BY <1>5, <1>6

\* A request that is forced is taken out of the pending ones.
LEMMA forceInv == ASSUME IInv, NEW k \in Checks, force(k) PROVE IInv'
<1> USE CallersAssumption DEF callVars
<1>1. CASE reservation_requests = <<>>
  BY <1>1, checkExits DEF force, brVars, RunningPlaces, CheckPlaces
<1>2. CASE reservation_requests # <<>>
  <2>1. BrInv' /\ SpillInv' /\ reservation' = reservation
    BY <1>2, sampleBr, idleSpill DEF IInv, MessagesStay, force
  <2>2. /\ check[k] = "force" /\ Moves(k, "forced")
        /\ UNCHANGED <<at, answered, periodic_task_running, elapsed, window, owed,
                       spills_in_flight>>
    BY <1>2 DEF force, ExitIfEmpty, spillVars, managerVars
  <2>3. PICK i \in 1 .. Len(reservation_requests) :
          /\ selected' = reservation_requests[i]
          /\ reservation_requests' = RemoveAt(reservation_requests, i)
    <3>1. reservation_requests \in Seq(Callers)
      BY DEF IInv, CallInv, CallTypes
    <3>2. Preferred(Smallest) \in DOMAIN reservation_requests
      BY <1>2, <3>1, SmallestIsSome, PreferredIsOne
    <3> QED
      BY <1>2, <3>1, <3>2 DEF force
  <2>4. /\ reservation_requests \in Seq(Callers)
        /\ Range(reservation_requests) \subseteq Callers
        /\ selected' \in Range(reservation_requests)
    <3>1. reservation_requests \in Seq(Callers)
      BY DEF IInv, CallInv, CallTypes
    <3>2. Range(reservation_requests) \subseteq Callers
      BY <3>1, RangeOfSeq
    <3>3. selected' \in Range(reservation_requests)
      BY <2>3, <3>1 DEF Range
    <3> QED
      BY <3>1, <3>2, <3>3
  <2>5. /\ reservation_requests' \in Seq(Callers) /\ IsInjective(reservation_requests')
        /\ Range(reservation_requests') = Range(reservation_requests) \ {selected'}
    BY <2>3, <2>4, RemoveAtProperties DEF IInv, CallInv, Pending
  <2>6. /\ check \in [Checks -> CheckPlaces] /\ check' \in [Checks -> CheckPlaces]
        /\ check'[k] = "forced" /\ \A j \in Checks \ {k} : check'[j] = check[j]
    BY <2>2 DEF Moves, CheckPlaces, IInv, CallInv, CallTypes
  <2>7. \A j \in Checks : j \in Running <=> check[j] \in RunningPlaces
    BY <2>6 DEF Running, RunningPlaces
  <2>8. \A j \in Checks \ {k} : check[j] \notin RunningPlaces
    BY <2>2, <2>7 DEF IInv, CallInv, Tasks, RunningPlaces, CheckPlaces
  <2>9. Running' = Running /\ Started' = Started /\ Past' = Past /\ k \in Running
    BY <2>2, <2>6 DEF Running, Started, Past
  <2>10. Tasks'
    BY <2>2, <2>9 DEF IInv, CallInv, Tasks
  <2>11. Claims'
    BY <2>1, <2>2 DEF IInv, CallInv, Claims
  <2>12. Pending'
    <3>1. \A j \in Checks : check'[j] # "admit"
      BY <2>6, <2>8 DEF RunningPlaces, CheckPlaces
    <3> QED
      BY <2>2, <2>4, <2>5, <3>1 DEF IInv, CallInv, Pending
  <2>13. Account'
    <3>1. \A j \in Checks : check[j] \notin {"pass", "measure"} /\ check'[j] # "force"
      BY <2>2, <2>6, <2>8 DEF RunningPlaces, CheckPlaces
    <3> QED
      BY <2>2, <3>1 DEF IInv, CallInv, Account, Excused
  <2>14. CallTypes'
    BY <2>2, <2>5, <2>6 DEF IInv, CallInv, CallTypes
  <2> QED
    BY <2>1, <2>10, <2>11, <2>12, <2>13, <2>14 DEF IInv, CallInv
<1> QED
  BY <1>1, <1>2

\* force_reserve(): the request that was taken out is answered.
LEMMA force_reserveInv == ASSUME IInv, NEW k \in Checks, force_reserve(k) PROVE IInv'
<1> USE CallersAssumption DEF callVars
<1>1. /\ check[k] = "forced" /\ selected \in Threads /\ "checker" \in Threads
      /\ reservation[selected] = 0 /\ Size(selected) \in Nat \ {0}
  BY InHand DEF force_reserve
<1>2. /\ BrInv'
      /\ reservation' = [reservation EXCEPT ![selected] = reservation'[selected]]
      /\ reservation'[selected] \in {0, Size(selected)}
  BY <1>1, reserveBr DEF IInv, force_reserve
<1>3. SpillInv'
  BY idleSpill DEF IInv, MessagesStay, force_reserve
<1>4. /\ Moves(k, "pending") /\ Answer(selected) /\ NewWindow
      /\ UNCHANGED <<at, periodic_task_running, reservation_requests>>
  BY DEF force_reserve
<1>5. /\ reservation_requests \in Seq(Callers) /\ IsInjective(reservation_requests)
      /\ Range(reservation_requests) = Range(reservation_requests) \ {selected}
  <2>1. selected \notin Range(reservation_requests)
    BY <1>1 DEF IInv, CallInv, Pending
  <2>2. reservation_requests \in Seq(Callers)
    BY DEF IInv, CallInv, CallTypes
  <2>3. IsInjective(reservation_requests)
    BY DEF IInv, CallInv, Pending
  <2> QED
    BY <2>1, <2>2, <2>3
<1>6. CallInv'
  BY <1>1, <1>2, <1>4, <1>5, answers
<1> QED
  BY <1>2, <1>3, <1>6 DEF IInv

\* complete(): the task can be joined.
LEMMA completeInv == ASSUME IInv, NEW k \in Checks, complete(k) PROVE IInv'
<1> USE CallersAssumption DEF callVars, requestVars
<1>1. BrInv' /\ SpillInv' /\ reservation' = reservation
  BY idleBr, idleSpill DEF IInv, MessagesStay, brVars, complete
<1>2. /\ check \in [Checks -> CheckPlaces] /\ check' \in [Checks -> CheckPlaces]
      /\ check[k] = "returned" /\ check'[k] = "done"
      /\ \A j \in Checks \ {k} : check'[j] = check[j]
  BY DEF complete, Moves, CheckPlaces, IInv, CallInv, CallTypes
<1>3. Running' = Running /\ Started' = Started /\ Past' = Past
  BY <1>2 DEF complete, Running, Started, Past
<1>4. Tasks'
  BY <1>3 DEF IInv, CallInv, Tasks, complete
<1>5. Claims'
  BY <1>1 DEF IInv, CallInv, Claims, complete
<1>6. Pending'
  BY <1>2 DEF IInv, CallInv, Pending, complete
<1>7. Account'
  BY <1>2 DEF IInv, CallInv, Account, Excused, complete, spillVars, managerVars
<1>8. CallTypes'
  BY <1>2 DEF IInv, CallInv, CallTypes, complete
<1> QED
  BY <1>1, <1>4, <1>5, <1>6, <1>7, <1>8 DEF IInv, CallInv

-----------------------------------------------------------------------------
(* Time, shutdown() and the spills, and the theorems.                      *)

\* Nothing the callers' invariant speaks of changes, but time and the spills' count.
LEMMA tickInv == ASSUME IInv, tick PROVE IInv'
<1> USE DEF callVars, requestVars
<1>1. BrInv' /\ SpillInv' /\ reservation' = reservation
  BY idleBr, idleSpill DEF IInv, MessagesStay, brVars, tick
<1>2. CallTypes' /\ (Excused => Excused')
  <2>1. elapsed \in 0 .. 2 /\ elapsed' = elapsed + 1 /\ elapsed < 2
    BY DEF IInv, CallInv, CallTypes, tick, PastCap
  <2>2. UNCHANGED <<at, answered, reservation_requests, check, owed, window>>
    BY DEF tick
  <2>3. CallTypes'
    <3>1. elapsed' \in 0 .. 2
      BY <2>1
    <3> QED
      BY <2>2, <3>1 DEF IInv, CallInv, CallTypes
  <2> QED
    BY <2>1, <2>2, <2>3 DEF Excused, PastCap
<1>3. Claims' /\ Pending'
  BY <1>1 DEF IInv, CallInv, Claims, Pending, tick
<1>4. Tasks'
  BY DEF IInv, CallInv, Tasks, Running, Started, Past, tick
<1>5. Account'
  BY <1>2 DEF IInv, CallInv, Account, tick, spillVars, managerVars
<1> QED
  BY <1>1, <1>2, <1>3, <1>4, <1>5 DEF IInv, CallInv

\* shutdown(): the pending requests are moved out while the task holds no lock.
LEMMA shutdownInv == ASSUME IInv, shutdown \/ shutdown_return PROVE IInv'
<1> USE DEF callVars, requestVars, checkVars
<1>1. BrInv' /\ SpillInv' /\ reservation' = reservation
  BY idleBr, idleSpill DEF IInv, MessagesStay, brVars, shutdown, shutdown_return
<1>2. UNCHANGED <<at, answered, check, selected, elapsed, window, owed, periodic_task_running,
                  spills_in_flight>>
  BY DEF shutdown, shutdown_return, spillVars, managerVars
<1>3. CASE shutdown_return
  <2>1. reservation_requests' = reservation_requests
    BY <1>3 DEF shutdown_return
  <2>2. CallTypes' /\ Claims' /\ Pending' /\ Account'
    BY <1>1, <1>2, <2>1 DEF IInv, CallInv, CallTypes, Claims, Pending, Account, Excused
  <2>3. Tasks'
    BY <1>2, <2>1 DEF IInv, CallInv, Tasks, Running, Started, Past
  <2> QED
    BY <1>1, <2>2, <2>3 DEF IInv, CallInv
<1>4. CASE shutdown
  <2>1. /\ reservation_requests' = <<>> /\ Unlocked
        /\ Range(<<>>) = {} /\ IsInjective(<<>>) /\ <<>> \in Seq(Callers)
    BY <1>4 DEF shutdown, Range, IsInjective
  <2>2. CallTypes' /\ Claims' /\ Account'
    BY <1>1, <1>2, <2>1 DEF IInv, CallInv, CallTypes, Claims, Account, Excused
  <2>3. Pending'
    BY <1>2, <2>1 DEF IInv, CallInv, Pending, Unlocked
  <2>4. Tasks'
    BY <1>2, <2>1 DEF IInv, CallInv, Tasks, Running, Started, Past
  <2> QED
    BY <1>1, <2>2, <2>3, <2>4 DEF IInv, CallInv
<1> QED
  BY <1>3, <1>4

\* A spill that ends turns what the checker waits for into a pass that is due.
LEMMA spillingInv == ASSUME IInv, spilling PROVE IInv'
<1> USE DEF callVars, requestVars
<1>1. /\ BrInv' /\ SpillInv'
      /\ spills_in_flight' \in {spills_in_flight, spills_in_flight + 1} \/ spills_in_flight' = 0
  <2>1. CASE spill_step
    <3>1. BrInv' /\ SpillInv'
      BY <2>1, spill_stepInv DEF IInv, spilling
    <3>2. spills_in_flight' = spills_in_flight \/ spills_in_flight' = 0
      BY <2>1 DEF spill_step, spill_find, spill_try_lock, spill_move, spill_update, spill_bump,
                  spill_drop, IInv, SpillInv, Counters
    <3> QED
      BY <3>1, <3>2
  <2>2. CASE periodic_spill_check
    <3>1. MessagesStay
      BY DEF MessagesStay, spilling
    <3> QED
      BY <2>2, <3>1, idleBr, spill_beginSpill DEF IInv, periodic_spill_check, spill_begin
  <2> QED
    BY <2>1, <2>2 DEF spilling
<1>2. reservation' = reservation
  BY DEF spilling, spill_step, spill_find, spill_try_lock, spill_move, spill_update, spill_bump,
         spill_drop, periodic_spill_check, brVars, deallocate
<1>3. UNCHANGED <<at, answered, check, selected, elapsed, window, periodic_task_running,
                  reservation_requests>>
  BY DEF spilling
<1>4. spills_in_flight \in Nat
  BY DEF IInv, SpillInv, SpillTypes
<1>5. /\ owed' = IF owed = "spill runs" /\ spills_in_flight' < spills_in_flight
                 THEN "pass is due" ELSE owed
  BY DEF spilling
<1>6. CallTypes' /\ Claims' /\ Pending'
  BY <1>2, <1>3, <1>5 DEF IInv, CallInv, CallTypes, Claims, Pending
<1>7. Tasks'
  BY <1>3 DEF IInv, CallInv, Tasks, Running, Started, Past
<1>8. Account'
  <2>1. Account /\ (Excused' <=> Excused)
    BY <1>3 DEF IInv, CallInv, Excused
  <2>2. CASE owed # "spill runs"
    BY <1>3, <1>5, <2>1, <2>2 DEF Account
  <2>3. CASE owed = "spill runs" /\ spills_in_flight' = 0
    <3>1. owed' = "pass is due"
      BY <1>4, <1>5, <2>1, <2>3 DEF Account
    <3> QED
      BY <1>3, <2>1, <2>3, <3>1 DEF Account
  <2>4. CASE owed = "spill runs" /\ spills_in_flight' \in {spills_in_flight, spills_in_flight + 1}
    <3>1. spills_in_flight > 0
      BY <2>1, <2>4 DEF Account
    <3>2. spills_in_flight' > 0 /\ ~ (spills_in_flight' < spills_in_flight)
      <4>1. spills_in_flight' = spills_in_flight \/ spills_in_flight' = spills_in_flight + 1
        BY <2>4
      <4> QED
        BY <1>4, <3>1, <4>1
    <3>3. owed' = "spill runs"
      BY <1>5, <2>4, <3>2
    <3> QED
      BY <1>3, <2>1, <2>4, <3>2, <3>3 DEF Account
  <2> QED
    BY <1>1, <2>2, <2>3, <2>4
<1> QED
  BY <1>1, <1>6, <1>7, <1>8 DEF IInv, CallInv

\* A step that changes nothing.
LEMMA idleInv == ASSUME IInv, UNCHANGED vars PROVE IInv'
<1> USE DEF vars, mrowVars, callVars, requestVars, checkVars
<1>1. BrInv' /\ SpillInv' /\ reservation' = reservation
  BY idleBr, idleSpill DEF IInv, MessagesStay, brVars
<1>2. UNCHANGED <<at, answered, check, selected, elapsed, window, owed, periodic_task_running,
                  reservation_requests, spills_in_flight>>
  BY DEF spillVars, managerVars
<1>3. CallTypes' /\ Claims' /\ Pending' /\ Account'
  BY <1>1, <1>2 DEF IInv, CallInv, CallTypes, Claims, Pending, Account, Excused
<1>4. Tasks'
  BY <1>2 DEF IInv, CallInv, Tasks, Running, Started, Past
<1> QED
  BY <1>1, <1>3, <1>4 DEF IInv, CallInv

\* Nothing is allocated, reserved or pending in the initial state.
LEMMA InitIInv == Init => IInv
<1> SUFFICES ASSUME Init PROVE IInv
  OBVIOUS
<1> USE CallersAssumption, LimitAssumption
<1>1. BrInv
  <2>1. HeldBytes = {}
    BY DEF Init, BufferResourceInit, HeldBytes
  <2>2. Booked
    BY <2>1, FS_EmptySet DEF Init, BufferResourceInit, Booked, ReservedIsHeld, GrantsFit
  <2>3. BrTypes /\ SamplesHold
    BY DEF Init, BufferResourceInit, BrTypes, SamplesHold
  <2> QED
    BY <2>2, <2>3 DEF BrInv
<1>2. /\ Range(<<>>) = {} /\ IsInjective(<<>>) /\ <<>> \in Seq(Callers)
  BY DEF Range, IsInjective
<1>3. \A c \in Callers : at[c] \in {"reserve", "done"}
  BY DEF Init
<1>4. SpillInv
  <2>1. SpillTypes /\ Counters
    BY <1>2 DEF Init, SpillInit, SpillTypes, Counters, Idle, SpillSteps, NoMessage
  <2>2. RecordIsTrue
    BY <1>2 DEF Init, SpillInit, RecordIsTrue, NoMessage
  <2>3. Contents
    BY <1>2, <1>3, <2>2 DEF Init, SpillInit, Contents, Idle
  <2> QED
    BY <2>1, <2>3 DEF SpillInv
<1>5. CallTypes
  <2>1. at \in [Callers -> AtPlaces]
    BY DEF Init, AtPlaces
  <2>2. check \in [Checks -> CheckPlaces]
    BY DEF Init, CheckPlaces
  <2> QED
    BY <1>2, <2>1, <2>2 DEF Init, CallTypes, FreshWindow, InTimeout
<1>6. Claims
  BY <1>3 DEF Init, BufferResourceInit, Claims, Holders
<1>7. Pending
  BY <1>2 DEF Init, Pending
<1>8. Tasks
  <2>1. Running = {} /\ Started = {}
    BY DEF Init, Running, Started
  <2>2. Cardinality(Past) \in Nat /\ Cardinality(Started) = 0
    BY <2>1, FiniteCounts, FS_EmptySet DEF Past
  <2>3. periodic_task_running = FALSE /\ reservation_requests = <<>>
    BY DEF Init
  <2> QED
    BY <2>1, <2>2, <2>3 DEF Tasks
<1>9. Account
  BY DEF Init, Account
<1> QED
  BY <1>1, <1>4, <1>5, <1>6, <1>7, <1>8, <1>9 DEF IInv, CallInv

\* Every step preserves the invariant.
LEMMA NextIInv == ASSUME IInv, [Next]_vars PROVE IInv'
<1>1. ASSUME NEW c \in Callers, caller_step(c) PROVE IInv'
  BY <1>1, bookingInv, enqueueInv, waitingInv, holdingInv, messageInv DEF caller_step
<1>2. ASSUME NEW k \in Checks, check_step(k) PROVE IInv'
  BY <1>2, check_pendingInv, begin_passInv, judge_progressInv, judge_spillingInv,
     start_extensionInv, select_requestInv, admitInv, forceInv, force_reserveInv, completeInv
  DEF check_step
<1> QED
  BY <1>1, <1>2, tickInv, shutdownInv, spillingInv, idleInv DEF Next

\* The invariant holds throughout.
THEOREM MemoryInvariant == Spec => []IInv
<1>1. IInv /\ [Next]_vars => IInv'
  BY NextIInv
<1> QED
  BY <1>1, InitIInv, PTL DEF Spec

\* BufferResource's bookkeeping: release() never throws "corrupted reservation stat",
\* and reserve() without overbooking never grants what is not there, unless an
\* allocation came between its read and its lock.
THEOREM AccountingHolds == Spec => []AccountingIsTrue
<1>1. IInv => AccountingIsTrue
  BY DEF IInv, BrInv, Booked, AccountingIsTrue
<1> QED
  BY <1>1, MemoryInvariant, PTL

\* SpillableMessages: the record of a message's memory type is true, whatever inserts,
\* extracts and spills interleave.
THEOREM RecordsHold == Spec => []RecordIsTrue
<1>1. IInv => RecordIsTrue
  BY DEF IInv, SpillInv, Contents
<1> QED
  BY <1>1, MemoryInvariant, PTL

\* Nothing that would answer a pending request is missed: one checker runs while a request
\* is pending, no spill ends uncounted, and no request is forced before the pass that is due.
THEOREM NothingMissed == Spec => []NothingIsMissed
<1>1. ASSUME IInv PROVE NothingIsMissed
  <2>1. PendingHasChecker
    <3>1. CASE Running = {}
      BY <1>1, <3>1, FS_EmptySet DEF IInv, CallInv, Tasks, PendingHasChecker
    <3>2. CASE Running # {}
      <4>1. PICK k : Running = {k}
        BY <1>1, <3>2 DEF IInv, CallInv, Tasks
      <4> QED
        BY <3>2, <4>1, FS_Singleton DEF PendingHasChecker
    <3> QED
      BY <3>1, <3>2
  <2>2. QuietIsCounted
    BY <1>1 DEF IInv, SpillInv, SpillTypes, SpillSteps, Counters, QuietIsCounted
  <2>3. SpillIsNotMissed
    <3> SUFFICES ASSUME NEW k \in Checks, check[k] = "force", owed = "pass is due"
                 PROVE  Excused
      BY DEF SpillIsNotMissed, Excused
    <3>1. \A j \in Checks : check[j] \notin {"pass", "measure"}
      BY <1>1 DEF IInv, CallInv, Tasks, Running
    <3> QED
      BY <1>1, <3>1 DEF IInv, CallInv, Account
  <2> QED
    BY <2>1, <2>2, <2>3 DEF NothingIsMissed
<1> QED
  BY <1>1, MemoryInvariant, PTL
============================================================================
