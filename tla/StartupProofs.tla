---------------------------- MODULE StartupProofs ----------------------------
(***************************************************************************)
(* The file, socket and Slurm backends, and the barrier that UCXX builds   *)
(* from messages, keep the contract of Backend, for every number of ranks, *)
(* of barriers, of killed processes and of other processes that connect;   *)
(* the coordination directory outlives its use; after the first barrier    *)
(* every rank can reach every other; rrun reports what its ranks have      *)
(* returned, and what they coordinate with is there while they need it;    *)
(* and bind() binds what it was asked to.  Every backend has an invariant  *)
(* of its own, over what all of them share: where the ranks are in their   *)
(* scripts.  UcxxInv relates the maps from ranks to processes, the         *)
(* messages under way and the counts of the barrier.                       *)
(***************************************************************************)
EXTENDS MCBootstrap, FiniteSetTheorems, TLAPS

Size(r) == Len(Script(r))

UserTypes ==
    /\ program \in {"create_ucxx_comm", "barriers"}
    /\ step \in [Ranks -> Nat] /\ in_call \in [Ranks -> BOOLEAN]
    /\ entered \in [Ranks -> Nat] /\ left \in [Ranks -> Nat]
    /\ \A r \in Ranks : step[r] \in 1 .. Size(r) + 1 /\ (in_call[r] => step[r] <= Size(r))

\* A rank is in a barrier while it has entered one more than it has left, and it has entered
\* none before its constructor has returned.
UserInv ==
    /\ published \in BOOLEAN
    /\ \A r \in Ranks : /\ left[r] <= entered[r]
                        /\ entered[r] > 0 => step[r] > 1
                        /\ Op(r) = "barrier" => entered[r] = left[r] + IF in_call[r] THEN 1 ELSE 0

\* A barrier file is of a barrier its rank has entered, and whoever has passed a rank in the
\* loop of barrier() has seen that rank's file of the same barrier.
FileInv ==
    /\ Value \in files => published
    /\ looking_for \in [Ranks -> Nat]
    /\ \A f \in files : f[1] = "barrier" => f[2] \in Ranks /\ f[3] \in Nat /\ f[3] < entered[f[2]]
    /\ \A r, q \in Ranks : Op(r) = "barrier" /\ in_call[r] /\ q < looking_for[r] => entered[q] >= entered[r]

\* A fence collects only what was committed, and barriers are the only fences of their script.
SlurmInv ==
    /\ committed \in BOOLEAN /\ collected \in BOOLEAN
    /\ fences \in [Ranks -> Nat]
    /\ collected => committed
    /\ committed => published
    /\ program = "barriers" => fences = entered

Calls == {"put", "get", "sync", "barrier"}

\* How the barriers of a rank relate to the generation of the server.
Waiting == {r \in Ranks : request[r] = "barrier" /\ awaiting[r] = gen["barrier"]}
BarrierInv(r) ==
    IF request[r] # "barrier" THEN entered[r] = gen["barrier"]
    ELSE IF awaiting[r] = -1 THEN entered[r] = gen["barrier"] + 1
    ELSE entered[r] = awaiting[r] + 1 /\ gen["barrier"] \in {awaiting[r], awaiting[r] + 1}

\* A request is the call its rank is in, it has at most one answer, and a rank without a
\* connection is still in its constructor.
ClientInv(r) ==
    /\ request[r] \in Calls => Op(r) = request[r] /\ in_call[r]
    /\ request[r] # "none" => response[r] = "none"
    /\ response[r] # "none" => in_call[r] /\ Op(r) \in Calls \cup {"init"}
    /\ request[r] \notin Gates => awaiting[r] = -1
    /\ conn[r] \in {"none", "backlog", "auth"} => Op(r) = "init" /\ response[r] = "none"
    /\ conn[r] \in {"backlog", "auth"} => in_call[r]
    /\ conn[r] = "closed" => r \in crashed \/ Ended(r) \/ (Op(r) = "init" /\ response[r] = "none")
    /\ response[r] = "ok" /\ Op(r) = "get" => kv

\* The count of the barrier is the number of handlers that wait for the present generation.
SocketInv ==
    /\ conn \in [Clients -> {"none", "backlog", "auth", "open", "closed"}]
    /\ request \in [Ranks -> Calls \cup {"none", "auth"}]
    /\ response \in [Ranks -> {"none", "ok", "timeout"}]
    /\ awaiting \in [Ranks -> Int]
    /\ gen \in [Gates -> Nat] /\ count \in [Gates -> Nat]
    /\ kv \in BOOLEAN
    /\ kv => published
    /\ \A r \in Ranks : ClientInv(r) /\ BarrierInv(r)
    /\ count["barrier"] = Cardinality(Waiting)

\* As long as no wait has timed out: nobody has failed, a rank between its constructor and
\* its destructor has its alive file, rank 0 is at its destructor only when everyone has
\* passed the constructor, and it has ended only when everyone has.
DirectoryInv ==
    /\ dir_exists \in BOOLEAN
    /\ \A r \in Ranks : error[r] = "none"
    /\ \A q \in Ranks \ {0} : step[q] \in 2 .. Size(q) => Alive(q) \in files
    /\ step[0] >= Size(0) => \A q \in Ranks : step[q] > 1
    /\ Ended(0) => \A q \in Ranks : Ended(q)
    /\ ~ Ended(0) => \A q \in Ranks : step[q] > 1 \/ in_call[q] => dir_exists
    /\ \A r \in Ranks : Op(r) = "get" /\ in_call[r] => Value \in files
\* Without RRUN_COORD_DIR no rank gets beyond its constructor.
NoDirectoryInv ==
    \A r \in Ranks : ~ in_call[r] /\ (step[r] = 1 \/ Ended(r)) /\ error[r] \in {"none", "environment"}

\* The inductive invariant.
BackendInv ==
    /\ UserTypes /\ UserInv
    /\ detect_backend = "FILE" => FileInv
    /\ detect_backend = "SLURM" => SlurmInv
    /\ detect_backend = "SOCKET" => SocketInv
    /\ detect_backend = "FILE" /\ "RRUN_COORD_DIR" \in env /\ ~ timed_out => DirectoryInv
    /\ detect_backend = "FILE" /\ "RRUN_COORD_DIR" \notin env => NoDirectoryInv

-----------------------------------------------------------------------------
(* Scripts. *)

OpOf(r, s) == IF s > Size(r) THEN "exited" ELSE Script(r)[s]
Inner == {"put", "sync", "get", "comm_barrier", "barrier"}

\* The elements of a concatenation.
LEMMA Joined ==
  ASSUME NEW S, NEW p \in Seq(S), NEW q \in Seq(S)
  PROVE  /\ p \o q \in Seq(S) /\ Len(p \o q) = Len(p) + Len(q)
         /\ \A i \in 1 .. Len(p) + Len(q) : (p \o q)[i] = IF i <= Len(p) THEN p[i] ELSE q[i - Len(p)]
OBVIOUS

\* A script begins with the constructor, ends with the destructor, and has a meeting of all
\* ranks before the destructor.
LEMMA Scripts ==
  ASSUME program \in {"create_ucxx_comm", "barriers"}, NEW r \in Ranks
  PROVE  /\ Size(r) \in Nat /\ Size(r) > 2
         /\ Script(r)[1] = "init" /\ Script(r)[Size(r)] = "close"
         /\ \A i \in 2 .. Size(r) - 1 : Script(r)[i] \in Inner
         /\ \A i \in 2 .. Size(r) - 1 : Script(r)[i] = "barrier" <=> program = "barriers"
         /\ Script(r)[Size(r) - 1] = IF program = "barriers" THEN "barrier" ELSE "comm_barrier"
<1>1. CASE program = "create_ucxx_comm"
  <2>1. Script(r) = create_ucxx_comm(r)
    BY <1>1 DEF Script
  <2>2. CASE r = 0
    <3>1. Script(r) = <<"init", "put", "sync", "comm_barrier", "close">>
      BY <2>1, <2>2 DEF create_ucxx_comm
    <3> QED BY <3>1, <1>1 DEF Size, Inner
  <2>3. CASE r # 0
    <3>1. Script(r) = <<"init", "sync", "get", "comm_barrier", "close">>
      BY <2>1, <2>3 DEF create_ucxx_comm
    <3> QED BY <3>1, <1>1 DEF Size, Inner
  <2> QED BY <2>2, <2>3
<1>2. CASE program = "barriers"
  <2> DEFINE M == MaxBarriers
             q == [i \in 1 .. M |-> "barrier"]
             a == <<"init">>
             z == <<"close">>
             S == {"init", "barrier", "close"}
  <2>1. M \in Nat /\ M > 0
    BY MaxBarriersAssumption
  <2>2. Script(r) = (a \o q) \o z
    BY <1>2 DEF Script
  <2>3. q \in Seq(S) /\ Len(q) = M /\ \A i \in 1 .. M : q[i] = "barrier"
    BY <2>1
  <2>4. a \in Seq(S) /\ Len(a) = 1 /\ a[1] = "init" /\ z \in Seq(S) /\ Len(z) = 1 /\ z[1] = "close"
    OBVIOUS
  <2> HIDE DEF q, a, z, M, S
  <2> DEFINE aq == a \o q
  <2>5. /\ aq \in Seq(S) /\ Len(aq) = M + 1 /\ aq[1] = "init"
        /\ \A i \in 2 .. M + 1 : aq[i] = "barrier"
    <3>0. /\ a \o q \in Seq(S) /\ Len(a \o q) = Len(a) + Len(q)
          /\ \A i \in 1 .. Len(a) + Len(q) : (a \o q)[i] = IF i <= Len(a) THEN a[i] ELSE q[i - Len(a)]
      BY <2>3, <2>4, Joined
    <3>1. aq \in Seq(S) /\ Len(aq) = 1 + M
      BY <3>0, <2>3, <2>4
    <3>2. \A i \in 1 .. 1 + M : aq[i] = IF i <= 1 THEN a[i] ELSE q[i - 1]
      BY <3>0, <2>3, <2>4
    <3>3. \A i \in 2 .. M + 1 : i \in 1 .. 1 + M /\ ~(i <= 1) /\ i - 1 \in 1 .. M
      BY <2>1
    <3>4. 1 \in 1 .. 1 + M
      BY <2>1
    <3> HIDE DEF aq
    <3> QED BY <3>1, <3>2, <3>3, <3>4, <2>1, <2>3, <2>4
  <2> HIDE DEF aq
  <2>6. /\ Len(aq \o z) = M + 2 /\ (aq \o z)[1] = "init" /\ (aq \o z)[M + 2] = "close"
        /\ \A i \in 2 .. M + 1 : (aq \o z)[i] = "barrier"
    <3>0. aq \in Seq(S) /\ z \in Seq(S)
      BY <2>4, <2>5
    <3>5. /\ Len(aq \o z) = Len(aq) + Len(z)
          /\ \A i \in 1 .. Len(aq) + Len(z) :
                (aq \o z)[i] = IF i <= Len(aq) THEN aq[i] ELSE z[i - Len(aq)]
      BY <3>0, Joined
    <3>6. Len(aq) = M + 1 /\ Len(z) = 1 /\ M + 1 + 1 = M + 2
      BY <2>1, <2>4, <2>5
    <3>1. Len(aq \o z) = M + 2
      BY <3>5, <3>6
    <3>2. \A i \in 1 .. M + 2 : (aq \o z)[i] = IF i <= M + 1 THEN aq[i] ELSE z[i - (M + 1)]
      BY <3>5, <3>6
    <3>3. \A i \in 2 .. M + 1 : i \in 1 .. M + 2 /\ i <= M + 1
      BY <2>1
    <3>4. 1 \in 1 .. M + 2 /\ 1 <= M + 1 /\ M + 2 \in 1 .. M + 2 /\ ~(M + 2 <= M + 1) /\ M + 2 - (M + 1) = 1
      BY <2>1
    <3>7. (aq \o z)[1] = "init" /\ \A i \in 2 .. M + 1 : (aq \o z)[i] = "barrier"
      BY <3>2, <3>3, <3>4, <2>5
    <3>8. (aq \o z)[M + 2] = z[1]
      <4> DEFINE n == M + 2
      <4>1. n \in 1 .. M + 2 /\ ~(n <= M + 1) /\ n - (M + 1) = 1
        BY <2>1
      <4> HIDE DEF n
      <4>2. (aq \o z)[n] = z[1]
        BY <4>1, <3>2
      <4> QED BY <4>2 DEF n
    <3> QED BY <3>1, <3>7, <3>8, <2>4
  <2>7. Script(r) = aq \o z
    BY <2>2 DEF aq
  <2>8. Size(r) = M + 2
    BY <2>6, <2>7 DEF Size
  <2> DEFINE w == Script(r)
  <2>9. w[1] = "init" /\ w[M + 2] = "close" /\ \A i \in 2 .. M + 1 : w[i] = "barrier"
    BY <2>6, <2>7
  <2> HIDE DEF w
  <2>10. 2 .. Size(r) - 1 = 2 .. M + 1 /\ Size(r) - 1 = M + 1 /\ M + 1 \in 2 .. M + 1 /\ Size(r) > 2
         /\ Size(r) \in Nat
    BY <2>1, <2>8
  <2>11. w[Size(r)] = "close" /\ w[Size(r) - 1] = "barrier" /\ \A i \in 2 .. Size(r) - 1 : w[i] = "barrier"
    BY <2>8, <2>9, <2>10
  <2>12. "barrier" \in Inner
    BY DEF Inner
  <2> QED BY <2>9, <2>10, <2>11, <2>12, <1>2 DEF w
<1> QED BY <1>1, <1>2

\* The places of a rank in its script.
LEMMA Places ==
  ASSUME program \in {"create_ucxx_comm", "barriers"}, NEW r \in Ranks,
         NEW s \in Nat, s >= 1, s <= Size(r) + 1
  PROVE  /\ OpOf(r, s) = "init" <=> s = 1
         /\ OpOf(r, s) = "close" <=> s = Size(r)
         /\ OpOf(r, s) = "exited" <=> s > Size(r)
         /\ OpOf(r, s) \in Inner <=> s > 1 /\ s < Size(r)
         /\ OpOf(r, s) = "barrier" <=> program = "barriers" /\ s > 1 /\ s < Size(r)
         /\ s = Size(r) - 1 => OpOf(r, s) \in {"barrier", "comm_barrier"}
         /\ OpOf(r, s) \in Inner \cup {"init", "close", "exited"}
<1>1. /\ Size(r) \in Nat /\ Size(r) > 2
      /\ Script(r)[1] = "init" /\ Script(r)[Size(r)] = "close"
      /\ \A i \in 2 .. Size(r) - 1 : Script(r)[i] \in Inner
      /\ \A i \in 2 .. Size(r) - 1 : Script(r)[i] = "barrier" <=> program = "barriers"
      /\ Script(r)[Size(r) - 1] \in {"barrier", "comm_barrier"}
  BY Scripts
<1>2. CASE s = 1
  BY <1>1, <1>2 DEF OpOf, Inner
<1>3. CASE s = Size(r)
  BY <1>1, <1>3 DEF OpOf, Inner
<1>4. CASE s > Size(r)
  BY <1>1, <1>4 DEF OpOf, Inner
<1>5. CASE s \in 2 .. Size(r) - 1
  <2>1. OpOf(r, s) = Script(r)[s]
    BY <1>1, <1>5 DEF OpOf
  <2>2. OpOf(r, s) \in Inner /\ (OpOf(r, s) = "barrier" <=> program = "barriers")
    BY <2>1, <1>1, <1>5
  <2>3. OpOf(r, s) # "init" /\ OpOf(r, s) # "close" /\ OpOf(r, s) # "exited"
    BY <2>2 DEF Inner
  <2> QED BY <2>1, <2>2, <2>3, <1>1, <1>5
<1> QED BY <1>1, <1>2, <1>3, <1>4, <1>5

-----------------------------------------------------------------------------
(* The ranks. *)

\* Rank r goes to the place s of its script, into the call there or not.
Goes(r, s, c) ==
    /\ step' \in [Ranks -> Nat] /\ in_call' \in [Ranks -> BOOLEAN]
    /\ step'[r] = s /\ in_call'[r] = c
    /\ \A q \in Ranks : q # r => step'[q] = step[q] /\ in_call'[q] = in_call[q]
    /\ \A q \in Ranks : step'[q] \in 1 .. Size(q) + 1 /\ (in_call'[q] => step'[q] <= Size(q))

\* The places are those of the script, before and after.
SamePlaces ==
    \A q \in Ranks : /\ Op(q) = OpOf(q, step[q]) /\ (Ended(q) <=> step[q] > Size(q))
                     /\ Op(q)' = OpOf(q, step'[q]) /\ (Ended(q)' <=> step'[q] > Size(q))
                     /\ Size(q)' = Size(q)

\* Scripts do not change.
LEMMA PlacesKept == ASSUME program' = program PROVE SamePlaces
<1>1. \A q \in Ranks : Script(q)' = Script(q)
  BY DEF Script
<1>2. \A q \in Ranks : Size(q)' = Size(q)
  BY <1>1 DEF Size
<1> QED BY <1>1, <1>2 DEF SamePlaces, OpOf, Op, Ended, Size

\* Where a call that starts, returns or throws leaves its rank.
LEMMA Going ==
  ASSUME UserTypes, NEW r \in Ranks, step[r] <= Size(r)
  PROVE  /\ Start(r) => Goes(r, step[r], TRUE)
         /\ Finish(r) => Goes(r, step[r] + 1, FALSE)
         /\ \A why : Throw(r, why) => Goes(r, IF step[r] = 1 THEN Size(r) + 1 ELSE Size(r), FALSE)
<1>1. /\ step \in [Ranks -> Nat] /\ in_call \in [Ranks -> BOOLEAN]
      /\ \A q \in Ranks : step[q] \in 1 .. Size(q) + 1 /\ (in_call[q] => step[q] <= Size(q))
  BY DEF UserTypes
<1>2. Size(r) \in Nat /\ Size(r) > 2
  BY Scripts DEF UserTypes
<1>3. ASSUME Start(r) PROVE Goes(r, step[r], TRUE)
  <2>1. step' = step /\ in_call' = [in_call EXCEPT ![r] = TRUE]
    BY <1>3 DEF Start
  <2> QED BY <2>1, <1>1, <1>2 DEF Goes
<1>4. ASSUME Finish(r) PROVE Goes(r, step[r] + 1, FALSE)
  <2>1. step' = [step EXCEPT ![r] = @ + 1] /\ in_call' = [in_call EXCEPT ![r] = FALSE]
    BY <1>4 DEF Finish
  <2>2. step[r] + 1 \in 1 .. Size(r) + 1
    BY <1>1, <1>2
  <2> QED BY <2>1, <2>2, <1>1, <1>2 DEF Goes
<1>5. ASSUME NEW why, Throw(r, why)
      PROVE  Goes(r, IF step[r] = 1 THEN Size(r) + 1 ELSE Size(r), FALSE)
  <2>1. Op(r) = "init" <=> step[r] = 1
    <3>1. Op(r) = OpOf(r, step[r])
      BY DEF Op, OpOf, Ended, Size
    <3> QED BY <3>1, <1>1, Places DEF UserTypes
  <2>2. /\ step' = [step EXCEPT ![r] = Size(r) + IF Op(r) = "init" THEN 1 ELSE 0]
        /\ in_call' = [in_call EXCEPT ![r] = FALSE]
    BY <1>5 DEF Throw, Size
  <2> DEFINE s == IF step[r] = 1 THEN Size(r) + 1 ELSE Size(r)
  <2>3. step' = [step EXCEPT ![r] = s] /\ s \in 1 .. Size(r) + 1 /\ s \in Nat
    <3>1. s = Size(r) + IF Op(r) = "init" THEN 1 ELSE 0
      <4>1. CASE step[r] = 1
        BY <4>1, <2>1, <1>2
      <4>2. CASE step[r] # 1
        BY <4>2, <2>1, <1>2
      <4> QED BY <4>1, <4>2
    <3>2. s \in 1 .. Size(r) + 1 /\ s \in Nat
      BY <1>2
    <3> HIDE DEF s
    <3> QED BY <3>1, <3>2, <2>2
  <2> HIDE DEF s
  <2>4. Goes(r, s, FALSE)
    BY <2>2, <2>3, <1>1, <1>2 DEF Goes
  <2> QED BY <2>4 DEF s
<1> QED BY <1>3, <1>4, <1>5

\* What a step of r does to the counts of its barriers.
Counting(r) ==
    \/ /\ UNCHANGED <<entered, left>>
       /\ \/ Op(r) # "barrier" /\ (Goes(r, step[r], TRUE) \/ Goes(r, step[r] + 1, FALSE))
          \/ Goes(r, Size(r), FALSE) \/ Goes(r, Size(r) + 1, FALSE)
    \/ Op(r) = "barrier" /\ ~ in_call[r] /\ Goes(r, step[r], TRUE)
       /\ entered' = [entered EXCEPT ![r] = @ + 1] /\ left' = left
    \/ Op(r) = "barrier" /\ in_call[r] /\ Goes(r, step[r] + 1, FALSE)
       /\ left' = [left EXCEPT ![r] = @ + 1] /\ entered' = entered

\* The counts of barriers stay in step with the places in the scripts.
LEMMA UserKept ==
  ASSUME UserTypes, UserInv, NEW r \in Ranks, step[r] <= Size(r), program' = program,
         Counting(r), published' \in BOOLEAN
  PROVE  UserTypes' /\ UserInv'
<1>1. /\ step \in [Ranks -> Nat] /\ in_call \in [Ranks -> BOOLEAN]
      /\ entered \in [Ranks -> Nat] /\ left \in [Ranks -> Nat]
      /\ program \in {"create_ucxx_comm", "barriers"}
      /\ \A q \in Ranks : step[q] \in 1 .. Size(q) + 1 /\ (in_call[q] => step[q] <= Size(q))
  BY DEF UserTypes
<1>2. SamePlaces
  BY PlacesKept
<1>3. Size(r) \in Nat /\ Size(r) > 2
  BY <1>1, Scripts
<1>4. PICK s \in Nat, c \in BOOLEAN : Goes(r, s, c)
  <2>1. \/ Goes(r, step[r], TRUE) \/ Goes(r, step[r] + 1, FALSE)
        \/ Goes(r, Size(r), FALSE) \/ Goes(r, Size(r) + 1, FALSE)
    BY Zenon DEF Counting
  <2>2. step[r] \in Nat /\ step[r] + 1 \in Nat /\ Size(r) \in Nat /\ Size(r) + 1 \in Nat
    BY <1>1, <1>3
  <2>3. TRUE \in BOOLEAN /\ FALSE \in BOOLEAN
    OBVIOUS
  <2> QED BY <2>1, <2>2, <2>3, Zenon
<1>5. /\ step' \in [Ranks -> Nat] /\ in_call' \in [Ranks -> BOOLEAN]
      /\ \A q \in Ranks : q # r => step'[q] = step[q] /\ in_call'[q] = in_call[q]
      /\ \A q \in Ranks : step'[q] \in 1 .. Size(q) + 1 /\ (in_call'[q] => step'[q] <= Size(q))
  BY <1>4 DEF Goes
<1>6. /\ entered' \in [Ranks -> Nat] /\ left' \in [Ranks -> Nat]
      /\ \A q \in Ranks : q # r => entered'[q] = entered[q] /\ left'[q] = left[q]
  <2>1. \/ entered' = entered /\ left' = left
        \/ entered' = [entered EXCEPT ![r] = @ + 1] /\ left' = left
        \/ entered' = entered /\ left' = [left EXCEPT ![r] = @ + 1]
    BY Zenon DEF Counting
  <2> QED BY <2>1, <1>1
<1>7. UserTypes'
  BY <1>1, <1>2, <1>5, <1>6 DEF UserTypes, SamePlaces
<1>8. \A q \in Ranks : /\ left[q] <= entered[q]
                       /\ entered[q] > 0 => step[q] > 1
                       /\ Op(q) = "barrier" => entered[q] = left[q] + IF in_call[q] THEN 1 ELSE 0
  BY DEF UserInv
<1>9. ASSUME NEW q \in Ranks, q # r
      PROVE  /\ left'[q] <= entered'[q]
             /\ entered'[q] > 0 => step'[q] > 1
             /\ Op(q)' = "barrier" => entered'[q] = left'[q] + IF in_call'[q] THEN 1 ELSE 0
  <2>1. Op(q)' = Op(q)
    BY <1>2, <1>5, <1>9 DEF SamePlaces
  <2> QED BY <2>1, <1>5, <1>6, <1>8, <1>9
<1>10. /\ Op(r) = "barrier" <=> program = "barriers" /\ step[r] > 1 /\ step[r] < Size(r)
       /\ Op(r)' = "barrier" <=> program = "barriers" /\ step'[r] > 1 /\ step'[r] < Size(r)
  <2>1. step[r] \in Nat /\ step[r] >= 1 /\ step[r] <= Size(r) + 1
        /\ step'[r] \in Nat /\ step'[r] >= 1 /\ step'[r] <= Size(r) + 1
    BY <1>1, <1>3, <1>5
  <2>2. Op(r) = OpOf(r, step[r]) /\ Op(r)' = OpOf(r, step'[r])
    BY <1>2 DEF SamePlaces
  <2> QED BY <2>1, <2>2, <1>1, Places
<1>11. /\ left'[r] <= entered'[r]
       /\ entered'[r] > 0 => step'[r] > 1
       /\ Op(r)' = "barrier" => entered'[r] = left'[r] + IF in_call'[r] THEN 1 ELSE 0
  <2>0. /\ left[r] <= entered[r] /\ (entered[r] > 0 => step[r] > 1)
        /\ Op(r) = "barrier" => entered[r] = left[r] + IF in_call[r] THEN 1 ELSE 0
        /\ entered[r] \in Nat /\ left[r] \in Nat /\ step[r] \in Nat /\ step[r] >= 1
    BY <1>1, <1>8
  <2>1. CASE entered' = entered /\ left' = left /\ Op(r) # "barrier"
             /\ (Goes(r, step[r], TRUE) \/ Goes(r, step[r] + 1, FALSE))
    <3>1. step'[r] = step[r] \/ (step'[r] = step[r] + 1 /\ in_call'[r] = FALSE)
      BY <2>1 DEF Goes
    <3>2. Op(r)' = "barrier" => step[r] = 1 /\ step'[r] = 2 /\ in_call'[r] = FALSE
      BY <3>1, <2>0, <2>1, <1>3, <1>10
    <3>3. Op(r)' = "barrier" => entered[r] = 0 /\ left[r] = 0
      BY <3>2, <2>0
    <3> QED BY <3>1, <3>2, <3>3, <2>0, <2>1
  <2>2. CASE entered' = entered /\ left' = left
             /\ (Goes(r, Size(r), FALSE) \/ Goes(r, Size(r) + 1, FALSE))
    <3>1. step'[r] = Size(r) \/ step'[r] = Size(r) + 1
      BY <2>2 DEF Goes
    <3> QED BY <3>1, <2>0, <2>2, <1>3, <1>10
  <2>3. CASE Op(r) = "barrier" /\ ~ in_call[r] /\ Goes(r, step[r], TRUE)
             /\ entered' = [entered EXCEPT ![r] = @ + 1] /\ left' = left
    <3>1. step'[r] = step[r] /\ in_call'[r] = TRUE /\ entered'[r] = entered[r] + 1 /\ left'[r] = left[r]
      BY <2>3, <1>1 DEF Goes
    <3>2. step[r] > 1
      BY <2>3, <1>10
    <3> QED BY <3>1, <3>2, <2>0, <2>3
  <2>4. CASE Op(r) = "barrier" /\ in_call[r] /\ Goes(r, step[r] + 1, FALSE)
             /\ left' = [left EXCEPT ![r] = @ + 1] /\ entered' = entered
    <3>1. step'[r] = step[r] + 1 /\ in_call'[r] = FALSE /\ left'[r] = left[r] + 1 /\ entered'[r] = entered[r]
      BY <2>4, <1>1 DEF Goes
    <3> QED BY <3>1, <2>0, <2>4
  <2> QED BY <2>1, <2>2, <2>3, <2>4 DEF Counting
<1>12. UserInv'
  BY <1>9, <1>11 DEF UserInv
<1> QED BY <1>7, <1>12

\* What a step of r does for the contract, if anything.
Effects(r) ==
    \/ UNCHANGED effects
    \/ Publish
    \/ published /\ Obtain(r)
    \/ entered[r] = left[r] /\ EnterBarrier(r)
    \/ left[r] < entered[r] /\ (\A q \in Ranks : entered[q] >= entered[r]) /\ LeaveBarrier(r)

\* Each of these effects is a step of the contract.
LEMMA EffectsKeepContract ==
  ASSUME NEW r \in Ranks, Effects(r)
  PROVE  [Contract!Next]_(Contract!contractVars)
BY DEF Effects, effects, Publish, Obtain, EnterBarrier, LeaveBarrier, Contract!Next, Contract!Put,
       Contract!Get, Contract!Enter, Contract!Leave, Contract!contractVars

\* A rank that is not in or before a barrier call makes no difference to its barriers.
Unbarred(r) ==
    /\ UNCHANGED <<entered, left>>
    /\ \/ Op(r) # "barrier" /\ (Goes(r, step[r], TRUE) \/ Goes(r, step[r] + 1, FALSE))
       \/ Goes(r, Size(r), FALSE) \/ Goes(r, Size(r) + 1, FALSE)

\* No rank gets into a barrier by such a step.
LEMMA NoNewBarriers ==
  ASSUME UserTypes, program' = program, NEW r \in Ranks, Unbarred(r), step[r] <= Size(r)
  PROVE  /\ Counting(r)
         /\ \A q \in Ranks : Op(q)' = "barrier" /\ in_call'[q] => Op(q) = "barrier" /\ in_call[q]
<1>1. SamePlaces
  BY PlacesKept
<1>2. Counting(r)
  BY Zenon DEF Unbarred, Counting
<1>3. ASSUME NEW q \in Ranks, Op(q)' = "barrier", in_call'[q] PROVE Op(q) = "barrier" /\ in_call[q]
  <2>1. CASE q # r
    <3>1. step'[q] = step[q] /\ in_call'[q] = in_call[q]
      BY <2>1 DEF Unbarred, Goes
    <3> QED BY <3>1, <1>1, <1>3 DEF SamePlaces
  <2>2. CASE q = r
    <3>1. in_call'[r]
      BY <2>2, <1>3
    <3>2. \/ Op(r) # "barrier" /\ Goes(r, step[r], TRUE)
          \/ Goes(r, step[r] + 1, FALSE) \/ Goes(r, Size(r), FALSE) \/ Goes(r, Size(r) + 1, FALSE)
      BY Zenon DEF Unbarred
    <3>3. Op(r) # "barrier" /\ step'[r] = step[r]
      BY <3>1, <3>2 DEF Goes
    <3>4. Op(r)' = Op(r)
      BY <3>3, <1>1 DEF SamePlaces
    <3> QED BY <3>3, <3>4, <2>2, <1>3
  <2> QED BY <2>1, <2>2
<1> QED BY <1>2, <1>3

-----------------------------------------------------------------------------
(* The file backend. *)

\* Values, alive files and barrier files have different names.
LEMMA FileNames ==
  /\ Value[1] = "kv"
  /\ \A q : Alive(q)[1] = "alive" /\ Alive(q)[2] = q
  /\ \A q, id : BarrierFile(q, id)[1] = "barrier" /\ BarrierFile(q, id)[2] = q /\ BarrierFile(q, id)[3] = id
BY DEF Value, Alive, BarrierFile

\* Only the barrier of a rank changes what is known of barriers.
LEMMA FilesKept ==
  ASSUME FileInv, UserTypes, program' = program, NEW r \in Ranks, Unbarred(r), step[r] <= Size(r),
         looking_for' = looking_for, published => published',
         \A f \in files' : f \in files \/ f[1] = "alive" \/ (f = Value /\ published')
  PROVE  FileInv'
<1>1. /\ Value \in files => published
      /\ looking_for \in [Ranks -> Nat]
      /\ \A f \in files : f[1] = "barrier" => f[2] \in Ranks /\ f[3] \in Nat /\ f[3] < entered[f[2]]
      /\ \A p, q \in Ranks : Op(p) = "barrier" /\ in_call[p] /\ q < looking_for[p] => entered[q] >= entered[p]
  BY DEF FileInv
<1>2. entered' = entered
  BY DEF Unbarred
<1>3. \A q \in Ranks : Op(q)' = "barrier" /\ in_call'[q] => Op(q) = "barrier" /\ in_call[q]
  BY NoNewBarriers
<1>4. Value' = Value
  BY DEF Value
<1>5. Value' \in files' => published'
  BY <1>1, <1>4, FileNames
<1>6. \A f \in files' : f[1] = "barrier" => f[2] \in Ranks /\ f[3] \in Nat /\ f[3] < entered'[f[2]]
  BY <1>1, <1>2, FileNames
<1>7. \A p, q \in Ranks : Op(p)' = "barrier" /\ in_call'[p] /\ q < looking_for'[p] => entered'[q] >= entered'[p]
  BY <1>1, <1>2, <1>3
<1> QED BY <1>1, <1>5, <1>6, <1>7 DEF FileInv

\* A barrier of the file backend: the own file, then the files of the others.
LEMMA FileBarrier ==
  ASSUME UserTypes, UserInv, FileInv, program' = program, NEW r \in Ranks,
         step[r] <= Size(r), published' = published,
         \/ /\ At(r, "barrier") /\ write_file(BarrierFile(r, entered[r]))
            /\ looking_for' = [looking_for EXCEPT ![r] = NextOther(r, 0)]
            /\ Start(r) /\ EnterBarrier(r)
         \/ /\ In(r, "barrier") /\ looking_for[r] < nranks
            /\ BarrierFile(looking_for[r], entered[r] - 1) \in files
            /\ looking_for' = [looking_for EXCEPT ![r] = NextOther(r, looking_for[r] + 1)]
            /\ UNCHANGED <<files, scriptVars, effects>>
         \/ /\ In(r, "barrier") /\ looking_for[r] >= nranks
            /\ files' = files \ {BarrierFile(r, entered[r] - 1)}
            /\ Finish(r) /\ LeaveBarrier(r) /\ UNCHANGED looking_for
  PROVE  Effects(r) /\ FileInv' /\ UserTypes' /\ UserInv'
<1>1. /\ Value \in files => published
      /\ looking_for \in [Ranks -> Nat]
      /\ \A f \in files : f[1] = "barrier" => f[2] \in Ranks /\ f[3] \in Nat /\ f[3] < entered[f[2]]
      /\ \A p, q \in Ranks : Op(p) = "barrier" /\ in_call[p] /\ q < looking_for[p] => entered[q] >= entered[p]
  BY DEF FileInv
<1>2. /\ step \in [Ranks -> Nat] /\ in_call \in [Ranks -> BOOLEAN]
      /\ entered \in [Ranks -> Nat] /\ left \in [Ranks -> Nat]
      /\ Op(r) = "barrier" => entered[r] = left[r] + IF in_call[r] THEN 1 ELSE 0
      /\ published \in BOOLEAN
  BY DEF UserTypes, UserInv
<1>3. SamePlaces /\ Value' = Value /\ published' = published
  BY PlacesKept DEF Value
<1>4. \A q \in Ranks : q \in Nat /\ q < nranks
  BY nranksAssumption DEF Ranks
<1>5. nranks \in Nat
  BY nranksAssumption
<1>6. \A n \in Nat : NextOther(r, n) \in Nat /\ \A q \in Ranks : q < NextOther(r, n) => q < n \/ q = r
  BY <1>4 DEF NextOther
<1>7. CASE /\ At(r, "barrier") /\ write_file(BarrierFile(r, entered[r]))
           /\ looking_for' = [looking_for EXCEPT ![r] = NextOther(r, 0)]
           /\ Start(r) /\ EnterBarrier(r)
  <2> DEFINE n == NextOther(r, 0)
  <2>1. n \in Nat /\ \A q \in Ranks : q < n => q = r
    BY <1>4, <1>6
  <2>2. /\ Op(r) = "barrier" /\ ~ in_call[r] /\ Goes(r, step[r], TRUE)
        /\ entered' = [entered EXCEPT ![r] = @ + 1] /\ left' = left
        /\ files' = files \cup {BarrierFile(r, entered[r])} /\ looking_for' = [looking_for EXCEPT ![r] = n]
    BY <1>7, Going DEF At, write_file, EnterBarrier
  <2> HIDE DEF n
  <2>3. Effects(r)
    BY <2>2, <1>2, <1>7 DEF Effects
  <2>4. Counting(r)
    BY <2>2, Zenon DEF Counting
  <2>5. /\ entered'[r] = entered[r] + 1 /\ \A q \in Ranks : q # r => entered'[q] = entered[q]
        /\ looking_for' \in [Ranks -> Nat] /\ looking_for'[r] = n
        /\ \A q \in Ranks : q # r => looking_for'[q] = looking_for[q]
    BY <2>1, <2>2, <1>1, <1>2
  <2>6. \A q \in Ranks : q # r => Op(q)' = Op(q) /\ in_call'[q] = in_call[q]
    BY <2>2, <1>3 DEF Goes, SamePlaces
  <2>7. ASSUME NEW f \in files', f[1] = "barrier"
        PROVE  f[2] \in Ranks /\ f[3] \in Nat /\ f[3] < entered'[f[2]]
    <3>1. CASE f \in files
      <4>1. f[2] \in Ranks /\ f[3] \in Nat /\ f[3] < entered[f[2]]
        BY <3>1, <2>7, <1>1
      <4> QED BY <4>1, <2>5, <1>2
    <3>2. CASE f = BarrierFile(r, entered[r])
      <4>1. f[2] = r /\ f[3] = entered[r]
        BY <3>2, FileNames
      <4> QED BY <4>1, <2>5, <1>2
    <3> QED BY <3>1, <3>2, <2>2
  <2>8. ASSUME NEW p \in Ranks, NEW q \in Ranks, Op(p)' = "barrier", in_call'[p], q < looking_for'[p]
        PROVE  entered'[q] >= entered'[p]
    <3>1. CASE p = r
      BY <3>1, <2>1, <2>5, <2>8, <1>2
    <3>2. CASE p # r
      <4>1. entered[q] >= entered[p]
        BY <3>2, <2>5, <2>6, <2>8, <1>1
      <4> QED BY <4>1, <3>2, <2>5, <1>2
    <3> QED BY <3>1, <3>2
  <2>9. Value' \in files' => published'
    BY <2>2, <1>1, <1>3, FileNames
  <2>10. FileInv'
    BY <2>5, <2>7, <2>8, <2>9 DEF FileInv
  <2> QED BY <2>3, <2>4, <2>10, <1>2, UserKept
<1>8. CASE /\ In(r, "barrier") /\ looking_for[r] < nranks
           /\ BarrierFile(looking_for[r], entered[r] - 1) \in files
           /\ looking_for' = [looking_for EXCEPT ![r] = NextOther(r, looking_for[r] + 1)]
           /\ UNCHANGED <<files, scriptVars, effects>>
  <2> DEFINE k == looking_for[r]
             n == NextOther(r, k + 1)
             f == BarrierFile(k, entered[r] - 1)
  <2>0. k \in Nat /\ k + 1 \in Nat
    BY <1>1
  <2>1. n \in Nat /\ \A q \in Ranks : q < n => q < k + 1 \/ q = r
    BY <2>0, <1>6
  <2>2. \A q \in Ranks : q < k + 1 => q < k \/ q = k
    BY <2>0, <1>4
  <2>3. /\ UNCHANGED <<step, in_call, published, got, entered, left, files>>
        /\ Op(r) = "barrier" /\ in_call[r]
        /\ looking_for' = [looking_for EXCEPT ![r] = n]
    BY <1>8 DEF scriptVars, effects, In
  <2>4. k \in Ranks /\ entered[k] >= entered[r]
    <3>1. k \in Ranks
      BY <2>0, <1>5, <1>8 DEF Ranks
    <3>2. f \in files /\ f[1] = "barrier" /\ f[2] = k /\ f[3] = entered[r] - 1
      BY <1>8, FileNames
    <3> HIDE DEF f
    <3>3. entered[r] - 1 < entered[k] /\ entered[r] - 1 \in Nat
      BY <3>2, <1>1
    <3> QED BY <3>1, <3>3, <1>2
  <2> HIDE DEF k, n, f
  <2>5. /\ looking_for' \in [Ranks -> Nat] /\ looking_for'[r] = n
        /\ \A q \in Ranks : q # r => looking_for'[q] = looking_for[q]
    BY <2>1, <2>3, <1>1
  <2>6. \A q \in Ranks : Op(q)' = Op(q)
    BY <2>3, <1>3 DEF SamePlaces
  <2>7. ASSUME NEW p \in Ranks, NEW q \in Ranks, Op(p) = "barrier", in_call[p], q < looking_for'[p]
        PROVE  entered[q] >= entered[p]
    <3>1. CASE p # r
      BY <3>1, <2>5, <2>7, <1>1
    <3>2. CASE p = r
      <4>1. q < k \/ q = k \/ q = r
        BY <3>2, <2>1, <2>2, <2>5, <2>7
      <4>2. q < k => entered[q] >= entered[r]
        BY <2>3, <1>1 DEF k
      <4> QED BY <4>1, <4>2, <3>2, <2>4, <1>2
    <3> QED BY <3>1, <3>2
  <2>8. FileInv'
    BY <2>3, <2>5, <2>6, <2>7, <1>1, <1>3 DEF FileInv
  <2>9. Effects(r)
    BY <1>8 DEF Effects
  <2>10. UserTypes' /\ UserInv'
    BY <2>3, <2>6, <1>3 DEF UserTypes, UserInv, SamePlaces
  <2> QED BY <2>8, <2>9, <2>10
<1>9. CASE /\ In(r, "barrier") /\ looking_for[r] >= nranks
           /\ files' = files \ {BarrierFile(r, entered[r] - 1)}
           /\ Finish(r) /\ LeaveBarrier(r) /\ UNCHANGED looking_for
  <2>1. /\ Op(r) = "barrier" /\ in_call[r] /\ Goes(r, step[r] + 1, FALSE)
        /\ left' = [left EXCEPT ![r] = @ + 1] /\ entered' = entered /\ looking_for' = looking_for
    BY <1>9, Going DEF In, LeaveBarrier
  <2>2. \A q \in Ranks : entered[q] >= entered[r]
    <3>1. \A q \in Ranks : q < looking_for[r]
      BY <1>1, <1>4, <1>5, <1>9
    <3> QED BY <3>1, <2>1, <1>1
  <2>3. Effects(r)
    BY <2>1, <2>2, <1>2, <1>9 DEF Effects
  <2>4. Counting(r)
    BY <2>1, Zenon DEF Counting
  <2>5. \A q \in Ranks : Op(q)' = "barrier" /\ in_call'[q] => Op(q) = "barrier" /\ in_call[q]
    BY <2>1, <1>3 DEF Goes, SamePlaces
  <2>6. \A p, q \in Ranks : Op(p)' = "barrier" /\ in_call'[p] /\ q < looking_for'[p] => entered'[q] >= entered'[p]
    BY <2>1, <2>5, <1>1
  <2>7. \A f \in files' : f \in files
    BY <1>9
  <2>8. FileInv'
    BY <2>1, <2>6, <2>7, <1>1, <1>3 DEF FileInv
  <2> QED BY <2>3, <2>4, <2>8, <1>2, UserKept
<1> QED BY <1>7, <1>8, <1>9

\* A rank with a call ahead has not run to its end.
LEMMA NotEnded ==
  ASSUME UserTypes, NEW r \in Ranks, Op(r) # "exited"
  PROVE  step[r] <= Size(r)
<1>1. ~ (step[r] > Size(r))
  BY DEF Op, Ended, Size
<1>2. Size(r) \in Nat /\ step[r] \in Nat
  BY Scripts DEF UserTypes
<1> QED BY <1>1, <1>2

\* A call that is no barrier starts or returns, or any call throws.
LEMMA Unbarring ==
  ASSUME UserTypes, NEW r \in Ranks, step[r] <= Size(r), UNCHANGED <<entered, left>>,
         \/ Op(r) # "barrier" /\ (Start(r) \/ Finish(r))
         \/ \E why : Throw(r, why)
  PROVE  Unbarred(r)
<1>1. CASE Op(r) # "barrier" /\ (Start(r) \/ Finish(r))
  <2>1. Goes(r, step[r], TRUE) \/ Goes(r, step[r] + 1, FALSE)
    BY <1>1, Going
  <2> QED BY <2>1, <1>1, Zenon DEF Unbarred
<1>2. CASE \E why : Throw(r, why)
  <2>1. Goes(r, IF step[r] = 1 THEN Size(r) + 1 ELSE Size(r), FALSE)
    BY <1>2, Going
  <2>2. Goes(r, Size(r), FALSE) \/ Goes(r, Size(r) + 1, FALSE)
    <3>1. CASE step[r] = 1
      BY <2>1, <3>1
    <3>2. CASE step[r] # 1
      BY <2>1, <3>2
    <3> QED BY <3>1, <3>2
  <2> QED BY <2>2, Zenon DEF Unbarred
<1> QED BY <1>1, <1>2

\* A step of the file backend outside its barrier.
FilePlain(r) ==
    /\ step[r] <= Size(r)
    /\ Unbarred(r)
    /\ Effects(r)
    /\ looking_for' = looking_for
    /\ published' \in BOOLEAN /\ (published => published')
    /\ \A f \in files' : f \in files \/ f[1] = "alive" \/ (f = Value /\ published')

\* A step outside the barriers keeps the invariant of the file backend.
LEMMA FilePlainKeeps ==
  ASSUME UserTypes, UserInv, FileInv, program' = program, NEW r \in Ranks, FilePlain(r)
  PROVE  Effects(r) /\ FileInv' /\ UserTypes' /\ UserInv'
<1>1. Counting(r)
  BY NoNewBarriers DEF FilePlain
<1>2. UserTypes' /\ UserInv'
  BY <1>1, UserKept DEF FilePlain
<1>3. FileInv'
  BY FilesKept DEF FilePlain
<1> QED BY <1>2, <1>3 DEF FilePlain

\* Every step of the file backend keeps the invariant and the contract.
LEMMA FileStepKeeps ==
  ASSUME UserTypes, UserInv, FileInv, program' = program, NEW r \in Ranks, FileStep(r)
  PROVE  Effects(r) /\ FileInv' /\ UserTypes' /\ UserInv'
<1>1. published \in BOOLEAN /\ (Value \in files => published)
  BY DEF UserInv, FileInv
<1>2. \A op : At(r, op) \/ In(r, op) => Op(r) = op
  BY DEF At, In
<1>3. \A op : op # "exited" /\ Op(r) = op => step[r] <= Size(r)
  BY NotEnded
<1>4. ASSUME NEW why, Throw(r, why), UNCHANGED <<effects, files, looking_for>>, step[r] <= Size(r)
      PROVE  FilePlain(r)
  <2>1. Unbarred(r)
    BY <1>4, Unbarring DEF effects
  <2>2. Effects(r)
    BY <1>4 DEF Effects
  <2> QED BY <2>1, <2>2, <1>1, <1>4 DEF FilePlain, effects
<1>5. CASE file_backend_init(r)
  BY <1>2, <1>3, <1>4, <1>5, FilePlainKeeps DEF file_backend_init, fileVars
<1>6. ASSUME write_fails(r), step[r] <= Size(r) PROVE FilePlain(r)
  BY <1>4, <1>6 DEF write_fails, fileVars
<1>7. CASE create_directories(r)
  <2>1. Op(r) = "init" /\ step[r] <= Size(r)
    BY <1>2, <1>3, <1>7 DEF create_directories
  <2>2. Start(r) /\ UNCHANGED <<files, looking_for, effects>>
    BY <1>7 DEF create_directories
  <2>3. Unbarred(r)
    BY <2>1, <2>2, Unbarring DEF effects
  <2>4. Effects(r)
    BY <2>2 DEF Effects
  <2>5. FilePlain(r)
    BY <2>1, <2>2, <2>3, <2>4, <1>1 DEF FilePlain, effects
  <2> QED BY <2>5, FilePlainKeeps
<1>8. CASE write_alive(r)
  <2>1. Op(r) = "init" /\ step[r] <= Size(r)
    BY <1>2, <1>3, <1>8 DEF write_alive
  <2>2. CASE write_fails(r)
    BY <1>6, <2>1, <2>2, FilePlainKeeps
  <2>3. CASE write_file(Alive(r)) /\ Finish(r) /\ UNCHANGED <<looking_for, timed_out, effects>>
    <3>1. Unbarred(r)
      BY <2>1, <2>3, Unbarring DEF effects
    <3>2. Effects(r)
      BY <2>3 DEF Effects
    <3>3. files' = files \cup {Alive(r)}
      BY <2>3 DEF write_file
    <3>4. FilePlain(r)
      BY <2>1, <2>3, <3>1, <3>2, <3>3, <1>1, FileNames DEF FilePlain, effects
    <3> QED BY <3>4, FilePlainKeeps
  <2> QED BY <2>2, <2>3, <1>8 DEF write_alive
<1>9. CASE file_put(r)
  <2>1. Op(r) = "put" /\ step[r] <= Size(r)
    BY <1>2, <1>3, <1>9 DEF file_put
  <2>2. CASE write_fails(r)
    BY <1>6, <2>1, <2>2, FilePlainKeeps
  <2>3. CASE write_file(Value) /\ Finish(r) /\ Publish /\ UNCHANGED <<looking_for, timed_out>>
    <3>1. Unbarred(r)
      BY <2>1, <2>3, Unbarring DEF Publish
    <3>2. Effects(r)
      BY <2>3 DEF Effects
    <3>3. files' = files \cup {Value} /\ published' = TRUE
      BY <2>3 DEF write_file, Publish
    <3>4. FilePlain(r)
      BY <2>1, <2>3, <3>1, <3>2, <3>3, <1>1 DEF FilePlain
    <3> QED BY <3>4, FilePlainKeeps
  <2> QED BY <2>2, <2>3, <1>9 DEF file_put
<1>10. CASE file_sync(r)
  <2>1. Op(r) = "sync" /\ step[r] <= Size(r)
    BY <1>2, <1>3, <1>10 DEF file_sync
  <2>2. Finish(r) /\ UNCHANGED <<files, looking_for, effects>>
    BY <1>10 DEF file_sync, fileVars
  <2>3. Unbarred(r)
    BY <2>1, <2>2, Unbarring DEF effects
  <2>4. Effects(r)
    BY <2>2 DEF Effects
  <2>5. FilePlain(r)
    BY <2>1, <2>2, <2>3, <2>4, <1>1 DEF FilePlain, effects
  <2> QED BY <2>5, FilePlainKeeps
<1>11. CASE file_get(r)
  <2>1. Op(r) = "get" /\ step[r] <= Size(r) /\ UNCHANGED <<files, looking_for>>
    BY <1>2, <1>3, <1>11 DEF file_get, fileVars
  <2>2. CASE Start(r) /\ UNCHANGED effects
    <3>1. Unbarred(r)
      BY <2>1, <2>2, Unbarring DEF effects
    <3>2. Effects(r)
      BY <2>2 DEF Effects
    <3>3. FilePlain(r)
      BY <2>1, <2>2, <3>1, <3>2, <1>1 DEF FilePlain, effects
    <3> QED BY <3>3, FilePlainKeeps
  <2>3. CASE (\E why : Throw(r, why)) /\ UNCHANGED effects
    BY <2>1, <2>3, <1>4, FilePlainKeeps
  <2>4. CASE Value \in files /\ Finish(r) /\ Obtain(r)
    <3>1. Unbarred(r)
      BY <2>1, <2>4, Unbarring DEF Obtain
    <3>2. Effects(r)
      BY <2>4, <1>1 DEF Effects
    <3>3. FilePlain(r)
      BY <2>1, <2>4, <3>1, <3>2, <1>1 DEF FilePlain, Obtain
    <3> QED BY <3>3, FilePlainKeeps
  <2> QED BY <2>2, <2>3, <2>4, <1>11 DEF file_get, Timeout
<1>12. CASE barrier_enter(r)
  <2>1. At(r, "barrier") /\ Op(r) = "barrier" /\ step[r] <= Size(r)
    BY <1>2, <1>3, <1>12 DEF barrier_enter
  <2>2. CASE write_fails(r)
    BY <1>6, <2>1, <2>2, FilePlainKeeps
  <2>3. CASE ~ write_fails(r)
    <3>1. /\ write_file(BarrierFile(r, entered[r]))
          /\ looking_for' = [looking_for EXCEPT ![r] = NextOther(r, 0)]
          /\ Start(r) /\ EnterBarrier(r)
      BY <2>3, <1>12 DEF barrier_enter
    <3>2. published' = published
      BY <3>1 DEF EnterBarrier
    <3> QED BY <3>1, <3>2, <2>1, FileBarrier
  <2> QED BY <2>2, <2>3
<1>13. CASE barrier_wait(r)
  <2>1. In(r, "barrier") /\ Op(r) = "barrier" /\ step[r] <= Size(r)
    BY <1>2, <1>3, <1>13 DEF barrier_wait
  <2>2. CASE Timeout(r) /\ UNCHANGED <<fileVars, effects>>
    BY <2>1, <2>2, <1>4, FilePlainKeeps DEF Timeout, fileVars
  <2>3. CASE /\ looking_for[r] < nranks /\ BarrierFile(looking_for[r], entered[r] - 1) \in files
             /\ looking_for' = [looking_for EXCEPT ![r] = NextOther(r, looking_for[r] + 1)]
             /\ UNCHANGED <<dir_exists, files, scriptVars, timed_out, effects>>
    <3>1. published' = published
      BY <2>3 DEF effects
    <3> QED BY <3>1, <2>1, <2>3, FileBarrier
  <2>4. CASE /\ looking_for[r] >= nranks
             /\ files' = files \ {BarrierFile(r, entered[r] - 1)}
             /\ Finish(r) /\ LeaveBarrier(r)
             /\ UNCHANGED <<dir_exists, looking_for, timed_out>>
    <3>1. published' = published
      BY <2>4 DEF LeaveBarrier
    <3> QED BY <3>1, <2>1, <2>4, FileBarrier
  <2> QED BY <2>2, <2>3, <2>4, <1>13 DEF barrier_wait
<1>14. CASE file_close(r)
  <2>1. Op(r) = "close" /\ step[r] <= Size(r)
    BY <1>2, <1>3, <1>14 DEF file_close
  <2>2. (Start(r) \/ Finish(r)) /\ UNCHANGED <<looking_for, effects>> /\ files' \subseteq files
    BY <1>14 DEF file_close
  <2>3. Unbarred(r)
    BY <2>1, <2>2, Unbarring DEF effects
  <2>4. Effects(r)
    BY <2>2 DEF Effects
  <2>5. FilePlain(r)
    BY <2>1, <2>2, <2>3, <2>4, <1>1 DEF FilePlain, effects
  <2> QED BY <2>5, FilePlainKeeps
<1> QED BY <1>5, <1>7, <1>8, <1>9, <1>10, <1>11, <1>12, <1>13, <1>14 DEF FileStep, FileNext

-----------------------------------------------------------------------------
(* The directory. *)

\* It is there for every rank that has begun and has not ended.
LEMMA DirectoryThere ==
  ASSUME UserTypes, DirectoryInv, NEW r \in Ranks, step[r] <= Size(r), step[r] > 1 \/ in_call[r]
  PROVE  dir_exists /\ ~ Ended(0)
<1>1. Size(r) \in Nat /\ step[r] \in Nat
  BY Scripts DEF UserTypes
<1>2. ~ Ended(r)
  BY <1>1 DEF Ended, Size
<1> QED BY <1>2 DEF DirectoryInv

\* A step of r to the place s, with the directory there.
DirectoryStep(r, s, c) ==
    /\ s \in Nat /\ c \in BOOLEAN /\ Goes(r, s, c)
    /\ step[r] <= Size(r) /\ s >= step[r] /\ (r = 0 => s <= Size(r))
    /\ error' = error /\ dir_exists' = TRUE
    /\ \A q \in Ranks \ {0} : q # r /\ Alive(q) \in files => Alive(q) \in files'
    /\ r # 0 /\ s \in 2 .. Size(r) => Alive(r) \in files'
    /\ Value \in files => Value \in files'
    /\ r = 0 /\ s > step[r] /\ s >= Size(r) => \A q \in Ranks : step[q] > 1
    /\ OpOf(r, s) = "get" /\ c => Value \in files'

\* A step with the directory in place keeps the directory's invariant.
LEMMA DirectoryKept ==
  ASSUME UserTypes, DirectoryInv, program' = program, NEW r \in Ranks, NEW s, NEW c,
         DirectoryStep(r, s, c)
  PROVE  DirectoryInv'
<1>1. /\ s \in Nat /\ c \in BOOLEAN /\ s >= step[r] /\ step[r] <= Size(r) /\ (r = 0 => s <= Size(r))
      /\ step' \in [Ranks -> Nat] /\ step'[r] = s /\ in_call'[r] = c
      /\ \A q \in Ranks : q # r => step'[q] = step[q] /\ in_call'[q] = in_call[q]
  BY DEF DirectoryStep, Goes
<1>2. SamePlaces
  BY PlacesKept
<1>3. \A q \in Ranks : Size(q) \in Nat /\ Size(q) > 2 /\ step[q] \in Nat
  BY Scripts DEF UserTypes
<1>4. 0 \in Ranks
  BY nranksAssumption DEF Ranks
<1>5. /\ \A q \in Ranks : error[q] = "none"
      /\ \A q \in Ranks \ {0} : step[q] \in 2 .. Size(q) => Alive(q) \in files
      /\ step[0] >= Size(0) => \A q \in Ranks : step[q] > 1
      /\ Ended(0) => \A q \in Ranks : Ended(q)
      /\ \A q \in Ranks : Op(q) = "get" /\ in_call[q] => Value \in files
  BY DEF DirectoryInv
<1>6. \A q \in Ranks : error'[q] = "none"
  BY <1>5 DEF DirectoryStep
<1>7. ASSUME NEW q \in Ranks \ {0}, step'[q] \in 2 .. Size(q) PROVE Alive(q) \in files'
  <2>1. CASE q = r
    BY <2>1, <1>1, <1>7 DEF DirectoryStep
  <2>2. CASE q # r
    <3>1. Alive(q) \in files
      BY <2>2, <1>1, <1>5, <1>7
    <3> QED BY <3>1, <2>2 DEF DirectoryStep
  <2> QED BY <2>1, <2>2
<1>8. \A q \in Ranks : step'[q] >= step[q]
  BY <1>1, <1>3
<1>9. step'[0] >= Size(0) => \A q \in Ranks : step'[q] > 1
  <2>1. SUFFICES ASSUME step'[0] >= Size(0) PROVE \A q \in Ranks : step[q] > 1
    BY <1>1, <1>3, <1>8
  <2>2. CASE step[0] >= Size(0)
    BY <2>2, <1>5
  <2>3. CASE r = 0 /\ s > step[r] /\ s >= Size(r)
    BY <2>3 DEF DirectoryStep
  <2> QED BY <2>1, <2>2, <2>3, <1>1, <1>3, <1>4
<1>10. ~ Ended(0)
  <2>1. ~ Ended(r)
    BY <1>1, <1>2, <1>3 DEF SamePlaces
  <2> QED BY <2>1, <1>5
<1>11. ~ Ended(0)'
  <2>1. ~ (step'[0] > Size(0))
    <3>1. CASE r = 0
      BY <3>1, <1>1, <1>3
    <3>2. CASE r # 0
      BY <3>2, <1>1, <1>2, <1>3, <1>4, <1>10 DEF SamePlaces
    <3> QED BY <3>1, <3>2
  <2> QED BY <2>1, <1>2, <1>4 DEF SamePlaces
<1>12. ASSUME NEW q \in Ranks, Op(q)' = "get", in_call'[q] PROVE Value \in files'
  <2>1. CASE q = r
    BY <2>1, <1>1, <1>2, <1>12 DEF DirectoryStep, SamePlaces
  <2>2. CASE q # r
    <3>1. Op(q) = "get" /\ in_call[q]
      BY <2>2, <1>1, <1>2, <1>12 DEF SamePlaces
    <3> QED BY <3>1, <1>5 DEF DirectoryStep
  <2> QED BY <2>1, <2>2
<1>13. dir_exists' = TRUE /\ \A q : Alive(q)' = Alive(q)
  BY DEF DirectoryStep, Alive
<1>14. Value' = Value /\ Size(0)' = Size(0) /\ \A q \in Ranks : Size(q)' = Size(q)
  BY <1>2, <1>4 DEF Value, SamePlaces
<1>15. \A q \in Ranks \ {0} : step'[q] \in 2 .. Size(q)' => Alive(q)' \in files'
  BY <1>7, <1>13, <1>14
<1>16. step'[0] >= Size(0)' => \A q \in Ranks : step'[q] > 1
  BY <1>9, <1>14
<1> QED BY <1>6, <1>11, <1>12, <1>13, <1>14, <1>15, <1>16 DEF DirectoryInv

\* Rank 0 leaves its last meeting with the others only after everyone has joined it.
LEMMA FileDirectory ==
  ASSUME UserTypes, UserInv, FileInv, DirectoryInv, program' = program, "RRUN_COORD_DIR" \in env,
         ~ timed_out', NEW r \in Ranks, FileStep(r)
  PROVE  DirectoryInv'
<1> DEFINE s == step[r]
<1>1. /\ step \in [Ranks -> Nat] /\ in_call \in [Ranks -> BOOLEAN] /\ s \in Nat /\ s >= 1
      /\ program \in {"create_ucxx_comm", "barriers"}
      /\ entered \in [Ranks -> Nat] /\ left \in [Ranks -> Nat]
      /\ \A q \in Ranks : step[q] \in 1 .. Size(q) + 1
  BY DEF UserTypes
<1>2. \A q \in Ranks : Size(q) \in Nat /\ Size(q) > 2 /\ step[q] \in Nat
  BY <1>1, Scripts
<1>3. SamePlaces
  BY PlacesKept
<1>4. \A op : At(r, op) \/ In(r, op) => Op(r) = op
  BY DEF At, In
<1>5. \A op : op # "exited" /\ Op(r) = op => s <= Size(r)
  BY NotEnded
<1>6. /\ Op(r) = "init" <=> s = 1
      /\ Op(r) = "close" <=> s = Size(r)
      /\ Op(r) \in Inner <=> s > 1 /\ s < Size(r)
      /\ s = Size(r) - 1 => Op(r) \in {"barrier", "comm_barrier"}
      /\ Op(r) = OpOf(r, s)
  BY <1>1, <1>2, <1>3, Places DEF SamePlaces
<1>7. OpOf(r, s + 1) = "get" => OpOf(r, s + 1) \in Inner
  BY DEF Inner
<1>8. /\ \A q \in Ranks \ {0} : step[q] \in 2 .. Size(q) => Alive(q) \in files
      /\ step[0] >= Size(0) => \A q \in Ranks : step[q] > 1
      /\ \A q \in Ranks : Op(q) = "get" /\ in_call[q] => Value \in files
  BY DEF DirectoryInv
<1>9. s <= Size(r) /\ (s > 1 \/ in_call[r]) => dir_exists
  BY DirectoryThere
<1>10. \A op : In(r, op) => in_call[r]
  BY DEF In
<1>11. TRUE \in BOOLEAN /\ FALSE \in BOOLEAN
  OBVIOUS
<1>12. /\ \A q : Alive(q) # Value /\ \A k, id : Alive(q) # BarrierFile(k, id)
       /\ \A k, id : Value # BarrierFile(k, id)
       /\ \A p, q : p # q => Alive(p) # Alive(q)
  BY FileNames
<1>13. s + 1 \in Nat /\ s + 1 >= s /\ ~(s > s) /\ s >= s
  BY <1>1
<1>14. r # 0 /\ s \in 2 .. Size(r) => Alive(r) \in files
  BY <1>8
<1> HIDE DEF s
<1>15. ~ write_fails(r) \/ ~(s <= Size(r) /\ (s > 1 \/ in_call[r]))
  BY <1>9 DEF write_fails
<1>16. ~ file_backend_init(r)
  BY DEF file_backend_init
\* A call that returns, other than the last one before the destructor.
<1>20. ASSUME s > 1, s < Size(r), Op(r) \notin {"barrier", "comm_barrier"}, Finish(r),
              dir_exists' = dir_exists, files \subseteq files'
       PROVE  DirectoryInv'
  <2>1. s + 1 < Size(r) /\ s <= Size(r) /\ s + 1 <= Size(r) /\ s \in 2 .. Size(r)
    BY <1>1, <1>2, <1>6, <1>20
  <2>2. Goes(r, s + 1, FALSE)
    BY <2>1, <1>20, Going DEF s
  <2>3. error' = error
    BY <1>20 DEF Finish
  <2>4. dir_exists' = TRUE
    BY <2>1, <1>9, <1>20 DEF DirectoryInv
  <2>5. DirectoryStep(r, s + 1, FALSE)
    <3>1. ~(s + 1 >= Size(r))
      BY <2>1, <1>1, <1>2
    <3> QED BY <3>1, <2>1, <2>2, <2>3, <2>4, <1>11, <1>13, <1>14, <1>20 DEF DirectoryStep, s
  <2> QED BY <2>5, DirectoryKept
\* A call that starts.
<1>21. ASSUME s <= Size(r), Start(r), dir_exists' = TRUE,
              \A q \in Ranks : Alive(q) \in files => Alive(q) \in files' \/ q = 0,
              Value \in files => Value \in files',
              Op(r) = "get" => Value \in files'
       PROVE  DirectoryInv'
  <2>1. Goes(r, s, TRUE)
    BY <1>21, Going DEF s
  <2>2. error' = error
    BY <1>21 DEF Start
  <2>3. DirectoryStep(r, s, TRUE)
    BY <2>1, <2>2, <1>1, <1>6, <1>11, <1>13, <1>14, <1>21 DEF DirectoryStep, s
  <2> QED BY <2>3, DirectoryKept
<1>22. CASE create_directories(r)
  <2>1. Op(r) = "init" /\ s <= Size(r)
    BY <1>4, <1>5, <1>22 DEF create_directories
  <2>2. Start(r) /\ dir_exists' = TRUE /\ files' = files
    BY <1>22 DEF create_directories
  <2> QED BY <2>1, <2>2, <1>21
<1>23. CASE write_alive(r)
  <2>1. Op(r) = "init" /\ s <= Size(r) /\ in_call[r]
    BY <1>4, <1>5, <1>10, <1>23 DEF write_alive
  <2>2. write_file(Alive(r)) /\ Finish(r)
    BY <2>1, <1>15, <1>23 DEF write_alive
  <2>3. files' = files \cup {Alive(r)} /\ dir_exists' = TRUE
    BY <2>1, <2>2, <1>9 DEF write_file, DirectoryInv
  <2>4. s = 1 /\ s + 1 < Size(r) /\ ~(s + 1 >= Size(r)) /\ s + 1 <= Size(r)
    BY <2>1, <1>2, <1>6
  <2>5. Goes(r, s + 1, FALSE) /\ error' = error
    BY <2>1, <2>2, Going DEF s, Finish
  <2>6. DirectoryStep(r, s + 1, FALSE)
    BY <2>1, <2>3, <2>4, <2>5, <1>11, <1>13 DEF DirectoryStep, s
  <2> QED BY <2>6, DirectoryKept
<1>24. CASE file_put(r)
  <2>1. Op(r) = "put" /\ s <= Size(r)
    BY <1>4, <1>5, <1>24 DEF file_put
  <2>2. s > 1 /\ s < Size(r)
    BY <2>1, <1>6 DEF Inner
  <2>3. write_file(Value) /\ Finish(r)
    BY <2>1, <2>2, <1>15, <1>24 DEF file_put
  <2> QED BY <2>1, <2>2, <2>3, <1>20 DEF write_file
<1>25. CASE file_sync(r)
  <2>1. Op(r) = "sync"
    BY <1>4, <1>25 DEF file_sync
  <2>2. s > 1 /\ s < Size(r)
    BY <2>1, <1>6 DEF Inner
  <2>3. Finish(r) /\ dir_exists' = dir_exists /\ files' = files
    BY <1>25 DEF file_sync, fileVars
  <2> QED BY <2>1, <2>2, <2>3, <1>20
<1>26. CASE file_get(r)
  <2>1. Op(r) = "get" /\ s <= Size(r)
    BY <1>4, <1>5, <1>26 DEF file_get
  <2>2. s > 1 /\ s < Size(r)
    BY <2>1, <1>6 DEF Inner
  <2>3. dir_exists' = dir_exists /\ files' = files
    BY <1>26 DEF file_get, fileVars
  <2>4. ~ Timeout(r)
    BY DEF Timeout
  <2>5. ~ (In(r, "get") /\ Value \notin files)
    BY <2>1, <1>8, <1>10
  <2>6. (Start(r) /\ Value \in files) \/ Finish(r)
    BY <2>4, <2>5, <1>26 DEF file_get
  <2>7. dir_exists = TRUE
    BY <2>1, <2>2, <1>9 DEF DirectoryInv
  <2> QED BY <2>1, <2>2, <2>3, <2>6, <2>7, <1>20, <1>21
<1>27. CASE barrier_enter(r)
  <2>1. Op(r) = "barrier" /\ s <= Size(r)
    BY <1>4, <1>5, <1>27 DEF barrier_enter
  <2>2. s > 1
    BY <2>1, <1>6 DEF Inner
  <2>3. write_file(BarrierFile(r, entered[r])) /\ Start(r)
    BY <2>1, <2>2, <1>15, <1>27 DEF barrier_enter
  <2>4. dir_exists' = TRUE /\ files \subseteq files'
    BY <2>1, <2>2, <2>3, <1>9 DEF DirectoryInv, write_file
  <2> QED BY <2>1, <2>3, <2>4, <1>21
<1>28. CASE barrier_wait(r)
  <2>1. Op(r) = "barrier" /\ s <= Size(r) /\ in_call[r]
    BY <1>4, <1>5, <1>10, <1>28 DEF barrier_wait
  <2>2. s > 1 /\ s < Size(r)
    BY <2>1, <1>6 DEF Inner
  <2>3. dir_exists = TRUE
    BY <2>1, <2>2, <1>9 DEF DirectoryInv
  <2>4. CASE UNCHANGED <<dir_exists, files, scriptVars>>
    <3>1. UNCHANGED <<dir_exists, files, step, in_call, error>>
      BY <2>4 DEF scriptVars
    <3>2. Goes(r, s, TRUE)
      BY <3>1, <2>1, <1>1, <1>2 DEF Goes, s, UserTypes
    <3>3. DirectoryStep(r, s, TRUE)
      BY <3>1, <3>2, <2>1, <2>3, <1>1, <1>6, <1>11, <1>13, <1>14 DEF DirectoryStep, s
    <3> QED BY <3>3, DirectoryKept
  <2>5. CASE /\ looking_for[r] >= nranks /\ files' = files \ {BarrierFile(r, entered[r] - 1)}
             /\ Finish(r) /\ UNCHANGED dir_exists
    <3>1. \A q \in Ranks : step[q] > 1
      <4>1. \A q \in Ranks : q < looking_for[r]
        BY <2>5, nranksAssumption DEF Ranks, FileInv
      <4>2. \A q \in Ranks : entered[q] >= entered[r]
        BY <4>1, <2>1 DEF FileInv
      <4>3. entered[r] = left[r] + 1
        BY <2>1 DEF UserInv
      <4>4. \A q \in Ranks : entered[q] > 0
        BY <4>2, <4>3, <1>1
      <4> QED BY <4>4 DEF UserInv
    <3>2. Goes(r, s + 1, FALSE) /\ error' = error
      BY <2>1, <2>5, Going DEF s, Finish
    <3>3. \A q : Alive(q) \in files => Alive(q) \in files'
      BY <2>5, <1>12
    <3>4. Value \in files => Value \in files'
      BY <2>5, <1>12
    <3>5. s + 1 <= Size(r) /\ s \in 2 .. Size(r)
      BY <2>2, <1>1, <1>2
    <3>6. DirectoryStep(r, s + 1, FALSE)
      BY <3>1, <3>2, <3>3, <3>4, <3>5, <2>1, <2>3, <2>5, <1>11, <1>13, <1>14 DEF DirectoryStep, s
    <3> QED BY <3>6, DirectoryKept
  <2>6. ~ Timeout(r)
    BY DEF Timeout
  <2> QED BY <2>4, <2>5, <2>6, <1>28 DEF barrier_wait
<1>29. CASE file_close(r)
  <2>1. Op(r) = "close" /\ s <= Size(r)
    BY <1>4, <1>5, <1>29 DEF file_close
  <2>2. s = Size(r) /\ s > 1
    BY <2>1, <1>2, <1>6
  <2>3. dir_exists = TRUE
    BY <2>1, <2>2, <1>9 DEF DirectoryInv
  <2>4. CASE r = 0 /\ files' = files \ {Alive(r)} /\ Start(r) /\ UNCHANGED dir_exists
    <3>1. \A q \in Ranks : Alive(q) \in files => Alive(q) \in files' \/ q = 0
      BY <2>4, <1>12
    <3>2. Value \in files => Value \in files'
      BY <2>4, <1>12
    <3> QED BY <3>1, <3>2, <2>1, <2>3, <2>4, <1>21
  <2>5. CASE r # 0 /\ files' = files \ {Alive(r)} /\ Finish(r) /\ UNCHANGED dir_exists
    <3>1. Goes(r, s + 1, FALSE) /\ error' = error
      BY <2>1, <2>5, Going DEF s, Finish
    <3>2. \A q : q # r /\ Alive(q) \in files => Alive(q) \in files'
      BY <2>5, <1>12
    <3>3. Value \in files => Value \in files'
      BY <2>5, <1>12
    <3>4. ~(s + 1 \in 2 .. Size(r))
      BY <2>2, <1>2
    <3>5. DirectoryStep(r, s + 1, FALSE)
      BY <3>1, <3>2, <3>3, <3>4, <2>1, <2>3, <2>5, <1>11, <1>13 DEF DirectoryStep, s
    <3> QED BY <3>5, DirectoryKept
  <2>6. CASE In(r, "close") /\ timed_out' = (timed_out \/ ~ AllOthersGone) /\ Finish(r)
    <3>1. \A q \in Ranks \ {0} : Alive(q) \notin files
      BY <2>6 DEF AllOthersGone
    <3>2. r = 0
      BY <3>1, <2>2, <1>2, <1>14 DEF s
    <3>3. \A q \in Ranks \ {0} : step[q] > Size(q)
      <4>1. \A q \in Ranks \ {0} : step[q] > 1 /\ ~(step[q] \in 2 .. Size(q))
        BY <3>1, <3>2, <2>2, <1>2, <1>8 DEF s
      <4> QED BY <4>1, <1>2
    <3>4. Goes(r, s + 1, FALSE) /\ error' = error
      BY <2>1, <2>6, Going DEF s, Finish
    <3>5. \A q \in Ranks : step'[q] > Size(q) /\ step'[q] \in Nat
      BY <3>2, <3>3, <3>4, <2>2, <1>1, <1>2 DEF Goes
    <3>6. \A q \in Ranks : Ended(q)' /\ Op(q)' = "exited" /\ Size(q)' = Size(q)
      BY <3>5, <1>3 DEF SamePlaces, OpOf
    <3>7. 0 \in Ranks
      BY <3>2
    <3>8. \A q \in Ranks : error'[q] = "none"
      BY <3>4 DEF DirectoryInv
    <3>9. dir_exists' \in BOOLEAN
      BY <2>6, <1>29 DEF file_close, At, In
    <3>10. \A q \in Ranks : ~(step'[q] \in 2 .. Size(q)') /\ step'[q] > 1
      BY <3>5, <3>6, <1>2
    <3> QED BY <3>6, <3>7, <3>8, <3>9, <3>10 DEF DirectoryInv
  <2> QED BY <2>4, <2>5, <2>6, <1>29 DEF file_close
<1> QED BY <1>16, <1>22, <1>23, <1>24, <1>25, <1>26, <1>27, <1>28, <1>29 DEF FileStep, FileNext

\* Without the variable every constructor throws, and nobody does anything else.
LEMMA FileWithoutDirectory ==
  ASSUME UserTypes, NoDirectoryInv, program' = program, "RRUN_COORD_DIR" \notin env, NEW r \in Ranks,
         FileStep(r)
  PROVE  NoDirectoryInv'
<1>1. \A q \in Ranks : ~ in_call[q] /\ (step[q] = 1 \/ Ended(q)) /\ error[q] \in {"none", "environment"}
  BY DEF NoDirectoryInv
<1>2. SamePlaces
  BY PlacesKept
<1>3. \A q \in Ranks : Size(q) \in Nat /\ Size(q) > 2 /\ step[q] \in Nat
  BY Scripts DEF UserTypes
<1>4. Op(r) \in {"init", "exited"}
  <2>1. CASE Ended(r)
    BY <2>1 DEF Op
  <2>2. CASE step[r] = 1
    BY <2>2, <1>2, <1>3, Places DEF SamePlaces, UserTypes
  <2> QED BY <2>1, <2>2, <1>1
<1>5. \A op : ~ In(r, op)
  BY <1>1 DEF In
<1>6. \A op : At(r, op) => op \in {"init", "exited"}
  BY <1>4 DEF At
<1>7. ~ At(r, "init") => ~ FileNext(r)
  BY <1>5, <1>6 DEF FileNext, create_directories, write_alive, file_put, file_sync, file_get,
                    barrier_enter, barrier_wait, file_close
<1>8. file_backend_init(r)
  BY <1>7 DEF FileStep
<1>9. Op(r) = "init" /\ Throw(r, "environment")
  BY <1>8 DEF file_backend_init, At
<1>10. step[r] <= Size(r)
  BY <1>9, NotEnded
<1>11. step[r] = 1
  BY <1>1, <1>2, <1>3, <1>10 DEF SamePlaces
<1>12. Goes(r, Size(r) + 1, FALSE)
  BY <1>9, <1>10, <1>11, Going
<1>13. error' = [error EXCEPT ![r] = "environment"]
  BY <1>9 DEF Throw
<1>14. \A q \in Ranks : error'[q] \in {"none", "environment"}
  BY <1>1, <1>13
<1>15. Ended(r)' /\ in_call'[r] = FALSE
  BY <1>2, <1>3, <1>12 DEF Goes, SamePlaces
<1>16. \A q \in Ranks : q # r => in_call'[q] = in_call[q] /\ step'[q] = step[q] /\ (Ended(q)' <=> Ended(q))
  BY <1>2, <1>12 DEF Goes, SamePlaces
<1> QED BY <1>1, <1>14, <1>15, <1>16 DEF NoDirectoryInv

-----------------------------------------------------------------------------
(* The Slurm backend. *)

\* Every step of the Slurm backend keeps the invariant and the contract.
LEMMA SlurmStepKeeps ==
  ASSUME UserTypes, UserInv, SlurmInv, program' = program, NEW r \in Ranks, SlurmNext(r)
  PROVE  Effects(r) /\ SlurmInv' /\ UserTypes' /\ UserInv'
<1>1. /\ committed \in BOOLEAN /\ collected \in BOOLEAN /\ fences \in [Ranks -> Nat]
      /\ collected => committed
      /\ committed => published
      /\ program = "barriers" => fences = entered
  BY DEF SlurmInv
<1>2. /\ entered \in [Ranks -> Nat] /\ left \in [Ranks -> Nat] /\ published \in BOOLEAN
      /\ Op(r) = "barrier" => entered[r] = left[r] + IF in_call[r] THEN 1 ELSE 0
      /\ program \in {"create_ucxx_comm", "barriers"}
      /\ step[r] \in Nat /\ step[r] >= 1 /\ in_call[r] \in BOOLEAN
  BY DEF UserTypes, UserInv
<1>3. SamePlaces
  BY PlacesKept
<1>4. \A op : At(r, op) \/ In(r, op) => Op(r) = op
  BY DEF At, In
<1>5. \A op : op # "exited" /\ Op(r) = op => step[r] <= Size(r)
  BY NotEnded
<1>6. /\ Op(r) = "barrier" => program = "barriers"
      /\ Op(r) = "sync" => program # "barriers"
  <2>1. Size(r) \in Nat /\ step[r] <= Size(r) + 1
    BY <1>2, Scripts DEF UserTypes
  <2>2. /\ Op(r) = "barrier" <=> program = "barriers" /\ step[r] > 1 /\ step[r] < Size(r)
        /\ Op(r) \in Inner <=> step[r] > 1 /\ step[r] < Size(r)
    BY <2>1, <1>2, <1>3, Places DEF SamePlaces
  <2> QED BY <2>2 DEF Inner
<1>7. ASSUME Unbarred(r), step[r] <= Size(r), published' \in BOOLEAN PROVE UserTypes' /\ UserInv'
  BY <1>7, NoNewBarriers, UserKept
<1>8. CASE slurm_open_close(r)
  <2>1. Op(r) \in {"init", "close"} /\ step[r] <= Size(r)
    BY <1>4, <1>5, <1>8 DEF slurm_open_close
  <2>2. Finish(r) /\ UNCHANGED <<slurmVars, effects>>
    BY <1>8 DEF slurm_open_close
  <2>3. Unbarred(r)
    BY <2>1, <2>2, Unbarring DEF effects
  <2>4. Effects(r)
    BY <2>2 DEF Effects
  <2>5. SlurmInv'
    BY <2>2, <1>1 DEF slurmVars, effects, SlurmInv
  <2> QED BY <2>1, <2>2, <2>3, <2>4, <2>5, <1>2, <1>7 DEF effects
<1>9. CASE slurm_put(r)
  <2>1. Op(r) = "put" /\ step[r] <= Size(r)
    BY <1>4, <1>5, <1>9 DEF slurm_put
  <2>2. Finish(r) /\ Publish /\ committed' = TRUE /\ UNCHANGED <<collected, fences>>
    BY <1>9 DEF slurm_put
  <2>3. published' = TRUE /\ UNCHANGED <<entered, left>>
    BY <2>2 DEF Publish
  <2>4. Unbarred(r)
    BY <2>1, <2>2, <2>3, Unbarring
  <2>5. Effects(r)
    BY <2>2 DEF Effects
  <2>6. SlurmInv'
    BY <2>2, <2>3, <1>1 DEF SlurmInv
  <2> QED BY <2>1, <2>3, <2>4, <2>5, <2>6, <1>7
<1>10. CASE slurm_get(r)
  <2>1. Op(r) = "get" /\ step[r] <= Size(r) /\ UNCHANGED slurmVars
    BY <1>4, <1>5, <1>10 DEF slurm_get
  <2>2. UNCHANGED <<entered, left, published>>
    BY <1>10 DEF slurm_get, Obtain, effects
  <2>3. Unbarred(r)
    BY <2>1, <2>2, <1>10, Unbarring DEF slurm_get, Timeout
  <2>4. Effects(r)
    BY <1>1, <1>10 DEF Effects, slurm_get
  <2>5. SlurmInv'
    BY <2>1, <2>2, <1>1 DEF slurmVars, SlurmInv
  <2> QED BY <2>1, <2>2, <2>3, <2>4, <2>5, <1>2, <1>7
<1>11. ASSUME NEW b \in BOOLEAN, fence_enter(r, b)
       PROVE  /\ Start(r) /\ committed' = committed /\ collected' \in BOOLEAN /\ (collected' => committed)
              /\ fences' \in [Ranks -> Nat] /\ fences' = [fences EXCEPT ![r] = @ + 1]
  <2>1. collected' = (collected \/ (b /\ committed /\ \A q \in Ranks \ {r} : fences[q] > fences[r]))
    BY <1>11 DEF fence_enter
  <2>2. collected' \in BOOLEAN /\ (collected' => committed)
    BY <2>1, <1>1
  <2> QED BY <2>2, <1>1, <1>11 DEF fence_enter
<1>12. CASE slurm_sync(r)
  <2>1. Op(r) = "sync" /\ step[r] <= Size(r) /\ UNCHANGED effects
    BY <1>4, <1>5, <1>12 DEF slurm_sync
  <2>2. fence_enter(r, TRUE) \/ fence_leave(r)
    BY <1>12 DEF slurm_sync
  <2>3. Start(r) \/ Finish(r)
    BY <2>2, <1>11 DEF fence_leave
  <2>4. Unbarred(r)
    BY <2>1, <2>3, Unbarring DEF effects
  <2>5. Effects(r)
    BY <2>1 DEF Effects
  <2>6. SlurmInv'
    <3>1. CASE fence_enter(r, TRUE)
      <4>1. committed' = committed /\ collected' \in BOOLEAN /\ (collected' => committed)
            /\ fences' \in [Ranks -> Nat]
        BY <3>1, <1>11
      <4> QED BY <4>1, <2>1, <1>1, <1>6 DEF SlurmInv, effects
    <3>2. CASE fence_leave(r)
      BY <3>2, <2>1, <1>1 DEF SlurmInv, effects, fence_leave, slurmVars
    <3> QED BY <3>1, <3>2, <2>2
  <2> QED BY <2>1, <2>4, <2>5, <2>6, <1>2, <1>7 DEF effects
<1>13. CASE At(r, "barrier") /\ fence_enter(r, FALSE) /\ EnterBarrier(r)
  <2>1. Op(r) = "barrier" /\ step[r] <= Size(r) /\ ~ in_call[r]
    BY <1>4, <1>5, <1>13 DEF At
  <2>2. /\ Start(r) /\ committed' = committed /\ collected' \in BOOLEAN /\ (collected' => committed)
        /\ fences' \in [Ranks -> Nat] /\ fences' = [fences EXCEPT ![r] = @ + 1]
    BY <1>11, <1>13
  <2>3. entered' = [entered EXCEPT ![r] = @ + 1] /\ left' = left /\ published' = published
    BY <1>13 DEF EnterBarrier
  <2>4. Goes(r, step[r], TRUE)
    BY <2>1, <2>2, Going
  <2>5. Counting(r)
    BY <2>1, <2>3, <2>4, Zenon DEF Counting
  <2>6. Effects(r)
    BY <2>1, <1>2, <1>13 DEF Effects
  <2>7. SlurmInv'
    BY <2>1, <2>2, <2>3, <1>1, <1>6 DEF SlurmInv
  <2> QED BY <2>1, <2>3, <2>5, <2>6, <2>7, <1>2, UserKept
<1>14. CASE In(r, "barrier") /\ fence_leave(r) /\ LeaveBarrier(r)
  <2>1. Op(r) = "barrier" /\ step[r] <= Size(r) /\ in_call[r] /\ program = "barriers"
    BY <1>4, <1>5, <1>6, <1>14 DEF In
  <2>2. Finish(r) /\ UNCHANGED slurmVars /\ \A q \in Ranks : fences[q] >= fences[r]
    BY <1>14 DEF fence_leave
  <2>3. left' = [left EXCEPT ![r] = @ + 1] /\ entered' = entered /\ published' = published
    BY <1>14 DEF LeaveBarrier
  <2>4. Goes(r, step[r] + 1, FALSE)
    BY <2>1, <2>2, Going
  <2>5. Counting(r)
    BY <2>1, <2>3, <2>4, Zenon DEF Counting
  <2>6. left[r] < entered[r] /\ \A q \in Ranks : entered[q] >= entered[r]
    BY <2>1, <2>2, <1>1, <1>2
  <2>7. Effects(r)
    BY <2>6, <1>14 DEF Effects
  <2>8. SlurmInv'
    BY <2>2, <2>3, <1>1 DEF SlurmInv, slurmVars
  <2> QED BY <2>1, <2>3, <2>5, <2>7, <2>8, <1>2, UserKept
<1> QED BY <1>8, <1>9, <1>10, <1>12, <1>13, <1>14 DEF SlurmNext, slurm_barrier

-----------------------------------------------------------------------------
(* The socket backend: the clients. *)

\* Nothing of rank q that the invariant speaks of changes.
Same(q) ==
    /\ conn'[q] = conn[q] /\ request'[q] = request[q] /\ response'[q] = response[q]
    /\ awaiting'[q] = awaiting[q] /\ in_call'[q] = in_call[q] /\ entered'[q] = entered[q]
    /\ Op(q)' = Op(q) /\ (Ended(q)' <=> Ended(q))

SocketTypes ==
    /\ conn \in [Clients -> {"none", "backlog", "auth", "open", "closed"}]
    /\ request \in [Ranks -> Calls \cup {"none", "auth"}]
    /\ response \in [Ranks -> {"none", "ok", "timeout"}]
    /\ awaiting \in [Ranks -> Int]
    /\ gen \in [Gates -> Nat] /\ count \in [Gates -> Nat]
    /\ kv \in BOOLEAN

\* The step is one of rank r and of its handler, and starts no generation of the barrier.
LEMMA SocketKept ==
  ASSUME SocketInv, SocketTypes', gen'["barrier"] = gen["barrier"], count'["barrier"] = count["barrier"],
         kv => kv', kv' => published', crashed \subseteq crashed', NEW r \in Ranks,
         \A q \in Ranks : q # r => Same(q),
         ClientInv(r)', BarrierInv(r)',
         request'[r] = "barrier" /\ awaiting'[r] = gen["barrier"]
            <=> request[r] = "barrier" /\ awaiting[r] = gen["barrier"]
  PROVE  SocketInv'
<1>1. /\ \A q \in Ranks : ClientInv(q) /\ BarrierInv(q)
      /\ count["barrier"] = Cardinality(Waiting)
  BY DEF SocketInv
<1>2. ASSUME NEW q \in Ranks, q # r PROVE ClientInv(q)' /\ BarrierInv(q)'
  <2>1. ClientInv(q) /\ BarrierInv(q) /\ Same(q)
    BY <1>1, <1>2
  <2>2. ClientInv(q)'
    BY <2>1 DEF ClientInv, Same, Calls, Gates
  <2>3. BarrierInv(q)'
    BY <2>1 DEF BarrierInv, Same
  <2> QED BY <2>2, <2>3
<1>3. Waiting' = Waiting
  <2>1. \A q \in Ranks : request'[q] = "barrier" /\ awaiting'[q] = gen'["barrier"]
                            <=> request[q] = "barrier" /\ awaiting[q] = gen["barrier"]
    BY DEF Same
  <2> QED BY <2>1 DEF Waiting
<1>4. \A q \in Ranks : ClientInv(q)' /\ BarrierInv(q)'
  BY <1>2
<1>5. count'["barrier"] = Cardinality(Waiting)'
  BY <1>1, <1>3
<1> QED BY <1>4, <1>5 DEF SocketInv, SocketTypes

\* Every step of a client keeps the invariant and the contract.
LEMMA SocketClientKeeps ==
  ASSUME UserTypes, UserInv, SocketInv, program' = program, crashed' = crashed, NEW r \in Ranks,
         SocketClientNext(r)
  PROVE  Effects(r) /\ SocketInv' /\ UserTypes' /\ UserInv'
<1>1. SocketTypes /\ (kv => published) /\ ClientInv(r) /\ BarrierInv(r)
  BY DEF SocketTypes, SocketInv
<1>2. /\ entered \in [Ranks -> Nat] /\ left \in [Ranks -> Nat] /\ published \in BOOLEAN
      /\ Op(r) = "barrier" => entered[r] = left[r] + IF in_call[r] THEN 1 ELSE 0
      /\ program \in {"create_ucxx_comm", "barriers"}
      /\ step[r] \in Nat /\ step[r] >= 1 /\ in_call[r] \in BOOLEAN
  BY DEF UserTypes, UserInv
<1>3. SamePlaces
  BY PlacesKept
<1>4. Size(r) \in Nat /\ Size(r) > 2
  BY <1>2, Scripts
<1>5. \A op : op # "exited" /\ Op(r) = op => step[r] <= Size(r)
  BY NotEnded
<1>6. r \in Clients
  BY DEF Clients
<1>7. ASSUME Unbarred(r), step[r] <= Size(r), published' \in BOOLEAN PROVE UserTypes' /\ UserInv'
  BY <1>7, NoNewBarriers, UserKept
<1>8. ASSUME NEW s, NEW c, Goes(r, s, c), NEW q \in Ranks, q # r
      PROVE  in_call'[q] = in_call[q] /\ Op(q)' = Op(q) /\ (Ended(q)' <=> Ended(q))
  BY <1>3, <1>8 DEF Goes, SamePlaces
<1>9. ASSUME Unbarred(r), NEW q \in Ranks, q # r
      PROVE  /\ in_call'[q] = in_call[q] /\ Op(q)' = Op(q) /\ (Ended(q)' <=> Ended(q))
             /\ entered'[q] = entered[q]
  BY <1>8, <1>9 DEF Unbarred
<1>10. CASE socket_connect(r)
  <2>1. /\ Op(r) = "init" /\ ~ in_call[r] /\ Start(r)
        /\ conn' = [conn EXCEPT ![r] = "backlog"] /\ request' = [request EXCEPT ![r] = "auth"]
        /\ UNCHANGED <<response, awaiting, gen, count, kv, effects>>
    BY <1>10 DEF socket_connect, At, serverState
  <2>2. step[r] <= Size(r)
    BY <2>1, <1>5
  <2>3. Unbarred(r)
    BY <2>1, <2>2, Unbarring DEF effects
  <2>4. Effects(r)
    BY <2>1 DEF Effects
  <2>5. Op(r)' = "init" /\ in_call'[r] = TRUE /\ entered' = entered
    <3>1. Goes(r, step[r], TRUE)
      BY <2>1, <2>2, Going
    <3> QED BY <3>1, <2>1, <1>3 DEF Goes, SamePlaces, effects
  <2>6. request'[r] = "auth" /\ conn'[r] = "backlog" /\ response'[r] = "none" /\ awaiting'[r] = -1
        /\ request[r] \notin Calls
    BY <2>1, <1>1, <1>6 DEF SocketTypes, ClientInv, Calls, Gates
  <2>7. ClientInv(r)'
    BY <2>5, <2>6 DEF ClientInv, Calls
  <2>8. BarrierInv(r)'
    BY <2>1, <2>5, <2>6, <1>1 DEF BarrierInv, Calls
  <2>9. SocketTypes'
    BY <2>1, <1>1 DEF SocketTypes
  <2>10. \A q \in Ranks : q # r => Same(q)
    BY <2>1, <2>3, <1>1, <1>9 DEF Same, SocketTypes, Clients
  <2>11. SocketInv'
    BY <2>1, <2>6, <2>7, <2>8, <2>9, <2>10, <1>1, SocketKept DEF Calls, effects
  <2> QED BY <2>1, <2>2, <2>3, <2>4, <2>11, <1>2, <1>7 DEF effects
<1>11. CASE send_request(r)
  <2>1. /\ Op(r) \in Calls /\ ~ in_call[r] /\ r \notin crashed /\ Start(r)
        /\ request' = [request EXCEPT ![r] = Op(r)]
        /\ UNCHANGED <<conn, response, awaiting, gen, count, kv>>
        /\ IF Op(r) = "barrier" THEN EnterBarrier(r) ELSE UNCHANGED effects
    BY <1>11 DEF send_request, At, serverState, Calls
  <2>2. step[r] <= Size(r)
    BY <2>1, <1>5 DEF Calls
  <2>3. Goes(r, step[r], TRUE)
    BY <2>1, <2>2, Going
  <2>4. Op(r)' = Op(r) /\ in_call'[r] = TRUE /\ (Ended(r)' <=> Ended(r)) /\ published' = published
    BY <2>1, <2>3, <1>3 DEF Goes, SamePlaces, EnterBarrier, effects
  <2>5. /\ request'[r] = Op(r) /\ request[r] \notin Calls /\ response'[r] = "none" /\ awaiting'[r] = -1
        /\ conn'[r] = conn[r] /\ conn[r] \notin {"none", "backlog", "auth"}
        /\ conn[r] # "closed" \/ Ended(r)
    BY <2>1, <1>1, <1>6 DEF SocketTypes, ClientInv, Calls, Gates
  <2>6. ClientInv(r)'
    BY <2>1, <2>4, <2>5 DEF ClientInv, Calls
  <2>7. SocketTypes'
    BY <2>1, <1>1 DEF SocketTypes
  <2>8. gen["barrier"] # -1 /\ gen["barrier"] \in Nat
    BY <1>1 DEF SocketTypes, Gates
  <2>9. entered[r] = gen["barrier"]
    BY <2>5, <1>1 DEF BarrierInv, Calls
  <2>10. CASE Op(r) = "barrier"
    <3>1. entered' = [entered EXCEPT ![r] = @ + 1] /\ left' = left /\ EnterBarrier(r)
      BY <2>1, <2>10 DEF EnterBarrier
    <3>2. Counting(r)
      BY <3>1, <2>1, <2>3, <2>10, Zenon DEF Counting
    <3>3. Effects(r)
      BY <3>1, <2>1, <2>10, <1>2 DEF Effects
    <3>4. entered'[r] = gen'["barrier"] + 1
      BY <3>1, <2>1, <2>9, <1>2
    <3>5. BarrierInv(r)'
      BY <3>4, <2>5, <2>10 DEF BarrierInv
    <3>6. \A q \in Ranks : q # r => Same(q)
      BY <3>1, <2>1, <2>3, <1>1, <1>2, <1>8 DEF Same, SocketTypes
    <3>7. SocketInv'
      BY <3>5, <3>6, <2>1, <2>4, <2>5, <2>6, <2>7, <2>8, <1>1, SocketKept DEF Calls
    <3> QED BY <3>2, <3>3, <3>7, <2>2, <2>4, <1>2, UserKept
  <2>11. CASE Op(r) # "barrier"
    <3>1. UNCHANGED effects
      BY <2>1, <2>11
    <3>2. Unbarred(r)
      BY <3>1, <2>1, <2>2, <2>11, Unbarring DEF effects
    <3>3. Effects(r)
      BY <3>1 DEF Effects
    <3>4. BarrierInv(r)'
      BY <3>1, <2>1, <2>5, <2>9, <2>11 DEF BarrierInv, effects
    <3>5. \A q \in Ranks : q # r => Same(q)
      BY <2>1, <3>2, <1>1, <1>9 DEF Same, SocketTypes
    <3>6. SocketInv'
      BY <3>4, <3>5, <2>1, <2>4, <2>5, <2>6, <2>7, <2>8, <2>11, <1>1, SocketKept DEF Calls
    <3> QED BY <3>2, <3>3, <3>6, <2>2, <2>4, <1>2, <1>7
  <2> QED BY <2>10, <2>11
<1>12. CASE socket_close(r)
  <2>1. /\ Op(r) = "close" /\ ~ in_call[r] /\ Finish(r)
        /\ UNCHANGED <<conn, request, response, awaiting, gen, count, kv, effects>>
    BY <1>12 DEF socket_close, At, socketVars, wires, serverState
  <2>2. step[r] <= Size(r) /\ step[r] = Size(r)
    <3>1. step[r] <= Size(r)
      BY <2>1, <1>5
    <3> QED BY <3>1, <2>1, <1>2, <1>3, <1>4, Places DEF SamePlaces
  <2>3. Unbarred(r)
    BY <2>1, <2>2, Unbarring DEF effects
  <2>4. Effects(r)
    BY <2>1 DEF Effects
  <2>5. Op(r)' = "exited" /\ Ended(r)' /\ in_call'[r] = FALSE
    <3>1. Goes(r, step[r] + 1, FALSE)
      BY <2>1, <2>2, Going
    <3> QED BY <3>1, <2>2, <1>3, <1>4 DEF Goes, SamePlaces, OpOf
  <2>6. /\ request[r] \notin Calls /\ response[r] = "none" /\ awaiting[r] = -1
        /\ conn[r] \notin {"none", "backlog", "auth"}
    BY <2>1, <1>1 DEF ClientInv, Calls, Gates
  <2>7. ClientInv(r)'
    BY <2>1, <2>5, <2>6 DEF ClientInv, Calls
  <2>8. BarrierInv(r)'
    BY <2>1, <1>1 DEF BarrierInv, effects
  <2>9. SocketTypes'
    BY <2>1, <1>1 DEF SocketTypes
  <2>10. \A q \in Ranks : q # r => Same(q)
    BY <2>1, <2>3, <1>9 DEF Same
  <2>11. SocketInv'
    BY <2>1, <2>7, <2>8, <2>9, <2>10, <1>1, SocketKept DEF effects
  <2> QED BY <2>1, <2>2, <2>3, <2>4, <2>11, <1>2, <1>7 DEF effects
<1>13. CASE recv_response(r)
  <2>1. r \notin crashed /\ in_call[r] /\ UNCHANGED <<request, awaiting, gen, count, kv>>
    BY <1>13 DEF recv_response, serverState
  <2>2. step[r] <= Size(r) /\ ~ Ended(r)
    <3>1. step[r] <= Size(r)
      BY <2>1 DEF UserTypes
    <3> QED BY <3>1, <1>2, <1>3, <1>4 DEF SamePlaces
  <2>3. CASE response[r] # "none"
    <3>1. /\ request[r] = "none" /\ Op(r) \in Calls \cup {"init"} /\ awaiting[r] = -1
          /\ conn[r] = "open"
      <4>1. conn[r] \in {"none", "backlog", "auth", "open", "closed"}
        BY <1>1, <1>6 DEF SocketTypes
      <4> QED BY <4>1, <2>1, <2>2, <2>3, <1>1 DEF ClientInv, Gates
    <3>2. /\ response' = [response EXCEPT ![r] = "none"] /\ UNCHANGED conn
          /\ \/ response[r] = "ok" /\ Finish(r) /\ Effect(r)
             \/ Timeout(r) /\ UNCHANGED effects
      BY <2>3, <1>13 DEF recv_response
    <3>3. PICK s, c : Goes(r, s, c) /\ c = FALSE
      BY <3>2, <2>2, Going DEF Timeout
    <3>4. in_call'[r] = FALSE
      BY <3>3 DEF Goes
    <3>5. entered' = entered /\ published' = published
      BY <3>2 DEF Effect, effects, LeaveBarrier, Obtain
    <3>6. ClientInv(r)'
      <4>1. request'[r] = "none" /\ response'[r] = "none" /\ awaiting'[r] = -1 /\ conn'[r] = "open"
        BY <3>1, <3>2, <2>1, <1>1 DEF SocketTypes
      <4> QED BY <4>1 DEF ClientInv, Calls
    <3>7. entered[r] = gen["barrier"] /\ BarrierInv(r)'
      BY <3>1, <3>5, <2>1, <1>1 DEF BarrierInv
    <3>8. SocketTypes'
      BY <3>2, <2>1, <1>1 DEF SocketTypes
    <3>9. \A q \in Ranks : q # r => Same(q)
      BY <3>2, <3>3, <3>5, <2>1, <1>1, <1>8 DEF Same, SocketTypes
    <3>10. SocketInv'
      BY <3>1, <3>2, <3>5, <3>6, <3>7, <3>8, <3>9, <2>1, <1>1, SocketKept
    <3>11. CASE response[r] = "ok" /\ Finish(r) /\ Effect(r) /\ Op(r) = "barrier"
      <4>1. left' = [left EXCEPT ![r] = @ + 1] /\ LeaveBarrier(r)
        BY <3>11 DEF Effect, LeaveBarrier
      <4>2. Goes(r, step[r] + 1, FALSE)
        BY <3>11, <2>2, Going
      <4>3. Counting(r)
        BY <4>1, <4>2, <3>5, <3>11, <2>1, Zenon DEF Counting
      <4>4. \A q \in Ranks : entered[q] >= entered[r]
        <5>1. \A q \in Ranks : BarrierInv(q) /\ awaiting[q] \in Int
          BY <1>1 DEF SocketInv, SocketTypes
        <5>2. gen["barrier"] \in Nat
          BY <1>1 DEF SocketTypes, Gates
        <5> QED BY <5>1, <5>2, <3>7, <1>2 DEF BarrierInv
      <4>5. Effects(r)
        BY <4>1, <4>4, <3>11, <2>1, <1>2 DEF Effects
      <4> QED BY <4>3, <4>5, <3>5, <3>10, <2>2, <1>2, UserKept
    <3>12. CASE response[r] = "ok" /\ Finish(r) /\ Effect(r) /\ Op(r) # "barrier"
      <4>1. \/ Op(r) = "get" /\ Obtain(r)
            \/ UNCHANGED effects
        BY <3>12 DEF Effect
      <4>2. UNCHANGED <<entered, left>>
        BY <4>1 DEF Obtain, effects
      <4>3. Unbarred(r)
        BY <4>2, <3>12, <2>2, Unbarring
      <4>4. Op(r) = "get" => published
        BY <3>12, <1>1 DEF ClientInv
      <4>5. Effects(r)
        BY <4>1, <4>4 DEF Effects
      <4> QED BY <4>3, <4>5, <3>5, <3>10, <2>2, <1>2, <1>7
    <3>13. CASE Timeout(r) /\ UNCHANGED effects
      <4>1. Unbarred(r)
        BY <3>13, <2>2, Unbarring DEF Timeout, effects
      <4>2. Effects(r)
        BY <3>13 DEF Effects
      <4> QED BY <4>1, <4>2, <3>5, <3>10, <2>2, <1>2, <1>7
    <3> QED BY <3>2, <3>11, <3>12, <3>13
  <2>4. CASE response[r] = "none"
    <3>1. conn[r] = "closed" /\ Throw(r, "rejected") /\ UNCHANGED <<conn, response, effects>>
      BY <2>4, <1>13 DEF recv_response
    <3>2. Op(r) = "init"
      BY <3>1, <2>1, <2>2, <1>1 DEF ClientInv
    <3>3. step[r] = 1
      BY <3>2, <2>2, <1>2, <1>3, <1>4, Places DEF SamePlaces
    <3>4. Goes(r, Size(r) + 1, FALSE)
      BY <3>1, <3>3, <2>2, Going
    <3>5. Ended(r)' /\ in_call'[r] = FALSE
      BY <3>4, <1>3, <1>4 DEF Goes, SamePlaces
    <3>6. Unbarred(r)
      BY <3>1, <2>2, Unbarring DEF effects
    <3>7. Effects(r)
      BY <3>1 DEF Effects
    <3>8. request[r] \notin Calls /\ awaiting[r] = -1
      BY <3>2, <1>1 DEF ClientInv, Calls, Gates
    <3>9. ClientInv(r)'
      BY <3>1, <3>5, <3>8, <2>1, <2>4 DEF ClientInv, Calls
    <3>10. BarrierInv(r)'
      BY <3>1, <2>1, <1>1 DEF BarrierInv, effects
    <3>11. SocketTypes'
      BY <3>1, <2>1, <1>1 DEF SocketTypes
    <3>12. \A q \in Ranks : q # r => Same(q)
      BY <3>1, <3>6, <2>1, <1>9 DEF Same
    <3>13. SocketInv'
      BY <3>1, <3>9, <3>10, <3>11, <3>12, <2>1, <1>1, SocketKept DEF effects
    <3> QED BY <3>1, <3>6, <3>7, <3>13, <2>2, <1>2, <1>7 DEF effects
  <2> QED BY <2>3, <2>4
<1> QED BY <1>10, <1>11, <1>12, <1>13 DEF SocketClientNext

-----------------------------------------------------------------------------
(* The socket backend: the server. *)

\* A handler's answer to rank r, or its start or end.
LEMMA HandlerKept ==
  ASSUME SocketInv, SocketTypes', gen'["barrier"] = gen["barrier"], count'["barrier"] = count["barrier"],
         kv => kv', kv' => published', UNCHANGED <<program, crashed, step, in_call, entered>>,
         NEW r \in Ranks,
         \A q \in Ranks : q # r => /\ conn'[q] = conn[q] /\ request'[q] = request[q]
                                   /\ response'[q] = response[q] /\ awaiting'[q] = awaiting[q],
         ClientInv(r)', BarrierInv(r)',
         request'[r] = "barrier" /\ awaiting'[r] = gen["barrier"]
            <=> request[r] = "barrier" /\ awaiting[r] = gen["barrier"]
  PROVE  SocketInv'
<1>1. SamePlaces
  BY PlacesKept
<1>2. \A q \in Ranks : q # r => Same(q)
  BY <1>1 DEF Same, SamePlaces
<1> QED BY <1>2, SocketKept

\* The last rank to arrive: everyone is in the barrier.
LEMMA LastArrives ==
  ASSUME SocketInv, NEW r \in Ranks, r \notin Waiting
  PROVE  /\ count["barrier"] + 1 = nranks => \A q \in Ranks : q # r => q \in Waiting
         /\ Cardinality(Waiting \cup {r}) = count["barrier"] + 1
         /\ Cardinality({}) = 0
<1>1. IsFiniteSet(Ranks) /\ Cardinality(Ranks) = nranks
  <2>1. nranks \in Nat /\ 0 \in Int /\ nranks - 1 \in Int
    BY nranksAssumption
  <2>2. Cardinality(0 .. nranks - 1) = IF 0 > nranks - 1 THEN 0 ELSE (nranks - 1) - 0 + 1
    BY <2>1, FS_Interval
  <2>3. IsFiniteSet(0 .. nranks - 1)
    BY <2>1, FS_Interval
  <2> QED BY <2>2, <2>3, nranksAssumption DEF Ranks
<1>2. Waiting \subseteq Ranks
  BY DEF Waiting
<1>3. IsFiniteSet(Waiting)
  BY <1>1, <1>2, FS_Subset
<1>4. count["barrier"] = Cardinality(Waiting)
  BY DEF SocketInv
<1>5. Cardinality(Waiting \cup {r}) = count["barrier"] + 1 /\ IsFiniteSet(Waiting \cup {r})
  BY <1>3, <1>4, FS_AddElement
<1>6. ASSUME count["barrier"] + 1 = nranks PROVE Waiting \cup {r} = Ranks
  <2>1. Waiting \cup {r} \subseteq Ranks
    BY <1>2
  <2> QED BY <2>1, <1>1, <1>5, <1>6, FS_Subset
<1>7. Cardinality({}) = 0
  BY FS_EmptySet
<1> QED BY <1>5, <1>6, <1>7

\* BARRIER and SYNC: the handler waits, or starts the new generation.
LEMMA GateKeeps ==
  ASSUME UserTypes, SocketInv, NEW r \in Ranks, conn[r] = "open",
         handle_gate(r, "barrier") \/ handle_gate(r, "sync")
  PROVE  SocketInv'
<1>1. SocketTypes /\ (kv => published) /\ ClientInv(r) /\ BarrierInv(r)
  BY DEF SocketTypes, SocketInv
<1>2. UNCHANGED <<conn, kv, published, program, crashed, step, in_call, entered>>
  BY DEF handle_gate, userVars, scriptVars, effects
<1>3. \A q \in Ranks : Op(q)' = Op(q) /\ (Ended(q)' <=> Ended(q))
  BY <1>2, PlacesKept DEF SamePlaces
<1>4. entered \in [Ranks -> Nat]
  BY DEF UserTypes
<1>5. gen["barrier"] \in Nat /\ count["barrier"] \in Nat /\ gen["sync"] \in Nat /\ count["sync"] \in Nat
      /\ \A q \in Ranks : awaiting[q] \in Int
  BY <1>1 DEF SocketTypes, Gates
<1>6. CASE handle_gate(r, "sync")
  <2>1. request[r] = "sync" /\ gen'["barrier"] = gen["barrier"] /\ count'["barrier"] = count["barrier"]
    BY <1>1, <1>6 DEF handle_gate, SocketTypes, Gates
  <2>2. Op(r) = "sync" /\ in_call[r] /\ response[r] = "none"
    BY <2>1, <1>1 DEF ClientInv, Calls
  <2>3. CASE count["sync"] + 1 = nranks
    <3>1. /\ gen' = [gen EXCEPT !["sync"] = @ + 1] /\ count' = [count EXCEPT !["sync"] = 0]
          /\ request' = [request EXCEPT ![r] = "none"] /\ response' = [response EXCEPT ![r] = "ok"]
          /\ awaiting' = [awaiting EXCEPT ![r] = -1]
      BY <2>3, <1>6 DEF handle_gate, Respond
    <3>2. SocketTypes'
      BY <3>1, <1>1, <1>2, <1>5 DEF SocketTypes, Calls, Gates
    <3>3. request'[r] = "none" /\ response'[r] = "ok" /\ awaiting'[r] = -1
      BY <3>1, <1>1 DEF SocketTypes
    <3>4. ClientInv(r)'
      BY <3>3, <2>2, <1>2, <1>3 DEF ClientInv, Calls
    <3>5. BarrierInv(r)'
      BY <3>3, <2>1, <1>1, <1>2 DEF BarrierInv
    <3>6. \A q \in Ranks : q # r => /\ conn'[q] = conn[q] /\ request'[q] = request[q]
                                    /\ response'[q] = response[q] /\ awaiting'[q] = awaiting[q]
      BY <3>1, <1>1, <1>2 DEF SocketTypes
    <3> QED BY <3>2, <3>3, <3>4, <3>5, <3>6, <2>1, <1>1, <1>2, HandlerKept
  <2>4. CASE count["sync"] + 1 # nranks
    <3>1. /\ count' = [count EXCEPT !["sync"] = @ + 1]
          /\ awaiting' = [awaiting EXCEPT ![r] = gen["sync"]]
          /\ UNCHANGED <<gen, request, response>>
      BY <2>4, <1>6 DEF handle_gate
    <3>2. SocketTypes'
      BY <3>1, <1>1, <1>2, <1>5 DEF SocketTypes, Gates
    <3>3. ClientInv(r)'
      BY <3>1, <2>1, <2>2, <1>1, <1>2, <1>3 DEF ClientInv, Calls, Gates
    <3>4. BarrierInv(r)'
      BY <3>1, <2>1, <1>1, <1>2 DEF BarrierInv
    <3>5. \A q \in Ranks : q # r => /\ conn'[q] = conn[q] /\ request'[q] = request[q]
                                    /\ response'[q] = response[q] /\ awaiting'[q] = awaiting[q]
      BY <3>1, <1>1, <1>2 DEF SocketTypes
    <3> QED BY <3>1, <3>2, <3>3, <3>4, <3>5, <2>1, <1>1, <1>2, HandlerKept
  <2> QED BY <2>3, <2>4
<1>7. CASE handle_gate(r, "barrier")
  <2>1. request[r] = "barrier" /\ awaiting[r] = -1
    BY <1>7 DEF handle_gate
  <2>2. Op(r) = "barrier" /\ in_call[r] /\ response[r] = "none" /\ entered[r] = gen["barrier"] + 1
    BY <2>1, <1>1 DEF ClientInv, BarrierInv, Calls
  <2>3. r \notin Waiting
    BY <2>1, <1>5 DEF Waiting
  <2>4. /\ count["barrier"] + 1 = nranks => \A q \in Ranks : q # r => q \in Waiting
        /\ Cardinality(Waiting \cup {r}) = count["barrier"] + 1 /\ Cardinality({}) = 0
    BY <2>3, LastArrives
  <2>5. \A q \in Ranks : ClientInv(q) /\ BarrierInv(q)
    BY DEF SocketInv
  <2>6. CASE count["barrier"] + 1 = nranks
    <3>1. /\ gen' = [gen EXCEPT !["barrier"] = @ + 1] /\ count' = [count EXCEPT !["barrier"] = 0]
          /\ request' = [request EXCEPT ![r] = "none"] /\ response' = [response EXCEPT ![r] = "ok"]
          /\ awaiting' = [awaiting EXCEPT ![r] = -1]
      BY <2>6, <1>7 DEF handle_gate, Respond
    <3>2. SocketTypes'
      BY <3>1, <1>1, <1>2, <1>5 DEF SocketTypes, Calls, Gates
    <3>3. /\ request'[r] = "none" /\ response'[r] = "ok" /\ awaiting'[r] = -1
          /\ gen'["barrier"] = gen["barrier"] + 1 /\ count'["barrier"] = 0
      BY <3>1, <1>1 DEF SocketTypes, Gates
    <3>4. \A q \in Ranks : q # r => /\ conn'[q] = conn[q] /\ request'[q] = request[q]
                                    /\ response'[q] = response[q] /\ awaiting'[q] = awaiting[q]
      BY <3>1, <1>1, <1>2 DEF SocketTypes
    <3>5. \A q \in Ranks : q # r => request[q] = "barrier" /\ awaiting[q] = gen["barrier"]
      BY <2>4, <2>6 DEF Waiting
    <3>6. ClientInv(r)'
      BY <3>3, <2>2, <1>2, <1>3 DEF ClientInv, Calls
    <3>7. BarrierInv(r)'
      BY <3>3, <2>2, <1>2 DEF BarrierInv
    <3>8. ASSUME NEW q \in Ranks, q # r PROVE ClientInv(q)' /\ BarrierInv(q)'
      <4>1. ClientInv(q)'
        BY <3>4, <3>8, <2>5, <1>2, <1>3 DEF ClientInv, Calls, Gates
      <4>2. entered[q] = gen["barrier"] + 1 /\ awaiting[q] # -1
        BY <3>5, <3>8, <2>5, <1>5 DEF BarrierInv
      <4>3. BarrierInv(q)'
        BY <4>2, <3>3, <3>4, <3>5, <3>8, <1>2, <1>5 DEF BarrierInv
      <4> QED BY <4>1, <4>3
    <3>9. Waiting' = {}
      BY <3>3, <3>4, <3>5, <1>5 DEF Waiting
    <3>10. count'["barrier"] = Cardinality(Waiting)'
      BY <3>3, <3>9, <2>4
    <3> QED BY <3>2, <3>6, <3>7, <3>8, <3>10, <1>1, <1>2 DEF SocketInv, SocketTypes
  <2>7. CASE count["barrier"] + 1 # nranks
    <3>1. /\ count' = [count EXCEPT !["barrier"] = @ + 1]
          /\ awaiting' = [awaiting EXCEPT ![r] = gen["barrier"]]
          /\ UNCHANGED <<gen, request, response>>
      BY <2>7, <1>7 DEF handle_gate
    <3>2. SocketTypes'
      BY <3>1, <1>1, <1>2, <1>5 DEF SocketTypes, Gates
    <3>3. awaiting'[r] = gen["barrier"] /\ count'["barrier"] = count["barrier"] + 1
      BY <3>1, <1>1 DEF SocketTypes, Gates
    <3>4. \A q \in Ranks : q # r => awaiting'[q] = awaiting[q]
      BY <3>1, <1>1 DEF SocketTypes
    <3>5. ClientInv(r)'
      BY <3>1, <2>1, <2>2, <1>1, <1>2, <1>3 DEF ClientInv, Calls, Gates
    <3>6. BarrierInv(r)'
      BY <3>1, <3>3, <2>1, <2>2, <1>2, <1>5 DEF BarrierInv
    <3>7. ASSUME NEW q \in Ranks, q # r PROVE ClientInv(q)' /\ BarrierInv(q)'
      <4>1. ClientInv(q)'
        BY <3>1, <3>4, <3>7, <2>5, <1>2, <1>3 DEF ClientInv, Calls, Gates
      <4>2. BarrierInv(q)'
        BY <3>1, <3>4, <3>7, <2>5, <1>2 DEF BarrierInv
      <4> QED BY <4>1, <4>2
    <3>8. Waiting' = Waiting \cup {r}
      BY <3>1, <3>3, <3>4, <2>1 DEF Waiting
    <3>9. count'["barrier"] = Cardinality(Waiting)'
      BY <3>3, <3>8, <2>4
    <3> QED BY <3>2, <3>5, <3>6, <3>7, <3>9, <1>1, <1>2 DEF SocketInv, SocketTypes
  <2> QED BY <2>6, <2>7
<1> QED BY <1>6, <1>7

\* Every step of the server keeps the invariant and the contract.
LEMMA SocketServerKeeps ==
  ASSUME UserTypes, UserInv, SocketInv, SocketServerNext
  PROVE  (UNCHANGED effects \/ Publish) /\ SocketInv' /\ UserTypes' /\ UserInv'
<1>1. SocketTypes /\ (kv => published) /\ published \in BOOLEAN
  BY DEF SocketTypes, SocketInv, UserInv
<1>2. \A q \in Ranks : ClientInv(q) /\ BarrierInv(q) /\ q \in Clients
  BY DEF SocketInv, Clients
<1>3. gen["barrier"] \in Nat /\ \A q \in Ranks : awaiting[q] \in Int
  BY <1>1 DEF SocketTypes, Gates
<1>4. ASSUME UNCHANGED <<program, step, in_call, entered, left>>, published' \in BOOLEAN
      PROVE  UserTypes' /\ UserInv'
  <2>1. \A q \in Ranks : Op(q)' = Op(q) /\ Size(q)' = Size(q)
    BY <1>4, PlacesKept DEF SamePlaces
  <2>2. UserTypes'
    BY <2>1, <1>4 DEF UserTypes
  <2>3. UserInv'
    BY <2>1, <1>4 DEF UserInv
  <2> QED BY <2>2, <2>3
<1>5. ASSUME UNCHANGED <<program, step>>
      PROVE  \A q \in Ranks : Op(q)' = Op(q) /\ (Ended(q)' <=> Ended(q))
  BY <1>5, PlacesKept DEF SamePlaces
<1>6. ASSUME UNCHANGED userVars PROVE UNCHANGED effects /\ UserTypes' /\ UserInv'
  BY <1>1, <1>4, <1>6 DEF userVars, scriptVars, effects
\* The connections change, and nothing else the invariant speaks of.
<1>7. ASSUME UNCHANGED userVars, UNCHANGED <<request, response, awaiting, gen, count, kv>>,
             conn' \in [Clients -> {"none", "backlog", "auth", "open", "closed"}],
             \A q \in Ranks : conn'[q] # conn[q] =>
                \/ conn[q] = "backlog" /\ conn'[q] \in {"auth", "closed"}
                \/ conn'[q] = "closed" /\ (q \in crashed \/ Ended(q))
      PROVE  SocketInv'
  <2>1. UNCHANGED <<program, crashed, step, in_call, entered, published>>
    BY <1>7 DEF userVars, scriptVars, effects
  <2>2. \A q \in Ranks : Op(q)' = Op(q) /\ (Ended(q)' <=> Ended(q))
    BY <2>1, <1>5
  <2>3. ASSUME NEW q \in Ranks PROVE ClientInv(q)' /\ BarrierInv(q)'
    <3>1. BarrierInv(q)'
      BY <2>1, <1>2, <1>7 DEF BarrierInv
    <3>2. ClientInv(q)
      BY <1>2
    <3>6. /\ request'[q] = request[q] /\ response'[q] = response[q] /\ awaiting'[q] = awaiting[q]
          /\ kv' = kv /\ crashed' = crashed /\ in_call'[q] = in_call[q]
          /\ Op(q)' = Op(q) /\ (Ended(q)' <=> Ended(q))
      BY <2>1, <2>2, <1>7
    <3>3. CASE conn'[q] = conn[q]
      BY <3>1, <3>2, <3>3, <3>6 DEF ClientInv, Calls, Gates
    <3>4. CASE conn[q] = "backlog" /\ conn'[q] \in {"auth", "closed"}
      BY <3>1, <3>2, <3>4, <3>6 DEF ClientInv, Calls, Gates
    <3>5. CASE conn'[q] = "closed" /\ (q \in crashed \/ Ended(q))
      BY <3>1, <3>2, <3>5, <3>6 DEF ClientInv, Calls, Gates
    <3> QED BY <3>1, <3>3, <3>4, <3>5, <1>7
  <2>4. Waiting' = Waiting
    BY <1>7 DEF Waiting
  <2>5. count'["barrier"] = Cardinality(Waiting)'
    BY <2>4, <1>7 DEF SocketInv
  <2> QED BY <2>1, <2>3, <2>5, <1>1, <1>7 DEF SocketInv, SocketTypes
<1>8. ASSUME NEW c \in Stray, stray_connect(c) PROVE SocketInv' /\ UNCHANGED userVars
  <2>1. c \in Clients /\ conn' = [conn EXCEPT ![c] = "backlog"]
        /\ UNCHANGED <<request, response, awaiting, gen, count, kv>> /\ UNCHANGED userVars
    BY <1>8 DEF stray_connect, serverState, Clients
  <2>2. c \notin Ranks
    BY nranksAssumption, MaxStrayAssumption DEF Stray, Ranks
  <2>3. /\ conn' \in [Clients -> {"none", "backlog", "auth", "open", "closed"}]
        /\ \A q \in Ranks : conn'[q] = conn[q]
    BY <2>1, <2>2, <1>1, <1>2 DEF SocketTypes
  <2> QED BY <2>1, <2>3, <1>7
<1>9. ASSUME NEW c \in Clients, accept_loop(c) PROVE SocketInv' /\ UNCHANGED userVars
  <2>1. /\ conn[c] = "backlog"
        /\ conn' = [conn EXCEPT ![c] = "closed"] \/ conn' = [conn EXCEPT ![c] = "auth"]
        /\ UNCHANGED <<request, response, awaiting, gen, count, kv>> /\ UNCHANGED userVars
    BY <1>9 DEF accept_loop
  <2>2. /\ conn' \in [Clients -> {"none", "backlog", "auth", "open", "closed"}]
        /\ \A q \in Ranks : conn'[q] # conn[q] => conn[q] = "backlog" /\ conn'[q] \in {"auth", "closed"}
    BY <2>1, <1>1, <1>2 DEF SocketTypes
  <2> QED BY <2>1, <2>2, <1>7
<1>10. ASSUME NEW c \in Clients, handler_ends(c) PROVE SocketInv' /\ UNCHANGED userVars
  <2>1. /\ conn' = [conn EXCEPT ![c] = "closed"] /\ (c \in Stray \/ c \in crashed \/ Ended(c))
        /\ UNCHANGED <<request, response, awaiting, gen, count, kv>> /\ UNCHANGED userVars
    BY <1>10 DEF handler_ends
  <2>2. c \in Stray => c \notin Ranks
    BY nranksAssumption, MaxStrayAssumption DEF Stray, Ranks
  <2>3. /\ conn' \in [Clients -> {"none", "backlog", "auth", "open", "closed"}]
        /\ \A q \in Ranks : conn'[q] # conn[q] => conn'[q] = "closed" /\ (q \in crashed \/ Ended(q))
    BY <2>1, <2>2, <1>1, <1>2 DEF SocketTypes
  <2> QED BY <2>1, <2>3, <1>7
<1>11. ASSUME server_shutdown PROVE SocketInv' /\ UNCHANGED userVars
  <2>1. /\ conn' = [c \in Clients |-> IF conn[c] = "backlog" THEN "closed" ELSE conn[c]]
        /\ UNCHANGED <<request, response, awaiting, gen, count, kv>> /\ UNCHANGED userVars
    BY <1>11 DEF server_shutdown
  <2>2. /\ conn' \in [Clients -> {"none", "backlog", "auth", "open", "closed"}]
        /\ \A q \in Ranks : conn'[q] # conn[q] => conn[q] = "backlog" /\ conn'[q] \in {"auth", "closed"}
    BY <2>1, <1>1, <1>2 DEF SocketTypes
  <2> QED BY <2>1, <2>2, <1>7
<1>12. ASSUME server_joined PROVE SocketInv' /\ UNCHANGED userVars
  <2>1. UNCHANGED <<conn, request, response, awaiting, gen, count, kv>> /\ UNCHANGED userVars
    BY <1>12 DEF server_joined, wires
  <2>2. /\ conn' \in [Clients -> {"none", "backlog", "auth", "open", "closed"}]
        /\ \A q \in Ranks : conn'[q] = conn[q]
    BY <2>1, <1>1 DEF SocketTypes
  <2> QED BY <2>1, <2>2, <1>7
<1>13. ASSUME NEW r \in Ranks, authenticate(r) PROVE SocketInv' /\ UNCHANGED userVars
  <2>1. /\ conn[r] = "auth" /\ request[r] = "auth"
        /\ conn' = [conn EXCEPT ![r] = "open"] /\ request' = [request EXCEPT ![r] = "none"]
        /\ response' = [response EXCEPT ![r] = "ok"]
        /\ UNCHANGED <<awaiting, gen, count, kv>> /\ UNCHANGED userVars
    BY <1>13 DEF authenticate
  <2>2. UNCHANGED <<program, crashed, step, in_call, entered, published>>
    BY <2>1 DEF userVars, scriptVars, effects
  <2>3. Op(r)' = "init" /\ in_call'[r] /\ awaiting'[r] = -1
    BY <2>1, <2>2, <1>2, <1>5 DEF ClientInv, Gates
  <2>4. conn'[r] = "open" /\ request'[r] = "none" /\ response'[r] = "ok"
    BY <2>1, <1>1, <1>2 DEF SocketTypes
  <2>5. ClientInv(r)'
    BY <2>3, <2>4 DEF ClientInv, Calls
  <2>6. BarrierInv(r)'
    BY <2>1, <2>2, <2>4, <1>2 DEF BarrierInv
  <2>7. SocketTypes'
    BY <2>1, <1>1 DEF SocketTypes
  <2>8. \A q \in Ranks : q # r => /\ conn'[q] = conn[q] /\ request'[q] = request[q]
                                  /\ response'[q] = response[q] /\ awaiting'[q] = awaiting[q]
    BY <2>1, <1>1, <1>2 DEF SocketTypes
  <2> QED BY <2>1, <2>2, <2>4, <2>5, <2>6, <2>7, <2>8, <1>1, HandlerKept
\* An answer to a call that is not in Waiting.
<1>14. ASSUME NEW r \in Ranks, NEW line \in {"ok", "timeout"}, conn[r] = "open", Respond(r, line),
              request[r] \in Calls, UNCHANGED <<conn, gen, count>>, kv' \in BOOLEAN, kv => kv',
              kv' => published', UNCHANGED <<program, crashed, step, in_call, entered>>,
              request[r] = "get" /\ line = "ok" => kv',
              request[r] = "barrier" => awaiting[r] # -1 /\ gen["barrier"] # awaiting[r]
       PROVE  SocketInv'
  <2>1. /\ request' = [request EXCEPT ![r] = "none"] /\ response' = [response EXCEPT ![r] = line]
        /\ awaiting' = [awaiting EXCEPT ![r] = -1]
    BY <1>14 DEF Respond
  <2>2. request'[r] = "none" /\ response'[r] = line /\ awaiting'[r] = -1 /\ conn'[r] = "open"
    BY <2>1, <1>1, <1>14 DEF SocketTypes
  <2>3. Op(r)' = request[r] /\ in_call'[r]
    BY <1>2, <1>5, <1>14 DEF ClientInv
  <2>4. ClientInv(r)'
    BY <2>2, <2>3, <1>14 DEF ClientInv, Calls
  <2>5. entered[r] = gen["barrier"]
    <3>1. CASE request[r] # "barrier"
      BY <3>1, <1>2 DEF BarrierInv
    <3>2. CASE request[r] = "barrier"
      BY <3>2, <1>2, <1>14 DEF BarrierInv
    <3> QED BY <3>1, <3>2
  <2>6. BarrierInv(r)'
    BY <2>2, <2>5, <1>14 DEF BarrierInv
  <2>7. SocketTypes'
    BY <2>1, <1>1, <1>14 DEF SocketTypes
  <2>8. \A q \in Ranks : q # r => /\ conn'[q] = conn[q] /\ request'[q] = request[q]
                                  /\ response'[q] = response[q] /\ awaiting'[q] = awaiting[q]
    BY <2>1, <1>1, <1>14 DEF SocketTypes
  <2> QED BY <2>2, <2>4, <2>6, <2>7, <2>8, <1>14, HandlerKept
<1>15. ASSUME NEW r \in Ranks, handle_request(r)
       PROVE  (UNCHANGED effects \/ Publish) /\ SocketInv' /\ UserTypes' /\ UserInv'
  <2>1. conn[r] = "open"
    BY <1>15 DEF handle_request
  <2>2. CASE handle_put(r)
    <3>1. /\ request[r] = "put" /\ kv' = TRUE /\ published' = TRUE /\ Respond(r, "ok")
          /\ UNCHANGED <<conn, gen, count>>
          /\ UNCHANGED <<program, crashed, step, in_call, got, entered, left>>
      BY <2>2 DEF handle_put, scriptVars
    <3>2. SocketInv'
      BY <3>1, <2>1, <1>14 DEF Calls
    <3>3. Publish
      BY <3>1 DEF Publish
    <3> QED BY <3>1, <3>2, <3>3, <1>4
  <2>3. CASE handle_get(r)
    <3>1. /\ request[r] = "get" /\ Respond(r, IF kv THEN "ok" ELSE "timeout")
          /\ UNCHANGED <<conn, kv, gen, count>> /\ UNCHANGED userVars
      BY <2>3 DEF handle_get, serverState
    <3>2. UNCHANGED <<program, crashed, step, in_call, entered, published>>
      BY <3>1 DEF userVars, scriptVars, effects
    <3>3. PICK line \in {"ok", "timeout"} : Respond(r, line) /\ (line = "ok" => kv)
      BY <3>1
    <3>4. SocketInv'
      BY <3>1, <3>2, <3>3, <2>1, <1>1, <1>14 DEF Calls, SocketTypes
    <3> QED BY <3>1, <3>4, <1>6
  <2>4. CASE handle_gate(r, "barrier") \/ handle_gate(r, "sync")
    <3>1. SocketInv'
      BY <2>1, <2>4, GateKeeps
    <3>2. UNCHANGED userVars
      BY <2>4 DEF handle_gate
    <3> QED BY <3>1, <3>2, <1>6
  <2>5. ASSUME NEW g \in Gates, wake_gate(r, g)
        PROVE  UNCHANGED effects /\ SocketInv' /\ UserTypes' /\ UserInv'
    <3>1. /\ request[r] = g /\ awaiting[r] # -1 /\ gen[g] # awaiting[r] /\ Respond(r, "ok")
          /\ UNCHANGED <<conn, kv, gen, count>> /\ UNCHANGED userVars
      BY <2>5 DEF wake_gate, serverState
    <3>2. UNCHANGED <<program, crashed, step, in_call, entered, published>>
      BY <3>1 DEF userVars, scriptVars, effects
    <3>3. request[r] \in Calls /\ request[r] # "get"
          /\ (request[r] = "barrier" => awaiting[r] # -1 /\ gen["barrier"] # awaiting[r])
      BY <3>1, <2>5 DEF Calls, Gates
    <3>4. SocketInv'
      BY <3>1, <3>2, <3>3, <2>1, <1>1, <1>14 DEF SocketTypes
    <3> QED BY <3>1, <3>4, <1>6
  <2> QED BY <2>2, <2>3, <2>4, <2>5, <1>15 DEF handle_request, Gates
<1> QED BY <1>6, <1>8, <1>9, <1>10, <1>11, <1>12, <1>13, <1>15 DEF SocketServerNext

-----------------------------------------------------------------------------
(* All backends. *)

\* What a step does for the contract, whoever takes it.
LEMMA ContractStep ==
  ASSUME (\E r \in Ranks : Effects(r)) \/ UNCHANGED effects \/ Publish
  PROVE  [Contract!Next]_(Contract!contractVars)
<1>1. CASE \E r \in Ranks : Effects(r)
  BY <1>1, EffectsKeepContract
<1>2. CASE UNCHANGED effects \/ Publish
  BY <1>2 DEF effects, Publish, Contract!Next, Contract!Put, Contract!contractVars
<1> QED BY <1>1, <1>2

\* Waits never forget that one of them has run into its timeout.
LEMMA TimeoutsStay ==
  ASSUME NEW r \in Ranks, FileStep(r), timed_out
  PROVE  timed_out'
BY DEF FileStep, file_backend_init, FileNext, create_directories, write_alive, write_fails, file_put,
       file_sync, file_get, barrier_enter, barrier_wait, file_close, Timeout

\* A step of a call, whatever the backend.
LEMMA CallKeeps ==
  ASSUME BackendInv, NEW r \in Ranks, call_step(r)
  PROVE  BackendInv' /\ Effects(r)
<1>1. program' = program /\ crashed' = crashed /\ env' = env /\ OtherBackends(detect_backend)
  BY DEF call_step
<1>2. detect_backend' = detect_backend
  BY <1>1 DEF detect_backend
<1>3. UserTypes /\ UserInv
  BY DEF BackendInv
<1>4. CASE detect_backend = "FILE"
  <2>1. FileInv /\ FileStep(r)
    BY <1>4 DEF BackendInv, call_step
  <2>2. Effects(r) /\ FileInv' /\ UserTypes' /\ UserInv'
    BY <2>1, <1>1, <1>3, FileStepKeeps
  <2>3. "RRUN_COORD_DIR" \in env /\ ~ timed_out' => DirectoryInv'
    <3>1. ~ timed_out' => ~ timed_out
      BY <2>1, TimeoutsStay
    <3> QED BY <3>1, <2>1, <1>1, <1>3, <1>4, FileDirectory DEF BackendInv
  <2>4. "RRUN_COORD_DIR" \notin env => NoDirectoryInv'
    BY <2>1, <1>1, <1>3, <1>4, FileWithoutDirectory DEF BackendInv
  <2> QED BY <2>2, <2>3, <2>4, <1>1, <1>2, <1>4 DEF BackendInv
<1>5. CASE detect_backend = "SLURM"
  <2>1. SlurmInv /\ SlurmNext(r)
    BY <1>5 DEF BackendInv, call_step
  <2>2. Effects(r) /\ SlurmInv' /\ UserTypes' /\ UserInv'
    BY <2>1, <1>1, <1>3, SlurmStepKeeps
  <2> QED BY <2>2, <1>2, <1>5 DEF BackendInv
<1>6. CASE detect_backend = "SOCKET"
  <2>1. SocketInv /\ SocketClientNext(r)
    BY <1>6 DEF BackendInv, call_step
  <2>2. Effects(r) /\ SocketInv' /\ UserTypes' /\ UserInv'
    BY <2>1, <1>1, <1>3, SocketClientKeeps
  <2> QED BY <2>2, <1>2, <1>6 DEF BackendInv
<1> QED BY <1>4, <1>5, <1>6 DEF call_step

\* A step of the server that rrun runs.
LEMMA ServerKeeps ==
  ASSUME BackendInv, server_step
  PROVE  BackendInv' /\ (UNCHANGED effects \/ Publish)
<1>1. detect_backend = "SOCKET" /\ SocketServerNext /\ env' = env
  BY DEF server_step
<1>2. detect_backend' = detect_backend
  BY <1>1 DEF detect_backend
<1>3. UserTypes /\ UserInv /\ SocketInv
  BY <1>1 DEF BackendInv
<1>4. (UNCHANGED effects \/ Publish) /\ SocketInv' /\ UserTypes' /\ UserInv'
  BY <1>1, <1>3, SocketServerKeeps
<1> QED BY <1>1, <1>2, <1>4 DEF BackendInv

\* A step that changes nothing but who is killed.
LEMMA QuietKeeps ==
  ASSUME BackendInv, crashed \subseteq crashed',
         UNCHANGED <<env, program, scriptVars, timed_out, effects, fileVars, socketVars, slurmVars>>
  PROVE  BackendInv' /\ UNCHANGED effects
<1>1. /\ UNCHANGED <<env, program, step, in_call, error, timed_out, published, got, entered, left>>
      /\ UNCHANGED <<fileVars, socketVars, slurmVars>>
  BY DEF scriptVars, effects
<1>2. detect_backend' = detect_backend
  BY <1>1 DEF detect_backend
<1>3. SamePlaces
  BY <1>1, PlacesKept
<1>4. \A q \in Ranks : Op(q)' = Op(q) /\ (Ended(q)' <=> Ended(q)) /\ Size(q)' = Size(q)
  BY <1>1, <1>3 DEF SamePlaces
<1>5. 0 \in Ranks
  BY nranksAssumption DEF Ranks
<1>6. UserTypes' /\ UserInv'
  BY <1>1, <1>4 DEF BackendInv, UserTypes, UserInv
<1>7. detect_backend = "FILE" => FileInv'
  BY <1>1, <1>4 DEF BackendInv, FileInv, fileVars, Value
<1>8. detect_backend = "SLURM" => SlurmInv'
  BY <1>1 DEF BackendInv, SlurmInv, slurmVars
<1>9. ASSUME SocketInv PROVE SocketInv'
  <2>1. UNCHANGED <<conn, request, response, awaiting, kv, gen, count>>
    BY <1>1 DEF socketVars, wires, serverState
  <2>2. ASSUME NEW q \in Ranks PROVE ClientInv(q)' /\ BarrierInv(q)'
    <3>1. ClientInv(q) /\ BarrierInv(q)
      BY <1>9 DEF SocketInv
    <3>2. ClientInv(q)'
      BY <3>1, <2>1, <1>1, <1>4 DEF ClientInv, Calls, Gates
    <3>3. BarrierInv(q)'
      BY <3>1, <2>1, <1>1 DEF BarrierInv
    <3> QED BY <3>2, <3>3
  <2>3. Waiting' = Waiting
    BY <2>1 DEF Waiting
  <2>4. count'["barrier"] = Cardinality(Waiting)'
    BY <2>1, <2>3, <1>9 DEF SocketInv
  <2> QED BY <2>1, <2>2, <2>4, <1>1, <1>9 DEF SocketInv
<1>10. ASSUME DirectoryInv PROVE DirectoryInv'
  BY <1>1, <1>4, <1>5, <1>10 DEF DirectoryInv, fileVars, Alive, Value
<1>11. ASSUME NoDirectoryInv PROVE NoDirectoryInv'
  BY <1>1, <1>4, <1>11 DEF NoDirectoryInv
<1> QED BY <1>1, <1>2, <1>6, <1>7, <1>8, <1>9, <1>10, <1>11 DEF BackendInv, effects

\* comm->barrier() is a meeting of all ranks, too.
LEMMA MeetingKeeps ==
  ASSUME BackendInv, NEW r \in Ranks, barrier_step(r)
  PROVE  BackendInv' /\ Effects(r)
<1>1. /\ comm_barrier(r) /\ Op(r) = "comm_barrier" /\ r \notin crashed
      /\ UNCHANGED <<env, program, crashed, timed_out, published, got, entered, left>>
      /\ UNCHANGED effects /\ UNCHANGED <<fileVars, socketVars, slurmVars>>
  BY DEF barrier_step, comm_barrier, At, In, effects
<1>2. detect_backend' = detect_backend
  BY <1>1 DEF detect_backend
<1>3. UserTypes /\ UserInv
  BY DEF BackendInv
<1>4. SamePlaces
  BY <1>1, PlacesKept
<1>5. step[r] <= Size(r)
  BY <1>1, <1>3, NotEnded
<1>6. step[r] \in Nat /\ Size(r) \in Nat /\ step[r] >= 1 /\ \A q \in Ranks : step[q] \in Nat
  BY <1>3, Scripts DEF UserTypes
<1>7. step[r] > 1 /\ step[r] < Size(r)
  <2>1. Op(r) \in Inner
    BY <1>1 DEF Inner
  <2> QED BY <2>1, <1>3, <1>4, <1>5, <1>6, Places DEF SamePlaces, UserTypes
<1>8. Start(r) \/ Finish(r)
  BY <1>1 DEF comm_barrier
<1>9. Unbarred(r)
  BY <1>1, <1>3, <1>5, <1>8, Unbarring
<1>10. UserTypes' /\ UserInv'
  <2>1. published' \in BOOLEAN
    BY <1>1, <1>3 DEF UserInv
  <2> QED BY <2>1, <1>1, <1>3, <1>5, <1>9, NoNewBarriers, UserKept
<1>11. Effects(r)
  BY <1>1 DEF Effects
<1>12. detect_backend = "FILE" => FileInv'
  BY <1>1, <1>3, <1>5, <1>9, FilesKept DEF BackendInv, fileVars
<1>13. detect_backend = "SLURM" => SlurmInv'
  BY <1>1 DEF BackendInv, SlurmInv, slurmVars
<1>14. PICK s \in Nat, c \in BOOLEAN : Goes(r, s, c) /\ s >= step[r] /\ s <= Size(r) /\ s <= step[r] + 1
                                        /\ (s = step[r] + 1 \/ (s = step[r] /\ c = TRUE))
                                        /\ (s = step[r] + 1 => c = FALSE)
  <2>1. (Start(r) => Goes(r, step[r], TRUE)) /\ (Finish(r) => Goes(r, step[r] + 1, FALSE))
    BY <1>3, <1>5, Going
  <2>2. step[r] + 1 \in Nat /\ step[r] + 1 <= Size(r) /\ step[r] + 1 >= step[r] /\ step[r] >= step[r]
        /\ step[r] <= step[r] + 1 /\ step[r] # step[r] + 1
    BY <1>6, <1>7
  <2>3. CASE Start(r)
    BY <2>1, <2>2, <2>3, <1>5, <1>6
  <2>4. CASE Finish(r)
    <3> DEFINE n == step[r] + 1
    <3>1. Goes(r, n, FALSE)
      BY <2>1, <2>4, Zenon
    <3>2. n \in Nat /\ n >= step[r] /\ n <= Size(r) /\ n <= step[r] + 1 /\ n = step[r] + 1
      BY <2>2, <1>6
    <3> HIDE DEF n
    <3> QED BY <3>1, <3>2
  <2> QED BY <2>3, <2>4, <1>8
<1>15. ASSUME SocketInv PROVE SocketInv'
  <2>1. UNCHANGED <<conn, request, response, awaiting, kv, gen, count>>
    BY <1>1 DEF socketVars, wires, serverState
  <2>2. ClientInv(r) /\ BarrierInv(r) /\ conn[r] \in {"none", "backlog", "auth", "open", "closed"}
    BY <1>15 DEF SocketInv, Clients
  <2>3. ~ Ended(r)
    BY <1>4, <1>5, <1>6 DEF SamePlaces
  <2>4. request[r] \notin Calls /\ response[r] = "none" /\ awaiting[r] = -1 /\ conn[r] = "open"
    BY <2>2, <2>3, <1>1 DEF ClientInv, Calls, Gates
  <2>5. ClientInv(r)'
    BY <2>1, <2>4 DEF ClientInv, Calls
  <2>6. BarrierInv(r)'
    BY <2>1, <2>2, <1>1 DEF BarrierInv
  <2>7. \A q \in Ranks : q # r => Same(q)
    BY <2>1, <1>1, <1>4, <1>14 DEF Same, Goes, SamePlaces
  <2>8. SocketTypes'
    BY <2>1, <1>15 DEF SocketInv, SocketTypes
  <2> QED BY <2>1, <2>5, <2>6, <2>7, <2>8, <1>1, <1>15, SocketKept DEF SocketInv
<1>16. ASSUME DirectoryInv PROVE DirectoryInv'
  <2>1. dir_exists = TRUE
    BY <1>3, <1>5, <1>7, <1>16, DirectoryThere DEF DirectoryInv
  <2>2. s > step[r] => \A q \in Ranks : step[q] > 1
    <3>1. SUFFICES ASSUME s > step[r] PROVE \A q \in Ranks : step[q] > 1
      OBVIOUS
    <3>2. in_call'[r] = FALSE
      BY <3>1, <1>6, <1>14 DEF Goes
    <3>3. ~ Start(r)
      BY <3>2, <1>3 DEF Start, UserTypes
    <3>4. \A q \in Ranks : step[q] > step[r] \/ step[q] = step[r]
      BY <3>3, <1>1 DEF comm_barrier
    <3> QED BY <3>4, <1>6, <1>7
  <2>3. UNCHANGED <<dir_exists, files>> /\ error' = error
    BY <1>1, <1>8 DEF fileVars, Start, Finish
  <2>4. OpOf(r, s) = "get" => c = FALSE
    <3>1. OpOf(r, step[r]) = "comm_barrier"
      BY <1>1, <1>4 DEF SamePlaces
    <3> QED BY <3>1, <1>14
  <2>5. step[r] \in 2 .. Size(r)
    BY <1>6, <1>7
  <2>6. DirectoryStep(r, s, c)
    BY <2>1, <2>2, <2>3, <2>4, <2>5, <1>5, <1>14, <1>16 DEF DirectoryStep, DirectoryInv
  <2> QED BY <2>6, <1>1, <1>3, <1>16, DirectoryKept
<1>17. ~ NoDirectoryInv
  BY <1>4, <1>5, <1>6, <1>7 DEF NoDirectoryInv, SamePlaces
<1> QED BY <1>1, <1>2, <1>10, <1>11, <1>12, <1>13, <1>15, <1>16, <1>17 DEF BackendInv

\* The invariant holds initially.
LEMMA BackendBegins == ASSUME BootstrapInit PROVE BackendInv
<1>1. UserInit /\ FileInit /\ SocketInit /\ SlurmInit
  BY DEF BootstrapInit
<1>2. /\ program \in {"create_ucxx_comm", "barriers"}
      /\ step = [r \in Ranks |-> 1] /\ in_call = [r \in Ranks |-> FALSE]
      /\ error = [r \in Ranks |-> "none"] /\ published = FALSE
      /\ entered = [r \in Ranks |-> 0] /\ left = [r \in Ranks |-> 0]
  BY <1>1 DEF UserInit
<1>3. 0 \in Ranks
  BY nranksAssumption DEF Ranks
<1>4. \A r \in Ranks : Size(r) \in Nat /\ Size(r) > 2 /\ Script(r)[1] = "init"
  BY <1>2, Scripts
<1>5. \A r \in Ranks : Op(r) = "init" /\ ~ Ended(r)
  <2>1. \A r \in Ranks : step[r] = 1
    BY <1>2
  <2>2. \A r \in Ranks : ~ Ended(r)
    BY <2>1, <1>4 DEF Ended, Size
  <2> QED BY <2>1, <2>2, <1>4 DEF Op
<1>6. UserTypes
  BY <1>2, <1>4 DEF UserTypes
<1>7. UserInv
  <2>1. \A r \in Ranks : entered[r] = 0 /\ left[r] = 0 /\ Op(r) # "barrier"
    BY <1>2, <1>5
  <2>2. published \in BOOLEAN
    BY <1>2
  <2> QED BY <2>1, <2>2 DEF UserInv
<1>8. FileInv
  BY <1>1, <1>2, <1>5 DEF FileInit, FileInv
<1>9. SlurmInv
  BY <1>1, <1>2 DEF SlurmInit, SlurmInv
<1>10. SocketInv
  <2>1. /\ conn = [c \in Clients |-> "none"] /\ request = [r \in Ranks |-> "none"]
        /\ response = [r \in Ranks |-> "none"] /\ awaiting = [r \in Ranks |-> -1]
        /\ kv = FALSE /\ gen = [g \in Gates |-> 0] /\ count = [g \in Gates |-> 0]
    BY <1>1 DEF SocketInit
  <2>2. gen["barrier"] = 0 /\ count["barrier"] = 0
    BY <2>1 DEF Gates
  <2>3. ASSUME NEW r \in Ranks PROVE ClientInv(r) /\ BarrierInv(r)
    <3>1. request[r] = "none" /\ response[r] = "none" /\ awaiting[r] = -1 /\ conn[r] = "none"
          /\ entered[r] = 0
      BY <2>1, <1>2 DEF Clients
    <3>2. ClientInv(r)
      BY <3>1, <1>5 DEF ClientInv, Calls
    <3>3. BarrierInv(r)
      BY <3>1, <2>2 DEF BarrierInv
    <3> QED BY <3>2, <3>3
  <2>4. Waiting = {}
    BY <2>1 DEF Waiting
  <2>5. count["barrier"] = Cardinality(Waiting)
    BY <2>2, <2>4, FS_EmptySet
  <2>6. SocketTypes
    <3>1. kv \in BOOLEAN
      BY <2>1
    <3>2. /\ conn \in [Clients -> {"none", "backlog", "auth", "open", "closed"}]
          /\ request \in [Ranks -> Calls \cup {"none", "auth"}]
          /\ response \in [Ranks -> {"none", "ok", "timeout"}]
      BY <2>1
    <3>3. awaiting \in [Ranks -> Int] /\ gen \in [Gates -> Nat] /\ count \in [Gates -> Nat]
      BY <2>1
    <3> QED BY <3>1, <3>2, <3>3 DEF SocketTypes
  <2> QED BY <2>1, <2>3, <2>5, <2>6 DEF SocketInv, SocketTypes
<1>11. DirectoryInv
  <2>1. \A r \in Ranks : step[r] = 1 /\ ~ in_call[r] /\ error[r] = "none"
    BY <1>2
  <2>2. dir_exists = FALSE
    BY <1>1 DEF FileInit
  <2>3. \A r \in Ranks : ~(step[r] \in 2 .. Size(r)) /\ ~(step[r] > 1)
    BY <2>1
  <2>4. ~(step[0] >= Size(0)) /\ ~ Ended(0)
    BY <2>1, <1>3, <1>4, <1>5
  <2> QED BY <2>1, <2>2, <2>3, <2>4 DEF DirectoryInv
<1>12. NoDirectoryInv
  BY <1>2 DEF NoDirectoryInv
<1> QED BY <1>6, <1>7, <1>8, <1>9, <1>10, <1>11, <1>12 DEF BackendInv

\* Every step keeps the invariant and is one of the contract, or does nothing there.
LEMMA StepKeeps ==
  ASSUME BackendInv, [BootstrapNext]_bootstrapVars
  PROVE  BackendInv' /\ [Contract!Next]_(Contract!contractVars)
<1>1. CASE UNCHANGED bootstrapVars
  BY <1>1, QuietKeeps, ContractStep DEF bootstrapVars, userVars
<1>2. CASE server_step
  BY <1>2, ServerKeeps, ContractStep
<1>3. ASSUME NEW r \in Ranks, call_step(r) \/ barrier_step(r) \/ crash_step(r)
      PROVE  BackendInv' /\ [Contract!Next]_(Contract!contractVars)
  <2>1. CASE crash_step(r)
    BY <2>1, QuietKeeps, ContractStep DEF crash_step, crash
  <2>2. CASE call_step(r) \/ barrier_step(r)
    BY <2>2, CallKeeps, MeetingKeeps, ContractStep
  <2> QED BY <1>3, <2>1, <2>2
<1> QED BY <1>1, <1>2, <1>3 DEF BootstrapNext

\* The invariant of the bootstrap backends (file_backend.cpp, socket_backend.cpp,
\* slurm_backend.cpp) holds in every reachable state.
THEOREM BackendInvariant == BootstrapSpec => []BackendInv
<1>1. BootstrapInit => BackendInv
  BY BackendBegins
<1>2. BackendInv /\ [BootstrapNext]_bootstrapVars => BackendInv'
  BY StepKeeps
<1> QED BY <1>1, <1>2, PTL DEF BootstrapSpec

\* Every backend implements the contract of Backend (backend.hpp): no rank leaves its n-th
\* barrier before every rank has entered its n-th, and get() returns only what was put, also
\* with timeouts, killed processes and connections of other processes.
THEOREM BackendsRefine == BootstrapSpec => ContractRefinement
<1>1. BootstrapInit => Contract!Init
  BY DEF BootstrapInit, UserInit, Contract!Init
<1>2. BackendInv /\ [BootstrapNext]_bootstrapVars => [Contract!Next]_(Contract!contractVars)
  BY StepKeeps
<1> QED BY <1>1, <1>2, BackendInvariant, PTL DEF BootstrapSpec, ContractRefinement, Contract!Spec

\* The coordination directory that ~FileBackend() of rank 0 removes is there as long as
\* another rank uses it, and no write fails for want of it, unless a wait has timed out.
THEOREM DirectoryHolds == BootstrapSpec => []DirectoryOutlivesUse
<1>1. BackendInv => DirectoryOutlivesUse
  <2>1. SUFFICES ASSUME BackendInv, detect_backend = "FILE", ~ timed_out, NEW r \in Ranks
                 PROVE  error[r] # "io" /\ (UsesDirectory(r) => dir_exists)
    BY DEF DirectoryOutlivesUse
  <2>2. UserTypes
    BY <2>1 DEF BackendInv
  <2>3. CASE "RRUN_COORD_DIR" \in env
    <3>1. DirectoryInv
      BY <2>1, <2>3 DEF BackendInv
    <3>2. error[r] = "none"
      BY <3>1 DEF DirectoryInv
    <3>3. ASSUME UsesDirectory(r) PROVE dir_exists
      <4>1. Op(r) \notin {"init", "close", "exited"}
        BY <3>3 DEF UsesDirectory
      <4>2. step[r] <= Size(r)
        BY <4>1, <2>2, NotEnded
      <4>3. step[r] # 1 /\ step[r] \in Nat /\ step[r] >= 1
        <5>1. Op(r) = OpOf(r, step[r])
          BY DEF Op, OpOf, Ended, Size
        <5>2. step[r] \in Nat /\ step[r] >= 1 /\ Size(r) \in Nat
          BY <2>2, Scripts DEF UserTypes
        <5> QED BY <5>1, <5>2, <4>1, <4>2, <2>2, Places DEF UserTypes
      <4> QED BY <4>2, <4>3, <3>1, <2>2, DirectoryThere
    <3> QED BY <3>2, <3>3
  <2>4. CASE "RRUN_COORD_DIR" \notin env
    <3>1. NoDirectoryInv
      BY <2>1, <2>4 DEF BackendInv
    <3>2. error[r] # "io" /\ (step[r] = 1 \/ Ended(r))
      BY <3>1 DEF NoDirectoryInv
    <3>3. Op(r) \in {"init", "exited"}
      <4>1. CASE Ended(r)
        BY <4>1 DEF Op
      <4>2. CASE ~ Ended(r)
        <5>1. Op(r) = Script(r)[1]
          BY <4>2, <3>2 DEF Op
        <5> QED BY <5>1, <2>2, Scripts DEF UserTypes
      <4> QED BY <4>1, <4>2
    <3> QED BY <3>2, <3>3 DEF UsesDirectory
  <2> QED BY <2>3, <2>4
<1> QED BY <1>1, BackendInvariant, PTL

-----------------------------------------------------------------------------
(***************************************************************************)
(* UCXX: the root hands out ranks, collects the listener addresses and     *)
(* distributes them with the release of the first barrier.                 *)
(***************************************************************************)

\* A value is a sequence, whatever its elements are.
IsSeq(s) == Len(s) \in Nat /\ s = [i \in 1 .. Len(s) |-> s[i]]
Elems(s) == {s[i] : i \in 1 .. Len(s)}

\* The ranks handed out so far, and the process that each was handed to.
Handed == 0 .. next_rank - 1
Holder(r) == IF r \in DOMAIN endpoint[Root] THEN endpoint[Root][r] ELSE address[Root][r]
Known(p) == \E r \in Handed : Holder(r) = p
Agrees(map) == \A r \in DOMAIN map : r # -1 => r \in Handed /\ map[r] = Holder(r)

Past == {"idle", "called", "released"}
MapTypes ==
    /\ rank \in [Procs -> Int] /\ next_rank \in Nat /\ IsSeq(delayed_callbacks)
    /\ endpoint = [p \in Procs |-> endpoint[p]] /\ address = [p \in Procs |-> address[p]]
    /\ by_host_port \in BOOLEAN
RoundTypes ==
    /\ am_pool \in [Procs -> [Procs -> Int]]
    /\ position \in [Procs -> Past \cup {"start", "get_rank", "all_connected", "reported"}]
    /\ rounds_entered \in [Procs -> Nat] /\ rounds_left \in [Procs -> Nat]
WireTypes ==
    /\ am_wire = [p \in Procs |-> [q \in Procs |-> am_wire[p][q]]]
    /\ \A p, q \in Procs : IsSeq(am_wire[p][q])

\* A rank is handed to one process; every map names its holder; the root has an endpoint for
\* a rank or a callback that will create it.
MapInv ==
    /\ 0 \in DOMAIN endpoint[Root] /\ Holder(0) = Root /\ next_rank > 0
    /\ \A r \in Handed : Holder(r) \in Procs
    /\ \A r, s \in Handed : Holder(r) = Holder(s) => r = s
    /\ \A p \in Procs : Agrees(endpoint[p]) /\ Agrees(address[p])
    /\ -1 \notin DOMAIN endpoint[Root] /\ -1 \notin DOMAIN address[Root]
    /\ \A r \in Elems(delayed_callbacks) : r \in DOMAIN address[Root] \ {0}
    /\ \A r \in Handed \ DOMAIN endpoint[Root] : r \in DOMAIN address[Root]
    /\ 0 \in DOMAIN address[Root]
    /\ ~ by_host_port => Handed \subseteq DOMAIN address[Root]
    /\ \A p \in Procs : \A r \in Int \ {-1} : rank[p] = r => r \in Handed /\ Holder(r) = p
    /\ rank[Root] = 0

Request == {"ConnectionRequest", "QueryRank"}
UpMsg(p, m) ==
    \/ m.type \in Request /\ (m.type = "ConnectionRequest" => by_host_port)
    \/ m.type = "RegisterListenerAddress" /\ m.rank \in Handed /\ Holder(m.rank) = p
    \/ m.type = "plain"
DownMsg(p, m) ==
    \/ m.type = "AssignRank" /\ m.rank \in Handed /\ Holder(m.rank) = p
    \/ /\ m.type = "DistributeListenerAddresses"
       /\ Agrees(m.addresses) /\ -1 \notin DOMAIN m.addresses
       /\ \A r \in World : r \in DOMAIN m.addresses \/ (r \in Handed /\ Holder(r) = p)
    \/ m.type = "plain"

WiresInv ==
    /\ \A p, q \in Procs : (p = Root) = (q = Root) => am_wire[p][q] = <<>>
    /\ \A p \in Procs : \A m \in Elems(am_wire[p][Root]) : UpMsg(p, m)
    /\ \A p \in Procs : \A m \in Elems(am_wire[Root][p]) : DownMsg(p, m)

\* A process asks for a rank once, before it has one.
ProcInv(p) ==
    /\ position[p] = "start" => ~ Known(p) /\ am_wire[p][Root] = <<>>
    /\ position[p] = "get_rank" /\ ~ Known(p) =>
          Len(am_wire[p][Root]) = 1 /\ am_wire[p][Root][1].type \in Request
    /\ Known(p) => \A m \in Elems(am_wire[p][Root]) : m.type \notin Request
    /\ position[p] \in Past => rank[p] # -1 /\ rank[p] \in DOMAIN endpoint[p]

\* The plain messages among the first n of a wire.
PlainsIn(s, n) == Cardinality({k \in 1 .. n : s[k].type = "plain"})
Plains(s) == PlainsIn(s, Len(s))
One(b) == IF b THEN 1 ELSE 0

RoundInv(p) ==
    /\ position[p] \in Past \cup {"start", "get_rank"}
    /\ position[p] \in {"start", "get_rank"} => rounds_entered[p] = 0
    /\ rounds_entered[p] = rounds_left[p] + One(position[p] \in {"called", "released"})
    /\ am_pool[p][Root] >= 0 /\ am_pool[Root][p] >= 0
    /\ Plains(am_wire[Root][p]) + am_pool[p][Root]
          = 2 * rounds_left[Root] + One(position[Root] = "reported")
            - 2 * rounds_left[p] - One(position[p] = "released")
    /\ Plains(am_wire[p][Root]) + am_pool[Root][p]
          = rounds_left[p] + One(position[p] = "released") - rounds_left[Root]

RootInv ==
    /\ position[Root] \in {"idle", "all_connected", "reported"}
    /\ rounds_entered[Root] = rounds_left[Root] + One(position[Root] # "idle")
    /\ distributed \in BOOLEAN /\ (distributed <=> rounds_left[Root] > 0)
    /\ position[Root] = "reported" \/ rounds_left[Root] > 0 =>
          DOMAIN endpoint[Root] = World /\ next_rank = WorldSize /\ \A p \in Procs : Known(p)
    /\ rounds_left[Root] > 0 => World \subseteq DOMAIN address[Root]

\* The root knows the listener address of a process, or is told it before the first report.
Registered(p) == \A r \in Handed : Holder(r) = p => r \in DOMAIN address[Root]
RegisterComes(p) ==
    \E i \in 1 .. Len(am_wire[p][Root]) :
        /\ am_wire[p][Root][i].type = "RegisterListenerAddress"
        /\ PlainsIn(am_wire[p][Root], i) = 0
RegisterInv(p) ==
    position[p] \in Past =>
        Registered(p) \/ (am_pool[Root][p] = 0 /\ rounds_left[Root] = 0 /\ RegisterComes(p))

\* A process knows all addresses, or is told them before its first release.
Informed(p) == World \subseteq DOMAIN endpoint[p] \cup DOMAIN address[p]
AddressesCome(p) ==
    \E i \in 1 .. Len(am_wire[Root][p]) :
        /\ am_wire[Root][p][i].type = "DistributeListenerAddresses"
        /\ PlainsIn(am_wire[Root][p], i) + am_pool[p][Root] + One(position[p] = "released") = 1
InformedInv(p) ==
    rounds_left[Root] > 0 => Informed(p) \/ (rounds_left[p] = 0 /\ AddressesCome(p))

ForProcess(p) == ProcInv(p) /\ RoundInv(p) /\ RegisterInv(p) /\ InformedInv(p)

UcxxInv ==
    /\ MapTypes /\ RoundTypes /\ WireTypes /\ MapInv /\ WiresInv /\ RootInv
    /\ \A p \in Others : ForProcess(p)

-----------------------------------------------------------------------------
(* Sequences of messages.                                                  *)

\* A sequence in the sense of IsSeq is one of the standard module.
LEMMA SeqIs ==
  ASSUME NEW s, IsSeq(s), NEW S, Elems(s) \subseteq S
  PROVE  s \in Seq(S) /\ Len(s) \in Nat /\ DOMAIN s = 1 .. Len(s)
<1>1. \A i \in 1 .. Len(s) : s[i] \in S
  BY DEF Elems
<1>2. Len(s) \in Nat /\ s = [i \in 1 .. Len(s) |-> s[i]]
  BY DEF IsSeq
<1>3. s \in [1 .. Len(s) -> S] /\ DOMAIN s = 1 .. Len(s)
  BY <1>1, <1>2
<1> QED BY <1>2, <1>3

\* The empty sequence.
LEMMA EmptyFacts == IsSeq(<<>>) /\ Elems(<<>>) = {} /\ Len(<<>>) = 0 /\ Plains(<<>>) = 0
<1>1. Len(<<>>) = 0
  OBVIOUS
<1>2. <<>> = [i \in 1 .. 0 |-> <<>>[i]]
  OBVIOUS
<1>3. {k \in 1 .. 0 : <<>>[k].type = "plain"} = {}
  OBVIOUS
<1> QED BY <1>1, <1>2, <1>3, FS_EmptySet DEF IsSeq, Elems, Plains, PlainsIn

\* The number of plain messages is a natural number, and grows with the part that is counted.
LEMMA PlainsType ==
  ASSUME NEW s, NEW n \in Nat
  PROVE  PlainsIn(s, n) \in Nat
<1>1. IsFiniteSet(1 .. n)
  BY FS_Interval
<1>2. {k \in 1 .. n : s[k].type = "plain"} \in SUBSET (1 .. n)
  OBVIOUS
<1>3. IsFiniteSet({k \in 1 .. n : s[k].type = "plain"})
  BY <1>1, <1>2, FS_Subset
<1> QED BY <1>3, FS_CardinalityType DEF PlainsIn

LEMMA PlainsNext ==
  ASSUME NEW s, NEW n \in Nat
  PROVE  PlainsIn(s, n + 1) = PlainsIn(s, n) + One(s[n + 1].type = "plain")
<1> DEFINE A == {k \in 1 .. n : s[k].type = "plain"}
           B == {k \in 1 .. n + 1 : s[k].type = "plain"}
<1>1. IsFiniteSet(1 .. n)
  BY FS_Interval
<1>2. A \in SUBSET (1 .. n) /\ n + 1 \notin A
  OBVIOUS
<1>3. IsFiniteSet(A)
  BY <1>1, <1>2, FS_Subset
<1>4. Cardinality(A) \in Nat
  BY <1>3, FS_CardinalityType
<1>5. CASE s[n + 1].type = "plain"
  <2>1. B = A \cup {n + 1}
    BY <1>5
  <2>2. Cardinality(B) = Cardinality(A) + 1
    BY <1>2, <1>3, <2>1, FS_AddElement
  <2> QED BY <1>5, <2>2 DEF PlainsIn, One
<1>6. CASE s[n + 1].type # "plain"
  <2>1. B = A
    BY <1>6
  <2> QED BY <1>4, <1>6, <2>1 DEF PlainsIn, One
<1> QED BY <1>5, <1>6

LEMMA PlainsMonotone ==
  ASSUME NEW s, NEW m \in Nat, NEW n \in Nat, m <= n
  PROVE  PlainsIn(s, m) <= PlainsIn(s, n)
<1> DEFINE A == {k \in 1 .. m : s[k].type = "plain"}
           B == {k \in 1 .. n : s[k].type = "plain"}
<1>1. IsFiniteSet(1 .. n) /\ B \in SUBSET (1 .. n) /\ A \in SUBSET B
  BY FS_Interval
<1>2. IsFiniteSet(B)
  BY <1>1, FS_Subset
<1> HIDE DEF A, B
<1>3. Cardinality(A) <= Cardinality(B)
  BY <1>1, <1>2, FS_Subset
<1> QED BY <1>3 DEF A, B, PlainsIn

\* Only the messages that are counted matter.
LEMMA PlainsSame ==
  ASSUME NEW s, NEW t, NEW n \in Nat, \A k \in 1 .. n : s[k] = t[k]
  PROVE  PlainsIn(s, n) = PlainsIn(t, n)
<1>1. {k \in 1 .. n : s[k].type = "plain"} = {k \in 1 .. n : t[k].type = "plain"}
  OBVIOUS
<1> QED BY <1>1 DEF PlainsIn

\* A message is sent.
LEMMA AppendFacts ==
  ASSUME NEW s, IsSeq(s), NEW m
  PROVE  /\ IsSeq(Append(s, m)) /\ Len(Append(s, m)) = Len(s) + 1
         /\ \A i \in 1 .. Len(s) : Append(s, m)[i] = s[i]
         /\ Append(s, m)[Len(s) + 1] = m
         /\ Elems(Append(s, m)) = Elems(s) \cup {m}
         /\ \A n \in 0 .. Len(s) : PlainsIn(Append(s, m), n) = PlainsIn(s, n)
<1> DEFINE t == Append(s, m)
           S == Elems(s) \cup {m}
<1>1. s \in Seq(S) /\ Len(s) \in Nat /\ DOMAIN s = 1 .. Len(s)
  BY SeqIs
<1>2. /\ t \in Seq(S) /\ Len(t) = Len(s) + 1
      /\ \A i \in 1 .. Len(s) : t[i] = s[i]
      /\ t[Len(s) + 1] = m
  <2>1. m \in S
    OBVIOUS
  <2> HIDE DEF S
  <2> QED BY <1>1, <2>1
<1> HIDE DEF t
<1>3. IsSeq(t)
  BY <1>1, <1>2 DEF IsSeq
<1>4. Elems(t) = S
  <2>1. \A i \in 1 .. Len(s) + 1 : i = Len(s) + 1 \/ i \in 1 .. Len(s)
    BY <1>1
  <2>2. Elems(t) \subseteq S
    BY <1>1, <1>2, <2>1 DEF Elems
  <2>3. S \subseteq Elems(t)
    BY <1>1, <1>2 DEF Elems
  <2> QED BY <2>2, <2>3
<1>5. \A n \in 0 .. Len(s) : PlainsIn(t, n) = PlainsIn(s, n)
  <2> SUFFICES ASSUME NEW n \in 0 .. Len(s) PROVE PlainsIn(t, n) = PlainsIn(s, n)
    OBVIOUS
  <2>1. n \in Nat /\ \A k \in 1 .. n : t[k] = s[k]
    BY <1>1, <1>2
  <2> QED BY <2>1, PlainsSame
<1> QED BY <1>2, <1>3, <1>4, <1>5 DEF t

LEMMA AppendPlains ==
  ASSUME NEW s, IsSeq(s), NEW m
  PROVE  Plains(Append(s, m)) = Plains(s) + IF m.type = "plain" THEN 1 ELSE 0
<1> DEFINE t == Append(s, m)
<1>1. /\ Len(t) = Len(s) + 1 /\ t[Len(s) + 1] = m /\ Len(s) \in Nat
      /\ PlainsIn(t, Len(s)) = PlainsIn(s, Len(s))
  <2>1. Len(s) \in Nat /\ Len(s) \in 0 .. Len(s)
    BY DEF IsSeq
  <2> QED BY <2>1, AppendFacts
<1>2. PlainsIn(t, Len(s) + 1) = PlainsIn(t, Len(s)) + One(t[Len(s) + 1].type = "plain")
  BY <1>1, PlainsNext
<1> HIDE DEF t
<1>3. Plains(t) = Plains(s) + IF m.type = "plain" THEN 1 ELSE 0
  BY <1>1, <1>2 DEF Plains, One
<1> QED BY <1>3 DEF t

\* The oldest message is taken.
LEMMA TailFacts ==
  ASSUME NEW s, IsSeq(s), s # <<>>
  PROVE  /\ Len(s) \in Nat /\ Len(s) >= 1
         /\ Head(s) = s[1] /\ Head(s) \in Elems(s)
         /\ IsSeq(Tail(s)) /\ Len(Tail(s)) = Len(s) - 1
         /\ \A i \in 1 .. Len(s) - 1 : Tail(s)[i] = s[i + 1]
         /\ Elems(Tail(s)) \subseteq Elems(s)
         /\ \A n \in 1 .. Len(s) : PlainsIn(Tail(s), n - 1) = PlainsIn(s, n) - One(Head(s).type = "plain")
         /\ Plains(Tail(s)) = Plains(s) - One(Head(s).type = "plain")
<1> DEFINE t == Tail(s)
           S == Elems(s)
<1>1. s \in Seq(S) /\ Len(s) \in Nat /\ DOMAIN s = 1 .. Len(s)
  BY SeqIs
<1>2. /\ Len(s) >= 1 /\ Head(s) = s[1] /\ t \in Seq(S) /\ Len(t) = Len(s) - 1
      /\ \A i \in 1 .. Len(s) - 1 : t[i] = s[i + 1]
  <2> HIDE DEF S
  <2> QED BY <1>1
<1>3. Head(s) \in S
  BY <1>1, <1>2 DEF Elems
<1> HIDE DEF t
<1>4. IsSeq(t)
  BY <1>1, <1>2 DEF IsSeq
<1>5. Elems(t) \subseteq S
  BY <1>1, <1>2 DEF Elems
<1>6. \A n \in 1 .. Len(s) : PlainsIn(t, n - 1) = PlainsIn(s, n) - One(Head(s).type = "plain")
  <2> DEFINE P(n) == PlainsIn(t, n - 1) = PlainsIn(s, n) - One(Head(s).type = "plain")
  <2>2. ASSUME NEW n \in 1 .. Len(s) PROVE P(n)
    <3> DEFINE A == {k \in 1 .. n - 1 : t[k].type = "plain"}
               B == {k \in 1 .. n : s[k].type = "plain"}
               C == B \ {1}
               f == [k \in A |-> k + 1]
    <3>1. n \in Nat /\ n - 1 \in Nat /\ \A k \in 1 .. n - 1 : t[k] = s[k + 1]
      BY <1>1, <1>2
    <3>2. A \in SUBSET (1 .. n - 1) /\ B \in SUBSET (1 .. n)
      OBVIOUS
    <3>3. IsFiniteSet(A) /\ IsFiniteSet(B)
      <4>1. IsFiniteSet(1 .. n - 1) /\ IsFiniteSet(1 .. n)
        BY <3>1, FS_Interval
      <4> HIDE DEF A, B
      <4> QED BY <4>1, <3>2, FS_Subset
    <3>4. f \in Bijection(A, C)
      <4>1. \A k \in A : k + 1 \in C
        BY <3>1
      <4>2. \A c \in C : c - 1 \in A /\ (c - 1) + 1 = c
        BY <3>1
      <4>3. f \in Injection(A, C)
        BY <4>1, <3>2 DEF Injection, IsInjective
      <4>4. f \in Surjection(A, C)
        BY <4>1, <4>2 DEF Surjection
      <4> QED BY <4>3, <4>4 DEF Bijection
    <3>5. Cardinality(C) = Cardinality(A)
      <4>1. ExistsBijection(A, C)
        BY <3>4 DEF ExistsBijection
      <4> QED BY <4>1, <3>3, FS_Bijection
    <3>6. Cardinality(C) = IF 1 \in B THEN Cardinality(B) - 1 ELSE Cardinality(B)
      BY <3>3, FS_RemoveElement
    <3>7. 1 \in B <=> Head(s).type = "plain"
      BY <1>2, <3>1
    <3>8. Cardinality(B) \in Nat
      BY <3>3, FS_CardinalityType
    <3> HIDE DEF A, B, C, f
    <3>9. Cardinality(A) = Cardinality(B) - One(Head(s).type = "plain")
      BY <3>5, <3>6, <3>7, <3>8 DEF One
    <3> QED BY <3>9 DEF A, B, PlainsIn
  <2> QED BY <2>2
<1>7. Plains(t) = Plains(s) - One(Head(s).type = "plain")
  <2>1. Len(s) \in 1 .. Len(s)
    BY <1>1, <1>2
  <2> QED BY <1>1, <1>2, <1>6, <2>1 DEF Plains
<1> QED BY <1>1, <1>2, <1>3, <1>4, <1>5, <1>6, <1>7 DEF t

-----------------------------------------------------------------------------
(* The maps from ranks to processes.                                       *)

\* A step keeps the holders, and every map its entries.
Grows ==
    /\ next_rank' \in Nat /\ next_rank <= next_rank' /\ by_host_port' = by_host_port
    /\ \A r \in Handed : Holder(r)' = Holder(r)
    /\ \A p \in Procs : /\ DOMAIN endpoint[p] \subseteq DOMAIN endpoint'[p]
                        /\ DOMAIN address[p] \subseteq DOMAIN address'[p]
                        /\ rank[p] # -1 => rank'[p] = rank[p]

\* No rank is handed to process p in this step.
NoNew(p) == \A r \in Handed' : Holder(r)' = p => r \in Handed

LEMMA HandedGrows ==
  ASSUME MapTypes, Grows
  PROVE  \A r \in Handed : r \in Handed' /\ r \in Nat
BY DEF MapTypes, Grows, Handed

LEMMA AgreesStays ==
  ASSUME MapTypes, Grows, NEW map, Agrees(map)
  PROVE  Agrees(map)'
<1>1. \A r \in DOMAIN map : r # -1 => r \in Handed /\ map[r] = Holder(r)
  BY DEF Agrees
<1>2. \A r \in Handed : r \in Handed' /\ Holder(r)' = Holder(r)
  BY HandedGrows DEF Grows
<1>3. \A r \in DOMAIN map : r # -1 => r \in Handed' /\ map[r] = Holder(r)'
  BY <1>1, <1>2
<1> QED BY <1>3 DEF Agrees

LEMMA KnownStays ==
  ASSUME MapTypes, Grows, NEW p
  PROVE  Known(p) => Known(p)'
<1>1. \A r \in Handed : r \in Handed' /\ Holder(r)' = Holder(r)
  BY HandedGrows DEF Grows
<1> QED BY <1>1 DEF Known

LEMMA KnownSame ==
  ASSUME MapTypes, Grows, NEW p, NoNew(p)
  PROVE  Known(p)' <=> Known(p)
<1>1. Known(p)' => Known(p)
  <2>1. \A r \in Handed' : Holder(r)' = p => r \in Handed /\ Holder(r) = p
    BY DEF NoNew, Grows
  <2> QED BY <2>1 DEF Known
<1> QED BY <1>1, KnownStays

\* What a message says stays true.
LEMMA MessagesStay ==
  ASSUME MapTypes, Grows, NEW p, NEW m
  PROVE  (UpMsg(p, m) => UpMsg(p, m)') /\ (DownMsg(p, m) => DownMsg(p, m)')
<1>1. \A r \in Handed : r \in Handed' /\ Holder(r)' = Holder(r)
  BY HandedGrows DEF Grows
<1>2. UpMsg(p, m) => UpMsg(p, m)'
  BY <1>1 DEF UpMsg, Grows
<1>3. DownMsg(p, m) => DownMsg(p, m)'
  <2>1. Agrees(m.addresses) => Agrees(m.addresses)'
    BY AgreesStays
  <2> QED BY <1>1, <2>1 DEF DownMsg
<1> QED BY <1>2, <1>3

MapUntouched == UNCHANGED <<rank, next_rank, endpoint, address, delayed_callbacks, by_host_port>>

\* Nothing changes in the maps.
LEMMA MapKept ==
  ASSUME MapTypes, MapInv, MapUntouched
  PROVE  MapTypes' /\ MapInv' /\ Grows /\ next_rank' = next_rank
<1>1. \A r : Holder(r)' = Holder(r)
  BY DEF MapUntouched, Holder
<1>2. Handed' = Handed
  BY DEF MapUntouched, Handed
<1>3. MapTypes'
  BY DEF MapTypes, MapUntouched
<1>4. MapInv'
  BY <1>1, <1>2 DEF MapInv, MapUntouched, Agrees
<1>5. Grows
  BY <1>1, <1>2 DEF Grows, MapUntouched, MapTypes
<1> QED BY <1>3, <1>4, <1>5 DEF MapUntouched

\* An endpoint for a rank that was handed out, to its holder.
LEMMA EndpointAdded ==
  ASSUME MapTypes, MapInv, NEW p \in Procs, NEW r \in Handed,
         endpoint' = [endpoint EXCEPT ![p] = Emplace(@, Entry(r, Holder(r)))],
         IsSeq(delayed_callbacks'), Elems(delayed_callbacks') \subseteq Elems(delayed_callbacks),
         UNCHANGED <<rank, next_rank, address, by_host_port>>
  PROVE  MapTypes' /\ MapInv' /\ Grows /\ next_rank' = next_rank /\ r \in DOMAIN endpoint'[p]
<1> DEFINE E == Emplace(endpoint[p], Entry(r, Holder(r)))
<1>1. /\ DOMAIN E = DOMAIN endpoint[p] \cup {r}
      /\ \A x \in DOMAIN E : E[x] = IF x \in DOMAIN endpoint[p] THEN endpoint[p][x] ELSE Holder(r)
  BY DEF Emplace, Entry
<1>2. /\ \A q \in Procs : endpoint'[q] = IF q = p THEN E ELSE endpoint[q]
      /\ endpoint' = [q \in Procs |-> endpoint'[q]]
  BY DEF MapTypes
<1> HIDE DEF E
<1>3. r \in Int /\ r # -1 /\ next_rank \in Nat
  BY DEF Handed, MapTypes
<1>4. Handed' = Handed
  BY DEF Handed
<1>5. \A x \in Handed : Holder(x)' = Holder(x)
  <2> SUFFICES ASSUME NEW x \in Handed PROVE Holder(x)' = Holder(x)
    OBVIOUS
  <2>1. CASE p # Root
    BY <1>2, <2>1, RootAssumption DEF Holder
  <2>2. CASE p = Root
    BY <1>1, <1>2, <2>2, RootAssumption DEF Holder
  <2> QED BY <2>1, <2>2
<1>6. MapTypes'
  BY <1>2 DEF MapTypes
<1>7. \A q \in Procs : Agrees(endpoint[q])' /\ Agrees(address[q])'
  <2> SUFFICES ASSUME NEW q \in Procs PROVE Agrees(endpoint[q])' /\ Agrees(address[q])'
    OBVIOUS
  <2>1. Agrees(endpoint[q]) /\ Agrees(address[q])
    BY DEF MapInv
  <2>2. Agrees(address[q])'
    BY <2>1, <1>4, <1>5 DEF Agrees
  <2>3. \A x \in DOMAIN endpoint'[q] : x # -1 => x \in Handed /\ endpoint'[q][x] = Holder(x)
    BY <2>1, <1>1, <1>2, <1>3 DEF Agrees
  <2> QED BY <2>2, <2>3, <1>4, <1>5 DEF Agrees
<1>8. \A x \in DOMAIN endpoint[Root] : x \in DOMAIN endpoint'[Root]
  BY <1>1, <1>2, RootAssumption
<1>9. -1 \notin DOMAIN endpoint'[Root]
  BY <1>1, <1>2, <1>3, RootAssumption DEF MapInv
<1>10. 0 \in Handed
  BY <1>3 DEF MapInv, Handed
<1>11. MapInv'
  <2>1. 0 \in DOMAIN endpoint'[Root] /\ Holder(0)' = Root /\ next_rank' > 0
    BY <1>5, <1>8, <1>10 DEF MapInv
  <2>2. \A x \in Handed' : Holder(x)' \in Procs
    BY <1>4, <1>5 DEF MapInv
  <2>3. \A x, y \in Handed' : Holder(x)' = Holder(y)' => x = y
    BY <1>4, <1>5 DEF MapInv
  <2>4. \A x \in Elems(delayed_callbacks') : x \in DOMAIN address'[Root] \ {0}
    BY DEF MapInv
  <2>5. \A x \in Handed' \ DOMAIN endpoint'[Root] : x \in DOMAIN address'[Root]
    BY <1>4, <1>8 DEF MapInv
  <2>6. \A q \in Procs : \A x \in Int \ {-1} : rank'[q] = x => x \in Handed' /\ Holder(x)' = q
    BY <1>4, <1>5 DEF MapInv
  <2> QED BY <2>1, <2>2, <2>3, <2>4, <2>5, <2>6, <1>4, <1>7, <1>9 DEF MapInv
<1>12. Grows
  BY <1>1, <1>2, <1>3, <1>5, <1>8 DEF Grows
<1> QED BY <1>1, <1>2, <1>6, <1>11, <1>12

\* Listener addresses of the holders of their ranks.
LEMMA AddressAdded ==
  ASSUME MapTypes, MapInv, NEW p \in Procs, NEW map, Agrees(map), -1 \notin DOMAIN map,
         address' = [address EXCEPT ![p] = Emplace(@, map)],
         UNCHANGED <<rank, next_rank, endpoint, delayed_callbacks, by_host_port>>
  PROVE  /\ MapTypes' /\ MapInv' /\ Grows /\ next_rank' = next_rank
         /\ DOMAIN address'[p] = DOMAIN address[p] \cup DOMAIN map
<1> DEFINE E == Emplace(address[p], map)
<1>1. /\ DOMAIN E = DOMAIN address[p] \cup DOMAIN map
      /\ \A x \in DOMAIN E : E[x] = IF x \in DOMAIN address[p] THEN address[p][x] ELSE map[x]
  BY DEF Emplace
<1>2. /\ \A q \in Procs : address'[q] = IF q = p THEN E ELSE address[q]
      /\ address' = [q \in Procs |-> address'[q]]
  BY DEF MapTypes
<1> HIDE DEF E
<1>3. next_rank \in Nat
  BY DEF MapTypes
<1>4. Handed' = Handed
  BY DEF Handed
<1>5. \A x \in Handed : Holder(x)' = Holder(x)
  <2> SUFFICES ASSUME NEW x \in Handed PROVE Holder(x)' = Holder(x)
    OBVIOUS
  <2>1. CASE x \in DOMAIN endpoint[Root]
    BY <2>1 DEF Holder
  <2>2. CASE x \notin DOMAIN endpoint[Root]
    <3>1. x \in DOMAIN address[Root]
      BY <2>2 DEF MapInv
    <3>2. address'[Root][x] = address[Root][x]
      BY <3>1, <1>1, <1>2, RootAssumption
    <3> QED BY <2>2, <3>2 DEF Holder
  <2> QED BY <2>1, <2>2
<1>6. MapTypes'
  BY <1>2 DEF MapTypes
<1>7. \A q \in Procs : Agrees(endpoint[q])' /\ Agrees(address[q])'
  <2> SUFFICES ASSUME NEW q \in Procs PROVE Agrees(endpoint[q])' /\ Agrees(address[q])'
    OBVIOUS
  <2>1. Agrees(endpoint[q]) /\ Agrees(address[q])
    BY DEF MapInv
  <2>2. Agrees(endpoint[q])'
    BY <2>1, <1>4, <1>5 DEF Agrees
  <2>3. \A x \in DOMAIN address'[q] : x # -1 => x \in Handed /\ address'[q][x] = Holder(x)
    BY <2>1, <1>1, <1>2 DEF Agrees
  <2> QED BY <2>2, <2>3, <1>4, <1>5 DEF Agrees
<1>8. \A x \in DOMAIN address[Root] : x \in DOMAIN address'[Root]
  BY <1>1, <1>2, RootAssumption
<1>9. -1 \notin DOMAIN address'[Root]
  BY <1>1, <1>2, RootAssumption DEF MapInv
<1>10. 0 \in Handed
  BY <1>3 DEF MapInv, Handed
<1>11. MapInv'
  <2>1. 0 \in DOMAIN endpoint'[Root] /\ Holder(0)' = Root /\ next_rank' > 0
    BY <1>5, <1>10 DEF MapInv
  <2>2. \A x \in Handed' : Holder(x)' \in Procs
    BY <1>4, <1>5 DEF MapInv
  <2>3. \A x, y \in Handed' : Holder(x)' = Holder(y)' => x = y
    BY <1>4, <1>5 DEF MapInv
  <2>4. \A x \in Elems(delayed_callbacks') : x \in DOMAIN address'[Root] \ {0}
    BY <1>8 DEF MapInv
  <2>5. \A x \in Handed' \ DOMAIN endpoint'[Root] : x \in DOMAIN address'[Root]
    BY <1>4, <1>8 DEF MapInv
  <2>6. \A q \in Procs : \A x \in Int \ {-1} : rank'[q] = x => x \in Handed' /\ Holder(x)' = q
    BY <1>4, <1>5 DEF MapInv
  <2>7. ~ by_host_port' => Handed' \subseteq DOMAIN address'[Root]
    BY <1>4, <1>8 DEF MapInv
  <2> QED BY <2>1, <2>2, <2>3, <2>4, <2>5, <2>6, <2>7, <1>4, <1>7, <1>8, <1>9 DEF MapInv
<1>12. Grows
  BY <1>1, <1>2, <1>3, <1>5, <1>8 DEF Grows
<1> QED BY <1>1, <1>2, <1>6, <1>11, <1>12

\* A process is told the rank it was handed.
LEMMA RankAssigned ==
  ASSUME MapTypes, MapInv, NEW q \in Procs, NEW r \in Handed, Holder(r) = q,
         rank' = [rank EXCEPT ![q] = r],
         UNCHANGED <<next_rank, endpoint, address, delayed_callbacks, by_host_port>>
  PROVE  MapTypes' /\ MapInv' /\ Grows /\ next_rank' = next_rank
<1>1. \A x : Holder(x)' = Holder(x)
  BY DEF Holder
<1>2. Handed' = Handed
  BY DEF Handed
<1>3. r \in Int /\ next_rank \in Nat
  BY DEF Handed, MapTypes
<1>4. rank' \in [Procs -> Int] /\ \A p \in Procs : rank'[p] = IF p = q THEN r ELSE rank[p]
  BY <1>3 DEF MapTypes
<1>5. rank[q] # -1 => rank[q] = r
  <2>1. rank[q] \in Int
    BY DEF MapTypes
  <2> QED BY <2>1 DEF MapInv
<1>6. MapTypes'
  BY <1>4 DEF MapTypes
<1>7. rank'[Root] = 0
  BY <1>4, <1>5, RootAssumption DEF MapInv
<1>8. \A p \in Procs : \A x \in Int \ {-1} : rank'[p] = x => x \in Handed' /\ Holder(x)' = p
  BY <1>1, <1>2, <1>4 DEF MapInv
<1>9. MapInv'
  BY <1>1, <1>2, <1>7, <1>8 DEF MapInv, Agrees
<1>10. Grows
  BY <1>1, <1>3, <1>4, <1>5 DEF Grows
<1> QED BY <1>6, <1>9, <1>10

\* The next rank is handed to a process that has none: the listener of the root creates the
\* endpoint, or a query leaves the address and a callback.
LEMMA RankHanded ==
  ASSUME MapTypes, MapInv, NEW p \in Procs, ~ Known(p), next_rank' = next_rank + 1,
         \/ /\ by_host_port
            /\ endpoint' = [endpoint EXCEPT ![Root] = Emplace(@, Entry(next_rank, p))]
            /\ UNCHANGED <<address, delayed_callbacks>>
         \/ /\ address' = [address EXCEPT ![Root] = Emplace(@, Entry(next_rank, p))]
            /\ delayed_callbacks' = Append(delayed_callbacks, next_rank)
            /\ UNCHANGED endpoint,
         UNCHANGED <<rank, by_host_port>>
  PROVE  /\ MapTypes' /\ MapInv' /\ Grows
         /\ next_rank \in Handed' /\ \A x : x = next_rank => Holder(x)' = p
         /\ \A q \in Procs \ {p} : NoNew(q)
<1>1. /\ next_rank \in Nat /\ next_rank > 0 /\ Handed' = Handed \cup {next_rank}
      /\ next_rank \notin Handed /\ Handed \subseteq Nat
  BY DEF MapTypes, MapInv, Handed
<1>2. \A q \in Procs : Agrees(endpoint[q]) /\ Agrees(address[q])
  BY DEF MapInv
<1>3. next_rank \notin DOMAIN endpoint[Root] /\ next_rank \notin DOMAIN address[Root]
  BY <1>1, <1>2, RootAssumption DEF Agrees
<1>4. /\ DOMAIN endpoint[Root] \subseteq DOMAIN endpoint'[Root]
      /\ DOMAIN address[Root] \subseteq DOMAIN address'[Root]
      /\ DOMAIN endpoint'[Root] \subseteq DOMAIN endpoint[Root] \cup {next_rank}
      /\ DOMAIN address'[Root] \subseteq DOMAIN address[Root] \cup {next_rank}
      /\ next_rank \in DOMAIN endpoint'[Root] \cup DOMAIN address'[Root]
      /\ ~ by_host_port => next_rank \in DOMAIN address'[Root]
      /\ next_rank \notin DOMAIN endpoint'[Root] => next_rank \in DOMAIN address'[Root]
      /\ \A x \in DOMAIN endpoint'[Root] :
            endpoint'[Root][x] = IF x = next_rank THEN p ELSE endpoint[Root][x]
      /\ \A x \in DOMAIN address'[Root] :
            address'[Root][x] = IF x = next_rank THEN p ELSE address[Root][x]
      /\ endpoint' = [q \in Procs |-> endpoint'[q]] /\ address' = [q \in Procs |-> address'[q]]
      /\ \A q \in Procs \ {Root} : endpoint'[q] = endpoint[q] /\ address'[q] = address[q]
  <2>1. CASE /\ by_host_port
             /\ endpoint' = [endpoint EXCEPT ![Root] = Emplace(@, Entry(next_rank, p))]
             /\ UNCHANGED <<address, delayed_callbacks>>
    <3> DEFINE E == Emplace(endpoint[Root], Entry(next_rank, p))
    <3>1. /\ DOMAIN E = DOMAIN endpoint[Root] \cup {next_rank}
          /\ \A x \in DOMAIN E : E[x] = IF x \in DOMAIN endpoint[Root] THEN endpoint[Root][x] ELSE p
      BY DEF Emplace, Entry
    <3>2. /\ endpoint'[Root] = E /\ \A q \in Procs \ {Root} : endpoint'[q] = endpoint[q]
          /\ endpoint' = [q \in Procs |-> endpoint'[q]]
      BY <2>1, RootAssumption DEF MapTypes
    <3> HIDE DEF E
    <3>3. \A x \in DOMAIN address[Root] : x # next_rank
      BY <1>3
    <3>4. address' = [q \in Procs |-> address'[q]]
      BY <2>1 DEF MapTypes
    <3> QED BY <2>1, <3>1, <3>2, <3>3, <3>4, <1>3
  <2>2. CASE /\ address' = [address EXCEPT ![Root] = Emplace(@, Entry(next_rank, p))]
             /\ UNCHANGED endpoint
    <3> DEFINE E == Emplace(address[Root], Entry(next_rank, p))
    <3>1. /\ DOMAIN E = DOMAIN address[Root] \cup {next_rank}
          /\ \A x \in DOMAIN E : E[x] = IF x \in DOMAIN address[Root] THEN address[Root][x] ELSE p
      BY DEF Emplace, Entry
    <3>2. /\ address'[Root] = E /\ \A q \in Procs \ {Root} : address'[q] = address[q]
          /\ address' = [q \in Procs |-> address'[q]]
      BY <2>2, RootAssumption DEF MapTypes
    <3> HIDE DEF E
    <3>3. \A x \in DOMAIN endpoint[Root] : x # next_rank
      BY <1>3
    <3>4. endpoint' = [q \in Procs |-> endpoint'[q]]
      BY <2>2 DEF MapTypes
    <3> QED BY <2>2, <3>1, <3>2, <3>3, <3>4, <1>3
  <2> QED BY <2>1, <2>2
<1>5. /\ IsSeq(delayed_callbacks')
      /\ \A x \in Elems(delayed_callbacks') : x \in DOMAIN address'[Root] \ {0}
  <2>1. IsSeq(delayed_callbacks) /\ \A x \in Elems(delayed_callbacks) : x \in DOMAIN address[Root] \ {0}
    BY DEF MapTypes, MapInv
  <2>2. CASE UNCHANGED delayed_callbacks
    BY <2>1, <2>2, <1>4
  <2>3. CASE /\ address' = [address EXCEPT ![Root] = Emplace(@, Entry(next_rank, p))]
             /\ delayed_callbacks' = Append(delayed_callbacks, next_rank)
    <3>1. IsSeq(delayed_callbacks') /\ Elems(delayed_callbacks') = Elems(delayed_callbacks) \cup {next_rank}
      BY <2>1, <2>3, AppendFacts
    <3>2. next_rank \in DOMAIN address'[Root]
      <4>1. DOMAIN Emplace(address[Root], Entry(next_rank, p)) = DOMAIN address[Root] \cup {next_rank}
        BY DEF Emplace, Entry
      <4>2. address'[Root] = Emplace(address[Root], Entry(next_rank, p))
        BY <2>3, RootAssumption DEF MapTypes
      <4> QED BY <4>1, <4>2
    <3> QED BY <3>1, <3>2, <2>1, <1>1, <1>4
  <2> QED BY <2>2, <2>3
<1>6. \A x \in Handed : Holder(x)' = Holder(x)
  <2> SUFFICES ASSUME NEW x \in Handed PROVE Holder(x)' = Holder(x)
    OBVIOUS
  <2>1. x # next_rank
    BY <1>1
  <2>2. x \in DOMAIN endpoint[Root] \/ x \in DOMAIN address[Root]
    BY DEF MapInv
  <2> QED BY <2>1, <2>2, <1>4 DEF Holder
<1>7. \A x : x = next_rank => Holder(x)' = p
  BY <1>4 DEF Holder
<1>8. MapTypes'
  BY <1>1, <1>4, <1>5 DEF MapTypes
<1>9. \A q \in Procs : Agrees(endpoint[q])' /\ Agrees(address[q])'
  <2> SUFFICES ASSUME NEW q \in Procs PROVE Agrees(endpoint[q])' /\ Agrees(address[q])'
    OBVIOUS
  <2>1. Agrees(endpoint[q]) /\ Agrees(address[q])
    BY <1>2
  <2>2. \A x \in Handed' : x = next_rank \/ (x \in Handed /\ x # next_rank)
    BY <1>1
  <2>3. CASE q # Root
    BY <2>1, <2>3, <1>1, <1>4, <1>6 DEF Agrees
  <2>4. CASE q = Root
    <3>1. ASSUME NEW x \in DOMAIN endpoint'[q], x # -1
          PROVE  x \in Handed' /\ endpoint'[q][x] = Holder(x)'
      <4>1. CASE x = next_rank
        BY <4>1, <3>1, <2>4, <1>1, <1>4, <1>7
      <4>2. CASE x # next_rank
        <5>1. x \in DOMAIN endpoint[q] /\ endpoint'[q][x] = endpoint[q][x]
          BY <4>2, <3>1, <2>4, <1>4
        <5>2. x \in Handed /\ endpoint[q][x] = Holder(x)
          BY <5>1, <3>1, <2>1 DEF Agrees
        <5> QED BY <5>1, <5>2, <1>1, <1>6
      <4> QED BY <4>1, <4>2
    <3>2. ASSUME NEW x \in DOMAIN address'[q], x # -1
          PROVE  x \in Handed' /\ address'[q][x] = Holder(x)'
      <4>1. CASE x = next_rank
        BY <4>1, <3>2, <2>4, <1>1, <1>4, <1>7
      <4>2. CASE x # next_rank
        <5>1. x \in DOMAIN address[q] /\ address'[q][x] = address[q][x]
          BY <4>2, <3>2, <2>4, <1>4
        <5>2. x \in Handed /\ address[q][x] = Holder(x)
          BY <5>1, <3>2, <2>1 DEF Agrees
        <5> QED BY <5>1, <5>2, <1>1, <1>6
      <4> QED BY <4>1, <4>2
    <3> QED BY <3>1, <3>2 DEF Agrees
  <2> QED BY <2>3, <2>4
<1>10. \A r \in Handed : Holder(r) \in Procs /\ Holder(r) # p
  BY DEF MapInv, Known
<1>11. 0 \in Handed
  BY <1>1 DEF Handed
<1>12. MapInv'
  <2>1. 0 \in DOMAIN endpoint'[Root] /\ Holder(0)' = Root /\ next_rank' > 0
    BY <1>1, <1>4, <1>6, <1>11 DEF MapInv
  <2>2. \A x \in Handed' : Holder(x)' \in Procs
    BY <1>1, <1>6, <1>7, <1>10
  <2>3. \A x, y \in Handed' : Holder(x)' = Holder(y)' => x = y
    <3>1. \A x, y \in Handed : Holder(x) = Holder(y) => x = y
      BY DEF MapInv
    <3> QED BY <3>1, <1>1, <1>6, <1>7, <1>10
  <2>4. -1 \notin DOMAIN endpoint'[Root] /\ -1 \notin DOMAIN address'[Root]
    BY <1>1, <1>4 DEF MapInv
  <2>5. \A x \in Handed' \ DOMAIN endpoint'[Root] : x \in DOMAIN address'[Root]
    BY <1>1, <1>4 DEF MapInv
  <2>6. \A q \in Procs : \A x \in Int \ {-1} : rank'[q] = x => x \in Handed' /\ Holder(x)' = q
    BY <1>1, <1>6 DEF MapInv
  <2>7. ~ by_host_port' => Handed' \subseteq DOMAIN address'[Root]
    BY <1>1, <1>4 DEF MapInv
  <2>8. 0 \in DOMAIN address'[Root] /\ rank'[Root] = 0
    BY <1>4 DEF MapInv
  <2> QED BY <2>1, <2>2, <2>3, <2>4, <2>5, <2>6, <2>7, <2>8, <1>5, <1>9 DEF MapInv
<1>13. Grows
  <2>1. \A q \in Procs : /\ DOMAIN endpoint[q] \subseteq DOMAIN endpoint'[q]
                         /\ DOMAIN address[q] \subseteq DOMAIN address'[q]
                         /\ rank[q] # -1 => rank'[q] = rank[q]
    BY <1>4
  <2> QED BY <2>1, <1>1, <1>6 DEF Grows
<1>14. \A q \in Procs \ {p} : NoNew(q)
  BY <1>1, <1>7 DEF NoNew
<1> QED BY <1>1, <1>7, <1>8, <1>12, <1>13, <1>14

-----------------------------------------------------------------------------
(* The parts of the invariant that speak of one process.                   *)

Quiet(p) == am_wire'[p][Root] = am_wire[p][Root]
Calm(p) == am_wire'[Root][p] = am_wire[Root][p]

\* The wires between process p and the root become u and d, the others stay.
WiresOf(p, u, d) ==
    /\ am_wire' = [a \in Procs |-> [b \in Procs |-> am_wire'[a][b]]]
    /\ \A a, b \in Procs : am_wire'[a][b] = IF a = p /\ b = Root THEN u
                                          ELSE IF a = Root /\ b = p THEN d ELSE am_wire[a][b]
TrueUp(p, u) == \A m \in Elems(u) : m \in Elems(am_wire[p][Root]) \/ UpMsg(p, m)'
TrueDown(p, d) == \A m \in Elems(d) : m \in Elems(am_wire[Root][p]) \/ DownMsg(p, m)'

LEMMA WiresStep ==
  ASSUME MapTypes, WireTypes, WiresInv, Grows, NEW p \in Others, NEW u, NEW d,
         WiresOf(p, u, d), IsSeq(u), IsSeq(d), TrueUp(p, u), TrueDown(p, d)
  PROVE  /\ WireTypes' /\ WiresInv'
         /\ am_wire'[p][Root] = u /\ am_wire'[Root][p] = d
         /\ \A q \in Others \ {p} : Quiet(q) /\ Calm(q)
<1>1. p \in Procs /\ p # Root /\ Root \in Procs
  BY RootAssumption DEF Others
<1>2. am_wire'[p][Root] = u /\ am_wire'[Root][p] = d
  BY <1>1 DEF WiresOf
<1>3. \A q \in Procs \ {p, Root} : am_wire'[q][Root] = am_wire[q][Root] /\ am_wire'[Root][q] = am_wire[Root][q]
  BY <1>1 DEF WiresOf
<1>4. \A a, b \in Procs : (a = Root) = (b = Root) => am_wire'[a][b] = am_wire[a][b]
  BY <1>1 DEF WiresOf
<1>5. WireTypes'
  <2>1. \A a, b \in Procs : IsSeq(am_wire'[a][b])
    BY DEF WiresOf, WireTypes
  <2> QED BY <2>1 DEF WireTypes, WiresOf
<1>6. WiresInv'
  <2>1. \A a, b \in Procs : (a = Root) = (b = Root) => am_wire'[a][b] = <<>>
    BY <1>4 DEF WiresInv
  <2>2. ASSUME NEW a \in Procs, NEW m \in Elems(am_wire'[a][Root]) PROVE UpMsg(a, m)'
    <3>1. m \in Elems(am_wire[a][Root]) \/ UpMsg(a, m)'
      <4>1. CASE a = p
        BY <4>1, <2>2, <1>2 DEF TrueUp
      <4>2. CASE a # p
        BY <4>2, <2>2, <1>1, <1>3, <1>4
      <4> QED BY <4>1, <4>2
    <3>2. m \in Elems(am_wire[a][Root]) => UpMsg(a, m)
      BY <2>2 DEF WiresInv
    <3> QED BY <3>1, <3>2, MessagesStay
  <2>3. ASSUME NEW a \in Procs, NEW m \in Elems(am_wire'[Root][a]) PROVE DownMsg(a, m)'
    <3>1. m \in Elems(am_wire[Root][a]) \/ DownMsg(a, m)'
      <4>1. CASE a = p
        BY <4>1, <2>3, <1>2 DEF TrueDown
      <4>2. CASE a # p
        BY <4>2, <2>3, <1>1, <1>3, <1>4
      <4> QED BY <4>1, <4>2
    <3>2. m \in Elems(am_wire[Root][a]) => DownMsg(a, m)
      BY <2>3 DEF WiresInv
    <3> QED BY <3>1, <3>2, MessagesStay
  <2> QED BY <2>1, <2>2, <2>3 DEF WiresInv
<1>7. \A q \in Others \ {p} : Quiet(q) /\ Calm(q)
  BY <1>3 DEF Quiet, Calm, Others
<1> QED BY <1>2, <1>5, <1>6, <1>7

\* No wire changes.
LEMMA WiresSame ==
  ASSUME MapTypes, WireTypes, WiresInv, Grows, am_wire' = am_wire
  PROVE  WireTypes' /\ WiresInv' /\ \A q \in Others : Quiet(q) /\ Calm(q)
<1>1. WireTypes'
  BY DEF WireTypes
<1>2. WiresInv'
  <2>1. \A a \in Procs : \A m \in Elems(am_wire[a][Root]) : UpMsg(a, m)'
    BY MessagesStay DEF WiresInv
  <2>2. \A a \in Procs : \A m \in Elems(am_wire[Root][a]) : DownMsg(a, m)'
    BY MessagesStay DEF WiresInv
  <2> QED BY <2>1, <2>2 DEF WiresInv
<1> QED BY <1>1, <1>2 DEF Quiet, Calm

LEMMA ProcSame ==
  ASSUME MapTypes, Grows, NEW p \in Procs, NoNew(p), ProcInv(p), Quiet(p), position'[p] = position[p]
  PROVE  ProcInv(p)'
<1>1. Known(p)' <=> Known(p)
  BY KnownSame
<1>2. /\ DOMAIN endpoint[p] \subseteq DOMAIN endpoint'[p]
      /\ rank[p] # -1 => rank'[p] = rank[p]
  BY DEF Grows
<1> QED BY <1>1, <1>2 DEF ProcInv, Quiet

LEMMA RegisteredStays ==
  ASSUME MapTypes, Grows, NEW p \in Procs, NoNew(p), Registered(p)
  PROVE  Registered(p)'
<1>1. DOMAIN address[Root] \subseteq DOMAIN address'[Root]
  BY RootAssumption DEF Grows
<1>2. \A r \in Handed' : Holder(r)' = p => r \in Handed /\ Holder(r) = p
  BY DEF NoNew, Grows
<1> QED BY <1>1, <1>2 DEF Registered

LEMMA RegisterSame ==
  ASSUME MapTypes, Grows, NEW p \in Procs, NoNew(p), RegisterInv(p), Quiet(p),
         position'[p] \in Past => position[p] \in Past,
         am_pool'[Root][p] = am_pool[Root][p], rounds_left'[Root] = rounds_left[Root]
  PROVE  RegisterInv(p)'
<1>1. Registered(p) => Registered(p)'
  BY RegisteredStays
<1>2. RegisterComes(p)' <=> RegisterComes(p)
  BY DEF RegisterComes, Quiet
<1> QED BY <1>1, <1>2 DEF RegisterInv

\* A process sends to the root.
LEMMA RegisterAppend ==
  ASSUME MapTypes, WireTypes, Grows, NEW p \in Procs, NoNew(p), RegisterInv(p), NEW m,
         am_wire'[p][Root] = Append(am_wire[p][Root], m),
         position'[p] \in Past => position[p] \in Past,
         am_pool'[Root][p] = am_pool[Root][p], rounds_left'[Root] = rounds_left[Root]
  PROVE  RegisterInv(p)'
<1>1. Registered(p) => Registered(p)'
  BY RegisteredStays
<1>2. RegisterComes(p) => RegisterComes(p)'
  <2> SUFFICES ASSUME RegisterComes(p) PROVE RegisterComes(p)'
    OBVIOUS
  <2> DEFINE s == am_wire[p][Root]
             t == Append(s, m)
  <2>1. IsSeq(s)
    BY RootAssumption DEF WireTypes
  <2>2. PICK i \in 1 .. Len(s) : s[i].type = "RegisterListenerAddress" /\ PlainsIn(s, i) = 0
    BY DEF RegisterComes
  <2>3. Len(s) \in Nat
    BY <2>1 DEF IsSeq
  <2>4. /\ Len(t) = Len(s) + 1 /\ \A k \in 1 .. Len(s) : t[k] = s[k]
        /\ \A n \in 0 .. Len(s) : PlainsIn(t, n) = PlainsIn(s, n)
    BY <2>1, AppendFacts
  <2>5. i \in 1 .. Len(t) /\ i \in 0 .. Len(s)
    BY <2>3, <2>4
  <2>6. t[i].type = "RegisterListenerAddress" /\ PlainsIn(t, i) = 0
    BY <2>2, <2>4, <2>5
  <2> HIDE DEF t, s
  <2>7. am_wire'[p][Root] = t
    BY DEF t, s
  <2> QED BY <2>5, <2>6, <2>7 DEF RegisterComes
<1> QED BY <1>1, <1>2 DEF RegisterInv

LEMMA InformedStays ==
  ASSUME Grows, NEW p \in Procs, Informed(p)
  PROVE  Informed(p)'
BY DEF Informed, Grows

LEMMA InformedSame ==
  ASSUME Grows, NEW p \in Procs, InformedInv(p), Calm(p),
         rounds_left'[Root] = rounds_left[Root], rounds_left'[p] = rounds_left[p],
         (position'[p] = "released") <=> (position[p] = "released"), am_pool'[p][Root] = am_pool[p][Root]
  PROVE  InformedInv(p)'
<1>1. Informed(p) => Informed(p)'
  BY InformedStays
<1>2. AddressesCome(p) => AddressesCome(p)'
  BY DEF AddressesCome, Calm, One
<1> QED BY <1>1, <1>2 DEF InformedInv

\* The root sends to a process.
LEMMA InformedAppend ==
  ASSUME WireTypes, Grows, NEW p \in Procs, InformedInv(p), NEW m,
         am_wire'[Root][p] = Append(am_wire[Root][p], m),
         rounds_left'[Root] = rounds_left[Root] \/ rounds_left[Root] > 0,
         rounds_left'[p] = rounds_left[p],
         (position'[p] = "released") <=> (position[p] = "released"), am_pool'[p][Root] = am_pool[p][Root]
  PROVE  InformedInv(p)'
<1>1. Informed(p) => Informed(p)'
  BY InformedStays
<1>2. AddressesCome(p) => AddressesCome(p)'
  <2> SUFFICES ASSUME AddressesCome(p) PROVE AddressesCome(p)'
    OBVIOUS
  <2> DEFINE s == am_wire[Root][p]
             t == Append(s, m)
             rest == am_pool[p][Root] + One(position[p] = "released")
  <2>1. IsSeq(s)
    BY RootAssumption DEF WireTypes
  <2>2. PICK i \in 1 .. Len(s) :
           /\ s[i].type = "DistributeListenerAddresses"
           /\ PlainsIn(s, i) + am_pool[p][Root] + One(position[p] = "released") = 1
    BY DEF AddressesCome
  <2>3. Len(s) \in Nat
    BY <2>1 DEF IsSeq
  <2>4. /\ Len(t) = Len(s) + 1 /\ \A k \in 1 .. Len(s) : t[k] = s[k]
        /\ \A n \in 0 .. Len(s) : PlainsIn(t, n) = PlainsIn(s, n)
    BY <2>1, AppendFacts
  <2>5. i \in 1 .. Len(t) /\ i \in 0 .. Len(s)
    BY <2>3, <2>4
  <2>6. t[i].type = "DistributeListenerAddresses" /\ PlainsIn(t, i) = PlainsIn(s, i)
    BY <2>2, <2>4, <2>5
  <2> HIDE DEF t, s
  <2>7. am_wire'[Root][p] = t
    BY DEF t, s
  <2> QED BY <2>2, <2>5, <2>6, <2>7 DEF AddressesCome, One
<1> QED BY <1>1, <1>2 DEF InformedInv

\* A process takes a message of the root that does not tell it the addresses.
LEMMA InformedTail ==
  ASSUME WireTypes, RoundTypes, Grows, NEW p \in Procs, InformedInv(p), am_wire[Root][p] # <<>>,
         Head(am_wire[Root][p]).type # "DistributeListenerAddresses",
         am_wire'[Root][p] = Tail(am_wire[Root][p]),
         rounds_left'[Root] = rounds_left[Root], rounds_left'[p] = rounds_left[p],
         position'[p] = position[p],
         am_pool'[p][Root] = am_pool[p][Root] + One(Head(am_wire[Root][p]).type = "plain")
  PROVE  InformedInv(p)'
<1>1. Informed(p) => Informed(p)'
  BY InformedStays
<1>2. AddressesCome(p) => AddressesCome(p)'
  <2> SUFFICES ASSUME AddressesCome(p) PROVE AddressesCome(p)'
    OBVIOUS
  <2> DEFINE s == am_wire[Root][p]
             t == Tail(s)
  <2>1. IsSeq(s)
    BY RootAssumption DEF WireTypes
  <2>2. PICK i \in 1 .. Len(s) :
           /\ s[i].type = "DistributeListenerAddresses"
           /\ PlainsIn(s, i) + am_pool[p][Root] + One(position[p] = "released") = 1
    BY DEF AddressesCome
  <2>4. /\ Len(s) \in Nat /\ Head(s) = s[1] /\ Len(t) = Len(s) - 1
        /\ \A k \in 1 .. Len(s) - 1 : t[k] = s[k + 1]
        /\ \A n \in 1 .. Len(s) : PlainsIn(t, n - 1) = PlainsIn(s, n) - One(Head(s).type = "plain")
    BY <2>1, TailFacts
  <2>5. i # 1
    BY <2>2, <2>4
  <2>6. i - 1 \in 1 .. Len(t) /\ (i - 1) + 1 = i /\ i \in Nat
    BY <2>4, <2>5
  <2>7. t[i - 1] = s[i]
    BY <2>4, <2>6
  <2>8. PlainsIn(t, i - 1) = PlainsIn(s, i) - One(Head(s).type = "plain")
    BY <2>4
  <2>9. PlainsIn(s, i) \in Nat /\ am_pool[p][Root] \in Int
    BY <2>6, PlainsType, RootAssumption DEF RoundTypes
  <2>10. PlainsIn(t, i - 1) + am_pool'[p][Root] + One(position'[p] = "released") = 1
    BY <2>2, <2>8, <2>9 DEF One
  <2>11. am_wire'[Root][p] = t
    OBVIOUS
  <2> HIDE DEF t, s
  <2> QED BY <2>2, <2>6, <2>7, <2>10, <2>11 DEF AddressesCome
<1> QED BY <1>1, <1>2 DEF InformedInv

\* Nothing of the barrier changes for a process.
RoundUntouched(p) ==
    /\ am_pool'[p][Root] = am_pool[p][Root] /\ am_pool'[Root][p] = am_pool[Root][p]
    /\ position'[p] = position[p] /\ rounds_entered'[p] = rounds_entered[p]
    /\ rounds_left'[p] = rounds_left[p] /\ rounds_left'[Root] = rounds_left[Root]
    /\ (position'[Root] = "reported") <=> (position[Root] = "reported")

LEMMA RoundSame ==
  ASSUME NEW p \in Procs, RoundInv(p), RoundUntouched(p),
         Plains(am_wire'[Root][p]) = Plains(am_wire[Root][p]),
         Plains(am_wire'[p][Root]) = Plains(am_wire[p][Root])
  PROVE  RoundInv(p)'
BY DEF RoundInv, RoundUntouched, One

LEMMA ProcessKept ==
  ASSUME MapTypes, Grows, NEW p \in Procs, NoNew(p), ForProcess(p),
         Quiet(p), Calm(p), RoundUntouched(p)
  PROVE  ForProcess(p)'
<1>1. ProcInv(p)'
  BY ProcSame DEF ForProcess, RoundUntouched
<1>2. RoundInv(p)'
  BY RoundSame DEF ForProcess, Quiet, Calm
<1>3. RegisterInv(p)'
  BY RegisterSame DEF ForProcess, RoundUntouched
<1>4. InformedInv(p)'
  BY InformedSame DEF ForProcess, RoundUntouched
<1> QED BY <1>1, <1>2, <1>3, <1>4 DEF ForProcess

LEMMA NothingNew ==
  ASSUME MapTypes, next_rank' = next_rank, NEW p
  PROVE  NoNew(p)
BY DEF NoNew, Handed

\* A process that has a rank is known.
LEMMA RankedIsKnown ==
  ASSUME MapTypes, MapInv, NEW p \in Procs, rank[p] # -1
  PROVE  Known(p) /\ rank[p] \in Handed /\ Holder(rank[p]) = p
<1>1. rank[p] \in Int \ {-1}
  BY DEF MapTypes
<1>2. rank[p] \in Handed /\ Holder(rank[p]) = p
  BY <1>1 DEF MapInv
<1> QED BY <1>2 DEF Known

LEMMA RootKept ==
  ASSUME MapTypes, MapInv', RootInv, Grows,
         next_rank' = next_rank \/ \E p \in Procs : ~ Known(p),
         rounds_left'[Root] = rounds_left[Root],
         position'[Root] = position[Root], rounds_entered'[Root] = rounds_entered[Root],
         UNCHANGED distributed
  PROVE  RootInv'
<1>1. CASE ~ (position[Root] = "reported" \/ rounds_left[Root] > 0)
  BY <1>1 DEF RootInv
<1>2. CASE position[Root] = "reported" \/ rounds_left[Root] > 0
  <2>1. DOMAIN endpoint[Root] = World /\ next_rank = WorldSize /\ \A p \in Procs : Known(p)
    BY <1>2 DEF RootInv
  <2>2. next_rank' = WorldSize /\ Handed' = World
    BY <2>1 DEF Handed, World
  <2>3. \A p \in Procs : Known(p)'
    BY <2>1, KnownStays
  <2>4. World \subseteq DOMAIN endpoint'[Root]
    BY <2>1, RootAssumption DEF Grows
  <2>5. Agrees(endpoint[Root])' /\ -1 \notin DOMAIN endpoint'[Root]
    BY RootAssumption DEF MapInv
  <2>6. DOMAIN endpoint'[Root] \subseteq World
    BY <2>2, <2>5 DEF Agrees
  <2>7. DOMAIN address[Root] \subseteq DOMAIN address'[Root]
    BY RootAssumption DEF Grows
  <2> QED BY <2>2, <2>3, <2>4, <2>6, <2>7 DEF RootInv
<1> QED BY <1>1, <1>2

-----------------------------------------------------------------------------
(* The steps.                                                              *)

\* Only processes other than the root are in these places.
LEMMA NotTheRoot ==
  ASSUME UcxxInv, NEW p \in Procs, position[p] \in {"start", "get_rank", "called", "released"}
  PROVE  p \in Others /\ p # Root /\ ForProcess(p)
<1>1. p # Root
  BY DEF UcxxInv, RootInv
<1> QED BY <1>1 DEF UcxxInv, Others

\* The root has completed no barrier, and called nobody, before it knows everyone.
LEMMA UnknownIsEarly ==
  ASSUME UcxxInv, NEW p \in Procs, ~ Known(p)
  PROVE  rounds_left[Root] = 0 /\ position[Root] # "reported"
<1>1. rounds_left[Root] \in Nat
  BY RootAssumption DEF UcxxInv, RoundTypes
<1>2. position[Root] = "reported" \/ rounds_left[Root] > 0 => \A q \in Procs : Known(q)
  BY DEF UcxxInv, RootInv
<1> QED BY <1>1, <1>2

\* What the invariant says of the numbers of a process.
LEMMA Numbers ==
  ASSUME UcxxInv, NEW p \in Others
  PROVE  /\ p \in Procs /\ p # Root /\ Root \in Procs /\ ForProcess(p)
         /\ rounds_left[Root] \in Nat /\ rounds_left[p] \in Nat
         /\ rounds_entered[Root] \in Nat /\ rounds_entered[p] \in Nat
         /\ am_pool[Root][p] \in Nat /\ am_pool[p][Root] \in Nat
         /\ IsSeq(am_wire[p][Root]) /\ IsSeq(am_wire[Root][p])
         /\ Len(am_wire[p][Root]) \in Nat /\ Len(am_wire[Root][p]) \in Nat
         /\ Plains(am_wire[p][Root]) \in Nat /\ Plains(am_wire[Root][p]) \in Nat
<1>1. p \in Procs /\ p # Root /\ Root \in Procs /\ ForProcess(p)
  BY RootAssumption DEF Others, UcxxInv
<1>2. /\ rounds_left[Root] \in Nat /\ rounds_left[p] \in Nat
      /\ rounds_entered[Root] \in Nat /\ rounds_entered[p] \in Nat
      /\ am_pool[Root][p] \in Int /\ am_pool[p][Root] \in Int
  BY <1>1 DEF UcxxInv, RoundTypes
<1>3. am_pool[Root][p] >= 0 /\ am_pool[p][Root] >= 0
  BY <1>1 DEF ForProcess, RoundInv
<1>4. /\ IsSeq(am_wire[p][Root]) /\ IsSeq(am_wire[Root][p])
      /\ Len(am_wire[p][Root]) \in Nat /\ Len(am_wire[Root][p]) \in Nat
  BY <1>1 DEF UcxxInv, WireTypes, IsSeq
<1>5. Plains(am_wire[p][Root]) \in Nat /\ Plains(am_wire[Root][p]) \in Nat
  BY <1>4, PlainsType DEF Plains
<1> QED BY <1>1, <1>2, <1>3, <1>4, <1>5

\* A process that has not finished its init() has reported nothing, and the root is still
\* in its first barrier.
LEMMA NothingReported ==
  ASSUME UcxxInv, NEW p \in Others, position[p] \in {"start", "get_rank"}
  PROVE  /\ rounds_left[Root] = 0 /\ rounds_left[p] = 0 /\ am_pool[Root][p] = 0
         /\ Plains(am_wire[p][Root]) = 0
<1>1. /\ position[p] \in {"start", "get_rank"} => rounds_entered[p] = 0
      /\ rounds_entered[p] = rounds_left[p] + One(position[p] \in {"called", "released"})
      /\ Plains(am_wire[p][Root]) + am_pool[Root][p]
            = rounds_left[p] + One(position[p] = "released") - rounds_left[Root]
  BY Numbers DEF ForProcess, RoundInv
<1>2. rounds_left[p] = 0
  BY <1>1, Numbers DEF One
<1>3. Plains(am_wire[p][Root]) + am_pool[Root][p] = 0 - rounds_left[Root]
  BY <1>1, <1>2, Numbers DEF One
<1> QED BY <1>2, <1>3, Numbers

\* A message that is sent, one that is taken, and a wire that stays.
LEMMA Sending ==
  ASSUME WireTypes, NEW p \in Others, NEW m
  PROVE  /\ UpMsg(p, m)' => TrueUp(p, Append(am_wire[p][Root], m))
         /\ DownMsg(p, m)' => TrueDown(p, Append(am_wire[Root][p], m))
         /\ TrueUp(p, am_wire[p][Root]) /\ TrueDown(p, am_wire[Root][p])
<1>1. IsSeq(am_wire[p][Root]) /\ IsSeq(am_wire[Root][p])
  BY RootAssumption DEF WireTypes, Others
<1>2. /\ Elems(Append(am_wire[p][Root], m)) = Elems(am_wire[p][Root]) \cup {m}
      /\ Elems(Append(am_wire[Root][p], m)) = Elems(am_wire[Root][p]) \cup {m}
  BY <1>1, AppendFacts
<1> QED BY <1>2 DEF TrueUp, TrueDown

LEMMA Taking ==
  ASSUME WireTypes, NEW p \in Others
  PROVE  /\ am_wire[p][Root] # <<>> => TrueUp(p, Tail(am_wire[p][Root]))
         /\ am_wire[Root][p] # <<>> => TrueDown(p, Tail(am_wire[Root][p]))
<1>1. IsSeq(am_wire[p][Root]) /\ IsSeq(am_wire[Root][p])
  BY RootAssumption DEF WireTypes, Others
<1> QED BY <1>1, TailFacts DEF TrueUp, TrueDown

LEMMA ConnectKeeps ==
  ASSUME UcxxInv, NEW p \in Procs, connect_to_root(p)
  PROVE  UcxxInv'
<1>1. p \in Others /\ p # Root /\ ForProcess(p) /\ Root \in Procs /\ position[p] = "start"
  BY NotTheRoot, RootAssumption DEF connect_to_root
<1>2. MapTypes /\ MapInv /\ RoundTypes /\ WireTypes /\ WiresInv /\ RootInv
  BY DEF UcxxInv
<1>3. ~ Known(p) /\ am_wire[p][Root] = <<>>
  BY <1>1 DEF ForProcess, ProcInv
<1>4. /\ MapTypes' /\ MapInv' /\ Grows /\ next_rank' = next_rank
  <2>1. 0 \in Handed /\ Holder(0) = Root
    BY <1>2 DEF MapInv, MapTypes, Handed
  <2>2. endpoint' = [endpoint EXCEPT ![p] = Emplace(@, Entry(0, Holder(0)))]
    BY <2>1 DEF connect_to_root
  <2>3. UNCHANGED <<rank, next_rank, address, by_host_port, delayed_callbacks>>
    BY DEF connect_to_root, options
  <2>4. IsSeq(delayed_callbacks') /\ Elems(delayed_callbacks') \subseteq Elems(delayed_callbacks)
    BY <2>3, <1>2 DEF MapTypes
  <2> QED BY <1>2, <2>1, <2>2, <2>3, <2>4, EndpointAdded
<1>5. PICK m : m = [type |-> IF by_host_port THEN "ConnectionRequest" ELSE "QueryRank"]
  OBVIOUS
<1>6. m.type \in Request /\ m.type # "plain" /\ UpMsg(p, m)'
  BY <1>4, <1>5 DEF Request, UpMsg, Grows
<1>7. PICK s : s = Append(am_wire[p][Root], m)
  OBVIOUS
<1>8. am_wire' = [am_wire EXCEPT ![p][Root] = s]
  BY <1>5, <1>7 DEF connect_to_root, AmSend
<1>9. IsSeq(s) /\ Elems(s) = {m} /\ Len(s) = 1 /\ s[1] = m /\ Plains(s) = 0
  <2>1. IsSeq(am_wire[p][Root]) /\ Len(am_wire[p][Root]) = 0 /\ Elems(am_wire[p][Root]) = {}
        /\ Plains(am_wire[p][Root]) = 0
    BY <1>3, EmptyFacts
  <2>2. IsSeq(s) /\ Elems(s) = Elems(am_wire[p][Root]) \cup {m} /\ Len(s) = Len(am_wire[p][Root]) + 1
        /\ s[Len(am_wire[p][Root]) + 1] = m
    BY <1>7, <2>1, AppendFacts
  <2>3. Plains(s) = Plains(am_wire[p][Root]) + IF m.type = "plain" THEN 1 ELSE 0
    BY <1>7, <2>1, AppendPlains
  <2> QED BY <2>1, <2>2, <2>3, <1>6
<1>10. /\ WireTypes' /\ WiresInv'
       /\ am_wire'[p][Root] = s /\ am_wire'[Root][p] = am_wire[Root][p]
       /\ \A q \in Others \ {p} : Quiet(q) /\ Calm(q)
  <2>1. WiresOf(p, s, am_wire[Root][p])
    BY <1>1, <1>2, <1>8 DEF WiresOf, WireTypes
  <2>2. TrueUp(p, s) /\ TrueDown(p, am_wire[Root][p])
    BY <1>1, <1>2, <1>6, <1>7, Sending
  <2>3. IsSeq(am_wire[Root][p])
    BY <1>1, Numbers
  <2> QED BY <1>1, <1>2, <1>4, <1>9, <2>1, <2>2, <2>3, WiresStep
<1>11. /\ RoundTypes'
       /\ \A q \in Procs : position'[q] = IF q = p THEN "get_rank" ELSE position[q]
       /\ UNCHANGED <<distributed, am_pool, rounds_entered, rounds_left>>
  BY <1>2 DEF connect_to_root, RoundTypes, rounds
<1>12. RootInv'
  BY <1>1, <1>2, <1>4, <1>11, RootKept
<1>13. ASSUME NEW q \in Others PROVE ForProcess(q)'
  <2>1. q \in Procs /\ q # Root /\ NoNew(q) /\ ForProcess(q)
    BY <1>2, <1>4, NothingNew DEF Others, UcxxInv
  <2>2. CASE q # p
    <3>1. Quiet(q) /\ Calm(q) /\ RoundUntouched(q)
      BY <1>1, <1>10, <1>11, <2>1, <2>2 DEF RoundUntouched
    <3> QED BY <3>1, <2>1, <1>2, <1>4, ProcessKept
  <2>3. CASE q = p
    <3>1. position'[p] = "get_rank" /\ position'[Root] = position[Root]
      BY <1>1, <1>11
    <3>2. ~ Known(p)'
      BY <1>2, <1>3, <1>4, <2>1, <2>3, KnownSame
    <3>3. ProcInv(p)'
      BY <3>1, <3>2, <1>6, <1>9, <1>10 DEF ProcInv, Past
    <3>4. RoundInv(p)'
      <4>1. Plains(am_wire[p][Root]) = 0
        BY <1>3, EmptyFacts
      <4> QED BY <3>1, <4>1, <1>1, <1>9, <1>10, <1>11 DEF RoundInv, ForProcess, Past, One
    <3>5. RegisterInv(p)'
      BY <3>1 DEF RegisterInv, Past
    <3>6. InformedInv(p)'
      <4>1. rounds_left[Root] = 0
        BY <1>3, UnknownIsEarly
      <4> QED BY <4>1, <1>11 DEF InformedInv
    <3> QED BY <2>3, <3>3, <3>4, <3>5, <3>6 DEF ForProcess
  <2> QED BY <2>2, <2>3
<1> QED BY <1>4, <1>10, <1>11, <1>12, <1>13 DEF UcxxInv

LEMMA RankKnownKeeps ==
  ASSUME UcxxInv, NEW p \in Procs, rank_known(p)
  PROVE  UcxxInv'
<1>1. p \in Others /\ p # Root /\ ForProcess(p) /\ Root \in Procs /\ position[p] = "get_rank"
  BY NotTheRoot, RootAssumption DEF rank_known
<1>2. MapTypes /\ MapInv /\ RoundTypes /\ WireTypes /\ WiresInv /\ RootInv
  BY DEF UcxxInv
<1>3. PICK r : r = rank[p]
  OBVIOUS
<1>4. r # -1 /\ r \in Handed /\ Holder(r) = p /\ Known(p)
  BY <1>2, <1>3, RankedIsKnown DEF rank_known
<1>5. /\ MapTypes' /\ MapInv' /\ Grows /\ next_rank' = next_rank
      /\ r \in DOMAIN endpoint'[p] /\ rank' = rank
  <2>2. endpoint' = [endpoint EXCEPT ![p] = Emplace(@, Entry(r, Holder(r)))]
    BY <1>3, <1>4 DEF rank_known
  <2>3. UNCHANGED <<rank, next_rank, address, by_host_port, delayed_callbacks>>
    BY DEF rank_known, options
  <2>4. IsSeq(delayed_callbacks') /\ Elems(delayed_callbacks') \subseteq Elems(delayed_callbacks)
    BY <2>3, <1>2 DEF MapTypes
  <2> QED BY <1>2, <1>4, <2>2, <2>3, <2>4, EndpointAdded
<1>6. PICK m : m = [type |-> "RegisterListenerAddress", rank |-> r]
  OBVIOUS
<1>7. m.type = "RegisterListenerAddress" /\ m.type \notin Request /\ m.type # "plain" /\ UpMsg(p, m)'
  <2>1. r \in Handed' /\ Holder(r)' = p
    BY <1>2, <1>4, <1>5, HandedGrows DEF Grows
  <2>2. m.rank = r /\ m.type = "RegisterListenerAddress"
    BY <1>6
  <2> QED BY <2>1, <2>2 DEF Request, UpMsg
<1>8. PICK s : s = IF by_host_port THEN Append(am_wire[p][Root], m) ELSE am_wire[p][Root]
  OBVIOUS
<1>9. /\ IsSeq(am_wire[p][Root]) /\ IsSeq(s) /\ Elems(s) \subseteq Elems(am_wire[p][Root]) \cup {m}
      /\ Len(s) \in Nat
      /\ by_host_port => Len(s) >= 1 /\ s[Len(s)] = m
      /\ Plains(s) = Plains(am_wire[p][Root])
  <2>1. IsSeq(am_wire[p][Root]) /\ Len(am_wire[p][Root]) \in Nat /\ Plains(am_wire[p][Root]) \in Nat
    BY <1>1, Numbers
  <2>2. CASE by_host_port
    <3>1. s = Append(am_wire[p][Root], m)
      BY <2>2, <1>8
    <3>2. IsSeq(s) /\ Elems(s) = Elems(am_wire[p][Root]) \cup {m} /\ Len(s) = Len(am_wire[p][Root]) + 1
          /\ s[Len(am_wire[p][Root]) + 1] = m
      BY <3>1, <2>1, AppendFacts
    <3>3. Plains(s) = Plains(am_wire[p][Root]) + IF m.type = "plain" THEN 1 ELSE 0
      BY <3>1, <2>1, AppendPlains
    <3> QED BY <2>1, <3>2, <3>3, <1>7
  <2>3. CASE ~ by_host_port
    BY <2>1, <2>3, <1>8
  <2> QED BY <2>2, <2>3
<1>10. /\ WireTypes' /\ WiresInv'
       /\ am_wire'[p][Root] = s /\ am_wire'[Root][p] = am_wire[Root][p]
       /\ \A q \in Others \ {p} : Quiet(q) /\ Calm(q)
  <2>1. WiresOf(p, s, am_wire[Root][p])
    <3>1. CASE by_host_port
      <4>1. am_wire' = [am_wire EXCEPT ![p][Root] = s]
        BY <3>1, <1>3, <1>6, <1>8 DEF rank_known, AmSend
      <4> QED BY <1>1, <1>2, <4>1 DEF WiresOf, WireTypes
    <3>2. CASE ~ by_host_port
      <4>1. am_wire' = am_wire /\ s = am_wire[p][Root]
        BY <3>2, <1>8 DEF rank_known
      <4> QED BY <1>1, <1>2, <4>1 DEF WiresOf, WireTypes
    <3> QED BY <3>1, <3>2
  <2>2. TrueUp(p, s) /\ TrueDown(p, am_wire[Root][p])
    BY <1>1, <1>2, <1>7, <1>8, Sending
  <2>3. IsSeq(am_wire[Root][p])
    BY <1>1, Numbers
  <2> QED BY <1>1, <1>2, <1>5, <1>9, <2>1, <2>2, <2>3, WiresStep
<1>11. /\ RoundTypes'
       /\ \A q \in Procs : position'[q] = IF q = p THEN "idle" ELSE position[q]
       /\ UNCHANGED <<distributed, am_pool, rounds_entered, rounds_left>>
  BY <1>2 DEF rank_known, RoundTypes, rounds, Past
<1>12. RootInv'
  BY <1>1, <1>2, <1>5, <1>11, RootKept
<1>13. ASSUME NEW q \in Others PROVE ForProcess(q)'
  <2>1. q \in Procs /\ q # Root /\ NoNew(q) /\ ForProcess(q)
    BY <1>2, <1>5, NothingNew DEF Others, UcxxInv
  <2>2. CASE q # p
    <3>1. Quiet(q) /\ Calm(q) /\ RoundUntouched(q)
      BY <1>1, <1>10, <1>11, <2>1, <2>2 DEF RoundUntouched
    <3> QED BY <3>1, <2>1, <1>2, <1>5, ProcessKept
  <2>3. CASE q = p
    <3>1. position'[p] = "idle" /\ position'[Root] = position[Root]
      BY <1>1, <1>11
    <3>2. /\ rounds_left[Root] = 0 /\ rounds_left[p] = 0 /\ am_pool[Root][p] = 0
          /\ Plains(am_wire[p][Root]) = 0
      BY <1>1, NothingReported
    <3>3. ProcInv(p)'
      <4>1. Known(p)'
        BY <1>2, <1>4, <1>5, KnownStays
      <4>2. \A x \in Elems(s) : x.type \notin Request
        BY <1>1, <1>4, <1>7, <1>9 DEF ForProcess, ProcInv
      <4>3. rank'[p] # -1 /\ rank'[p] \in DOMAIN endpoint'[p]
        BY <1>3, <1>4, <1>5
      <4> QED BY <3>1, <4>1, <4>2, <4>3, <1>10 DEF ProcInv
    <3>4. RoundInv(p)'
      BY <3>1, <3>2, <1>1, <1>9, <1>10, <1>11 DEF RoundInv, ForProcess, Past, One
    <3>5. RegisterInv(p)'
      <4>1. CASE by_host_port
        <5>1. PlainsIn(s, Len(s)) = 0 /\ Len(s) \in 1 .. Len(s)
          BY <4>1, <3>2, <1>9 DEF Plains
        <5>2. RegisterComes(p)'
          BY <4>1, <5>1, <1>7, <1>9, <1>10 DEF RegisterComes
        <5> QED BY <5>2, <3>2, <1>11 DEF RegisterInv
      <4>2. CASE ~ by_host_port
        <5>1. ~ by_host_port' => Handed' \subseteq DOMAIN address'[Root]
          BY <1>5 DEF MapInv
        <5>2. Handed' \subseteq DOMAIN address'[Root]
          BY <5>1, <4>2, <1>5 DEF Grows
        <5> QED BY <5>2 DEF RegisterInv, Registered
      <4> QED BY <4>1, <4>2
    <3>6. InformedInv(p)'
      BY <3>2, <1>11 DEF InformedInv
    <3> QED BY <2>3, <3>3, <3>4, <3>5, <3>6 DEF ForProcess
  <2> QED BY <2>2, <2>3
<1> QED BY <1>5, <1>10, <1>11, <1>12, <1>13 DEF UcxxInv

\* RoundTypes, the root and the other processes when only one process has to do with a step.
RoundsSame == UNCHANGED <<position, rounds_entered, rounds_left, distributed>>

LEMMA OthersKept ==
  ASSUME UcxxInv, MapInv', Grows, NEW p \in Others, RoundsSame,
         next_rank' = next_rank \/ ~ Known(p),
         \A q \in Others \ {p} : Quiet(q) /\ Calm(q) /\ NoNew(q),
         \A q \in Others \ {p} : am_pool'[q][Root] = am_pool[q][Root] /\ am_pool'[Root][q] = am_pool[Root][q]
  PROVE  RootInv' /\ \A q \in Others \ {p} : ForProcess(q)'
<1>1. MapTypes /\ MapInv /\ RoundTypes /\ WireTypes /\ WiresInv /\ RootInv
  BY DEF UcxxInv
<1>2. RootInv'
  BY <1>1, RootKept, Numbers DEF RoundsSame
<1>3. ASSUME NEW q \in Others \ {p} PROVE ForProcess(q)'
  <2>1. q \in Procs /\ ForProcess(q)
    BY DEF UcxxInv, Others
  <2>2. Quiet(q) /\ Calm(q) /\ NoNew(q) /\ RoundUntouched(q)
    BY DEF RoundUntouched, RoundsSame
  <2> QED BY <1>1, <2>1, <2>2, ProcessKept
<1> QED BY <1>2, <1>3

\* A process is told its rank.
LEMMA AssignRankKeeps ==
  ASSUME UcxxInv, NEW q \in Procs, NEW p \in Procs, deliver_control(q, p),
         am_wire[p][q] # <<>>, Head(am_wire[p][q]).type = "AssignRank"
  PROVE  UcxxInv'
<1>1. MapTypes /\ MapInv /\ RoundTypes /\ WireTypes /\ WiresInv /\ RootInv /\ Root \in Procs
  BY RootAssumption DEF UcxxInv
<1>2. PICK m : m = Head(am_wire[p][q])
  OBVIOUS
<1>3. m.type = "AssignRank" /\ m \in Elems(am_wire[p][q]) /\ IsSeq(am_wire[p][q])
  BY <1>1, <1>2, TailFacts DEF WireTypes
<1>4. p = Root /\ q # Root
  <2>1. (p = Root) # (q = Root)
    BY <1>1 DEF WiresInv
  <2>2. q # Root
    <3>1. q = Root => UpMsg(p, m)
      BY <1>1, <1>3 DEF WiresInv
    <3> QED BY <3>1, <1>3 DEF UpMsg, Request
  <2> QED BY <2>1, <2>2
<1>5. q \in Others /\ q \in Procs /\ ForProcess(q)
  BY <1>4 DEF Others, UcxxInv
<1>6. m.rank \in Handed /\ Holder(m.rank) = q
  <2>1. DownMsg(q, m)
    BY <1>1, <1>3, <1>4 DEF WiresInv
  <2> QED BY <2>1, <1>3 DEF DownMsg
<1>7. /\ rank' = [rank EXCEPT ![q] = m.rank] /\ address' = address
      /\ UNCHANGED <<next_rank, endpoint, delayed_callbacks, by_host_port, am_pool>> /\ RoundsSame
      /\ am_wire' = [am_wire EXCEPT ![Root][q] = Tail(am_wire[Root][q])]
  BY <1>2, <1>3, <1>4 DEF deliver_control, control_unpack, options, rounds, RoundsSame
<1>8. MapTypes' /\ MapInv' /\ Grows /\ next_rank' = next_rank
  BY <1>1, <1>6, <1>7, RankAssigned
<1>9. PICK d : d = Tail(am_wire[Root][q])
  OBVIOUS
<1>10. am_wire[Root][q] # <<>> /\ Head(am_wire[Root][q]) = m
  BY <1>2, <1>4
<1>11. IsSeq(d) /\ Plains(d) = Plains(am_wire[Root][q])
  <2>1. IsSeq(d) /\ Plains(d) = Plains(am_wire[Root][q]) - One(Head(am_wire[Root][q]).type = "plain")
    BY <1>1, <1>5, <1>9, <1>10, TailFacts DEF WireTypes
  <2>2. Plains(am_wire[Root][q]) \in Nat
    BY <1>5, Numbers
  <2> QED BY <2>1, <2>2, <1>3, <1>10 DEF One
<1>12. /\ WireTypes' /\ WiresInv' /\ am_wire'[q][Root] = am_wire[q][Root] /\ am_wire'[Root][q] = d
       /\ \A x \in Others \ {q} : Quiet(x) /\ Calm(x)
  <2>1. WiresOf(q, am_wire[q][Root], d)
    BY <1>1, <1>4, <1>7, <1>9 DEF WiresOf, WireTypes
  <2>2. TrueUp(q, am_wire[q][Root]) /\ TrueDown(q, d)
    BY <1>1, <1>5, <1>9, <1>10, Sending, Taking
  <2>3. IsSeq(am_wire[q][Root])
    BY <1>5, Numbers
  <2> QED BY <1>1, <1>5, <1>8, <1>11, <2>1, <2>2, <2>3, WiresStep
<1>13. RoundTypes'
  BY <1>1, <1>7 DEF RoundTypes, RoundsSame
<1>14. \A x \in Procs : NoNew(x)
  BY <1>1, <1>8, NothingNew
<1>15. RootInv' /\ \A x \in Others \ {q} : ForProcess(x)'
  BY <1>5, <1>7, <1>8, <1>12, <1>14, OthersKept DEF Others
<1>16. ForProcess(q)'
  <2>1. ProcInv(q)'
    BY <1>1, <1>5, <1>7, <1>8, <1>12, <1>14, ProcSame DEF ForProcess, Quiet, RoundsSame
  <2>2. RoundInv(q)'
    <3>1. RoundUntouched(q)
      BY <1>7 DEF RoundUntouched, RoundsSame
    <3> QED BY <3>1, <1>5, <1>11, <1>12, RoundSame DEF ForProcess
  <2>3. RegisterInv(q)'
    BY <1>1, <1>5, <1>7, <1>8, <1>12, <1>14, RegisterSame DEF ForProcess, Quiet, RoundsSame
  <2>4. InformedInv(q)'
    <3>1. am_pool'[q][Root] = am_pool[q][Root] + One(Head(am_wire[Root][q]).type = "plain")
      BY <1>3, <1>5, <1>7, <1>10, Numbers DEF One
    <3>2. Head(am_wire[Root][q]).type # "DistributeListenerAddresses"
      BY <1>3, <1>10
    <3>3. am_wire'[Root][q] = Tail(am_wire[Root][q])
      BY <1>9, <1>12
    <3>4. rounds_left' = rounds_left /\ position' = position
      BY <1>7 DEF RoundsSame
    <3> QED BY <3>1, <3>2, <3>3, <3>4, <1>1, <1>5, <1>8, <1>10, InformedTail DEF ForProcess
  <2> QED BY <2>1, <2>2, <2>3, <2>4 DEF ForProcess
<1> QED BY <1>8, <1>12, <1>13, <1>15, <1>16 DEF UcxxInv

\* A process learns the addresses of the others.
LEMMA DistributeKeeps ==
  ASSUME UcxxInv, NEW q \in Procs, NEW p \in Procs, deliver_control(q, p),
         am_wire[p][q] # <<>>, Head(am_wire[p][q]).type = "DistributeListenerAddresses"
  PROVE  UcxxInv'
<1>1. MapTypes /\ MapInv /\ RoundTypes /\ WireTypes /\ WiresInv /\ RootInv /\ Root \in Procs
  BY RootAssumption DEF UcxxInv
<1>2. PICK m : m = Head(am_wire[p][q])
  OBVIOUS
<1>3. m.type = "DistributeListenerAddresses" /\ m \in Elems(am_wire[p][q]) /\ IsSeq(am_wire[p][q])
  BY <1>1, <1>2, TailFacts DEF WireTypes
<1>4. p = Root /\ q # Root
  <2>1. (p = Root) # (q = Root)
    BY <1>1 DEF WiresInv
  <2>2. q # Root
    <3>1. q = Root => UpMsg(p, m)
      BY <1>1, <1>3 DEF WiresInv
    <3> QED BY <3>1, <1>3 DEF UpMsg, Request
  <2> QED BY <2>1, <2>2
<1>5. q \in Others /\ q \in Procs /\ ForProcess(q)
  BY <1>4 DEF Others, UcxxInv
<1>6. /\ Agrees(m.addresses) /\ -1 \notin DOMAIN m.addresses
      /\ \A r \in World : r \in DOMAIN m.addresses \/ (r \in Handed /\ Holder(r) = q)
  <2>1. DownMsg(q, m)
    BY <1>1, <1>3, <1>4 DEF WiresInv
  <2> QED BY <2>1, <1>3 DEF DownMsg
<1>7. /\ rank' = rank /\ address' = [address EXCEPT ![q] = Emplace(@, m.addresses)]
      /\ UNCHANGED <<next_rank, endpoint, delayed_callbacks, by_host_port, am_pool>> /\ RoundsSame
      /\ am_wire' = [am_wire EXCEPT ![Root][q] = Tail(am_wire[Root][q])]
  BY <1>2, <1>3, <1>4 DEF deliver_control, control_unpack, options, rounds, RoundsSame
<1>8. /\ MapTypes' /\ MapInv' /\ Grows /\ next_rank' = next_rank
      /\ DOMAIN address'[q] = DOMAIN address[q] \cup DOMAIN m.addresses
  BY <1>1, <1>6, <1>7, AddressAdded
<1>9. PICK d : d = Tail(am_wire[Root][q])
  OBVIOUS
<1>10. am_wire[Root][q] # <<>> /\ Head(am_wire[Root][q]) = m
  BY <1>2, <1>4
<1>11. IsSeq(d) /\ Plains(d) = Plains(am_wire[Root][q])
  <2>1. IsSeq(d) /\ Plains(d) = Plains(am_wire[Root][q]) - One(Head(am_wire[Root][q]).type = "plain")
    BY <1>1, <1>5, <1>9, <1>10, TailFacts DEF WireTypes
  <2>2. Plains(am_wire[Root][q]) \in Nat
    BY <1>5, Numbers
  <2> QED BY <2>1, <2>2, <1>3, <1>10 DEF One
<1>12. /\ WireTypes' /\ WiresInv' /\ am_wire'[q][Root] = am_wire[q][Root] /\ am_wire'[Root][q] = d
       /\ \A x \in Others \ {q} : Quiet(x) /\ Calm(x)
  <2>1. WiresOf(q, am_wire[q][Root], d)
    BY <1>1, <1>4, <1>7, <1>9 DEF WiresOf, WireTypes
  <2>2. TrueUp(q, am_wire[q][Root]) /\ TrueDown(q, d)
    BY <1>1, <1>5, <1>9, <1>10, Sending, Taking
  <2>3. IsSeq(am_wire[q][Root])
    BY <1>5, Numbers
  <2> QED BY <1>1, <1>5, <1>8, <1>11, <2>1, <2>2, <2>3, WiresStep
<1>13. RoundTypes'
  BY <1>1, <1>7 DEF RoundTypes, RoundsSame
<1>14. \A x \in Procs : NoNew(x)
  BY <1>1, <1>8, NothingNew
<1>15. RootInv' /\ \A x \in Others \ {q} : ForProcess(x)'
  BY <1>5, <1>7, <1>8, <1>12, <1>14, OthersKept DEF Others
<1>16. ForProcess(q)'
  <2>1. ProcInv(q)'
    BY <1>1, <1>5, <1>7, <1>8, <1>12, <1>14, ProcSame DEF ForProcess, Quiet, RoundsSame
  <2>2. RoundInv(q)'
    <3>1. RoundUntouched(q)
      BY <1>7 DEF RoundUntouched, RoundsSame
    <3> QED BY <3>1, <1>5, <1>11, <1>12, RoundSame DEF ForProcess
  <2>3. RegisterInv(q)'
    BY <1>1, <1>5, <1>7, <1>8, <1>12, <1>14, RegisterSame DEF ForProcess, Quiet, RoundsSame
  <2>4. ASSUME rounds_left[Root] > 0 PROVE Informed(q)'
    <3>1. position[q] \in Past
      <4>1. position[q] \in Past \cup {"start", "get_rank"}
        BY <1>5 DEF ForProcess, RoundInv
      <4>2. position[q] \notin {"start", "get_rank"}
        BY <2>4, <1>5, NothingReported
      <4> QED BY <4>1, <4>2
    <3>2. PICK r : r = rank[q]
      OBVIOUS
    <3>3. r # -1 /\ r \in DOMAIN endpoint[q]
      BY <3>1, <3>2, <1>5 DEF ForProcess, ProcInv
    <3>4. r \in Handed /\ Holder(r) = q
      BY <3>2, <3>3, <1>1, <1>5, RankedIsKnown
    <3>5. \A x \in Handed : Holder(x) = q => x = r
      BY <3>4, <1>1 DEF MapInv
    <3>6. DOMAIN endpoint[q] \subseteq DOMAIN endpoint'[q]
      BY <1>5, <1>8 DEF Grows
    <3> QED BY <3>3, <3>5, <3>6, <1>6, <1>8 DEF Informed
  <2>5. InformedInv(q)'
    BY <2>4, <1>7 DEF InformedInv, RoundsSame
  <2> QED BY <2>1, <2>2, <2>3, <2>5 DEF ForProcess
<1> QED BY <1>8, <1>12, <1>13, <1>15, <1>16 DEF UcxxInv

\* The root learns the address of a process.
LEMMA RegisterKeeps ==
  ASSUME UcxxInv, NEW q \in Procs, NEW p \in Procs, deliver_control(q, p),
         am_wire[p][q] # <<>>, Head(am_wire[p][q]).type = "RegisterListenerAddress"
  PROVE  UcxxInv'
<1>1. MapTypes /\ MapInv /\ RoundTypes /\ WireTypes /\ WiresInv /\ RootInv /\ Root \in Procs
  BY RootAssumption DEF UcxxInv
<1>2. PICK m : m = Head(am_wire[p][q])
  OBVIOUS
<1>3. m.type = "RegisterListenerAddress" /\ m \in Elems(am_wire[p][q]) /\ IsSeq(am_wire[p][q])
  BY <1>1, <1>2, TailFacts DEF WireTypes
<1>4. q = Root /\ p # Root
  <2>1. (p = Root) # (q = Root)
    BY <1>1 DEF WiresInv
  <2>2. p # Root
    <3>1. p = Root => DownMsg(q, m)
      BY <1>1, <1>3 DEF WiresInv
    <3> QED BY <3>1, <1>3 DEF DownMsg
  <2> QED BY <2>1, <2>2
<1>5. p \in Others /\ p \in Procs /\ ForProcess(p)
  BY <1>4 DEF Others, UcxxInv
<1>6. PICK r : r = m.rank
  OBVIOUS
<1>7. r \in Handed /\ Holder(r) = p /\ r # -1 /\ Known(p)
  <2>1. UpMsg(p, m)
    BY <1>1, <1>3, <1>4 DEF WiresInv
  <2>2. r \in Handed /\ Holder(r) = p
    BY <2>1, <1>3, <1>6 DEF UpMsg, Request
  <2> QED BY <2>2, <1>1 DEF Handed, MapTypes, Known
<1>8. /\ rank' = rank /\ address' = [address EXCEPT ![Root] = Emplace(@, Entry(r, p))]
      /\ UNCHANGED <<next_rank, endpoint, delayed_callbacks, by_host_port, am_pool>> /\ RoundsSame
      /\ am_wire' = [am_wire EXCEPT ![p][Root] = Tail(am_wire[p][Root])]
  BY <1>2, <1>3, <1>4, <1>6 DEF deliver_control, control_unpack, options, rounds, RoundsSame
<1>9. /\ MapTypes' /\ MapInv' /\ Grows /\ next_rank' = next_rank /\ r \in DOMAIN address'[Root]
  <2>1. PICK e : e = Entry(r, p)
    OBVIOUS
  <2>2. DOMAIN e = {r} /\ e[r] = p
    BY <2>1 DEF Entry
  <2>3. Agrees(e) /\ -1 \notin DOMAIN e
    BY <2>2, <1>7 DEF Agrees
  <2>4. /\ address' = [address EXCEPT ![Root] = Emplace(@, e)]
        /\ UNCHANGED <<rank, next_rank, endpoint, delayed_callbacks, by_host_port>>
    BY <2>1, <1>8
  <2> HIDE <1>8
  <2>5. /\ MapTypes' /\ MapInv' /\ Grows /\ next_rank' = next_rank
        /\ DOMAIN address'[Root] = DOMAIN address[Root] \cup DOMAIN e
    BY <1>1, <2>3, <2>4, AddressAdded
  <2> QED BY <2>2, <2>5
<1>10. PICK u : u = Tail(am_wire[p][Root])
  OBVIOUS
<1>11. am_wire[p][Root] # <<>> /\ Head(am_wire[p][Root]) = m
  BY <1>2, <1>4
<1>12. IsSeq(u) /\ Plains(u) = Plains(am_wire[p][Root]) /\ Elems(u) \subseteq Elems(am_wire[p][Root])
  <2>1. /\ IsSeq(u) /\ Plains(u) = Plains(am_wire[p][Root]) - One(Head(am_wire[p][Root]).type = "plain")
        /\ Elems(u) \subseteq Elems(am_wire[p][Root])
    BY <1>1, <1>5, <1>10, <1>11, TailFacts DEF WireTypes
  <2>2. Plains(am_wire[p][Root]) \in Nat
    BY <1>5, Numbers
  <2> QED BY <2>1, <2>2, <1>3, <1>11 DEF One
<1>13. /\ WireTypes' /\ WiresInv' /\ am_wire'[p][Root] = u /\ am_wire'[Root][p] = am_wire[Root][p]
       /\ \A x \in Others \ {p} : Quiet(x) /\ Calm(x)
  <2>1. WiresOf(p, u, am_wire[Root][p])
    BY <1>1, <1>4, <1>8, <1>10 DEF WiresOf, WireTypes
  <2>2. TrueUp(p, u) /\ TrueDown(p, am_wire[Root][p])
    BY <1>1, <1>5, <1>10, <1>11, Sending, Taking
  <2>3. IsSeq(am_wire[Root][p])
    BY <1>5, Numbers
  <2> QED BY <1>1, <1>5, <1>9, <1>12, <2>1, <2>2, <2>3, WiresStep
<1>14. RoundTypes'
  BY <1>1, <1>8 DEF RoundTypes, RoundsSame
<1>15. \A x \in Procs : NoNew(x)
  BY <1>1, <1>9, NothingNew
<1>16. RootInv' /\ \A x \in Others \ {p} : ForProcess(x)'
  BY <1>5, <1>8, <1>9, <1>13, <1>15, OthersKept DEF Others
<1>17. ForProcess(p)'
  <2>1. ProcInv(p)'
    <3>1. Known(p)'
      BY <1>1, <1>7, <1>9, KnownStays
    <3>2. \A x \in Elems(u) : x.type \notin Request
      BY <1>5, <1>7, <1>12 DEF ForProcess, ProcInv
    <3>3. position'[p] # "start"
      BY <1>5, <1>7, <1>8 DEF ForProcess, ProcInv, RoundsSame
    <3>4. position[p] \in Past => rank[p] # -1 /\ rank[p] \in DOMAIN endpoint[p]
      BY <1>5 DEF ForProcess, ProcInv
    <3> QED BY <3>1, <3>2, <3>3, <3>4, <1>8, <1>13 DEF ProcInv, RoundsSame
  <2>2. RoundInv(p)'
    <3>1. RoundUntouched(p)
      BY <1>8 DEF RoundUntouched, RoundsSame
    <3> QED BY <3>1, <1>5, <1>12, <1>13, RoundSame DEF ForProcess
  <2>3. RegisterInv(p)'
    <3>1. \A x \in Handed' : Holder(x)' = p => x = r
      <4>1. r \in Handed' /\ Holder(r)' = p
        BY <1>1, <1>7, <1>9, HandedGrows DEF Grows
      <4> QED BY <4>1, <1>9 DEF MapInv
    <3>2. Registered(p)'
      BY <3>1, <1>9 DEF Registered
    <3> QED BY <3>2 DEF RegisterInv
  <2>4. InformedInv(p)'
    BY <1>5, <1>8, <1>9, <1>13, InformedSame DEF ForProcess, Calm, RoundsSame
  <2> QED BY <2>1, <2>2, <2>3, <2>4 DEF ForProcess
<1> QED BY <1>9, <1>13, <1>14, <1>16, <1>17 DEF UcxxInv

\* The root hands out a rank.
LEMMA QueryKeeps ==
  ASSUME UcxxInv, NEW p \in Procs, am_wire[p][Root] # <<>>,
         deliver_query(p) \/ listener_callback(p)
  PROVE  UcxxInv'
<1>1. MapTypes /\ MapInv /\ RoundTypes /\ WireTypes /\ WiresInv /\ RootInv /\ Root \in Procs
  BY RootAssumption DEF UcxxInv
<1>2. PICK m : m = Head(am_wire[p][Root])
  OBVIOUS
<1>3. /\ m.type \in Request /\ m \in Elems(am_wire[p][Root]) /\ IsSeq(am_wire[p][Root])
      /\ Len(am_wire[p][Root]) \in Nat /\ m = am_wire[p][Root][1] /\ Len(am_wire[p][Root]) >= 1
  BY <1>1, <1>2, TailFacts DEF WireTypes, deliver_query, listener_callback, Request
<1>4. p # Root /\ p \in Others /\ ForProcess(p)
  <2>1. p # Root
    BY <1>1 DEF WiresInv
  <2> QED BY <2>1 DEF Others, UcxxInv
<1>5. ~ Known(p)
  BY <1>3, <1>4 DEF ForProcess, ProcInv
<1>6. position[p] = "get_rank" /\ Len(am_wire[p][Root]) = 1
  <2>1. position[p] \in Past \cup {"start", "get_rank"}
    BY <1>4 DEF ForProcess, RoundInv
  <2>2. position[p] # "start"
    BY <1>4 DEF ForProcess, ProcInv
  <2>3. position[p] \notin Past
    <3>1. position[p] \in Past => rank[p] # -1
      BY <1>4 DEF ForProcess, ProcInv
    <3> QED BY <3>1, <1>1, <1>5, RankedIsKnown
  <2>4. position[p] = "get_rank"
    BY <2>1, <2>2, <2>3
  <2> QED BY <2>4, <1>4, <1>5 DEF ForProcess, ProcInv
<1>7. rounds_left[Root] = 0 /\ position[Root] # "reported"
  BY <1>5, UnknownIsEarly
<1>8. PICK r : r = next_rank
  OBVIOUS
<1>9. /\ MapTypes' /\ MapInv' /\ Grows /\ r \in Handed' /\ Holder(r)' = p
      /\ \A q \in Procs \ {p} : NoNew(q)
  <2>1. /\ next_rank' = next_rank + 1 /\ rank' = rank /\ by_host_port' = by_host_port
        /\ \/ /\ by_host_port
              /\ endpoint' = [endpoint EXCEPT ![Root] = Emplace(@, Entry(next_rank, p))]
              /\ UNCHANGED <<address, delayed_callbacks>>
           \/ /\ address' = [address EXCEPT ![Root] = Emplace(@, Entry(next_rank, p))]
              /\ delayed_callbacks' = Append(delayed_callbacks, next_rank)
              /\ UNCHANGED endpoint
    <3>1. CASE deliver_query(p)
      BY <3>1 DEF deliver_query, options
    <3>2. CASE listener_callback(p)
      <4>1. m.type = "ConnectionRequest" /\ UpMsg(p, m)
        BY <3>2, <1>1, <1>2, <1>3 DEF listener_callback, WiresInv
      <4>2. by_host_port
        BY <4>1 DEF UpMsg
      <4> QED BY <3>2, <4>2 DEF listener_callback, options
    <3> QED BY <3>1, <3>2
  <2>2. /\ MapTypes' /\ MapInv' /\ Grows
        /\ next_rank \in Handed' /\ \A x : x = next_rank => Holder(x)' = p
        /\ \A q \in Procs \ {p} : NoNew(q)
    BY <2>1, <1>1, <1>5, RankHanded
  <2> QED BY <2>2, <1>8
<1>10. PICK a : a = [type |-> "AssignRank", rank |-> r]
  OBVIOUS
<1>11. a.type = "AssignRank" /\ a.type # "plain" /\ DownMsg(p, a)'
  BY <1>9, <1>10 DEF DownMsg
<1>12. PICK d : d = IF listener_callback(p) THEN Append(am_wire[Root][p], a) ELSE am_wire[Root][p]
  OBVIOUS
<1>13. PICK u : u = Tail(am_wire[p][Root])
  OBVIOUS
<1>14. IsSeq(u) /\ Elems(u) = {} /\ Len(u) = 0 /\ Plains(u) = 0 /\ Plains(am_wire[p][Root]) = 0
  <2>1. IsSeq(u) /\ Len(u) = 0
    BY <1>3, <1>6, <1>13, TailFacts
  <2>2. Elems(u) = {}
    BY <2>1 DEF Elems
  <2>3. Plains(u) = Plains(am_wire[p][Root]) - One(Head(am_wire[p][Root]).type = "plain")
    BY <1>3, <1>13, TailFacts
  <2>4. Head(am_wire[p][Root]).type # "plain"
    BY <1>2, <1>3 DEF Request
  <2>5. Plains(am_wire[p][Root]) = 0
    BY <1>4, <1>6, NothingReported
  <2>6. Plains(u) = 0 - 0
    <3>1. One(Head(am_wire[p][Root]).type = "plain") = 0
      BY <2>4 DEF One
    <3> QED BY <3>1, <2>3, <2>5
  <2> QED BY <2>1, <2>2, <2>5, <2>6
<1>15. /\ IsSeq(d) /\ Plains(d) = Plains(am_wire[Root][p])
       /\ d = am_wire[Root][p] \/ d = Append(am_wire[Root][p], a)
  <2>1. IsSeq(am_wire[Root][p]) /\ Plains(am_wire[Root][p]) \in Nat
    BY <1>4, Numbers
  <2>2. /\ IsSeq(Append(am_wire[Root][p], a))
        /\ Plains(Append(am_wire[Root][p], a)) = Plains(am_wire[Root][p]) + IF a.type = "plain" THEN 1 ELSE 0
    BY <2>1, AppendFacts, AppendPlains
  <2> QED BY <2>1, <2>2, <1>11, <1>12
<1>16. /\ WireTypes' /\ WiresInv' /\ am_wire'[p][Root] = u /\ am_wire'[Root][p] = d
       /\ \A x \in Others \ {p} : Quiet(x) /\ Calm(x)
  <2>1. WiresOf(p, u, d)
    <3>1. CASE listener_callback(p)
      <4>1. am_wire' = [am_wire EXCEPT ![p][Root] = u, ![Root][p] = d]
        BY <3>1, <1>4, <1>8, <1>10, <1>12, <1>13 DEF listener_callback
      <4>2. \A x \in Procs : am_wire'[x] = IF x = Root THEN [am_wire[Root] EXCEPT ![p] = d]
                                           ELSE IF x = p THEN [am_wire[p] EXCEPT ![Root] = u]
                                           ELSE am_wire[x]
        BY <4>1, <1>1, <1>4 DEF WireTypes
      <4>3. \A x \in Procs : am_wire[x] = [y \in Procs |-> am_wire[x][y]]
        BY <1>1 DEF WireTypes
      <4>4. am_wire' = [x \in Procs |-> am_wire'[x]]
        BY <4>1, <1>1 DEF WireTypes
      <4>5. \A x \in Procs : am_wire'[x] = [y \in Procs |-> am_wire'[x][y]]
        BY <4>2, <4>3, <1>1
      <4>6. \A x, y \in Procs : am_wire'[x][y] = IF x = p /\ y = Root THEN u
                                            ELSE IF x = Root /\ y = p THEN d ELSE am_wire[x][y]
        BY <4>2, <4>3, <1>1, <1>4, ZenonT(40)
      <4> QED BY <4>4, <4>5, <4>6 DEF WiresOf
    <3>2. CASE ~ listener_callback(p)
      <4>1. am_wire' = [am_wire EXCEPT ![p][Root] = u] /\ d = am_wire[Root][p]
        BY <3>2, <1>12, <1>13 DEF deliver_query
      <4> QED BY <4>1, <1>1, <1>4 DEF WiresOf, WireTypes
    <3> QED BY <3>1, <3>2
  <2>2. TrueUp(p, u)
    BY <1>14 DEF TrueUp
  <2>3. TrueDown(p, d)
    BY <1>1, <1>4, <1>11, <1>15, Sending
  <2> QED BY <1>1, <1>4, <1>9, <1>14, <1>15, <2>1, <2>2, <2>3, WiresStep
<1>17. am_pool' = am_pool /\ RoundsSame
  BY DEF deliver_query, listener_callback, rounds, RoundsSame
<1>18. RoundTypes'
  BY <1>1, <1>17 DEF RoundTypes, RoundsSame
<1>19. RootInv' /\ \A x \in Others \ {p} : ForProcess(x)'
  BY <1>4, <1>5, <1>9, <1>16, <1>17, OthersKept DEF Others
<1>20. ForProcess(p)'
  <2>1. position'[p] = "get_rank" /\ rounds_left'[Root] = 0
    BY <1>6, <1>7, <1>17 DEF RoundsSame
  <2>2. ProcInv(p)'
    <3>1. Known(p)'
      BY <1>9 DEF Known
    <3> QED BY <3>1, <2>1, <1>14, <1>16 DEF ProcInv, Past
  <2>3. RoundInv(p)'
    <3>1. RoundUntouched(p)
      BY <1>17 DEF RoundUntouched, RoundsSame
    <3> QED BY <3>1, <1>4, <1>14, <1>15, <1>16, RoundSame DEF ForProcess
  <2>4. RegisterInv(p)'
    BY <2>1 DEF RegisterInv, Past
  <2>5. InformedInv(p)'
    BY <2>1 DEF InformedInv
  <2> QED BY <2>2, <2>3, <2>4, <2>5 DEF ForProcess
<1> QED BY <1>9, <1>16, <1>18, <1>19, <1>20 DEF UcxxInv

\* The root creates the endpoint of a rank that it has handed out, and tells the rank.
LEMMA CallbackKeeps ==
  ASSUME UcxxInv, delayed_progress_callback
  PROVE  UcxxInv'
<1>1. MapTypes /\ MapInv /\ RoundTypes /\ WireTypes /\ WiresInv /\ RootInv /\ Root \in Procs
  BY RootAssumption DEF UcxxInv
<1>2. PICK r : r = Head(delayed_callbacks)
  OBVIOUS
<1>3. PICK p : p = address[Root][r]
  OBVIOUS
<1>4. /\ r \in Elems(delayed_callbacks) /\ IsSeq(Tail(delayed_callbacks))
      /\ Elems(Tail(delayed_callbacks)) \subseteq Elems(delayed_callbacks)
  BY <1>1, <1>2, TailFacts DEF MapTypes, delayed_progress_callback
<1>5. r \in Handed /\ p = Holder(r) /\ r # 0 /\ r \in DOMAIN address[Root]
  <2>1. r \in DOMAIN address[Root] \ {0} /\ -1 \notin DOMAIN address[Root] /\ Agrees(address[Root])
    BY <1>1, <1>4 DEF MapInv
  <2> QED BY <2>1, <1>3 DEF Agrees
<1>6. p \in Others /\ p \in Procs /\ p # Root /\ ForProcess(p)
  <2>1. p \in Procs
    BY <1>1, <1>5 DEF MapInv
  <2>2. 0 \in Handed /\ Holder(0) = Root
    BY <1>1 DEF MapInv, MapTypes, Handed
  <2>3. p # Root
    BY <2>2, <1>1, <1>5 DEF MapInv
  <2> QED BY <2>1, <2>3 DEF Others, UcxxInv
<1>7. /\ endpoint' = [endpoint EXCEPT ![Root] = Emplace(@, Entry(r, p))]
      /\ AmSend(Root, p, [type |-> "AssignRank", rank |-> r])
      /\ delayed_callbacks' = Tail(delayed_callbacks)
      /\ UNCHANGED <<rank, next_rank, address, by_host_port, am_pool>> /\ RoundsSame
  BY <1>2, <1>3 DEF delayed_progress_callback, options, rounds, RoundsSame
<1>8. MapTypes' /\ MapInv' /\ Grows /\ next_rank' = next_rank
  <2>1. endpoint' = [endpoint EXCEPT ![Root] = Emplace(@, Entry(r, Holder(r)))]
    BY <1>5, <1>7
  <2>2. IsSeq(delayed_callbacks') /\ Elems(delayed_callbacks') \subseteq Elems(delayed_callbacks)
    BY <1>4, <1>7
  <2>3. UNCHANGED <<rank, next_rank, address, by_host_port>>
    BY <1>7
  <2> QED BY <1>1, <1>5, <2>1, <2>2, <2>3, EndpointAdded
<1>9. PICK a : a = [type |-> "AssignRank", rank |-> r]
  OBVIOUS
<1>10. a.type = "AssignRank" /\ a.type # "plain" /\ DownMsg(p, a)'
  <2>1. r \in Handed' /\ Holder(r)' = p
    BY <1>1, <1>5, <1>8, HandedGrows DEF Grows
  <2> QED BY <2>1, <1>9 DEF DownMsg
<1>11. PICK d : d = Append(am_wire[Root][p], a)
  OBVIOUS
<1>12. IsSeq(d) /\ Plains(d) = Plains(am_wire[Root][p])
  <2>1. IsSeq(am_wire[Root][p]) /\ Plains(am_wire[Root][p]) \in Nat
    BY <1>6, Numbers
  <2>2. /\ IsSeq(Append(am_wire[Root][p], a))
        /\ Plains(Append(am_wire[Root][p], a)) = Plains(am_wire[Root][p]) + IF a.type = "plain" THEN 1 ELSE 0
    BY <2>1, AppendFacts, AppendPlains
  <2> QED BY <2>1, <2>2, <1>10, <1>11
<1>13. /\ WireTypes' /\ WiresInv' /\ am_wire'[p][Root] = am_wire[p][Root] /\ am_wire'[Root][p] = d
       /\ \A x \in Others \ {p} : Quiet(x) /\ Calm(x)
  <2>1. am_wire' = [am_wire EXCEPT ![Root][p] = d]
    BY <1>7, <1>9, <1>11 DEF AmSend
  <2>2. WiresOf(p, am_wire[p][Root], d)
    BY <2>1, <1>1, <1>6 DEF WiresOf, WireTypes
  <2>3. TrueUp(p, am_wire[p][Root]) /\ TrueDown(p, d)
    BY <1>1, <1>6, <1>10, <1>11, Sending
  <2>4. IsSeq(am_wire[p][Root])
    BY <1>6, Numbers
  <2> QED BY <1>1, <1>6, <1>8, <1>12, <2>2, <2>3, <2>4, WiresStep
<1>14. RoundTypes'
  BY <1>1, <1>7 DEF RoundTypes, RoundsSame
<1>15. \A x \in Procs : NoNew(x)
  BY <1>1, <1>8, NothingNew
<1>16. RootInv' /\ \A x \in Others \ {p} : ForProcess(x)'
  BY <1>6, <1>7, <1>8, <1>13, <1>15, OthersKept DEF Others
<1>17. ForProcess(p)'
  <2>1. ProcInv(p)'
    BY <1>1, <1>6, <1>7, <1>8, <1>13, <1>15, ProcSame DEF ForProcess, Quiet, RoundsSame
  <2>2. RoundInv(p)'
    <3>1. RoundUntouched(p)
      BY <1>7 DEF RoundUntouched, RoundsSame
    <3> QED BY <3>1, <1>6, <1>12, <1>13, RoundSame DEF ForProcess
  <2>3. RegisterInv(p)'
    BY <1>1, <1>6, <1>7, <1>8, <1>13, <1>15, RegisterSame DEF ForProcess, Quiet, RoundsSame
  <2>4. InformedInv(p)'
    <3>1. /\ am_wire'[Root][p] = Append(am_wire[Root][p], a)
          /\ rounds_left' = rounds_left /\ position' = position /\ am_pool' = am_pool
      BY <1>7, <1>11, <1>13 DEF RoundsSame
    <3> QED BY <3>1, <1>1, <1>6, <1>8, InformedAppend DEF ForProcess
  <2> QED BY <2>1, <2>2, <2>3, <2>4 DEF ForProcess
<1> QED BY <1>8, <1>13, <1>14, <1>16, <1>17 DEF UcxxInv

\* One message more is in a pool.
LEMMA PoolAdd ==
  ASSUME NEW f \in [Procs -> [Procs -> Int]], NEW a \in Procs, NEW b \in Procs,
         NEW g, g = [f EXCEPT ![a][b] = @ + 1]
  PROVE  /\ g \in [Procs -> [Procs -> Int]]
         /\ \A x, y \in Procs : g[x][y] = IF x = a /\ y = b THEN f[a][b] + 1 ELSE f[x][y]
<1>1. f[a] \in [Procs -> Int] /\ f[a][b] \in Int /\ f[a][b] + 1 \in Int
  OBVIOUS
<1>2. PICK h : h = [f[a] EXCEPT ![b] = f[a][b] + 1]
  OBVIOUS
<1>3. h \in [Procs -> Int] /\ \A y \in Procs : h[y] = IF y = b THEN f[a][b] + 1 ELSE f[a][y]
  BY <1>1, <1>2
<1>4. g = [f EXCEPT ![a] = h]
  BY <1>2
<1>5. g \in [Procs -> [Procs -> Int]] /\ \A x \in Procs : g[x] = IF x = a THEN h ELSE f[x]
  BY <1>3, <1>4
<1> QED BY <1>3, <1>5

\* A plain message of the root arrives.
LEMMA PlainDownKeeps ==
  ASSUME UcxxInv, NEW p \in Procs, p # Root, am_wire[Root][p] # <<>>, deliver_plain(p, Root)
  PROVE  UcxxInv'
<1>1. MapTypes /\ MapInv /\ RoundTypes /\ WireTypes /\ WiresInv /\ RootInv /\ Root \in Procs
  BY RootAssumption DEF UcxxInv
<1>2. p \in Others /\ ForProcess(p)
  BY DEF Others, UcxxInv
<1>3. /\ Head(am_wire[Root][p]).type = "plain" /\ MapUntouched /\ RoundsSame
      /\ am_pool' = [am_pool EXCEPT ![p][Root] = @ + 1]
      /\ am_wire' = [am_wire EXCEPT ![Root][p] = Tail(@)]
  BY DEF deliver_plain, sharedResources, options, rounds, MapUntouched, RoundsSame
<1>4. MapTypes' /\ MapInv' /\ Grows /\ next_rank' = next_rank
  BY <1>1, <1>3, MapKept
<1>5. PICK d : d = Tail(am_wire[Root][p])
  OBVIOUS
<1>6. IsSeq(d) /\ Plains(d) = Plains(am_wire[Root][p]) - 1
  <2>1. IsSeq(d) /\ Plains(d) = Plains(am_wire[Root][p]) - One(Head(am_wire[Root][p]).type = "plain")
    BY <1>1, <1>5, TailFacts DEF WireTypes
  <2>2. One(Head(am_wire[Root][p]).type = "plain") = 1
    BY <1>3 DEF One
  <2> QED BY <2>1, <2>2
<1>7. /\ WireTypes' /\ WiresInv' /\ am_wire'[p][Root] = am_wire[p][Root] /\ am_wire'[Root][p] = d
      /\ \A x \in Others \ {p} : Quiet(x) /\ Calm(x)
  <2>1. WiresOf(p, am_wire[p][Root], d)
    BY <1>1, <1>3, <1>5 DEF WiresOf, WireTypes
  <2>2. TrueUp(p, am_wire[p][Root]) /\ TrueDown(p, d)
    BY <1>1, <1>2, <1>5, Sending, Taking
  <2>3. IsSeq(am_wire[p][Root])
    BY <1>2, Numbers
  <2> QED BY <1>1, <1>2, <1>4, <1>6, <2>1, <2>2, <2>3, WiresStep
<1>8. /\ am_pool' \in [Procs -> [Procs -> Int]]
      /\ \A x, y \in Procs : am_pool'[x][y] = IF x = p /\ y = Root THEN am_pool[p][Root] + 1 ELSE am_pool[x][y]
  <2>1. am_pool \in [Procs -> [Procs -> Int]]
    BY <1>1 DEF RoundTypes
  <2> QED BY <2>1, <1>1, <1>3, PoolAdd
<1>9. RoundTypes'
  BY <1>1, <1>3, <1>8 DEF RoundTypes, RoundsSame
<1>10. \A x \in Procs : NoNew(x)
  BY <1>1, <1>4, NothingNew
<1>11. RootInv' /\ \A x \in Others \ {p} : ForProcess(x)'
  BY <1>1, <1>2, <1>3, <1>4, <1>7, <1>8, <1>10, OthersKept DEF Others
<1>12. position' = position /\ rounds_left' = rounds_left /\ rounds_entered' = rounds_entered
  BY <1>3 DEF RoundsSame
<1>13. am_pool'[p][Root] = am_pool[p][Root] + 1 /\ am_pool'[Root][p] = am_pool[Root][p]
  BY <1>1, <1>8
<1>14. ForProcess(p)'
  <2>1. ProcInv(p)'
    BY <1>1, <1>2, <1>4, <1>7, <1>10, <1>12, ProcSame DEF ForProcess, Quiet
  <2>2. RoundInv(p)'
    <3>1. /\ position[p] \in Past \cup {"start", "get_rank"}
          /\ position[p] \in {"start", "get_rank"} => rounds_entered[p] = 0
          /\ rounds_entered[p] = rounds_left[p] + One(position[p] \in {"called", "released"})
          /\ am_pool[p][Root] >= 0 /\ am_pool[Root][p] >= 0
          /\ Plains(am_wire[p][Root]) + am_pool[Root][p]
                = rounds_left[p] + One(position[p] = "released") - rounds_left[Root]
      BY <1>2 DEF ForProcess, RoundInv
    <3>2. Plains(am_wire[Root][p]) + am_pool[p][Root]
                = 2 * rounds_left[Root] + One(position[Root] = "reported")
                  - 2 * rounds_left[p] - One(position[p] = "released")
      BY <1>2 DEF ForProcess, RoundInv
    <3>3. Plains(d) + am_pool'[p][Root] = Plains(am_wire[Root][p]) + am_pool[p][Root]
      <4>1. Plains(am_wire[Root][p]) \in Nat /\ am_pool[p][Root] \in Nat
        BY <1>2, Numbers
      <4> QED BY <4>1, <1>6, <1>13
    <3>4. am_pool'[p][Root] >= 0
      BY <1>2, <1>13, Numbers
    <3> QED BY <3>1, <3>2, <3>3, <3>4, <1>7, <1>12, <1>13 DEF RoundInv
  <2>3. RegisterInv(p)'
    BY <1>1, <1>2, <1>4, <1>7, <1>10, <1>12, <1>13, RegisterSame DEF ForProcess, Quiet
  <2>4. InformedInv(p)'
    <3>1. am_pool'[p][Root] = am_pool[p][Root] + One(Head(am_wire[Root][p]).type = "plain")
      BY <1>3, <1>13 DEF One
    <3>2. Head(am_wire[Root][p]).type # "DistributeListenerAddresses"
      BY <1>3
    <3>3. am_wire'[Root][p] = Tail(am_wire[Root][p])
      BY <1>5, <1>7
    <3> QED BY <3>1, <3>2, <3>3, <1>1, <1>2, <1>4, <1>12, InformedTail DEF ForProcess
  <2> QED BY <2>1, <2>2, <2>3, <2>4 DEF ForProcess
<1> QED BY <1>4, <1>7, <1>9, <1>11, <1>14 DEF UcxxInv

\* A report arrives at the root: the address of the process came first.
LEMMA PlainUpKeeps ==
  ASSUME UcxxInv, NEW p \in Procs, am_wire[p][Root] # <<>>, deliver_plain(Root, p)
  PROVE  UcxxInv'
<1>1. MapTypes /\ MapInv /\ RoundTypes /\ WireTypes /\ WiresInv /\ RootInv /\ Root \in Procs
  BY RootAssumption DEF UcxxInv
<1>2. p \in Others /\ ForProcess(p) /\ p # Root
  <2>1. p # Root
    BY <1>1 DEF WiresInv
  <2> QED BY <2>1 DEF Others, UcxxInv
<1>3. /\ Head(am_wire[p][Root]).type = "plain" /\ MapUntouched /\ RoundsSame
      /\ am_pool' = [am_pool EXCEPT ![Root][p] = @ + 1]
      /\ am_wire' = [am_wire EXCEPT ![p][Root] = Tail(@)]
  BY DEF deliver_plain, sharedResources, options, rounds, MapUntouched, RoundsSame
<1>4. MapTypes' /\ MapInv' /\ Grows /\ next_rank' = next_rank
  BY <1>1, <1>3, MapKept
<1>5. PICK u : u = Tail(am_wire[p][Root])
  OBVIOUS
<1>6. /\ IsSeq(u) /\ Plains(u) = Plains(am_wire[p][Root]) - 1
      /\ Elems(u) \subseteq Elems(am_wire[p][Root])
      /\ am_wire[p][Root][1].type = "plain" /\ Len(am_wire[p][Root]) \in Nat /\ Len(am_wire[p][Root]) >= 1
  <2>1. /\ IsSeq(u) /\ Plains(u) = Plains(am_wire[p][Root]) - One(Head(am_wire[p][Root]).type = "plain")
        /\ Elems(u) \subseteq Elems(am_wire[p][Root])
        /\ Head(am_wire[p][Root]) = am_wire[p][Root][1]
        /\ Len(am_wire[p][Root]) \in Nat /\ Len(am_wire[p][Root]) >= 1
    BY <1>1, <1>5, TailFacts DEF WireTypes
  <2>2. One(Head(am_wire[p][Root]).type = "plain") = 1
    BY <1>3 DEF One
  <2> QED BY <2>1, <2>2, <1>3
<1>7. /\ WireTypes' /\ WiresInv' /\ am_wire'[p][Root] = u /\ am_wire'[Root][p] = am_wire[Root][p]
      /\ \A x \in Others \ {p} : Quiet(x) /\ Calm(x)
  <2>1. WiresOf(p, u, am_wire[Root][p])
    BY <1>1, <1>2, <1>3, <1>5 DEF WiresOf, WireTypes
  <2>2. TrueUp(p, u) /\ TrueDown(p, am_wire[Root][p])
    BY <1>1, <1>2, <1>5, Sending, Taking
  <2>3. IsSeq(am_wire[Root][p])
    BY <1>2, Numbers
  <2> QED BY <1>1, <1>2, <1>4, <1>6, <2>1, <2>2, <2>3, WiresStep
<1>8. /\ am_pool' \in [Procs -> [Procs -> Int]]
      /\ \A x, y \in Procs : am_pool'[x][y] = IF x = Root /\ y = p THEN am_pool[Root][p] + 1 ELSE am_pool[x][y]
  <2>1. am_pool \in [Procs -> [Procs -> Int]]
    BY <1>1 DEF RoundTypes
  <2> QED BY <2>1, <1>1, <1>3, PoolAdd
<1>9. RoundTypes'
  BY <1>1, <1>3, <1>8 DEF RoundTypes, RoundsSame
<1>10. \A x \in Procs : NoNew(x)
  BY <1>1, <1>4, NothingNew
<1>11. RootInv' /\ \A x \in Others \ {p} : ForProcess(x)'
  BY <1>1, <1>2, <1>3, <1>4, <1>7, <1>8, <1>10, OthersKept DEF Others
<1>12. position' = position /\ rounds_left' = rounds_left /\ rounds_entered' = rounds_entered /\ rank' = rank
  BY <1>3 DEF RoundsSame, MapUntouched
<1>13. am_pool'[Root][p] = am_pool[Root][p] + 1 /\ am_pool'[p][Root] = am_pool[p][Root]
  BY <1>1, <1>2, <1>8
<1>14. PlainsIn(am_wire[p][Root], 1) = 1
  <2>1. PlainsIn(am_wire[p][Root], 0) = 0
    <3>1. {k \in 1 .. 0 : am_wire[p][Root][k].type = "plain"} = {}
      OBVIOUS
    <3> QED BY <3>1, FS_EmptySet DEF PlainsIn
  <2>2. PlainsIn(am_wire[p][Root], 0 + 1) = PlainsIn(am_wire[p][Root], 0) + One(am_wire[p][Root][0 + 1].type = "plain")
    BY PlainsNext
  <2>3. 0 + 1 = 1
    OBVIOUS
  <2> QED BY <2>1, <2>2, <2>3, <1>6 DEF One
<1>15. ForProcess(p)'
  <2>1. ProcInv(p)'
    <3>1. Known(p)' <=> Known(p)
      BY <1>1, <1>2, <1>4, <1>10, KnownSame
    <3>2. position[p] # "start"
      BY <1>2 DEF ForProcess, ProcInv
    <3>3. ~ (position[p] = "get_rank" /\ ~ Known(p))
      BY <1>2, <1>6 DEF ForProcess, ProcInv, Request
    <3>4. Known(p) => \A m \in Elems(u) : m.type \notin Request
      BY <1>2, <1>6 DEF ForProcess, ProcInv
    <3>5. position[p] \in Past => rank[p] # -1 /\ rank[p] \in DOMAIN endpoint[p]
      BY <1>2 DEF ForProcess, ProcInv
    <3> QED BY <3>1, <3>2, <3>3, <3>4, <3>5, <1>3, <1>7, <1>12 DEF ProcInv, MapUntouched
  <2>2. RoundInv(p)'
    <3>1. /\ position[p] \in Past \cup {"start", "get_rank"}
          /\ position[p] \in {"start", "get_rank"} => rounds_entered[p] = 0
          /\ rounds_entered[p] = rounds_left[p] + One(position[p] \in {"called", "released"})
          /\ am_pool[p][Root] >= 0 /\ am_pool[Root][p] >= 0
          /\ Plains(am_wire[Root][p]) + am_pool[p][Root]
                = 2 * rounds_left[Root] + One(position[Root] = "reported")
                  - 2 * rounds_left[p] - One(position[p] = "released")
      BY <1>2 DEF ForProcess, RoundInv
    <3>2. Plains(am_wire[p][Root]) + am_pool[Root][p]
                = rounds_left[p] + One(position[p] = "released") - rounds_left[Root]
      BY <1>2 DEF ForProcess, RoundInv
    <3>3. Plains(u) + am_pool'[Root][p] = Plains(am_wire[p][Root]) + am_pool[Root][p]
      <4>1. Plains(am_wire[p][Root]) \in Nat /\ am_pool[Root][p] \in Nat
        BY <1>2, Numbers
      <4> QED BY <4>1, <1>6, <1>13, SMTT(40)
    <3>4. am_pool'[Root][p] >= 0
      BY <1>2, <1>13, Numbers
    <3> QED BY <3>1, <3>2, <3>3, <3>4, <1>7, <1>12, <1>13 DEF RoundInv
  <2>3. RegisterInv(p)'
    <3>1. ~ RegisterComes(p)
      <4> SUFFICES ASSUME NEW i \in 1 .. Len(am_wire[p][Root]), PlainsIn(am_wire[p][Root], i) = 0
                   PROVE  FALSE
        BY DEF RegisterComes
      <4>1. i \in Nat /\ 1 <= i
        BY <1>6
      <4>2. PlainsIn(am_wire[p][Root], 1) <= PlainsIn(am_wire[p][Root], i)
        BY <4>1, PlainsMonotone
      <4> QED BY <4>2, <1>14
    <3>2. position[p] \in Past => Registered(p)
      BY <3>1, <1>2 DEF ForProcess, RegisterInv
    <3>3. Registered(p) => Registered(p)'
      BY <1>1, <1>2, <1>4, <1>10, RegisteredStays
    <3> QED BY <3>2, <3>3, <1>12 DEF RegisterInv
  <2>4. InformedInv(p)'
    BY <1>2, <1>4, <1>7, <1>12, <1>13, InformedSame DEF ForProcess, Calm
  <2> QED BY <2>1, <2>2, <2>3, <2>4 DEF ForProcess
<1> QED BY <1>4, <1>7, <1>9, <1>11, <1>15 DEF UcxxInv

\* Neither the maps nor the wires change.
LEMMA Unmoved ==
  ASSUME UcxxInv, MapUntouched, am_wire' = am_wire
  PROVE  /\ MapTypes' /\ MapInv' /\ Grows /\ next_rank' = next_rank /\ WireTypes' /\ WiresInv'
         /\ \A q \in Others : Quiet(q) /\ Calm(q) /\ NoNew(q) /\ ForProcess(q) /\ q \in Procs
         /\ \A q \in Procs : (Known(q)' <=> Known(q))
<1>1. MapTypes /\ MapInv /\ WireTypes /\ WiresInv /\ \A q \in Others : ForProcess(q)
  BY DEF UcxxInv
<1>2. MapTypes' /\ MapInv' /\ Grows /\ next_rank' = next_rank
  BY <1>1, MapKept
<1>3. WireTypes' /\ WiresInv' /\ \A q \in Others : Quiet(q) /\ Calm(q)
  BY <1>1, <1>2, WiresSame
<1>4. \A q \in Procs : NoNew(q)
  BY <1>1, <1>2, NothingNew
<1>5. \A q \in Procs : (Known(q)' <=> Known(q))
  BY <1>1, <1>2, <1>4, KnownSame
<1> QED BY <1>1, <1>2, <1>3, <1>4, <1>5 DEF Others

LEMMA BarrierCallKeeps ==
  ASSUME UcxxInv, NEW p \in Procs, barrier_call(p)
  PROVE  UcxxInv'
<1>1. MapTypes /\ MapInv /\ RoundTypes /\ RootInv /\ Root \in Procs /\ position[p] = "idle"
  BY RootAssumption DEF UcxxInv, barrier_call
<1>2. /\ MapUntouched /\ UNCHANGED <<am_wire, am_pool, rounds_left, distributed>>
      /\ rounds_entered' = [rounds_entered EXCEPT ![p] = @ + 1]
      /\ position' = [position EXCEPT ![p] = IF p = Root THEN "all_connected" ELSE "called"]
  BY DEF barrier_call, sharedResources, options, MapUntouched
<1>3. /\ MapTypes' /\ MapInv' /\ Grows /\ next_rank' = next_rank /\ WireTypes' /\ WiresInv'
      /\ \A q \in Others : Quiet(q) /\ Calm(q) /\ NoNew(q) /\ ForProcess(q) /\ q \in Procs
      /\ \A q \in Procs : (Known(q)' <=> Known(q))
  BY <1>2, Unmoved
<1>4. /\ \A q \in Procs : /\ position'[q] = IF q = p THEN IF p = Root THEN "all_connected" ELSE "called"
                                            ELSE position[q]
                          /\ rounds_entered'[q] = IF q = p THEN rounds_entered[p] + 1 ELSE rounds_entered[q]
      /\ RoundTypes'
  BY <1>1, <1>2 DEF RoundTypes, Past
<1>5. /\ rounds_entered[p] \in Nat /\ rounds_left[p] \in Nat
  BY <1>1 DEF RoundTypes
<1>6. RootInv'
  <2>1. CASE p # Root
    <3>1. position'[Root] = position[Root] /\ rounds_entered'[Root] = rounds_entered[Root]
      BY <1>1, <1>4, <2>1
    <3> QED BY <3>1, <1>1, <1>2, <1>3, RootKept
  <2>2. CASE p = Root
    <3>1. /\ position'[Root] = "all_connected" /\ rounds_entered'[Root] = rounds_left'[Root] + 1
      BY <1>1, <1>2, <1>4, <1>5, <2>2 DEF RootInv, One
    <3> QED BY <3>1, <1>1, <1>2, <1>3 DEF RootInv, MapUntouched, One
  <2> QED BY <2>1, <2>2
<1>7. ASSUME NEW q \in Others PROVE ForProcess(q)'
  <2>1. q \in Procs /\ q # Root /\ ForProcess(q) /\ Quiet(q) /\ Calm(q) /\ NoNew(q)
    BY <1>3 DEF Others
  <2>2. (position'[Root] = "reported") <=> (position[Root] = "reported")
    BY <1>1, <1>4
  <2>3. CASE q # p
    <3>1. RoundUntouched(q)
      BY <1>2, <1>4, <2>1, <2>2, <2>3 DEF RoundUntouched
    <3> QED BY <3>1, <2>1, <1>1, <1>3, ProcessKept
  <2>4. CASE q = p
    <3>1. position'[q] = "called" /\ rounds_entered'[q] = rounds_entered[q] + 1 /\ position[q] = "idle"
      BY <1>1, <1>4, <2>1, <2>4
    <3>2. ProcInv(q)'
      BY <3>1, <2>1, <1>1, <1>2, <1>3 DEF ProcInv, ForProcess, Past, MapUntouched, Quiet
    <3>3. RoundInv(q)'
      BY <3>1, <2>1, <2>2, <2>4, <1>2, <1>5 DEF RoundInv, ForProcess, Past, One
    <3>4. RegisterInv(q)'
      BY <3>1, <2>1, <1>1, <1>2, <1>3, RegisterSame DEF ForProcess, Past
    <3>5. InformedInv(q)'
      BY <3>1, <2>1, <1>2, <1>3, InformedSame DEF ForProcess
    <3> QED BY <3>2, <3>3, <3>4, <3>5 DEF ForProcess
  <2> QED BY <2>3, <2>4
<1> QED BY <1>3, <1>4, <1>6, <1>7 DEF UcxxInv

\* Messages of the pool of p are received.
LEMMA ReceiveFacts ==
  ASSUME RoundTypes, NEW p \in Procs, NEW from, Receive(p, from)
  PROVE  /\ am_pool' \in [Procs -> [Procs -> Int]]
         /\ \A x, y \in Procs : am_pool'[x][y] = IF x = p /\ y \in from THEN am_pool[p][y] - 1
                                                 ELSE am_pool[x][y]
<1>1. am_pool \in [Procs -> [Procs -> Int]] /\ \A x, y \in Procs : am_pool[x][y] \in Int
  BY DEF RoundTypes
<1>2. PICK h : h = [q \in Procs |-> am_pool[p][q] - IF q \in from THEN 1 ELSE 0]
  OBVIOUS
<1>3. am_pool' = [am_pool EXCEPT ![p] = h]
  BY <1>2 DEF Receive
<1>4. h \in [Procs -> Int] /\ \A y \in Procs : h[y] = IF y \in from THEN am_pool[p][y] - 1 ELSE am_pool[p][y]
  BY <1>1, <1>2
<1>5. am_pool' \in [Procs -> [Procs -> Int]] /\ \A x \in Procs : am_pool'[x] = IF x = p THEN h ELSE am_pool[x]
  BY <1>1, <1>3, <1>4
<1> QED BY <1>4, <1>5

\* The balance of a process' plain messages when it reports and when it is released.
LEMMA ReportSum ==
  ASSUME NEW a \in Nat, NEW b \in Nat, NEW c \in Int, NEW x \in Nat, a + b = c - 2 * x - 0
  PROVE  a + (b - 1) = c - 2 * x - 1
OBVIOUS

LEMMA ReleaseSum ==
  ASSUME NEW a \in Nat, NEW b \in Nat, NEW c \in Int, NEW x \in Nat, a + b = c - 2 * x - 1
  PROVE  a + (b - 1) = c - 2 * (x + 1) - 0
OBVIOUS

LEMMA ReportKeeps ==
  ASSUME UcxxInv, NEW p \in Procs, report(p)
  PROVE  UcxxInv'
<1>1. MapTypes /\ MapInv /\ RoundTypes /\ WireTypes /\ WiresInv /\ RootInv /\ Root \in Procs
  BY RootAssumption DEF UcxxInv
<1>2. p \in Others /\ p # Root /\ ForProcess(p) /\ position[p] = "called" /\ am_pool[p][Root] > 0
  BY NotTheRoot DEF report
<1>3. /\ MapUntouched /\ UNCHANGED <<rounds_entered, rounds_left, distributed>>
      /\ Receive(p, {Root}) /\ AmSend(p, Root, Plain)
      /\ position' = [position EXCEPT ![p] = "released"]
  BY DEF report, sharedResources, options, rounds, MapUntouched
<1>4. MapTypes' /\ MapInv' /\ Grows /\ next_rank' = next_rank
  BY <1>1, <1>3, MapKept
<1>5. PICK m : m = Plain
  OBVIOUS
<1>6. m.type = "plain" /\ UpMsg(p, m)'
  BY <1>5 DEF Plain, UpMsg
<1>7. PICK u : u = Append(am_wire[p][Root], m)
  OBVIOUS
<1>8. IsSeq(u) /\ Plains(u) = Plains(am_wire[p][Root]) + 1 /\ Elems(u) = Elems(am_wire[p][Root]) \cup {m}
  <2>1. IsSeq(am_wire[p][Root])
    BY <1>2, Numbers
  <2>2. /\ IsSeq(Append(am_wire[p][Root], m))
        /\ Elems(Append(am_wire[p][Root], m)) = Elems(am_wire[p][Root]) \cup {m}
        /\ Plains(Append(am_wire[p][Root], m)) = Plains(am_wire[p][Root]) + IF m.type = "plain" THEN 1 ELSE 0
    BY <2>1, AppendFacts, AppendPlains
  <2> QED BY <2>2, <1>6, <1>7
<1>9. /\ WireTypes' /\ WiresInv' /\ am_wire'[p][Root] = u /\ am_wire'[Root][p] = am_wire[Root][p]
      /\ \A x \in Others \ {p} : Quiet(x) /\ Calm(x)
  <2>1. am_wire' = [am_wire EXCEPT ![p][Root] = u]
    BY <1>3, <1>5, <1>7 DEF AmSend
  <2>2. WiresOf(p, u, am_wire[Root][p])
    BY <2>1, <1>1, <1>2 DEF WiresOf, WireTypes
  <2>3. TrueUp(p, u) /\ TrueDown(p, am_wire[Root][p])
    BY <1>1, <1>2, <1>6, <1>7, Sending
  <2>4. IsSeq(am_wire[Root][p])
    BY <1>2, Numbers
  <2> QED BY <1>1, <1>2, <1>4, <1>8, <2>2, <2>3, <2>4, WiresStep
<1>10. /\ am_pool' \in [Procs -> [Procs -> Int]]
       /\ \A x, y \in Procs : am_pool'[x][y] = IF x = p /\ y \in {Root} THEN am_pool[p][y] - 1 ELSE am_pool[x][y]
  BY <1>1, <1>3, ReceiveFacts
<1>11. /\ \A q \in Procs : position'[q] = IF q = p THEN "released" ELSE position[q]
       /\ RoundTypes'
  BY <1>1, <1>3, <1>10 DEF RoundTypes, Past
<1>12. \A x \in Procs : NoNew(x)
  BY <1>1, <1>4, NothingNew
<1>13. RootInv'
  BY <1>1, <1>2, <1>3, <1>4, <1>11, RootKept
<1>14. ASSUME NEW q \in Others \ {p} PROVE ForProcess(q)'
  <2>1. q \in Procs /\ q # Root /\ ForProcess(q) /\ Quiet(q) /\ Calm(q) /\ NoNew(q)
    BY <1>9, <1>12 DEF Others, UcxxInv
  <2>2. RoundUntouched(q)
    BY <2>1, <1>1, <1>2, <1>3, <1>10, <1>11 DEF RoundUntouched
  <2> QED BY <2>1, <2>2, <1>1, <1>4, ProcessKept
<1>15. ForProcess(p)'
  <2>1. /\ position'[p] = "released" /\ position'[Root] = position[Root]
        /\ am_pool'[p][Root] = am_pool[p][Root] - 1 /\ am_pool'[Root][p] = am_pool[Root][p]
    BY <1>1, <1>2, <1>10, <1>11
  <2>2. ProcInv(p)'
    <3>1. Known(p)' <=> Known(p)
      BY <1>1, <1>4, <1>12, KnownSame
    <3>2. \A x \in Elems(u) : Known(p) => x.type \notin Request
      BY <1>2, <1>6, <1>8 DEF ForProcess, ProcInv, Request
    <3> QED BY <3>1, <3>2, <2>1, <1>2, <1>3, <1>9 DEF ForProcess, ProcInv, Past, MapUntouched
  <2>3. RoundInv(p)'
    <3>1. /\ Plains(am_wire[p][Root]) \in Nat /\ Plains(am_wire[Root][p]) \in Nat
          /\ am_pool[p][Root] \in Nat /\ am_pool[Root][p] \in Nat
          /\ rounds_left[p] \in Nat /\ rounds_left[Root] \in Nat /\ rounds_entered[p] \in Nat
      BY <1>2, Numbers
    <3>2. /\ rounds_entered[p] = rounds_left[p] + 1
          /\ Plains(am_wire[Root][p]) + am_pool[p][Root]
                = 2 * rounds_left[Root] + One(position[Root] = "reported") - 2 * rounds_left[p] - 0
          /\ Plains(am_wire[p][Root]) + am_pool[Root][p] = rounds_left[p] + 0 - rounds_left[Root]
      BY <1>2 DEF ForProcess, RoundInv, One
    <3>3. PICK c \in Int : c = 2 * rounds_left[Root] + One(position[Root] = "reported")
      BY <3>1 DEF One
    <3>4. /\ am_pool'[p][Root] >= 0 /\ am_pool'[Root][p] >= 0
          /\ Plains(am_wire[Root][p]) + am_pool'[p][Root] = c - 2 * rounds_left[p] - 1
          /\ Plains(u) + am_pool'[Root][p] = rounds_left[p] + 1 - rounds_left[Root]
      <4>1. /\ Plains(am_wire[Root][p]) + am_pool[p][Root] = c - 2 * rounds_left[p] - 0
            /\ Plains(u) = Plains(am_wire[p][Root]) + 1
        BY <3>1, <3>2, <3>3, <1>8 DEF One
      <4>2. Plains(am_wire[Root][p]) + (am_pool[p][Root] - 1) = c - 2 * rounds_left[p] - 1
        BY <3>1, <3>3, <4>1, ReportSum
      <4>3. Plains(u) + am_pool[Root][p] = rounds_left[p] + 1 - rounds_left[Root]
        <5>1. /\ Plains(am_wire[p][Root]) + am_pool[Root][p] = rounds_left[p] + 0 - rounds_left[Root]
              /\ Plains(u) = Plains(am_wire[p][Root]) + 1
          BY <3>2, <4>1
        <5> QED BY <3>1, <5>1
      <4> QED BY <3>1, <4>2, <4>3, <2>1, <1>2
    <3> QED BY <3>1, <3>2, <3>3, <3>4, <2>1, <1>3, <1>9 DEF RoundInv, Past, One
  <2>4. RegisterInv(p)'
    <3>1. am_wire'[p][Root] = Append(am_wire[p][Root], m)
      BY <1>7, <1>9
    <3> QED BY <3>1, <2>1, <1>1, <1>2, <1>3, <1>4, <1>12, RegisterAppend DEF ForProcess, Past
  <2>5. InformedInv(p)'
    <3>1. Informed(p) => Informed(p)'
      BY <1>4, InformedStays
    <3>2. AddressesCome(p) => AddressesCome(p)'
      <4> SUFFICES ASSUME NEW i \in 1 .. Len(am_wire[Root][p]),
                          am_wire[Root][p][i].type = "DistributeListenerAddresses",
                          PlainsIn(am_wire[Root][p], i) + am_pool[p][Root] + One(position[p] = "released") = 1
                   PROVE  AddressesCome(p)'
        BY DEF AddressesCome
      <4>1. PlainsIn(am_wire[Root][p], i) \in Nat /\ am_pool[p][Root] \in Nat
        <5>1. i \in Nat
          BY <1>2, Numbers
        <5> QED BY <5>1, <1>2, Numbers, PlainsType
      <4>2. PlainsIn(am_wire[Root][p], i) + am_pool'[p][Root] + One(position'[p] = "released") = 1
        BY <4>1, <2>1, <1>2 DEF One
      <4> QED BY <4>2, <1>9 DEF AddressesCome
    <3> QED BY <3>1, <3>2, <1>2, <1>3 DEF ForProcess, InformedInv
  <2> QED BY <2>2, <2>3, <2>4, <2>5 DEF ForProcess
<1> QED BY <1>4, <1>9, <1>11, <1>13, <1>14, <1>15 DEF UcxxInv

\* A release is preceded by the addresses.
LEMMA ReleasedKeeps ==
  ASSUME UcxxInv, NEW p \in Procs, released(p)
  PROVE  UcxxInv'
<1>1. MapTypes /\ MapInv /\ RoundTypes /\ WireTypes /\ WiresInv /\ RootInv /\ Root \in Procs
  BY RootAssumption DEF UcxxInv
<1>2. p \in Others /\ p # Root /\ ForProcess(p) /\ position[p] = "released" /\ am_pool[p][Root] > 0
  BY NotTheRoot DEF released
<1>3. /\ MapUntouched /\ UNCHANGED <<am_wire, rounds_entered, distributed>>
      /\ Receive(p, {Root}) /\ position' = [position EXCEPT ![p] = "idle"]
      /\ rounds_left' = [rounds_left EXCEPT ![p] = @ + 1]
  BY DEF released, sharedResources, options, MapUntouched
<1>4. /\ MapTypes' /\ MapInv' /\ Grows /\ next_rank' = next_rank /\ WireTypes' /\ WiresInv'
      /\ \A q \in Others : Quiet(q) /\ Calm(q) /\ NoNew(q) /\ ForProcess(q) /\ q \in Procs
      /\ \A q \in Procs : (Known(q)' <=> Known(q))
  BY <1>3, Unmoved
<1>5. /\ am_pool' \in [Procs -> [Procs -> Int]]
      /\ \A x, y \in Procs : am_pool'[x][y] = IF x = p /\ y \in {Root} THEN am_pool[p][y] - 1 ELSE am_pool[x][y]
  BY <1>1, <1>3, ReceiveFacts
<1>6. /\ \A q \in Procs : /\ position'[q] = IF q = p THEN "idle" ELSE position[q]
                          /\ rounds_left'[q] = IF q = p THEN rounds_left[p] + 1 ELSE rounds_left[q]
      /\ RoundTypes'
  <2>1. /\ rounds_left' \in [Procs -> Nat]
        /\ \A q \in Procs : rounds_left'[q] = IF q = p THEN rounds_left[p] + 1 ELSE rounds_left[q]
    BY <1>1, <1>3 DEF RoundTypes
  <2>2. /\ position' \in [Procs -> Past \cup {"start", "get_rank", "all_connected", "reported"}]
        /\ \A q \in Procs : position'[q] = IF q = p THEN "idle" ELSE position[q]
    BY <1>1, <1>3 DEF RoundTypes, Past
  <2> QED BY <2>1, <2>2, <1>1, <1>3, <1>5 DEF RoundTypes
<1>7. RootInv'
  BY <1>1, <1>2, <1>3, <1>4, <1>6, RootKept
<1>8. ASSUME NEW q \in Others \ {p} PROVE ForProcess(q)'
  <2>1. q \in Procs /\ q # Root /\ ForProcess(q) /\ Quiet(q) /\ Calm(q) /\ NoNew(q)
    BY <1>4 DEF Others
  <2>2. RoundUntouched(q)
    BY <2>1, <1>1, <1>2, <1>3, <1>5, <1>6 DEF RoundUntouched
  <2> QED BY <2>1, <2>2, <1>1, <1>4, ProcessKept
<1>9. ForProcess(p)'
  <2>1. /\ position'[p] = "idle" /\ position'[Root] = position[Root]
        /\ rounds_left'[p] = rounds_left[p] + 1 /\ rounds_left'[Root] = rounds_left[Root]
        /\ am_pool'[p][Root] = am_pool[p][Root] - 1 /\ am_pool'[Root][p] = am_pool[Root][p]
    BY <1>1, <1>2, <1>5, <1>6
  <2>2. ProcInv(p)'
    BY <2>1, <1>2, <1>3, <1>4 DEF ForProcess, ProcInv, Past, MapUntouched
  <2>3. RoundInv(p)'
    <3>1. /\ Plains(am_wire[p][Root]) \in Nat /\ Plains(am_wire[Root][p]) \in Nat
          /\ am_pool[p][Root] \in Nat /\ am_pool[Root][p] \in Nat
          /\ rounds_left[p] \in Nat /\ rounds_left[Root] \in Nat /\ rounds_entered[p] \in Nat
      BY <1>2, Numbers
    <3>2. /\ rounds_entered[p] = rounds_left[p] + 1
          /\ Plains(am_wire[Root][p]) + am_pool[p][Root]
                = 2 * rounds_left[Root] + One(position[Root] = "reported") - 2 * rounds_left[p] - 1
          /\ Plains(am_wire[p][Root]) + am_pool[Root][p] = rounds_left[p] + 1 - rounds_left[Root]
      BY <1>2 DEF ForProcess, RoundInv, One
    <3>3. PICK c \in Int : c = 2 * rounds_left[Root] + One(position[Root] = "reported")
      BY <3>1 DEF One
    <3>4. /\ am_pool'[p][Root] >= 0 /\ am_pool'[Root][p] >= 0
          /\ Plains(am_wire[Root][p]) + am_pool'[p][Root] = c - 2 * rounds_left'[p] - 0
          /\ Plains(am_wire[p][Root]) + am_pool'[Root][p] = rounds_left'[p] + 0 - rounds_left'[Root]
          /\ rounds_entered[p] = rounds_left'[p] + 0
      <4>1. Plains(am_wire[Root][p]) + am_pool[p][Root] = c - 2 * rounds_left[p] - 1
        BY <3>1, <3>2, <3>3 DEF One
      <4>2. Plains(am_wire[Root][p]) + (am_pool[p][Root] - 1) = c - 2 * (rounds_left[p] + 1) - 0
        <5>1. PICK x \in Nat : x = rounds_left[p]
          BY <3>1
        <5>2. PICK b \in Nat : b = am_pool[p][Root]
          BY <3>1
        <5>3. PICK a \in Nat : a = Plains(am_wire[Root][p])
          BY <3>1
        <5>4. a + b = c - 2 * x - 1
          BY <5>1, <5>2, <5>3, <4>1
        <5>5. a + (b - 1) = c - 2 * (x + 1) - 0
          BY <5>4, ReleaseSum
        <5> QED BY <5>1, <5>2, <5>3, <5>5
      <4> QED BY <3>1, <3>2, <4>2, <2>1, <1>2
    <3>5. /\ rounds_entered' = rounds_entered /\ am_wire' = am_wire /\ position'[p] = "idle"
          /\ c = 2 * rounds_left'[Root] + One(position'[Root] = "reported")
      BY <3>3, <2>1, <1>3 DEF One
    <3> QED BY <3>1, <3>4, <3>5, <2>1 DEF RoundInv, Past, One
  <2>4. RegisterInv(p)'
    BY <2>1, <1>1, <1>2, <1>4, RegisterSame DEF ForProcess, Past
  <2>5. InformedInv(p)'
    <3>1. Informed(p) => Informed(p)'
      BY <1>4, InformedStays
    <3>2. ~ AddressesCome(p)
      <4> SUFFICES ASSUME NEW i \in 1 .. Len(am_wire[Root][p]),
                          PlainsIn(am_wire[Root][p], i) + am_pool[p][Root] + One(position[p] = "released") = 1
                   PROVE  FALSE
        BY DEF AddressesCome
      <4>1. PlainsIn(am_wire[Root][p], i) \in Nat /\ am_pool[p][Root] \in Nat
        <5>1. i \in Nat
          BY <1>2, Numbers
        <5> QED BY <5>1, <1>2, Numbers, PlainsType
      <4> QED BY <4>1, <1>2 DEF One
    <3> QED BY <3>1, <3>2, <2>1, <1>2 DEF ForProcess, InformedInv
  <2> QED BY <2>2, <2>3, <2>4, <2>5 DEF ForProcess
<1> QED BY <1>4, <1>6, <1>7, <1>8, <1>9 DEF UcxxInv

LEMMA GetEndpointKeeps ==
  ASSUME UcxxInv, NEW p \in Procs, NEW r \in World, get_endpoint(p, r)
  PROVE  UcxxInv'
<1>1. MapTypes /\ MapInv /\ RoundTypes /\ WireTypes /\ WiresInv /\ RootInv /\ Root \in Procs
  BY RootAssumption DEF UcxxInv
<1>2. r \in Handed /\ address[p][r] = Holder(r)
  <2>1. r # -1 /\ r \in DOMAIN address[p]
    BY DEF get_endpoint, World
  <2>2. Agrees(address[p])
    BY <1>1 DEF MapInv
  <2> QED BY <2>1, <2>2 DEF Agrees
<1>3. MapTypes' /\ MapInv' /\ Grows /\ next_rank' = next_rank
  <2>1. /\ endpoint' = [endpoint EXCEPT ![p] = Emplace(@, Entry(r, Holder(r)))]
        /\ UNCHANGED <<rank, next_rank, address, by_host_port>>
    BY <1>2 DEF get_endpoint, options
  <2>2. IsSeq(delayed_callbacks') /\ Elems(delayed_callbacks') \subseteq Elems(delayed_callbacks)
    BY <1>1 DEF get_endpoint, MapTypes
  <2> QED BY <1>1, <1>2, <2>1, <2>2, EndpointAdded
<1>4. am_wire' = am_wire /\ am_pool' = am_pool /\ RoundsSame
  BY DEF get_endpoint, rounds, RoundsSame
<1>5. WireTypes' /\ WiresInv' /\ \A q \in Others : Quiet(q) /\ Calm(q)
  BY <1>1, <1>3, <1>4, WiresSame
<1>6. RoundTypes'
  BY <1>1, <1>4 DEF RoundTypes, RoundsSame
<1>7. RootInv'
  BY <1>1, <1>3, <1>4, RootKept DEF RoundsSame
<1>8. ASSUME NEW q \in Others PROVE ForProcess(q)'
  <2>1. q \in Procs /\ ForProcess(q) /\ NoNew(q) /\ RoundUntouched(q)
    BY <1>1, <1>3, <1>4, NothingNew DEF Others, UcxxInv, RoundUntouched, RoundsSame
  <2> QED BY <2>1, <1>1, <1>3, <1>5, ProcessKept
<1> QED BY <1>3, <1>5, <1>6, <1>7, <1>8 DEF UcxxInv

LEMMA StutterKeeps ==
  ASSUME UcxxInv, UNCHANGED ucxxVars
  PROVE  UcxxInv'
<1>1. MapTypes /\ MapInv /\ RoundTypes /\ RootInv
  BY DEF UcxxInv
<1>2. /\ MapUntouched /\ RoundsSame /\ am_wire' = am_wire /\ am_pool' = am_pool
  BY DEF ucxxVars, options, sharedResources, rounds, MapUntouched, RoundsSame
<1>3. /\ MapTypes' /\ MapInv' /\ Grows /\ next_rank' = next_rank /\ WireTypes' /\ WiresInv'
      /\ \A q \in Others : Quiet(q) /\ Calm(q) /\ NoNew(q) /\ ForProcess(q) /\ q \in Procs
  BY <1>2, Unmoved
<1>4. RoundTypes'
  BY <1>1, <1>2 DEF RoundTypes, RoundsSame
<1>5. RootInv'
  BY <1>1, <1>2, <1>3, RootKept DEF RoundsSame
<1>6. \A q \in Others : ForProcess(q)'
  <2>1. \A q \in Others : RoundUntouched(q)
    BY <1>2 DEF RoundUntouched, RoundsSame
  <2> QED BY <2>1, <1>1, <1>3, ProcessKept
<1> QED BY <1>3, <1>4, <1>5, <1>6 DEF UcxxInv

-----------------------------------------------------------------------------
(* The root calls everyone, and releases everyone.                         *)

\* One more message at the end, written as a concatenation.
LEMMA ConcatIs ==
  ASSUME NEW s, IsSeq(s), NEW m
  PROVE  s \o <<m>> = Append(s, m) /\ s \o <<>> = s
<1> DEFINE S == Elems(s) \cup {m}
<1>1. s \in Seq(S) /\ Len(s) \in Nat /\ m \in S
  BY SeqIs
<1> HIDE DEF S
<1> QED BY <1>1

LEMMA WiresDown ==
  ASSUME MapTypes, WireTypes, WiresInv, Grows, NEW D, am_wire' = [am_wire EXCEPT ![Root] = D],
         D = [q \in Procs |-> D[q]], D[Root] = am_wire[Root][Root],
         \A q \in Others : IsSeq(D[q]) /\ TrueDown(q, D[q])
  PROVE  /\ WireTypes' /\ WiresInv'
         /\ \A q \in Others : Quiet(q) /\ am_wire'[Root][q] = D[q]
<1>1. /\ \A x \in Procs : am_wire'[x] = IF x = Root THEN D ELSE am_wire[x]
      /\ am_wire' = [x \in Procs |-> am_wire'[x]]
  BY DEF WireTypes
<1>2. \A x \in Procs : am_wire[x] = [y \in Procs |-> am_wire[x][y]]
  BY DEF WireTypes
<1>3. /\ \A x, y \in Procs : am_wire'[x][y] = IF x = Root /\ y # Root THEN D[y] ELSE am_wire[x][y]
      /\ am_wire' = [x \in Procs |-> [y \in Procs |-> am_wire'[x][y]]]
  <2>1. \A x, y \in Procs : am_wire'[x][y] = IF x = Root /\ y # Root THEN D[y] ELSE am_wire[x][y]
    BY <1>1, RootAssumption
  <2>2. \A x \in Procs : am_wire'[x] = [y \in Procs |-> am_wire'[x][y]]
    BY <1>1, <1>2
  <2> QED BY <2>1, <2>2, <1>1
<1>4. WireTypes'
  <2>1. \A x, y \in Procs : IsSeq(am_wire'[x][y])
    BY <1>3 DEF WireTypes, Others
  <2> QED BY <2>1, <1>3 DEF WireTypes
<1>5. WiresInv'
  <2>1. \A a, b \in Procs : (a = Root) = (b = Root) => am_wire'[a][b] = <<>>
    BY <1>3 DEF WiresInv
  <2>2. \A a \in Procs : am_wire'[a][Root] = am_wire[a][Root]
    BY <1>3, RootAssumption
  <2>3. ASSUME NEW a \in Procs, NEW m \in Elems(am_wire'[a][Root]) PROVE UpMsg(a, m)'
    BY <2>2, <2>3, MessagesStay DEF WiresInv
  <2>4. ASSUME NEW a \in Procs, NEW m \in Elems(am_wire'[Root][a]) PROVE DownMsg(a, m)'
    <3>1. CASE a = Root
      <4>1. am_wire'[Root][a] = <<>>
        BY <3>1, <2>1
      <4>2. Elems(am_wire'[Root][a]) = {}
        BY <4>1, EmptyFacts
      <4> QED BY <2>4, <4>2
    <3>2. CASE a # Root
      <4>1. a \in Others /\ am_wire'[Root][a] = D[a]
        BY <3>2, <1>3, RootAssumption DEF Others
      <4>2. m \in Elems(am_wire[Root][a]) \/ DownMsg(a, m)'
        BY <4>1, <2>4 DEF TrueDown
      <4>3. m \in Elems(am_wire[Root][a]) => DownMsg(a, m)
        BY <2>4 DEF WiresInv
      <4> QED BY <4>2, <4>3, MessagesStay
    <3> QED BY <3>1, <3>2
  <2> QED BY <2>1, <2>3, <2>4 DEF WiresInv
<1> QED BY <1>3, <1>4, <1>5, RootAssumption DEF Quiet, Others

\* With an endpoint for every rank the root is connected to every other process.
LEMMA ConnectedIs ==
  ASSUME UcxxInv, DOMAIN endpoint[Root] = World, next_rank = WorldSize, \A p \in Procs : Known(p)
  PROVE  Connected = Others
<1>1. MapTypes /\ MapInv
  BY DEF UcxxInv
<1>2. Handed = World /\ 0 \in Handed /\ Holder(0) = Root
  BY <1>1 DEF MapInv, MapTypes, Handed, World
<1>3. \A r \in Handed : endpoint[Root][r] = Holder(r) /\ Holder(r) \in Procs
  BY <1>1, <1>2 DEF MapInv, Holder
<1>4. \A r \in Handed : r # 0 => Holder(r) # Root
  BY <1>1, <1>2 DEF MapInv
<1>5. Connected \subseteq Others
  BY <1>2, <1>3, <1>4 DEF Connected, Others
<1>6. ASSUME NEW p \in Others PROVE p \in Connected
  <2>1. PICK r \in Handed : Holder(r) = p
    BY DEF Others, Known
  <2>2. r # 0
    BY <2>1, <1>2 DEF Others
  <2> QED BY <2>1, <2>2, <1>2, <1>3 DEF Connected
<1> QED BY <1>5, <1>6

\* The root has an endpoint for every process: every rank is handed out.
LEMMA AllConnected ==
  ASSUME UcxxInv, Cardinality(DOMAIN endpoint[Root]) = WorldSize
  PROVE  DOMAIN endpoint[Root] = World /\ next_rank = WorldSize /\ \A p \in Procs : Known(p)
<1>1. MapTypes /\ MapInv /\ next_rank \in Nat
  BY DEF UcxxInv, MapTypes
<1>2. WorldSize \in Nat
  BY ProcsAssumption, FS_CardinalityType DEF WorldSize
<1>3. DOMAIN endpoint[Root] \subseteq Handed
  <2>1. Agrees(endpoint[Root]) /\ -1 \notin DOMAIN endpoint[Root]
    BY <1>1, RootAssumption DEF MapInv
  <2> QED BY <2>1 DEF Agrees
<1>4. PICK f : f = [r \in Handed |-> Holder(r)]
  OBVIOUS
<1>5. f \in Injection(Handed, Procs) /\ \A r \in Handed : f[r] = Holder(r)
  <2>1. \A r \in Handed : Holder(r) \in Procs
    BY <1>1 DEF MapInv
  <2>2. \A r, s \in Handed : Holder(r) = Holder(s) => r = s
    BY <1>1 DEF MapInv
  <2>3. f \in [Handed -> Procs] /\ \A r \in Handed : f[r] = Holder(r)
    BY <1>4, <2>1
  <2> QED BY <2>2, <2>3 DEF Injection, IsInjective
<1>6. PICK n \in Nat : n = next_rank
  BY <1>1
<1>7. IsFiniteSet(Handed) /\ Cardinality(Handed) = n
  <2>1. Handed = 0 .. n - 1
    BY <1>6 DEF Handed
  <2>2. IsFiniteSet(0 .. n - 1) /\ Cardinality(0 .. n - 1) = IF 0 > n - 1 THEN 0 ELSE (n - 1) - 0 + 1
    BY FS_Interval
  <2> QED BY <2>1, <2>2
<1>8. n <= WorldSize /\ (n = WorldSize => f \in Surjection(Handed, Procs))
  BY <1>5, <1>7, ProcsAssumption, FS_Injection DEF WorldSize
<1>9. WorldSize <= n /\ (WorldSize = n => DOMAIN endpoint[Root] = Handed)
  BY <1>3, <1>7, FS_Subset
<1>10. next_rank = WorldSize /\ DOMAIN endpoint[Root] = Handed /\ f \in Surjection(Handed, Procs)
  BY <1>2, <1>6, <1>8, <1>9
<1>11. \A p \in Procs : Known(p)
  BY <1>5, <1>10 DEF Surjection, Known
<1>12. Handed = World
  BY <1>10 DEF Handed, World
<1> QED BY <1>10, <1>11, <1>12

LEMMA RootCallsKeeps ==
  ASSUME UcxxInv, root_calls
  PROVE  UcxxInv'
<1>1. MapTypes /\ MapInv /\ RoundTypes /\ WireTypes /\ WiresInv /\ RootInv /\ Root \in Procs
  BY RootAssumption DEF UcxxInv
<1>2. DOMAIN endpoint[Root] = World /\ next_rank = WorldSize /\ \A p \in Procs : Known(p)
  BY AllConnected DEF root_calls
<1>3. Connected = Others
  BY <1>2, ConnectedIs
<1>4. /\ MapUntouched /\ UNCHANGED <<am_pool, rounds_entered, rounds_left, distributed>>
      /\ position[Root] = "all_connected" /\ position' = [position EXCEPT ![Root] = "reported"]
      /\ am_wire' = [am_wire EXCEPT ![Root] =
            [q \in Procs |-> IF q \in Others THEN Append(am_wire[Root][q], Plain) ELSE am_wire[Root][q]]]
  BY <1>3 DEF root_calls, sharedResources, options, rounds, MapUntouched
<1>5. MapTypes' /\ MapInv' /\ Grows /\ next_rank' = next_rank
  BY <1>1, <1>4, MapKept
<1>6. PICK m : m = Plain
  OBVIOUS
<1>7. m.type = "plain" /\ \A q \in Others : DownMsg(q, m)'
  BY <1>6 DEF Plain, DownMsg
<1>8. PICK D : D = [q \in Procs |-> IF q \in Others THEN Append(am_wire[Root][q], m) ELSE am_wire[Root][q]]
  OBVIOUS
<1>9. /\ am_wire' = [am_wire EXCEPT ![Root] = D] /\ D = [q \in Procs |-> D[q]]
      /\ D[Root] = am_wire[Root][Root] /\ \A q \in Others : D[q] = Append(am_wire[Root][q], m)
  BY <1>1, <1>4, <1>6, <1>8 DEF Others
<1>10. /\ WireTypes' /\ WiresInv'
       /\ \A q \in Others : Quiet(q) /\ am_wire'[Root][q] = Append(am_wire[Root][q], m)
  <2>1. ASSUME NEW q \in Others PROVE IsSeq(D[q]) /\ TrueDown(q, D[q])
    <3>1. IsSeq(am_wire[Root][q])
      BY Numbers
    <3>2. IsSeq(Append(am_wire[Root][q], m))
      BY <3>1, AppendFacts
    <3>3. TrueDown(q, Append(am_wire[Root][q], m))
      BY <1>1, <1>7, Sending
    <3> QED BY <3>2, <3>3, <1>9
  <2>2. /\ WireTypes' /\ WiresInv'
        /\ \A q \in Others : Quiet(q) /\ am_wire'[Root][q] = D[q]
    BY <1>1, <1>5, <1>9, <2>1, WiresDown
  <2> QED BY <2>2, <1>9
<1>11. /\ \A q \in Procs : position'[q] = IF q = Root THEN "reported" ELSE position[q]
       /\ RoundTypes'
  BY <1>1, <1>4 DEF RoundTypes
<1>12. \A q \in Procs : NoNew(q)
  BY <1>1, <1>5, NothingNew
<1>13. RootInv'
  <2>1. \A p \in Procs : Known(p)'
    BY <1>1, <1>2, <1>5, KnownStays
  <2>2. position'[Root] = "reported"
    BY <1>1, <1>11
  <2> QED BY <2>1, <2>2, <1>1, <1>2, <1>4 DEF RootInv, MapUntouched, One
<1>14. ASSUME NEW q \in Others PROVE ForProcess(q)'
  <2>1. q \in Procs /\ q # Root /\ ForProcess(q) /\ NoNew(q) /\ Quiet(q) /\ position'[q] = position[q]
    BY <1>10, <1>11, <1>12 DEF Others, UcxxInv
  <2>2. ProcInv(q)'
    BY <2>1, <1>1, <1>5, ProcSame DEF ForProcess
  <2>3. RoundInv(q)'
    <3>1. IsSeq(am_wire[Root][q]) /\ Plains(am_wire[Root][q]) \in Nat /\ am_pool[q][Root] \in Nat
          /\ rounds_left[q] \in Nat /\ rounds_left[Root] \in Nat
      BY Numbers
    <3>2. Plains(Append(am_wire[Root][q], m)) = Plains(am_wire[Root][q]) + IF m.type = "plain" THEN 1 ELSE 0
      BY <3>1, AppendPlains
    <3>3. Plains(am_wire'[Root][q]) = Plains(am_wire[Root][q]) + 1
      BY <3>2, <1>7, <1>10
    <3>4. position'[Root] = "reported" /\ position[Root] # "reported"
      BY <1>1, <1>4, <1>11
    <3>5. PICK e \in Int : e = One(position[q] = "released")
      BY DEF One
    <3>6. Plains(am_wire[Root][q]) + am_pool[q][Root] = 2 * rounds_left[Root] + 0 - 2 * rounds_left[q] - e
      BY <3>4, <3>5, <2>1 DEF ForProcess, RoundInv, One
    <3>7. Plains(am_wire'[Root][q]) + am_pool'[q][Root] = 2 * rounds_left'[Root] + 1 - 2 * rounds_left'[q] - e
      <4>1. PICK x \in Nat, w \in Nat, a \in Nat, b \in Nat :
               x = rounds_left[q] /\ w = rounds_left[Root] /\ a = Plains(am_wire[Root][q]) /\ b = am_pool[q][Root]
        BY <3>1
      <4>2. a + b = 2 * w + 0 - 2 * x - e
        BY <4>1, <3>6
      <4>3. (a + 1) + b = 2 * w + 1 - 2 * x - e
        BY <4>2
      <4> QED BY <4>1, <4>3, <3>3, <1>4
    <3>8. 2 * rounds_left'[Root] + 1 - 2 * rounds_left'[q] - e
             = 2 * rounds_left'[Root] + One(position'[Root] = "reported")
               - 2 * rounds_left'[q] - One(position'[q] = "released")
      BY <3>4, <3>5, <2>1 DEF One
    <3> QED BY <3>7, <3>8, <2>1, <1>4 DEF ForProcess, RoundInv, Quiet
  <2>4. RegisterInv(q)'
    BY <2>1, <1>1, <1>4, <1>5, RegisterSame DEF ForProcess
  <2>5. InformedInv(q)'
    BY <2>1, <1>1, <1>4, <1>5, <1>10, InformedAppend DEF ForProcess
  <2> QED BY <2>2, <2>3, <2>4, <2>5 DEF ForProcess
<1> QED BY <1>5, <1>10, <1>11, <1>13, <1>14 DEF UcxxInv

\* What the root sends to a process when it releases it: the addresses come before the release.
Addressing(a) == a.type = "DistributeListenerAddresses"
Releasing(m) == m.type = "plain"
ReleaseFollows(s, t) ==
    /\ Plains(t) = Plains(s) + 1
    /\ \E i \in 1 .. Len(t) : t[i].type = "DistributeListenerAddresses" /\ PlainsIn(t, i) = Plains(s)

LEMMA ReleaseMessages ==
  ASSUME NEW s, IsSeq(s), NEW a, Addressing(a), NEW m, Releasing(m)
  PROVE  /\ IsSeq(Append(Append(s, a), m))
         /\ Elems(Append(Append(s, a), m)) = Elems(s) \cup {a, m}
         /\ ReleaseFollows(s, Append(Append(s, a), m))
<1>1. PICK v : v = Append(s, a)
  OBVIOUS
<1>2. PICK t : t = Append(v, m)
  OBVIOUS
<1>3. Len(s) \in Nat /\ Plains(s) \in Nat
  BY PlainsType DEF IsSeq, Plains
<1>4. /\ IsSeq(v) /\ Len(v) = Len(s) + 1 /\ v[Len(s) + 1] = a /\ Elems(v) = Elems(s) \cup {a}
      /\ Plains(v) = Plains(s)
  <2>1. Plains(Append(s, a)) = Plains(s) + IF a.type = "plain" THEN 1 ELSE 0
    BY AppendPlains
  <2>2. Plains(v) = Plains(s)
    BY <2>1, <1>1, <1>3 DEF Addressing
  <2> QED BY <2>2, <1>1, AppendFacts
<1>5. /\ IsSeq(t) /\ Len(t) = Len(v) + 1 /\ \A i \in 1 .. Len(v) : t[i] = v[i]
      /\ Elems(t) = Elems(v) \cup {m} /\ \A n \in 0 .. Len(v) : PlainsIn(t, n) = PlainsIn(v, n)
      /\ Plains(t) = Plains(v) + 1
  <2>1. Plains(Append(v, m)) = Plains(v) + IF m.type = "plain" THEN 1 ELSE 0
    BY <1>4, AppendPlains
  <2> QED BY <2>1, <1>2, <1>4, AppendFacts DEF Releasing
<1>6. PICK k : k = Len(s) + 1
  OBVIOUS
<1>7. k \in Nat /\ k \in 1 .. Len(t) /\ k \in 1 .. Len(v) /\ k \in 0 .. Len(v) /\ k = Len(v)
  BY <1>3, <1>4, <1>5, <1>6
<1>8. t[k].type = "DistributeListenerAddresses" /\ PlainsIn(t, k) = Plains(s)
  BY <1>4, <1>5, <1>6, <1>7 DEF Plains, Addressing
<1>9. IsSeq(t) /\ Elems(t) = Elems(s) \cup {a, m} /\ ReleaseFollows(s, t)
  BY <1>3, <1>4, <1>5, <1>7, <1>8 DEF ReleaseFollows
<1> QED BY <1>1, <1>2, <1>9

\* The root has the reports of all, and with them all addresses.
LEMMA AllRegistered ==
  ASSUME UcxxInv, position[Root] = "reported", AllReported
  PROVE  /\ Connected = Others /\ World = Handed /\ World \subseteq DOMAIN address[Root]
         /\ \A q \in Others : position[q] \in Past /\ Registered(q) /\ am_pool[Root][q] > 0
<1>1. MapTypes /\ MapInv /\ RootInv
  BY DEF UcxxInv
<1>2. DOMAIN endpoint[Root] = World /\ next_rank = WorldSize /\ \A p \in Procs : Known(p)
  BY <1>1 DEF RootInv
<1>3. Connected = Others
  BY <1>2, ConnectedIs
<1>4. ASSUME NEW q \in Others PROVE position[q] \in Past /\ Registered(q) /\ am_pool[Root][q] > 0
  <2>1. ForProcess(q) /\ am_pool[Root][q] \in Nat
    BY Numbers
  <2>2. am_pool[Root][q] > 0
    BY <1>3 DEF AllReported
  <2>3. position[q] \in Past \cup {"start", "get_rank"}
    BY <2>1 DEF ForProcess, RoundInv
  <2>4. am_pool[Root][q] # 0
    BY <2>1, <2>2
  <2>5. position[q] \in Past
    BY <2>3, <2>4, NothingReported
  <2> QED BY <2>1, <2>2, <2>4, <2>5 DEF ForProcess, RegisterInv
<1>5. World = Handed
  BY <1>2 DEF World, Handed
<1>6. ASSUME NEW r \in World PROVE r \in DOMAIN address[Root]
  <2>1. r \in Handed /\ Holder(r) \in Procs
    BY <1>1, <1>5 DEF MapInv
  <2>2. CASE Holder(r) = Root
    <3>1. 0 \in Handed /\ Holder(0) = Root /\ 0 \in DOMAIN address[Root]
      BY <1>1 DEF MapInv, MapTypes, Handed
    <3> QED BY <3>1, <2>1, <2>2, <1>1 DEF MapInv
  <2>3. CASE Holder(r) # Root
    <3>1. Holder(r) \in Others
      BY <2>1, <2>3 DEF Others
    <3>2. Registered(Holder(r))
      BY <3>1, <1>4
    <3> QED BY <3>2, <2>1 DEF Registered
  <2> QED BY <2>2, <2>3
<1> QED BY <1>3, <1>4, <1>5, <1>6

\* What distribute_listener_addresses() sends is right and complete.
LEMMA AddressesAreTrue ==
  ASSUME UcxxInv, MapInv', MapUntouched, World = Handed, World \subseteq DOMAIN address[Root], NEW q, NEW a,
         a = [type |-> "DistributeListenerAddresses", addresses |-> AddressesFor(q)]
  PROVE  a.type = "DistributeListenerAddresses" /\ DownMsg(q, a)'
<1>1. MapTypes /\ MapInv /\ Agrees(address[Root]) /\ -1 \notin DOMAIN address[Root]
  BY RootAssumption DEF UcxxInv, MapInv
<1>2. PICK f : f = AddressesFor(q)
  OBVIOUS
<1>3. a.type = "DistributeListenerAddresses" /\ a.addresses = f
  BY <1>2
<1>4. /\ DOMAIN f = {r \in DOMAIN address[Root] : address[Root][r] # q}
      /\ \A r \in DOMAIN f : f[r] = address[Root][r]
  BY <1>2 DEF AddressesFor, Restrict
<1>5. Agrees(f) /\ -1 \notin DOMAIN f
  BY <1>1, <1>4 DEF Agrees
<1>6. \A r \in World : r \in DOMAIN f \/ (r \in Handed /\ Holder(r) = q)
  <2>1. \A r \in World : r # -1
    BY DEF World
  <2> QED BY <2>1, <1>1, <1>4 DEF Agrees
<1>7. DownMsg(q, a)
  BY <1>3, <1>5, <1>6 DEF DownMsg
<1>8. Grows
  BY <1>1, MapKept
<1> QED BY <1>1, <1>3, <1>7, <1>8, MessagesStay

LEMMA RootReleasesKeeps ==
  ASSUME UcxxInv, root_releases
  PROVE  UcxxInv'
<1>1. MapTypes /\ MapInv /\ RoundTypes /\ WireTypes /\ WiresInv /\ RootInv /\ Root \in Procs
  BY RootAssumption DEF UcxxInv
<1>2. /\ Connected = Others /\ World = Handed /\ World \subseteq DOMAIN address[Root]
      /\ \A q \in Others : position[q] \in Past /\ Registered(q) /\ am_pool[Root][q] > 0
  BY AllRegistered DEF root_releases
<1>3. /\ MapUntouched /\ rounds_entered' = rounds_entered /\ distributed' = TRUE
      /\ position[Root] = "reported" /\ position' = [position EXCEPT ![Root] = "idle"]
      /\ rounds_left' = [rounds_left EXCEPT ![Root] = @ + 1]
      /\ Receive(Root, Others)
      /\ am_wire' = [am_wire EXCEPT ![Root] =
            [q \in Procs |-> IF q \in Others THEN am_wire[Root][q] \o Distribution(q) \o <<Plain>>
                             ELSE am_wire[Root][q]]]
  BY <1>2 DEF root_releases, sharedResources, options, rounds, MapUntouched
<1>4. MapTypes' /\ MapInv' /\ Grows /\ next_rank' = next_rank
  BY <1>1, <1>3, MapKept
<1>5. /\ am_pool' \in [Procs -> [Procs -> Int]]
      /\ \A x, y \in Procs : am_pool'[x][y] = IF x = Root /\ y \in Others THEN am_pool[Root][y] - 1 ELSE am_pool[x][y]
  BY <1>1, <1>3, ReceiveFacts
<1>6. /\ \A q \in Procs : /\ position'[q] = IF q = Root THEN "idle" ELSE position[q]
                          /\ rounds_left'[q] = IF q = Root THEN rounds_left[Root] + 1 ELSE rounds_left[q]
      /\ RoundTypes'
  <2>1. /\ rounds_left' \in [Procs -> Nat]
        /\ \A q \in Procs : rounds_left'[q] = IF q = Root THEN rounds_left[Root] + 1 ELSE rounds_left[q]
    BY <1>1, <1>3 DEF RoundTypes
  <2>2. /\ position' \in [Procs -> Past \cup {"start", "get_rank", "all_connected", "reported"}]
        /\ \A q \in Procs : position'[q] = IF q = Root THEN "idle" ELSE position[q]
    BY <1>1, <1>3 DEF RoundTypes, Past
  <2> QED BY <2>1, <2>2, <1>1, <1>3, <1>5 DEF RoundTypes
<1>7. PICK m : m = Plain
  OBVIOUS
<1>8. m.type = "plain" /\ \A q \in Others : DownMsg(q, m)'
  BY <1>7 DEF Plain, DownMsg
<1>9. PICK A : A = [q \in Procs |-> [type |-> "DistributeListenerAddresses", addresses |-> AddressesFor(q)]]
  OBVIOUS
<1>10. \A q \in Others : A[q].type = "DistributeListenerAddresses" /\ DownMsg(q, A[q])'
  <2> SUFFICES ASSUME NEW q \in Others
               PROVE  A[q].type = "DistributeListenerAddresses" /\ DownMsg(q, A[q])'
    OBVIOUS
  <2>1. PICK a : a = [type |-> "DistributeListenerAddresses", addresses |-> AddressesFor(q)]
    OBVIOUS
  <2>2. A[q] = a
    BY <2>1, <1>9 DEF Others
  <2>3. a.type = "DistributeListenerAddresses" /\ DownMsg(q, a)'
    BY <2>1, <1>2, <1>3, <1>4, AddressesAreTrue
  <2> QED BY <2>2, <2>3
<1>11. PICK D : D = [q \in Procs |-> IF q \in Others THEN am_wire[Root][q] \o Distribution(q) \o <<m>>
                                    ELSE am_wire[Root][q]]
  OBVIOUS
<1>12. /\ am_wire' = [am_wire EXCEPT ![Root] = D] /\ D = [q \in Procs |-> D[q]]
       /\ D[Root] = am_wire[Root][Root]
       /\ \A q \in Others : D[q] = am_wire[Root][q] \o Distribution(q) \o <<m>>
  BY <1>1, <1>3, <1>7, <1>11 DEF Others
<1>13. ASSUME NEW q \in Others
       PROVE  /\ IsSeq(am_wire[Root][q]) /\ distributed \in BOOLEAN
              /\ distributed => D[q] = Append(am_wire[Root][q], m)
              /\ ~ distributed => D[q] = Append(Append(am_wire[Root][q], A[q]), m)
  <2>1. IsSeq(am_wire[Root][q]) /\ distributed \in BOOLEAN /\ q \in Procs
    BY <1>1, Numbers DEF RootInv
  <2>2. PICK s : s = am_wire[Root][q]
    OBVIOUS
  <2>3. CASE distributed
    <3>1. Distribution(q) = <<>>
      BY <2>3 DEF Distribution
    <3>2. D[q] = s \o <<>> \o <<m>>
      BY <3>1, <2>2, <1>12
    <3>3. s \o <<>> = s /\ s \o <<m>> = Append(s, m)
      BY <2>1, <2>2, ConcatIs
    <3> QED BY <3>2, <3>3, <2>1, <2>2, <2>3
  <2>4. CASE ~ distributed
    <3>1. PICK a : a = A[q]
      OBVIOUS
    <3>2. Distribution(q) = <<a>>
      BY <3>1, <2>1, <2>4, <1>9 DEF Distribution
    <3>3. PICK v : v = Append(s, a)
      OBVIOUS
    <3>4. s \o <<a>> = v /\ IsSeq(v)
      BY <3>3, <2>1, <2>2, ConcatIs, AppendFacts
    <3>5. v \o <<m>> = Append(v, m)
      BY <3>4, ConcatIs
    <3>6. D[q] = v \o <<m>>
      BY <3>2, <3>4, <2>2, <1>12
    <3> QED BY <3>1, <3>3, <3>5, <3>6, <2>1, <2>2, <2>4
  <2> QED BY <2>1, <2>3, <2>4
<1>14. ASSUME NEW q \in Others
       PROVE  /\ IsSeq(D[q]) /\ TrueDown(q, D[q]) /\ Plains(D[q]) = Plains(am_wire[Root][q]) + 1
              /\ ~ distributed => \E i \in 1 .. Len(D[q]) : /\ D[q][i].type = "DistributeListenerAddresses"
                                                            /\ PlainsIn(D[q], i) = Plains(am_wire[Root][q])
  <2>1. PICK s : s = am_wire[Root][q]
    OBVIOUS
  <2>2. PICK a : a = A[q]
    OBVIOUS
  <2>3. PICK t : t = D[q]
    OBVIOUS
  <2>4. a.type = "DistributeListenerAddresses" /\ DownMsg(q, a)' /\ DownMsg(q, m)' /\ IsSeq(s)
    BY <2>1, <2>2, <1>8, <1>10, <1>13
  <2>5. CASE distributed
    <3>1. t = Append(s, m)
      BY <2>1, <2>3, <2>5, <1>13
    <3>2. IsSeq(t) /\ Elems(t) = Elems(s) \cup {m}
      BY <3>1, <2>4, AppendFacts
    <3>3. Plains(Append(s, m)) = Plains(s) + IF m.type = "plain" THEN 1 ELSE 0
      BY <2>4, AppendPlains
    <3>4. Plains(t) = Plains(s) + 1
      BY <3>1, <3>3, <1>8
    <3>5. TrueDown(q, t)
      BY <3>2, <2>1, <2>4 DEF TrueDown
    <3> QED BY <3>2, <3>4, <3>5, <2>1, <2>3, <2>5
  <2>6. CASE ~ distributed
    <3>1. t = Append(Append(s, a), m)
      BY <2>1, <2>2, <2>3, <2>6, <1>13
    <3>2. IsSeq(t) /\ Elems(t) = Elems(s) \cup {a, m} /\ ReleaseFollows(s, t)
      <4>1. IsSeq(s) /\ Addressing(a) /\ Releasing(m)
        BY <2>4, <1>8 DEF Addressing, Releasing
      <4> QED BY <4>1, <3>1, ReleaseMessages
    <3>3. TrueDown(q, t)
      BY <3>2, <2>1, <2>4 DEF TrueDown
    <3> QED BY <3>2, <3>3, <2>1, <2>3 DEF ReleaseFollows
  <2> QED BY <2>5, <2>6, <1>13
<1>15. /\ WireTypes' /\ WiresInv'
       /\ \A q \in Others : Quiet(q) /\ am_wire'[Root][q] = D[q]
  BY <1>1, <1>4, <1>12, <1>14, WiresDown
<1>16. \A q \in Procs : NoNew(q)
  BY <1>1, <1>4, NothingNew
<1>17. RootInv'
  <2>1. DOMAIN endpoint[Root] = World /\ next_rank = WorldSize /\ \A p \in Procs : Known(p)
    BY <1>1, <1>3 DEF RootInv
  <2>2. \A p \in Procs : Known(p)'
    BY <2>1, <1>1, <1>4, KnownStays
  <2>3. /\ position'[Root] = "idle" /\ rounds_left'[Root] = rounds_left[Root] + 1
        /\ rounds_left[Root] \in Nat /\ rounds_entered[Root] = rounds_left[Root] + 1
    BY <1>1, <1>3, <1>6 DEF RoundTypes, RootInv, One
  <2>4. rounds_left'[Root] > 0 /\ rounds_entered'[Root] = rounds_left'[Root] + 0
    BY <2>3, <1>3
  <2> QED BY <2>1, <2>2, <2>3, <2>4, <1>2, <1>3 DEF RootInv, MapUntouched, One
<1>18. ASSUME NEW q \in Others PROVE ForProcess(q)'
  <2>1. /\ q \in Procs /\ q # Root /\ ForProcess(q) /\ NoNew(q) /\ Quiet(q) /\ position'[q] = position[q]
        /\ am_wire'[Root][q] = D[q] /\ position'[Root] = "idle" /\ position[Root] = "reported"
        /\ rounds_left'[q] = rounds_left[q] /\ rounds_left'[Root] = rounds_left[Root] + 1
        /\ am_pool'[q][Root] = am_pool[q][Root] /\ am_pool'[Root][q] = am_pool[Root][q] - 1
    BY <1>1, <1>3, <1>5, <1>6, <1>15, <1>16, Numbers
  <2>2. PICK x \in Nat, w \in Nat, a \in Nat, b \in Nat, c \in Nat, d \in Nat, e \in {0, 1} :
           /\ x = rounds_left[q] /\ w = rounds_left[Root]
           /\ a = Plains(am_wire[Root][q]) /\ b = am_pool[q][Root]
           /\ c = Plains(am_wire[q][Root]) /\ d = am_pool[Root][q]
           /\ e = One(position[q] = "released")
    <3>1. One(position[q] = "released") \in {0, 1}
      BY DEF One
    <3> QED BY <3>1, Numbers
  <2>3. a + b = 2 * w + 1 - 2 * x - e /\ c + d = x + e - w /\ d > 0
    BY <2>1, <2>2, <1>2 DEF ForProcess, RoundInv, One
  <2>4. ProcInv(q)'
    BY <2>1, <1>1, <1>4, ProcSame DEF ForProcess
  <2>5. RoundInv(q)'
    <3>1. (a + 1) + b = 2 * (w + 1) + 0 - 2 * x - e /\ c + (d - 1) = x + e - (w + 1) /\ d - 1 >= 0
      BY <2>3
    <3>2. Plains(am_wire'[Root][q]) = a + 1 /\ Plains(am_wire'[q][Root]) = c
      BY <2>1, <2>2, <1>14 DEF Quiet
    <3>3. Plains(am_wire'[Root][q]) + am_pool'[q][Root]
             = 2 * rounds_left'[Root] + 0 - 2 * rounds_left'[q] - e
      BY <3>1, <3>2, <2>1, <2>2
    <3>4. /\ Plains(am_wire'[q][Root]) + am_pool'[Root][q] = rounds_left'[q] + e - rounds_left'[Root]
          /\ am_pool'[Root][q] >= 0
      BY <3>1, <3>2, <2>1, <2>2
    <3>5. e = One(position'[q] = "released") /\ One(position'[Root] = "reported") = 0
      BY <2>1, <2>2 DEF One
    <3> QED BY <3>3, <3>4, <3>5, <2>1, <1>3 DEF ForProcess, RoundInv
  <2>6. RegisterInv(q)'
    <3>1. Registered(q)'
      BY <2>1, <1>1, <1>2, <1>4, RegisteredStays
    <3> QED BY <3>1 DEF RegisterInv
  <2>7. InformedInv(q)'
    <3>1. CASE distributed
      <4>1. rounds_left[Root] > 0 /\ am_wire'[Root][q] = Append(am_wire[Root][q], m)
        BY <3>1, <2>1, <1>1, <1>13 DEF RootInv
      <4> QED BY <4>1, <2>1, <1>1, <1>4, InformedAppend DEF ForProcess
    <3>2. CASE ~ distributed
      <4>1. w = 0
        BY <3>2, <2>2, <1>1 DEF RootInv
      <4>2. x = 0 /\ e = 1 /\ a + b = 0
        BY <4>1, <2>3
      <4>3. PICK i \in 1 .. Len(D[q]) : /\ D[q][i].type = "DistributeListenerAddresses"
                                        /\ PlainsIn(D[q], i) = Plains(am_wire[Root][q])
        BY <3>2, <1>14
      <4>4. PlainsIn(D[q], i) + am_pool'[q][Root] + One(position'[q] = "released") = 1
        <5>1. PlainsIn(D[q], i) = a /\ am_pool'[q][Root] = b /\ One(position'[q] = "released") = e
          BY <4>3, <2>1, <2>2
        <5> QED BY <5>1, <4>2
      <4>5. AddressesCome(q)'
        BY <4>3, <4>4, <2>1 DEF AddressesCome
      <4> QED BY <4>2, <4>5, <2>1, <2>2 DEF InformedInv
    <3> QED BY <3>1, <3>2, <1>13
  <2> QED BY <2>4, <2>5, <2>6, <2>7 DEF ForProcess
<1> QED BY <1>4, <1>6, <1>15, <1>17, <1>18 DEF UcxxInv

-----------------------------------------------------------------------------
(* The invariant of the start-up, and what it shows.                       *)

LEMMA UcxxBegins == ASSUME UcxxInit PROVE UcxxInv
<1>1. Root \in Procs /\ WorldSize \in Nat
  BY RootAssumption, ProcsAssumption, FS_CardinalityType DEF WorldSize
<1>2. /\ rank = [p \in Procs |-> IF p = Root THEN 0 ELSE -1] /\ next_rank = 1
      /\ endpoint = [p \in Procs |-> IF p = Root THEN Entry(0, p) ELSE <<>>]
      /\ address = [p \in Procs |-> Entry(rank[p], p)]
      /\ delayed_callbacks = <<>> /\ distributed = FALSE /\ by_host_port \in BOOLEAN
  BY DEF UcxxInit
<1>3. /\ am_wire = [p \in Procs |-> [q \in Procs |-> <<>>]]
      /\ am_pool = [p \in Procs |-> [q \in Procs |-> 0]]
      /\ position = [p \in Procs |-> IF p = Root THEN "idle" ELSE "start"]
      /\ rounds_entered = [p \in Procs |-> 0] /\ rounds_left = [p \in Procs |-> 0]
  BY DEF UcxxInit
<1>4. IsSeq(<<>>) /\ Elems(<<>>) = {} /\ Plains(<<>>) = 0
  BY EmptyFacts
<1>5. /\ MapTypes /\ Handed = {0}
  <2>1. rank \in [Procs -> Int]
    BY <1>2
  <2>2. Handed = {0}
    BY <1>2 DEF Handed
  <2> QED BY <2>1, <2>2, <1>2, <1>4 DEF MapTypes
<1>6. \A p, q \in Procs : am_wire[p][q] = <<>>
  BY <1>3
<1>7. /\ DOMAIN endpoint[Root] = {0} /\ endpoint[Root][0] = Root
      /\ \A p \in Procs \ {Root} : DOMAIN endpoint[p] = {}
      /\ \A p \in Procs : DOMAIN address[p] = {rank[p]} /\ address[p][rank[p]] = p
      /\ rank[Root] = 0 /\ \A p \in Procs \ {Root} : rank[p] = -1
  BY <1>1, <1>2 DEF Entry
<1>8. Holder(0) = Root
  BY <1>7 DEF Holder
<1>9. \A p \in Procs : Known(p) <=> p = Root
  BY <1>5, <1>8 DEF Known
<1>10. MapInv
  <2>1. \A p \in Procs : Agrees(endpoint[p]) /\ Agrees(address[p])
    BY <1>5, <1>7, <1>8 DEF Agrees
  <2>2. \A p \in Procs : \A r \in Int \ {-1} : rank[p] = r => r \in Handed /\ Holder(r) = p
    BY <1>5, <1>7, <1>8
  <2>3. DOMAIN address[Root] = {0} /\ next_rank > 0
    BY <1>1, <1>2, <1>7
  <2> QED BY <2>1, <2>2, <2>3, <1>1, <1>2, <1>4, <1>5, <1>7, <1>8 DEF MapInv
<1>11. RoundTypes
  BY <1>3 DEF RoundTypes, Past
<1>12. WireTypes
  BY <1>3, <1>4, <1>6 DEF WireTypes
<1>13. WiresInv
  BY <1>1, <1>4, <1>6 DEF WiresInv
<1>14. RootInv
  <2>1. position[Root] = "idle" /\ rounds_entered[Root] = 0 /\ rounds_left[Root] = 0
    BY <1>1, <1>3
  <2>2. distributed \in BOOLEAN /\ (distributed <=> rounds_left[Root] > 0)
    <3>1. ~ (rounds_left[Root] > 0)
      BY <2>1
    <3>2. distributed = FALSE
      BY <1>2
    <3> QED BY <3>1, <3>2, Zenon
  <2>3. rounds_entered[Root] = rounds_left[Root] + One(position[Root] # "idle")
    BY <2>1 DEF One
  <2> QED BY <2>1, <2>2, <2>3 DEF RootInv
<1>15. ASSUME NEW p \in Others PROVE ForProcess(p)
  <2>1. /\ p \in Procs /\ p # Root /\ position[p] = "start" /\ position[Root] = "idle"
        /\ rounds_entered[p] = 0 /\ rounds_left[p] = 0 /\ rounds_left[Root] = 0
        /\ am_pool[p][Root] = 0 /\ am_pool[Root][p] = 0
    BY <1>1, <1>3 DEF Others
  <2>2. am_wire[p][Root] = <<>> /\ am_wire[Root][p] = <<>> /\ ~ Known(p)
    BY <2>1, <1>1, <1>6, <1>9
  <2>3. ProcInv(p)
    BY <2>1, <2>2 DEF ProcInv, Past
  <2>4. RoundInv(p)
    BY <2>1, <2>2, <1>4 DEF RoundInv, One
  <2>5. RegisterInv(p) /\ InformedInv(p)
    BY <2>1 DEF RegisterInv, InformedInv, Past
  <2> QED BY <2>3, <2>4, <2>5 DEF ForProcess
<1> QED BY <1>5, <1>10, <1>11, <1>12, <1>13, <1>14, <1>15 DEF UcxxInv

LEMMA UcxxStepKeeps == ASSUME UcxxInv, [UcxxNext]_ucxxVars PROVE UcxxInv'
<1>1. CASE root_step
  BY <1>1, RootCallsKeeps, RootReleasesKeeps, CallbackKeeps DEF root_step
<1>2. ASSUME NEW p \in Procs, proc_step(p) PROVE UcxxInv'
  BY <1>2, ConnectKeeps, RankKnownKeeps, BarrierCallKeeps, ReportKeeps, ReleasedKeeps DEF proc_step
<1>3. ASSUME NEW p \in Procs, NEW r \in World, get_endpoint(p, r) PROVE UcxxInv'
  BY <1>3, GetEndpointKeeps
<1>4. ASSUME NEW p \in Procs, NEW q \in Procs, worker_progress(q, p) PROVE UcxxInv'
  <2>1. am_wire[p][q] # <<>>
    BY <1>4 DEF worker_progress
  <2>2. CASE deliver_control(q, p)
    <3>1. Head(am_wire[p][q]).type \in {"AssignRank", "DistributeListenerAddresses", "RegisterListenerAddress"}
      BY <2>2 DEF deliver_control
    <3> QED BY <3>1, <2>1, <2>2, AssignRankKeeps, DistributeKeeps, RegisterKeeps
  <2>3. CASE deliver_plain(q, p)
    <3>1. (p = Root) # (q = Root)
      BY <2>1 DEF UcxxInv, WiresInv
    <3>2. CASE q = Root
      BY <3>2, <2>1, <2>3, PlainUpKeeps
    <3>3. CASE p = Root
      BY <3>1, <3>3, <2>1, <2>3, PlainDownKeeps
    <3> QED BY <3>1, <3>2, <3>3
  <2>4. CASE q = Root /\ (deliver_query(p) \/ listener_callback(p))
    BY <2>1, <2>4, QueryKeeps
  <2> QED BY <2>2, <2>3, <2>4, <1>4 DEF worker_progress
<1>5. CASE UNCHANGED ucxxVars
  BY <1>5, StutterKeeps
<1> QED BY <1>1, <1>2, <1>3, <1>4, <1>5 DEF UcxxNext

\* The last report: everyone has entered the barrier.
LEMMA RootLeaves ==
  ASSUME UcxxInv, root_releases
  PROVE  UcxxContract!Leave(Root)
<1>1. /\ RootInv /\ RoundTypes /\ Root \in Procs /\ position[Root] = "reported"
      /\ rounds_left' = [rounds_left EXCEPT ![Root] = @ + 1] /\ rounds_entered' = rounds_entered
  BY RootAssumption DEF UcxxInv, root_releases, rounds
<1>2. rounds_entered[Root] = rounds_left[Root] + 1 /\ rounds_left[Root] \in Nat
  BY <1>1 DEF RootInv, RoundTypes, One
<1>3. ASSUME NEW q \in Procs PROVE rounds_entered[q] >= rounds_entered[Root]
  <2>1. CASE q = Root
    BY <2>1, <1>2
  <2>2. CASE q # Root
    <3>1. q \in Others
      BY <2>2 DEF Others
    <3>2. am_pool[Root][q] > 0
      BY <3>1, AllRegistered DEF root_releases
    <3>3. /\ rounds_left[q] \in Nat /\ rounds_entered[q] \in Nat /\ am_pool[Root][q] \in Nat
          /\ Plains(am_wire[q][Root]) \in Nat /\ ForProcess(q)
      BY <3>1, Numbers
    <3>4. /\ rounds_entered[q] = rounds_left[q] + One(position[q] \in {"called", "released"})
          /\ Plains(am_wire[q][Root]) + am_pool[Root][q]
                = rounds_left[q] + One(position[q] = "released") - rounds_left[Root]
      BY <3>3 DEF ForProcess, RoundInv
    <3> QED BY <3>2, <3>3, <3>4, <1>2 DEF One
  <2> QED BY <2>1, <2>2
<1> QED BY <1>1, <1>2, <1>3 DEF UcxxContract!Leave

\* A release: the root had the reports of all.
LEMMA ProcLeaves ==
  ASSUME UcxxInv, NEW p \in Procs, released(p)
  PROVE  UcxxContract!Leave(p)
<1>1. p \in Others /\ p # Root /\ ForProcess(p) /\ position[p] = "released" /\ am_pool[p][Root] > 0
  BY NotTheRoot DEF released
<1>2. /\ RootInv /\ RoundTypes /\ Root \in Procs
      /\ rounds_left' = [rounds_left EXCEPT ![p] = @ + 1] /\ rounds_entered' = rounds_entered
  BY RootAssumption DEF UcxxInv, released
<1>3. /\ rounds_left[p] \in Nat /\ rounds_entered[p] \in Nat /\ am_pool[p][Root] \in Nat
      /\ rounds_left[Root] \in Nat /\ rounds_entered[Root] \in Nat /\ Plains(am_wire[Root][p]) \in Nat
  BY <1>1, Numbers
<1>4. /\ rounds_entered[p] = rounds_left[p] + 1
      /\ Plains(am_wire[Root][p]) + am_pool[p][Root]
            = 2 * rounds_left[Root] + One(position[Root] = "reported") - 2 * rounds_left[p] - 1
  BY <1>1 DEF ForProcess, RoundInv, One
<1>5. rounds_left[Root] >= rounds_entered[p]
  <2>1. PICK x \in Nat, w \in Nat, a \in Nat, b \in Nat, e \in {0, 1} :
           /\ x = rounds_left[p] /\ w = rounds_left[Root] /\ a = Plains(am_wire[Root][p])
           /\ b = am_pool[p][Root] /\ e = One(position[Root] = "reported")
    BY <1>3 DEF One
  <2>2. a + b = 2 * w + e - 2 * x - 1 /\ b > 0
    BY <2>1, <1>1, <1>4
  <2>3. w >= x + 1
    BY <2>2
  <2> QED BY <2>1, <2>3, <1>4
<1>6. ASSUME NEW q \in Procs PROVE rounds_entered[q] >= rounds_entered[p]
  <2>1. CASE q = Root
    <3>1. rounds_entered[Root] >= rounds_left[Root]
      BY <1>2, <1>3 DEF RootInv, One
    <3> QED BY <2>1, <3>1, <1>3, <1>5
  <2>2. CASE q # Root
    <3>1. q \in Others
      BY <2>2 DEF Others
    <3>2. /\ rounds_left[q] \in Nat /\ rounds_entered[q] \in Nat /\ am_pool[Root][q] \in Nat
          /\ Plains(am_wire[q][Root]) \in Nat /\ ForProcess(q)
      BY <3>1, Numbers
    <3>3. /\ rounds_entered[q] = rounds_left[q] + One(position[q] \in {"called", "released"})
          /\ Plains(am_wire[q][Root]) + am_pool[Root][q]
                = rounds_left[q] + One(position[q] = "released") - rounds_left[Root]
      BY <3>2 DEF ForProcess, RoundInv
    <3>4. rounds_entered[q] >= rounds_left[Root]
      BY <3>2, <3>3, <1>3 DEF One
    <3> QED BY <3>2, <3>4, <1>3, <1>5
  <2> QED BY <2>1, <2>2
<1> QED BY <1>2, <1>3, <1>4, <1>6 DEF UcxxContract!Leave

LEMMA ProcEnters ==
  ASSUME UcxxInv, NEW p \in Procs, barrier_call(p)
  PROVE  UcxxContract!Enter(p)
<1>1. /\ position[p] = "idle" /\ rounds_entered' = [rounds_entered EXCEPT ![p] = @ + 1]
      /\ rounds_left' = rounds_left
  BY DEF barrier_call
<1>2. rounds_entered[p] = rounds_left[p]
  <2>1. RoundTypes /\ RootInv /\ rounds_left[p] \in Nat
    BY DEF UcxxInv, RoundTypes
  <2>2. CASE p = Root
    BY <2>1, <2>2, <1>1 DEF RootInv, One
  <2>3. CASE p # Root
    <3>1. RoundInv(p)
      BY <2>3 DEF UcxxInv, Others, ForProcess
    <3> QED BY <3>1, <2>1, <1>1 DEF RoundInv, One
  <2> QED BY <2>2, <2>3
<1> QED BY <1>1, <1>2 DEF UcxxContract!Enter

LEMMA BarrierStep ==
  ASSUME UcxxInv, [UcxxNext]_ucxxVars
  PROVE  [UcxxContract!Next]_(UcxxContract!contractVars)
<1>1. ASSUME rounds_entered' = rounds_entered, rounds_left' = rounds_left
      PROVE  UNCHANGED UcxxContract!contractVars
  BY <1>1 DEF UcxxContract!contractVars
<1>2. CASE root_step
  <2>1. CASE root_releases
    BY <2>1, RootLeaves, RootAssumption DEF UcxxContract!Next
  <2>2. CASE root_calls \/ delayed_progress_callback
    BY <2>2, <1>1 DEF root_calls, delayed_progress_callback, rounds
  <2> QED BY <2>1, <2>2, <1>2 DEF root_step
<1>3. ASSUME NEW p \in Procs, proc_step(p) PROVE [UcxxContract!Next]_(UcxxContract!contractVars)
  <2>1. CASE released(p)
    BY <2>1, ProcLeaves DEF UcxxContract!Next
  <2>2. CASE barrier_call(p)
    BY <2>2, ProcEnters DEF UcxxContract!Next
  <2>3. CASE connect_to_root(p) \/ rank_known(p) \/ report(p)
    BY <2>3, <1>1 DEF connect_to_root, rank_known, report, rounds
  <2> QED BY <2>1, <2>2, <2>3, <1>3 DEF proc_step
<1>4. ASSUME NEW p \in Procs, NEW r \in World, get_endpoint(p, r)
      PROVE  [UcxxContract!Next]_(UcxxContract!contractVars)
  BY <1>1, <1>4 DEF get_endpoint, rounds
<1>5. ASSUME NEW p \in Procs, NEW q \in Procs, worker_progress(q, p)
      PROVE  [UcxxContract!Next]_(UcxxContract!contractVars)
  <2>1. UNCHANGED rounds
    BY <1>5 DEF worker_progress, deliver_control, deliver_plain, deliver_query, listener_callback
  <2> QED BY <2>1, <1>1 DEF rounds
<1>6. CASE UNCHANGED ucxxVars
  BY <1>6, <1>1 DEF ucxxVars, rounds
<1> QED BY <1>2, <1>3, <1>4, <1>5, <1>6 DEF UcxxNext

LEMMA RanksAreReachable == ASSUME UcxxInv PROVE EveryRankIsReachable
<1> SUFFICES ASSUME NEW p \in Procs, rounds_left[p] > 0, NEW r \in World
             PROVE  /\ r \in DOMAIN Emplace(endpoint[p], address[p])
                    /\ rank[Emplace(endpoint[p], address[p])[r]] = r
  BY DEF EveryRankIsReachable
<1>1. MapTypes /\ MapInv /\ RoundTypes /\ RootInv /\ Root \in Procs
  BY RootAssumption DEF UcxxInv
\* The root has left the barrier, and everyone was in it.
<1>2. rounds_left[Root] > 0
  <2>1. CASE p = Root
    BY <2>1
  <2>2. CASE p # Root
    <3>1. p \in Others
      BY <2>2 DEF Others
    <3>2. PICK x \in Nat, w \in Nat, a \in Nat, b \in Nat, e \in {0, 1}, f \in {0, 1} :
             /\ x = rounds_left[p] /\ w = rounds_left[Root] /\ a = Plains(am_wire[Root][p])
             /\ b = am_pool[p][Root] /\ e = One(position[Root] = "reported")
             /\ f = One(position[p] = "released")
      BY <3>1, Numbers DEF One
    <3>3. a + b = 2 * w + e - 2 * x - f /\ x > 0
      <4>1. RoundInv(p)
        BY <3>1, Numbers DEF ForProcess
      <4> QED BY <4>1, <3>2 DEF RoundInv
    <3>4. w > 0
      BY <3>3
    <3> QED BY <3>2, <3>4
  <2> QED BY <2>1, <2>2
<1>3. next_rank = WorldSize /\ Handed = World /\ World \subseteq DOMAIN address[Root]
  BY <1>1, <1>2 DEF RootInv, Handed, World
<1>4. r \in DOMAIN endpoint[p] \cup DOMAIN address[p]
  <2>1. CASE p = Root
    BY <2>1, <1>3
  <2>2. CASE p # Root
    <3>1. InformedInv(p)
      BY <2>2 DEF UcxxInv, Others, ForProcess
    <3>2. Informed(p)
      BY <3>1, <1>2 DEF InformedInv
    <3> QED BY <3>2 DEF Informed
  <2> QED BY <2>1, <2>2
<1>5. PICK known : known = Emplace(endpoint[p], address[p])
  OBVIOUS
<1>6. /\ DOMAIN known = DOMAIN endpoint[p] \cup DOMAIN address[p]
      /\ \A x \in DOMAIN known : known[x] = IF x \in DOMAIN endpoint[p] THEN endpoint[p][x] ELSE address[p][x]
  BY <1>5 DEF Emplace
<1>7. known[r] = Holder(r)
  <2>1. Agrees(endpoint[p]) /\ Agrees(address[p])
    BY <1>1 DEF MapInv
  <2>2. r # -1
    BY DEF World
  <2> QED BY <2>1, <2>2, <1>4, <1>6 DEF Agrees
<1>8. PICK h : h = Holder(r)
  OBVIOUS
<1>9. h \in Procs /\ r \in Handed
  BY <1>1, <1>3, <1>8 DEF MapInv
<1>10. rank[h] # -1
  <2>1. CASE h = Root
    BY <2>1, <1>1 DEF MapInv
  <2>2. CASE h # Root
    <3>1. h \in Others /\ ForProcess(h)
      BY <2>2, <1>9 DEF Others, UcxxInv
    <3>2. position[h] \in Past \cup {"start", "get_rank"}
      BY <3>1 DEF ForProcess, RoundInv
    <3>3. position[h] \notin {"start", "get_rank"}
      BY <3>1, <1>2, NothingReported
    <3> QED BY <3>1, <3>2, <3>3 DEF ForProcess, ProcInv
  <2> QED BY <2>1, <2>2
<1>11. PICK k : k = rank[h]
  OBVIOUS
<1>12. k \in Handed /\ Holder(k) = h
  BY <1>1, <1>9, <1>10, <1>11, RankedIsKnown
<1>13. k = r
  BY <1>1, <1>8, <1>9, <1>12 DEF MapInv
<1> QED BY <1>4, <1>5, <1>6, <1>7, <1>8, <1>11, <1>13

\* The part of the composition that is the start-up of UCXX.
LEMMA UcxxPart ==
  /\ Init => UcxxInit
  /\ [Next]_vars => [UcxxNext]_ucxxVars
BY DEF Init, Next, vars

LEMMA UcxxInvariant == Spec => []UcxxInv
<1>1. Init => UcxxInv
  BY UcxxPart, UcxxBegins
<1>2. UcxxInv /\ [Next]_vars => UcxxInv'
  BY UcxxPart, UcxxStepKeeps
<1> QED BY <1>1, <1>2, PTL DEF Spec

\* Once barrier() has returned to a process, for the first time, that process finds for every
\* rank an endpoint or a listener address, and it is that of the process with this rank.
THEOREM RanksReachable == Spec => []EveryRankIsReachable
BY UcxxInvariant, RanksAreReachable, PTL

\* The barrier that UCXX builds from messages, and the three bootstrap backends, keep the
\* contract of Backend: nobody leaves a barrier before everyone has entered it.
THEOREM ContractKept == Spec => KeepsContract
<1>1. Spec => BootstrapSpec
  <2>1. Init => BootstrapInit
    BY DEF Init
  <2>2. [Next]_vars => [BootstrapNext]_bootstrapVars
    BY DEF Next, vars
  <2> QED BY <2>1, <2>2, PTL DEF Spec, BootstrapSpec
<1>2. Spec => BarrierRefinement
  <2>1. Init => UcxxContract!Init
    BY UcxxPart DEF UcxxInit, UcxxContract!Init
  <2>2. UcxxInv /\ [Next]_vars => [UcxxContract!Next]_(UcxxContract!contractVars)
    BY UcxxPart, BarrierStep
  <2> QED BY <2>1, <2>2, UcxxInvariant, PTL DEF Spec, BarrierRefinement, UcxxContract!Spec
<1> QED BY <1>1, <1>2, BackendsRefine, PTL DEF KeepsContract

-----------------------------------------------------------------------------
(* The launcher.                                                           *)

Rank(t, i) == t * cfg.n + i
Indices == 0 .. cfg.n - 1

TaskStates == {"start", "launch", "wait", "join_relay", "done", "application", "aborted"}
RankStates == {"none", "boot", "init", "published", "connected", "work", "ended"}

RrunTypes ==
    /\ cfg \in Options
    /\ task \in [AllTasks -> TaskStates]
    /\ launched \in [AllTasks -> Nat] /\ waited \in [AllTasks -> Nat]
    /\ exit_status \in [AllTasks -> Int]
    /\ process \in [AllRanks -> RankStates]
    /\ exit_code \in [AllRanks -> Int]

\* The stores and the relay threads.
StoreTypes ==
    /\ coordination \in [AllTasks -> BOOLEAN]
    /\ relay \in [AllTasks -> {"none", "poll", "sync", "fence", "write", "end"}]

\* A rank that has been launched has an entry in processes, unless it has replaced its
\* task; the ranks that were waited for have ended, or are lost, and all have ended once the
\* task has cleaned up.
RanksInv(t) ==
    /\ waited[t] <= launched[t] /\ launched[t] <= cfg.n
    /\ \A i \in Indices : process[Rank(t, i)] # "none" =>
           i < launched[t] \/ task[t] \in {"application", "aborted"}
    /\ \A i \in Indices : i < waited[t] => process[Rank(t, i)] = "ended" \/ Rank(t, i) \in lost
    /\ \A i \in Indices : ~ i < waited[t] => Rank(t, i) \notin lost
    /\ task[t] = "start" => launched[t] = 0
    /\ task[t] = "launch" => launched[t] < cfg.n
    /\ task[t] = "wait" => launched[t] = cfg.n
    /\ task[t] = "join_relay" => launched[t] = cfg.n
    /\ task[t] \in {"join_relay", "done"} => waited[t] = launched[t]
    /\ task[t] = "done" => launched[t] \in {0, cfg.n}
    /\ task[t] \in {"join_relay", "done"} /\ launched[t] = cfg.n =>
           \A i \in Indices : process[Rank(t, i)] = "ended"
    /\ task[t] = "application" => Mode = "passthrough"

\* exit_status is that of the last failure among the ranks waited for.
Code(g) == IF g \in lost THEN 1 ELSE exit_code[g]
StatusInv(t) ==
    \/ task[t] = "done" /\ launched[t] = 0
    \/ exit_status[t] = 0 /\ \A i \in Indices : i < waited[t] => Code(Rank(t, i)) = 0
    \/ exit_status[t] # 0 /\ \E i \in Indices : i < waited[t] /\ Code(Rank(t, i)) = exit_status[t]

RrunInv == RrunTypes /\ \A t \in AllTasks : RanksInv(t) /\ StatusInv(t)

\* Products with a fixed factor are ordered as the other factor.
LEMMA ProductOrder ==
  ASSUME NEW n \in Nat, NEW a \in Nat, NEW b \in Nat, a < b
  PROVE  a * n + n <= b * n
<1>1. PICK d \in Nat : b = a + 1 + d
  <2> WITNESS b - a - 1 \in Nat
  <2> QED OBVIOUS
<1>2. b * n = a * n + n + d * n
  BY <1>1
<1>3. d * n \in Nat
  OBVIOUS
<1> QED BY <1>2, <1>3

LEMMA CfgFacts ==
  ASSUME RrunTypes
  PROVE  /\ cfg.n \in Nat \ {0} /\ cfg.n <= PerTask
         /\ \A t \in AllTasks, i \in Indices : Rank(t, i) \in AllRanks
         /\ \A t, u \in AllTasks, i, j \in Indices : Rank(t, i) = Rank(u, j) => t = u /\ i = j
<1>1. cfg.n \in Nat \ {0} /\ cfg.n <= PerTask
  BY RrunAssumption DEF RrunTypes, Options
<1> DEFINE n == cfg.n
<1> HIDE DEF n
<1>2. n \in Nat \ {0} /\ n <= PerTask /\ Indices = 0 .. n - 1
  BY <1>1 DEF n, Indices
<1>3. ASSUME NEW t \in AllTasks, NEW i \in Indices
      PROVE  t * n + i \in AllRanks
  <2>1. t \in Nat /\ t < NTasks /\ i \in Nat /\ i < n /\ NTasks \in Nat /\ PerTask \in Nat
    BY <1>2, <1>3, RrunAssumption DEF AllTasks
  <2>2. t * n + n <= NTasks * n
    BY <2>1, <1>2, ProductOrder
  <2>3. NTasks * n <= NTasks * PerTask
    <3>1. CASE n = PerTask
      BY <3>1, <2>1
    <3>2. CASE n < PerTask
      <4>1. n * NTasks + NTasks <= PerTask * NTasks
        BY <3>2, <2>1, <1>2, ProductOrder
      <4>2. n * NTasks = NTasks * n /\ PerTask * NTasks = NTasks * PerTask
        BY <2>1, <1>2
      <4>3. n * NTasks \in Nat /\ PerTask * NTasks \in Nat
        BY <2>1, <1>2
      <4> QED BY <4>1, <4>2, <4>3, <2>1
    <3> QED BY <3>1, <3>2, <1>2, <2>1
  <2>4. t * n \in Nat /\ NTasks * n \in Nat /\ NTasks * PerTask \in Nat
    BY <2>1, <1>2
  <2> QED BY <2>1, <2>2, <2>3, <2>4, <1>2 DEF AllRanks
<1>4. ASSUME NEW t \in AllTasks, NEW u \in AllTasks, NEW i \in Indices, NEW j \in Indices,
             t * n + i = u * n + j
      PROVE  t = u /\ i = j
  <2>1. t \in Nat /\ u \in Nat /\ i \in Nat /\ i < n /\ j \in Nat /\ j < n
    BY <1>2, <1>4, RrunAssumption DEF AllTasks
  <2>2. t * n \in Nat /\ u * n \in Nat
    BY <2>1, <1>2
  <2>3. ~ t < u
    <3> SUFFICES ASSUME t < u PROVE FALSE
      OBVIOUS
    <3>1. t * n + n <= u * n
      BY <2>1, <1>2, ProductOrder
    <3> QED BY <3>1, <2>1, <2>2, <1>2, <1>4
  <2>4. ~ u < t
    <3> SUFFICES ASSUME u < t PROVE FALSE
      OBVIOUS
    <3>1. u * n + n <= t * n
      BY <2>1, <1>2, ProductOrder
    <3> QED BY <3>1, <2>1, <2>2, <1>2, <1>4
  <2>5. t = u
    BY <2>1, <2>3, <2>4
  <2> QED BY <2>5, <2>1, <2>2, <1>4
<1> QED BY <1>1, <1>3, <1>4 DEF Rank, n

LEMMA RrunBegins == ASSUME RrunInit PROVE RrunInv
<1>1. RrunTypes
  BY DEF RrunInit, RrunTypes, TaskStates, RankStates
<1>2. ASSUME NEW t \in AllTasks PROVE RanksInv(t) /\ StatusInv(t)
  <2>1. /\ task[t] = "start" /\ launched[t] = 0 /\ waited[t] = 0 /\ exit_status[t] = 0 /\ lost = {}
        /\ \A i \in Indices : process[Rank(t, i)] = "none" /\ i >= 0
    BY <1>1, CfgFacts DEF RrunInit, Indices
  <2> QED BY <2>1, <1>1, CfgFacts DEF RanksInv, StatusInv, Indices
<1> QED BY <1>1, <1>2 DEF RrunInv

\* What a rank does to itself.
RankMoves(g) ==
    /\ process[g] \in {"boot", "init", "published", "connected", "work"}
    /\ \E p \in {"init", "published", "connected", "work", "ended"} :
           process' = [process EXCEPT ![g] = p]
    /\ \E c \in Int : exit_code' = [exit_code EXCEPT ![g] = c]

LEMMA RankStepMoves ==
  ASSUME RrunTypes, NEW g \in AllRanks, rank_step(g)
  PROVE  RankMoves(g)
<1>1. process[g] \in {"boot", "init", "published", "connected", "work"}
  BY DEF rank_step, rank_init, rank_put, rank_writes_address_file, rank_get, rank_barrier,
         rank_ends, rank_fails, rank_terminated, Running
<1>2. ASSUME NEW p \in {"init", "published", "connected", "work"}, RankGoto(g, p)
      PROVE  RankMoves(g)
  <2>1. exit_code[g] \in Int /\ exit_code' = [exit_code EXCEPT ![g] = exit_code[g]]
    BY <1>2 DEF RankGoto, RrunTypes
  <2>2. process' = [process EXCEPT ![g] = p]
    BY <1>2 DEF RankGoto
  <2> QED BY <1>1, <2>1, <2>2 DEF RankMoves
<1>3. ASSUME NEW code \in Int, Ends(g, code)
      PROVE  RankMoves(g)
  BY <1>1, <1>3 DEF Ends, RankMoves
<1>4. \/ RankGoto(g, "init") \/ RankGoto(g, "published") \/ RankGoto(g, "connected")
      \/ RankGoto(g, "work") \/ Ends(g, 0) \/ Ends(g, 1) \/ Ends(g, 128 + 9) \/ Ends(g, 128 + 15)
  BY DEF rank_step, rank_init, rank_put, rank_writes_address_file, rank_get, rank_barrier,
         rank_ends, rank_fails, rank_terminated
<1> QED BY <1>2, <1>3, <1>4

\* A rank that runs goes on or ends; the tasks do not move.
LEMMA RankStepKeeps ==
  ASSUME RrunInv, NEW g \in AllRanks, rank_step(g)
  PROVE  RrunInv'
<1>1. RrunTypes /\ UNCHANGED <<cfg, task, launched, waited, exit_status, lost>>
  BY DEF RrunInv, rank_step, launchVars
<1>2. RankMoves(g)
  BY <1>1, RankStepMoves
<1>3. RrunTypes'
  BY <1>1, <1>2 DEF RrunTypes, RankMoves, RankStates
<1>4. Mode' = Mode /\ Indices' = Indices /\ \A t, i : Rank(t, i)' = Rank(t, i)
  BY <1>1 DEF Mode, Indices, Rank
<1>5. ASSUME NEW h \in AllRanks
      PROVE  /\ process'[h] # "none" => process[h] # "none"
             /\ process[h] = "ended" => process'[h] = "ended" /\ exit_code'[h] = exit_code[h]
  BY <1>1, <1>2 DEF RrunTypes, RankMoves
<1>6. ASSUME NEW t \in AllTasks PROVE RanksInv(t)' /\ StatusInv(t)'
  <2>1. RanksInv(t) /\ StatusInv(t)
    BY DEF RrunInv
  <2>2. ASSUME NEW i \in Indices
        PROVE  /\ process'[Rank(t, i)] # "none" => process[Rank(t, i)] # "none"
               /\ process[Rank(t, i)] = "ended" =>
                     process'[Rank(t, i)] = "ended" /\ exit_code'[Rank(t, i)] = exit_code[Rank(t, i)]
    BY <1>1, <1>5, CfgFacts
  <2>3. RanksInv(t)'
    BY <2>1, <2>2, <1>1, <1>4 DEF RanksInv
  <2>4. \A i \in Indices : i < waited[t] => Code(Rank(t, i))' = Code(Rank(t, i))
    BY <2>1, <2>2, <1>1, <1>4 DEF RanksInv, Code
  <2>5. StatusInv(t)'
    BY <2>1, <2>4, <1>1, <1>4 DEF StatusInv
  <2> QED BY <2>3, <2>5
<1> QED BY <1>3, <1>6 DEF RrunInv

\* Most steps leave the ranks and their entries alone.
LEMMA TaskStays ==
  ASSUME RrunInv, RrunTypes', NEW t \in AllTasks,
         UNCHANGED <<cfg, process, exit_code, lost>>,
         launched'[t] = launched[t], waited'[t] = waited[t], exit_status'[t] = exit_status[t],
         task'[t] = task[t] \/ (task'[t] = "aborted" /\ task[t] # "done")
  PROVE  RanksInv(t)' /\ StatusInv(t)'
<1>1. RanksInv(t) /\ StatusInv(t)
  BY DEF RrunInv
<1>2. Mode' = Mode /\ Indices' = Indices /\ \A u, i : Rank(u, i)' = Rank(u, i) /\ Code(Rank(u, i))' = Code(Rank(u, i))
  BY DEF Mode, Indices, Rank, Code
<1>4. RanksInv(t)'
  BY <1>1, <1>2 DEF RanksInv
<1>5. StatusInv(t)'
  BY <1>1, <1>2 DEF StatusInv
<1> QED BY <1>4, <1>5

\* The steps of the main thread while its ranks run: the others are not concerned.
LEMMA MainStepKeeps ==
  ASSUME RrunInv, NEW t \in AllTasks, main_step(t)
  PROVE  RrunInv'
<1>1. /\ RrunTypes /\ RanksInv(t) /\ StatusInv(t)
      /\ cfg' = cfg /\ process' = process /\ exit_code' = exit_code
  BY DEF RrunInv, main_step, rankVars
<1>2. Mode' = Mode /\ Indices' = Indices /\ \A u, i : Rank(u, i)' = Rank(u, i)
  BY <1>1 DEF Mode, Indices, Rank
<1>3. cfg.n \in Nat \ {0} /\ Indices = 0 .. cfg.n - 1 /\ waited[t] \in Nat /\ launched[t] \in Nat
  BY <1>1, CfgFacts DEF Indices, RrunTypes
<1>0. ASSUME lost' = lost, RrunTypes', RanksInv(t)', StatusInv(t)',
             \A u \in AllTasks \ {t} :
                /\ task'[u] = task[u] /\ launched'[u] = launched[u] /\ waited'[u] = waited[u]
                /\ exit_status'[u] = exit_status[u]
      PROVE  RrunInv'
  BY <1>0, <1>1, TaskStays DEF RrunInv
<1>c. ASSUME lost' = lost PROVE \A u, i : Code(Rank(u, i))' = Code(Rank(u, i))
  BY <1>c, <1>1, <1>2 DEF Code
<1>4. CASE refuse_arguments(t)
  <2>1. /\ task[t] = "start" /\ task' = [task EXCEPT ![t] = "done"]
        /\ exit_status' = [exit_status EXCEPT ![t] = 1]
        /\ UNCHANGED <<launched, waited, lost>>
    BY <1>4 DEF refuse_arguments, Goto
  <2>2. RrunTypes'
    BY <2>1, <1>1 DEF RrunTypes, TaskStates
  <2>3. task'[t] = "done" /\ launched'[t] = 0 /\ waited'[t] = 0
    BY <2>1, <1>1, <1>3 DEF RrunTypes, RanksInv
  <2>4. RanksInv(t)' /\ StatusInv(t)'
    BY <2>1, <2>3, <1>1, <1>2, <1>3 DEF RanksInv, StatusInv
  <2> QED BY <2>1, <2>2, <2>4, <1>0, <1>1 DEF RrunTypes
<1>5. CASE setup_launch_and_cleanup(t)
  <2>1. /\ task[t] = "start" /\ task' = [task EXCEPT ![t] = "launch"]
        /\ UNCHANGED <<launched, waited, exit_status, lost>>
    BY <1>5 DEF setup_launch_and_cleanup, Goto
  <2>2. RrunTypes'
    BY <2>1, <1>1 DEF RrunTypes, TaskStates
  <2>3. task'[t] = "launch"
    BY <2>1, <1>1 DEF RrunTypes
  <2>4. RanksInv(t)' /\ StatusInv(t)'
    BY <2>1, <2>3, <1>1, <1>2, <1>3, <1>c DEF RanksInv, StatusInv
  <2> QED BY <2>1, <2>2, <2>4, <1>0, <1>1 DEF RrunTypes
<1>6. CASE wait_rank(t)
  <2>1. PICK w, g : w = waited[t] /\ g = Rank(t, w)
    OBVIOUS
  <2>2. /\ task[t] = "wait" /\ waited[t] < launched[t]
        /\ \/ /\ process[g] = "ended" /\ lost' = lost
              /\ exit_status' = [exit_status EXCEPT ![t] = Status(exit_status[t], exit_code[g])]
           \/ /\ exit_status' = [exit_status EXCEPT ![t] = 1]
              /\ lost' = lost \cup {g}
        /\ waited' = [waited EXCEPT ![t] = waited[t] + 1]
        /\ UNCHANGED <<task, launched>>
    BY <1>6, <2>1 DEF wait_rank, Rank
  <2>3. waited[t] \in Indices /\ g \in AllRanks /\ exit_code[g] \in Int /\ g \notin lost
    BY <2>1, <2>2, <1>1, <1>3, CfgFacts DEF RanksInv, RrunTypes
  <2>4. exit_status' \in [AllTasks -> Int]
    BY <2>2, <2>3, <1>1 DEF Status, RrunTypes
  <2>5. RrunTypes'
    BY <2>2, <2>4, <1>1 DEF RrunTypes
  <2>6. /\ waited'[t] = waited[t] + 1
        /\ process[g] = "ended" \/ g \in lost'
        /\ \/ exit_status'[t] = Code(g)' /\ Code(g)' # 0
           \/ exit_status'[t] = exit_status[t] /\ Code(g)' = 0
    <3>1. CASE lost' = lost
      BY <3>1, <2>2, <2>3, <1>1 DEF RrunTypes, Status, Code
    <3>2. CASE lost' = lost \cup {g}
      BY <3>2, <2>2, <2>3, <1>1 DEF RrunTypes, Status, Code
    <3> QED BY <3>1, <3>2, <2>2
  <2>7. \A i \in Indices : i < waited'[t] <=> i < waited[t] \/ i = waited[t]
    BY <2>6, <1>3
  <2>8. \A u \in AllTasks, i \in Indices : Rank(u, i) # g =>
           (Rank(u, i) \in lost' <=> Rank(u, i) \in lost) /\ Code(Rank(u, i))' = Code(Rank(u, i))
    BY <2>2, <1>1, <1>2 DEF Code
  <2>9. \A u \in AllTasks, i \in Indices : Rank(u, i) = g => u = t /\ i = waited[t]
    BY <2>1, <2>3, <1>1, CfgFacts
  <2>10. RanksInv(t)'
    <3>1. \A i \in Indices : i < waited'[t] => process[Rank(t, i)] = "ended" \/ Rank(t, i) \in lost'
      BY <2>1, <2>6, <2>7, <2>8, <1>1 DEF RanksInv
    <3>2. \A i \in Indices : ~ i < waited'[t] => Rank(t, i) \notin lost'
      BY <2>1, <2>7, <2>8, <2>9, <1>1 DEF RanksInv
    <3>3. waited'[t] <= launched[t]
      BY <2>2, <2>6, <1>3
    <3> QED BY <3>1, <3>2, <3>3, <2>2, <1>1, <1>2 DEF RanksInv
  <2>11. StatusInv(t)'
    <3>1. \A i \in Indices : i < waited[t] => Code(Rank(t, i))' = Code(Rank(t, i))
      <4> SUFFICES ASSUME NEW i \in Indices, i < waited[t] PROVE Rank(t, i) # g
        BY <2>8
      <4>1. i # waited[t]
        BY <1>3
      <4> QED BY <4>1, <2>9
    <3>2. Code(Rank(t, w))' = Code(g)'
      BY <2>1, <1>2 DEF Code
    <3>3. CASE exit_status'[t] = Code(g)' /\ Code(g)' # 0
      <4>1. w \in Indices' /\ w < waited'[t]
        BY <2>1, <2>3, <2>6, <1>2, <1>3
      <4> QED BY <3>2, <3>3, <4>1, <2>1, <1>2 DEF StatusInv
    <3>4. CASE exit_status'[t] = exit_status[t] /\ Code(g)' = 0
      BY <3>1, <3>2, <3>4, <2>1, <2>2, <2>3, <2>6, <2>7, <1>1, <1>2 DEF StatusInv
    <3> QED BY <3>3, <3>4, <2>6
  <2>12. ASSUME NEW u \in AllTasks, u # t PROVE RanksInv(u)' /\ StatusInv(u)'
    <3>1. RanksInv(u) /\ StatusInv(u)
      BY DEF RrunInv
    <3>2. \A i \in Indices : (Rank(u, i) \in lost' <=> Rank(u, i) \in lost)
                             /\ Code(Rank(u, i))' = Code(Rank(u, i))
      BY <2>8, <2>9, <2>12
    <3>3. waited'[u] = waited[u] /\ exit_status'[u] = exit_status[u] /\ UNCHANGED <<task, launched>>
      BY <2>2, <2>12, <1>1 DEF RrunTypes
    <3>4. RanksInv(u)'
      BY <3>1, <3>2, <3>3, <1>1, <1>2 DEF RanksInv
    <3>5. StatusInv(u)'
      BY <3>1, <3>2, <3>3, <1>1, <1>2 DEF StatusInv
    <3> QED BY <3>4, <3>5
  <2> QED BY <2>5, <2>10, <2>11, <2>12 DEF RrunInv
<1>7. CASE clean_up(t)
  <2>1. /\ task[t] = "wait" /\ waited[t] = launched[t] /\ task' = [task EXCEPT ![t] = "join_relay"]
        /\ \A g \in LocalRanks(t) : process[g] = "ended"
        /\ UNCHANGED <<launched, waited, exit_status, lost>>
    BY <1>7 DEF clean_up, AllWaited, Goto
  <2>2. RrunTypes'
    BY <2>1, <1>1 DEF RrunTypes, TaskStates
  <2>3. task'[t] = "join_relay"
    BY <2>1, <1>1 DEF RrunTypes
  <2>4. \A i \in Indices : process[Rank(t, i)] = "ended"
    BY <2>1 DEF LocalRanks, Rank, Indices
  <2>5. RanksInv(t)' /\ StatusInv(t)'
    BY <2>1, <2>3, <2>4, <1>1, <1>2, <1>3, <1>c DEF RanksInv, StatusInv
  <2> QED BY <2>1, <2>2, <2>5, <1>0, <1>1 DEF RrunTypes
<1>8. CASE join_relay(t)
  <2>1. /\ task[t] = "join_relay" /\ task' = [task EXCEPT ![t] = "done"]
        /\ UNCHANGED <<launched, waited, exit_status, lost>>
    BY <1>8 DEF join_relay, Goto
  <2>2. RrunTypes'
    BY <2>1, <1>1 DEF RrunTypes, TaskStates
  <2>3. task'[t] = "done"
    BY <2>1, <1>1 DEF RrunTypes
  <2>4. RanksInv(t)' /\ StatusInv(t)'
    BY <2>1, <2>3, <1>1, <1>2, <1>3, <1>c DEF RanksInv, StatusInv
  <2> QED BY <2>1, <2>2, <2>4, <1>0, <1>1 DEF RrunTypes
<1> QED BY <1>4, <1>5, <1>6, <1>7, <1>8 DEF main_step

\* The steps of the main thread that start ranks.
LEMMA LaunchStepKeeps ==
  ASSUME RrunInv, NEW t \in AllTasks, launch_step(t)
  PROVE  RrunInv'
<1>1. RrunTypes /\ RanksInv(t) /\ StatusInv(t) /\ cfg' = cfg
  BY DEF RrunInv, launch_step
<1>2. Mode' = Mode /\ Indices' = Indices /\ \A u, i : Rank(u, i)' = Rank(u, i)
  BY <1>1 DEF Mode, Indices, Rank
<1>3. cfg.n \in Nat \ {0} /\ Indices = 0 .. cfg.n - 1 /\ waited[t] \in Nat /\ launched[t] \in Nat
  BY <1>1, CfgFacts DEF Indices, RrunTypes
\* A rank of t is started, where there was none.
<1>4. ASSUME NEW i \in Indices, process' = [process EXCEPT ![Rank(t, i)] = "boot"], ~ i < waited[t],
             UNCHANGED <<waited, exit_status, lost, exit_code>>,
             \/ /\ task[t] = "launch" /\ i = launched[t]
                /\ task' = [task EXCEPT ![t] = IF launched[t] + 1 = cfg.n THEN "wait" ELSE "launch"]
                /\ launched' = [launched EXCEPT ![t] = launched[t] + 1]
             \/ task' = [task EXCEPT ![t] = "application"] /\ task[t] = "start" /\ UNCHANGED launched
                /\ Mode = "passthrough"
      PROVE  RrunInv'
  <2>1. RrunTypes'
    <3>1. process' \in [AllRanks -> RankStates]
      BY <1>1, <1>4 DEF RrunTypes, RankStates
    <3>2. launched' \in [AllTasks -> Nat]
      <4>1. launched \in [AllTasks -> Nat] /\ launched[t] + 1 \in Nat
        BY <1>1, <1>3 DEF RrunTypes
      <4>2. launched' = launched \/ launched' = [launched EXCEPT ![t] = launched[t] + 1]
        BY <1>4
      <4> QED BY <4>1, <4>2
    <3>3. task' \in [AllTasks -> TaskStates]
      BY <1>1, <1>4 DEF RrunTypes, TaskStates
    <3> QED BY <3>1, <3>2, <3>3, <1>1, <1>4 DEF RrunTypes
  <2>2. RanksInv(t)' /\ StatusInv(t)'
    <3>1. \/ /\ task'[t] = IF launched[t] + 1 = cfg.n THEN "wait" ELSE "launch"
             /\ launched'[t] = launched[t] + 1 /\ i = launched[t] /\ task[t] = "launch"
          \/ task'[t] = "application" /\ launched'[t] = launched[t] /\ Mode = "passthrough"
      BY <1>1, <1>4 DEF RrunTypes
    <3>2. \A j \in Indices : j # i => process'[Rank(t, j)] = process[Rank(t, j)]
      BY <1>1, <1>4, CfgFacts DEF RrunTypes
    <3>3. i \in Int /\ i < cfg.n /\ \A j \in Indices : j \in Int
      BY <1>3
    <3>4. \A j \in Indices : j < waited'[t] => process'[Rank(t, j)] = "ended" \/ Rank(t, j) \in lost
      BY <3>2, <1>1, <1>4 DEF RanksInv
    <3>5. \A j \in Indices : process'[Rank(t, j)] # "none" =>
              j < launched'[t] \/ task'[t] \in {"application", "aborted"}
      BY <3>1, <3>2, <3>3, <1>1, <1>3 DEF RanksInv
    <3>6. waited'[t] <= launched'[t] /\ launched'[t] <= cfg.n
      BY <3>1, <3>3, <1>1, <1>3, <1>4 DEF RanksInv
    <3>7. task'[t] = "launch" => launched'[t] < cfg.n
      BY <3>1, <3>6, <1>3
    <3>8. task'[t] = "wait" => launched'[t] = cfg.n
      BY <3>1
    <3>9. /\ task'[t] \in {"launch", "wait", "application"}
          /\ task'[t] = "application" => Mode = "passthrough"
      BY <3>1
    <3>10. RanksInv(t)'
      BY <3>4, <3>5, <3>6, <3>7, <3>8, <3>9, <1>1, <1>2, <1>4 DEF RanksInv
    <3>11. \A u, j : Code(Rank(u, j))' = Code(Rank(u, j))
      BY <1>2, <1>4 DEF Code
    <3>12. StatusInv(t)'
      BY <3>1, <3>11, <1>1, <1>2, <1>4 DEF StatusInv
    <3> QED BY <3>10, <3>12
  <2>3. ASSUME NEW u \in AllTasks, u # t PROVE RanksInv(u)' /\ StatusInv(u)'
    <3>1. RanksInv(u) /\ StatusInv(u)
      BY DEF RrunInv
    <3>2. \A j \in Indices : process'[Rank(u, j)] = process[Rank(u, j)]
      BY <1>1, <1>4, <2>3, CfgFacts DEF RrunTypes
    <3>3. task'[u] = task[u] /\ launched'[u] = launched[u]
      BY <1>1, <1>4, <2>3 DEF RrunTypes
    <3>4. RanksInv(u)'
      BY <3>1, <3>2, <3>3, <1>1, <1>2, <1>4 DEF RanksInv
    <3>5. \A j : Code(Rank(u, j))' = Code(Rank(u, j))
      BY <1>2, <1>4 DEF Code
    <3>6. StatusInv(u)'
      BY <3>1, <3>3, <3>5, <1>2, <1>4 DEF StatusInv
    <3> QED BY <3>4, <3>6
  <2> QED BY <2>1, <2>2, <2>3 DEF RrunInv
<1>5. CASE execute_slurm_passthrough_mode(t)
  <2>1. /\ task[t] = "start" /\ Mode = "passthrough"
        /\ process' = [process EXCEPT ![t] = "boot"] /\ task' = [task EXCEPT ![t] = "application"]
        /\ UNCHANGED <<launched, waited, exit_status, lost, exit_code>>
    BY <1>5 DEF execute_slurm_passthrough_mode, Goto
  <2>2. cfg.n = 1
    BY <2>1 DEF Mode
  <2>3. 0 \in Indices /\ Rank(t, 0) = t /\ ~ 0 < waited[t]
    BY <2>1, <2>2, <1>1, <1>3, RrunAssumption DEF Rank, RanksInv, AllTasks
  <2> QED BY <2>1, <2>3, <1>4
<1>6. CASE launch_rank_local(t)
  <2>1. /\ task[t] = "launch"
        /\ process' = [process EXCEPT ![Rank(t, launched[t])] = "boot"]
        /\ launched' = [launched EXCEPT ![t] = launched[t] + 1]
        /\ IF launched[t] + 1 = cfg.n THEN task' = [task EXCEPT ![t] = "wait"] ELSE UNCHANGED task
        /\ UNCHANGED <<waited, exit_status, lost, exit_code>>
    BY <1>6 DEF launch_rank_local, Rank, Goto
  <2>2. launched[t] \in Indices /\ ~ launched[t] < waited[t]
    BY <2>1, <1>1, <1>3 DEF RanksInv
  <2>3. task' = [task EXCEPT ![t] = IF launched[t] + 1 = cfg.n THEN "wait" ELSE "launch"]
    BY <2>1, <1>1 DEF RrunTypes
  <2> QED BY <2>1, <2>2, <2>3, <1>4
<1>7. CASE launch_fails(t)
  <2>1. /\ task[t] = "launch"
        /\ \/ /\ launched[t] = 0 /\ exit_status' = [exit_status EXCEPT ![t] = 1]
              /\ task' = [task EXCEPT ![t] = "done"]
           \/ task' = [task EXCEPT ![t] = "aborted"] /\ UNCHANGED exit_status
        /\ UNCHANGED <<launched, waited, process, exit_code, lost>>
    BY <1>7 DEF launch_fails, Goto, rankVars
  <2>2. RrunTypes'
    BY <2>1, <1>1 DEF RrunTypes, TaskStates
  <2>3. RanksInv(t)' /\ StatusInv(t)'
    <3>1. \/ task'[t] = "done" /\ launched[t] = 0 /\ waited[t] = 0
          \/ task'[t] = "aborted" /\ UNCHANGED exit_status
      BY <2>1, <1>1, <1>3 DEF RrunTypes, RanksInv
    <3>2. RanksInv(t)'
      BY <3>1, <2>1, <1>1, <1>2, <1>3 DEF RanksInv
    <3>3. \A j : Code(Rank(t, j))' = Code(Rank(t, j))
      BY <2>1, <1>2 DEF Code
    <3>4. StatusInv(t)'
      BY <3>1, <3>3, <2>1, <1>1, <1>2, <1>3 DEF StatusInv
    <3> QED BY <3>2, <3>4
  <2>4. \A u \in AllTasks \ {t} : task'[u] = task[u] /\ exit_status'[u] = exit_status[u]
    BY <2>1, <1>1 DEF RrunTypes
  <2> QED BY <2>1, <2>2, <2>3, <2>4, <1>1, TaskStays DEF RrunInv
<1> QED BY <1>5, <1>6, <1>7 DEF launch_step

LEMMA RrunStepKeeps == ASSUME RrunInv, [RrunNext]_rrunVars PROVE RrunInv'
<1>1. Tasks \subseteq AllTasks
  BY RrunAssumption DEF Tasks, AllTasks
<1>2. CASE \E g \in AllRanks : rank_step(g)
  BY <1>2, RankStepKeeps
<1>3. ASSUME NEW t \in Tasks, main_step(t) PROVE RrunInv'
  BY <1>1, <1>3, MainStepKeeps
<1>4. ASSUME NEW t \in Tasks, launch_step(t) PROVE RrunInv'
  BY <1>1, <1>4, LaunchStepKeeps
<1>5. ASSUME /\ UNCHANGED <<cfg, launched, waited, exit_status, lost, process, exit_code>>
             /\ \/ UNCHANGED task
                \/ \E t \in AllTasks : task[t] # "done" /\ task' = [task EXCEPT ![t] = "aborted"]
      PROVE  RrunInv'
  <2>1. RrunTypes
    BY DEF RrunInv
  <2>2. RrunTypes' /\ \A u \in AllTasks : task'[u] = task[u] \/ (task'[u] = "aborted" /\ task[u] # "done")
    BY <1>5, <2>1 DEF RrunTypes, TaskStates
  <2> QED BY <1>5, <2>2, TaskStays DEF RrunInv
<1>6. ASSUME NEW t \in Tasks, signal_step(t) PROVE RrunInv'
  <2>1. UNCHANGED <<cfg, launched, waited, exit_status, lost, process, exit_code>>
    BY <1>6 DEF signal_step, rankVars
  <2>2. UNCHANGED task \/ (task[t] # "done" /\ task' = [task EXCEPT ![t] = "aborted"])
    BY <1>6 DEF signal_step, signal_arrives, signal_forwarded, Goto
  <2> QED BY <2>1, <2>2, <1>1, <1>5
<1>7. ASSUME NEW t \in Tasks, relay_root_address(t) PROVE RrunInv'
  <2>1. UNCHANGED <<cfg, launched, waited, exit_status, lost, process, exit_code>>
    BY <1>7 DEF relay_root_address, rankVars
  <2>2. UNCHANGED task \/ (task[t] # "done" /\ task' = [task EXCEPT ![t] = "aborted"])
    BY <1>7 DEF relay_root_address, relay_polls, relay_syncs, relay_creates_directory,
                write_kv_for_children, Goto
  <2> QED BY <2>1, <2>2, <1>1, <1>5
<1>8. CASE UNCHANGED rrunVars
  <2>1. UNCHANGED <<cfg, task, launched, waited, exit_status, lost, process, exit_code>>
    BY <1>8 DEF rrunVars, rankVars, launchVars
  <2> QED BY <2>1, <1>5
<1> QED BY <1>2, <1>3, <1>4, <1>6, <1>7, <1>8 DEF RrunNext

-----------------------------------------------------------------------------
\* Where the ranks are in create_ucxx_comm(): whoever is past the barrier has seen every rank
\* of the job in it.
JoinedInv ==
    \A g \in AllRanks :
        /\ process[g] # "none" => g \in JobRanks
        /\ process[g] \in {"init", "published", "connected", "work"} => application = "ucxx"
        /\ g \in joined => process[g] \in {"connected", "work", "ended"}
        /\ process[g] = "work" => joined = JobRanks
        /\ process[g] = "ended" /\ exit_code[g] = 0 /\ application = "ucxx" => joined = JobRanks
        /\ process[g] # "ended" => exit_code[g] = 0

\* Some rank has not entered the barrier yet, and nothing has failed: no rank can have ended.
Gathering == application = "ucxx" /\ joined # JobRanks /\ NothingFailed

StoreInv ==
    FilesUsed /\ Gathering =>
        /\ \A g \in JobRanks : process[g] = "init" => coordination[Store(g)]
        /\ \A d \in AllTasks : PublishedIn(d) => d \in root_address

\* Only the task that has started the server ends it.
ServerInv ==
    Mode = "single" /\ ~ cfg.file_backend /\ task[0] \in {"launch", "wait"} => coordination[0]

BootInv == StoreTypes /\ JoinedInv /\ StoreInv /\ ServerInv

LEMMA DivOfProduct ==
  ASSUME NEW n \in Nat \ {0}, NEW t \in Nat, NEW i \in 0 .. n - 1
  PROVE  (t * n + i) \div n = t
<1> DEFINE g == t * n + i
           q == g \div n
<1>1. g \in Nat /\ t * n \in Nat
  OBVIOUS
<1>2. q \in Nat /\ q * n <= g /\ g < q * n + n
  BY <1>1
<1> HIDE DEF q
<1>3. q * n \in Nat
  BY <1>2
<1>4. ~ q < t
  <2> SUFFICES ASSUME q < t PROVE FALSE
    OBVIOUS
  <2>1. q * n + n <= t * n
    BY <1>2, ProductOrder
  <2> QED BY <2>1, <1>1, <1>2, <1>3
<1>5. ~ t < q
  <2> SUFFICES ASSUME t < q PROVE FALSE
    OBVIOUS
  <2>1. t * n + n <= q * n
    BY <1>2, ProductOrder
  <2> QED BY <2>1, <1>1, <1>2, <1>3
<1> QED BY <1>2, <1>4, <1>5 DEF q

LEMMA JobFacts ==
  ASSUME RrunTypes
  PROVE  /\ JobRanks \subseteq AllRanks /\ Tasks \subseteq AllTasks /\ 0 \in AllTasks
         /\ \A t \in AllTasks : Directory(t) \in AllTasks
         /\ \A g \in JobRanks : Store(g) \in AllTasks
         /\ \A t \in Tasks, i \in Indices : Rank(t, i) \in JobRanks
<1>1. Tasks \subseteq AllTasks /\ 0 \in AllTasks
  BY RrunAssumption DEF Tasks, AllTasks
<1>2. \A t : LocalRanks(t) = {Rank(t, i) : i \in Indices}
  BY DEF LocalRanks, Rank, Indices
<1>3. \A g \in JobRanks : \E t \in Tasks : g \in LocalRanks(t)
  BY DEF JobRanks
<1>4. \A t \in AllTasks : Directory(t) \in AllTasks
  BY <1>1 DEF Directory, RrunTypes, Options
<1>5. ASSUME NEW g \in JobRanks PROVE g \in AllRanks /\ Store(g) \in AllTasks
  <2>1. PICK t \in Tasks, i \in Indices : g = Rank(t, i)
    BY <1>2, <1>3
  <2>2. g \in AllRanks
    BY <1>1, <2>1, CfgFacts
  <2>3. cfg.n \in Nat \ {0} /\ t \in Nat /\ i \in 0 .. cfg.n - 1
    BY <1>1, <2>1, CfgFacts DEF AllTasks, Indices
  <2>4. TaskOf(g) = t
    BY <2>1, <2>3, DivOfProduct DEF TaskOf, Rank
  <2> QED BY <1>1, <1>4, <2>2, <2>4 DEF Store
<1>6. \A t \in Tasks, i \in Indices : Rank(t, i) \in JobRanks
  BY <1>2 DEF JobRanks
<1> QED BY <1>1, <1>4, <1>5, <1>6

LEMMA ZeroIsRank == ASSUME RrunTypes PROVE 0 \in AllRanks
<1>1. 0 \in Indices /\ 0 \in AllTasks /\ Rank(0, 0) = 0
  BY CfgFacts, JobFacts DEF Indices, Rank
<1> QED BY <1>1, CfgFacts

\* As long as the ranks wait for one another, none of them has ended or gone on.
LEMMA NobodyEnds ==
  ASSUME RrunTypes, JoinedInv, Gathering, NEW g \in AllRanks
  PROVE  process[g] \notin {"work", "ended"}
BY DEF JoinedInv, Gathering, NothingFailed

\* Failures are for good.
LEMMA FailuresStay ==
  ASSUME RrunTypes, JoinedInv, NothingFailed',
         \A g \in AllRanks : exit_code'[g] = exit_code[g] \/ process[g] # "ended",
         \A t \in AllTasks : task[t] = "aborted" => task'[t] = "aborted"
  PROVE  NothingFailed
BY DEF JoinedInv, NothingFailed

LEMMA BootBegins == ASSUME RrunInit PROVE BootInv
<1>1. RrunTypes
  BY RrunBegins DEF RrunInv
<1>2. StoreTypes
  BY DEF RrunInit, StoreTypes
<1>3. /\ \A g \in AllRanks : process[g] = "none" /\ exit_code[g] = 0
      /\ \A t \in AllTasks : task[t] = "start" /\ relay[t] = "none"
      /\ joined = {}
  BY DEF RrunInit
<1>4. JoinedInv
  BY <1>3 DEF JoinedInv
<1>5. 0 \in AllRanks /\ 0 \in AllTasks /\ Tasks \subseteq AllTasks
  BY <1>1, JobFacts, ZeroIsRank
<1>6. StoreInv
  BY <1>1, <1>3, <1>5, JobFacts DEF StoreInv, PublishedIn
<1>7. ServerInv
  BY <1>3, <1>5 DEF ServerInv
<1> QED BY <1>2, <1>4, <1>6, <1>7 DEF BootInv

LEMMA CfgStays ==
  ASSUME cfg' = cfg
  PROVE  /\ JobRanks' = JobRanks /\ Mode' = Mode /\ FilesUsed' = FilesUsed /\ Tasks' = Tasks
         /\ \A t : Directory(t)' = Directory(t)
         /\ \A g : Store(g)' = Store(g)
<1>1. Mode' = Mode /\ Tasks' = Tasks
  BY DEF Mode, Tasks, slurm_mode
<1>2. \A t : LocalRanks(t)' = LocalRanks(t) /\ Directory(t)' = Directory(t)
  BY <1>1 DEF LocalRanks, Directory
<1>3. JobRanks' = JobRanks
  BY <1>1, <1>2 DEF JobRanks
<1>4. FilesUsed' = FilesUsed
  BY <1>1 DEF FilesUsed
<1>5. \A g : TaskOf(g)' = TaskOf(g)
  BY DEF TaskOf
<1>6. ASSUME NEW g PROVE Store(g)' = Store(g)
  <2>1. Directory(TaskOf(g))' = Directory(TaskOf(g))
    BY <1>1, <1>5 DEF Directory
  <2> QED BY <2>1, <1>1 DEF Store
<1> QED BY <1>1, <1>2, <1>3, <1>4, <1>6

\* A step that moves no rank: the stores only gain, unless nobody waits any more, or there is
\* a server and no directory; and a relay thread ends when its store has the address, or when
\* it is too late for that.
StoresGain ==
    /\ root_address \subseteq root_address'
    /\ \A d \in AllTasks : coordination[d] => coordination'[d]
    /\ \A t \in Tasks : Mode = "hybrid" /\ relay'[t] = "end" =>
           relay[t] = "end" \/ Directory(t) \in root_address' \/ ~ NothingFailed' \/ ~ Gathering

LEMMA QuietStep ==
  ASSUME RrunTypes, BootInv, StoreTypes',
         UNCHANGED <<cfg, application, process, exit_code, joined>>,
         \A t \in AllTasks : task[t] = "aborted" => task'[t] = "aborted",
         StoresGain \/ ~ Gathering \/ ~ FilesUsed,
         Mode = "single" /\ ~ cfg.file_backend /\ task'[0] \in {"launch", "wait"} =>
             coordination'[0] \/ (task[0] \in {"launch", "wait"} /\ UNCHANGED coordination)
  PROVE  BootInv'
<1>1. /\ JobRanks' = JobRanks /\ Mode' = Mode /\ FilesUsed' = FilesUsed /\ Tasks' = Tasks
      /\ \A t : Directory(t)' = Directory(t)
      /\ \A g : Store(g)' = Store(g)
  BY CfgStays
<1>2. JoinedInv'
  BY <1>1 DEF BootInv, JoinedInv
<1>3. ServerInv'
  BY <1>1 DEF BootInv, ServerInv
<1>4. StoreInv'
  <2> SUFFICES ASSUME FilesUsed, Gathering'
               PROVE  /\ \A g \in JobRanks : process[g] = "init" => coordination'[Store(g)]
                      /\ \A d \in AllTasks : PublishedIn(d)' => d \in root_address'
    BY <1>1 DEF StoreInv
  <2>1. NothingFailed
    BY FailuresStay DEF Gathering, BootInv
  <2>2. Gathering
    BY <2>1, <1>1 DEF Gathering
  <2>3. StoresGain /\ NothingFailed'
    BY <2>2 DEF Gathering
  <2>4. /\ \A g \in JobRanks : process[g] = "init" => coordination[Store(g)]
        /\ \A d \in AllTasks : PublishedIn(d) => d \in root_address
    BY <2>2 DEF BootInv, StoreInv
  <2>5. \A g \in JobRanks : process[g] = "init" => coordination'[Store(g)]
    BY <2>3, <2>4, JobFacts DEF StoresGain
  <2>6. ASSUME NEW d \in AllTasks, PublishedIn(d)' PROVE d \in root_address'
    <3>1. CASE d = Directory(0) /\ process[0] \notin {"none", "boot", "init"}
      BY <3>1, <2>3, <2>4 DEF PublishedIn, StoresGain
    <3>2. CASE Mode = "hybrid" /\ \E t \in Tasks : d = Directory(t) /\ relay'[t] = "end"
      <4>1. PICK t \in Tasks : d = Directory(t) /\ relay'[t] = "end"
        BY <3>2
      <4>2. relay[t] = "end" \/ d \in root_address'
        BY <4>1, <3>2, <2>2, <2>3 DEF StoresGain
      <4> QED BY <4>1, <4>2, <3>2, <2>3, <2>4 DEF PublishedIn, StoresGain
    <3> QED BY <3>1, <3>2, <2>6, <1>1 DEF PublishedIn
  <2> QED BY <2>5, <2>6
<1> QED BY <1>2, <1>3, <1>4 DEF BootInv

\* What CreateDirectory() and RemoveStore() do, and what they leave.
LEMMA StoreOps ==
  ASSUME StoreTypes, NEW d \in AllTasks
  PROVE  /\ CreateDirectory(d) =>
               /\ coordination' \in [AllTasks -> BOOLEAN] /\ coordination'[d] /\ UNCHANGED root_address
               /\ \A e \in AllTasks : coordination[e] => coordination'[e]
         /\ RemoveStore(d) => coordination' \in [AllTasks -> BOOLEAN]
BY DEF StoreTypes, CreateDirectory, RemoveStore

\* A task whose ranks have all ended: nobody waits any more.
LEMMA EndedTask ==
  ASSUME RrunTypes, JoinedInv, NEW t \in AllTasks, \A g \in LocalRanks(t) : process[g] = "ended"
  PROVE  ~ Gathering
<1>1. 0 \in Indices /\ Rank(t, 0) \in AllRanks /\ Rank(t, 0) \in LocalRanks(t)
  <2>1. 0 \in Indices
    BY CfgFacts DEF Indices
  <2> QED BY <2>1, CfgFacts DEF LocalRanks, Rank, Indices
<1> QED BY <1>1, NobodyEnds

LEMMA MainStepBoots ==
  ASSUME RrunInv, BootInv, NEW t \in Tasks, main_step(t)
  PROVE  BootInv'
<1>1. /\ RrunTypes /\ StoreTypes /\ JoinedInv /\ t \in AllTasks /\ 0 \in AllTasks
      /\ Directory(t) \in AllTasks
  BY JobFacts DEF RrunInv, BootInv
<1>2. UNCHANGED <<cfg, application, process, exit_code, joined>>
  BY DEF main_step, rankVars
<1>3. Mode = "single" => t = 0 /\ Directory(t) = 0
  BY DEF Mode, Tasks, Directory
<1>4. ASSUME task[t] # "aborted", NEW p \in TaskStates, task' = [task EXCEPT ![t] = p]
      PROVE  /\ task'[t] = p /\ \A u \in AllTasks \ {t} : task'[u] = task[u]
             /\ \A u \in AllTasks : task[u] = "aborted" => task'[u] = "aborted"
  BY <1>1, <1>4 DEF RrunTypes
<1>5. CASE refuse_arguments(t)
  <2>1. /\ task[t] = "start" /\ task' = [task EXCEPT ![t] = "done"] /\ Mode = "error"
        /\ UNCHANGED <<relay, coordination, root_address>>
    BY <1>5 DEF refuse_arguments, Goto, storeVars
  <2>2. StoresGain /\ StoreTypes'
    BY <2>1, <1>1 DEF StoresGain, StoreTypes
  <2> QED BY <2>1, <2>2, <1>1, <1>2, <1>4, QuietStep DEF TaskStates
<1>6. CASE setup_launch_and_cleanup(t)
  <2>1. /\ task[t] = "start" /\ task' = [task EXCEPT ![t] = "launch"]
        /\ CreateDirectory(Directory(t))
        /\ relay' = [relay EXCEPT ![t] = IF Mode = "single" THEN "none" ELSE IF t = 0 THEN "poll" ELSE "sync"]
    BY <1>6 DEF setup_launch_and_cleanup, Goto
  <2>2. /\ coordination' \in [AllTasks -> BOOLEAN] /\ coordination'[Directory(t)] /\ UNCHANGED root_address
        /\ \A e \in AllTasks : coordination[e] => coordination'[e]
    BY <2>1, <1>1, StoreOps
  <2>3. StoreTypes'
    BY <2>1, <2>2, <1>1 DEF StoreTypes
  <2>4. StoresGain
    <3>1. \A u \in Tasks : relay'[u] = "end" => relay[u] = "end"
      BY <2>1, <1>1, JobFacts DEF StoreTypes
    <3> QED BY <3>1, <2>2 DEF StoresGain
  <2> QED BY <2>1, <2>2, <2>3, <2>4, <1>1, <1>2, <1>3, <1>4, QuietStep DEF TaskStates
<1>7. CASE wait_rank(t)
  <2>1. UNCHANGED <<task, relay, coordination, root_address>>
    BY <1>7 DEF wait_rank, storeVars
  <2>2. StoresGain /\ StoreTypes'
    BY <2>1, <1>1 DEF StoresGain, StoreTypes
  <2> QED BY <2>1, <2>2, <1>1, <1>2, QuietStep
<1>8. CASE clean_up(t)
  <2>1. /\ task[t] = "wait" /\ task' = [task EXCEPT ![t] = "join_relay"] /\ UNCHANGED relay
        /\ RemoveStore(Directory(t)) /\ \A g \in LocalRanks(t) : process[g] = "ended"
    BY <1>8 DEF clean_up, AllWaited, Goto
  <2>2. ~ Gathering
    BY <2>1, <1>1, EndedTask
  <2>3. StoreTypes'
    BY <2>1, <1>1, StoreOps DEF StoreTypes
  <2> QED BY <2>1, <2>2, <2>3, <1>1, <1>2, <1>3, <1>4, QuietStep DEF TaskStates
<1>9. CASE join_relay(t)
  <2>1. /\ task[t] = "join_relay" /\ task' = [task EXCEPT ![t] = "done"]
        /\ UNCHANGED <<relay, coordination, root_address>>
    BY <1>9 DEF join_relay, Goto, storeVars
  <2>2. StoresGain /\ StoreTypes'
    BY <2>1, <1>1 DEF StoresGain, StoreTypes
  <2> QED BY <2>1, <2>2, <1>1, <1>2, <1>3, <1>4, QuietStep DEF TaskStates
<1> QED BY <1>5, <1>6, <1>7, <1>8, <1>9 DEF main_step

\* A rank is started: it is one of the job, and it has no backend yet.
LEMMA StartedRank ==
  ASSUME RrunInv, BootInv, NEW g \in AllRanks, g \in JobRanks, process[g] = "none",
         process' = [process EXCEPT ![g] = "boot"],
         UNCHANGED <<cfg, application, exit_code, joined, relay, coordination, root_address>>,
         \A t \in AllTasks : task[t] = "aborted" => task'[t] = "aborted",
         task'[0] \in {"launch", "wait"} => task[0] \in {"launch", "wait"} \/ Mode = "passthrough"
  PROVE  BootInv'
<1>1. /\ JobRanks' = JobRanks /\ Mode' = Mode /\ FilesUsed' = FilesUsed /\ Tasks' = Tasks
      /\ \A t : Directory(t)' = Directory(t)
      /\ \A h : Store(h)' = Store(h)
  BY CfgStays
<1>2. /\ RrunTypes /\ StoreTypes /\ JoinedInv /\ StoreInv /\ ServerInv /\ JobRanks \subseteq AllRanks
      /\ 0 \in AllRanks
  BY JobFacts, ZeroIsRank DEF RrunInv, BootInv
<1>3. \A h \in AllRanks : process'[h] = IF h = g THEN "boot" ELSE process[h]
  BY <1>2 DEF RrunTypes
<1>4. JoinedInv'
  BY <1>1, <1>2, <1>3 DEF JoinedInv
<1>5. StoreTypes' /\ ServerInv'
  BY <1>1, <1>2 DEF StoreTypes, ServerInv
<1>6. StoreInv'
  <2> SUFFICES ASSUME FilesUsed, Gathering'
               PROVE  /\ \A h \in JobRanks : process'[h] = "init" => coordination[Store(h)]
                      /\ \A d \in AllTasks : PublishedIn(d)' => d \in root_address
    BY <1>1 DEF StoreInv
  <2>1. Gathering
    BY <1>1, <1>2, FailuresStay DEF Gathering
  <2>2. /\ \A h \in JobRanks : process[h] = "init" => coordination[Store(h)]
        /\ \A d \in AllTasks : PublishedIn(d) => d \in root_address
    BY <2>1, <1>2 DEF StoreInv
  <2>3. \A d \in AllTasks : PublishedIn(d)' => PublishedIn(d)
    BY <1>1, <1>2, <1>3 DEF PublishedIn
  <2> QED BY <2>2, <2>3, <1>2, <1>3
<1> QED BY <1>4, <1>5, <1>6 DEF BootInv

LEMMA LaunchStepBoots ==
  ASSUME RrunInv, BootInv, NEW t \in Tasks, launch_step(t)
  PROVE  BootInv'
<1>1. /\ RrunTypes /\ StoreTypes /\ JoinedInv /\ t \in AllTasks /\ 0 \in AllTasks
      /\ Directory(t) \in AllTasks /\ RanksInv(t)
  BY JobFacts DEF RrunInv, BootInv
<1>2. UNCHANGED <<cfg, application>>
  BY DEF launch_step
<1>3. Mode = "single" => t = 0
  BY DEF Mode, Tasks
<1>4. CASE execute_slurm_passthrough_mode(t)
  <2>1. /\ task[t] = "start" /\ Mode = "passthrough"
        /\ process' = [process EXCEPT ![t] = "boot"] /\ task' = [task EXCEPT ![t] = "application"]
        /\ UNCHANGED <<exit_code, joined, relay, coordination, root_address>>
    BY <1>4 DEF execute_slurm_passthrough_mode, Goto, relayVars, storeVars
  <2>2. cfg.n = 1
    BY <2>1 DEF Mode
  <2>3. 0 \in Indices /\ Rank(t, 0) = t
    BY <2>2, <1>1, RrunAssumption DEF Rank, Indices, AllTasks
  <2>4. t \in AllRanks /\ t \in JobRanks
    BY <2>3, <1>1, CfgFacts, JobFacts
  <2>5. process[t] = "none"
    BY <2>1, <2>3, <1>1, RrunAssumption DEF RanksInv, RrunTypes, Indices
  <2>6. \A u \in AllTasks : task[u] = "aborted" => task'[u] = "aborted"
    BY <2>1, <1>1 DEF RrunTypes
  <2> QED BY <2>1, <2>4, <2>5, <2>6, <1>2, StartedRank
<1>5. CASE launch_rank_local(t)
  <2>1. /\ task[t] = "launch"
        /\ process' = [process EXCEPT ![Rank(t, launched[t])] = "boot"]
        /\ task' = [task EXCEPT ![t] = "wait"] \/ UNCHANGED task
        /\ UNCHANGED <<exit_code, joined, relay, coordination, root_address>>
    BY <1>5 DEF launch_rank_local, Goto, relayVars, storeVars, Rank
  <2>2. launched[t] \in Indices
    BY <2>1, <1>1, CfgFacts DEF RanksInv, Indices, RrunTypes
  <2>3. Rank(t, launched[t]) \in AllRanks /\ Rank(t, launched[t]) \in JobRanks
    BY <2>2, <1>1, CfgFacts, JobFacts
  <2>4. process[Rank(t, launched[t])] = "none"
    BY <2>1, <2>2, <1>1 DEF RanksInv, Indices
  <2>5. /\ \A u \in AllTasks : task[u] = "aborted" => task'[u] = "aborted"
        /\ task'[0] \in {"launch", "wait"} => task[0] \in {"launch", "wait"}
    BY <2>1, <1>1 DEF RrunTypes
  <2> QED BY <2>1, <2>3, <2>4, <2>5, <1>2, StartedRank
<1>6. CASE launch_fails(t)
  <2>1. /\ task[t] = "launch"
        /\ IF launched[t] = 0 /\ Mode = "single"
           THEN task' = [task EXCEPT ![t] = "done"] ELSE task' = [task EXCEPT ![t] = "aborted"]
        /\ IF FilesUsed THEN UNCHANGED <<coordination, root_address>> ELSE RemoveStore(Directory(t))
        /\ relay' = [relay EXCEPT ![t] = IF Mode = "hybrid" THEN "end" ELSE @]
        /\ UNCHANGED <<process, exit_code, joined>>
    BY <1>6 DEF launch_fails, Goto, rankVars, storeVars
  <2>2. StoreTypes'
    <3>1. relay' \in [AllTasks -> {"none", "poll", "sync", "fence", "write", "end"}]
      BY <2>1, <1>1 DEF StoreTypes
    <3>2. coordination' \in [AllTasks -> BOOLEAN]
      BY <2>1, <1>1, StoreOps DEF StoreTypes
    <3> QED BY <3>1, <3>2 DEF StoreTypes
  <2>3. /\ task'[t] \in {"done", "aborted"} /\ (Mode = "hybrid" => task'[t] = "aborted")
        /\ \A u \in AllTasks : task[u] = "aborted" => task'[u] = "aborted"
    BY <2>1, <1>1 DEF RrunTypes
  <2>4. StoresGain \/ ~ FilesUsed
    <3> SUFFICES ASSUME FilesUsed PROVE StoresGain
      OBVIOUS
    <3>1. UNCHANGED <<coordination, root_address>>
      BY <2>1
    <3>2. Mode = "hybrid" => ~ NothingFailed'
      BY <2>3, <1>1 DEF NothingFailed
    <3> QED BY <3>1, <3>2 DEF StoresGain
  <2> QED BY <2>1, <2>2, <2>3, <2>4, <1>1, <1>2, <1>3, QuietStep
<1> QED BY <1>4, <1>5, <1>6 DEF launch_step

LEMMA SignalStepBoots ==
  ASSUME RrunInv, BootInv, NEW t \in Tasks, signal_step(t)
  PROVE  BootInv'
<1>1. /\ RrunTypes /\ StoreTypes /\ JoinedInv /\ t \in AllTasks /\ 0 \in AllTasks
  BY JobFacts DEF RrunInv, BootInv
<1>2. UNCHANGED <<cfg, application, process, exit_code, joined, relay, coordination, root_address>>
  BY DEF signal_step, rankVars, relayVars, storeVars
<1>3. UNCHANGED task \/ task' = [task EXCEPT ![t] = "aborted"]
  BY DEF signal_step, signal_arrives, signal_forwarded, Goto
<1>4. /\ \A u \in AllTasks : task[u] = "aborted" => task'[u] = "aborted"
      /\ task'[0] \in {"launch", "wait"} => task[0] \in {"launch", "wait"}
  BY <1>1, <1>3 DEF RrunTypes
<1>5. StoresGain /\ StoreTypes'
  BY <1>1, <1>2 DEF StoresGain, StoreTypes
<1> QED BY <1>1, <1>2, <1>4, <1>5, QuietStep

LEMMA RelayStepBoots ==
  ASSUME RrunInv, BootInv, NEW t \in Tasks, relay_root_address(t)
  PROVE  BootInv'
<1>1. /\ RrunTypes /\ StoreTypes /\ JoinedInv /\ t \in AllTasks /\ 0 \in AllTasks
      /\ Directory(t) \in AllTasks /\ RanksInv(t)
  BY JobFacts DEF RrunInv, BootInv
<1>2. UNCHANGED <<cfg, application, process, exit_code, joined>>
  BY DEF relay_root_address, rankVars
<1>3. ASSUME StoresGain, StoreTypes', UNCHANGED task \/ task' = [task EXCEPT ![t] = "aborted"],
             UNCHANGED coordination \/ \A d \in AllTasks : coordination[d] => coordination'[d]
      PROVE  BootInv'
  <2>1. /\ \A u \in AllTasks : task[u] = "aborted" => task'[u] = "aborted"
        /\ task'[0] \in {"launch", "wait"} => task[0] \in {"launch", "wait"}
    BY <1>1, <1>3 DEF RrunTypes
  <2>2. Mode = "single" /\ ~ cfg.file_backend /\ task'[0] \in {"launch", "wait"} => coordination'[0]
    BY <2>1, <1>1, <1>3 DEF BootInv, ServerInv
  <2> QED BY <2>1, <2>2, <1>1, <1>2, <1>3, QuietStep
<1>4. CASE relay_polls(t)
  <2>1. /\ relay' = [relay EXCEPT ![t] = "sync"]
           \/ (relay' = [relay EXCEPT ![t] = "end"] /\ task[t] = "join_relay")
        /\ UNCHANGED <<task, coordination, root_address>>
    BY <1>4 DEF relay_polls, RelayGoto, relay_stop, storeVars
  <2>2. task[t] = "join_relay" => ~ Gathering
    <3> SUFFICES ASSUME task[t] = "join_relay" PROVE \A g \in LocalRanks(t) : process[g] = "ended"
      BY <1>1, EndedTask
    <3>1. LocalRanks(t) = {Rank(t, i) : i \in Indices}
      BY DEF LocalRanks, Rank, Indices
    <3> QED BY <3>1, <1>1 DEF RanksInv
  <2>3. StoreTypes'
    BY <2>1, <1>1 DEF StoreTypes
  <2>4. StoresGain
    <3>1. \A u \in Tasks : relay'[u] = "end" => relay[u] = "end" \/ ~ Gathering
      BY <2>1, <2>2, <1>1, JobFacts DEF StoreTypes
    <3> QED BY <3>1, <2>1 DEF StoresGain
  <2> QED BY <2>1, <2>3, <2>4, <1>3
<1>5. CASE relay_syncs(t)
  <2>1. relay' = [relay EXCEPT ![t] = "fence"] /\ UNCHANGED <<task, coordination, root_address>>
    BY <1>5 DEF relay_syncs, RelayGoto, storeVars
  <2>2. StoreTypes'
    BY <2>1, <1>1 DEF StoreTypes
  <2>3. StoresGain
    <3>1. \A u \in Tasks : relay'[u] = "end" => relay[u] = "end"
      BY <2>1, <1>1, JobFacts DEF StoreTypes
    <3> QED BY <3>1, <2>1 DEF StoresGain
  <2> QED BY <2>1, <2>2, <2>3, <1>3
<1>6. CASE relay_creates_directory(t)
  <2>1. relay' = [relay EXCEPT ![t] = "write"] /\ CreateDirectory(Directory(t)) /\ UNCHANGED task
    BY <1>6 DEF relay_creates_directory, RelayGoto
  <2>2. /\ coordination' \in [AllTasks -> BOOLEAN] /\ UNCHANGED root_address
        /\ \A d \in AllTasks : coordination[d] => coordination'[d]
    BY <2>1, <1>1, StoreOps
  <2>3. StoreTypes'
    BY <2>1, <2>2, <1>1 DEF StoreTypes
  <2>4. StoresGain
    <3>1. \A u \in Tasks : relay'[u] = "end" => relay[u] = "end"
      BY <2>1, <1>1, JobFacts DEF StoreTypes
    <3> QED BY <3>1, <2>2 DEF StoresGain
  <2> QED BY <2>1, <2>2, <2>3, <2>4, <1>3
<1>7. CASE write_kv_for_children(t)
  <2>1. /\ relay' = [relay EXCEPT ![t] = "end"] /\ UNCHANGED coordination
        /\ \/ root_address' = root_address \cup {Directory(t)} /\ UNCHANGED task
           \/ task' = [task EXCEPT ![t] = "aborted"] /\ UNCHANGED root_address
    BY <1>7 DEF write_kv_for_children, RelayGoto, Goto
  <2>2. StoreTypes'
    BY <2>1, <1>1 DEF StoreTypes
  <2>3. Directory(t) \in root_address' \/ ~ NothingFailed'
    <3>1. CASE task' = [task EXCEPT ![t] = "aborted"]
      <4>1. task'[t] = "aborted"
        BY <3>1, <1>1 DEF RrunTypes
      <4> QED BY <4>1, <1>1 DEF NothingFailed
    <3> QED BY <3>1, <2>1
  <2>4. StoresGain
    <3>1. \A u \in Tasks \ {t} : relay'[u] = relay[u]
      BY <2>1, <1>1, JobFacts DEF StoreTypes
    <3> QED BY <3>1, <2>1, <2>3 DEF StoresGain
  <2> QED BY <2>1, <2>2, <2>4, <1>3
<1> QED BY <1>4, <1>5, <1>6, <1>7 DEF relay_root_address

\* A rank step moves that rank only; where it ends badly, the rest does not matter.
LEMMA RankStepBoots ==
  ASSUME RrunInv, BootInv, NEW g \in AllRanks, rank_step(g)
  PROVE  BootInv'
<1>1. /\ RrunTypes /\ StoreTypes /\ JoinedInv /\ StoreInv /\ ServerInv
      /\ JobRanks \subseteq AllRanks /\ Tasks \subseteq AllTasks /\ Directory(0) \in AllTasks
      /\ \A h \in JobRanks : Store(h) \in AllTasks
  BY JobFacts DEF RrunInv, BootInv
<1>2. /\ RankMoves(g) /\ g \in JobRanks /\ process[g] # "none"
      /\ UNCHANGED <<cfg, application, task>>
  <2>1. RankMoves(g) /\ UNCHANGED <<cfg, application, task>>
    BY <1>1, RankStepMoves DEF rank_step, launchVars
  <2> QED BY <2>1, <1>1 DEF RankMoves, JoinedInv
<1>3. /\ JobRanks' = JobRanks /\ Mode' = Mode /\ FilesUsed' = FilesUsed /\ Tasks' = Tasks
      /\ \A t : Directory(t)' = Directory(t)
      /\ \A h : Store(h)' = Store(h)
  BY <1>2, CfgStays
<1>4. /\ \A h \in AllRanks \ {g} : process'[h] = process[h] /\ exit_code'[h] = exit_code[h]
      /\ process[g] # "ended"
  BY <1>1, <1>2 DEF RankMoves, RrunTypes
<1>5. UNCHANGED relay
  BY DEF rank_step, rank_init, rank_put, rank_writes_address_file, rank_get, rank_barrier,
         rank_ends, rank_fails, rank_terminated, relayVars
<1>6. coordination' \in [AllTasks -> BOOLEAN] /\ (~ FilesUsed => UNCHANGED coordination)
  <2>1. \/ UNCHANGED coordination
        \/ FilesUsed /\ CreateDirectory(Store(g))
        \/ FilesUsed /\ RemoveStore(Store(g))
    BY DEF rank_step, rank_init, rank_put, rank_writes_address_file, rank_get, rank_barrier,
           rank_ends, rank_fails, rank_terminated, DropBackend, storeVars
  <2> QED BY <2>1, <1>1, <1>2, StoreOps DEF StoreTypes
<1>7. StoreTypes' /\ ServerInv'
  <2>1. StoreTypes'
    BY <1>1, <1>5, <1>6 DEF StoreTypes
  <2>2. Mode = "single" /\ ~ cfg.file_backend => ~ FilesUsed
    BY DEF FilesUsed
  <2> QED BY <2>1, <2>2, <1>1, <1>2, <1>3, <1>6 DEF ServerInv
<1>8. NothingFailed' => NothingFailed
  BY <1>1, <1>2, <1>4, FailuresStay
\* The rank ends with a failure.
<1>9. ASSUME NEW code \in Int \ {0}, Ends(g, code), joined' = joined
      PROVE  BootInv'
  <2>1. process'[g] = "ended" /\ exit_code'[g] = code
    BY <1>9, <1>1 DEF Ends, RrunTypes
  <2>2. JoinedInv'
    BY <2>1, <1>1, <1>2, <1>3, <1>4, <1>9 DEF JoinedInv
  <2>3. ~ NothingFailed'
    BY <2>1 DEF NothingFailed
  <2> QED BY <2>2, <2>3, <1>7 DEF BootInv, StoreInv, Gathering
\* It goes on.
<1>10. ASSUME NEW p, RankGoto(g, p)
       PROVE  process'[g] = p /\ UNCHANGED exit_code
  BY <1>10, <1>1 DEF RankGoto, RrunTypes
\* What StoreInv needs of a step that goes on.
<1>11. ASSUME UNCHANGED exit_code,
              Gathering =>
                 /\ \A h \in JobRanks : process'[h] = "init" => coordination'[Store(h)]
                 /\ root_address \subseteq root_address'
                 /\ process'[0] \notin {"none", "boot", "init"} =>
                        process[0] \notin {"none", "boot", "init"} \/ Directory(0) \in root_address',
              joined' # JobRanks => joined # JobRanks
       PROVE  StoreInv'
  <2> SUFFICES ASSUME FilesUsed, Gathering'
               PROVE  /\ \A h \in JobRanks : process'[h] = "init" => coordination'[Store(h)]
                      /\ \A d \in AllTasks : PublishedIn(d)' => d \in root_address'
    BY <1>3 DEF StoreInv
  <2>1. Gathering
    BY <1>2, <1>3, <1>8, <1>11 DEF Gathering
  <2>2. \A d \in AllTasks : PublishedIn(d) => d \in root_address
    BY <2>1, <1>1 DEF StoreInv
  <2>3. ASSUME NEW d \in AllTasks, PublishedIn(d)' PROVE d \in root_address'
    <3>1. CASE d = Directory(0) /\ process'[0] \notin {"none", "boot", "init"}
      BY <3>1, <2>1, <2>2, <1>11 DEF PublishedIn
    <3>2. CASE Mode = "hybrid" /\ \E t \in Tasks : d = Directory(t) /\ relay[t] = "end"
      BY <3>2, <2>1, <2>2, <1>11 DEF PublishedIn
    <3> QED BY <3>1, <3>2, <2>3, <1>3, <1>5 DEF PublishedIn
  <2> QED BY <2>1, <2>3, <1>11
<1>12. Gathering => \A h \in JobRanks : process[h] = "init" => coordination[Store(h)] \/ ~ FilesUsed
  BY <1>1 DEF StoreInv
<1>13. CASE rank_init(g)
  <2>1. /\ process[g] = "boot" /\ application = "ucxx" /\ RankGoto(g, "init") /\ UNCHANGED joined
        /\ IF FilesUsed THEN CreateDirectory(Store(g)) ELSE UNCHANGED <<coordination, root_address>>
    BY <1>13 DEF rank_init, storeVars
  <2>2. process'[g] = "init" /\ UNCHANGED exit_code
    BY <2>1, <1>10
  <2>3. JoinedInv'
    BY <2>1, <2>2, <1>1, <1>2, <1>3, <1>4 DEF JoinedInv
  <2>4. StoreInv'
    <3>1. CASE FilesUsed
      <4>1. /\ coordination'[Store(g)] /\ UNCHANGED root_address
            /\ \A e \in AllTasks : coordination[e] => coordination'[e]
        BY <3>1, <2>1, <1>1, <1>2, StoreOps
      <4>2. Gathering => \A h \in JobRanks : process'[h] = "init" => coordination'[Store(h)]
        BY <4>1, <3>1, <1>1, <1>4, <1>12
      <4>3. process'[0] \notin {"none", "boot", "init"} => process[0] \notin {"none", "boot", "init"}
        BY <2>2, <1>1, <1>2, <1>4, ZeroIsRank
      <4> QED BY <4>1, <4>2, <4>3, <2>1, <2>2, <1>11
    <3>2. CASE ~ FilesUsed
      BY <3>2, <1>3 DEF StoreInv
    <3> QED BY <3>1, <3>2
  <2> QED BY <2>3, <2>4, <1>7 DEF BootInv
<1>14. CASE rank_put(g)
  <2>1. CASE Ends(g, 1) /\ joined' = joined
    BY <2>1, <1>9
  <2>2. CASE /\ RankGoto(g, "published") /\ root_address' = root_address \cup {Store(g)}
             /\ UNCHANGED <<coordination, joined>> /\ g = 0 /\ process[g] = "init"
    <3>1. process'[g] = "published" /\ UNCHANGED exit_code
      BY <2>2, <1>10
    <3>2. JoinedInv'
      BY <2>2, <3>1, <1>1, <1>2, <1>3, <1>4 DEF JoinedInv
    <3>3. StoreInv'
      <4>1. CASE FilesUsed
        <5>1. Gathering => \A h \in JobRanks : process'[h] = "init" => coordination'[Store(h)]
          BY <2>2, <3>1, <4>1, <1>1, <1>4, <1>12
        <5>2. Store(g) = Directory(0)
          <6>1. Mode # "passthrough"
            BY <4>1 DEF FilesUsed
          <6>2. TaskOf(0) = 0
            BY <1>1, CfgFacts, DivOfProduct DEF TaskOf
          <6> QED BY <6>1, <6>2, <2>2 DEF Store
        <5> QED BY <5>1, <5>2, <2>2, <3>1, <1>11
      <4>2. CASE ~ FilesUsed
        BY <4>2, <1>3 DEF StoreInv
      <4> QED BY <4>1, <4>2
    <3> QED BY <3>2, <3>3, <1>7 DEF BootInv
  <2> QED BY <2>1, <2>2, <1>14 DEF rank_put, storeVars
<1>15. ASSUME RankGoto(g, "connected"), joined' = joined \cup {g}, UNCHANGED <<coordination, root_address>>,
              process[g] \in {"init", "published"},
              g = 0 => process[g] = "published"
       PROVE  BootInv'
  <2>1. process'[g] = "connected" /\ UNCHANGED exit_code
    BY <1>10, <1>15
  <2>2. joined # JobRanks
    BY <1>2, <1>1, <1>15 DEF JoinedInv
  <2>3. JoinedInv'
    BY <2>1, <2>2, <1>1, <1>2, <1>3, <1>4, <1>15 DEF JoinedInv
  <2>4. StoreInv'
    <3>1. CASE FilesUsed
      <4>1. Gathering => \A h \in JobRanks : process'[h] = "init" => coordination'[Store(h)]
        BY <2>1, <3>1, <1>1, <1>4, <1>12, <1>15
      <4>2. process'[0] \notin {"none", "boot", "init"} => process[0] \notin {"none", "boot", "init"}
        BY <1>1, <1>2, <1>4, <1>15, ZeroIsRank
      <4> QED BY <4>1, <4>2, <2>1, <2>2, <1>11, <1>15
    <3>2. CASE ~ FilesUsed
      BY <3>2, <1>3 DEF StoreInv
    <3> QED BY <3>1, <3>2
  <2> QED BY <2>3, <2>4, <1>7 DEF BootInv
<1>16. CASE rank_writes_address_file(g)
  BY <1>15, <1>16 DEF rank_writes_address_file, storeVars
<1>17. CASE rank_get(g)
  <2>1. CASE Ends(g, 1) /\ joined' = joined
    BY <2>1, <1>9
  <2>2. CASE RankGoto(g, "connected") /\ joined' = joined \cup {g}
    BY <2>2, <1>15, <1>17 DEF rank_get, storeVars
  <2> QED BY <2>1, <2>2, <1>17 DEF rank_get
<1>18. CASE rank_barrier(g)
  <2>1. CASE Ends(g, 1) /\ joined' = joined
    BY <2>1, <1>9
  <2>2. CASE joined = JobRanks /\ RankGoto(g, "work") /\ joined' = joined /\ process[g] = "connected"
    <3>1. process'[g] = "work" /\ UNCHANGED exit_code
      BY <2>2, <1>10
    <3>2. JoinedInv'
      BY <2>2, <3>1, <1>1, <1>2, <1>3, <1>4 DEF JoinedInv
    <3>3. StoreInv'
      BY <2>2, <1>3 DEF StoreInv, Gathering
    <3> QED BY <3>2, <3>3, <1>7 DEF BootInv
  <2> QED BY <2>1, <2>2, <1>18 DEF rank_barrier
<1>19. CASE rank_ends(g)
  <2>1. /\ Ends(g, 0) /\ joined' = joined
        /\ process[g] = "work" \/ (process[g] = "boot" /\ application = "plain")
    BY <1>19 DEF rank_ends
  <2>2. process'[g] = "ended" /\ exit_code'[g] = 0
    BY <2>1, <1>1 DEF Ends, RrunTypes
  <2>3. application = "ucxx" => joined = JobRanks
    BY <2>1, <1>1 DEF JoinedInv
  <2>4. JoinedInv'
    BY <2>1, <2>2, <2>3, <1>1, <1>2, <1>3, <1>4 DEF JoinedInv
  <2>5. StoreInv'
    BY <2>1, <2>3, <1>2, <1>3 DEF StoreInv, Gathering
  <2> QED BY <2>4, <2>5, <1>7 DEF BootInv
<1>20. CASE rank_fails(g)
  <2>1. (Ends(g, 1) \/ Ends(g, 128 + 9)) /\ joined' = joined
    BY <1>20 DEF rank_fails
  <2> QED BY <2>1, <1>9
<1>21. CASE rank_terminated(g)
  <2>1. Ends(g, 128 + 15) /\ joined' = joined
    BY <1>21 DEF rank_terminated
  <2> QED BY <2>1, <1>9
<1> QED BY <1>13, <1>14, <1>16, <1>17, <1>18, <1>19, <1>20, <1>21 DEF rank_step

LEMMA BootStepKeeps == ASSUME RrunInv, BootInv, [RrunNext]_rrunVars PROVE BootInv'
<1>1. CASE \E g \in AllRanks : rank_step(g)
  BY <1>1, RankStepBoots
<1>2. CASE \E t \in Tasks : main_step(t)
  BY <1>2, MainStepBoots
<1>3. CASE \E t \in Tasks : launch_step(t)
  BY <1>3, LaunchStepBoots
<1>4. CASE \E t \in Tasks : signal_step(t)
  BY <1>4, SignalStepBoots
<1>5. CASE \E t \in Tasks : relay_root_address(t)
  BY <1>5, RelayStepBoots
<1>6. CASE UNCHANGED rrunVars
  <2>1. /\ UNCHANGED <<cfg, application, process, exit_code, joined, task, relay, coordination, root_address>>
        /\ RrunTypes /\ StoreTypes
    BY <1>6 DEF rrunVars, rankVars, launchVars, relayVars, storeVars, RrunInv, BootInv
  <2>2. StoresGain /\ StoreTypes'
    BY <2>1 DEF StoresGain, StoreTypes
  <2> QED BY <2>1, <2>2, QuietStep
<1> QED BY <1>1, <1>2, <1>3, <1>4, <1>5, <1>6 DEF RrunNext

LEMMA LaunchersSound == ASSUME RrunInv, BootInv PROVE LaunchersAreSound
<1>1. RrunTypes /\ cfg.n \in Nat \ {0} /\ Indices = 0 .. cfg.n - 1
  BY CfgFacts DEF RrunInv, Indices
<1>2. Tasks \subseteq AllTasks /\ JobRanks \subseteq AllRanks /\ \A g \in JobRanks : Store(g) \in AllTasks
  BY <1>1, JobFacts
<1>3. \A t : LocalRanks(t) = {Rank(t, i) : i \in Indices}
  BY DEF LocalRanks, Rank, Indices
<1>4. ExitStatusTells
  <2> SUFFICES ASSUME NEW t \in Tasks, task[t] = "done", launched[t] = cfg.n,
                      NEW codes, codes = {IF g \in lost THEN 1 ELSE exit_code[g] : g \in LocalRanks(t)}
               PROVE  exit_status[t] \in codes /\ (exit_status[t] = 0 <=> codes = {0})
    BY DEF ExitStatusTells
  <2>1. RanksInv(t) /\ StatusInv(t) /\ launched[t] # 0 /\ waited[t] = cfg.n
    BY <1>1, <1>2 DEF RrunInv, RanksInv
  <2>2. codes = {Code(Rank(t, i)) : i \in Indices}
    BY <1>3 DEF Code
  <2>3. 0 \in Indices /\ \A i \in Indices : i < waited[t]
    BY <1>1, <2>1
  <2>4. CASE exit_status[t] = 0
    BY <2>1, <2>2, <2>3, <2>4 DEF StatusInv
  <2>5. CASE exit_status[t] # 0
    BY <2>1, <2>2, <2>3, <2>5 DEF StatusInv
  <2> QED BY <2>4, <2>5
<1>5. ServerOutlivesRanks
  <2> SUFFICES ASSUME Mode = "single", ~ cfg.file_backend, task[0] # "aborted",
                      NEW g \in JobRanks, Running(g)
               PROVE  coordination[0]
    BY DEF ServerOutlivesRanks
  <2>1. JobRanks = LocalRanks(0) /\ 0 \in AllTasks
    BY <1>1, JobFacts DEF Mode, Tasks, JobRanks
  <2>2. PICK i \in Indices : g = Rank(0, i)
    BY <2>1, <1>3
  <2>3. RanksInv(0) /\ process[g] \notin {"none", "ended"} /\ task[0] \in TaskStates
    BY <2>1, <1>1 DEF RrunInv, Running, RrunTypes
  <2>4. task[0] # "application"
    BY <2>3 DEF RanksInv
  <2>5. i < launched[0]
    BY <2>2, <2>3, <2>4 DEF RanksInv
  <2>6. task[0] \in {"launch", "wait"}
    BY <2>2, <2>3, <2>4, <2>5, <1>1 DEF RanksInv, TaskStates
  <2> QED BY <2>6 DEF BootInv, ServerInv
<1>6. DirectoryOutlivesBootstrap
  <2> SUFFICES ASSUME FilesUsed, NothingFailed, NEW g \in JobRanks, process[g] = "init"
               PROVE  coordination[Store(g)] /\ (PublishedIn(Store(g)) => Store(g) \in root_address)
    BY DEF DirectoryOutlivesBootstrap
  <2>1. Gathering
    BY <1>2 DEF BootInv, JoinedInv, Gathering
  <2> QED BY <2>1, <1>2 DEF BootInv, StoreInv
<1> QED BY <1>4, <1>5, <1>6 DEF LaunchersAreSound

\* A task of rrun that has ended reports exactly what its ranks have returned: its status is
\* 0 when it has seen all of them end with 0, and otherwise that of one that has failed or was
\* lost.  The socket server is there as long as a rank runs; a directory, which the tasks of a
\* node share and any of them and rank 0 may remove, is there for every rank that has not got
\* the address yet, and keeps the address for it, as long as nothing has failed.  For every
\* number of tasks, ranks and nodes, in every mode, and in whatever order the ranks end.
THEOREM LaunchersHold == Spec => []LaunchersAreSound
<1>1. Init => RrunInv /\ BootInv
  BY RrunBegins, BootBegins DEF Init
<1>2. RrunInv /\ BootInv /\ [Next]_vars => RrunInv' /\ BootInv'
  <2>1. [Next]_vars => [RrunNext]_rrunVars
    BY DEF Next, vars
  <2> QED BY <2>1, RrunStepKeeps, BootStepKeeps
<1>3. RrunInv /\ BootInv => LaunchersAreSound
  BY LaunchersSound
<1> QED BY <1>1, <1>2, <1>3, PTL DEF Spec

-----------------------------------------------------------------------------
(* The resource binding: what bind() has done when it comes to verify.     *)

\* The topology's list of cores is compared as a set; a policy that is not in effect was not
\* asked for, or the system does not offer it; the network devices are set last.
MemoryDone ==
    bind_opts.memory /\ gpu_info.memory # {} =>
        \/ applied /\ binding.memory = gpu_info.memory
        \/ os.policy = "eperm" \/ ~ gpu_info.memory \subseteq os.nodes
NetworkDone == bind_opts.network /\ gpu_info.network # {} => binding.network = gpu_info.network
BindingFields == binding = [cpu |-> binding.cpu, memory |-> binding.memory, network |-> binding.network]

BindingInv ==
    /\ BindingFields
    /\ bind_opts \in bind_options
    /\ os.policy \in {"ok", "eperm", "error"}
    /\ bind_pc \in {"network", "verify"} => MemoryDone
    /\ bind_pc = "verify" => NetworkDone
    /\ BoundAsAsked

LEMMA BindBegins == ASSUME BindInit PROVE BindingInv
<1>1. /\ bind_pc = "resolve" /\ bind_opts \in bind_options /\ os.policy \in {"ok", "eperm", "error"}
  BY DEF BindInit
<1>2. BindingFields
  BY DEF BindInit, BindingFields
<1> QED BY <1>1, <1>2 DEF BindingInv, BoundAsAsked

LEMMA BindStepKeeps == ASSUME BindingInv, [BindNext]_bindVars PROVE BindingInv'
<1> USE DEF At_bind
<1>1. CASE resolve_gpu_id
  <2>1. bind_pc' \in {"cpu", "thrown"} /\ UNCHANGED <<gpu_info, bind_opts, os, binding, applied>>
    BY <1>1 DEF resolve_gpu_id
  <2> QED BY <2>1 DEF BindingInv, BindingFields, BoundAsAsked
<1>2. CASE set_cpu_affinity
  <2>1. bind_pc' \in {"memory", "thrown"} /\ UNCHANGED <<gpu_info, bind_opts, os, applied>>
    BY <1>2 DEF set_cpu_affinity
  <2>2. BindingFields'
    BY <1>2 DEF set_cpu_affinity, BindingInv, BindingFields
  <2> QED BY <2>1, <2>2 DEF BindingInv, BoundAsAsked
<1>3. CASE bind_memory
  <2>1. bind_pc' \in {"network", "thrown"} /\ UNCHANGED <<gpu_info, bind_opts, os>>
    BY <1>3 DEF bind_memory
  <2>2. PICK status : /\ status = IF bind_opts.memory THEN set_numa_memory_binding(gpu_info.memory)
                                  ELSE "unavailable"
                      /\ bind_pc' = IF status = "failed" THEN "thrown" ELSE "network"
                      /\ applied' = (status = "applied")
                      /\ binding' = IF status = "applied"
                                    THEN [binding EXCEPT !.memory = gpu_info.memory] ELSE binding
    BY <1>3 DEF bind_memory
  <2>3. BindingFields'
    BY <2>2 DEF BindingInv, BindingFields
  <2>4. bind_pc' = "network" => MemoryDone'
    <3> SUFFICES ASSUME status # "failed", bind_opts.memory, gpu_info.memory # {},
                        os.policy # "eperm", gpu_info.memory \subseteq os.nodes
                 PROVE  applied' /\ binding'.memory = gpu_info.memory
      BY <2>1, <2>2 DEF MemoryDone
    <3>1. status = "applied"
      BY <2>2 DEF set_numa_memory_binding
    <3>2. applied' = TRUE
      BY <3>1, <2>2
    <3>3. binding'.memory = gpu_info.memory
      BY <3>1, <2>2 DEF BindingInv, BindingFields
    <3> QED BY <3>2, <3>3
  <2> QED BY <2>1, <2>3, <2>4 DEF BindingInv, BoundAsAsked
<1>4. CASE bind_network
  <2>1. /\ bind_pc' \in {"verify", "bound"} /\ UNCHANGED <<gpu_info, bind_opts, os, applied>>
        /\ MemoryDone /\ (bind_pc' = "bound" => ~ bind_opts.verify)
    BY <1>4 DEF bind_network, BindingInv
  <2>2. BindingFields' /\ binding'.memory = binding.memory /\ NetworkDone'
    BY <1>4 DEF bind_network, BindingInv, BindingFields, NetworkDone
  <2>3. MemoryDone'
    BY <2>1, <2>2 DEF MemoryDone
  <2> QED BY <2>1, <2>2, <2>3 DEF BindingInv, BoundAsAsked
<1>5. CASE verify
  <2>1. /\ bind_pc' \in {"bound", "thrown"} /\ UNCHANGED <<gpu_info, bind_opts, os, binding, applied>>
        /\ MemoryDone /\ NetworkDone
    BY <1>5 DEF verify, BindingInv
  <2>2. ASSUME bind_pc' = "bound", bind_opts.cpu, gpu_info.cpu # <<>>
        PROVE  binding.cpu = ToSet(gpu_info.cpu)
    <3>1. PICK expected : /\ expected.cpu = IF bind_opts.cpu THEN gpu_info.cpu ELSE <<>>
                          /\ bind_pc' = IF validate_binding(expected) THEN "bound" ELSE "thrown"
      BY <1>5 DEF verify
    <3>2. expected.cpu = gpu_info.cpu /\ validate_binding(expected)
      BY <3>1, <2>2
    <3> QED BY <3>2, <2>2 DEF validate_binding, compare_cpu_affinity
  <2>3. BoundAsAsked'
    BY <2>1, <2>2 DEF BoundAsAsked, MemoryDone, NetworkDone
  <2>4. BindingFields'
    BY <2>1 DEF BindingInv, BindingFields
  <2> QED BY <2>1, <2>3, <2>4 DEF BindingInv
<1>6. CASE check_resource_binding
  <2>1. bind_pc' \in {"PASSED", "FAILED"} /\ UNCHANGED <<gpu_info, bind_opts, os, binding, applied>>
    BY <1>6 DEF check_resource_binding
  <2> QED BY <2>1 DEF BindingInv, BindingFields, BoundAsAsked
<1>7. CASE UNCHANGED bindVars
  BY <1>7 DEF bindVars, BindingInv, BindingFields, BoundAsAsked, MemoryDone, NetworkDone
<1> QED BY <1>1, <1>2, <1>3, <1>4, <1>5, <1>6, <1>7 DEF BindNext

\* When bind() returns and has verified, every binding that was asked for and that the
\* topology knows is in effect, exactly, but for a memory policy that the system does not
\* offer.
THEOREM BindingIsAsAsked == Spec => []BoundAsAsked
<1>1. Init => BindingInv
  BY BindBegins DEF Init
<1>2. BindingInv /\ [Next]_vars => BindingInv'
  <2>1. [Next]_vars => [BindNext]_bindVars
    BY DEF Next, vars
  <2> QED BY <2>1, BindStepKeeps
<1>3. BindingInv => BoundAsAsked
  BY DEF BindingInv
<1> QED BY <1>1, <1>2, <1>3, PTL DEF Spec

=============================================================================
