----------------------------- MODULE MCBootstrap -----------------------------
(* The launcher rrun, the resource binding of a rank, the bootstrap        *)
(* backends that the ranks use, or the UCXX communicator that is built     *)
(* with them: they do not share state, and an instance runs one of them.   *)
EXTENDS Bootstrap, UCXX, Rrun, ResourceBinding

CONSTANT Parts   \* of "backend", "ucxx", "launcher", "binding"

VARIABLE part   \* what this instance runs

vars == <<part, bootstrapVars, ucxxVars, rrunVars, bindVars>>

\* The parts that do not run are in one fixed initial state.
Init ==
    /\ part \in Parts
    /\ BootstrapInit
    /\ part # "backend" => env = {} /\ program = "barriers"
    /\ UcxxInit
    /\ part # "ucxx" => by_host_port /\ threaded
    /\ RrunInit
    /\ part # "launcher" =>
          /\ cfg = [slurm |-> FALSE, in_slurm |-> FALSE, n |-> 1, file_backend |-> FALSE,
                   node |-> [t \in AllTasks |-> t]]
          /\ application = CHOOSE a \in Applications : TRUE
    /\ BindInit
    /\ part # "binding" =>
          /\ gpu_info = [cpu |-> <<>>, memory |-> {}, network |-> {}]
          /\ bind_opts = [cpu |-> TRUE, memory |-> TRUE, network |-> TRUE, verify |-> TRUE]
          /\ os = [cores |-> MaskCores, nodes |-> Nodes, policy |-> "ok"]

Next ==
    /\ UNCHANGED part
    /\ \/ part = "backend" /\ BootstrapNext /\ UNCHANGED <<ucxxVars, rrunVars, bindVars>>
       \/ part = "ucxx" /\ UcxxNext /\ UNCHANGED <<bootstrapVars, rrunVars, bindVars>>
       \/ part = "launcher" /\ RrunNext /\ UNCHANGED <<bootstrapVars, ucxxVars, bindVars>>
       \/ part = "binding" /\ BindNext /\ UNCHANGED <<bootstrapVars, ucxxVars, rrunVars>>

\* What keeps running; nothing makes a process be killed, or a stranger connect.
Progress ==
    /\ UNCHANGED part
    /\ \/ part = "backend" /\ BootstrapProgress /\ UNCHANGED <<ucxxVars, rrunVars, bindVars>>
       \/ part = "ucxx" /\ UcxxProgress /\ UNCHANGED <<bootstrapVars, rrunVars, bindVars>>
       \/ part = "launcher" /\ RrunProgress /\ UNCHANGED <<bootstrapVars, ucxxVars, bindVars>>

Spec == Init /\ [][Next]_vars /\ WF_vars(Progress)

(***************************************************************************)
(* UCXX::barrier() keeps the same promise as the barrier of a backend: no  *)
(* process leaves it before every process has entered it.                  *)
(***************************************************************************)
UcxxContract == INSTANCE BootstrapContract
    WITH Ranks <- Procs, published <- FALSE, got <- [p \in Procs |-> FALSE],
         entered <- rounds_entered, left <- rounds_left
BarrierRefinement == UcxxContract!Spec

(***************************************************************************)
(* Both implementations of the contract of Backend (backend.hpp): put, get *)
(* and barrier of the three bootstrap backends, and the barrier that the   *)
(* UCXX communicator builds from messages.                                 *)
(***************************************************************************)
KeepsContract == ContractRefinement /\ BarrierRefinement

\* Every rank runs to its end, and the server is gone with all its threads, unless a process
\* is killed, the environment is wrong or a wait on a file has run into its timeout; every
\* barrier of the communicator returns; and every rrun process ends once its ranks do, with
\* its relay thread joined, unless rank 0 never publishes its address.
EveryoneGetsThrough ==
    <>(\/ part = "backend" /\ BootstrapEnded
       \/ part = "ucxx" /\ UcxxDone
       \/ part = "launcher" /\ RrunEnded
       \/ part = "binding")
=============================================================================
