------------------------------ MODULE Bootstrap ------------------------------
(***************************************************************************)
(* rapidsmpf::bootstrap: init() chooses the backend from the environment   *)
(* that the launcher has set, and the ranks run their scripts with it.     *)
(***************************************************************************)
EXTENDS FileBackend, SocketBackend, SlurmBackend

CONSTANT Environments   \* the sets of variables a launcher may set

ASSUME EnvironmentsAssumption ==
    \A e \in Environments : e \subseteq {"RRUN_SOCKET_ADDR", "RRUN_COORD_DIR", "SLURM_PROCID"}

VARIABLE env   \* the environment of every rank

bootstrapVars == <<env, userVars, fileVars, socketVars, slurmVars>>

detect_backend ==
    CASE "RRUN_SOCKET_ADDR" \in env -> "SOCKET"
      [] "RRUN_SOCKET_ADDR" \notin env /\ "RRUN_COORD_DIR" \in env -> "FILE"
      [] env = {"SLURM_PROCID"} -> "SLURM"
      [] OTHER -> "FILE"

\* file_backend_init() throws without the directory; the other variables are set.
file_backend_init(r) ==
    /\ At(r, "init")
    /\ "RRUN_COORD_DIR" \notin env
    /\ Throw(r, "environment")
    /\ UNCHANGED <<fileVars, timed_out, effects>>

BootstrapInit ==
    /\ env \in Environments
    /\ UserInit /\ FileInit /\ SocketInit /\ SlurmInit

FileStep(r) ==
    \/ file_backend_init(r)
    \/ ("RRUN_COORD_DIR" \in env \/ ~ At(r, "init")) /\ FileNext(r)

OtherBackends(type) ==
    /\ type # "FILE" => UNCHANGED fileVars
    /\ type # "SOCKET" => UNCHANGED socketVars
    /\ type # "SLURM" => UNCHANGED slurmVars

\* A step inside a call of rank r, on its side.
call_step(r) ==
    /\ UNCHANGED <<program, crashed>>
    /\ OtherBackends(detect_backend)
    /\ \/ detect_backend = "FILE" /\ FileStep(r)
       \/ detect_backend = "SOCKET" /\ SocketClientNext(r)
       \/ detect_backend = "SLURM" /\ SlurmNext(r)
    /\ UNCHANGED env

\* comm->barrier() at the end of create_ucxx_comm().
barrier_step(r) ==
    /\ comm_barrier(r)
    /\ UNCHANGED <<env, program, crashed, timed_out, effects, fileVars, socketVars, slurmVars>>

crash_step(r) == crash(r) /\ UNCHANGED <<env, fileVars, socketVars, slurmVars>>

server_step ==
    /\ detect_backend = "SOCKET"
    /\ SocketServerNext
    /\ UNCHANGED <<env, fileVars, slurmVars>>

BootstrapNext ==
    \/ \E r \in Ranks : call_step(r) \/ barrier_step(r) \/ crash_step(r)
    \/ server_step

BootstrapSpec == BootstrapInit /\ [][BootstrapNext]_bootstrapVars

(***************************************************************************)
(* Every process that is not killed keeps running, every thread of the     *)
(* server is scheduled, and strangers are not kept: AUTH has a timeout.    *)
(* Each of these steps can be taken only so many times, so that fairness   *)
(* to any of them is fairness to each.                                     *)
(***************************************************************************)
BootstrapProgress ==
    \/ \E r \in Ranks : call_step(r) \/ barrier_step(r)
    \/ /\ detect_backend = "SOCKET"
       /\ \/ \E r \in Ranks : authenticate(r) \/ handle_request(r)
          \/ \E c \in Clients : accept_loop(c) \/ handler_ends(c)
          \/ server_shutdown \/ server_joined
       /\ UNCHANGED <<env, fileVars, slurmVars>>

-----------------------------------------------------------------------------

(***************************************************************************)
(* Whatever the backend: a rank leaves its n-th barrier only when every    *)
(* rank has entered its n-th, and get() returns only what rank 0 has put,  *)
(* also after timeouts and when processes are killed.                      *)
(***************************************************************************)
Contract == INSTANCE BootstrapContract
ContractRefinement == Contract!Spec

(***************************************************************************)
(* Unless a wait has run into its timeout, the coordination directory that *)
(* rank 0 removes in its destructor is there as long as any rank is still  *)
(* between its constructor and its destructor, and no write of a rank      *)
(* fails because it is gone.                                               *)
(***************************************************************************)
UsesDirectory(r) == r \notin crashed /\ Op(r) \notin {"init", "close", "exited"}

DirectoryOutlivesUse ==
    detect_backend = "FILE" /\ ~ timed_out =>
        \A r \in Ranks : error[r] # "io" /\ (UsesDirectory(r) => dir_exists)

\* Every rank has run to its end, and the server is gone with all its threads; or a process
\* was killed, the environment is wrong or a wait has run into its timeout.
BootstrapEnded ==
    \/ crashed # {} \/ timed_out \/ \E r \in Ranks : error[r] = "environment"
    \/ /\ \A r \in Ranks : Ended(r)
       /\ detect_backend = "SOCKET" => stopping = "joined"
=============================================================================
