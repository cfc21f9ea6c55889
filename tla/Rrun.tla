-------------------------------- MODULE Rrun --------------------------------
(***************************************************************************)
(* The launcher rrun.  A task is one rrun process: the only one in         *)
(* single-node mode, one per Slurm task otherwise.  It forks its ranks,    *)
(* forwards their output and one signal, waits for them, and cleans up     *)
(* what they coordinate with; under Slurm a relay thread of every task     *)
(* passes the address of rank 0 on.  The ranks, PMIx and the operating     *)
(* system are external.                                                    *)
(***************************************************************************)
EXTENDS Integers, FiniteSets

CONSTANTS
    NTasks,         \* SLURM_NTASKS
    PerTask,        \* the option -n of a task that forks
    Applications,   \* of "ucxx", "plain" (does not use UCXX), "server" (ends only when told)
    MaxFailures,    \* bound: ranks that fail, and forks that fail
    MaxSignals,     \* bound: signals to tasks
    SignalledModes  \* bound: the modes in which they are sent

ASSUME RrunAssumption ==
    /\ NTasks \in Nat \ {0} /\ PerTask \in Nat \ {0, 1}
    /\ Applications \subseteq {"ucxx", "plain", "server"}

VARIABLES
    cfg,             \* the options and the environment of every task
    application,     \* what the ranks run
    task,            \* task[t]: where the main thread of t is
    launched,        \* launched[t]: number of entries in processes
    waited,          \* waited[t]: number of processes it has waited for
    exit_status,     \* exit_status[t]
    process,         \* process[g]: state of the process of rank g
    exit_code,       \* exit_code[g]: how it has ended
    joined,          \* ranks that have entered the barrier at the end of create_ucxx_comm()
    lost,            \* ranks that waitpid() has failed for
    sent,            \* number of signals sent to tasks
    signal_pending,  \* tasks with a signal that sigwait() has not returned
    signal_thread,   \* tasks whose signal thread is in its loop
    blocked,         \* tasks that block SIGINT and SIGTERM
    masked,          \* ranks whose process blocks them
    rank_signals,    \* ranks with a pending signal
    failures         \* failures so far

launchVars == <<task, launched, waited, exit_status, lost>>
rankVars == <<process, exit_code, joined>>
signalVars == <<sent, signal_pending, signal_thread, blocked, masked, rank_signals>>

VARIABLES
    relay,           \* relay[t]: where the relay thread of t is
    address_file,    \* the file RRUN_ROOT_ADDRESS_FILE exists
    pmix,            \* tasks that have entered the fence of sync()
    coordination,    \* coordination[d]: the directory d, or the socket server, is there
    root_address     \* the stores that hold the address of rank 0

relayVars == <<relay, address_file, pmix>>
storeVars == <<coordination, root_address>>
rrunVars == <<cfg, application, launchVars, rankVars, signalVars, failures, relayVars, storeVars>>

\* node[t] is the first task on the node of t.
AllTasks == 0 .. NTasks - 1
Options == [slurm : BOOLEAN, in_slurm : BOOLEAN, n : {1, PerTask}, file_backend : BOOLEAN,
            node : [AllTasks -> AllTasks]]

(***************************************************************************)
(* parse_args() and main(): Slurm mode is detected, or asked for and then  *)
(* its variables must be there.  nranks is 1 where -n is not given.        *)
(***************************************************************************)
slurm_mode == cfg.in_slurm
Mode ==
    CASE cfg.slurm /\ ~ cfg.in_slurm -> "error"
      [] ~ slurm_mode                -> "single"
      [] slurm_mode /\ cfg.n = 1     -> "passthrough"
      [] OTHER                       -> "hybrid"

Tasks == IF slurm_mode THEN 0 .. NTasks - 1 ELSE {0}

\* rank_offset and the ranks that task t forks; the ranks of the job.
LocalRanks(t) == {t * cfg.n + i : i \in 0 .. cfg.n - 1}
TaskOf(g) == g \div cfg.n
AllRanks == 0 .. NTasks * PerTask - 1
JobRanks == UNION {LocalRanks(t) : t \in Tasks}

\* The name of the directory is that of the session in single-node mode, and that of the
\* job in hybrid mode, so that the tasks of a node share it.
FilesUsed == Mode = "hybrid" \/ (Mode = "single" /\ cfg.file_backend)
Directory(t) == IF Mode = "hybrid" THEN cfg.node[t] ELSE 0

RrunInit ==
    /\ cfg \in Options
    /\ cfg.in_slurm => ~ cfg.slurm /\ ~ cfg.file_backend   \* where they make no difference
    /\ \A t \in AllTasks : cfg.node[t] <= t /\ cfg.node[cfg.node[t]] = cfg.node[t]
    /\ Mode # "hybrid" => \A t \in AllTasks : cfg.node[t] = t
    /\ application \in Applications
    /\ task = [t \in AllTasks |-> "start"]
    /\ launched = [t \in AllTasks |-> 0]
    /\ waited = [t \in AllTasks |-> 0]
    /\ exit_status = [t \in AllTasks |-> 0]
    /\ process = [g \in AllRanks |-> "none"]
    /\ exit_code = [g \in AllRanks |-> 0]
    /\ joined = {} /\ lost = {}
    /\ sent = 0
    /\ signal_pending = {} /\ signal_thread = {}
    /\ blocked = {} /\ masked = {} /\ rank_signals = {}
    /\ failures = 0
    /\ relay = [t \in AllTasks |-> "none"]
    /\ address_file = FALSE /\ pmix = {}
    /\ coordination = [d \in AllTasks |-> FALSE]
    /\ root_address = {}

Goto(t, where) == task' = [task EXCEPT ![t] = where]

CreateDirectory(d) ==
    /\ coordination' = [coordination EXCEPT ![d] = TRUE]
    /\ UNCHANGED root_address

\* remove_all(), or the end of the server: the keys go, too.
RemoveStore(d) ==
    /\ coordination' = [coordination EXCEPT ![d] = FALSE]
    /\ root_address' = root_address \ {d}

-----------------------------------------------------------------------------
\* The processes of the ranks.

Running(g) == process[g] \in {"boot", "init", "published", "connected", "work"}

\* The backend is an object of create_ucxx_comm().
HasBackend(g) == process[g] \in {"init", "published", "connected"}
Store(g) == IF Mode = "passthrough" THEN 0 ELSE Directory(TaskOf(g))

RankGoto(g, where) == process' = [process EXCEPT ![g] = where] /\ UNCHANGED exit_code
Ends(g, code) ==
    /\ process' = [process EXCEPT ![g] = "ended"]
    /\ exit_code' = [exit_code EXCEPT ![g] = code]

\* ~FileBackend(): rank 0 waits for the other ranks, or its timeout, and removes the directory.
DropBackend(g) ==
    IF g = 0 /\ HasBackend(g) /\ FilesUsed THEN RemoveStore(Store(g)) ELSE UNCHANGED storeVars

\* The constructor of the backend, in create_ucxx_comm().
rank_init(g) ==
    /\ process[g] = "boot" /\ application = "ucxx"
    /\ RankGoto(g, "init")
    /\ IF FilesUsed THEN CreateDirectory(Store(g)) ELSE UNCHANGED storeVars
    /\ UNCHANGED <<joined, relayVars, failures>>

\* Rank 0: put(), which throws where the directory is gone, and then the file for the relay
\* of its parent.
rank_put(g) ==
    /\ g = 0 /\ process[g] = "init"
    /\ IF FilesUsed /\ ~ coordination[Store(g)]
       THEN Ends(g, 1) /\ UNCHANGED storeVars
       ELSE /\ RankGoto(g, "published")
            /\ root_address' = root_address \cup {Store(g)}
            /\ UNCHANGED coordination
    /\ UNCHANGED <<joined, relayVars, failures>>

rank_writes_address_file(g) ==
    /\ process[g] = "published"
    /\ address_file' = (Mode = "hybrid")
    /\ RankGoto(g, "connected")
    /\ joined' = joined \cup {g}
    /\ UNCHANGED <<relay, pmix, storeVars, failures>>

\* The other ranks: get() finds the address in the store of their task, or times out.
rank_get(g) ==
    /\ g # 0 /\ process[g] = "init"
    /\ \/ Store(g) \in root_address /\ RankGoto(g, "connected") /\ joined' = joined \cup {g}
       \/ Store(g) \notin root_address /\ Ends(g, 1) /\ UNCHANGED joined
    /\ UNCHANGED <<relayVars, storeVars, failures>>

\* comm->barrier() returns when every rank has entered it, and fails when one never will;
\* either way the backend goes.
Missing(h) ==
    /\ h \notin joined
    /\ process[h] = "ended" \/ (process[h] = "none" /\ task[TaskOf(h)] \in {"done", "aborted"})

rank_barrier(g) ==
    /\ process[g] = "connected"
    /\ \/ joined = JobRanks /\ RankGoto(g, "work")
       \/ (\E h \in JobRanks : Missing(h)) /\ Ends(g, 1)
    /\ DropBackend(g)
    /\ UNCHANGED <<joined, relayVars, failures>>

rank_ends(g) ==
    /\ process[g] = "work" \/ (process[g] = "boot" /\ application = "plain")
    /\ Ends(g, 0)
    /\ UNCHANGED <<joined, relayVars, storeVars, failures>>

\* The application throws, or the child fails before execvp() or in it; or it is killed,
\* which makes a difference where there is a backend.
rank_fails(g) ==
    /\ Running(g) /\ failures < MaxFailures
    /\ failures' = failures + 1
    /\ \/ Ends(g, 1) /\ DropBackend(g)
       \/ HasBackend(g) /\ Ends(g, 128 + 9) /\ UNCHANGED storeVars
    /\ UNCHANGED <<joined, relayVars>>

\* A pending signal that the process does not block terminates it.
rank_terminated(g) ==
    /\ Running(g) /\ g \in rank_signals /\ g \notin masked
    /\ Ends(g, 128 + 15)
    /\ UNCHANGED <<joined, relayVars, storeVars, failures>>

rank_step(g) ==
    /\ \/ rank_init(g) \/ rank_put(g) \/ rank_writes_address_file(g) \/ rank_get(g)
       \/ rank_barrier(g) \/ rank_ends(g) \/ rank_fails(g) \/ rank_terminated(g)
    /\ UNCHANGED <<cfg, application, launchVars, signalVars>>

-----------------------------------------------------------------------------
\* The main thread.

refuse_arguments(t) ==
    /\ task[t] = "start" /\ Mode = "error"
    /\ exit_status' = [exit_status EXCEPT ![t] = 1]
    /\ Goto(t, "done")
    /\ UNCHANGED <<launched, waited, lost, blocked, failures, relay, storeVars>>

\* The relay thread is started first; the directory or the server is there before the first
\* rank is.  launch_ranks_fork_based() blocks the signals, in this thread and so in the threads
\* and the processes it creates.
setup_launch_and_cleanup(t) ==
    /\ task[t] = "start" /\ Mode \in {"single", "hybrid"}
    /\ CreateDirectory(Directory(t))
    /\ relay' = [relay EXCEPT ![t] = IF Mode = "single" THEN "none" ELSE IF t = 0 THEN "poll" ELSE "sync"]
    /\ blocked' = blocked \cup {t}
    /\ Goto(t, "launch")
    /\ UNCHANGED <<launched, waited, exit_status, lost, failures>>

\* A rank that ended well leaves exit_status alone.
Status(old, code) == IF code # 0 THEN code ELSE old

\* waitpid() on the processes in their order; where it fails, the loop goes on.
wait_rank(t) ==
    /\ task[t] = "wait" /\ waited[t] < launched[t]
    /\ LET g == t * cfg.n + waited[t]
       IN  \/ /\ process[g] = "ended"
              /\ exit_status' = [exit_status EXCEPT ![t] = Status(@, exit_code[g])]
              /\ UNCHANGED <<lost, failures>>
           \/ /\ failures < MaxFailures
              /\ failures' = failures + 1
              /\ exit_status' = [exit_status EXCEPT ![t] = 1]
              /\ lost' = lost \cup {g}
    /\ waited' = [waited EXCEPT ![t] = @ + 1]
    /\ UNCHANGED <<task, launched, blocked, relay, storeVars>>

\* Mutant: the forwarders and the clean-up do not wait for the ranks.
Mut_AllWaited(t) == TRUE

\* The forwarders read on to the end of the pipes, which a rank closes when it ends.
AllWaited(t) == waited[t] = launched[t] /\ \A g \in LocalRanks(t) : process[g] = "ended"

\* The forwarders are joined; the directory is removed, or the server is destroyed; and
\* relay_stop is set.
clean_up(t) ==
    /\ task[t] = "wait" /\ AllWaited(t)
    /\ RemoveStore(Directory(t))
    /\ Goto(t, "join_relay")
    /\ UNCHANGED <<launched, waited, exit_status, lost, blocked, failures, relay>>

\* The relay thread, if there is one, is joined.
join_relay(t) ==
    /\ task[t] = "join_relay" /\ relay[t] \in {"none", "end"}
    /\ Goto(t, "done")
    /\ UNCHANGED <<launched, waited, exit_status, lost, blocked, failures, relay, storeVars>>

main_step(t) ==
    /\ refuse_arguments(t) \/ setup_launch_and_cleanup(t) \/ wait_rank(t) \/ clean_up(t) \/ join_relay(t)
    /\ UNCHANGED <<cfg, application, rankVars, sent, signal_pending, signal_thread, masked,
                   rank_signals, address_file, pmix>>

\* execute_slurm_passthrough_mode(): the application replaces rrun.
execute_slurm_passthrough_mode(t) ==
    /\ task[t] = "start" /\ Mode = "passthrough"
    /\ process' = [process EXCEPT ![t] = "boot"]
    /\ Goto(t, "application")
    /\ UNCHANGED <<launched, waited, exit_status, lost, exit_code, joined, failures, signalVars,
                   relayVars, storeVars>>

\* fork_with_piped_stdio() for the next rank, which inherits the mask through execvp(); after
\* the last one launch_ranks_fork_based() starts and detaches the signal thread.
launch_rank_local(t) ==
    /\ task[t] = "launch"
    /\ LET g == t * cfg.n + launched[t]
       IN  /\ process' = [process EXCEPT ![g] = "boot"]
           /\ masked' = IF t \in blocked THEN masked \cup {g} ELSE masked
    /\ launched' = [launched EXCEPT ![t] = @ + 1]
    /\ IF launched[t] + 1 = cfg.n
       THEN Goto(t, "wait") /\ signal_thread' = signal_thread \cup {t}
       ELSE UNCHANGED <<task, signal_thread>>
    /\ UNCHANGED <<waited, exit_status, lost, exit_code, joined, failures, sent, signal_pending,
                   blocked, rank_signals, relayVars, storeVars>>

\* pipe() or fork() fails: the exception destroys joinable forwarders, or the relay thread,
\* and the process is terminated; with neither, main() returns 1.  A directory stays.
launch_fails(t) ==
    /\ task[t] = "launch" /\ failures < MaxFailures
    /\ failures' = failures + 1
    /\ IF launched[t] = 0 /\ Mode = "single"
       THEN exit_status' = [exit_status EXCEPT ![t] = 1] /\ Goto(t, "done")
       ELSE Goto(t, "aborted") /\ UNCHANGED exit_status
    /\ IF FilesUsed THEN UNCHANGED storeVars ELSE RemoveStore(Directory(t))
    /\ relay' = [relay EXCEPT ![t] = IF Mode = "hybrid" THEN "end" ELSE @]
    /\ UNCHANGED <<launched, waited, lost, rankVars, signalVars, address_file, pmix>>

launch_step(t) ==
    /\ execute_slurm_passthrough_mode(t) \/ launch_rank_local(t) \/ launch_fails(t)
    /\ UNCHANGED <<cfg, application>>

-----------------------------------------------------------------------------
\* Signals.

\* SIGINT or SIGTERM for the process of a task: where it is blocked it stays pending.
signal_arrives(t) ==
    /\ sent < MaxSignals /\ Mode \in SignalledModes
    /\ sent' = sent + 1
    /\ \/ /\ t \in blocked /\ task[t] \notin {"done", "aborted"}
          /\ signal_pending' = signal_pending \cup {t}
          /\ UNCHANGED rank_signals
       \/ /\ task[t] = "application" /\ Running(t)
          /\ rank_signals' = rank_signals \cup {t}
          /\ UNCHANGED signal_pending
    /\ UNCHANGED <<task, signal_thread>>

\* The signal thread passes one signal on to every process, and ends.  Once
\* launch_ranks_fork_based() has returned, processes is gone: nothing, or a crash.
signal_forwarded(t) ==
    /\ t \in signal_thread /\ t \in signal_pending /\ task[t] \notin {"done", "aborted"}
    /\ signal_pending' = signal_pending \ {t}
    /\ signal_thread' = signal_thread \ {t}
    /\ \/ /\ task[t] = "wait"
          /\ rank_signals' = rank_signals \cup {g \in LocalRanks(t) : Running(g)}
          /\ UNCHANGED task
       \/ /\ task[t] # "wait"
          /\ UNCHANGED rank_signals
          /\ Goto(t, "aborted") \/ UNCHANGED task
    /\ UNCHANGED sent

signal_step(t) ==
    /\ signal_arrives(t) \/ signal_forwarded(t)
    /\ UNCHANGED <<cfg, application, launched, waited, exit_status, lost, rankVars, blocked,
                   masked, failures, relayVars, storeVars>>

-----------------------------------------------------------------------------
\* The relay thread of Slurm hybrid mode.

relay_stop(t) == task[t] = "join_relay"
RelayGoto(t, where) == relay' = [relay EXCEPT ![t] = where]

\* The task of rank 0 polls for the file until it is told to stop, reads and removes it,
\* and publishes the address; the others have nothing to wait for, and start in sync().
relay_polls(t) ==
    /\ relay[t] = "poll"
    /\ \/ address_file /\ address_file' = FALSE /\ RelayGoto(t, "sync")
       \/ relay_stop(t) /\ ~ address_file /\ RelayGoto(t, "end") /\ UNCHANGED address_file
    /\ UNCHANGED <<task, pmix, storeVars>>

relay_syncs(t) ==
    /\ relay[t] = "sync"
    /\ pmix' = pmix \cup {t}
    /\ RelayGoto(t, "fence")
    /\ UNCHANGED <<task, address_file, storeVars>>

\* write_kv_for_children() creates the directory where it is missing, and then writes; where
\* it has been removed in between, the exception leaves the thread and terminates rrun.
relay_creates_directory(t) ==
    /\ relay[t] = "fence" /\ pmix = Tasks
    /\ CreateDirectory(Directory(t))
    /\ RelayGoto(t, "write")
    /\ UNCHANGED <<task, address_file, pmix>>

write_kv_for_children(t) ==
    /\ relay[t] = "write"
    /\ IF coordination[Directory(t)]
       THEN root_address' = root_address \cup {Directory(t)} /\ UNCHANGED task
       ELSE Goto(t, "aborted") /\ UNCHANGED root_address
    /\ RelayGoto(t, "end")
    /\ UNCHANGED <<coordination, address_file, pmix>>

relay_root_address(t) ==
    /\ task[t] \notin {"done", "aborted"}
    /\ relay_polls(t) \/ relay_syncs(t) \/ relay_creates_directory(t) \/ write_kv_for_children(t)
    /\ UNCHANGED <<cfg, application, launched, waited, exit_status, lost, rankVars, signalVars, failures>>

-----------------------------------------------------------------------------

RrunNext ==
    \/ \E g \in AllRanks : rank_step(g)
    \/ \E t \in Tasks : main_step(t) \/ launch_step(t) \/ signal_step(t) \/ relay_root_address(t)

(***************************************************************************)
(* Every thread of rrun is scheduled, and so is every rank; a rank whose   *)
(* application ends by itself gets there.  Each of these steps can be      *)
(* taken only so many times, so that fairness to any of them is fairness   *)
(* to each.                                                                *)
(***************************************************************************)
RrunProgress ==
    \/ \E g \in AllRanks : rank_step(g)
    \/ \E t \in Tasks :
          \/ main_step(t) \/ launch_step(t) \/ relay_root_address(t)
          \/ t \in signal_thread \cap signal_pending /\ signal_step(t)

(***************************************************************************)
(* The exit status of rrun is 0 exactly when it has seen all its ranks end *)
(* with 0, in whatever order they end, and otherwise it is the code of one *)
(* that has failed, or 1 for one that waitpid() has lost: a job script     *)
(* sees every failure, and sees none that was not.                         *)
(***************************************************************************)
ExitStatusTells ==
    \A t \in Tasks : task[t] = "done" /\ launched[t] = cfg.n =>
        LET codes == {IF g \in lost THEN 1 ELSE exit_code[g] : g \in LocalRanks(t)}
        IN  /\ exit_status[t] \in codes
            /\ exit_status[t] = 0 <=> codes = {0}

(***************************************************************************)
(* The socket server is there until the last rank has ended, unless rrun   *)
(* was terminated.  A directory is not: any task of its node removes it,   *)
(* and so does rank 0.  But as long as nothing has failed it is there for  *)
(* every rank that has not got the address yet, and once it holds the      *)
(* address it keeps it: a rank that is late does not miss an address that  *)
(* was published for it.                                                   *)
(***************************************************************************)
NothingFailed ==
    /\ \A g \in AllRanks : exit_code[g] = 0
    /\ \A t \in AllTasks : task[t] # "aborted"

PublishedIn(d) ==
    \/ d = Directory(0) /\ process[0] \notin {"none", "boot", "init"}
    \/ Mode = "hybrid" /\ \E t \in Tasks : d = Directory(t) /\ relay[t] = "end"

ServerOutlivesRanks ==
    Mode = "single" /\ ~ cfg.file_backend /\ task[0] # "aborted" =>
        \A g \in JobRanks : Running(g) => coordination[0]

DirectoryOutlivesBootstrap ==
    FilesUsed /\ NothingFailed =>
        \A g \in JobRanks : process[g] = "init" =>
            /\ coordination[Store(g)]
            /\ PublishedIn(Store(g)) => Store(g) \in root_address

\* What a user of rrun relies on while and after it runs: coordination that is there
\* for as long as a rank may need it, and an exit status that tells about the ranks.
LaunchersAreSound == ExitStatusTells /\ ServerOutlivesRanks /\ DirectoryOutlivesBootstrap

\* The relay of t waits in the fence for one that never gets there: that of the task of
\* rank 0 has been stopped without an address, or its process was terminated.
RelayHangs(t) ==
    relay[t] = "fence" /\ \E u \in Tasks \ pmix : relay[u] = "end" \/ task[u] = "aborted"

\* Every task ends once its ranks do, with the relay thread joined, unless that hangs.
RrunEnded == \A t \in Tasks : task[t] \in {"done", "aborted", "application"} \/ RelayHangs(t)

(***************************************************************************)
(* A relay thread that is told to stop returns, also where rank 0 never    *)
(* writes its address, so that rrun ends after its ranks.                  *)
(***************************************************************************)
RelaysReturn == \A t \in AllTasks : task[t] = "join_relay" ~> task[t] \in {"done", "aborted"}

(***************************************************************************)
(* The ranks to which rrun has forwarded a signal end.                     *)
(***************************************************************************)
ForwardedSignalsArrive ==
    \A g \in AllRanks : (g \in rank_signals) ~> (process[g] = "ended")
=============================================================================
