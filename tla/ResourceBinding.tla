--------------------------- MODULE ResourceBinding ---------------------------
(***************************************************************************)
(* rapidsmpf::rrun::bind() in a process that rrun has forked, and the      *)
(* check_resource_binding tool that the process may then run.  Lists of    *)
(* cores, nodes and devices are sequences and sets; topology discovery and *)
(* the system calls are external.                                          *)
(***************************************************************************)
EXTENDS Integers, Sequences, FiniteSets, SequencesExt

CONSTANTS
    CPU_SETSIZE,   \* cores that a cpu_set_t can hold
    MaxCore,       \* bound: largest core number in a topology
    Nodes,         \* NUMA nodes
    Devices        \* network devices

ASSUME BindingAssumption == CPU_SETSIZE \in Nat \ {0} /\ MaxCore \in Nat

Cores == 0 .. MaxCore
MaskCores == 0 .. CPU_SETSIZE - 1

VARIABLES
    gpu_info,   \* what the topology says about the GPU
    bind_opts,  \* the bind_options
    os,         \* what the operating system allows
    binding,    \* the binding in effect
    applied,    \* the memory policy was applied
    bind_pc     \* where bind() is

bindVars == <<gpu_info, bind_opts, os, binding, applied, bind_pc>>

\* cpu_affinity_list, memory_binding and network_devices of a GPU; a list may be empty, and
\* the first may name a core twice.
Infos == [cpu : UNION {[1 .. n -> Cores] : n \in 0 .. 2}, memory : SUBSET Nodes, network : SUBSET Devices]

bind_options == [cpu : BOOLEAN, memory : BOOLEAN, network : BOOLEAN, verify : BOOLEAN]

BindInit ==
    /\ gpu_info \in Infos
    /\ bind_opts \in bind_options
    /\ os \in [cores : {MaskCores, {0}}, nodes : {Nodes, {}}, policy : {"ok", "eperm", "error"}]
    /\ binding = [cpu |-> os.cores, memory |-> {}, network |-> {}]
    /\ applied = FALSE
    /\ bind_pc = "resolve"

At_bind(pc) == bind_pc = pc /\ UNCHANGED <<gpu_info, bind_opts, os>>

\* The GPU is the one given, or the first of CUDA_VISIBLE_DEVICES; it must be in the topology.
resolve_gpu_id ==
    /\ At_bind("resolve")
    /\ \E given \in BOOLEAN, visible \in {"unset", "invalid", "valid"}, in_topology \in BOOLEAN :
          bind_pc' = IF (given \/ visible = "valid") /\ in_topology THEN "cpu" ELSE "thrown"
    /\ UNCHANGED <<binding, applied>>

\* parse_cpu_list_to_mask() drops the cores that do not fit.  sched_setaffinity() takes the
\* cores the process may use, and fails if there are none.
parse_cpu_list_to_mask(list) == ToSet(list) \cap MaskCores

set_cpu_affinity ==
    /\ At_bind("cpu")
    /\ LET cores == parse_cpu_list_to_mask(gpu_info.cpu) \cap os.cores
       IN  IF ~ bind_opts.cpu \/ gpu_info.cpu = <<>>
           THEN bind_pc' = "memory" /\ UNCHANGED binding
           ELSE IF cores = {} THEN bind_pc' = "thrown" /\ UNCHANGED binding
           ELSE bind_pc' = "memory" /\ binding' = [binding EXCEPT !.cpu = cores]
    /\ UNCHANGED applied

\* numa_binding_status of the nodes.
set_numa_memory_binding(nodes) ==
    CASE nodes = {} \/ ~ nodes \subseteq os.nodes -> "unavailable"
      [] nodes # {} /\ nodes \subseteq os.nodes /\ os.policy = "eperm" -> "unavailable"
      [] nodes # {} /\ nodes \subseteq os.nodes /\ os.policy = "error" -> "failed"
      [] OTHER -> "applied"

bind_memory ==
    /\ At_bind("memory")
    /\ LET status == IF bind_opts.memory THEN set_numa_memory_binding(gpu_info.memory) ELSE "unavailable"
       IN  /\ bind_pc' = IF status = "failed" THEN "thrown" ELSE "network"
           /\ applied' = (status = "applied")
           /\ binding' = IF status = "applied" THEN [binding EXCEPT !.memory = gpu_info.memory] ELSE binding

bind_network ==
    /\ At_bind("network")
    /\ binding' = IF bind_opts.network /\ gpu_info.network # {}
                  THEN [binding EXCEPT !.network = gpu_info.network] ELSE binding
    /\ bind_pc' = IF bind_opts.verify THEN "verify" ELSE "bound"
    /\ UNCHANGED applied

\* Without a policy of its own the process is reported to be on node 0.
get_current_numa_nodes == IF binding.memory = {} THEN {0} ELSE binding.memory

\* Mutant: the cores in effect need only be some of those that were asked for.
Mut_compare_cpu_affinity(cores, list) == cores \subseteq ToSet(list)
\* Both lists are sorted and compared as they are: a core named twice counts twice.
compare_cpu_affinity(cores, list) == cores = ToSet(list) /\ Cardinality(cores) = Len(list)

\* validate_binding(): an empty list expects nothing.
validate_binding(expected) ==
    /\ expected.cpu # <<>> => compare_cpu_affinity(binding.cpu, expected.cpu)
    /\ expected.memory # {} => get_current_numa_nodes = expected.memory
    /\ expected.network # {} => binding.network = expected.network

\* bind() verifies what was asked for, and the memory policy if it was applied.
verify ==
    /\ At_bind("verify")
    /\ LET expected == [cpu     |-> IF bind_opts.cpu THEN gpu_info.cpu ELSE <<>>,
                        memory  |-> IF bind_opts.memory /\ applied THEN gpu_info.memory ELSE {},
                        network |-> IF bind_opts.network THEN gpu_info.network ELSE {}]
       IN  bind_pc' = IF validate_binding(expected) THEN "bound" ELSE "thrown"
    /\ UNCHANGED <<binding, applied>>

\* The rank runs on whether or not bind() has thrown: check_resource_binding compares the
\* binding in effect with everything the topology says.
check_resource_binding ==
    /\ At_bind("bound") \/ At_bind("thrown")
    /\ bind_pc' = IF validate_binding(gpu_info) THEN "PASSED" ELSE "FAILED"
    /\ UNCHANGED <<binding, applied>>

BindNext ==
    \/ resolve_gpu_id \/ set_cpu_affinity \/ bind_memory \/ bind_network \/ verify
    \/ check_resource_binding

(***************************************************************************)
(* When bind() returns and has verified, every binding that was asked for  *)
(* and that the topology knows is in effect, exactly, whatever the process *)
(* may use: only a memory policy that the system does not offer may be     *)
(* missing.                                                                *)
(***************************************************************************)
BoundAsAsked ==
    bind_pc = "bound" /\ bind_opts.verify =>
        /\ bind_opts.cpu /\ gpu_info.cpu # <<>> => binding.cpu = ToSet(gpu_info.cpu)
        /\ bind_opts.memory /\ gpu_info.memory # {} =>
              binding.memory = gpu_info.memory \/ os.policy = "eperm" \/ ~ gpu_info.memory \subseteq os.nodes
        /\ bind_opts.network /\ gpu_info.network # {} => binding.network = gpu_info.network
=============================================================================
