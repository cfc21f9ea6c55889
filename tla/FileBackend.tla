----------------------------- MODULE FileBackend -----------------------------
(***************************************************************************)
(* rapidsmpf::bootstrap::detail::FileBackend: alive files, values and      *)
(* barrier files in a directory that rank 0 removes in its destructor.     *)
(* Every access to the file system is a step; a timeout may end any wait   *)
(* whose file is not there.                                                *)
(***************************************************************************)
EXTENDS BootstrapUser

VARIABLES
    dir_exists,   \* coord_dir_ and its subdirectories exist
    files,        \* the files in them
    looking_for   \* looking_for[r]: the rank whose barrier file rank r polls for

fileVars == <<dir_exists, files, looking_for>>

Alive(r) == <<"alive", r>>
Value == <<"kv">>
BarrierFile(r, id) == <<"barrier", r, id>>

FileInit == dir_exists = FALSE /\ files = {} /\ looking_for = [r \in Ranks |-> 0]

\* write_file(): mkstemp() needs the directory, rename() makes the file appear at once.
write_file(f) == dir_exists /\ files' = files \cup {f} /\ UNCHANGED dir_exists

\* mkstemp() fails: the directory is gone.
write_fails(r) ==
    /\ ~ dir_exists
    /\ Throw(r, "io")
    /\ UNCHANGED <<fileVars, timed_out, effects>>

create_directories(r) ==
    /\ At(r, "init")
    /\ dir_exists' = TRUE
    /\ Start(r)
    /\ UNCHANGED <<files, looking_for, timed_out, effects>>

write_alive(r) ==
    /\ In(r, "init")
    /\ \/ write_file(Alive(r)) /\ Finish(r) /\ UNCHANGED <<looking_for, timed_out, effects>>
       \/ write_fails(r)

file_put(r) ==
    /\ At(r, "put")
    /\ \/ write_file(Value) /\ Finish(r) /\ Publish /\ UNCHANGED <<looking_for, timed_out>>
       \/ write_fails(r)

file_sync(r) == At(r, "sync") /\ Finish(r) /\ UNCHANGED <<fileVars, timed_out, effects>>

\* get(): wait_for_file(), and then read_file().
file_get(r) ==
    /\ UNCHANGED fileVars
    /\ \/ At(r, "get") /\ Value \in files /\ Start(r) /\ UNCHANGED <<timed_out, effects>>
       \/ At(r, "get") /\ Value \notin files /\ Timeout(r) /\ UNCHANGED effects
       \/ In(r, "get") /\ Value \in files /\ Finish(r) /\ Obtain(r) /\ UNCHANGED timed_out
       \/ In(r, "get") /\ Value \notin files /\ Throw(r, "io") /\ UNCHANGED <<timed_out, effects>>

\* The next rank to wait for, this rank left out.
NextOther(r, q) == IF q = r THEN q + 1 ELSE q

barrier_enter(r) ==
    /\ At(r, "barrier")
    /\ \/ /\ write_file(BarrierFile(r, entered[r]))
          /\ looking_for' = [looking_for EXCEPT ![r] = NextOther(r, 0)]
          /\ Start(r) /\ EnterBarrier(r) /\ UNCHANGED timed_out
       \/ write_fails(r)

\* wait_for_file() for one rank after the other, and the removal of the own file at the end.
barrier_wait(r) ==
    LET q == looking_for[r]
        id == entered[r] - 1
    IN  /\ In(r, "barrier")
        /\ \/ /\ q < nranks /\ BarrierFile(q, id) \in files
              /\ looking_for' = [looking_for EXCEPT ![r] = NextOther(r, q + 1)]
              /\ UNCHANGED <<dir_exists, files, scriptVars, timed_out, effects>>
           \/ /\ q < nranks /\ BarrierFile(q, id) \notin files
              /\ Timeout(r)
              /\ UNCHANGED <<fileVars, effects>>
           \/ /\ q >= nranks
              /\ files' = files \ {BarrierFile(r, id)}
              /\ Finish(r) /\ LeaveBarrier(r)
              /\ UNCHANGED <<dir_exists, looking_for, timed_out>>

\* Mutant: the destructor does not wait for the other ranks.
Mut_AllOthersGone == TRUE

AllOthersGone == \A q \in Ranks \ {0} : Alive(q) \notin files

\* ~FileBackend() and cleanup_coordination_directory(), which rank 0 does.
file_close(r) ==
    \/ /\ At(r, "close")
       /\ files' = files \ {Alive(r)}
       /\ IF r = 0 THEN Start(r) ELSE Finish(r)
       /\ UNCHANGED <<dir_exists, looking_for, timed_out, effects>>
    \/ /\ In(r, "close")
       /\ timed_out' = (timed_out \/ ~ AllOthersGone)
       /\ dir_exists' = FALSE /\ files' = {}
       /\ Finish(r)
       /\ UNCHANGED <<looking_for, effects>>

FileNext(r) ==
    \/ create_directories(r) \/ write_alive(r) \/ file_put(r) \/ file_sync(r) \/ file_get(r)
    \/ barrier_enter(r) \/ barrier_wait(r) \/ file_close(r)
=============================================================================
