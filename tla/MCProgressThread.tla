-------------------------- MODULE MCProgressThread --------------------------
(* Instances of ProgressThread: who calls what.                            *)
EXTENDS ProgressThread

CONSTANTS w1, w2, k     \* two owners of functions, and a controlling thread

VARIABLE calls          \* "owners": two threads add and remove functions, as all
                        \* collectives do; "control": one of them and a third thread
                        \* pause, resume and stop at will, too

OwnerAndController == {w1, k}
PauseOps == [c \in OwnerAndController |-> IF c = k THEN {"pause"} ELSE {"add"}]

AllClients == {w1, w2, k}
AllOps ==
    [c \in AllClients |->
        CASE c = w1 -> {"add", "pause", "resume"}
          [] c = w2 -> {"add"}
          [] c = k  -> {"add", "pause", "resume", "stop"}]

MaxControlAdds == 2

CallsInit == calls \in {"owners", "control"} /\ Init

CallsNext ==
    /\ \/ LoopStep
       \/ /\ calls = "owners"
          /\ \E c \in {w1, w2} \cap Client :
                ClientStep(c) /\ pc'[c] \notin {"pausing", "resume_flag", "joining"}
       \/ /\ calls = "control"
          /\ \E c \in {w1, k} : ClientStep(c) /\ next_id' <= MaxControlAdds
    /\ UNCHANGED calls

CallsSpec == CallsInit /\ [][CallsNext]_<<calls, vars>> /\ Fairness

-----------------------------------------------------------------------------
\* Where only add_function and remove_function are called, the loop runs exactly while
\* a function is registered, and a function is removed only when it is done.
OwnersRemoveDone ==
    [][calls = "owners" =>
           /\ functions \ functions' \subseteq is_done
           /\ RunsIffRegistered]_vars

\* There every remove_function returns; and stop() always gets the loop to exit, whatever
\* pauses and resumes race with it, also while a function is registered that never ends.
CallsReturn ==
    \A c \in Client :
        /\ pc[c] = "waiting" ~> (pc[c] = "idle" \/ calls = "control")
        /\ pc[c] = "joining" ~> pc[c] = "idle"
=============================================================================
