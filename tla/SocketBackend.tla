---------------------------- MODULE SocketBackend ----------------------------
(***************************************************************************)
(* rapidsmpf::bootstrap::detail::SocketBackend and SocketServer: each rank *)
(* has a connection on which it sends a request and reads the response,    *)
(* the server has an accept thread and a handler thread per connection.    *)
(* Other processes may connect too; they never authenticate.  rrun         *)
(* destroys the server when every rank has exited.                         *)
(***************************************************************************)
EXTENDS BootstrapUser

CONSTANT MaxStray   \* bound: connections of other processes

ASSUME MaxStrayAssumption == MaxStray \in Nat

Stray == nranks .. nranks + MaxStray - 1
Clients == Ranks \cup Stray

VARIABLES
    conn,        \* conn[c]: "none", "backlog", "auth", "open" or "closed" by the server
    request,     \* request[r]: the line the client has sent
    response,    \* response[r]: the line the handler has sent
    awaiting,    \* awaiting[r]: the generation the handler of r waits to end
    accepting,   \* accept_loop() runs
    kv,          \* state_->kv holds the value
    gen,         \* barrier_gen and sync_gen
    count,       \* barrier_count and sync_count
    authenticated_count,
    active_connections,
    stopping     \* "no", "joining" in ~SocketServer(), "joined"

wires == <<conn, request, response, awaiting>>
serverState == <<accepting, kv, gen, count, authenticated_count, active_connections, stopping>>
socketVars == <<wires, serverState>>

Gates == {"barrier", "sync"}

SocketInit ==
    /\ conn = [c \in Clients |-> "none"]
    /\ request = [r \in Ranks |-> "none"]
    /\ response = [r \in Ranks |-> "none"]
    /\ awaiting = [r \in Ranks |-> -1]
    /\ accepting = TRUE
    /\ kv = FALSE
    /\ gen = [g \in Gates |-> 0]
    /\ count = [g \in Gates |-> 0]
    /\ authenticated_count = 0
    /\ active_connections = 0
    /\ stopping = "no"

-----------------------------------------------------------------------------
(* SocketBackend, in the process of rank r.                                *)

\* The constructor: connect() and the AUTH line.  The listen socket stays open after the
\* accept loop has ended.
socket_connect(r) ==
    /\ At(r, "init")
    /\ conn' = [conn EXCEPT ![r] = "backlog"]
    /\ request' = [request EXCEPT ![r] = "auth"]
    /\ Start(r)
    /\ UNCHANGED <<response, awaiting, serverState, timed_out, effects>>

send_request(r) ==
    /\ Op(r) \in {"put", "get", "sync", "barrier"}
    /\ At(r, Op(r))
    /\ request' = [request EXCEPT ![r] = Op(r)]
    /\ Start(r)
    /\ IF Op(r) = "barrier" THEN EnterBarrier(r) ELSE UNCHANGED effects
    /\ UNCHANGED <<conn, response, awaiting, serverState, timed_out>>

Effect(r) ==
    CASE Op(r) = "barrier" -> LeaveBarrier(r)
      [] Op(r) = "get" -> Obtain(r)
      [] OTHER -> UNCHANGED effects

recv_response(r) ==
    /\ r \notin crashed /\ in_call[r]
    /\ UNCHANGED <<request, awaiting, serverState>>
    /\ \/ /\ response[r] = "ok"
          /\ response' = [response EXCEPT ![r] = "none"]
          /\ Finish(r) /\ Effect(r)
          /\ UNCHANGED <<conn, timed_out>>
       \/ /\ response[r] = "timeout"
          /\ response' = [response EXCEPT ![r] = "none"]
          /\ Timeout(r)
          /\ UNCHANGED <<conn, effects>>
       \/ /\ response[r] = "none" /\ conn[r] = "closed"
          /\ Throw(r, "rejected")
          /\ UNCHANGED <<conn, response, timed_out, effects>>

socket_close(r) ==
    /\ At(r, "close")
    /\ Finish(r)
    /\ UNCHANGED <<socketVars, timed_out, effects>>

stray_connect(c) ==
    /\ conn[c] = "none" /\ stopping = "no"
    /\ conn' = [conn EXCEPT ![c] = "backlog"]
    /\ UNCHANGED <<request, response, awaiting, serverState, userVars>>

-----------------------------------------------------------------------------
(* SocketServer, in the process of rrun.                                   *)

\* Mutant: the limit does not leave room for other processes.
Mut_Limit == nranks

Limit == 2 * nranks

accept_loop(c) ==
    /\ accepting /\ conn[c] = "backlog"
    /\ IF active_connections + 1 > Limit
       THEN conn' = [conn EXCEPT ![c] = "closed"] /\ UNCHANGED active_connections
       ELSE /\ conn' = [conn EXCEPT ![c] = "auth"]
            /\ active_connections' = active_connections + 1
    /\ UNCHANGED <<request, response, awaiting, accepting, kv, gen, count,
                   authenticated_count, stopping, userVars>>

\* handle_connection() up to the OK; the last rank to authenticate stops the accept loop.
authenticate(r) ==
    /\ conn[r] = "auth" /\ request[r] = "auth"
    /\ conn' = [conn EXCEPT ![r] = "open"]
    /\ request' = [request EXCEPT ![r] = "none"]
    /\ response' = [response EXCEPT ![r] = "ok"]
    /\ authenticated_count' = authenticated_count + 1
    /\ accepting' = (accepting /\ authenticated_count + 1 # nranks)
    /\ UNCHANGED <<awaiting, kv, gen, count, active_connections, stopping, userVars>>

\* The handler ends: AUTH was wrong or took longer than 2 s, or the client is gone.
handler_ends(c) ==
    /\ \/ c \in Stray /\ conn[c] = "auth"
       \/ c \in Ranks /\ conn[c] \in {"auth", "open"} /\ (Ended(c) \/ c \in crashed)
          /\ request[c] = "none" /\ awaiting[c] = -1
    /\ conn' = [conn EXCEPT ![c] = "closed"]
    /\ active_connections' = active_connections - 1
    /\ UNCHANGED <<request, response, awaiting, accepting, kv, gen, count,
                   authenticated_count, stopping, userVars>>

Respond(r, line) ==
    /\ request' = [request EXCEPT ![r] = "none"]
    /\ response' = [response EXCEPT ![r] = line]
    /\ awaiting' = [awaiting EXCEPT ![r] = -1]

handle_put(r) ==
    /\ request[r] = "put"
    /\ kv' = TRUE /\ published' = TRUE
    /\ Respond(r, "ok")
    /\ UNCHANGED <<conn, accepting, gen, count, authenticated_count, active_connections, stopping,
                   program, scriptVars, crashed, timed_out, got, entered, left>>

handle_get(r) ==
    /\ request[r] = "get"
    /\ Respond(r, IF kv THEN "ok" ELSE "timeout")
    /\ UNCHANGED <<conn, serverState, userVars>>

\* Mutant: the count is not reset with the new generation.
Mut_handle_gate(r, g) ==
    /\ request[r] = g /\ awaiting[r] = -1
    /\ count' = [count EXCEPT ![g] = @ + 1]
    /\ IF count[g] + 1 >= nranks
       THEN gen' = [gen EXCEPT ![g] = @ + 1] /\ Respond(r, "ok")
       ELSE awaiting' = [awaiting EXCEPT ![r] = gen[g]] /\ UNCHANGED <<gen, request, response>>
    /\ UNCHANGED <<conn, accepting, kv, authenticated_count, active_connections, stopping, userVars>>

\* BARRIER and SYNC: the last rank starts a new generation.
handle_gate(r, g) ==
    /\ request[r] = g /\ awaiting[r] = -1
    /\ IF count[g] + 1 = nranks
       THEN /\ gen' = [gen EXCEPT ![g] = @ + 1]
            /\ count' = [count EXCEPT ![g] = 0]
            /\ Respond(r, "ok")
       ELSE /\ count' = [count EXCEPT ![g] = @ + 1]
            /\ awaiting' = [awaiting EXCEPT ![r] = gen[g]]
            /\ UNCHANGED <<gen, request, response>>
    /\ UNCHANGED <<conn, accepting, kv, authenticated_count, active_connections, stopping, userVars>>

wake_gate(r, g) ==
    /\ request[r] = g /\ awaiting[r] # -1
    /\ gen[g] # awaiting[r]
    /\ Respond(r, "ok")
    /\ UNCHANGED <<conn, serverState, userVars>>

handle_request(r) ==
    /\ conn[r] = "open"
    /\ handle_put(r) \/ handle_get(r) \/ \E g \in Gates : handle_gate(r, g) \/ wake_gate(r, g)

\* ~SocketServer(), once rrun has waited for every rank; connections nobody has accepted end
\* with the listen socket.
server_shutdown ==
    /\ stopping = "no"
    /\ \A r \in Ranks : Ended(r) \/ r \in crashed
    /\ stopping' = "joining" /\ accepting' = FALSE
    /\ conn' = [c \in Clients |-> IF conn[c] = "backlog" THEN "closed" ELSE conn[c]]
    /\ UNCHANGED <<request, response, awaiting, kv, gen, count, authenticated_count,
                   active_connections, userVars>>

server_joined ==
    /\ stopping = "joining"
    /\ \A c \in Clients : conn[c] \notin {"auth", "open"}
    /\ stopping' = "joined"
    /\ UNCHANGED <<wires, accepting, kv, gen, count, authenticated_count, active_connections,
                   userVars>>

SocketClientNext(r) ==
    socket_connect(r) \/ send_request(r) \/ recv_response(r) \/ socket_close(r)

SocketServerNext ==
    \/ \E c \in Stray : stray_connect(c)
    \/ \E c \in Clients : accept_loop(c) \/ handler_ends(c)
    \/ \E r \in Ranks : authenticate(r) \/ handle_request(r)
    \/ server_shutdown \/ server_joined
=============================================================================
