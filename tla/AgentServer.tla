----------------------------- MODULE AgentServer -----------------------------
(***************************************************************************)
(* The agent server (main/src/common/agent_server.cpp) and the agent       *)
(* groups that talk to it (agent_group.cpp, agent_client.cpp) over stream  *)
(* sockets (socket.cpp).                                                   *)
(*                                                                         *)
(* The server's main thread accepts connections, selects the readable ones *)
(* of its socket pool, starts one std::async request handler for each and  *)
(* periodically removes expired agents.  Handlers read and update          *)
(* m_global_state under m_lock_global_state and publish an immutable copy, *)
(* m_read_buffer, from which every sync is answered.                       *)
(*                                                                         *)
(* A group registers, commits its agents, and then repeats sync, process,  *)
(* commit, disconnect: a new connection for every turn of its main loop.   *)
(***************************************************************************)
EXTENDS GlobalState, FiniteSets

CONSTANTS
  Clients,        \* agent-group processes
  Conns,          \* connection slots (bounds the connections that coexist)
  InitialAgents,  \* numbers of agents a group may be configured with
  Expiring,       \* the groups whose agents set expires when processed
  Lifetime,       \* how far in the future they set it
  MaxAgents,      \* bound on m_agent_counter
  MaxRound,       \* bound on the turns of a group's main loop
  MaxGroups,      \* bound on m_agent_group_counter
  MaxTime,        \* bound on the clock
  MaxSession,     \* bound on the starts of the server
  MayKill,        \* whether group processes may be killed
  NoConn, NoClient

ASSUME ServerAssumption ==
  /\ NoConn \notin Conns
  /\ IsFiniteSet(Conns)
  /\ NoClient \notin Clients
  /\ {"free", "main"} \cap Conns = {}
  /\ Expiring \subseteq Clients
  /\ {Lifetime, MaxAgents, MaxRound, MaxGroups} \subseteq Nat
  /\ {MaxTime, MaxSession} \subseteq Nat \ {0}
  /\ InitialAgents \subseteq 0..MaxAgents
  /\ MayKill \in BOOLEAN

VARIABLES
  client,       \* the groups: see ClientType
  conn,         \* the connections: see ConnType
  watch,        \* m_sockets: the accepted connections in the select pool
  handler,      \* the request handler at work on a connection, if any
  globalState,  \* m_global_state
  readBuffer,   \* m_read_buffer: unset (null) or a copy of the global state
  lock,         \* holder of m_lock_global_state: "free", "main" or a connection
  counter,      \* m_agent_group_counter
  up,           \* whether the server process runs
  session,      \* how many times it has been started (history)
  now           \* the clock

netVars == <<conn, watch, handler>>
stateVars == <<globalState, readBuffer, lock>>
procVars == <<counter, up, session>>
vars == <<client, netVars, stateVars, procVars, now>>

-----------------------------------------------------------------------------
(* Types. *)

\* sAgentInterface: which turn of its group's loop wrote it, and when it expires.
InterfaceType == [round : 0..MaxRound, expires : 0..MaxTime + Lifetime]
Numbers == 1..MaxAgents
IdsOf(groups) == groups \X Numbers
MapsOver(K) == UNION {[S -> InterfaceType] : S \in SUBSET K}
AgentMap == MapsOver(IdsOf(1..MaxGroups))

ClientPc == {"off", "await_id", "commit", "await_commit", "sync", "await_sync",
             "await_agents", "process", "disconnect"}
\* gid is m_group_id, number is m_agent_counter, agents are m_agents by number,
\* conn is the open connection of m_socket.  The rest is history: the turn of
\* the loop, whether a sync has completed, the agents announced by the server,
\* and the server start at which the group registered.
ClientType ==
  [pc : ClientPc, gid : 0..MaxGroups, number : 0..MaxAgents,
   agents : MapsOver(Numbers), conn : Conns \cup {NoConn},
   round : 0..MaxRound, synced : BOOLEAN, expect : Nat, session : 0..MaxSession]

Off == [pc |-> "off", gid |-> 0, number |-> 0, agents |-> <<>>, conn |-> NoConn,
        round |-> 0, synced |-> FALSE, expect |-> 0, session |-> 0]

\* sCommunicationHeader with the field the peer reads, and the data after it.
Header(op, n) == [op |-> op, n |-> n, agents |-> <<>>]
Data(m) == [op |-> "DATA", n |-> 0, agents |-> m]

Ops == {"REQUEST_GROUP_ID", "AGENT_SYNC_ALL", "AGENT_COMMIT", "DISCONNECT",
        "SERVER_ACK", "DATA"}
MessageType == [op : Ops, n : Nat, agents : AgentMap]

\* side: the ends that are open; accepted: the server has accepted it.
ConnType ==
  [owner : Clients \cup {NoClient}, c2s : Seq(MessageType), s2c : Seq(MessageType),
   client_open : BOOLEAN, server_open : BOOLEAN, accepted : BOOLEAN]

HandlerPc == {"none", "header", "sync", "sync_data", "commit", "commit_data",
              "apply", "swap", "return"}
\* count is the agent_count of a commit's header; agents is the buffer a sync
\* is answered from, or the agents of a commit.
HandlerType == [pc : HandlerPc, count : Nat, agents : AgentMap]
At(pc, n, m) == [pc |-> pc, count |-> n, agents |-> m]
Idle == At("none", 0, <<>>)
Goto(k, pc) == [handler EXCEPT ![k] = At(pc, 0, <<>>)]

NullBuffer == [set |-> FALSE, agents |-> <<>>]
Buffer(m) == [set |-> TRUE, agents |-> m]

FreeConn == [owner |-> NoClient, c2s |-> <<>>, s2c |-> <<>>,
             client_open |-> FALSE, server_open |-> FALSE, accepted |-> FALSE]

Init ==
  /\ client = [c \in Clients |-> Off]
  /\ conn = [k \in Conns |-> FreeConn]
  /\ watch = {}
  /\ handler = [k \in Conns |-> Idle]
  /\ globalState = <<>>
  /\ readBuffer = NullBuffer
  /\ lock = "free"
  /\ counter = 0
  /\ up = TRUE
  /\ session = 1
  /\ now = 1

-----------------------------------------------------------------------------
(* Sockets (socket.cpp). *)

\* Socket::send: data for a peer that is gone are lost.
ToServer(r, m) == IF r.server_open THEN [r EXCEPT !.c2s = Append(@, m)] ELSE r
ToClient(r, m) == IF r.client_open THEN [r EXCEPT !.s2c = Append(@, m)] ELSE r

\* Socket::close at either end; what the other end has yet to read stays.
ClosedByClient(r) ==
  IF r.server_open THEN [r EXCEPT !.client_open = FALSE, !.s2c = <<>>] ELSE FreeConn
ClosedByServer(r) ==
  IF r.client_open THEN [r EXCEPT !.server_open = FALSE, !.c2s = <<>>] ELSE FreeConn

\* Client::opConnect: the connection in use, or a new one when the socket is
\* not valid, which needs a listening server.
Connectable(c) ==
  IF client[c].conn # NoConn THEN {client[c].conn}
  ELSE {k \in Conns : up /\ conn[k] = FreeConn}
Connected(c, k) ==
  IF client[c].conn = k THEN conn[k]
  ELSE [FreeConn EXCEPT !.owner = c, !.client_open = TRUE, !.server_open = TRUE]

\* opConnect and the sending half of Socket::exchange.
SendRequest(c, op, n, pc) ==
  \E k \in Connectable(c) :
    /\ conn' = [conn EXCEPT ![k] = ToServer(Connected(c, k), Header(op, n))]
    /\ client' = [client EXCEPT ![c].pc = pc, ![c].conn = k]

\* What the server has sent to c and c has not read yet.
Inbox(c) == IF client[c].conn = NoConn THEN <<>> ELSE conn[client[c].conn].s2c
Taken(c) == [conn[client[c].conn] EXCEPT !.s2c = Tail(@)]
Consume(c) == [conn EXCEPT ![client[c].conn] = Taken(c)]

CloseOf(c) ==
  IF client[c].conn = NoConn THEN conn
  ELSE [conn EXCEPT ![client[c].conn] = ClosedByClient(@)]

-----------------------------------------------------------------------------
(* An agent group: NetAgentGroup::main and the Client operations it calls.  *)

serverUnchanged == UNCHANGED <<watch, handler, stateVars, procVars, now>>

\* Requests for a group id that the server has not handled (bounds the ids).
PendingIds ==
  Cardinality({k \in Conns : \E i \in DOMAIN conn[k].c2s :
                                conn[k].c2s[i].op = "REQUEST_GROUP_ID"})

\* A group process starts: opRequestGroupId.
RequestGroupId(c) ==
  /\ client[c].pc = "off"
  /\ counter + PendingIds < MaxGroups
  /\ SendRequest(c, "REQUEST_GROUP_ID", 0, "await_id")
  /\ serverUnchanged

\* The reply carries the group id; Agent::init gives every configured agent
\* its id and leaves expires at 0.
ReceiveGroupId(c) ==
  /\ client[c].pc = "await_id"
  /\ Inbox(c) # <<>>
  /\ conn' = Consume(c)
  /\ \E n \in InitialAgents :
       client' = [client EXCEPT
         ![c].pc = "commit", ![c].gid = Head(Inbox(c)).n, ![c].number = n,
         ![c].agents = [i \in 1..n |-> [round |-> 0, expires |-> 0]],
         ![c].session = session]
  /\ serverUnchanged

\* Mutant of Interfaces: the ids are generated without the group.
InterfacesNoGroup(c) ==
  [id \in {0} \X DOMAIN client[c].agents |-> client[c].agents[id[2]]]

\* The interfaces a commit carries, by agent id.
Interfaces(c) ==
  [id \in {client[c].gid} \X DOMAIN client[c].agents |-> client[c].agents[id[2]]]

\* Mutant of AfterCommit: the first turn processes without a sync.
AfterCommitNoSync(c) == IF client[c].synced THEN "disconnect" ELSE "process"

\* The first commit precedes the loop; every other one ends a turn of it.
AfterCommit(c) == IF client[c].synced THEN "disconnect" ELSE "sync"

\* opAgentCommit: an empty group sends nothing at all.
CommitNothing(c) ==
  /\ client[c].pc = "commit"
  /\ DOMAIN client[c].agents = {}
  /\ client' = [client EXCEPT ![c].pc = AfterCommit(c)]
  /\ UNCHANGED conn
  /\ serverUnchanged

CommitHeader(c) ==
  /\ client[c].pc = "commit"
  /\ DOMAIN client[c].agents # {}
  /\ SendRequest(c, "AGENT_COMMIT", Cardinality(DOMAIN client[c].agents), "await_commit")
  /\ serverUnchanged

\* The server acknowledged the header: send the agents, and wait for nothing.
CommitAgents(c) ==
  /\ client[c].pc = "await_commit"
  /\ Inbox(c) # <<>>
  /\ conn' = [conn EXCEPT ![client[c].conn] = ToServer(Taken(c), Data(Interfaces(c)))]
  /\ client' = [client EXCEPT ![c].pc = AfterCommit(c)]
  /\ serverUnchanged

\* The loop's head: sync, by opAgentSyncAll.
SyncHeader(c) ==
  /\ client[c].pc = "sync"
  /\ client[c].round < MaxRound
  /\ SendRequest(c, "AGENT_SYNC_ALL", 0, "await_sync")
  /\ serverUnchanged

SyncReply(c) ==
  /\ client[c].pc = "await_sync"
  /\ Inbox(c) # <<>>
  /\ conn' = Consume(c)
  /\ LET n == Head(Inbox(c)).n
     IN client' = [client EXCEPT
          ![c].pc = IF n > 0 THEN "await_agents" ELSE "process",
          ![c].expect = n,
          ![c].synced = @ \/ n = 0]
  /\ serverUnchanged

\* m_global_state is replaced by what was received.
SyncAgents(c) ==
  /\ client[c].pc = "await_agents"
  /\ Inbox(c) # <<>>
  /\ conn' = Consume(c)
  /\ client' = [client EXCEPT ![c].pc = "process", ![c].synced = TRUE,
                              ![c].expect = 0]
  /\ serverUnchanged

\* The agents are processed, then apply_agent_requests: new agents get the
\* next number and their initial interface, deleted ones leave the vector.
Process(c) ==
  /\ client[c].pc = "process"
  /\ LET old == client[c].agents
         stamp == IF c \in Expiring THEN now + Lifetime ELSE 0
     IN \E keep \in SUBSET DOMAIN old, n \in client[c].number..MaxAgents :
          /\ DOMAIN old = {} => n = client[c].number
          /\ client' = [client EXCEPT
               ![c].pc = "commit",
               ![c].round = @ + 1,
               ![c].number = n,
               ![c].agents = [i \in keep \cup (client[c].number + 1)..n |->
                  IF i \in keep
                  THEN [round |-> client[c].round + 1, expires |-> stamp]
                  ELSE [round |-> client[c].round + 1, expires |-> 0]]]
  /\ UNCHANGED conn
  /\ serverUnchanged

\* opDisconnect: a DISCONNECT header and close, if there is a connection.
HangUp(c) ==
  IF client[c].conn = NoConn THEN conn
  ELSE [conn EXCEPT ![client[c].conn] =
          ClosedByClient(ToServer(@, Header("DISCONNECT", 0)))]

\* The end of a turn: the connection is not reused.
Disconnect(c) ==
  /\ client[c].pc = "disconnect"
  /\ conn' = HangUp(c)
  /\ client' = [client EXCEPT ![c].pc = "sync", ![c].conn = NoConn]
  /\ serverUnchanged

\* The loop sees the exit signal: a last opDisconnect and the process ends.
Exit(c) ==
  /\ client[c].pc = "sync"
  /\ conn' = HangUp(c)
  /\ client' = [client EXCEPT ![c] = Off]
  /\ serverUnchanged

\* Any failed operation on the socket ends main with -1, and the process.
GiveUp(c) ==
  /\ client[c].pc \notin {"off", "process"}
  /\ IF client[c].conn = NoConn
     THEN client[c].pc = "sync" /\ ~up
     ELSE ~conn[client[c].conn].server_open
  /\ conn' = CloseOf(c)
  /\ client' = [client EXCEPT ![c] = Off]
  /\ serverUnchanged

\* The process is killed; the kernel closes its socket.
Kill(c) ==
  /\ MayKill
  /\ client[c].pc # "off"
  /\ conn' = CloseOf(c)
  /\ client' = [client EXCEPT ![c] = Off]
  /\ serverUnchanged

-----------------------------------------------------------------------------
(* The server's main thread: Server::main.                                 *)

\* expired_agent_check holds the lock, and the main thread, to its end.
MainThreadRuns == up /\ lock # "main"

\* A connection waits in the listen queue; it joins the select pool.
Accept(k) ==
  /\ MainThreadRuns
  /\ conn[k].server_open /\ ~conn[k].accepted
  /\ conn' = [conn EXCEPT ![k].accepted = TRUE]
  /\ watch' = watch \cup {k}
  /\ UNCHANGED <<client, handler, stateVars, procVars, now>>

\* select reports a socket with something to read, the end of stream included.
Readable(k) == conn[k].c2s # <<>> \/ ~conn[k].client_open

\* Mutant of Dispatch: the socket stays in the pool.
DispatchAndWatch(k) ==
  /\ MainThreadRuns
  /\ k \in watch
  /\ Readable(k)
  /\ handler' = Goto(k, "header")
  /\ UNCHANGED <<client, conn, watch, stateVars, procVars, now>>

\* The socket leaves the pool, and a handler is started for it.
Dispatch(k) ==
  /\ MainThreadRuns
  /\ k \in watch
  /\ Readable(k)
  /\ watch' = watch \ {k}
  /\ handler' = Goto(k, "header")
  /\ UNCHANGED <<client, conn, stateVars, procVars, now>>

\* Mutant of Expired: zero is taken as a time like any other.
ExpiredAlways(m) == {id \in DOMAIN m : now > m[id].expires}
Expired(m) == {id \in DOMAIN m : m[id].expires # 0 /\ now > m[id].expires}

\* expired_agent_check: erases under the lock; without an expired agent it
\* changes nothing.
ExpiredAgentCheck ==
  /\ MainThreadRuns
  /\ lock = "free"
  /\ Expired(globalState) # {}
  /\ lock' = "main"
  /\ globalState' = Drop(globalState, Expired(globalState))
  /\ UNCHANGED <<client, netVars, readBuffer, procVars, now>>

\* Mutant of UpdateReadBuffer: the buffer is not swapped.
UnlockOnly == lock' = "free" /\ UNCHANGED <<globalState, readBuffer>>

\* update_read_buffer, by whichever thread holds the lock, which it releases.
UpdateReadBuffer ==
  /\ readBuffer' = Buffer(globalState)
  /\ lock' = "free"
  /\ UNCHANGED globalState

\* Mutant of ExpiredAgentsSwap: the lock is released without a swap.
ExpiredAgentsUnlock ==
  /\ up
  /\ lock = "main"
  /\ lock' = "free"
  /\ UNCHANGED <<client, netVars, globalState, readBuffer, procVars, now>>

ExpiredAgentsSwap ==
  /\ up
  /\ lock = "main"
  /\ UpdateReadBuffer
  /\ UNCHANGED <<client, netVars, procVars, now>>

-----------------------------------------------------------------------------
(* The request handlers: Server::request_handler, one thread a request.    *)

Finished(k) == [handler EXCEPT ![k] = Idle]
CloseByServer(k) == [conn EXCEPT ![k] = ClosedByServer(@)]

\* The header cannot be received: the stream has ended.
HandleEndOfStream(k) ==
  /\ handler[k].pc = "header"
  /\ conn[k].c2s = <<>> /\ ~conn[k].client_open
  /\ conn' = CloseByServer(k)
  /\ handler' = Finished(k)
  /\ UNCHANGED <<client, watch, stateVars, procVars, now>>

Receives(k, op) ==
  handler[k].pc = "header" /\ conn[k].c2s # <<>> /\ Head(conn[k].c2s).op = op
Received(k) == [conn[k] EXCEPT !.c2s = Tail(@)]

HandleDisconnect(k) ==
  /\ Receives(k, "DISCONNECT")
  /\ conn' = CloseByServer(k)
  /\ handler' = Finished(k)
  /\ UNCHANGED <<client, watch, stateVars, procVars, now>>

\* Mutant of HandleRequestGroupId: the increment is lost.
HandleRequestSameId(k) ==
  /\ Receives(k, "REQUEST_GROUP_ID")
  /\ conn' = [conn EXCEPT ![k] = ToClient(Received(k), Header("SERVER_ACK", counter + 1))]
  /\ handler' = Goto(k, "return")
  /\ UNCHANGED <<client, watch, stateVars, procVars, now>>

\* request_group_id: the counter is an atomic, and nobody looks at what send
\* returns, but a failed one has closed the socket.
HandleRequestGroupId(k) ==
  /\ Receives(k, "REQUEST_GROUP_ID")
  /\ counter' = counter + 1
  /\ \/ /\ conn' = [conn EXCEPT ![k] = ToClient(Received(k), Header("SERVER_ACK", counter'))]
        /\ handler' = Goto(k, "return")
     \/ /\ ~conn[k].client_open
        /\ conn' = CloseByServer(k)
        /\ handler' = Finished(k)
  /\ UNCHANGED <<client, watch, stateVars, up, session, now>>

HandleSyncHeader(k) ==
  /\ Receives(k, "AGENT_SYNC_ALL")
  /\ conn' = [conn EXCEPT ![k] = Received(k)]
  /\ handler' = Goto(k, "sync")
  /\ UNCHANGED <<client, watch, stateVars, procVars, now>>

HandleCommitHeader(k) ==
  /\ Receives(k, "AGENT_COMMIT")
  /\ conn' = [conn EXCEPT ![k] = Received(k)]
  /\ handler' = [handler EXCEPT ![k] = At("commit", Head(conn[k].c2s).n, <<>>)]
  /\ UNCHANGED <<client, watch, stateVars, procVars, now>>

\* request_agent_sync_all: take the read buffer, announce its size.
HandleSync(k) ==
  /\ handler[k].pc = "sync"
  /\ readBuffer.set
  /\ LET n == Cardinality(DOMAIN readBuffer.agents)
     IN /\ conn' = [conn EXCEPT ![k] = ToClient(@, Header("SERVER_ACK", n))]
        /\ handler' = [handler EXCEPT ![k] =
             IF n > 0 THEN At("sync_data", 0, readBuffer.agents)
                      ELSE At("return", 0, <<>>)]
  /\ UNCHANGED <<client, watch, stateVars, procVars, now>>

\* Mutant of HandleSyncData: the agents come from the buffer of this moment.
HandleSyncNewData(k) ==
  /\ handler[k].pc = "sync_data"
  /\ conn' = [conn EXCEPT ![k] = ToClient(@, Data(readBuffer.agents))]
  /\ handler' = Goto(k, "return")
  /\ UNCHANGED <<client, watch, stateVars, procVars, now>>

HandleSyncData(k) ==
  /\ handler[k].pc = "sync_data"
  /\ conn' = [conn EXCEPT ![k] = ToClient(@, Data(handler[k].agents))]
  /\ handler' = Goto(k, "return")
  /\ UNCHANGED <<client, watch, stateVars, procVars, now>>

\* request_agent_commit: acknowledge first, then receive the agents.
HandleCommit(k) ==
  /\ handler[k].pc = "commit"
  /\ conn' = [conn EXCEPT ![k] = ToClient(@, Header("SERVER_ACK", handler[k].count))]
  /\ handler' = Goto(k, "commit_data")
  /\ UNCHANGED <<client, watch, stateVars, procVars, now>>

\* Mutant of HandleCommitData: the agents are received and dropped.
HandleCommitDropped(k) ==
  /\ handler[k].pc = "commit_data"
  /\ conn[k].c2s # <<>>
  /\ conn' = [conn EXCEPT ![k] = Received(k)]
  /\ handler' = Goto(k, "return")
  /\ UNCHANGED <<client, watch, stateVars, procVars, now>>

HandleCommitData(k) ==
  /\ handler[k].pc = "commit_data"
  /\ conn[k].c2s # <<>>
  /\ conn' = [conn EXCEPT ![k] = Received(k)]
  /\ handler' = [handler EXCEPT ![k] = At("apply", 0, Head(conn[k].c2s).agents)]
  /\ UNCHANGED <<client, watch, stateVars, procVars, now>>

\* The agents never arrive, and the stream ends: the socket is kept.
HandleCommitLost(k) ==
  /\ handler[k].pc = "commit_data"
  /\ conn[k].c2s = <<>> /\ ~conn[k].client_open
  /\ handler' = Goto(k, "return")
  /\ UNCHANGED <<client, conn, watch, stateVars, procVars, now>>

\* update_global_state, under the lock; module UpdateGlobalState shows that
\* its loops compute Merge.
HandleApply(k) ==
  /\ handler[k].pc = "apply"
  /\ lock = "free"
  /\ lock' = k
  /\ globalState' = Merge(globalState, handler[k].agents)
  /\ handler' = Goto(k, "swap")
  /\ UNCHANGED <<client, conn, watch, readBuffer, procVars, now>>

HandleSwap(k) ==
  /\ handler[k].pc = "swap"
  /\ UpdateReadBuffer
  /\ handler' = Goto(k, "return")
  /\ UNCHANGED <<client, conn, watch, procVars, now>>

\* When the client has gone, a reply may fail, and so may the wait for its agents,
\* which then is no end of stream: Socket::send and recv close the socket.
HandlerIoFails(k) ==
  /\ \/ handler[k].pc \in {"sync_data", "commit"}
     \/ handler[k].pc = "sync" /\ readBuffer.set
     \/ handler[k].pc = "commit_data" /\ conn[k].c2s = <<>>
  /\ ~conn[k].client_open
  /\ conn' = CloseByServer(k)
  /\ handler' = Finished(k)
  /\ UNCHANGED <<client, watch, stateVars, procVars, now>>

\* Mutant of HandlerReturn: the socket does not go back.
HandlerForgets(k) ==
  /\ handler[k].pc = "return"
  /\ handler' = Finished(k)
  /\ UNCHANGED <<client, conn, watch, stateVars, procVars, now>>

\* A socket that is still valid goes back to the pool.
HandlerReturn(k) ==
  /\ handler[k].pc = "return"
  /\ watch' = watch \cup {k}
  /\ handler' = Finished(k)
  /\ UNCHANGED <<client, conn, stateVars, procVars, now>>

-----------------------------------------------------------------------------
(* The server process.                                                     *)

\* Everything the server knew is gone, and its sockets are closed.
ServerGone ==
  /\ up' = FALSE
  /\ conn' = [k \in Conns |-> IF conn[k].server_open THEN ClosedByServer(conn[k]) ELSE conn[k]]
  /\ watch' = {}
  /\ handler' = [k \in Conns |-> Idle]
  /\ globalState' = <<>>
  /\ readBuffer' = NullBuffer
  /\ lock' = "free"
  /\ counter' = 0
  /\ UNCHANGED <<client, session, now>>

\* A sync before the first commit reads through the null m_read_buffer.
HandleSyncNull(k) ==
  /\ handler[k].pc = "sync"
  /\ ~readBuffer.set
  /\ ServerGone

\* The server is stopped, or crashes, between any two of its steps.
ServerStop == up /\ session < MaxSession /\ ServerGone

ServerStart ==
  /\ ~up
  /\ session < MaxSession
  /\ up' = TRUE
  /\ session' = session + 1
  /\ UNCHANGED <<client, netVars, stateVars, counter, now>>

Tick ==
  /\ now < MaxTime
  /\ now' = now + 1
  /\ UNCHANGED <<client, netVars, stateVars, procVars>>

-----------------------------------------------------------------------------
ClientStep(c) ==
  \/ ReceiveGroupId(c) \/ CommitNothing(c) \/ CommitHeader(c) \/ CommitAgents(c)
  \/ SyncHeader(c) \/ SyncReply(c) \/ SyncAgents(c) \/ Process(c)
  \/ Disconnect(c) \/ GiveUp(c)

HandlerStep(k) ==
  \/ HandleEndOfStream(k) \/ HandleDisconnect(k) \/ HandleRequestGroupId(k)
  \/ HandleSyncHeader(k) \/ HandleCommitHeader(k)
  \/ HandleSync(k) \/ HandleSyncNull(k) \/ HandleSyncData(k)
  \/ HandleCommit(k) \/ HandleCommitData(k) \/ HandleCommitLost(k)
  \/ HandleApply(k) \/ HandleSwap(k) \/ HandlerIoFails(k) \/ HandlerReturn(k)

Next ==
  \/ \E c \in Clients : RequestGroupId(c) \/ ClientStep(c) \/ Exit(c) \/ Kill(c)
  \/ \E k \in Conns : Accept(k) \/ Dispatch(k) \/ HandlerStep(k)
  \/ ExpiredAgentCheck \/ ExpiredAgentsSwap
  \/ ServerStop \/ ServerStart \/ Tick

Spec == Init /\ [][Next]_vars

\* The main thread keeps running its loop, handler threads and group processes
\* keep being scheduled, and the lock is handed on fairly; nobody has to start
\* a process, and the clock need not advance.
Fairness ==
  /\ \A c \in Clients : WF_vars(ClientStep(c))
  /\ \A k \in Conns : WF_vars(Accept(k)) /\ WF_vars(Dispatch(k))
  /\ \A k \in Conns : SF_vars(HandlerStep(k))
  /\ SF_vars(ExpiredAgentCheck) /\ WF_vars(ExpiredAgentsSwap)

FairSpec == Spec /\ Fairness
-----------------------------------------------------------------------------
(* Properties. *)

\* The variables keep their types.
TypeOK ==
  /\ client \in [Clients -> ClientType]
  /\ conn \in [Conns -> ConnType]
  /\ watch \subseteq Conns
  /\ handler \in [Conns -> HandlerType]
  /\ globalState \in AgentMap
  /\ readBuffer \in [set : BOOLEAN, agents : AgentMap]
  /\ lock \in {"free", "main"} \cup Conns
  /\ counter \in 0..MaxGroups
  /\ up \in BOOLEAN
  /\ session \in 0..MaxSession
  /\ now \in 0..MaxTime

\* Whenever nobody holds m_lock_global_state, the published read buffer is the
\* global state: no path that changes the state leaves the lock without having
\* swapped the buffer, so no sync after it is answered from an older state.
BufferConsistent ==
  lock = "free" =>
    IF readBuffer.set THEN readBuffer.agents = globalState ELSE globalState = <<>>

\* The lock is held exactly by the thread between its change of the global
\* state and its swap of the buffer.
LockDiscipline ==
  \A k \in Conns : handler[k].pc = "swap" <=> lock = k

\* The single-threaded server whose state is what the read buffer shows.
Published ==
  INSTANCE PublishedState WITH
    Ids <- IdsOf(1..MaxGroups),
    Values <- [round : 0..MaxRound,
               expires : IF Expiring = {} THEN {0} ELSE 0..MaxTime + Lifetime],
    published <- IF readBuffer.set THEN readBuffer.agents ELSE <<>>

\* A sync sees every commit whole or not at all, and expired agents leave all at
\* once, whichever handlers and removals run at a time: the read buffer moves as
\* the single-threaded PublishedState does.
ImplementsPublishedState == Published!Spec

\* A connection is never in the select pool while a handler works on it, so
\* two threads never read requests from one stream; and either has a
\* connection that the server has accepted and not closed.
HandlerExclusive ==
  /\ \A k \in watch : handler[k].pc = "none"
  /\ \A k \in Conns :
       k \in watch \/ handler[k].pc # "none" => conn[k].server_open /\ conn[k].accepted

\* A sync is all or nothing: the agents that follow a reply header are as many
\* as it announced, although commits and expiry change the state in between.
SyncReplyComplete ==
  \A c \in Clients :
    client[c].pc = "await_agents" /\ Inbox(c) # <<>> =>
      Cardinality(DOMAIN Head(Inbox(c)).agents) = client[c].expect

\* Until the server is started again, a group's first sync shows it all of its
\* agents as it committed them: the commit, which is acknowledged before it is
\* applied, cannot be overtaken by the sync that follows it on the same
\* connection.
FirstSyncSeesCommit ==
  [][session = 1 => \A c \in Clients :
       ~client[c].synced /\ client'[c].synced =>
         LET seen == IF client[c].pc = "await_agents"
                     THEN Head(Inbox(c)).agents ELSE <<>>
         IN \A id \in DOMAIN Interfaces(c) :
              id \in DOMAIN seen /\ seen[id] = Interfaces(c)[id]]_vars

\* Only a commit whose connection its group has already left can be out of
\* date when it is applied; over the connection in use the server always
\* applies the group's current agents.
StaleOnlyAfterDisconnect ==
  \A k \in Conns :
    handler[k].pc = "apply" /\ conn[k].client_open =>
      handler[k].agents = Interfaces(conn[k].owner)

\* Until the server is started again, a group id is new when its group learns
\* it: no other group has it, and neither the state nor a commit under way holds
\* an agent under it.
FreshGroupId ==
  [][session = 1 => \A c \in Clients :
       LET g == client'[c].gid
       IN g # client[c].gid /\ g # 0 =>
            /\ \A d \in Clients : client[d].gid # g
            /\ \A id \in DOMAIN globalState : id[1] # g
            /\ \A k \in Conns : \A id \in DOMAIN handler[k].agents : id[1] # g]_vars

\* Until the server is started again, a sync never meets the null read buffer: a
\* group that has agents commits them over the same connection before it first
\* asks for the state.
NoNullBuffer ==
  session = 1 => \A k \in Conns : handler[k].pc = "sync" => readBuffer.set

\* communication_header.h:17-23: a request, other than that for a group id,
\* is ignored unless it comes from a client of this start of the server.
OnlyOwnSession ==
  \A k \in Conns :
    handler[k].pc \in {"sync", "commit"} /\ conn[k].client_open =>
      client[conn[k].owner].session = session

\* A group waiting for the reply to a sync gets it or finds the server gone.
SyncAnswered ==
  \A c \in Clients : client[c].pc = "await_sync" ~> client[c].pc # "await_sync"

\* Interface r of an agent is on its way to the server.
Sent(id, r) ==
  \E k \in Conns : \E i \in DOMAIN conn[k].c2s :
    /\ id \in DOMAIN conn[k].c2s[i].agents
    /\ conn[k].c2s[i].agents[id].round = r

\* A commit takes effect although nobody acknowledges that, and although its
\* group may have hung up: the agents on their way to the server are at some
\* time in the read buffer, unless the server goes away.
CommitVisible ==
  \A id \in IdsOf(1..MaxGroups), r \in 0..MaxRound :
    Sent(id, r) ~>
      \/ id \in DOMAIN readBuffer.agents /\ readBuffer.agents[id].round = r
      \/ ~up

\* An expired agent leaves the read buffer, or is replaced by a later commit.
ExpiredRemoved ==
  \A id \in IdsOf(1..MaxGroups) :
    id \in Expired(readBuffer.agents) ~> id \notin Expired(readBuffer.agents)
=============================================================================
