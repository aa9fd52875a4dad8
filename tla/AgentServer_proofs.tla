-------------------------- MODULE AgentServer_proofs --------------------------
(***************************************************************************)
(* What holds of the agent server for every number of groups and           *)
(* connections, in this order:                                             *)
(*   - the discipline of m_lock_global_state, the agreement of the read    *)
(*     buffer with the global state, the exclusiveness of the handlers;    *)
(*   - the protocol: what a group, its connection and the handler at work  *)
(*     there know of each other; with it the types, the completeness of    *)
(*     replies to a sync and the currency of commits;                      *)
(*   - that the read buffer implements the state of PublishedState;        *)
(*   - for a server with one start: that group ids are fresh, the read     *)
(*     buffer is not null when a sync meets it, and a group's first sync   *)
(*     shows it its first commit.                                          *)
(***************************************************************************)
EXTENDS AgentServer, SequenceTheorems, FiniteSetTheorems, WellFoundedInduction, TLAPS

\* The shape of the variables, which EXCEPT relies on.
ConnFields == {"owner", "c2s", "s2c", "client_open", "server_open", "accepted"}
Shape ==
  /\ DOMAIN handler = Conns
  /\ DOMAIN conn = Conns
  /\ \A k \in Conns : DOMAIN conn[k] = ConnFields
  /\ watch \subseteq Conns

\* The inductive invariant.
IInv == Shape /\ LockDiscipline /\ BufferConsistent /\ HandlerExclusive

\* What the groups do to a connection: of the ends that the server has open
\* they change neither server_open nor accepted.
ClientKeeps ==
  /\ UNCHANGED <<watch, handler, globalState, readBuffer, lock>>
  /\ DOMAIN conn' = Conns
  /\ \A k \in Conns :
       /\ DOMAIN conn'[k] = ConnFields
       /\ conn[k].server_open =>
            conn'[k].server_open = conn[k].server_open /\ conn'[k].accepted = conn[k].accepted

\* A step that only does that keeps the invariant.
LEMMA ClientKeepsIInv == ASSUME IInv, ClientKeeps PROVE IInv'
  BY SMTT(30) DEF IInv, Shape, LockDiscipline, BufferConsistent, HandlerExclusive, ClientKeeps

\* Every operation of an end on its own connection keeps the record's fields.
LEMMA RecordShape ==
  ASSUME NEW r, DOMAIN r = ConnFields, NEW m
  PROVE  /\ DOMAIN ToServer(r, m) = ConnFields
         /\ ToServer(r, m).server_open = r.server_open
         /\ ToServer(r, m).accepted = r.accepted
         /\ DOMAIN ToClient(r, m) = ConnFields
         /\ ToClient(r, m).server_open = r.server_open
         /\ ToClient(r, m).accepted = r.accepted
         /\ DOMAIN ClosedByClient(r) = ConnFields
         /\ r.server_open =>
              /\ ClosedByClient(r).server_open = r.server_open
              /\ ClosedByClient(r).accepted = r.accepted
         /\ DOMAIN ClosedByServer(r) = ConnFields
<1>1. /\ DOMAIN ToServer(r, m) = ConnFields
      /\ ToServer(r, m).server_open = r.server_open
      /\ ToServer(r, m).accepted = r.accepted
  <2>1. CASE ~r.server_open
    BY <2>1 DEF ToServer
  <2>2. CASE r.server_open
    <3>1. ToServer(r, m) = [r EXCEPT !.c2s = Append(r.c2s, m)]
      BY <2>2 DEF ToServer
    <3>2. DOMAIN ToServer(r, m) = ConnFields
      BY <3>1
    <3>3. "server_open" \in DOMAIN r /\ "accepted" \in DOMAIN r
      BY DEF ConnFields
    <3>. QED  BY <3>1, <3>2, <3>3
  <2>. QED  BY <2>1, <2>2
<1>2. /\ DOMAIN ToClient(r, m) = ConnFields
      /\ ToClient(r, m).server_open = r.server_open
      /\ ToClient(r, m).accepted = r.accepted
  BY DEF ToClient, ConnFields
<1>3. /\ DOMAIN ClosedByClient(r) = ConnFields
      /\ r.server_open =>
           /\ ClosedByClient(r).server_open = r.server_open
           /\ ClosedByClient(r).accepted = r.accepted
  BY DEF ClosedByClient, ConnFields, FreeConn
<1>4. DOMAIN ClosedByServer(r) = ConnFields
  BY DEF ClosedByServer, ConnFields, FreeConn
<1>. QED  BY <1>1, <1>2, <1>3, <1>4

-----------------------------------------------------------------------------
(* The groups. *)

\* r is what a group may make of connection k.
Kept(k, r) ==
  /\ DOMAIN r = ConnFields
  /\ conn[k].server_open =>
       r.server_open = conn[k].server_open /\ r.accepted = conn[k].accepted

\* A group changes at most one connection.
LEMMA OneConnection ==
  ASSUME Shape, serverUnchanged, NEW k, NEW r, k \in Conns => Kept(k, r),
         conn' = [conn EXCEPT ![k] = r]
  PROVE  ClientKeeps
  BY DEF Shape, serverUnchanged, stateVars, Kept, ClientKeeps

\* A request goes out on the connection in use or on a new one.
LEMMA SendRequestKeeps ==
  ASSUME Shape, serverUnchanged, NEW c, NEW op, NEW n, NEW pc, SendRequest(c, op, n, pc)
  PROVE  ClientKeeps
<1>. PICK k \in Connectable(c) :
       conn' = [conn EXCEPT ![k] = ToServer(Connected(c, k), Header(op, n))]
  BY DEF SendRequest
<1>1. ASSUME k \in Conns PROVE Kept(k, ToServer(Connected(c, k), Header(op, n)))
  <2>1. CASE client[c].conn = k
    BY <1>1, <2>1, RecordShape DEF Shape, Connected, Kept
  <2>2. CASE client[c].conn # k
    <3>1. conn[k] = FreeConn
      BY <2>2 DEF Connectable
    <3>2. DOMAIN Connected(c, k) = ConnFields /\ ~conn[k].server_open
      BY <2>2, <3>1 DEF Connected, FreeConn, ConnFields
    <3>. QED  BY <3>2, RecordShape DEF Kept
  <2>. QED  BY <2>1, <2>2
<1>. QED  BY <1>1, OneConnection

\* A group reads only what was sent to it.
LEMMA ConsumeKeeps ==
  ASSUME Shape, serverUnchanged, NEW c, conn' = Consume(c)
  PROVE  ClientKeeps
<1>. DEFINE k == client[c].conn
            r == Taken(c)
<1>1. k \in Conns => Kept(k, r)
  BY DEF Shape, Kept, ConnFields, Taken
<1>2. conn' = [conn EXCEPT ![k] = r]
  BY DEF Consume
<1>. QED  BY <1>1, <1>2, OneConnection

\* Closing its end leaves the server's end open, with or without a last header.
LEMMA CloseKeeps ==
  ASSUME Shape, serverUnchanged, NEW c, conn' = CloseOf(c) \/ conn' = HangUp(c)
  PROVE  ClientKeeps
<1>. DEFINE k == client[c].conn
<1>1. CASE conn' = conn
  BY <1>1 DEF Shape, serverUnchanged, stateVars, ClientKeeps
<1>2. CASE conn' = [conn EXCEPT ![k] = ClosedByClient(@)]
  <2>1. k \in Conns => Kept(k, ClosedByClient(conn[k]))
    BY RecordShape DEF Shape, Kept
  <2>. QED  BY <1>2, <2>1, OneConnection
<1>3. CASE conn' = [conn EXCEPT ![k] = ClosedByClient(ToServer(@, Header("DISCONNECT", 0)))]
  <2>. DEFINE r == ToServer(conn[k], Header("DISCONNECT", 0))
  <2>1. ASSUME k \in Conns PROVE Kept(k, ClosedByClient(r))
    <3>1. DOMAIN r = ConnFields /\ r.server_open = conn[k].server_open
                                /\ r.accepted = conn[k].accepted
      BY <2>1, RecordShape DEF Shape
    <3>. QED  BY <3>1, RecordShape DEF Kept
  <2>. QED  BY <1>3, <2>1, OneConnection
<1>. QED  BY <1>1, <1>2, <1>3 DEF CloseOf, HangUp

\* Every step of a group keeps the invariant.
ClientNext(c) == RequestGroupId(c) \/ ClientStep(c) \/ Exit(c) \/ Kill(c)

\* A step of a group, which can only write to and close its own connection,
\* keeps the invariant.
LEMMA ClientInvariant ==
  ASSUME IInv, NEW c \in Clients, ClientNext(c)
  PROVE  IInv'
<1>. USE DEF IInv
<1>1. CASE RequestGroupId(c)
  BY <1>1, SendRequestKeeps, ClientKeepsIInv DEF RequestGroupId
<1>2. CASE ReceiveGroupId(c)
  BY <1>2, ConsumeKeeps, ClientKeepsIInv DEF ReceiveGroupId
<1>3. CASE CommitNothing(c) \/ Process(c)
  <2>1. serverUnchanged /\ conn' = conn
    BY <1>3 DEF CommitNothing, Process
  <2>2. ClientKeeps
    BY <2>1 DEF Shape, serverUnchanged, stateVars, ClientKeeps
  <2>. QED  BY <2>2, ClientKeepsIInv
<1>4. CASE CommitHeader(c)
  BY <1>4, SendRequestKeeps, ClientKeepsIInv DEF CommitHeader
<1>5. CASE CommitAgents(c)
  <2>. DEFINE k == client[c].conn
              r == Taken(c)
  <2>1. ASSUME k \in Conns PROVE Kept(k, ToServer(r, Data(Interfaces(c))))
    <3>1. DOMAIN r = ConnFields /\ r.server_open = conn[k].server_open
                                /\ r.accepted = conn[k].accepted
      BY <2>1 DEF Shape, ConnFields, Taken
    <3>. QED  BY <3>1, RecordShape DEF Kept
  <2>2. serverUnchanged /\ conn' = [conn EXCEPT ![k] = ToServer(r, Data(Interfaces(c)))]
    BY <1>5 DEF CommitAgents
  <2>. QED  BY <2>1, <2>2, OneConnection, ClientKeepsIInv
<1>6. CASE SyncHeader(c)
  BY <1>6, SendRequestKeeps, ClientKeepsIInv DEF SyncHeader
<1>7. CASE SyncReply(c) \/ SyncAgents(c)
  BY <1>7, ConsumeKeeps, ClientKeepsIInv DEF SyncReply, SyncAgents
<1>8. CASE Disconnect(c) \/ Exit(c) \/ GiveUp(c) \/ Kill(c)
  BY <1>8, CloseKeeps, ClientKeepsIInv DEF Disconnect, Exit, GiveUp, Kill
<1>. QED  BY <1>1, <1>2, <1>3, <1>4, <1>5, <1>6, <1>7, <1>8 DEF ClientNext, ClientStep

-----------------------------------------------------------------------------
(* The server's main thread. *)

\* Accepting a connection and handing it to a handler keep the invariant.
LEMMA PoolInvariant ==
  ASSUME IInv, NEW k \in Conns, Accept(k) \/ Dispatch(k)
  PROVE  IInv'
<1>1. CASE Accept(k)
  <2>1. Shape'
    BY <1>1 DEF IInv, Shape, Accept, ConnFields
  <2>2. LockDiscipline' /\ BufferConsistent'
    BY <1>1 DEF IInv, Accept, stateVars, LockDiscipline, BufferConsistent
  <2>3. HandlerExclusive'
    BY <1>1 DEF IInv, Shape, Accept, ConnFields, HandlerExclusive
  <2>. QED  BY <2>1, <2>2, <2>3 DEF IInv
<1>2. CASE Dispatch(k)
  <2>1. Shape'
    BY <1>2 DEF IInv, Shape, Dispatch, Goto
  <2>2. LockDiscipline' /\ BufferConsistent'
    BY <1>2 DEF IInv, Shape, Dispatch, Goto, At, stateVars, LockDiscipline, BufferConsistent,
                HandlerExclusive
  <2>3. HandlerExclusive'
    BY <1>2 DEF IInv, Shape, Dispatch, Goto, At, HandlerExclusive
  <2>. QED  BY <2>1, <2>2, <2>3 DEF IInv
<1>. QED  BY <1>1, <1>2

\* So does the removal of expired agents, in its two steps.
LEMMA ExpiryInvariant ==
  ASSUME IInv, ExpiredAgentCheck \/ ExpiredAgentsSwap
  PROVE  IInv'
<1>1. Shape' /\ HandlerExclusive'
  BY DEF IInv, Shape, HandlerExclusive, ExpiredAgentCheck, ExpiredAgentsSwap, netVars
<1>2. "main" \notin Conns /\ "free" \notin Conns
  BY ServerAssumption
<1>3. LockDiscipline'
  BY <1>2 DEF IInv, LockDiscipline, ExpiredAgentCheck, ExpiredAgentsSwap, netVars,
              UpdateReadBuffer
<1>4. BufferConsistent'
  BY DEF BufferConsistent, ExpiredAgentCheck, ExpiredAgentsSwap, UpdateReadBuffer, Buffer
<1>. QED  BY <1>1, <1>3, <1>4 DEF IInv

-----------------------------------------------------------------------------
(* The request handlers. *)

\* A handler that moves on, in any way that leaves its connection open or
\* closes it and is finished, without touching the lock or what it guards.
Moves(k, pc, r) ==
  /\ handler[k].pc \notin {"none", "swap"}
  /\ pc # "swap"
  /\ \E n, m : handler' = [handler EXCEPT ![k] = At(pc, n, m)]
  /\ conn' = [conn EXCEPT ![k] = r] \/ (conn' = conn /\ r = conn[k])
  /\ DOMAIN r = ConnFields
  /\ pc # "none" => r.server_open = conn[k].server_open /\ r.accepted = conn[k].accepted
  /\ UNCHANGED <<watch, globalState, readBuffer, lock>>

\* A step of a handler alone, which leaves its connection as it is.
LEMMA MovesInPlace ==
  ASSUME NEW k \in Conns, NEW pc, NEW n, NEW m,
         handler[k].pc \notin {"none", "swap"}, pc # "swap", DOMAIN conn[k] = ConnFields,
         handler' = [handler EXCEPT ![k] = At(pc, n, m)],
         UNCHANGED <<conn, watch, globalState, readBuffer, lock>>
  PROVE  Moves(k, pc, conn[k])
<1>1. \E x, y : handler' = [handler EXCEPT ![k] = At(pc, x, y)]
  OBVIOUS
<1>. QED  BY <1>1 DEF Moves

\* The steps of a handler that neither close nor return keep the invariant.
LEMMA MovesInvariant ==
  ASSUME IInv, NEW k \in Conns, NEW pc, NEW r, Moves(k, pc, r)
  PROVE  IInv'
<1>1. PICK n, m : handler' = [handler EXCEPT ![k] = At(pc, n, m)]
  BY DEF Moves
<1>2. /\ handler'[k].pc = pc
      /\ \A j \in Conns \ {k} : handler'[j] = handler[j] /\ conn'[j] = conn[j]
      /\ conn'[k] = r
      /\ DOMAIN handler' = Conns /\ DOMAIN conn' = Conns
  BY <1>1 DEF IInv, Shape, Moves, At
<1>3. Shape'
  BY <1>2 DEF IInv, Shape, Moves
<1>4. LockDiscipline'
  BY <1>2 DEF IInv, LockDiscipline, Moves
<1>5. BufferConsistent'
  BY DEF IInv, BufferConsistent, Moves
<1>6. HandlerExclusive'
  BY <1>2 DEF IInv, HandlerExclusive, Moves, Shape
<1>. QED  BY <1>3, <1>4, <1>5, <1>6 DEF IInv

\* What a handler makes of its connection.
LEMMA HandlerConn ==
  ASSUME Shape, NEW k \in Conns
  PROVE  /\ DOMAIN conn[k] = ConnFields
         /\ \A m : LET r == ToClient(conn[k], m) IN
              /\ DOMAIN r = ConnFields
              /\ r.server_open = conn[k].server_open /\ r.accepted = conn[k].accepted
         /\ \A m : LET r == ToClient(Received(k), m) IN
              /\ DOMAIN r = ConnFields
              /\ r.server_open = conn[k].server_open /\ r.accepted = conn[k].accepted
         /\ DOMAIN Received(k) = ConnFields
         /\ Received(k).server_open = conn[k].server_open
         /\ Received(k).accepted = conn[k].accepted
         /\ DOMAIN ClosedByServer(conn[k]) = ConnFields
<1>1. DOMAIN conn[k] = ConnFields
  BY DEF Shape
<1>2. /\ DOMAIN Received(k) = ConnFields
      /\ Received(k).server_open = conn[k].server_open
      /\ Received(k).accepted = conn[k].accepted
  BY <1>1 DEF Received, ConnFields
<1>. QED  BY <1>1, <1>2, RecordShape

\* The lock is taken with the state's change and released with the swap.
LEMMA ApplyInvariant ==
  ASSUME IInv, NEW k \in Conns, HandleApply(k)
  PROVE  IInv'
<1>1. /\ handler'[k].pc = "swap" /\ handler[k].pc = "apply"
      /\ \A j \in Conns \ {k} : handler'[j] = handler[j]
      /\ DOMAIN handler' = Conns
  BY DEF IInv, Shape, HandleApply, Goto, At
<1>2. Shape' /\ HandlerExclusive'
  BY <1>1 DEF IInv, Shape, HandlerExclusive, HandleApply
<1>3. LockDiscipline' /\ BufferConsistent'
  BY <1>1, ServerAssumption DEF IInv, LockDiscipline, BufferConsistent, HandleApply
<1>. QED  BY <1>2, <1>3 DEF IInv

\* Swapping the buffer and releasing the lock keeps the invariant.
LEMMA SwapInvariant ==
  ASSUME IInv, NEW k \in Conns, HandleSwap(k)
  PROVE  IInv'
<1>1. /\ handler'[k].pc = "return" /\ handler[k].pc = "swap"
      /\ \A j \in Conns \ {k} : handler'[j] = handler[j]
      /\ DOMAIN handler' = Conns
  BY DEF IInv, Shape, HandleSwap, Goto, At
<1>2. Shape' /\ HandlerExclusive'
  BY <1>1 DEF IInv, Shape, HandlerExclusive, HandleSwap
<1>3. LockDiscipline' /\ BufferConsistent'
  BY <1>1, ServerAssumption
     DEF IInv, LockDiscipline, BufferConsistent, HandleSwap, UpdateReadBuffer, Buffer
<1>. QED  BY <1>2, <1>3 DEF IInv

\* The connection goes back to the pool as its handler ends.
LEMMA ReturnInvariant ==
  ASSUME IInv, NEW k \in Conns, HandlerReturn(k)
  PROVE  IInv'
<1>1. /\ handler'[k].pc = "none" /\ handler[k].pc = "return"
      /\ \A j \in Conns \ {k} : handler'[j] = handler[j]
      /\ DOMAIN handler' = Conns
  BY DEF IInv, Shape, HandlerReturn, Finished, Idle, At
<1>2. Shape' /\ HandlerExclusive'
  BY <1>1 DEF IInv, Shape, HandlerExclusive, HandlerReturn
<1>3. LockDiscipline' /\ BufferConsistent'
  BY <1>1 DEF IInv, LockDiscipline, BufferConsistent, HandlerReturn, stateVars
<1>. QED  BY <1>2, <1>3 DEF IInv

\* The end of the server process leaves nothing of its state.
LEMMA GoneInvariant ==
  ASSUME IInv, ServerGone
  PROVE  IInv'
<1>1. \A k \in Conns : handler'[k].pc = "none"
  BY DEF ServerGone, Idle, At
<1>2. \A k \in Conns : DOMAIN conn'[k] = ConnFields
  BY RecordShape DEF IInv, Shape, ServerGone
<1>3. Shape'
  BY <1>2 DEF Shape, ServerGone
<1>4. LockDiscipline' /\ BufferConsistent' /\ HandlerExclusive'
  BY <1>1, ServerAssumption DEF ServerGone, LockDiscipline, BufferConsistent, HandlerExclusive,
     NullBuffer
<1>. QED  BY <1>3, <1>4 DEF IInv

\* A handler that gives up a commit whose agents never arrive keeps the invariant.
LEMMA CommitLostInvariant ==
  ASSUME IInv, NEW k \in Conns, HandleCommitLost(k)
  PROVE  IInv'
<1>1. handler[k].pc = "commit_data" /\ DOMAIN conn[k] = ConnFields
  BY DEF HandleCommitLost, IInv, Shape
<1>2. /\ handler' = [handler EXCEPT ![k] = At("return", 0, <<>>)]
      /\ UNCHANGED <<conn, watch, globalState, readBuffer, lock>>
  BY DEF HandleCommitLost, Goto, stateVars
<1>3. Moves(k, "return", conn[k])
  BY <1>1, <1>2, MovesInPlace
<1>. QED  BY <1>3, MovesInvariant

\* Every step of a handler keeps the invariant.
LEMMA HandlerInvariant ==
  ASSUME IInv, NEW k \in Conns, HandlerStep(k)
  PROVE  IInv'
<1>. USE HandlerConn DEF Goto, Finished, CloseByServer, Idle, stateVars, Moves
<1>0. Shape
  BY DEF IInv
<1>1. CASE HandleEndOfStream(k) \/ HandleDisconnect(k)
  <2>1. Moves(k, "none", ClosedByServer(conn[k]))
    BY <1>0, <1>1 DEF HandleEndOfStream, HandleDisconnect, Receives
  <2>. QED  BY <2>1, MovesInvariant
<1>2. CASE HandleRequestGroupId(k)
  <2>1. \/ Moves(k, "none", ClosedByServer(conn[k]))
        \/ Moves(k, "return", ToClient(Received(k), Header("SERVER_ACK", counter')))
    BY <1>0, <1>2 DEF HandleRequestGroupId, Receives
  <2>. QED  BY <2>1, MovesInvariant
<1>3. CASE HandleSyncHeader(k) \/ HandleCommitHeader(k)
  <2>1. ASSUME HandleSyncHeader(k) PROVE Moves(k, "sync", Received(k))
    BY <1>0, <2>1 DEF HandleSyncHeader, Receives
  <2>2. ASSUME HandleCommitHeader(k) PROVE Moves(k, "commit", Received(k))
    BY <1>0, <2>2 DEF HandleCommitHeader, Receives
  <2>. QED  BY <1>3, <2>1, <2>2, MovesInvariant
<1>4. CASE HandleSync(k)
  <2>. DEFINE n == Cardinality(DOMAIN readBuffer.agents)
              r == ToClient(conn[k], Header("SERVER_ACK", n))
  <2>1. /\ handler[k].pc = "sync"
        /\ conn' = [conn EXCEPT ![k] = r]
        /\ \/ handler' = [handler EXCEPT ![k] = At("sync_data", 0, readBuffer.agents)]
           \/ handler' = [handler EXCEPT ![k] = At("return", 0, <<>>)]
        /\ UNCHANGED <<watch, globalState, readBuffer, lock>>
    BY <1>4 DEF HandleSync
  <2>2. Moves(k, "sync_data", r) \/ Moves(k, "return", r)
    BY <1>0, <2>1
  <2>. QED  BY <2>2, MovesInvariant
<1>5. CASE HandleSyncNull(k)
  BY <1>5, GoneInvariant DEF HandleSyncNull
<1>6. CASE HandleSyncData(k) \/ HandleCommit(k)
  <2>1. ASSUME HandleSyncData(k)
        PROVE  Moves(k, "return", ToClient(conn[k], Data(handler[k].agents)))
    BY <1>0, <2>1 DEF HandleSyncData
  <2>2. ASSUME HandleCommit(k)
        PROVE  Moves(k, "commit_data",
                     ToClient(conn[k], Header("SERVER_ACK", handler[k].count)))
    BY <1>0, <2>2 DEF HandleCommit
  <2>. QED  BY <1>6, <2>1, <2>2, MovesInvariant
<1>7. CASE HandleCommitData(k)
  <2>1. Moves(k, "apply", Received(k))
    BY <1>0, <1>7 DEF HandleCommitData
  <2>. QED  BY <2>1, MovesInvariant
<1>8. CASE HandleCommitLost(k)
  BY <1>8, CommitLostInvariant
<1>9. CASE HandlerIoFails(k)
  <2>1. Moves(k, "none", ClosedByServer(conn[k]))
    BY <1>0, <1>9 DEF HandlerIoFails
  <2>. QED  BY <2>1, MovesInvariant
<1>10. CASE HandleApply(k) \/ HandleSwap(k) \/ HandlerReturn(k)
  BY <1>10, ApplyInvariant, SwapInvariant, ReturnInvariant
<1>. QED  BY <1>1, <1>2, <1>3, <1>4, <1>5, <1>6, <1>7, <1>8, <1>9, <1>10 DEF HandlerStep

-----------------------------------------------------------------------------
(* The theorems. *)

\* The invariant holds at first, and every step keeps it.
LEMMA InitInvariant == Init => IInv
  BY ServerAssumption
     DEF Init, IInv, Shape, LockDiscipline, BufferConsistent, HandlerExclusive, Idle, At,
         FreeConn, ConnFields, NullBuffer

\* Every step keeps the invariant.
LEMMA NextInvariant == IInv /\ [Next]_vars => IInv'
<1>. SUFFICES ASSUME IInv, [Next]_vars PROVE IInv'
  OBVIOUS
<1>1. CASE \E c \in Clients : ClientNext(c)
  BY <1>1, ClientInvariant
<1>2. CASE \E k \in Conns : Accept(k) \/ Dispatch(k)
  BY <1>2, PoolInvariant
<1>3. CASE \E k \in Conns : HandlerStep(k)
  BY <1>3, HandlerInvariant
<1>4. CASE ExpiredAgentCheck \/ ExpiredAgentsSwap
  BY <1>4, ExpiryInvariant
<1>5. CASE ServerStop
  BY <1>5, GoneInvariant DEF ServerStop
<1>6. CASE ServerStart \/ Tick \/ UNCHANGED vars
  <2>1. UNCHANGED <<netVars, stateVars>>
    BY <1>6 DEF ServerStart, Tick, vars
  <2>. QED  BY <2>1 DEF netVars, stateVars, IInv, Shape, LockDiscipline, BufferConsistent,
                        HandlerExclusive
<1>. QED  BY <1>1, <1>2, <1>3, <1>4, <1>5, <1>6 DEF Next, ClientNext

\* The server's invariant, from which the theorems below are read off.
THEOREM Invariant == Spec => []IInv
  BY InitInvariant, NextInvariant, PTL DEF Spec

\* m_lock_global_state is held exactly by the handler between its change of the
\* global state and its swap of the read buffer, whatever the numbers of groups
\* and connections.
THEOREM LockIsDisciplined == Spec => []LockDiscipline
  BY Invariant, PTL DEF IInv

\* Outside the lock the read buffer equals the global state, also across stops
\* and starts of the server and with expiry interleaved.
THEOREM BufferIsConsistent == Spec => []BufferConsistent
  BY Invariant, PTL DEF IInv

\* No connection is ever selected while a handler works on it.
THEOREM HandlersAreExclusive == Spec => []HandlerExclusive
  BY Invariant, PTL DEF IInv

-----------------------------------------------------------------------------
(* The types of what is stored and sent. *)

\* An interface, of which only those of the expiring groups ever expire; maps of
\* them, and the variables' types with these.
Val == [round : 0..MaxRound, expires : IF Expiring = {} THEN {0} ELSE 0..MaxTime + Lifetime]
TMaps(K) == UNION {[S -> Val] : S \in SUBSET K}
TMap == TMaps(IdsOf(1..MaxGroups))
TClient ==
  [pc : ClientPc, gid : 0..MaxGroups, number : 0..MaxAgents,
   agents : TMaps(Numbers), conn : Conns \cup {NoConn},
   round : 0..MaxRound, synced : BOOLEAN, expect : Nat, session : 0..MaxSession]
TMessage == [op : Ops, n : Nat, agents : TMap]
TConn ==
  [owner : Clients \cup {NoClient}, c2s : Seq(TMessage), s2c : Seq(TMessage),
   client_open : BOOLEAN, server_open : BOOLEAN, accepted : BOOLEAN]
THandler == [pc : HandlerPc, count : Nat, agents : TMap]
Types ==
  /\ client \in [Clients -> TClient]
  /\ conn \in [Conns -> TConn]
  /\ watch \subseteq Conns
  /\ handler \in [Conns -> THandler]
  /\ globalState \in TMap
  /\ readBuffer \in [set : BOOLEAN, agents : TMap]
  /\ lock \in {"free", "main"} \cup Conns
  /\ counter \in Nat
  /\ up \in BOOLEAN
  /\ session \in 0..MaxSession
  /\ now \in 0..MaxTime

\* A map is one by its keys and its values.
LEMMA MapForm ==
  ASSUME NEW K, NEW m
  PROVE  m \in TMaps(K) <=> DOMAIN m \subseteq K /\ m \in [DOMAIN m -> Val]
<1>1. ASSUME m \in TMaps(K) PROVE DOMAIN m \subseteq K /\ m \in [DOMAIN m -> Val]
  <2>1. PICK S \in SUBSET K : m \in [S -> Val]
    BY <1>1 DEF TMaps
  <2>2. DOMAIN m = S
    BY <2>1
  <2>. QED  BY <2>1, <2>2
<1>2. ASSUME DOMAIN m \subseteq K, m \in [DOMAIN m -> Val] PROVE m \in TMaps(K)
  BY <1>2 DEF TMaps
<1>. QED  BY <1>1, <1>2

\* The empty map.
LEMMA EmptyMap == DOMAIN <<>> = {} /\ \A K : <<>> \in TMaps(K)
<1>1. DOMAIN <<>> = {} /\ <<>> \in [{} -> Val]
  OBVIOUS
<1>. QED  BY <1>1, MapForm

\* Agent ids are pairs of natural numbers, finitely many of them.
LEMMA Ids ==
  /\ IsFiniteSet(IdsOf(1..MaxGroups))
  /\ \A id \in IdsOf(1..MaxGroups) : id[1] \in 1..MaxGroups /\ id[2] \in Numbers /\ id \in IdType
  /\ \A g \in 1..MaxGroups, i \in Numbers : <<g, i>> \in IdsOf(1..MaxGroups)
<1>1. MaxGroups \in Nat /\ MaxAgents \in Nat
  BY ServerAssumption
<1>2. IsFiniteSet(1..MaxGroups) /\ IsFiniteSet(Numbers)
  BY <1>1, FS_Interval DEF Numbers
<1>3. IsFiniteSet(IdsOf(1..MaxGroups))
  BY <1>2, FS_Product DEF IdsOf
<1>. QED  BY <1>1, <1>3 DEF IdsOf, Numbers, IdType

\* A map has a number of entries, and none only if it is empty.
Size(m) == Cardinality(DOMAIN m)
LEMMA MapSize ==
  ASSUME NEW m \in TMap
  PROVE  IsFiniteSet(DOMAIN m) /\ Size(m) \in Nat /\ (Size(m) = 0 <=> DOMAIN m = {})
<1>1. DOMAIN m \subseteq IdsOf(1..MaxGroups)
  BY MapForm DEF TMap
<1>2. IsFiniteSet(DOMAIN m)
  BY <1>1, Ids, FS_Subset
<1>. QED  BY <1>2, FS_CardinalityType, FS_EmptySet DEF Size

\* What the server does to maps makes maps.
LEMMA MapOperators ==
  /\ \A m \in TMap : \A S : Drop(m, S) \in TMap
  /\ \A m \in TMap, a \in TMap : Merge(m, a) \in TMap
<1>1. ASSUME NEW m \in TMap, NEW S PROVE Drop(m, S) \in TMap
  <2>1. DOMAIN m \subseteq IdsOf(1..MaxGroups) /\ m \in [DOMAIN m -> Val]
    BY MapForm DEF TMap
  <2>2. Drop(m, S) \in [DOMAIN m \ S -> Val]
    BY <2>1 DEF Drop
  <2>. QED  BY <2>1, <2>2, MapForm DEF TMap
<1>2. ASSUME NEW m \in TMap, NEW a \in TMap PROVE Merge(m, a) \in TMap
  <2>1. /\ DOMAIN m \subseteq IdsOf(1..MaxGroups) /\ m \in [DOMAIN m -> Val]
        /\ DOMAIN a \subseteq IdsOf(1..MaxGroups) /\ a \in [DOMAIN a -> Val]
    BY MapForm DEF TMap
  <2>. DEFINE stale == {k \in DOMAIN m \ DOMAIN a :
                          /\ \E x \in DOMAIN a : Leq(GroupMask(x), k)
                          /\ \E x \in DOMAIN a : Less(k, x)}
  <2>2. Merge(m, a) = [k \in (DOMAIN m \ stale) \cup DOMAIN a |->
                         IF k \in DOMAIN a THEN a[k] ELSE m[k]]
    BY DEF Merge
  <2>. HIDE DEF stale
  <2>3. Merge(m, a) \in [(DOMAIN m \ stale) \cup DOMAIN a -> Val]
    BY <2>1, <2>2
  <2>. QED  BY <2>1, <2>3, MapForm DEF TMap
<1>. QED  BY <1>1, <1>2

\* A commit: agents of one group, at least one.
IsCommit(m) == m \in TMap /\ DOMAIN m # {} /\ \A a, b \in DOMAIN m : a[1] = b[1]

\* The interfaces of a group's agents, from its record: what Interfaces makes.
InterfacesOf(cl) == [id \in {cl.gid} \X DOMAIN cl.agents |-> cl.agents[id[2]]]
LEMMA InterfacesAreMap ==
  ASSUME NEW cl \in TClient, cl.gid # 0
  PROVE  /\ InterfacesOf(cl) \in TMap
         /\ DOMAIN InterfacesOf(cl) = {cl.gid} \X DOMAIN cl.agents
         /\ DOMAIN cl.agents # {} => IsCommit(InterfacesOf(cl))
<1>1. cl.gid \in 1..MaxGroups /\ cl.agents \in TMaps(Numbers)
  BY ServerAssumption DEF TClient
<1>2. DOMAIN cl.agents \subseteq Numbers /\ cl.agents \in [DOMAIN cl.agents -> Val]
  BY <1>1, MapForm
<1>3. InterfacesOf(cl) \in [{cl.gid} \X DOMAIN cl.agents -> Val]
  BY <1>2 DEF InterfacesOf
<1>4. {cl.gid} \X DOMAIN cl.agents \subseteq IdsOf(1..MaxGroups)
  BY <1>1, <1>2 DEF IdsOf
<1>5. InterfacesOf(cl) \in TMap
  BY <1>3, <1>4, MapForm DEF TMap
<1>6. DOMAIN InterfacesOf(cl) = {cl.gid} \X DOMAIN cl.agents
  BY <1>3
<1>7. ASSUME DOMAIN cl.agents # {} PROVE IsCommit(InterfacesOf(cl))
  <2>1. PICK i \in DOMAIN cl.agents : TRUE
    BY <1>7
  <2>2. <<cl.gid, i>> \in DOMAIN InterfacesOf(cl)
    BY <1>6, <2>1
  <2>3. \A a, b \in DOMAIN InterfacesOf(cl) : a[1] = b[1]
    BY <1>6
  <2>. QED  BY <1>5, <2>2, <2>3 DEF IsCommit
<1>. QED  BY <1>5, <1>6, <1>7

-----------------------------------------------------------------------------
(* Streams: queues of messages. *)

\* What the ends do to a queue: append, and take the head.
LEMMA Queue ==
  ASSUME NEW T, NEW s \in Seq(T), NEW m \in T
  PROVE  /\ Append(s, m) \in Seq(T) /\ Append(s, m) # <<>>
         /\ Len(Append(s, m)) = Len(s) + 1
         /\ \A i \in DOMAIN Append(s, m) :
              (i \in DOMAIN s /\ Append(s, m)[i] = s[i]) \/ Append(s, m)[i] = m
         /\ s = <<>> => Append(s, m) = <<m>>
         /\ s # <<>> => /\ Head(Append(s, m)) = Head(s)
                        /\ Tail(Append(s, m)) = Append(Tail(s), m)
<1>1. Append(s, m) \in Seq(T) /\ Append(s, m) # <<>> /\ Len(Append(s, m)) = Len(s) + 1
  BY AppendProperties
<1>2. \A i \in DOMAIN Append(s, m) :
        (i \in DOMAIN s /\ Append(s, m)[i] = s[i]) \/ Append(s, m)[i] = m
  OBVIOUS
<1>3. s = <<>> => Append(s, m) = <<m>>
  OBVIOUS
<1>. QED  BY <1>1, <1>2, <1>3, HeadTailAppend

\* A queue that is not empty has a head, and its tail is a queue.
LEMMA QueueTaken ==
  ASSUME NEW T, NEW s \in Seq(T), s # <<>>
  PROVE  /\ Head(s) \in T /\ Tail(s) \in Seq(T) /\ Len(s) \in Nat \ {0}
         /\ 1 \in DOMAIN s /\ s[1] = Head(s)
         /\ Len(Tail(s)) = Len(s) - 1
         /\ \A i \in DOMAIN Tail(s) : i + 1 \in DOMAIN s /\ Tail(s)[i] = s[i + 1]
         /\ Len(s) = 1 => Tail(s) = <<>>
         /\ Tail(s) = <<>> => Len(s) = 1 /\ DOMAIN s = {1}
<1>1. Head(s) \in T /\ Tail(s) \in Seq(T) /\ Len(s) \in Nat \ {0} /\ Len(Tail(s)) = Len(s) - 1
  OBVIOUS
<1>2. \A i \in DOMAIN Tail(s) : i + 1 \in DOMAIN s /\ Tail(s)[i] = s[i + 1]
  OBVIOUS
<1>3. 1 \in DOMAIN s /\ s[1] = Head(s)
  OBVIOUS
<1>4. ASSUME Len(s) = 1 PROVE Tail(s) = <<>>
  <2>1. Tail(s) \in Seq(T) /\ Len(Tail(s)) = 0
    BY <1>1, <1>4
  <2>. QED  BY <2>1, EmptySeq
<1>5. ASSUME Tail(s) = <<>> PROVE Len(s) = 1 /\ DOMAIN s = {1}
  <2>1. \A t : t = <<>> => Len(t) = 0
    BY EmptySeq
  <2>2. Len(Tail(s)) = 0
    BY <1>5, <2>1
  <2>. DEFINE n == Len(s)
  <2>3. n = 1
    <3>1. n \in Nat /\ 0 = n - 1
      BY <1>1, <2>2
    <3>. HIDE DEF n
    <3>. QED  BY <3>1
  <2>4. DOMAIN s = 1..Len(s)
    BY LenProperties
  <2>. QED  BY <2>3, <2>4
<1>. QED  BY <1>1, <1>2, <1>3, <1>4, <1>5

\* Queues of one and two messages.
LEMMA ShortQueues ==
  ASSUME NEW m, NEW n
  PROVE  /\ Head(<<m>>) = m /\ Tail(<<m>>) = <<>> /\ Len(<<m>>) = 1 /\ <<m>> # <<>>
         /\ Head(<<m, n>>) = m /\ Tail(<<m, n>>) = <<n>> /\ <<m, n>> # <<>>
         /\ Append(<<m>>, n) = <<m, n>>
<1>1. Head(<<m>>) = m /\ Len(<<m>>) = 1 /\ <<m>> # <<>> /\ Head(<<m, n>>) = m /\ <<m, n>> # <<>>
  OBVIOUS
<1>2. <<m>> \in Seq({m, n}) /\ <<m, n>> \in Seq({m, n})
  OBVIOUS
<1>3. Tail(<<m>>) = <<>>
  BY <1>1, <1>2, QueueTaken
<1>4. Append(<<m>>, n) = <<m, n>>
  <2>1. Append(<<m>>, n) \in Seq({m, n}) /\ Len(Append(<<m>>, n)) = 2
    BY <1>1, <1>2, AppendProperties
  <2>2. Append(<<m>>, n)[1] = m /\ Append(<<m>>, n)[2] = n
    BY <1>1, <1>2, AppendProperties
  <2>3. Len(<<m, n>>) = 2 /\ <<m, n>>[1] = m /\ <<m, n>>[2] = n
    OBVIOUS
  <2>4. \A i \in 1..2 : Append(<<m>>, n)[i] = <<m, n>>[i]
    BY <2>2, <2>3
  <2>. QED  BY <1>2, <2>1, <2>3, <2>4, SeqEqual
<1>5. Tail(Append(<<m>>, n)) = Append(Tail(<<m>>), n)
  BY <1>1, <1>2, HeadTailAppend
<1>6. Append(<<>>, n) = <<n>>
  OBVIOUS
<1>. QED  BY <1>1, <1>3, <1>4, <1>5, <1>6

\* Headers and data are messages; a header carries no agents.
LEMMA Messages ==
  /\ \A op \in Ops, n \in Nat :
       Header(op, n) \in TMessage /\ Header(op, n).op = op /\ Header(op, n).n = n
                                  /\ Header(op, n).agents = <<>>
  /\ \A m \in TMap : Data(m) \in TMessage /\ Data(m).op = "DATA" /\ Data(m).agents = m
<1>1. <<>> \in TMap
  BY EmptyMap DEF TMap
<1>. QED  BY <1>1 DEF Header, Data, TMessage, Ops

-----------------------------------------------------------------------------
(* What the ends of a connection make of it. *)

\* The fields of a connection.
LEMMA ConnFieldTypes ==
  ASSUME NEW r \in TConn
  PROVE  /\ r.owner \in Clients \cup {NoClient}
         /\ r.c2s \in Seq(TMessage) /\ r.s2c \in Seq(TMessage)
         /\ r.client_open \in BOOLEAN /\ r.server_open \in BOOLEAN /\ r.accepted \in BOOLEAN
  BY DEF TConn

\* A connection nobody has.
LEMMA Free ==
  /\ FreeConn \in TConn /\ FreeConn.c2s = <<>> /\ FreeConn.s2c = <<>>
  /\ ~FreeConn.client_open /\ ~FreeConn.server_open
<1>1. <<>> \in Seq(TMessage)
  BY EmptySeq
<1>. QED  BY <1>1 DEF FreeConn, TConn

\* Sending to the server.
LEMMA Sending ==
  ASSUME NEW r \in TConn, NEW m \in TMessage
  PROVE  /\ ToServer(r, m) \in TConn
         /\ ToServer(r, m).c2s = IF r.server_open THEN Append(r.c2s, m) ELSE r.c2s
         /\ ToServer(r, m).s2c = r.s2c /\ ToServer(r, m).owner = r.owner
         /\ ToServer(r, m).client_open = r.client_open
         /\ ToServer(r, m).server_open = r.server_open
<1>1. Append(r.c2s, m) \in Seq(TMessage)
  BY ConnFieldTypes, Queue
<1>2. CASE r.server_open
  <2>1. ToServer(r, m) = [r EXCEPT !.c2s = Append(r.c2s, m)]
    BY <1>2 DEF ToServer
  <2>. DEFINE q == Append(r.c2s, m)
  <2>. HIDE DEF q
  <2>. QED  BY <1>1, <1>2, <2>1 DEF TConn, q
<1>3. CASE ~r.server_open
  BY <1>3 DEF ToServer
<1>. QED  BY <1>2, <1>3

\* Replying to the client.
LEMMA Replying ==
  ASSUME NEW r \in TConn, NEW m \in TMessage
  PROVE  /\ ToClient(r, m) \in TConn
         /\ ToClient(r, m).s2c = IF r.client_open THEN Append(r.s2c, m) ELSE r.s2c
         /\ ToClient(r, m).c2s = r.c2s /\ ToClient(r, m).owner = r.owner
         /\ ToClient(r, m).client_open = r.client_open
         /\ ToClient(r, m).server_open = r.server_open
<1>1. Append(r.s2c, m) \in Seq(TMessage)
  BY ConnFieldTypes, Queue
<1>2. CASE r.client_open
  <2>1. ToClient(r, m) = [r EXCEPT !.s2c = Append(r.s2c, m)]
    BY <1>2 DEF ToClient
  <2>. DEFINE q == Append(r.s2c, m)
  <2>. HIDE DEF q
  <2>. QED  BY <1>1, <1>2, <2>1 DEF TConn, q
<1>3. CASE ~r.client_open
  BY <1>3 DEF ToClient
<1>. QED  BY <1>2, <1>3

\* Closing either end.
LEMMA Closing ==
  ASSUME NEW r \in TConn
  PROVE  /\ ClosedByClient(r) \in TConn
         /\ ~ClosedByClient(r).client_open /\ ClosedByClient(r).s2c = <<>>
         /\ ClosedByClient(r).server_open = r.server_open
         /\ ClosedByClient(r).c2s = IF r.server_open THEN r.c2s ELSE <<>>
         /\ ClosedByServer(r) \in TConn
         /\ ~ClosedByServer(r).server_open /\ ClosedByServer(r).c2s = <<>>
         /\ ClosedByServer(r).client_open = r.client_open
         /\ ClosedByServer(r).s2c = IF r.client_open THEN r.s2c ELSE <<>>
         /\ r.client_open => ClosedByServer(r).owner = r.owner
<1>1. <<>> \in Seq(TMessage)
  BY EmptySeq
<1>. QED  BY <1>1, Free DEF ClosedByClient, ClosedByServer, TConn

\* Taking the head of a queue.
LEMMA Taking ==
  ASSUME NEW r \in TConn
  PROVE  LET a == [r EXCEPT !.c2s = Tail(@)]
             b == [r EXCEPT !.s2c = Tail(@)]
         IN /\ r.c2s # <<>> =>
                 /\ a \in TConn /\ a.c2s = Tail(r.c2s) /\ a.s2c = r.s2c /\ a.owner = r.owner
                 /\ a.client_open = r.client_open /\ a.server_open = r.server_open
            /\ r.s2c # <<>> =>
                 /\ b \in TConn /\ b.s2c = Tail(r.s2c) /\ b.c2s = r.c2s /\ b.owner = r.owner
                 /\ b.client_open = r.client_open /\ b.server_open = r.server_open
<1>1. /\ r.c2s # <<>> => Tail(r.c2s) \in Seq(TMessage)
      /\ r.s2c # <<>> => Tail(r.s2c) \in Seq(TMessage)
  BY ConnFieldTypes, QueueTaken
<1>. DEFINE q == Tail(r.c2s)
            p == Tail(r.s2c)
<1>. HIDE DEF q, p
<1>2. /\ [r EXCEPT !.c2s = Tail(@)] = [r EXCEPT !.c2s = q]
      /\ [r EXCEPT !.s2c = Tail(@)] = [r EXCEPT !.s2c = p]
  BY DEF q, p
<1>3. /\ r.c2s # <<>> => q \in Seq(TMessage)
      /\ r.s2c # <<>> => p \in Seq(TMessage)
  BY <1>1 DEF q, p
<1>. QED  BY <1>2, <1>3 DEF TConn, q, p

-----------------------------------------------------------------------------
(* The protocol: what a group, its connection and the handler at work on it *)
(* know of each other.                                                      *)

\* A handler between two requests.
Resting == {"none", "return", "header"}
Ack(n) == Header("SERVER_ACK", n)
SyncRequest == Header("AGENT_SYNC_ALL", 0)

\* A commit is sent and nobody tells its group how far it is: the agents are in
\* the stream, in the hands of the handler, or applied.  rest is what follows.
Writing(cl, co, ha, rest) ==
  /\ co.s2c = <<>>
  /\ \/ /\ ha.pc = "commit_data"
        /\ co.c2s # <<>>
        /\ Head(co.c2s) = Data(InterfacesOf(cl)) /\ Tail(co.c2s) = rest
     \/ ha.pc = "apply" /\ ha.agents = InterfacesOf(cl) /\ co.c2s = rest
     \/ ha.pc \in Resting \cup {"swap"} /\ co.c2s = rest

\* How far the reply to a sync is.
Answered(co, ha) ==
  \/ ha.pc = "sync" /\ co.s2c = <<>>
  \/ ha.pc = "sync_data" /\ Size(ha.agents) > 0 /\ co.s2c = <<Ack(Size(ha.agents))>>
  \/ ha.pc \in Resting /\ co.s2c = <<Ack(0)>>
  \/ ha.pc \in Resting /\ \E m \in TMap : Size(m) > 0 /\ co.s2c = <<Ack(Size(m)), Data(m)>>
  \/ ~co.server_open /\ (co.s2c = <<>> \/ \E n \in Nat : co.s2c = <<Ack(n)>>)

\* The group cl, its connection co and the handler ha there.
AwaitId(co, ha) ==
  /\ ha.pc \in Resting
  /\ \/ co.c2s = <<Header("REQUEST_GROUP_ID", 0)>> /\ co.s2c = <<>>
     \/ co.c2s = <<>> /\ \E n \in 1..MaxGroups : co.s2c = <<Ack(n)>>
     \/ co.c2s = <<>> /\ co.s2c = <<>> /\ ~co.server_open
AwaitCommit(co, ha) ==
  \/ ha.pc \in Resting /\ co.s2c = <<>> /\ \E n \in Nat : co.c2s = <<Header("AGENT_COMMIT", n)>>
  \/ ha.pc = "commit" /\ co.s2c = <<>> /\ co.c2s = <<>>
  \/ ha.pc = "commit_data" /\ co.c2s = <<>> /\ \E n \in Nat : co.s2c = <<Ack(n)>>
  \/ ~co.server_open /\ co.c2s = <<>> /\ (co.s2c = <<>> \/ \E n \in Nat : co.s2c = <<Ack(n)>>)
AwaitSync(cl, co, ha) ==
  Writing(cl, co, ha, <<SyncRequest>>) \/ (co.c2s = <<>> /\ Answered(co, ha))
AwaitAgents(cl, co, ha) ==
  /\ co.c2s = <<>>
  /\ \/ ha.pc = "sync_data" /\ Size(ha.agents) = cl.expect /\ co.s2c = <<>>
     \/ ha.pc \in Resting /\ \E m \in TMap : Size(m) = cl.expect /\ co.s2c = <<Data(m)>>
     \/ ~co.server_open /\ co.s2c = <<>>
Live(cl, co, ha) ==
  /\ cl.pc # "off"
  /\ cl.pc \in {"commit", "process"} => ha.pc \in Resting /\ co.c2s = <<>> /\ co.s2c = <<>>
  /\ cl.pc = "await_id" => AwaitId(co, ha)
  /\ cl.pc = "await_commit" => AwaitCommit(co, ha)
  /\ cl.pc \in {"sync", "disconnect"} => Writing(cl, co, ha, <<>>)
  /\ cl.pc = "await_sync" => AwaitSync(cl, co, ha)
  /\ cl.pc = "await_agents" => AwaitAgents(cl, co, ha)

\* What holds of a group by itself.
ClientState(cl) ==
  /\ cl.pc = "off" => cl = Off
  /\ cl.pc \notin {"off", "sync"} => cl.conn # NoConn
  /\ cl.pc = "sync" /\ cl.conn = NoConn => cl.synced
  /\ cl.pc = "disconnect" => cl.synced
  /\ cl.pc \notin {"off", "await_id"} => cl.gid # 0
  /\ cl.pc \in {"await_sync", "await_agents", "process"} => cl.round < MaxRound
  /\ cl.pc = "await_commit" => DOMAIN cl.agents # {}

\* And of a connection whose group may be gone: a request that has a reply is
\* alone in its stream, and what follows a commit's header is a commit.
Stream(co, ha) ==
  /\ ~co.server_open => co.c2s = <<>>
  /\ ~co.client_open => co.s2c = <<>>
  /\ \A i \in DOMAIN co.c2s :
       co.c2s[i].op \in {"REQUEST_GROUP_ID", "AGENT_COMMIT"} => Len(co.c2s) = 1
  /\ ha.pc = "commit" => co.c2s = <<>>
  /\ ha.pc = "apply" => IsCommit(ha.agents)
  /\ ha.pc = "commit_data" /\ co.c2s # <<>> => IsCommit(Head(co.c2s).agents)

ClientOK(c) ==
  /\ ClientState(client[c])
  /\ client[c].conn # NoConn =>
       conn[client[c].conn].client_open /\ conn[client[c].conn].owner = c
ConnOK(k) ==
  /\ Stream(conn[k], handler[k])
  /\ conn[k].client_open =>
       /\ conn[k].owner \in Clients
       /\ client[conn[k].owner].conn = k
       /\ Live(client[conn[k].owner], conn[k], handler[k])
Protocol ==
  /\ \A c \in Clients : ClientOK(c)
  /\ \A k \in Conns : ConnOK(k)
  /\ counter + PendingIds <= MaxGroups

\* The invariant of the exchange.
PInv == Types /\ IInv /\ Protocol

\* Whether a request for a group id is in the stream.
Requesting(co) == \E i \in DOMAIN co.c2s : co.c2s[i].op = "REQUEST_GROUP_ID"

\* A step on one connection changes the number of such requests by at most one.
LEMMA Pending ==
  ASSUME NEW k \in Conns, NEW co, DOMAIN conn = Conns, conn' = [conn EXCEPT ![k] = co]
  PROVE  /\ PendingIds \in Nat /\ PendingIds' \in Nat
         /\ PendingIds' <= PendingIds + 1
         /\ (Requesting(co) => Requesting(conn[k])) => PendingIds' <= PendingIds
         /\ Requesting(conn[k]) => PendingIds >= 1
         /\ Requesting(conn[k]) /\ ~Requesting(co) => PendingIds' <= PendingIds - 1
<1>. DEFINE P == {j \in Conns : Requesting(conn[j])}
            Q == {j \in Conns : Requesting(conn'[j])}
<1>1. PendingIds = Cardinality(P) /\ PendingIds' = Cardinality(Q)
  BY DEF PendingIds, Requesting
<1>2. conn'[k] = co /\ \A j \in Conns \ {k} : conn'[j] = conn[j]
  OBVIOUS
<1>3. /\ Q \subseteq P \cup {k}
      /\ (Requesting(co) => Requesting(conn[k])) => Q \subseteq P
      /\ Requesting(conn[k]) => k \in P
      /\ ~Requesting(co) => Q \subseteq P \ {k}
  BY <1>2
<1>. HIDE DEF P, Q
<1>4. IsFiniteSet(P) /\ IsFiniteSet(Q)
  BY ServerAssumption, FS_Subset DEF P, Q
<1>5. Cardinality(P) \in Nat /\ Cardinality(Q) \in Nat
  BY <1>4, FS_CardinalityType
<1>6. /\ IsFiniteSet(P \cup {k}) /\ IsFiniteSet(P \ {k})
      /\ Cardinality(P \cup {k}) <= Cardinality(P) + 1
      /\ k \in P => Cardinality(P \ {k}) = Cardinality(P) - 1
  <2>1. Cardinality(P \cup {k}) = IF k \in P THEN Cardinality(P) ELSE Cardinality(P) + 1
    BY <1>4, FS_AddElement
  <2>2. Cardinality(P \ {k}) = IF k \in P THEN Cardinality(P) - 1 ELSE Cardinality(P)
    BY <1>4, FS_RemoveElement
  <2>3. IsFiniteSet(P \cup {k}) /\ IsFiniteSet(P \ {k})
    BY <1>4, FS_AddElement, FS_RemoveElement
  <2>. QED  BY <1>5, <2>1, <2>2, <2>3
<1>7. k \in P => Cardinality(P) >= 1
  BY <1>4, <1>5, FS_EmptySet
<1>8. /\ Cardinality(Q) <= Cardinality(P \cup {k})
      /\ Q \subseteq P => Cardinality(Q) <= Cardinality(P)
      /\ Q \subseteq P \ {k} => Cardinality(Q) <= Cardinality(P \ {k})
  BY <1>3, <1>4, <1>6, FS_Subset
<1>9. Cardinality(P \cup {k}) \in Nat /\ Cardinality(P \ {k}) \in Nat
  BY <1>6, FS_CardinalityType
<1>. QED  BY <1>1, <1>3, <1>5, <1>6, <1>7, <1>8, <1>9

\* A step of group c that makes cl of it and co of connection k, its own or a
\* new one, keeps the protocol if the two, and the handler there, fit together.
LEMMA ClientMoves ==
  ASSUME PInv, NEW c \in Clients, NEW k \in Conns, NEW cl \in TClient, NEW co \in TConn,
         serverUnchanged,
         client' = [client EXCEPT ![c] = cl],
         conn' = [conn EXCEPT ![k] = co],
         client[c].conn = k \/ (client[c].conn = NoConn /\ ~conn[k].client_open),
         ClientState(cl),
         \/ cl.conn = k /\ co.client_open /\ co.owner = c /\ Live(cl, co, handler[k])
         \/ cl.conn = NoConn /\ ~co.client_open,
         Stream(co, handler[k]),
         counter + PendingIds' <= MaxGroups
  PROVE  Types' /\ Protocol'
<1>. USE DEF PInv
<1>1. UNCHANGED <<watch, handler, globalState, readBuffer, lock, counter, up, session, now>>
  BY DEF serverUnchanged, stateVars, procVars
<1>2. client \in [Clients -> TClient] /\ conn \in [Conns -> TConn]
  BY DEF Types
<1>3. Types'
  BY <1>1, <1>2 DEF Types
<1>4. /\ client'[c] = cl /\ \A d \in Clients \ {c} : client'[d] = client[d]
      /\ conn'[k] = co /\ \A j \in Conns \ {k} : conn'[j] = conn[j]
  BY <1>2
<1>5. ASSUME NEW d \in Clients PROVE ClientOK(d)'
  <2>1. CASE d = c
    <3>1. ClientState(client'[d])
      BY <1>4, <2>1
    <3>2. cl.conn # NoConn => cl.conn = k /\ conn'[k].client_open /\ conn'[k].owner = c
      BY <1>4
    <3>. QED  BY <1>4, <2>1, <3>1, <3>2 DEF ClientOK
  <2>2. CASE d # c
    <3>1. ClientOK(d)
      BY DEF Protocol
    <3>2. client[d].conn \in Conns \cup {NoConn}
      BY <1>2 DEF TClient
    <3>3. client[d].conn # k
      <4>1. SUFFICES ASSUME client[d].conn = k PROVE FALSE
        OBVIOUS
      <4>2. k # NoConn
        BY ServerAssumption
      <4>3. conn[k].client_open /\ conn[k].owner = d
        BY <3>1, <4>1, <4>2 DEF ClientOK
      <4>4. client[c].conn = k
        BY <4>3
      <4>5. conn[k].owner = c
        BY <4>2, <4>4 DEF Protocol, ClientOK
      <4>. QED  BY <2>2, <4>3, <4>5
    <3>4. client'[d] = client[d]
      BY <1>4, <2>2
    <3>5. client[d].conn # NoConn => conn'[client[d].conn] = conn[client[d].conn]
      BY <1>4, <3>2, <3>3
    <3>. QED  BY <3>1, <3>4, <3>5 DEF ClientOK
  <2>. QED  BY <2>1, <2>2
<1>6. ASSUME NEW j \in Conns PROVE ConnOK(j)'
  <2>1. CASE j = k
    <3>1. Stream(conn'[j], handler'[j])
      BY <1>1, <1>4, <2>1
    <3>2. ASSUME co.client_open
          PROVE  co.owner = c /\ client'[c].conn = k /\ Live(client'[c], conn'[k], handler'[k])
      BY <1>1, <1>4, <3>2
    <3>. QED  BY <1>4, <2>1, <3>1, <3>2 DEF ConnOK
  <2>2. CASE j # k
    <3>1. ConnOK(j)
      BY DEF Protocol
    <3>2. conn'[j] = conn[j] /\ handler'[j] = handler[j]
      BY <1>1, <1>4, <2>2
    <3>3. ASSUME conn[j].client_open PROVE conn[j].owner # c
      <4>1. client[conn[j].owner].conn = j
        BY <3>1, <3>3 DEF ConnOK
      <4>2. client[c].conn # j
        BY <2>2, ServerAssumption
      <4>. QED  BY <4>1, <4>2
    <3>4. ASSUME conn[j].client_open
          PROVE  conn[j].owner \in Clients /\ client'[conn[j].owner] = client[conn[j].owner]
      BY <1>4, <3>1, <3>3, <3>4 DEF ConnOK
    <3>. QED  BY <3>1, <3>2, <3>4 DEF ConnOK
  <2>. QED  BY <2>1, <2>2
<1>. QED  BY <1>1, <1>3, <1>5, <1>6 DEF Protocol

\* A group process that does not run.
LEMMA OffState == Off \in TClient /\ ClientState(Off) /\ Off.conn = NoConn
<1>1. <<>> \in TMaps(Numbers)
  BY EmptyMap
<1>2. 0 \in 0..MaxGroups /\ 0 \in 0..MaxAgents /\ 0 \in 0..MaxRound /\ 0 \in 0..MaxSession
  BY ServerAssumption
<1>3. Off \in TClient
  BY <1>1, <1>2 DEF Off, TClient, ClientPc
<1>. QED  BY <1>3 DEF Off, ClientState

\* A group that ends without a connection keeps it.
LEMMA ClientEnds ==
  ASSUME PInv, NEW c \in Clients, client[c].conn = NoConn, serverUnchanged,
         client' = [client EXCEPT ![c] = Off], conn' = conn
  PROVE  Types' /\ Protocol'
<1>. USE DEF PInv
<1>1. UNCHANGED <<conn, watch, handler, globalState, readBuffer, lock, counter, up, session, now>>
  BY DEF serverUnchanged, stateVars, procVars
<1>2. client \in [Clients -> TClient] /\ conn \in [Conns -> TConn]
  BY DEF Types
<1>3. Off \in TClient /\ ClientState(Off) /\ Off.conn = NoConn
  BY OffState
<1>4. Types'
  BY <1>1, <1>2, <1>3 DEF Types
<1>5. client'[c] = Off /\ \A d \in Clients \ {c} : client'[d] = client[d]
  BY <1>2
<1>6. ASSUME NEW d \in Clients PROVE ClientOK(d)'
  BY <1>1, <1>3, <1>5 DEF Protocol, ClientOK
<1>7. ASSUME NEW j \in Conns PROVE ConnOK(j)'
  <2>1. ConnOK(j) /\ conn[j].client_open => conn[j].owner # c
    BY ServerAssumption DEF ConnOK
  <2>2. ConnOK(j)
    BY DEF Protocol
  <2>3. conn[j].client_open => client'[conn[j].owner] = client[conn[j].owner]
    BY <1>5, <2>1, <2>2 DEF ConnOK
  <2>. QED  BY <1>1, <2>2, <2>3 DEF ConnOK
<1>8. PendingIds' = PendingIds
  BY <1>1 DEF PendingIds
<1>. QED  BY <1>1, <1>4, <1>6, <1>7, <1>8 DEF Protocol

\* A step of the server on connection k, which it leaves co, with its handler
\* ha, keeps the protocol if the group there fits both.
LEMMA HandlerMoves ==
  ASSUME PInv, NEW k \in Conns, NEW ha \in THandler, NEW co \in TConn,
         client' = client, session' = session, now' = now, up' = up,
         handler' = [handler EXCEPT ![k] = ha],
         conn' = [conn EXCEPT ![k] = co],
         watch' \subseteq Conns, globalState' \in TMap,
         readBuffer' \in [set : BOOLEAN, agents : TMap],
         lock' \in {"free", "main"} \cup Conns, counter' \in Nat,
         co.client_open = conn[k].client_open,
         co.client_open => co.owner = conn[k].owner,
         Stream(co, ha),
         conn[k].client_open /\ Live(client[conn[k].owner], conn[k], handler[k])
           => Live(client[conn[k].owner], co, ha),
         counter' + PendingIds' <= MaxGroups
  PROVE  Types' /\ Protocol'
<1>. USE DEF PInv
<1>1. conn \in [Conns -> TConn] /\ handler \in [Conns -> THandler]
  BY DEF Types
<1>2. Types'
  BY <1>1 DEF Types
<1>3. /\ handler'[k] = ha /\ \A j \in Conns \ {k} : handler'[j] = handler[j]
      /\ conn'[k] = co /\ \A j \in Conns \ {k} : conn'[j] = conn[j]
  BY <1>1
<1>4. \A j \in Conns : conn'[j].client_open = conn[j].client_open
                       /\ (conn[j].client_open => conn'[j].owner = conn[j].owner)
  BY <1>3
<1>5. ASSUME NEW d \in Clients PROVE ClientOK(d)'
  <2>1. ClientOK(d)
    BY DEF Protocol
  <2>2. client[d].conn \in Conns \cup {NoConn}
    BY DEF Types, TClient
  <2>. QED  BY <1>4, <2>1, <2>2 DEF ClientOK
<1>6. ASSUME NEW j \in Conns PROVE ConnOK(j)'
  <2>1. ConnOK(j)
    BY DEF Protocol
  <2>2. CASE j = k
    <3>1. Stream(conn'[j], handler'[j])
      BY <1>3, <2>2
    <3>2. ASSUME conn[k].client_open
          PROVE  /\ conn[k].owner \in Clients /\ client[conn[k].owner].conn = k
                 /\ Live(client[conn[k].owner], co, ha)
      BY <2>1, <2>2, <3>2 DEF ConnOK
    <3>. QED  BY <1>3, <2>2, <3>1, <3>2 DEF ConnOK
  <2>3. CASE j # k
    BY <1>3, <2>1, <2>3 DEF ConnOK
  <2>. QED  BY <2>2, <2>3
<1>. QED  BY <1>2, <1>5, <1>6 DEF Protocol

\* What a group knows does not depend on which of the resting states the
\* handler of its connection is in.
LEMMA LiveResting ==
  ASSUME NEW cl, NEW co, NEW ha, NEW co2, NEW ha2, Live(cl, co, ha),
         ha.pc \in Resting, ha2.pc \in Resting, co2.c2s = co.c2s, co2.s2c = co.s2c,
         co2.server_open = co.server_open
  PROVE  Live(cl, co2, ha2)
<1>1. /\ ha.pc \notin {"commit_data", "apply", "swap", "sync", "sync_data", "commit"}
      /\ ha2.pc \notin {"commit_data", "apply", "swap", "sync", "sync_data", "commit"}
  BY DEF Resting
<1>2. \A rest : Writing(cl, co, ha, rest) => Writing(cl, co2, ha2, rest)
  BY <1>1 DEF Writing
<1>3. Answered(co, ha) => Answered(co2, ha2)
  BY <1>1 DEF Answered
<1>4. AwaitId(co, ha) => AwaitId(co2, ha2)
  BY DEF AwaitId
<1>5. AwaitCommit(co, ha) => AwaitCommit(co2, ha2)
  BY <1>1 DEF AwaitCommit
<1>6. AwaitSync(cl, co, ha) => AwaitSync(cl, co2, ha2)
  BY <1>2, <1>3 DEF AwaitSync
<1>7. AwaitAgents(cl, co, ha) => AwaitAgents(cl, co2, ha2)
  BY <1>1 DEF AwaitAgents
<1>. QED  BY <1>2, <1>4, <1>5, <1>6, <1>7 DEF Live

\* When the server closes the connection its group may still read what was sent.
LEMMA LiveClosed ==
  ASSUME NEW cl, NEW co, NEW ha \in THandler, NEW co2, NEW ha2, Live(cl, co, ha),
         ha2.pc = "none", co2.c2s = <<>>, co2.s2c = co.s2c, ~co2.server_open
  PROVE  Live(cl, co2, ha2)
<1>0. ha2.pc \in Resting
  BY DEF Resting
<1>1. \A rest : Writing(cl, co, ha, rest) => Writing(cl, co2, ha2, <<>>) /\ co2.s2c = <<>>
  BY <1>0 DEF Writing
<1>2. Answered(co, ha) => Answered(co2, ha2)
  <2>1. ha.agents \in TMap
    BY DEF THandler
  <2>2. Size(ha.agents) \in Nat
    BY <2>1, MapSize
  <2>. QED  BY <1>0, <2>2 DEF Answered
<1>3. AwaitId(co, ha) => AwaitId(co2, ha2)
  BY <1>0 DEF AwaitId
<1>4. AwaitCommit(co, ha) => AwaitCommit(co2, ha2)
  BY <1>0 DEF AwaitCommit
<1>5. AwaitSync(cl, co, ha) => AwaitSync(cl, co2, ha2)
  <2>1. co2.s2c = <<>> => Answered(co2, ha2)
    BY DEF Answered
  <2>. QED  BY <1>1, <1>2, <2>1 DEF AwaitSync
<1>6. AwaitAgents(cl, co, ha) => AwaitAgents(cl, co2, ha2)
  BY <1>0 DEF AwaitAgents
<1>. QED  BY <1>0, <1>1, <1>3, <1>4, <1>5, <1>6 DEF Live

\* The end of the server keeps the protocol.
LEMMA GoneProtocol ==
  ASSUME PInv, ServerGone
  PROVE  Types' /\ Protocol'
<1>. USE DEF PInv
<1>1. conn \in [Conns -> TConn] /\ handler \in [Conns -> THandler]
  BY DEF Types
<1>2. /\ client' = client /\ session' = session /\ now' = now /\ up' = FALSE /\ watch' = {}
      /\ globalState' = <<>> /\ readBuffer' = NullBuffer /\ lock' = "free" /\ counter' = 0
      /\ handler' = [k \in Conns |-> Idle]
  BY DEF ServerGone
<1>3. \A k \in Conns : conn'[k] = IF conn[k].server_open THEN ClosedByServer(conn[k]) ELSE conn[k]
  BY DEF ServerGone
<1>4. \A k \in Conns :
        /\ conn'[k] \in TConn /\ ~conn'[k].server_open /\ conn'[k].c2s = <<>>
        /\ conn'[k].client_open = conn[k].client_open
        /\ ~conn[k].client_open => conn'[k].s2c = <<>>
        /\ conn[k].client_open => conn'[k].owner = conn[k].owner /\ conn'[k].s2c = conn[k].s2c
  <2>. SUFFICES ASSUME NEW k \in Conns
                PROVE  /\ conn'[k] \in TConn /\ ~conn'[k].server_open /\ conn'[k].c2s = <<>>
                       /\ conn'[k].client_open = conn[k].client_open
                       /\ ~conn[k].client_open => conn'[k].s2c = <<>>
                       /\ conn[k].client_open =>
                            conn'[k].owner = conn[k].owner /\ conn'[k].s2c = conn[k].s2c
    OBVIOUS
  <2>1. conn[k] \in TConn /\ Stream(conn[k], handler[k])
    BY <1>1 DEF Protocol, ConnOK
  <2>2. ~conn[k].server_open => conn[k].c2s = <<>>
    BY <2>1 DEF Stream
  <2>3. ~conn[k].client_open => conn[k].s2c = <<>>
    BY <2>1 DEF Stream
  <2>. QED  BY <1>3, <2>1, <2>2, <2>3, Closing
<1>5. <<>> \in TMap
  BY EmptyMap DEF TMap
<1>6. Idle \in THandler /\ Idle.pc = "none"
  BY <1>5 DEF Idle, At, THandler, HandlerPc
<1>7. conn' \in [Conns -> TConn]
  BY <1>4 DEF ServerGone
<1>8. Types'
  BY <1>2, <1>5, <1>6, <1>7 DEF Types, NullBuffer
<1>9. ASSUME NEW d \in Clients PROVE ClientOK(d)'
  <2>1. ClientOK(d)
    BY DEF Protocol
  <2>2. client[d].conn \in Conns \cup {NoConn}
    BY DEF Types, TClient
  <2>. QED  BY <1>2, <1>4, <2>1, <2>2 DEF ClientOK
<1>10. ASSUME NEW j \in Conns PROVE ConnOK(j)'
  <2>1. ConnOK(j)
    BY DEF Protocol
  <2>2. handler'[j] = Idle /\ DOMAIN <<>> = {}
    BY <1>2, EmptyMap
  <2>3. Stream(conn'[j], handler'[j])
    BY <1>4, <1>6, <2>2 DEF Stream
  <2>4. ASSUME conn[j].client_open PROVE Live(client[conn[j].owner], conn'[j], handler'[j])
    <3>1. Live(client[conn[j].owner], conn[j], handler[j])
      BY <2>1, <2>4 DEF ConnOK
    <3>2. handler[j] \in THandler
      BY <1>1
    <3>. QED  BY <1>4, <1>6, <2>2, <2>4, <3>1, <3>2, LiveClosed
  <2>. QED  BY <1>2, <1>4, <2>1, <2>3, <2>4 DEF ConnOK
<1>11. PendingIds' = 0
  <2>1. {k \in Conns : \E i \in DOMAIN conn'[k].c2s :
            conn'[k].c2s[i].op = "REQUEST_GROUP_ID"} = {}
    BY <1>4, EmptyMap
  <2>. QED  BY <2>1, FS_EmptySet DEF PendingIds
<1>. QED  BY <1>2, <1>8, <1>9, <1>10, <1>11, ServerAssumption DEF Protocol

-----------------------------------------------------------------------------
(* The groups keep the protocol. *)

\* A group with a connection and the handler there know of each other.
LEMMA Mine ==
  ASSUME PInv, NEW c \in Clients, client[c].conn # NoConn
  PROVE  LET k == client[c].conn
         IN /\ k \in Conns /\ conn[k] \in TConn /\ handler[k] \in THandler
            /\ conn[k].client_open /\ conn[k].owner = c
            /\ Live(client[c], conn[k], handler[k]) /\ Stream(conn[k], handler[k])
<1>1. client[c].conn \in Conns
  BY DEF PInv, Types, TClient
<1>2. conn[client[c].conn] \in TConn /\ handler[client[c].conn] \in THandler
  BY <1>1 DEF PInv, Types
<1>3. conn[client[c].conn].client_open /\ conn[client[c].conn].owner = c
  BY DEF PInv, Protocol, ClientOK
<1>4. ConnOK(client[c].conn)
  BY <1>1 DEF PInv, Protocol
<1>. QED  BY <1>1, <1>2, <1>3, <1>4 DEF ConnOK

\* Nothing but a request for a group id makes one.
LEMMA NotRequesting ==
  /\ \A r \in TConn, m \in TMessage :
       m.op # "REQUEST_GROUP_ID" /\ Requesting(ToServer(r, m)) => Requesting(r)
  /\ \A r \in TConn : Requesting(ClosedByClient(r)) \/ Requesting(ClosedByServer(r)) => Requesting(r)
  /\ \A r, q : q.c2s = r.c2s => Requesting(q) = Requesting(r)
<1>1. ASSUME NEW r \in TConn, NEW m \in TMessage, m.op # "REQUEST_GROUP_ID",
             Requesting(ToServer(r, m))
      PROVE  Requesting(r)
  <2>1. r.c2s \in Seq(TMessage)
    BY ConnFieldTypes
  <2>2. CASE r.server_open
    <3>1. ToServer(r, m).c2s = Append(r.c2s, m)
      BY <2>2, Sending
    <3>2. PICK i \in DOMAIN Append(r.c2s, m) : Append(r.c2s, m)[i].op = "REQUEST_GROUP_ID"
      BY <1>1, <3>1 DEF Requesting
    <3>3. i \in DOMAIN r.c2s /\ Append(r.c2s, m)[i] = r.c2s[i]
      BY <1>1, <2>1, <3>2, Queue
    <3>. QED  BY <3>2, <3>3 DEF Requesting
  <2>3. CASE ~r.server_open
    BY <1>1, <2>3 DEF ToServer
  <2>. QED  BY <2>2, <2>3
<1>2. ASSUME NEW r \in TConn, Requesting(ClosedByClient(r)) \/ Requesting(ClosedByServer(r))
      PROVE  Requesting(r)
  <2>1. \A q : q.c2s = <<>> => ~Requesting(q)
    BY EmptyMap DEF Requesting
  <2>2. ClosedByClient(r).c2s = r.c2s
    BY <1>2, <2>1, Closing
  <2>3. ~Requesting(ClosedByServer(r))
    BY <2>1, Closing
  <2>. QED  BY <1>2, <2>2, <2>3 DEF Requesting
<1>3. \A r, q : q.c2s = r.c2s => Requesting(q) = Requesting(r)
  BY DEF Requesting
<1>. QED  BY <1>1, <1>2, <1>3

\* A group's interfaces depend on its id and its agents only.
LEMMA SameInterfaces ==
  ASSUME NEW cl, NEW cl2, cl2.gid = cl.gid, cl2.agents = cl.agents
  PROVE  InterfacesOf(cl2) = InterfacesOf(cl)
  BY DEF InterfacesOf

\* The connection a request goes out on: the group's own, or a new one on which
\* no handler is at work.
LEMMA Connecting ==
  ASSUME PInv, NEW c \in Clients, NEW k \in Connectable(c)
  PROVE  LET r == Connected(c, k)
         IN /\ k \in Conns /\ r \in TConn /\ r.client_open /\ r.owner = c
            /\ Requesting(r) => Requesting(conn[k])
            /\ \/ /\ client[c].conn = k /\ r = conn[k]
                  /\ Live(client[c], r, handler[k]) /\ Stream(r, handler[k])
               \/ /\ client[c].conn = NoConn /\ ~conn[k].client_open
                  /\ r.c2s = <<>> /\ r.s2c = <<>> /\ handler[k].pc = "none"
<1>1. CASE client[c].conn # NoConn
  <2>1. k = client[c].conn /\ Connected(c, k) = conn[k]
    BY <1>1 DEF Connectable, Connected
  <2>. QED  BY <1>1, <2>1, Mine
<1>2. CASE client[c].conn = NoConn
  <2>1. k \in Conns /\ conn[k] = FreeConn
    BY <1>2 DEF Connectable
  <2>2. client[c].conn # k
    BY <1>2, <2>1, ServerAssumption
  <2>3. Connected(c, k) =
          [FreeConn EXCEPT !.owner = c, !.client_open = TRUE, !.server_open = TRUE]
    BY <2>2 DEF Connected
  <2>4. <<>> \in Seq(TMessage)
    BY EmptySeq
  <2>5. LET r == Connected(c, k)
        IN r \in TConn /\ r.client_open /\ r.owner = c /\ r.c2s = <<>> /\ r.s2c = <<>>
    BY <2>3, <2>4 DEF FreeConn, TConn
  <2>6. ~conn[k].client_open /\ ~conn[k].server_open
    BY <2>1, Free
  <2>7. handler[k].pc = "none"
    BY <2>1, <2>6 DEF PInv, IInv, HandlerExclusive
  <2>8. ~Requesting(Connected(c, k))
    BY <2>5, EmptyMap DEF Requesting
  <2>. QED  BY <1>2, <2>1, <2>5, <2>6, <2>7, <2>8
<1>. QED  BY <1>1, <1>2

\* Sending a request on a connection on which all has been read.
LEMMA RequestMoves ==
  ASSUME PInv, NEW c \in Clients, NEW pc \in ClientPc \ {"off"},
         NEW op \in Ops, NEW n \in Nat, serverUnchanged,
         NEW k \in Connectable(c), NEW cl, NEW co,
         cl = [client[c] EXCEPT !.pc = pc, !.conn = k],
         co = ToServer(Connected(c, k), Header(op, n)),
         conn' = [conn EXCEPT ![k] = co],
         client' = [client EXCEPT ![c].pc = pc, ![c].conn = k],
         ClientState(cl), Live(cl, co, handler[k]), Stream(co, handler[k]),
         op # "REQUEST_GROUP_ID" \/ counter + PendingIds < MaxGroups
  PROVE  Types' /\ Protocol'
<1>1. k \in Conns /\ Connected(c, k) \in TConn /\ Header(op, n) \in TMessage
  BY Connecting, Messages
<1>2. co \in TConn /\ co.client_open /\ co.owner = c
  BY <1>1, Connecting, Sending
<1>3. client \in [Clients -> TClient]
  BY DEF PInv, Types
<1>4. cl \in TClient /\ cl.conn = k
  BY <1>1, <1>3 DEF TClient
<1>5. client' = [client EXCEPT ![c] = cl]
  BY <1>3
<1>6. client[c].conn = k \/ (client[c].conn = NoConn /\ ~conn[k].client_open)
  BY Connecting
<1>7. DOMAIN conn = Conns /\ counter \in Nat /\ MaxGroups \in Nat
  BY ServerAssumption DEF PInv, Types
<1>8. counter + PendingIds <= MaxGroups
  BY DEF PInv, Protocol
<1>9. counter + PendingIds' <= MaxGroups
  <2>1. PendingIds \in Nat /\ PendingIds' \in Nat /\ PendingIds' <= PendingIds + 1
    BY <1>1, <1>7, Pending
  <2>2. CASE counter + PendingIds < MaxGroups
    BY <1>7, <2>1, <2>2
  <2>3. CASE op # "REQUEST_GROUP_ID"
    <3>1. Header(op, n).op = op
      BY Messages
    <3>2. Requesting(co) => Requesting(conn[k])
      BY <1>1, <2>3, <3>1, NotRequesting, Connecting
    <3>3. PendingIds' <= PendingIds
      BY <1>1, <1>7, <3>2, Pending
    <3>. QED  BY <1>7, <1>8, <2>1, <3>3
  <2>. QED  BY <2>2, <2>3
<1>. QED  BY <1>1, <1>2, <1>4, <1>5, <1>6, <1>9, ClientMoves

\* The first message of a stream.
LEMMA FirstMessage ==
  ASSUME NEW r \in TConn, NEW m \in TMessage, NEW ha, r.c2s = <<>>, r.client_open,
         ha.pc \in Resting
  PROVE  /\ \/ ToServer(r, m).c2s = <<m>>
            \/ ToServer(r, m).c2s = <<>> /\ ~ToServer(r, m).server_open
         /\ Stream(ToServer(r, m), ha)
<1>. DEFINE co == ToServer(r, m)
<1>1. /\ co.c2s = IF r.server_open THEN Append(r.c2s, m) ELSE r.c2s
      /\ co.server_open = r.server_open /\ co.client_open
  BY Sending
<1>2. <<>> \in Seq(TMessage)
  BY EmptySeq
<1>3. Append(<<>>, m) = <<m>>
  BY <1>2, Queue
<1>4. (co.c2s = <<m>> /\ co.server_open) \/ (co.c2s = <<>> /\ ~co.server_open)
  BY <1>1, <1>3
<1>5. ha.pc \notin {"commit", "apply", "commit_data"}
  BY DEF Resting
<1>6. Len(<<m>>) = 1 /\ DOMAIN <<>> = {}
  BY ShortQueues, EmptyMap
<1>. HIDE DEF co
<1>7. Stream(co, ha)
  BY <1>1, <1>4, <1>5, <1>6 DEF Stream
<1>. QED  BY <1>4, <1>7 DEF co

\* A group that starts asks for its id on a new connection.
LEMMA RequestGroupIdProtocol ==
  ASSUME PInv, NEW c \in Clients, RequestGroupId(c)
  PROVE  Types' /\ Protocol'
<1>. DEFINE op == "REQUEST_GROUP_ID"
<1>1. PICK k \in Connectable(c) :
        /\ conn' = [conn EXCEPT ![k] = ToServer(Connected(c, k), Header(op, 0))]
        /\ client' = [client EXCEPT ![c].pc = "await_id", ![c].conn = k]
  BY DEF RequestGroupId, SendRequest
<1>. DEFINE r == Connected(c, k)
            co == ToServer(r, Header(op, 0))
            cl == [client[c] EXCEPT !.pc = "await_id", !.conn = k]
<1>2. client[c] \in TClient /\ client[c] = Off
  BY DEF PInv, Types, Protocol, ClientOK, ClientState, RequestGroupId
<1>3. /\ k \in Conns /\ r \in TConn /\ r.client_open /\ r.c2s = <<>> /\ r.s2c = <<>>
      /\ handler[k].pc = "none"
  <2>1. client[c].conn = NoConn /\ k # NoConn
    BY <1>2, Connecting, ServerAssumption DEF Off
  <2>. QED  BY <2>1, Connecting
<1>4. op \in Ops /\ 0 \in Nat /\ Header(op, 0) \in TMessage
  BY Messages DEF Ops
<1>5. handler[k].pc \in Resting
  BY <1>3 DEF Resting
<1>6. /\ co.c2s = <<Header(op, 0)>> \/ (co.c2s = <<>> /\ ~co.server_open)
      /\ Stream(co, handler[k]) /\ co.s2c = <<>>
  BY <1>3, <1>4, <1>5, FirstMessage, Sending
<1>7. cl.pc = "await_id" /\ cl.conn # NoConn
  BY <1>2, <1>3, ServerAssumption DEF TClient
<1>8. ClientState(cl)
  BY <1>7 DEF ClientState
<1>9. Live(cl, co, handler[k])
  BY <1>5, <1>6, <1>7 DEF Live, AwaitId
<1>10. "await_id" \in ClientPc \ {"off"}
  BY DEF ClientPc
<1>11. counter + PendingIds < MaxGroups /\ serverUnchanged
  BY DEF RequestGroupId
<1>. HIDE DEF op, co, cl
<1>. QED  BY <1>1, <1>4, <1>6, <1>8, <1>9, <1>10, <1>11, RequestMoves DEF co, cl

\* A commit is announced when all before it has been read.
LEMMA CommitHeaderProtocol ==
  ASSUME PInv, NEW c \in Clients, CommitHeader(c)
  PROVE  Types' /\ Protocol'
<1>. DEFINE op == "AGENT_COMMIT"
            n == Cardinality(DOMAIN client[c].agents)
<1>1. PICK k \in Connectable(c) :
        /\ conn' = [conn EXCEPT ![k] = ToServer(Connected(c, k), Header(op, n))]
        /\ client' = [client EXCEPT ![c].pc = "await_commit", ![c].conn = k]
  BY DEF CommitHeader, SendRequest
<1>. DEFINE r == Connected(c, k)
            co == ToServer(r, Header(op, n))
            cl == [client[c] EXCEPT !.pc = "await_commit", !.conn = k]
<1>2. client[c] \in TClient /\ client[c].pc = "commit" /\ DOMAIN client[c].agents # {}
  BY DEF PInv, Types, CommitHeader
<1>3. client[c].conn # NoConn /\ client[c].gid # 0
  BY <1>2 DEF PInv, Protocol, ClientOK, ClientState
<1>4. k \in Conns /\ r \in TConn /\ r.client_open /\ Live(client[c], r, handler[k])
  BY <1>3, Connecting
<1>5. handler[k].pc \in Resting /\ r.c2s = <<>> /\ r.s2c = <<>>
  BY <1>2, <1>4 DEF Live
<1>6. n \in Nat
  <2>1. client[c].agents \in TMaps(Numbers)
    BY <1>2 DEF TClient
  <2>2. DOMAIN client[c].agents \subseteq Numbers
    BY <2>1, MapForm
  <2>3. IsFiniteSet(Numbers)
    BY FS_Interval, ServerAssumption DEF Numbers
  <2>. QED  BY <2>2, <2>3, FS_Subset, FS_CardinalityType
<1>. HIDE DEF n
<1>7. op \in Ops /\ Header(op, n) \in TMessage
  BY <1>6, Messages DEF Ops
<1>8. /\ co.c2s = <<Header(op, n)>> \/ (co.c2s = <<>> /\ ~co.server_open)
      /\ Stream(co, handler[k]) /\ co.s2c = <<>>
  BY <1>4, <1>5, <1>7, FirstMessage, Sending
<1>9. cl.pc = "await_commit" /\ cl.conn # NoConn /\ cl.gid # 0 /\ DOMAIN cl.agents # {}
  BY <1>2, <1>3, <1>4, ServerAssumption DEF TClient
<1>10. ClientState(cl)
  BY <1>9 DEF ClientState
<1>11. Live(cl, co, handler[k])
  BY <1>5, <1>6, <1>8, <1>9 DEF Live, AwaitCommit
<1>12. "await_commit" \in ClientPc \ {"off"} /\ serverUnchanged /\ op # "REQUEST_GROUP_ID"
  BY DEF ClientPc, CommitHeader
<1>. HIDE DEF op, co, cl
<1>. QED  BY <1>1, <1>6, <1>7, <1>8, <1>10, <1>11, <1>12, RequestMoves DEF co, cl

\* A sync is asked for while the commit before it may still be on its way.
LEMMA SyncHeaderProtocol ==
  ASSUME PInv, NEW c \in Clients, SyncHeader(c)
  PROVE  Types' /\ Protocol'
<1>. DEFINE op == "AGENT_SYNC_ALL"
<1>1. PICK k \in Connectable(c) :
        /\ conn' = [conn EXCEPT ![k] = ToServer(Connected(c, k), Header(op, 0))]
        /\ client' = [client EXCEPT ![c].pc = "await_sync", ![c].conn = k]
  BY DEF SyncHeader, SendRequest
<1>. DEFINE r == Connected(c, k)
            m == Header(op, 0)
            co == ToServer(r, m)
            cl == [client[c] EXCEPT !.pc = "await_sync", !.conn = k]
<1>2. client[c] \in TClient /\ client[c].pc = "sync" /\ client[c].round < MaxRound
  BY DEF PInv, Types, SyncHeader
<1>3. client[c].gid # 0
  BY <1>2 DEF PInv, Protocol, ClientOK, ClientState
<1>4. /\ k \in Conns /\ r \in TConn /\ r.client_open
      /\ \/ Live(client[c], r, handler[k]) /\ Stream(r, handler[k])
         \/ r.c2s = <<>> /\ r.s2c = <<>> /\ handler[k].pc = "none"
  BY Connecting
<1>5. op \in Ops /\ m \in TMessage /\ m = SyncRequest /\ m.op = op
  BY Messages DEF Ops, SyncRequest
<1>6. /\ cl.pc = "await_sync" /\ cl.conn # NoConn /\ cl.gid # 0 /\ cl.round < MaxRound
      /\ cl.gid = client[c].gid /\ cl.agents = client[c].agents
  BY <1>2, <1>3, <1>4, ServerAssumption DEF TClient
<1>7. ClientState(cl) /\ InterfacesOf(cl) = InterfacesOf(client[c])
  BY <1>6, SameInterfaces DEF ClientState
<1>8. /\ co.c2s = IF r.server_open THEN Append(r.c2s, m) ELSE r.c2s
      /\ co.s2c = r.s2c /\ co.server_open = r.server_open /\ co.client_open
      /\ r.c2s \in Seq(TMessage) /\ <<>> \in Seq(TMessage)
  BY <1>4, <1>5, Sending, ConnFieldTypes, EmptySeq
<1>9. Append(<<>>, m) = <<m>>
  BY <1>5, <1>8, Queue
<1>. HIDE DEF op, m, co, cl, r
<1>10. Stream(co, handler[k]) /\ AwaitSync(cl, co, handler[k])
  <2>1. CASE r.c2s = <<>> /\ r.s2c = <<>> /\ handler[k].pc = "none"
    <3>1. handler[k].pc \in Resting
      BY <2>1 DEF Resting
    <3>2. co.c2s = <<m>> \/ (co.c2s = <<>> /\ ~co.server_open)
      BY <1>8, <1>9, <2>1
    <3>3. Stream(co, handler[k])
      BY <1>4, <1>5, <2>1, <3>1, FirstMessage DEF co
    <3>. QED  BY <1>5, <1>8, <2>1, <3>1, <3>2, <3>3 DEF AwaitSync, Writing, Answered
  <2>2. CASE Live(client[c], r, handler[k]) /\ Stream(r, handler[k])
    <3>1. Writing(client[c], r, handler[k], <<>>)
      BY <1>2, <2>2 DEF Live
    <3>2. CASE handler[k].pc = "commit_data"
      <4>1. r.c2s # <<>> /\ Head(r.c2s) = Data(InterfacesOf(cl)) /\ Tail(r.c2s) = <<>>
        BY <1>7, <3>1, <3>2 DEF Writing, Resting
      <4>2. r.server_open /\ IsCommit(Head(r.c2s).agents)
        BY <2>2, <3>2, <4>1 DEF Stream
      <4>3. co.c2s = Append(r.c2s, m) /\ co.c2s # <<>>
        BY <1>5, <1>8, <4>2, Queue
      <4>4. Head(co.c2s) = Head(r.c2s) /\ Tail(co.c2s) = <<m>>
        <5>1. /\ Head(Append(r.c2s, m)) = Head(r.c2s)
              /\ Tail(Append(r.c2s, m)) = Append(Tail(r.c2s), m)
          BY <1>5, <1>8, <4>1, Queue
        <5>. QED  BY <1>9, <4>1, <4>3, <5>1
      <4>5. AwaitSync(cl, co, handler[k])
        BY <1>5, <1>8, <3>1, <3>2, <4>1, <4>3, <4>4 DEF AwaitSync, Writing
      <4>6. \A i \in DOMAIN co.c2s : co.c2s[i].op \notin {"REQUEST_GROUP_ID", "AGENT_COMMIT"}
        <5>1. Len(r.c2s) = 1 /\ r.c2s[1] = Head(r.c2s) /\ DOMAIN r.c2s = {1}
          BY <1>8, <4>1, QueueTaken
        <5>2. r.c2s[1].op = "DATA"
          BY <4>1, <5>1 DEF Data
        <5>3. \A i \in DOMAIN co.c2s :
                (i \in DOMAIN r.c2s /\ co.c2s[i] = r.c2s[i]) \/ co.c2s[i] = m
          BY <1>5, <1>8, <4>3, Queue
        <5>. QED  BY <1>5, <5>1, <5>2, <5>3 DEF op
      <4>. QED  BY <1>8, <3>2, <4>2, <4>4, <4>5, <4>6 DEF Stream
    <3>3. CASE handler[k].pc # "commit_data"
      <4>1. r.c2s = <<>> /\ r.s2c = <<>>
        BY <3>1, <3>3 DEF Writing
      <4>2. co.c2s = <<m>> \/ (co.c2s = <<>> /\ ~co.server_open)
        BY <1>8, <1>9, <4>1
      <4>3. handler[k].pc # "commit"
        BY <3>1, <3>3 DEF Writing, Resting
      <4>4. handler[k].pc = "apply" => IsCommit(handler[k].agents)
        BY <2>2 DEF Stream
      <4>5. Len(<<m>>) = 1 /\ DOMAIN <<>> = {}
        BY ShortQueues, EmptyMap
      <4>6. Stream(co, handler[k])
        <5>1. ~co.server_open => co.c2s = <<>>
          BY <1>8, <4>1
        <5>2. \A i \in DOMAIN co.c2s : Len(co.c2s) = 1
          BY <4>2, <4>5
        <5>. QED  BY <1>8, <3>3, <4>3, <4>4, <5>1, <5>2 DEF Stream
      <4>7. AwaitSync(cl, co, handler[k])
        BY <1>5, <1>7, <1>8, <3>1, <3>3, <4>1, <4>2 DEF AwaitSync, Writing, Answered
      <4>. QED  BY <4>6, <4>7
    <3>. QED  BY <3>2, <3>3
  <2>. QED  BY <1>4, <2>1, <2>2
<1>11. Live(cl, co, handler[k])
  BY <1>6, <1>10 DEF Live
<1>12. "await_sync" \in ClientPc \ {"off"} /\ serverUnchanged /\ op # "REQUEST_GROUP_ID"
  BY DEF ClientPc, SyncHeader, op
<1>. QED  BY <1>1, <1>5, <1>7, <1>10, <1>11, <1>12, RequestMoves DEF co, cl, r, m

\* Stream does not look at what the server has sent.
LEMMA StreamSame ==
  ASSUME NEW r, NEW co, NEW ha, Stream(r, ha), co.c2s = r.c2s,
         co.server_open = r.server_open, co.client_open
  PROVE  Stream(co, ha)
  BY DEF Stream

\* A group's closing its end, a last header or not, keeps what the server may
\* rely on.
LEMMA StreamClosed ==
  ASSUME NEW r \in TConn, NEW ha, Stream(r, ha)
  PROVE  Stream(ClosedByClient(r), ha)
<1>. DEFINE co == ClosedByClient(r)
<1>1. /\ ~co.client_open /\ co.s2c = <<>> /\ co.server_open = r.server_open
      /\ co.c2s = IF r.server_open THEN r.c2s ELSE <<>>
  BY Closing
<1>2. co.c2s = r.c2s
  BY <1>1 DEF Stream
<1>. HIDE DEF co
<1>. QED  BY <1>1, <1>2 DEF Stream, co

\* What is sent after a commit leaves the commit in its place.
LEMMA StreamAppend ==
  ASSUME NEW cl, NEW r \in TConn, NEW ha, NEW m \in TMessage,
         m.op \notin {"REQUEST_GROUP_ID", "AGENT_COMMIT"}, r.client_open,
         Writing(cl, r, ha, <<>>), Stream(r, ha)
  PROVE  Stream(ToServer(r, m), ha)
<1>. DEFINE co == ToServer(r, m)
<1>1. /\ co.c2s = IF r.server_open THEN Append(r.c2s, m) ELSE r.c2s
      /\ co.s2c = r.s2c /\ co.server_open = r.server_open /\ co.client_open
      /\ r.c2s \in Seq(TMessage)
  BY Sending, ConnFieldTypes
<1>. HIDE DEF co
<1>2. CASE ~r.server_open
  <2>1. co.c2s = r.c2s
    BY <1>1, <1>2
  <2>. QED  BY <1>1, <2>1, StreamSame DEF co
<1>3. CASE r.server_open
  <2>1. co.c2s = Append(r.c2s, m)
    BY <1>1, <1>3
  <2>2. \A i \in DOMAIN r.c2s : r.c2s[i].op \notin {"REQUEST_GROUP_ID", "AGENT_COMMIT"}
    <3>1. CASE r.c2s = <<>>
      BY <3>1, EmptyMap
    <3>2. CASE r.c2s # <<>>
      <4>1. Head(r.c2s).op = "DATA" /\ Tail(r.c2s) = <<>>
        BY <3>2 DEF Writing, Data
      <4>2. DOMAIN r.c2s = {1} /\ r.c2s[1] = Head(r.c2s)
        BY <1>1, <3>2, <4>1, QueueTaken
      <4>. QED  BY <4>1, <4>2
    <3>. QED  BY <3>1, <3>2
  <2>3. \A i \in DOMAIN co.c2s : co.c2s[i].op \notin {"REQUEST_GROUP_ID", "AGENT_COMMIT"}
    <3>1. \A i \in DOMAIN co.c2s :
            (i \in DOMAIN r.c2s /\ co.c2s[i] = r.c2s[i]) \/ co.c2s[i] = m
      BY <1>1, <2>1, Queue
    <3>. QED  BY <2>2, <3>1
  <2>4. ha.pc # "commit"
    BY DEF Writing, Resting
  <2>5. ha.pc = "apply" => IsCommit(ha.agents)
    BY DEF Stream
  <2>6. ASSUME ha.pc = "commit_data" PROVE IsCommit(Head(co.c2s).agents)
    <3>1. r.c2s # <<>>
      BY <2>6 DEF Writing, Resting
    <3>2. Head(co.c2s) = Head(r.c2s)
      BY <1>1, <2>1, <3>1, Queue
    <3>. QED  BY <2>6, <3>1, <3>2 DEF Stream
  <2>. QED  BY <1>1, <1>3, <2>3, <2>4, <2>5, <2>6 DEF Stream, co
<1>. QED  BY <1>2, <1>3

\* A step of a group on the connection it has.
LEMMA MineMoves ==
  ASSUME PInv, NEW c \in Clients, client[c].conn # NoConn,
         NEW cl \in TClient, NEW co \in TConn, serverUnchanged,
         client' = [client EXCEPT ![c] = cl],
         conn' = [conn EXCEPT ![client[c].conn] = co],
         ClientState(cl),
         \/ /\ cl.conn = client[c].conn /\ co.client_open /\ co.owner = c
            /\ Live(cl, co, handler[client[c].conn])
         \/ cl.conn = NoConn /\ ~co.client_open,
         Stream(co, handler[client[c].conn]),
         Requesting(co) => Requesting(conn[client[c].conn])
  PROVE  Types' /\ Protocol'
<1>. DEFINE k == client[c].conn
<1>1. k \in Conns
  BY Mine
<1>2. DOMAIN conn = Conns /\ counter \in Nat /\ MaxGroups \in Nat
  BY ServerAssumption DEF PInv, Types
<1>3. counter + PendingIds <= MaxGroups
  BY DEF PInv, Protocol
<1>4. PendingIds \in Nat /\ PendingIds' \in Nat /\ PendingIds' <= PendingIds
  BY <1>1, <1>2, Pending
<1>5. counter + PendingIds' <= MaxGroups
  <2>. DEFINE p == PendingIds
              q == PendingIds'
  <2>1. p \in Nat /\ q \in Nat /\ q <= p /\ counter + p <= MaxGroups
    BY <1>3, <1>4
  <2>. HIDE DEF p, q
  <2>2. counter + q <= MaxGroups
    BY <1>2, <2>1
  <2>. QED  BY <2>2 DEF q
<1>. QED  BY <1>1, <1>5, ClientMoves

\* The end of a group, which closes the connection it may have.
LEMMA EndProtocol ==
  ASSUME PInv, NEW c \in Clients, serverUnchanged, client' = [client EXCEPT ![c] = Off],
         conn' = CloseOf(c)
  PROVE  Types' /\ Protocol'
<1>1. CASE client[c].conn = NoConn
  BY <1>1, ClientEnds DEF CloseOf
<1>2. CASE client[c].conn # NoConn
  <2>. DEFINE k == client[c].conn
              co == ClosedByClient(conn[k])
  <2>1. conn[k] \in TConn /\ Stream(conn[k], handler[k])
    BY <1>2, Mine
  <2>2. co \in TConn /\ ~co.client_open /\ Stream(co, handler[k])
    BY <2>1, Closing, StreamClosed
  <2>3. Requesting(co) => Requesting(conn[k])
    BY <2>1, NotRequesting
  <2>4. conn' = [conn EXCEPT ![k] = co]
    BY <1>2 DEF CloseOf
  <2>. QED  BY <1>2, <2>2, <2>3, <2>4, OffState, MineMoves
<1>. QED  BY <1>1, <1>2

\* Hanging up, at the end of a turn or for good.
LEMMA HangUpProtocol ==
  ASSUME PInv, NEW c \in Clients, Disconnect(c) \/ Exit(c)
  PROVE  Types' /\ Protocol'
<1>. DEFINE k == client[c].conn
            m == Header("DISCONNECT", 0)
            co == ClosedByClient(ToServer(conn[k], m))
<1>1. /\ client[c] \in TClient /\ ClientState(client[c]) /\ serverUnchanged
      /\ client[c].pc \in {"sync", "disconnect"}
  BY DEF PInv, Types, Protocol, ClientOK, Disconnect, Exit
<1>2. CASE client[c].conn = NoConn
  <2>1. Exit(c)
    BY <1>1, <1>2 DEF Disconnect, ClientState
  <2>. QED  BY <1>1, <1>2, <2>1, ClientEnds DEF Exit, HangUp
<1>3. CASE client[c].conn # NoConn
  <2>1. /\ conn[k] \in TConn /\ conn[k].client_open
        /\ Live(client[c], conn[k], handler[k]) /\ Stream(conn[k], handler[k])
    BY <1>3, Mine
  <2>2. Writing(client[c], conn[k], handler[k], <<>>)
    BY <1>1, <2>1 DEF Live
  <2>3. m \in TMessage /\ m.op = "DISCONNECT"
    BY Messages DEF Ops
  <2>4. Stream(ToServer(conn[k], m), handler[k]) /\ ToServer(conn[k], m) \in TConn
    BY <2>1, <2>2, <2>3, StreamAppend, Sending
  <2>5. co \in TConn /\ ~co.client_open /\ Stream(co, handler[k])
    BY <2>4, Closing, StreamClosed
  <2>6. Requesting(co) => Requesting(conn[k])
    BY <2>1, <2>3, <2>4, NotRequesting
  <2>7. conn' = [conn EXCEPT ![k] = co]
    BY <1>3 DEF Disconnect, Exit, HangUp
  <2>. HIDE DEF co
  <2>8. CASE Exit(c)
    BY <1>1, <1>3, <2>5, <2>6, <2>7, <2>8, OffState, MineMoves DEF Exit
  <2>9. CASE Disconnect(c)
    <3>. DEFINE cl == [client[c] EXCEPT !.pc = "sync", !.conn = NoConn]
    <3>1. client' = [client EXCEPT ![c] = cl]
      BY <2>9 DEF Disconnect, PInv, Types
    <3>2. /\ cl \in TClient /\ cl.pc = "sync" /\ cl.conn = NoConn
          /\ cl.synced = client[c].synced /\ cl.gid = client[c].gid
      BY <1>1 DEF TClient, ClientPc
    <3>3. ClientState(cl)
      BY <1>1, <2>9, <3>2 DEF ClientState, Disconnect
    <3>. HIDE DEF cl
    <3>. QED  BY <1>1, <1>3, <2>5, <2>6, <2>7, <3>1, <3>2, <3>3, MineMoves
  <2>. QED  BY <2>8, <2>9
<1>. QED  BY <1>2, <1>3

\* A group reads a message of its inbox.
LEMMA Reading ==
  ASSUME PInv, NEW c \in Clients, Inbox(c) # <<>>
  PROVE  LET k == client[c].conn
             co == Taken(c)
         IN /\ k # NoConn /\ k \in Conns /\ Inbox(c) = conn[k].s2c /\ co \in TConn
            /\ Head(Inbox(c)) \in TMessage
            /\ co.s2c = Tail(conn[k].s2c) /\ co.c2s = conn[k].c2s /\ co.owner = c
            /\ co.client_open /\ co.server_open = conn[k].server_open
            /\ Stream(co, handler[k]) /\ Live(client[c], conn[k], handler[k])
            /\ Requesting(co) => Requesting(conn[k])
            /\ ~conn[k].server_open => handler[k].pc = "none"
<1>. DEFINE k == client[c].conn
            co == Taken(c)
<1>1. k # NoConn /\ Inbox(c) = conn[k].s2c
  BY DEF Inbox
<1>2. /\ k \in Conns /\ conn[k] \in TConn /\ conn[k].client_open /\ conn[k].owner = c
      /\ Live(client[c], conn[k], handler[k]) /\ Stream(conn[k], handler[k])
  BY <1>1, Mine
<1>3. /\ co \in TConn /\ co.s2c = Tail(conn[k].s2c) /\ co.c2s = conn[k].c2s /\ co.owner = c
      /\ co.client_open /\ co.server_open = conn[k].server_open
  BY <1>1, <1>2, Taking DEF Taken
<1>4. Head(Inbox(c)) \in TMessage
  BY <1>1, <1>2, ConnFieldTypes, QueueTaken
<1>5. ~conn[k].server_open => handler[k].pc = "none"
  BY <1>2 DEF PInv, IInv, HandlerExclusive
<1>6. Stream(co, handler[k])
  BY <1>2, <1>3, StreamSame
<1>7. Requesting(co) => Requesting(conn[k])
  BY <1>3, NotRequesting
<1>. QED  BY <1>1, <1>2, <1>3, <1>4, <1>5, <1>6, <1>7

\* The group learns its id.
LEMMA ReceiveGroupIdProtocol ==
  ASSUME PInv, NEW c \in Clients, ReceiveGroupId(c)
  PROVE  Types' /\ Protocol'
<1>. DEFINE k == client[c].conn
            co == Taken(c)
            g == Head(Inbox(c)).n
<1>1. PICK n \in InitialAgents :
        client' = [client EXCEPT
          ![c].pc = "commit", ![c].gid = Head(Inbox(c)).n, ![c].number = n,
          ![c].agents = [i \in 1..n |-> [round |-> 0, expires |-> 0]],
          ![c].session = session]
  BY DEF ReceiveGroupId
<1>. DEFINE agents == [i \in 1..n |-> [round |-> 0, expires |-> 0]]
            cl == [client[c] EXCEPT !.pc = "commit", !.gid = g, !.number = n,
                                    !.agents = agents, !.session = session]
<1>2. /\ client[c] \in TClient /\ client[c].pc = "await_id" /\ Inbox(c) # <<>>
      /\ serverUnchanged /\ conn' = Consume(c) /\ session \in 0..MaxSession
  BY DEF PInv, Types, ReceiveGroupId
<1>3. /\ k # NoConn /\ k \in Conns /\ Inbox(c) = conn[k].s2c /\ co \in TConn
      /\ co.s2c = Tail(conn[k].s2c) /\ co.c2s = conn[k].c2s /\ co.owner = c /\ co.client_open
      /\ Stream(co, handler[k]) /\ Live(client[c], conn[k], handler[k])
      /\ Requesting(co) => Requesting(conn[k])
  BY <1>2, Reading
<1>4. AwaitId(conn[k], handler[k])
  BY <1>2, <1>3 DEF Live
<1>5. PICK x \in 1..MaxGroups : conn[k].s2c = <<Ack(x)>> /\ conn[k].c2s = <<>>
  BY <1>2, <1>3, <1>4 DEF AwaitId
<1>6. /\ g \in 1..MaxGroups /\ g # 0 /\ g \in 0..MaxGroups
      /\ co.s2c = <<>> /\ co.c2s = <<>> /\ handler[k].pc \in Resting
  <2>1. Head(<<Ack(x)>>) = Ack(x) /\ Tail(<<Ack(x)>>) = <<>> /\ Ack(x).n = x
    BY ShortQueues DEF Ack, Header
  <2>. QED  BY <1>3, <1>4, <1>5, <2>1, ServerAssumption DEF AwaitId
<1>7. agents \in TMaps(Numbers) /\ n \in 0..MaxAgents
  <2>1. n \in 0..MaxAgents /\ MaxAgents \in Nat /\ MaxRound \in Nat /\ MaxTime + Lifetime \in Nat
    BY ServerAssumption
  <2>2. [round |-> 0, expires |-> 0] \in Val
    BY <2>1 DEF Val
  <2>3. DOMAIN agents = 1..n /\ agents \in [1..n -> Val]
    BY <2>2
  <2>4. 1..n \subseteq Numbers
    BY <2>1 DEF Numbers
  <2>. HIDE DEF agents
  <2>. QED  BY <2>1, <2>3, <2>4, MapForm
<1>. HIDE DEF g, agents, co
<1>8. client' = [client EXCEPT ![c] = cl]
  BY <1>1 DEF PInv, Types, g, agents
<1>9. cl \in TClient /\ cl.pc = "commit" /\ cl.conn = k /\ cl.gid = g
  BY <1>2, <1>6, <1>7 DEF TClient, ClientPc
<1>. HIDE DEF cl
<1>10. ClientState(cl)
  BY <1>3, <1>6, <1>9 DEF ClientState
<1>11. Live(cl, co, handler[k])
  BY <1>6, <1>9 DEF Live
<1>12. conn' = [conn EXCEPT ![k] = co]
  BY <1>2 DEF Consume, co
<1>. QED  BY <1>2, <1>3, <1>8, <1>9, <1>10, <1>11, <1>12, MineMoves

\* A group without agents skips its commit.
LEMMA CommitNothingProtocol ==
  ASSUME PInv, NEW c \in Clients, CommitNothing(c)
  PROVE  Types' /\ Protocol'
<1>. DEFINE k == client[c].conn
            pc == AfterCommit(c)
            cl == [client[c] EXCEPT !.pc = pc]
<1>1. /\ client[c] \in TClient /\ client[c].pc = "commit" /\ serverUnchanged /\ conn' = conn
      /\ client' = [client EXCEPT ![c].pc = pc] /\ ClientState(client[c])
  BY DEF PInv, Types, Protocol, ClientOK, CommitNothing
<1>2. client[c].conn # NoConn /\ client[c].gid # 0
  BY <1>1 DEF ClientState
<1>3. /\ k \in Conns /\ conn[k] \in TConn /\ conn[k].client_open /\ conn[k].owner = c
      /\ Live(client[c], conn[k], handler[k]) /\ Stream(conn[k], handler[k])
  BY <1>2, Mine
<1>4. pc \in {"sync", "disconnect"} /\ (pc = "disconnect" => client[c].synced)
  BY DEF AfterCommit
<1>. HIDE DEF pc
<1>5. /\ cl \in TClient /\ cl.pc = pc /\ cl.conn = k /\ cl.gid = client[c].gid
      /\ cl.synced = client[c].synced
  BY <1>1, <1>4 DEF TClient, ClientPc
<1>6. client' = [client EXCEPT ![c] = cl] /\ conn' = [conn EXCEPT ![k] = conn[k]]
  BY <1>1, <1>3 DEF PInv, Types
<1>. HIDE DEF cl
<1>7. ClientState(cl)
  BY <1>2, <1>4, <1>5 DEF ClientState
<1>8. Live(cl, conn[k], handler[k])
  BY <1>1, <1>3, <1>4, <1>5 DEF Live, Writing
<1>. QED  BY <1>1, <1>2, <1>3, <1>5, <1>6, <1>7, <1>8, MineMoves

\* The agents follow the acknowledged header.
LEMMA CommitAgentsProtocol ==
  ASSUME PInv, NEW c \in Clients, CommitAgents(c)
  PROVE  Types' /\ Protocol'
<1>. DEFINE k == client[c].conn
            m == Data(InterfacesOf(client[c]))
            r == Taken(c)
            co == ToServer(r, m)
            pc == AfterCommit(c)
            cl == [client[c] EXCEPT !.pc = pc]
<1>1. /\ client[c] \in TClient /\ client[c].pc = "await_commit" /\ Inbox(c) # <<>>
      /\ serverUnchanged /\ client' = [client EXCEPT ![c].pc = pc] /\ ClientState(client[c])
  BY DEF PInv, Types, Protocol, ClientOK, CommitAgents
<1>2. conn' = [conn EXCEPT ![k] = co]
  BY DEF CommitAgents, Interfaces, InterfacesOf
<1>3. client[c].conn # NoConn /\ client[c].gid # 0 /\ DOMAIN client[c].agents # {}
  BY <1>1 DEF ClientState
<1>4. /\ k \in Conns /\ Inbox(c) = conn[k].s2c /\ r \in TConn
      /\ r.s2c = Tail(conn[k].s2c) /\ r.c2s = conn[k].c2s /\ r.owner = c
      /\ r.client_open /\ r.server_open = conn[k].server_open
      /\ Stream(r, handler[k]) /\ Live(client[c], conn[k], handler[k])
      /\ Requesting(r) => Requesting(conn[k])
      /\ ~conn[k].server_open => handler[k].pc = "none"
  BY <1>1, Reading
<1>5. AwaitCommit(conn[k], handler[k])
  BY <1>1, <1>4 DEF Live
<1>6. PICK x \in Nat : conn[k].s2c = <<Ack(x)>> /\ conn[k].c2s = <<>>
  BY <1>1, <1>4, <1>5 DEF AwaitCommit
<1>7. handler[k].pc = "commit_data" \/ ~conn[k].server_open
  BY <1>1, <1>4, <1>5 DEF AwaitCommit
<1>8. r.s2c = <<>> /\ r.c2s = <<>>
  BY <1>4, <1>6, ShortQueues
<1>9. m \in TMessage /\ m.op = "DATA" /\ IsCommit(m.agents)
  <2>1. InterfacesOf(client[c]) \in TMap /\ IsCommit(InterfacesOf(client[c]))
    BY <1>1, <1>3, InterfacesAreMap
  <2>. QED  BY <2>1, Messages
<1>10. /\ co \in TConn /\ co.s2c = <<>> /\ co.owner = c /\ co.client_open
       /\ co.server_open = conn[k].server_open
       /\ co.c2s = IF conn[k].server_open THEN <<m>> ELSE <<>>
  <2>1. Append(<<>>, m) = <<m>>
    BY <1>9, EmptySeq, Queue
  <2>. HIDE DEF m, r
  <2>2. /\ co \in TConn /\ co.s2c = r.s2c /\ co.owner = r.owner
        /\ co.client_open = r.client_open /\ co.server_open = r.server_open
        /\ co.c2s = IF r.server_open THEN Append(r.c2s, m) ELSE r.c2s
    BY <1>4, <1>9, Sending
  <2>. HIDE DEF co
  <2>. QED  BY <1>4, <1>8, <2>1, <2>2
<1>11. Head(<<m>>) = m /\ Tail(<<m>>) = <<>> /\ <<m>> # <<>> /\ Len(<<m>>) = 1
  BY ShortQueues
<1>12. pc \in {"sync", "disconnect"} /\ (pc = "disconnect" => client[c].synced)
  BY DEF AfterCommit
<1>. HIDE DEF pc, co, r
<1>13. /\ cl \in TClient /\ cl.pc = pc /\ cl.conn = k /\ cl.gid = client[c].gid
       /\ cl.agents = client[c].agents /\ cl.synced = client[c].synced
  BY <1>1, <1>12 DEF TClient, ClientPc
<1>14. client' = [client EXCEPT ![c] = cl]
  BY <1>1 DEF PInv, Types
<1>. HIDE DEF cl
<1>15. m = Data(InterfacesOf(cl))
  BY <1>13, SameInterfaces
<1>16. ClientState(cl)
  BY <1>3, <1>12, <1>13 DEF ClientState
<1>. HIDE DEF m
<1>17. Live(cl, co, handler[k])
  <2>1. Writing(cl, co, handler[k], <<>>)
    BY <1>4, <1>7, <1>10, <1>11, <1>15 DEF Writing, Resting
  <2>. QED  BY <1>12, <1>13, <2>1 DEF Live
<1>18. Stream(co, handler[k])
  <2>1. ~co.server_open => co.c2s = <<>>
    BY <1>10
  <2>2. \A i \in DOMAIN co.c2s : Len(co.c2s) = 1
    BY <1>10, <1>11, EmptyMap
  <2>3. handler[k].pc \notin {"commit", "apply"}
    BY <1>4, <1>7
  <2>4. co.c2s # <<>> => IsCommit(Head(co.c2s).agents)
    BY <1>9, <1>10, <1>11
  <2>. QED  BY <1>10, <2>1, <2>2, <2>3, <2>4 DEF Stream
<1>19. Requesting(co) => Requesting(conn[k])
  BY <1>4, <1>9, NotRequesting DEF co
<1>. QED  BY <1>1, <1>2, <1>3, <1>4, <1>10, <1>13, <1>14, <1>16, <1>17, <1>18, <1>19, MineMoves

\* The group learns how many agents there are, and whether any follow.
LEMMA SyncReplyProtocol ==
  ASSUME PInv, NEW c \in Clients, SyncReply(c)
  PROVE  Types' /\ Protocol'
<1>. DEFINE k == client[c].conn
            co == Taken(c)
            n == Head(Inbox(c)).n
            pc == IF n > 0 THEN "await_agents" ELSE "process"
            s == client[c].synced \/ n = 0
            cl == [client[c] EXCEPT !.pc = pc, !.expect = n, !.synced = s]
<1>1. /\ client[c] \in TClient /\ client[c].pc = "await_sync" /\ Inbox(c) # <<>>
      /\ serverUnchanged /\ conn' = Consume(c) /\ ClientState(client[c])
      /\ client' = [client EXCEPT ![c].pc = pc, ![c].expect = n, ![c].synced = @ \/ n = 0]
  BY DEF PInv, Types, Protocol, ClientOK, SyncReply
<1>2. client[c].conn # NoConn /\ client[c].gid # 0 /\ client[c].round < MaxRound
  BY <1>1 DEF ClientState
<1>3. /\ k \in Conns /\ Inbox(c) = conn[k].s2c /\ co \in TConn /\ Head(Inbox(c)) \in TMessage
      /\ co.s2c = Tail(conn[k].s2c) /\ co.c2s = conn[k].c2s /\ co.owner = c
      /\ co.client_open /\ co.server_open = conn[k].server_open
      /\ Stream(co, handler[k]) /\ Live(client[c], conn[k], handler[k])
      /\ Requesting(co) => Requesting(conn[k])
      /\ ~conn[k].server_open => handler[k].pc = "none"
  BY <1>1, Reading
<1>4. handler[k].agents \in TMap
  BY <1>3 DEF PInv, Types, THandler
<1>5. AwaitSync(client[c], conn[k], handler[k])
  BY <1>1, <1>3 DEF Live
<1>6. co.c2s = <<>> /\ Answered(conn[k], handler[k])
  BY <1>1, <1>3, <1>5 DEF AwaitSync, Writing
<1>7. n \in Nat /\ pc \in {"await_agents", "process"}
  BY <1>3 DEF TMessage
<1>8. client' = [client EXCEPT ![c] = cl]
  BY <1>1 DEF PInv, Types
<1>. HIDE DEF n, s
<1>9. /\ cl \in TClient /\ cl.pc = pc /\ cl.conn = k /\ cl.gid = client[c].gid
      /\ cl.expect = n /\ cl.round = client[c].round
  BY <1>1, <1>7 DEF TClient, ClientPc, s
<1>. HIDE DEF cl, co
<1>10. ClientState(cl)
  BY <1>2, <1>9 DEF ClientState
<1>11. \A x \in Nat : Head(<<Ack(x)>>).n = x /\ Tail(<<Ack(x)>>) = <<>>
  BY ShortQueues DEF Ack, Header
<1>12. IF n > 0 THEN AwaitAgents(cl, co, handler[k])
       ELSE handler[k].pc \in Resting /\ co.s2c = <<>>
  <2>1. CASE handler[k].pc = "sync_data" /\ Size(handler[k].agents) > 0
             /\ conn[k].s2c = <<Ack(Size(handler[k].agents))>>
    <3>1. n = Size(handler[k].agents) /\ co.s2c = <<>>
      BY <1>3, <1>4, <1>11, <2>1, MapSize DEF n
    <3>. QED  BY <1>6, <1>9, <2>1, <3>1 DEF AwaitAgents
  <2>2. CASE handler[k].pc \in Resting /\ conn[k].s2c = <<Ack(0)>>
    BY <1>3, <1>11, <2>2 DEF n
  <2>3. CASE /\ handler[k].pc \in Resting
             /\ \E m \in TMap : Size(m) > 0 /\ conn[k].s2c = <<Ack(Size(m)), Data(m)>>
    <3>1. PICK m \in TMap : Size(m) > 0 /\ conn[k].s2c = <<Ack(Size(m)), Data(m)>>
      BY <2>3
    <3>2. Head(conn[k].s2c).n = Size(m) /\ Tail(conn[k].s2c) = <<Data(m)>>
      BY <3>1, ShortQueues DEF Ack, Header
    <3>3. n = Size(m) /\ co.s2c = <<Data(m)>>
      BY <1>3, <3>2 DEF n
    <3>. QED  BY <1>6, <1>9, <2>3, <3>1, <3>3 DEF AwaitAgents
  <2>4. CASE ~conn[k].server_open /\ \E x \in Nat : conn[k].s2c = <<Ack(x)>>
    <3>1. co.s2c = <<>> /\ handler[k].pc \in Resting /\ ~co.server_open
      BY <1>3, <1>11, <2>4 DEF Resting
    <3>. QED  BY <1>6, <3>1 DEF AwaitAgents
  <2>. QED  BY <1>1, <1>3, <1>6, <2>1, <2>2, <2>3, <2>4 DEF Answered
<1>13. Live(cl, co, handler[k])
  BY <1>6, <1>7, <1>9, <1>12 DEF Live
<1>14. conn' = [conn EXCEPT ![k] = co]
  BY <1>1 DEF Consume, co
<1>. QED  BY <1>1, <1>2, <1>3, <1>8, <1>9, <1>10, <1>13, <1>14, MineMoves

\* The group receives all agents.
LEMMA SyncAgentsProtocol ==
  ASSUME PInv, NEW c \in Clients, SyncAgents(c)
  PROVE  Types' /\ Protocol'
<1>. DEFINE k == client[c].conn
            co == Taken(c)
            cl == [client[c] EXCEPT !.pc = "process", !.synced = TRUE, !.expect = 0]
<1>1. /\ client[c] \in TClient /\ client[c].pc = "await_agents" /\ Inbox(c) # <<>>
      /\ serverUnchanged /\ conn' = Consume(c) /\ ClientState(client[c])
      /\ client' = [client EXCEPT ![c].pc = "process", ![c].synced = TRUE, ![c].expect = 0]
  BY DEF PInv, Types, Protocol, ClientOK, SyncAgents
<1>2. client[c].conn # NoConn /\ client[c].gid # 0 /\ client[c].round < MaxRound
  BY <1>1 DEF ClientState
<1>3. /\ k \in Conns /\ Inbox(c) = conn[k].s2c /\ co \in TConn
      /\ co.s2c = Tail(conn[k].s2c) /\ co.c2s = conn[k].c2s /\ co.owner = c /\ co.client_open
      /\ Stream(co, handler[k]) /\ Live(client[c], conn[k], handler[k])
      /\ Requesting(co) => Requesting(conn[k])
  BY <1>1, Reading
<1>4. AwaitAgents(client[c], conn[k], handler[k])
  BY <1>1, <1>3 DEF Live
<1>5. handler[k].pc \in Resting /\ co.c2s = <<>> /\ co.s2c = <<>>
  BY <1>1, <1>3, <1>4, ShortQueues DEF AwaitAgents
<1>6. client' = [client EXCEPT ![c] = cl]
  BY <1>1 DEF PInv, Types
<1>7. /\ cl \in TClient /\ cl.pc = "process" /\ cl.conn = k /\ cl.gid = client[c].gid
      /\ cl.round = client[c].round
  BY <1>1 DEF TClient, ClientPc
<1>. HIDE DEF cl, co
<1>8. ClientState(cl) /\ Live(cl, co, handler[k])
  BY <1>2, <1>5, <1>7 DEF ClientState, Live
<1>9. conn' = [conn EXCEPT ![k] = co]
  BY <1>1 DEF Consume, co
<1>. QED  BY <1>1, <1>2, <1>3, <1>6, <1>7, <1>8, <1>9, MineMoves

\* The group processes its agents.
LEMMA ProcessProtocol ==
  ASSUME PInv, NEW c \in Clients, Process(c)
  PROVE  Types' /\ Protocol'
<1>. DEFINE k == client[c].conn
            old == client[c].agents
            stamp == IF c \in Expiring THEN now + Lifetime ELSE 0
            x == client[c].round + 1
<1>1. PICK keep \in SUBSET DOMAIN old, n \in client[c].number..MaxAgents :
        client' = [client EXCEPT
          ![c].pc = "commit", ![c].round = @ + 1, ![c].number = n,
          ![c].agents = [i \in keep \cup (client[c].number + 1)..n |->
             IF i \in keep
             THEN [round |-> client[c].round + 1, expires |-> stamp]
             ELSE [round |-> client[c].round + 1, expires |-> 0]]]
  BY DEF Process
<1>. DEFINE S == keep \cup (client[c].number + 1)..n
            agents == [i \in S |-> IF i \in keep THEN [round |-> x, expires |-> stamp]
                                                 ELSE [round |-> x, expires |-> 0]]
            cl == [client[c] EXCEPT !.pc = "commit", !.round = x, !.number = n,
                                    !.agents = agents]
<1>2. /\ client[c] \in TClient /\ client[c].pc = "process" /\ serverUnchanged
      /\ conn' = conn /\ ClientState(client[c]) /\ now \in 0..MaxTime
  BY DEF PInv, Types, Protocol, ClientOK, Process
<1>3. client[c].conn # NoConn /\ client[c].gid # 0 /\ client[c].round < MaxRound
  BY <1>2 DEF ClientState
<1>4. /\ k \in Conns /\ conn[k] \in TConn /\ conn[k].client_open /\ conn[k].owner = c
      /\ Live(client[c], conn[k], handler[k]) /\ Stream(conn[k], handler[k])
  BY <1>3, Mine
<1>5. client[c].round \in 0..MaxRound /\ client[c].number \in 0..MaxAgents /\ old \in TMaps(Numbers)
  BY <1>2 DEF TClient
<1>6. x \in 0..MaxRound /\ n \in 0..MaxAgents /\ S \subseteq Numbers
  <2>1. MaxRound \in Nat /\ MaxAgents \in Nat
    BY ServerAssumption
  <2>2. DOMAIN old \subseteq Numbers
    BY <1>5, MapForm
  <2>3. x \in 0..MaxRound /\ n \in 0..MaxAgents
    BY <1>3, <1>5, <2>1
  <2>4. (client[c].number + 1)..n \subseteq Numbers
    BY <1>5, <2>1, <2>3 DEF Numbers
  <2>. QED  BY <2>2, <2>3, <2>4
<1>7. [round |-> x, expires |-> stamp] \in Val /\ [round |-> x, expires |-> 0] \in Val
  <2>1. MaxTime \in Nat /\ Lifetime \in Nat
    BY ServerAssumption
  <2>2. 0 \in (IF Expiring = {} THEN {0} ELSE 0..MaxTime + Lifetime)
    BY <2>1
  <2>3. stamp \in (IF Expiring = {} THEN {0} ELSE 0..MaxTime + Lifetime)
    BY <1>2, <2>1
  <2>. HIDE DEF stamp, x
  <2>. QED  BY <1>6, <2>2, <2>3 DEF Val
<1>8. agents \in TMaps(Numbers)
  <2>. HIDE DEF S, stamp, x
  <2>1. DOMAIN agents = S /\ agents \in [S -> Val]
    BY <1>7
  <2>. HIDE DEF agents
  <2>. QED  BY <1>6, <2>1, MapForm
<1>9. client' = [client EXCEPT ![c] = cl]
  BY <1>1 DEF PInv, Types
<1>. HIDE DEF agents, x
<1>10. cl \in TClient /\ cl.pc = "commit" /\ cl.conn = k /\ cl.gid = client[c].gid
  BY <1>2, <1>6, <1>8 DEF TClient, ClientPc
<1>. HIDE DEF cl
<1>11. ClientState(cl) /\ Live(cl, conn[k], handler[k])
  BY <1>2, <1>3, <1>4, <1>10 DEF ClientState, Live
<1>12. conn' = [conn EXCEPT ![k] = conn[k]]
  BY <1>2, <1>4 DEF PInv, Types
<1>. QED  BY <1>2, <1>3, <1>4, <1>9, <1>10, <1>11, <1>12, MineMoves

\* Every step of a group keeps the types and the protocol.
LEMMA ClientProtocol ==
  ASSUME PInv, NEW c \in Clients, ClientNext(c)
  PROVE  Types' /\ Protocol'
<1>1. CASE GiveUp(c) \/ Kill(c)
  BY <1>1, EndProtocol DEF GiveUp, Kill
<1>. QED  BY <1>1, RequestGroupIdProtocol, ReceiveGroupIdProtocol, CommitNothingProtocol,
             CommitHeaderProtocol, CommitAgentsProtocol, SyncHeaderProtocol, SyncReplyProtocol,
             SyncAgentsProtocol, ProcessProtocol, HangUpProtocol DEF ClientNext, ClientStep

-----------------------------------------------------------------------------
(* The server keeps the protocol. *)

\* A handler at work has an open connection, whose group, if it is still there,
\* is known to be waiting for it.
LEMMA AtWork ==
  ASSUME PInv, NEW k \in Conns
  PROVE  LET cl == client[conn[k].owner]
         IN /\ conn[k] \in TConn /\ handler[k] \in THandler /\ Stream(conn[k], handler[k])
            /\ handler[k].pc # "none" => conn[k].server_open
            /\ conn[k].client_open =>
                 conn[k].owner \in Clients /\ cl \in TClient /\ Live(cl, conn[k], handler[k])
<1>1. conn[k] \in TConn /\ handler[k] \in THandler /\ ConnOK(k)
  BY DEF PInv, Types, Protocol
<1>2. handler[k].pc # "none" => conn[k].server_open
  BY DEF PInv, IInv, HandlerExclusive
<1>3. client \in [Clients -> TClient]
  BY DEF PInv, Types
<1>. QED  BY <1>1, <1>2, <1>3 DEF ConnOK

\* The requests a handler finds in a stream its group has not left.
LEMMA HeaderOf ==
  ASSUME NEW cl \in TClient, NEW co, NEW ha, Live(cl, co, ha), ha.pc = "header", co.c2s # <<>>
  PROVE  /\ co.s2c = <<>>
         /\ \/ cl.pc = "await_id" /\ co.c2s = <<Header("REQUEST_GROUP_ID", 0)>>
            \/ cl.pc = "await_commit" /\ \E n \in Nat : co.c2s = <<Header("AGENT_COMMIT", n)>>
            \/ cl.pc = "await_sync" /\ co.c2s = <<SyncRequest>>
<1>1. cl.pc \in ClientPc \ {"off", "commit", "process"}
  BY DEF Live, TClient
<1>2. ~Writing(cl, co, ha, <<>>)
  BY DEF Writing, Resting
<1>3. cl.pc \in {"await_id", "await_commit", "await_sync", "await_agents"}
  BY <1>1, <1>2 DEF Live, ClientPc
<1>4. cl.pc # "await_agents"
  BY DEF Live, AwaitAgents
<1>5. AwaitId(co, ha) => co.s2c = <<>> /\ co.c2s = <<Header("REQUEST_GROUP_ID", 0)>>
  BY DEF AwaitId
<1>6. AwaitCommit(co, ha) => co.s2c = <<>> /\ \E n \in Nat : co.c2s = <<Header("AGENT_COMMIT", n)>>
  BY DEF AwaitCommit
<1>7. AwaitSync(cl, co, ha) => co.s2c = <<>> /\ co.c2s = <<SyncRequest>>
  BY DEF AwaitSync, Writing
<1>. QED  BY <1>3, <1>4, <1>5, <1>6, <1>7 DEF Live

\* What the group of a handler in the middle of a request is waiting for.
LEMMA Busy ==
  ASSUME NEW cl \in TClient, NEW co, NEW ha, Live(cl, co, ha), co.server_open
  PROVE  /\ ha.pc = "sync" => cl.pc = "await_sync" /\ co.c2s = <<>> /\ co.s2c = <<>>
         /\ ha.pc = "sync_data" =>
              /\ co.c2s = <<>>
              /\ \/ /\ cl.pc = "await_sync"
                    /\ Size(ha.agents) > 0 /\ co.s2c = <<Ack(Size(ha.agents))>>
                 \/ cl.pc = "await_agents" /\ Size(ha.agents) = cl.expect /\ co.s2c = <<>>
         /\ ha.pc = "commit" => cl.pc = "await_commit" /\ co.c2s = <<>> /\ co.s2c = <<>>
         /\ ha.pc \in {"apply", "swap"} \/ (ha.pc = "commit_data" /\ co.c2s # <<>>) =>
              \/ cl.pc \in {"sync", "disconnect"} /\ Writing(cl, co, ha, <<>>)
              \/ cl.pc = "await_sync" /\ Writing(cl, co, ha, <<SyncRequest>>)
<1>1. cl.pc \in ClientPc \ {"off"}
  BY DEF Live, TClient
<1>2. CASE ha.pc \in Resting
  BY <1>2 DEF Resting
<1>3. CASE ha.pc \notin Resting
  <2>1. cl.pc \notin {"commit", "process", "await_id"}
    BY <1>3 DEF Live, AwaitId
  <2>2. CASE cl.pc \in {"sync", "disconnect"}
    <3>1. Writing(cl, co, ha, <<>>)
      BY <2>2 DEF Live
    <3>2. ha.pc \in {"commit_data", "apply", "swap"}
      BY <1>3, <3>1 DEF Writing
    <3>. QED  BY <2>2, <3>1, <3>2
  <2>3. CASE cl.pc = "await_commit"
    <3>1. AwaitCommit(co, ha)
      BY <2>3 DEF Live
    <3>2. \/ ha.pc = "commit" /\ co.c2s = <<>> /\ co.s2c = <<>>
          \/ ha.pc = "commit_data" /\ co.c2s = <<>>
      BY <1>3, <3>1 DEF AwaitCommit
    <3>. QED  BY <2>3, <3>2
  <2>4. CASE cl.pc = "await_sync"
    <3>1. AwaitSync(cl, co, ha)
      BY <2>4 DEF Live
    <3>2. CASE Writing(cl, co, ha, <<SyncRequest>>)
      <4>1. ha.pc \in {"commit_data", "apply", "swap"}
        BY <1>3, <3>2 DEF Writing
      <4>. QED  BY <2>4, <3>2, <4>1
    <3>3. CASE co.c2s = <<>> /\ Answered(co, ha)
      <4>1. \/ ha.pc = "sync" /\ co.s2c = <<>>
            \/ ha.pc = "sync_data" /\ Size(ha.agents) > 0 /\ co.s2c = <<Ack(Size(ha.agents))>>
        BY <1>3, <3>3 DEF Answered
      <4>. QED  BY <2>4, <3>3, <4>1
    <3>. QED  BY <3>1, <3>2, <3>3 DEF AwaitSync
  <2>5. CASE cl.pc = "await_agents"
    <3>1. AwaitAgents(cl, co, ha)
      BY <2>5 DEF Live
    <3>2. ha.pc = "sync_data" /\ co.c2s = <<>> /\ Size(ha.agents) = cl.expect /\ co.s2c = <<>>
      BY <1>3, <3>1 DEF AwaitAgents
    <3>. QED  BY <2>5, <3>2
  <2>. QED  BY <1>1, <2>1, <2>2, <2>3, <2>4, <2>5 DEF ClientPc
<1>. QED  BY <1>2, <1>3

\* A handler that takes the head of the stream.
LEMMA StreamTail ==
  ASSUME NEW r \in TConn, NEW co, NEW ha, NEW ha2, Stream(r, ha), r.c2s # <<>>,
         co.c2s = Tail(r.c2s), co.s2c = r.s2c, co.client_open = r.client_open, co.server_open,
         ha2.pc # "commit_data",
         ha2.pc = "commit" => Head(r.c2s).op = "AGENT_COMMIT",
         ha2.pc = "apply" => IsCommit(ha2.agents)
  PROVE  /\ Stream(co, ha2)
         /\ Head(r.c2s).op \in {"REQUEST_GROUP_ID", "AGENT_COMMIT"} => co.c2s = <<>>
<1>1. r.c2s \in Seq(TMessage)
  BY ConnFieldTypes
<1>2. /\ 1 \in DOMAIN r.c2s /\ r.c2s[1] = Head(r.c2s)
      /\ Len(r.c2s) = 1 => Tail(r.c2s) = <<>>
      /\ \A i \in DOMAIN Tail(r.c2s) : i + 1 \in DOMAIN r.c2s /\ Tail(r.c2s)[i] = r.c2s[i + 1]
  BY <1>1, QueueTaken
<1>3. Head(r.c2s).op \in {"REQUEST_GROUP_ID", "AGENT_COMMIT"} => co.c2s = <<>>
  BY <1>2 DEF Stream
<1>4. ASSUME NEW i \in DOMAIN co.c2s
      PROVE  co.c2s[i].op \notin {"REQUEST_GROUP_ID", "AGENT_COMMIT"}
  <2>1. i + 1 \in DOMAIN r.c2s /\ co.c2s[i] = r.c2s[i + 1]
    BY <1>2
  <2>2. Len(r.c2s) # 1
    BY <1>2, EmptyMap
  <2>. QED  BY <2>1, <2>2 DEF Stream
<1>. QED  BY <1>3, <1>4 DEF Stream

\* A handler that leaves the stream as it is.
LEMMA StreamKept ==
  ASSUME NEW r, NEW co, NEW ha, NEW ha2, Stream(r, ha), co.c2s = r.c2s,
         co.server_open = r.server_open, co.client_open = r.client_open,
         ~r.client_open => co.s2c = r.s2c,
         ha2.pc \notin {"commit", "apply"},
         ha2.pc = "commit_data" => r.c2s = <<>>
  PROVE  Stream(co, ha2)
  BY DEF Stream

\* A step of the server on connection k that leaves the number of requests for
\* a group id as it is or makes it smaller, and the other variables typed.
LEMMA ServerMoves ==
  ASSUME PInv, NEW k \in Conns, NEW ha \in THandler, NEW co \in TConn,
         UNCHANGED <<client, session, now, up, counter>>,
         handler' = [handler EXCEPT ![k] = ha],
         conn' = [conn EXCEPT ![k] = co],
         watch' \subseteq Conns, globalState' \in TMap,
         readBuffer' \in [set : BOOLEAN, agents : TMap],
         lock' \in {"free", "main"} \cup Conns,
         co.client_open = conn[k].client_open,
         co.client_open => co.owner = conn[k].owner,
         Stream(co, ha),
         conn[k].client_open /\ Live(client[conn[k].owner], conn[k], handler[k])
           => Live(client[conn[k].owner], co, ha),
         Requesting(co) => Requesting(conn[k])
  PROVE  Types' /\ Protocol'
<1>1. DOMAIN conn = Conns /\ counter \in Nat /\ MaxGroups \in Nat
  BY ServerAssumption DEF PInv, Types
<1>2. counter' \in Nat
  BY <1>1
<1>. DEFINE p == PendingIds
            q == PendingIds'
<1>3. p \in Nat /\ q \in Nat /\ q <= p /\ counter + p <= MaxGroups
  BY <1>1, Pending DEF PInv, Protocol
<1>. HIDE DEF p, q
<1>4. counter' + q <= MaxGroups
  BY <1>1, <1>3
<1>5. counter' + PendingIds' <= MaxGroups
  BY <1>4 DEF q
<1>. QED  BY <1>2, <1>5, HandlerMoves

\* A handler's state.
LEMMA AtType ==
  /\ \A pc \in HandlerPc, n \in Nat, m \in TMap :
       /\ At(pc, n, m) \in THandler /\ At(pc, n, m).pc = pc
       /\ At(pc, n, m).count = n /\ At(pc, n, m).agents = m
  /\ \A pc \in HandlerPc :
       At(pc, 0, <<>>) \in THandler /\ At(pc, 0, <<>>).pc = pc
  /\ Idle \in THandler /\ Idle.pc = "none"
<1>1. \A pc \in HandlerPc, n \in Nat, m \in TMap :
        /\ At(pc, n, m) \in THandler /\ At(pc, n, m).pc = pc
        /\ At(pc, n, m).count = n /\ At(pc, n, m).agents = m
  BY DEF At, THandler
<1>2. <<>> \in TMap /\ 0 \in Nat /\ "none" \in HandlerPc
  BY EmptyMap DEF TMap, HandlerPc
<1>. QED  BY <1>1, <1>2 DEF Idle

\* What is stored stays typed when it does not change.
LEMMA Stored ==
  ASSUME PInv, UNCHANGED stateVars
  PROVE  /\ watch \subseteq Conns /\ globalState' \in TMap
         /\ readBuffer' \in [set : BOOLEAN, agents : TMap]
         /\ lock' \in {"free", "main"} \cup Conns
  BY DEF PInv, Types, stateVars

\* A handler that closes the connection and ends.
LEMMA ClosingProtocol ==
  ASSUME PInv, NEW k \in Conns, conn' = CloseByServer(k), handler' = Finished(k),
         UNCHANGED <<client, watch, stateVars, procVars, now>>
  PROVE  Types' /\ Protocol'
<1>. DEFINE co == ClosedByServer(conn[k])
<1>1. conn[k] \in TConn /\ handler[k] \in THandler /\ Stream(conn[k], handler[k])
  BY AtWork
<1>2. /\ co \in TConn /\ ~co.server_open /\ co.c2s = <<>> /\ co.client_open = conn[k].client_open
      /\ co.s2c = IF conn[k].client_open THEN conn[k].s2c ELSE <<>>
      /\ co.client_open => co.owner = conn[k].owner
      /\ Requesting(co) => Requesting(conn[k])
  BY <1>1, Closing, NotRequesting
<1>. HIDE DEF co
<1>3. Stream(co, Idle)
  BY <1>2, AtType, EmptyMap DEF Stream
<1>4. conn[k].client_open /\ Live(client[conn[k].owner], conn[k], handler[k])
        => Live(client[conn[k].owner], co, Idle)
  BY <1>1, <1>2, AtType, LiveClosed
<1>5. conn' = [conn EXCEPT ![k] = co] /\ handler' = [handler EXCEPT ![k] = Idle]
  BY DEF CloseByServer, Finished, co
<1>6. UNCHANGED <<client, session, now, up, counter>> /\ watch' = watch
  BY DEF procVars
<1>. QED  BY <1>2, <1>3, <1>4, <1>5, <1>6, AtType, Stored, ServerMoves

\* A new group id: one request less, one id more.
LEMMA GroupIdProtocol ==
  ASSUME PInv, NEW k \in Conns, HandleRequestGroupId(k)
  PROVE  Types' /\ Protocol'
<1>. DEFINE n == counter + 1
            m == Header("SERVER_ACK", n)
            r == Received(k)
            ret == At("return", 0, <<>>)
<1>1. /\ conn[k] \in TConn /\ handler[k] \in THandler /\ Stream(conn[k], handler[k])
      /\ handler[k].pc = "header" /\ conn[k].server_open
      /\ conn[k].c2s # <<>> /\ Head(conn[k].c2s).op = "REQUEST_GROUP_ID"
  BY AtWork DEF HandleRequestGroupId, Receives
<1>2. Requesting(conn[k])
  <2>1. 1 \in DOMAIN conn[k].c2s /\ conn[k].c2s[1] = Head(conn[k].c2s)
    BY <1>1, ConnFieldTypes, QueueTaken
  <2>. QED  BY <1>1, <2>1 DEF Requesting
<1>3. /\ counter \in Nat /\ counter' = n /\ n \in Nat /\ DOMAIN conn = Conns
      /\ MaxGroups \in Nat /\ counter + PendingIds <= MaxGroups
  BY ServerAssumption DEF PInv, Types, Protocol, HandleRequestGroupId
<1>4. ASSUME NEW co, conn' = [conn EXCEPT ![k] = co], ~Requesting(co)
      PROVE  n \in 1..MaxGroups /\ counter' + PendingIds' <= MaxGroups
  <2>. DEFINE p == PendingIds
              q == PendingIds'
  <2>1. p \in Nat /\ q \in Nat /\ q <= p - 1 /\ p >= 1 /\ counter + p <= MaxGroups
    BY <1>2, <1>3, <1>4, Pending
  <2>. HIDE DEF p, q
  <2>2. n \in 1..MaxGroups /\ counter' + q <= MaxGroups
    BY <1>3, <2>1
  <2>. QED  BY <2>2 DEF q
<1>5. /\ UNCHANGED <<client, session, now, up, watch, stateVars>>
      /\ watch' \subseteq Conns /\ globalState' \in TMap
      /\ readBuffer' \in [set : BOOLEAN, agents : TMap] /\ lock' \in {"free", "main"} \cup Conns
  BY Stored DEF HandleRequestGroupId
<1>6. \A q : q.c2s = <<>> => ~Requesting(q)
  BY EmptyMap DEF Requesting
<1>7. CASE conn' = [conn EXCEPT ![k] = ToClient(r, m)] /\ handler' = [handler EXCEPT ![k] = ret]
  <2>. DEFINE co == ToClient(r, m)
  <2>1. /\ r \in TConn /\ r.c2s = Tail(conn[k].c2s) /\ r.s2c = conn[k].s2c
        /\ r.owner = conn[k].owner /\ r.client_open = conn[k].client_open
        /\ r.server_open = conn[k].server_open
    BY <1>1, Taking DEF Received
  <2>2. ret \in THandler /\ ret.pc = "return" /\ ret.pc \in Resting
    BY AtType DEF HandlerPc, Resting
  <2>. HIDE DEF ret
  <2>3. Stream(r, ret) /\ r.c2s = <<>>
    BY <1>1, <2>1, <2>2, StreamTail
  <2>4. m \in TMessage /\ "SERVER_ACK" \in Ops
    BY <1>3, Messages DEF Ops
  <2>. HIDE DEF r, m, n
  <2>5. /\ co \in TConn /\ co.c2s = r.c2s /\ co.owner = r.owner
        /\ co.client_open = r.client_open /\ co.server_open = r.server_open
        /\ co.s2c = IF r.client_open THEN Append(r.s2c, m) ELSE r.s2c
    BY <2>1, <2>4, Replying
  <2>. HIDE DEF co
  <2>6. Stream(co, ret)
    BY <2>2, <2>3, <2>5, StreamKept
  <2>7. conn' = [conn EXCEPT ![k] = co]
    BY <1>7 DEF co
  <2>8. ~Requesting(co)
    BY <1>6, <2>3, <2>5
  <2>9. n \in 1..MaxGroups /\ counter' + PendingIds' <= MaxGroups
    BY <1>4, <2>7, <2>8
  <2>10. ASSUME conn[k].client_open, Live(client[conn[k].owner], conn[k], handler[k])
         PROVE  Live(client[conn[k].owner], co, ret)
    <3>. DEFINE cl == client[conn[k].owner]
    <3>1. cl \in TClient
      BY <2>10, AtWork
    <3>. HIDE DEF cl
    <3>2. Header("REQUEST_GROUP_ID", 0).op = "REQUEST_GROUP_ID" /\ SyncRequest.op = "AGENT_SYNC_ALL"
          /\ \A x : Header("AGENT_COMMIT", x).op = "AGENT_COMMIT"
      BY DEF Header, SyncRequest
    <3>3. cl.pc = "await_id" /\ conn[k].s2c = <<>>
      <4>1. /\ conn[k].s2c = <<>>
            /\ \/ cl.pc = "await_id" /\ conn[k].c2s = <<Header("REQUEST_GROUP_ID", 0)>>
               \/ /\ cl.pc = "await_commit"
                  /\ \E x \in Nat : conn[k].c2s = <<Header("AGENT_COMMIT", x)>>
               \/ cl.pc = "await_sync" /\ conn[k].c2s = <<SyncRequest>>
        BY <1>1, <2>10, <3>1, HeaderOf DEF cl
      <4>. QED  BY <1>1, <3>2, <4>1, ShortQueues
    <3>4. Append(<<>>, m) = <<m>>
      BY <2>4, EmptySeq, Queue
    <3>5. co.s2c = <<Ack(n)>> /\ co.c2s = <<>>
      BY <2>1, <2>3, <2>5, <2>10, <3>3, <3>4 DEF m, Ack
    <3>6. AwaitId(co, ret)
      BY <2>2, <2>9, <3>5 DEF AwaitId
    <3>. QED  BY <3>3, <3>6 DEF Live, cl
  <2>. QED  BY <1>3, <1>5, <1>7, <2>1, <2>2, <2>5, <2>6, <2>7, <2>9, <2>10, HandlerMoves
<1>8. CASE conn' = CloseByServer(k) /\ handler' = Finished(k)
  <2>. DEFINE co == ClosedByServer(conn[k])
  <2>1. /\ co \in TConn /\ ~co.server_open /\ co.c2s = <<>> /\ co.client_open = conn[k].client_open
        /\ co.s2c = IF conn[k].client_open THEN conn[k].s2c ELSE <<>>
        /\ co.client_open => co.owner = conn[k].owner
    BY <1>1, Closing
  <2>. HIDE DEF co
  <2>2. conn' = [conn EXCEPT ![k] = co] /\ handler' = [handler EXCEPT ![k] = Idle]
    BY <1>8 DEF CloseByServer, Finished, co
  <2>3. counter' + PendingIds' <= MaxGroups
    BY <1>4, <1>6, <2>1, <2>2
  <2>4. Stream(co, Idle)
    BY <2>1, AtType, EmptyMap DEF Stream
  <2>5. conn[k].client_open /\ Live(client[conn[k].owner], conn[k], handler[k])
          => Live(client[conn[k].owner], co, Idle)
    BY <1>1, <2>1, AtType, LiveClosed
  <2>. QED  BY <1>3, <1>5, <2>1, <2>2, <2>3, <2>4, <2>5, AtType, HandlerMoves
<1>. QED  BY <1>7, <1>8 DEF HandleRequestGroupId, Goto

\* A header, other than the request for a group id, is taken from the stream.
LEMMA HeaderProtocol ==
  ASSUME PInv, NEW k \in Conns, HandleSyncHeader(k) \/ HandleCommitHeader(k)
  PROVE  Types' /\ Protocol'
<1>. DEFINE co == Received(k)
            head == Head(conn[k].c2s)
<1>1. /\ conn[k] \in TConn /\ handler[k] \in THandler /\ Stream(conn[k], handler[k])
      /\ handler[k].pc = "header" /\ conn[k].server_open /\ conn[k].c2s # <<>>
      /\ head \in TMessage
  BY AtWork, ConnFieldTypes, QueueTaken DEF HandleSyncHeader, HandleCommitHeader, Receives
<1>2. /\ co \in TConn /\ co.c2s = Tail(conn[k].c2s) /\ co.s2c = conn[k].s2c
      /\ co.owner = conn[k].owner /\ co.client_open = conn[k].client_open
      /\ co.server_open = conn[k].server_open
  BY <1>1, Taking DEF Received
<1>3. /\ UNCHANGED <<client, session, now, up, counter, watch, stateVars>>
      /\ watch' \subseteq Conns /\ globalState' \in TMap
      /\ readBuffer' \in [set : BOOLEAN, agents : TMap] /\ lock' \in {"free", "main"} \cup Conns
      /\ conn' = [conn EXCEPT ![k] = co]
  BY Stored DEF HandleSyncHeader, HandleCommitHeader, procVars
<1>. HIDE DEF co
<1>4. Requesting(co) => Requesting(conn[k])
  <2>1. ASSUME NEW i \in DOMAIN co.c2s PROVE i + 1 \in DOMAIN conn[k].c2s
                                             /\ co.c2s[i] = conn[k].c2s[i + 1]
    BY <1>1, <1>2, ConnFieldTypes, QueueTaken
  <2>. QED  BY <2>1 DEF Requesting
<1>5. Header("REQUEST_GROUP_ID", 0).op = "REQUEST_GROUP_ID" /\ SyncRequest.op = "AGENT_SYNC_ALL"
      /\ \A x : Header("AGENT_COMMIT", x).op = "AGENT_COMMIT"
  BY DEF Header, SyncRequest
<1>6. ASSUME conn[k].client_open, Live(client[conn[k].owner], conn[k], handler[k])
      PROVE  /\ conn[k].s2c = <<>>
             /\ head.op = "AGENT_SYNC_ALL" => client[conn[k].owner].pc = "await_sync"
             /\ head.op = "AGENT_COMMIT" => client[conn[k].owner].pc = "await_commit"
             /\ Tail(conn[k].c2s) = <<>>
  <2>. DEFINE cl == client[conn[k].owner]
  <2>1. cl \in TClient
    BY <1>6, AtWork
  <2>2. /\ conn[k].s2c = <<>>
        /\ \/ cl.pc = "await_id" /\ conn[k].c2s = <<Header("REQUEST_GROUP_ID", 0)>>
           \/ cl.pc = "await_commit" /\ \E x \in Nat : conn[k].c2s = <<Header("AGENT_COMMIT", x)>>
           \/ cl.pc = "await_sync" /\ conn[k].c2s = <<SyncRequest>>
    BY <1>1, <1>6, <2>1, HeaderOf
  <2>. HIDE DEF cl
  <2>3. \A x : Head(<<x>>) = x /\ Tail(<<x>>) = <<>>
    BY ShortQueues
  <2>4. /\ head.op = "AGENT_SYNC_ALL" => cl.pc = "await_sync"
        /\ head.op = "AGENT_COMMIT" => cl.pc = "await_commit"
    BY <1>5, <2>2, <2>3
  <2>5. Tail(conn[k].c2s) = <<>>
    BY <2>2, <2>3
  <2>. QED  BY <2>2, <2>4, <2>5 DEF cl
<1>7. CASE HandleSyncHeader(k)
  <2>. DEFINE ha == At("sync", 0, <<>>)
  <2>1. ha \in THandler /\ ha.pc = "sync" /\ handler' = [handler EXCEPT ![k] = ha]
    BY <1>7, AtType DEF HandlerPc, HandleSyncHeader, Goto
  <2>. HIDE DEF ha
  <2>2. Stream(co, ha)
    BY <1>1, <1>2, <2>1, StreamTail
  <2>3. ASSUME conn[k].client_open, Live(client[conn[k].owner], conn[k], handler[k])
        PROVE  Live(client[conn[k].owner], co, ha)
    BY <1>2, <1>6, <1>7, <2>1, <2>3 DEF HandleSyncHeader, Receives, Live, AwaitSync, Answered
  <2>. QED  BY <1>2, <1>3, <1>4, <2>1, <2>2, <2>3, ServerMoves
<1>8. CASE HandleCommitHeader(k)
  <2>. DEFINE ha == At("commit", head.n, <<>>)
  <2>1. ha \in THandler /\ ha.pc = "commit" /\ handler' = [handler EXCEPT ![k] = ha]
    <3>1. head.n \in Nat /\ <<>> \in TMap /\ "commit" \in HandlerPc
      BY <1>1, EmptyMap DEF TMessage, TMap, HandlerPc
    <3>. QED  BY <1>8, <3>1, AtType DEF HandleCommitHeader
  <2>. HIDE DEF ha
  <2>2. head.op = "AGENT_COMMIT"
    BY <1>8 DEF HandleCommitHeader, Receives
  <2>3. Stream(co, ha)
    BY <1>1, <1>2, <2>1, <2>2, StreamTail
  <2>4. ASSUME conn[k].client_open, Live(client[conn[k].owner], conn[k], handler[k])
        PROVE  Live(client[conn[k].owner], co, ha)
    BY <1>2, <1>6, <2>1, <2>2, <2>4 DEF Live, AwaitCommit
  <2>. QED  BY <1>2, <1>3, <1>4, <2>1, <2>3, <2>4, ServerMoves
<1>. QED  BY <1>7, <1>8

\* A handler that sends m and moves on to ha keeps the protocol if its group, who
\* has nothing else to read from it, finds what it is waiting for.
LEMMA ReplyMoves ==
  ASSUME PInv, NEW k \in Conns, NEW m \in TMessage, NEW ha \in THandler,
         UNCHANGED <<client, watch, stateVars, procVars, now>>,
         conn' = [conn EXCEPT ![k] = ToClient(conn[k], m)],
         handler' = [handler EXCEPT ![k] = ha],
         ha.pc \notin {"commit", "apply"},
         ha.pc = "commit_data" => conn[k].c2s = <<>>,
         \A cl \in TClient, co \in TConn :
           /\ Live(cl, conn[k], handler[k]) /\ co.c2s = conn[k].c2s
           /\ co.server_open = conn[k].server_open
           /\ co.s2c = Append(conn[k].s2c, m)
           => Live(cl, co, ha)
  PROVE  Types' /\ Protocol'
<1>. DEFINE r == conn[k]
            co == ToClient(r, m)
<1>1. r \in TConn /\ Stream(r, handler[k])
  BY AtWork
<1>2. /\ co \in TConn /\ co.c2s = r.c2s /\ co.owner = r.owner
      /\ co.client_open = r.client_open /\ co.server_open = r.server_open
      /\ co.s2c = IF r.client_open THEN Append(r.s2c, m) ELSE r.s2c
  BY <1>1, Replying
<1>3. conn' = [conn EXCEPT ![k] = co]
  OBVIOUS
<1>. HIDE DEF co
<1>4. Stream(co, ha)
  BY <1>1, <1>2, StreamKept
<1>5. ASSUME conn[k].client_open, Live(client[conn[k].owner], conn[k], handler[k])
      PROVE  Live(client[conn[k].owner], co, ha)
  <2>1. client[conn[k].owner] \in TClient
    BY <1>5, AtWork
  <2>2. co.s2c = Append(conn[k].s2c, m)
    BY <1>2, <1>5
  <2>. QED  BY <1>2, <1>5, <2>1, <2>2
<1>6. Requesting(co) => Requesting(conn[k])
  BY <1>2, NotRequesting
<1>7. UNCHANGED <<client, session, now, up, counter>> /\ watch' = watch
  BY DEF procVars
<1>. QED  BY <1>2, <1>3, <1>4, <1>5, <1>6, <1>7, Stored, ServerMoves

\* The size of the state is announced, and its agents are kept for sending.
LEMMA SyncProtocol ==
  ASSUME PInv, NEW k \in Conns, HandleSync(k)
  PROVE  Types' /\ Protocol'
<1>. DEFINE a == readBuffer.agents
            n == Cardinality(DOMAIN a)
            m == Header("SERVER_ACK", n)
            ha == IF n > 0 THEN At("sync_data", 0, a) ELSE At("return", 0, <<>>)
<1>1. /\ conn' = [conn EXCEPT ![k] = ToClient(conn[k], m)]
      /\ handler' = [handler EXCEPT ![k] = ha]
      /\ UNCHANGED <<client, watch, stateVars, procVars, now>> /\ handler[k].pc = "sync"
  BY DEF HandleSync
<1>2. a \in TMap /\ conn[k] \in TConn /\ conn[k].server_open
  BY <1>1, AtWork DEF PInv, Types
<1>3. n \in Nat /\ n = Size(a)
  BY <1>2, MapSize DEF Size
<1>. HIDE DEF a, n
<1>4. m \in TMessage /\ m = Ack(n)
  BY <1>3, Messages DEF Ops, Ack
<1>. HIDE DEF m
<1>5. /\ ha \in THandler
      /\ n > 0 => ha.pc = "sync_data" /\ ha.agents = a
      /\ ~(n > 0) => ha.pc = "return"
  BY <1>2, AtType DEF HandlerPc
<1>. HIDE DEF ha
<1>6. ASSUME NEW cl \in TClient, NEW co \in TConn, Live(cl, conn[k], handler[k]),
             co.c2s = conn[k].c2s, co.s2c = Append(conn[k].s2c, m)
      PROVE  Live(cl, co, ha)
  <2>1. cl.pc = "await_sync" /\ co.c2s = <<>> /\ conn[k].s2c = <<>>
    BY <1>1, <1>2, <1>6, Busy
  <2>2. co.s2c = <<m>>
    BY <1>4, <1>6, <2>1, EmptySeq, Queue
  <2>3. Answered(co, ha)
    <3>1. CASE n > 0
      BY <1>3, <1>4, <1>5, <2>2, <3>1 DEF Answered
    <3>2. CASE ~(n > 0)
      <4>1. n = 0
        BY <1>3, <3>2
      <4>. QED  BY <1>4, <1>5, <2>2, <3>2, <4>1 DEF Answered, Resting
    <3>. QED  BY <3>1, <3>2
  <2>. QED  BY <2>1, <2>3 DEF Live, AwaitSync
<1>. QED  BY <1>1, <1>4, <1>5, <1>6, ReplyMoves

\* The agents announced follow.
LEMMA SyncDataProtocol ==
  ASSUME PInv, NEW k \in Conns, HandleSyncData(k)
  PROVE  Types' /\ Protocol'
<1>. DEFINE a == handler[k].agents
            m == Data(a)
            ha == At("return", 0, <<>>)
<1>1. /\ conn' = [conn EXCEPT ![k] = ToClient(conn[k], m)]
      /\ handler' = [handler EXCEPT ![k] = ha]
      /\ UNCHANGED <<client, watch, stateVars, procVars, now>> /\ handler[k].pc = "sync_data"
  BY DEF HandleSyncData, Goto
<1>2. a \in TMap /\ conn[k] \in TConn /\ conn[k].server_open
  BY <1>1, AtWork DEF THandler
<1>3. ha \in THandler /\ ha.pc = "return" /\ ha.pc \in Resting
  BY AtType DEF HandlerPc, Resting
<1>4. m \in TMessage
  BY <1>2, Messages
<1>. HIDE DEF ha
<1>5. ASSUME NEW cl \in TClient, NEW co \in TConn, Live(cl, conn[k], handler[k]),
             co.c2s = conn[k].c2s, co.s2c = Append(conn[k].s2c, m)
      PROVE  Live(cl, co, ha)
  <2>1. /\ co.c2s = <<>>
        /\ \/ cl.pc = "await_sync" /\ Size(a) > 0 /\ conn[k].s2c = <<Ack(Size(a))>>
           \/ cl.pc = "await_agents" /\ Size(a) = cl.expect /\ conn[k].s2c = <<>>
    BY <1>1, <1>2, <1>5, Busy
  <2>2. CASE cl.pc = "await_sync" /\ Size(a) > 0 /\ conn[k].s2c = <<Ack(Size(a))>>
    <3>1. co.s2c = <<Ack(Size(a)), Data(a)>>
      BY <1>5, <2>2, ShortQueues
    <3>2. Answered(co, ha)
      BY <1>2, <1>3, <2>2, <3>1 DEF Answered
    <3>. QED  BY <2>1, <2>2, <3>2 DEF Live, AwaitSync
  <2>3. CASE cl.pc = "await_agents" /\ Size(a) = cl.expect /\ conn[k].s2c = <<>>
    <3>1. co.s2c = <<Data(a)>>
      BY <1>4, <1>5, <2>3, EmptySeq, Queue
    <3>2. AwaitAgents(cl, co, ha)
      BY <1>2, <1>3, <2>1, <2>3, <3>1 DEF AwaitAgents
    <3>. QED  BY <2>3, <3>2 DEF Live
  <2>. QED  BY <2>1, <2>2, <2>3
<1>. QED  BY <1>1, <1>3, <1>4, <1>5, ReplyMoves

\* A commit is acknowledged before its agents are received.
LEMMA CommitProtocol ==
  ASSUME PInv, NEW k \in Conns, HandleCommit(k)
  PROVE  Types' /\ Protocol'
<1>. DEFINE n == handler[k].count
            m == Header("SERVER_ACK", n)
            ha == At("commit_data", 0, <<>>)
<1>1. /\ conn' = [conn EXCEPT ![k] = ToClient(conn[k], m)]
      /\ handler' = [handler EXCEPT ![k] = ha]
      /\ UNCHANGED <<client, watch, stateVars, procVars, now>> /\ handler[k].pc = "commit"
  BY DEF HandleCommit, Goto
<1>2. n \in Nat /\ conn[k] \in TConn /\ conn[k].server_open /\ conn[k].c2s = <<>>
  BY <1>1, AtWork DEF THandler, Stream
<1>3. ha \in THandler /\ ha.pc = "commit_data"
  BY AtType DEF HandlerPc
<1>4. m \in TMessage /\ m = Ack(n)
  BY <1>2, Messages DEF Ops, Ack
<1>. HIDE DEF ha, m, n
<1>5. ASSUME NEW cl \in TClient, NEW co \in TConn, Live(cl, conn[k], handler[k]),
             co.c2s = conn[k].c2s, co.s2c = Append(conn[k].s2c, m)
      PROVE  Live(cl, co, ha)
  <2>1. cl.pc = "await_commit" /\ co.c2s = <<>> /\ conn[k].s2c = <<>>
    BY <1>1, <1>2, <1>5, Busy
  <2>2. co.s2c = <<m>>
    BY <1>4, <1>5, <2>1, EmptySeq, Queue
  <2>3. AwaitCommit(co, ha)
    BY <1>2, <1>3, <1>4, <2>1, <2>2 DEF AwaitCommit
  <2>. QED  BY <2>1, <2>3 DEF Live
<1>. QED  BY <1>1, <1>2, <1>3, <1>4, <1>5, ReplyMoves

\* The agents of a commit arrive.
LEMMA CommitDataProtocol ==
  ASSUME PInv, NEW k \in Conns, HandleCommitData(k)
  PROVE  Types' /\ Protocol'
<1>. DEFINE co == Received(k)
            a == Head(conn[k].c2s).agents
            ha == At("apply", 0, a)
<1>1. /\ conn[k] \in TConn /\ Stream(conn[k], handler[k]) /\ handler[k].pc = "commit_data"
      /\ conn[k].server_open /\ conn[k].c2s # <<>> /\ Head(conn[k].c2s) \in TMessage
  BY AtWork, ConnFieldTypes, QueueTaken DEF HandleCommitData
<1>2. /\ co \in TConn /\ co.c2s = Tail(conn[k].c2s) /\ co.s2c = conn[k].s2c
      /\ co.owner = conn[k].owner /\ co.client_open = conn[k].client_open
      /\ co.server_open = conn[k].server_open
  BY <1>1, Taking DEF Received
<1>3. a \in TMap /\ IsCommit(a)
  BY <1>1 DEF TMessage, Stream
<1>4. ha \in THandler /\ ha.pc = "apply" /\ ha.agents = a
  BY <1>3, AtType DEF HandlerPc
<1>5. /\ UNCHANGED <<client, session, now, up, counter, watch, stateVars>>
      /\ watch' \subseteq Conns /\ globalState' \in TMap
      /\ readBuffer' \in [set : BOOLEAN, agents : TMap] /\ lock' \in {"free", "main"} \cup Conns
      /\ conn' = [conn EXCEPT ![k] = co] /\ handler' = [handler EXCEPT ![k] = ha]
  BY Stored DEF HandleCommitData, procVars
<1>. HIDE DEF co, ha
<1>6. Requesting(co) => Requesting(conn[k])
  <2>1. ASSUME NEW i \in DOMAIN co.c2s PROVE i + 1 \in DOMAIN conn[k].c2s
                                             /\ co.c2s[i] = conn[k].c2s[i + 1]
    BY <1>1, <1>2, ConnFieldTypes, QueueTaken
  <2>. QED  BY <2>1 DEF Requesting
<1>7. Stream(co, ha)
  BY <1>1, <1>2, <1>3, <1>4, StreamTail
<1>8. ASSUME conn[k].client_open, Live(client[conn[k].owner], conn[k], handler[k])
      PROVE  Live(client[conn[k].owner], co, ha)
  <2>. DEFINE cl == client[conn[k].owner]
  <2>1. cl \in TClient
    BY <1>8, AtWork
  <2>2. \/ cl.pc \in {"sync", "disconnect"} /\ Writing(cl, conn[k], handler[k], <<>>)
        \/ cl.pc = "await_sync" /\ Writing(cl, conn[k], handler[k], <<SyncRequest>>)
    BY <1>1, <1>8, <2>1, Busy
  <2>. HIDE DEF cl
  <2>3. ASSUME NEW rest, Writing(cl, conn[k], handler[k], rest) PROVE Writing(cl, co, ha, rest)
    <3>1. Head(conn[k].c2s) = Data(InterfacesOf(cl)) /\ Tail(conn[k].c2s) = rest /\ conn[k].s2c = <<>>
      BY <1>1, <2>3 DEF Writing, Resting
    <3>2. a = InterfacesOf(cl)
      BY <3>1 DEF Data
    <3>. QED  BY <1>2, <1>4, <3>1, <3>2 DEF Writing
  <2>4. Live(cl, co, ha)
    BY <2>2, <2>3 DEF Live, AwaitSync
  <2>. QED  BY <2>4 DEF cl
<1>. QED  BY <1>2, <1>4, <1>5, <1>6, <1>7, <1>8, ServerMoves

\* The steps of a handler, and of the main thread on a connection, that leave
\* the streams alone: ha is what becomes of the handler.
LEMMA SilentMoves ==
  ASSUME PInv, NEW k \in Conns, NEW ha \in THandler, NEW co \in TConn,
         UNCHANGED <<client, procVars, now>>,
         handler' = [handler EXCEPT ![k] = ha],
         conn' = [conn EXCEPT ![k] = co],
         co.c2s = conn[k].c2s, co.s2c = conn[k].s2c, co.owner = conn[k].owner,
         co.client_open = conn[k].client_open, co.server_open = conn[k].server_open,
         watch' \subseteq Conns, globalState' \in TMap,
         readBuffer' \in [set : BOOLEAN, agents : TMap],
         lock' \in {"free", "main"} \cup Conns,
         \/ handler[k].pc \in Resting /\ ha.pc \in Resting
         \/ handler[k].pc = "apply" /\ ha.pc = "swap"
         \/ handler[k].pc = "swap" /\ ha.pc = "return"
         \/ handler[k].pc = "commit_data" /\ ha.pc = "return" /\ ~conn[k].client_open
  PROVE  Types' /\ Protocol'
<1>1. Stream(conn[k], handler[k]) /\ (handler[k].pc # "none" => conn[k].server_open)
  BY AtWork
<1>2. ha.pc \notin {"commit", "apply", "commit_data"}
  BY DEF Resting
<1>3. Stream(co, ha)
  BY <1>1, <1>2, StreamKept
<1>4. ASSUME conn[k].client_open, Live(client[conn[k].owner], conn[k], handler[k])
      PROVE  Live(client[conn[k].owner], co, ha)
  <2>. DEFINE cl == client[conn[k].owner]
  <2>1. cl \in TClient
    BY <1>4, AtWork
  <2>. HIDE DEF cl
  <2>2. CASE handler[k].pc \in Resting /\ ha.pc \in Resting
    BY <1>4, <2>2, LiveResting
  <2>3. CASE handler[k].pc \in {"apply", "swap"} /\ ha.pc \in {"swap", "return"}
    <3>1. \/ cl.pc \in {"sync", "disconnect"} /\ Writing(cl, conn[k], handler[k], <<>>)
          \/ cl.pc = "await_sync" /\ Writing(cl, conn[k], handler[k], <<SyncRequest>>)
      BY <1>1, <1>4, <2>1, <2>3, Busy DEF cl
    <3>2. \A rest : Writing(cl, conn[k], handler[k], rest) => Writing(cl, co, ha, rest)
      BY <2>3 DEF Writing, Resting
    <3>3. Live(cl, co, ha)
      BY <3>1, <3>2 DEF Live, AwaitSync
    <3>. QED  BY <3>3 DEF cl
  <2>. QED  BY <1>4, <2>2, <2>3
<1>5. Requesting(co) => Requesting(conn[k])
  BY NotRequesting
<1>6. UNCHANGED <<session, up, counter>>
  BY DEF procVars
<1>. QED  BY <1>3, <1>4, <1>5, <1>6, ServerMoves

\* Accepting, selecting, giving up a commit, applying one, swapping the buffer
\* and returning keep the protocol.
LEMMA SilentProtocol ==
  ASSUME PInv, NEW k \in Conns,
         \/ Accept(k) \/ Dispatch(k)
         \/ HandleCommitLost(k) \/ HandleApply(k) \/ HandleSwap(k) \/ HandlerReturn(k)
  PROVE  Types' /\ Protocol'
<1>1. /\ conn[k] \in TConn /\ handler[k] \in THandler /\ conn \in [Conns -> TConn]
      /\ handler \in [Conns -> THandler]
  BY AtWork DEF PInv, Types
<1>2. /\ conn = [conn EXCEPT ![k] = conn[k]] /\ handler = [handler EXCEPT ![k] = handler[k]]
  BY <1>1
<1>3. \A pc \in HandlerPc : At(pc, 0, <<>>) \in THandler /\ At(pc, 0, <<>>).pc = pc
  BY AtType
<1>4. {"none", "return", "header", "swap"} \subseteq HandlerPc
  BY DEF HandlerPc
<1>5. /\ watch \subseteq Conns /\ globalState \in TMap
      /\ readBuffer \in [set : BOOLEAN, agents : TMap] /\ lock \in {"free", "main"} \cup Conns
  BY DEF PInv, Types
<1>6. CASE Accept(k)
  <2>. DEFINE co == [conn[k] EXCEPT !.accepted = TRUE]
  <2>1. /\ co \in TConn /\ co.c2s = conn[k].c2s /\ co.s2c = conn[k].s2c
        /\ co.owner = conn[k].owner /\ co.client_open = conn[k].client_open
        /\ co.server_open = conn[k].server_open
    BY <1>1 DEF TConn
  <2>2. handler[k].pc = "none"
    BY <1>6 DEF PInv, IInv, HandlerExclusive, Accept
  <2>3. handler[k].pc \in Resting
    BY <2>2 DEF Resting
  <2>4. conn' = [conn EXCEPT ![k] = co] /\ watch' = watch \cup {k}
    BY <1>6 DEF Accept
  <2>5. UNCHANGED <<client, procVars, now, handler, stateVars>>
    BY <1>6 DEF Accept
  <2>. HIDE DEF co
  <2>. QED  BY <1>1, <1>2, <1>5, <2>1, <2>3, <2>4, <2>5, SilentMoves DEF stateVars
<1>7. CASE Dispatch(k)
  <2>1. handler[k].pc \in Resting
    BY <1>7 DEF PInv, IInv, HandlerExclusive, Dispatch, Resting
  <2>2. handler' = [handler EXCEPT ![k] = At("header", 0, <<>>)]
    BY <1>7 DEF Dispatch, Goto
  <2>3. UNCHANGED <<client, conn, procVars, now, stateVars>> /\ watch' = watch \ {k}
    BY <1>7 DEF Dispatch
  <2>. QED  BY <1>1, <1>2, <1>3, <1>4, <1>5, <2>1, <2>2, <2>3, SilentMoves DEF stateVars, Resting
<1>8. CASE HandleCommitLost(k)
  <2>1. /\ handler' = [handler EXCEPT ![k] = At("return", 0, <<>>)]
        /\ handler[k].pc = "commit_data" /\ ~conn[k].client_open
        /\ UNCHANGED <<client, conn, watch, stateVars, procVars, now>>
    BY <1>8 DEF HandleCommitLost, Goto
  <2>. DEFINE ha == At("return", 0, <<>>)
  <2>2. ha \in THandler /\ ha.pc = "return" /\ handler' = [handler EXCEPT ![k] = ha]
    BY <1>3, <1>4, <2>1
  <2>. HIDE DEF ha
  <2>3. conn' = [conn EXCEPT ![k] = conn[k]]
    BY <1>2, <2>1
  <2>4. /\ watch' \subseteq Conns /\ globalState' \in TMap
        /\ readBuffer' \in [set : BOOLEAN, agents : TMap] /\ lock' \in {"free", "main"} \cup Conns
    BY <1>5, <2>1 DEF stateVars
  <2>5. UNCHANGED <<client, procVars, now>> /\ handler[k].pc = "commit_data" /\ ~conn[k].client_open
    BY <2>1
  <2>. QED  BY <1>1, <2>2, <2>3, <2>4, <2>5, SilentMoves, Zenon
<1>9. CASE HandleApply(k)
  <2>1. /\ handler' = [handler EXCEPT ![k] = At("swap", 0, <<>>)]
        /\ handler[k].pc = "apply" /\ lock' = k
        /\ globalState' = Merge(globalState, handler[k].agents)
        /\ UNCHANGED <<client, conn, watch, readBuffer, procVars, now>>
    BY <1>9 DEF HandleApply, Goto
  <2>2. globalState' \in TMap
    BY <1>1, <1>5, <2>1, MapOperators DEF THandler
  <2>. QED  BY <1>1, <1>2, <1>3, <1>4, <1>5, <2>1, <2>2, SilentMoves
<1>10. CASE HandleSwap(k)
  <2>1. /\ handler' = [handler EXCEPT ![k] = At("return", 0, <<>>)]
        /\ handler[k].pc = "swap" /\ lock' = "free"
        /\ readBuffer' = Buffer(globalState) /\ globalState' = globalState
        /\ UNCHANGED <<client, conn, watch, procVars, now>>
    BY <1>10 DEF HandleSwap, Goto, UpdateReadBuffer
  <2>2. readBuffer' \in [set : BOOLEAN, agents : TMap]
    BY <1>5, <2>1 DEF Buffer
  <2>. QED  BY <1>1, <1>2, <1>3, <1>4, <1>5, <2>1, <2>2, SilentMoves
<1>11. CASE HandlerReturn(k)
  <2>1. /\ handler' = [handler EXCEPT ![k] = Idle]
        /\ handler[k].pc = "return" /\ watch' = watch \cup {k}
        /\ UNCHANGED <<client, conn, stateVars, procVars, now>>
    BY <1>11 DEF HandlerReturn, Finished
  <2>2. Idle \in THandler /\ Idle.pc \in Resting /\ handler[k].pc \in Resting
    BY <2>1, AtType DEF Resting
  <2>3. conn' = [conn EXCEPT ![k] = conn[k]]
    BY <1>2, <2>1
  <2>4. /\ watch' \subseteq Conns /\ globalState' \in TMap
        /\ readBuffer' \in [set : BOOLEAN, agents : TMap] /\ lock' \in {"free", "main"} \cup Conns
    BY <1>5, <2>1 DEF stateVars
  <2>. QED  BY <1>1, <2>1, <2>2, <2>3, <2>4, SilentMoves
<1>. QED  BY <1>6, <1>7, <1>8, <1>9, <1>10, <1>11

\* Steps that no connection sees.
LEMMA StillProtocol ==
  ASSUME PInv, UNCHANGED <<client, conn, watch, handler, counter>>,
         globalState' \in TMap, readBuffer' \in [set : BOOLEAN, agents : TMap],
         lock' \in {"free", "main"} \cup Conns, up' \in BOOLEAN,
         session' \in 0..MaxSession, now' \in 0..MaxTime
  PROVE  Types' /\ Protocol'
<1>1. Types'
  BY DEF PInv, Types
<1>2. Protocol'
  BY DEF PInv, Protocol, ClientOK, ConnOK, PendingIds
<1>. QED  BY <1>1, <1>2

\* The removal of expired agents, starts of the server and the clock's ticks.
LEMMA MainProtocol ==
  ASSUME PInv, ExpiredAgentCheck \/ ExpiredAgentsSwap \/ ServerStart \/ Tick \/ UNCHANGED vars
  PROVE  Types' /\ Protocol'
<1>1. /\ globalState \in TMap /\ readBuffer \in [set : BOOLEAN, agents : TMap]
      /\ lock \in {"free", "main"} \cup Conns /\ up \in BOOLEAN
      /\ session \in 0..MaxSession /\ now \in 0..MaxTime /\ MaxSession \in Nat /\ MaxTime \in Nat
  BY ServerAssumption DEF PInv, Types
<1>2. CASE ExpiredAgentCheck
  <2>1. globalState' = Drop(globalState, Expired(globalState)) /\ lock' = "main"
        /\ UNCHANGED <<client, netVars, readBuffer, procVars, now>>
    BY <1>2 DEF ExpiredAgentCheck
  <2>2. globalState' \in TMap
    BY <1>1, <2>1, MapOperators
  <2>. QED  BY <1>1, <2>1, <2>2, StillProtocol DEF netVars, procVars
<1>3. CASE ExpiredAgentsSwap
  <2>1. /\ readBuffer' = Buffer(globalState) /\ lock' = "free" /\ globalState' = globalState
        /\ UNCHANGED <<client, netVars, procVars, now>>
    BY <1>3 DEF ExpiredAgentsSwap, UpdateReadBuffer
  <2>2. readBuffer' \in [set : BOOLEAN, agents : TMap]
    BY <1>1, <2>1 DEF Buffer
  <2>. QED  BY <1>1, <2>1, <2>2, StillProtocol DEF netVars, procVars
<1>4. CASE ServerStart
  <2>1. /\ up' = TRUE /\ session < MaxSession /\ session' = session + 1
        /\ UNCHANGED <<client, netVars, stateVars, counter, now>>
    BY <1>4 DEF ServerStart
  <2>. QED  BY <1>1, <2>1, StillProtocol DEF netVars, stateVars
<1>5. CASE Tick
  <2>1. /\ now < MaxTime /\ now' = now + 1
        /\ UNCHANGED <<client, netVars, stateVars, procVars>>
    BY <1>5 DEF Tick
  <2>. QED  BY <1>1, <2>1, StillProtocol DEF netVars, stateVars, procVars
<1>6. CASE UNCHANGED vars
  BY <1>1, <1>6, StillProtocol DEF vars, netVars, stateVars, procVars
<1>. QED  BY <1>2, <1>3, <1>4, <1>5, <1>6

\* Every step of a handler keeps the types and the protocol.
LEMMA HandlerProtocol ==
  ASSUME PInv, NEW k \in Conns, HandlerStep(k)
  PROVE  Types' /\ Protocol'
<1>1. CASE HandleEndOfStream(k) \/ HandleDisconnect(k) \/ HandlerIoFails(k)
  BY <1>1, ClosingProtocol DEF HandleEndOfStream, HandleDisconnect, HandlerIoFails
<1>2. CASE HandleSyncNull(k)
  BY <1>2, GoneProtocol DEF HandleSyncNull
<1>. QED  BY <1>1, <1>2, GroupIdProtocol, HeaderProtocol, SyncProtocol, SyncDataProtocol,
             CommitProtocol, CommitDataProtocol, SilentProtocol DEF HandlerStep

\* The invariant of the exchange holds at first.
LEMMA InitProtocol == Init => PInv
<1>. SUFFICES ASSUME Init PROVE PInv
  OBVIOUS
<1>1. IInv
  BY InitInvariant
<1>2. <<>> \in TMap
  BY EmptyMap DEF TMap
<1>3. Types
  <2>1. 1 \in 0..MaxSession /\ 1 \in 0..MaxTime
    BY ServerAssumption
  <2>2. client \in [Clients -> TClient]
    BY OffState DEF Init
  <2>3. conn \in [Conns -> TConn] /\ handler \in [Conns -> THandler]
    BY Free, AtType DEF Init
  <2>. QED  BY <1>2, <2>1, <2>2, <2>3 DEF Init, Types, NullBuffer
<1>4. ASSUME NEW c \in Clients PROVE ClientOK(c)
  BY OffState DEF Init, ClientOK
<1>5. ASSUME NEW k \in Conns PROVE ConnOK(k)
  <2>1. conn[k] = FreeConn /\ handler[k] = Idle
    BY DEF Init
  <2>2. Stream(conn[k], handler[k])
    BY <2>1, Free, AtType, EmptyMap DEF Stream
  <2>. QED  BY <2>1, <2>2, Free DEF ConnOK
<1>6. PendingIds = 0
  <2>1. {k \in Conns : \E i \in DOMAIN conn[k].c2s :
            conn[k].c2s[i].op = "REQUEST_GROUP_ID"} = {}
    BY Free, EmptyMap DEF Init
  <2>. QED  BY <2>1, FS_EmptySet DEF PendingIds
<1>7. counter + PendingIds <= MaxGroups
  BY <1>6, ServerAssumption DEF Init
<1>. QED  BY <1>1, <1>3, <1>4, <1>5, <1>7 DEF PInv, Protocol

\* Every step keeps it.
LEMMA NextProtocol == PInv /\ [Next]_vars => PInv'
<1>. SUFFICES ASSUME PInv, [Next]_vars PROVE PInv'
  OBVIOUS
<1>1. IInv'
  BY NextInvariant DEF PInv
<1>2. Types' /\ Protocol'
  <2>1. CASE \E c \in Clients : ClientNext(c)
    BY <2>1, ClientProtocol
  <2>2. CASE \E k \in Conns : Accept(k) \/ Dispatch(k)
    BY <2>2, SilentProtocol
  <2>3. CASE \E k \in Conns : HandlerStep(k)
    BY <2>3, HandlerProtocol
  <2>4. CASE ServerStop
    BY <2>4, GoneProtocol DEF ServerStop
  <2>5. CASE ExpiredAgentCheck \/ ExpiredAgentsSwap \/ ServerStart \/ Tick \/ UNCHANGED vars
    BY <2>5, MainProtocol
  <2>. QED  BY <2>1, <2>2, <2>3, <2>4, <2>5 DEF Next, ClientNext
<1>. QED  BY <1>1, <1>2 DEF PInv

-----------------------------------------------------------------------------
(* The theorems of the exchange. *)

\* Groups, connections and handlers stay in step: the invariant of the exchange
\* holds of every reachable state.
THEOREM ExchangeInvariant == Spec => []PInv
  BY InitProtocol, NextProtocol, PTL DEF Spec

\* The types proved are those the runs check.
LEMMA TypesSuffice == PInv => TypeOK
<1>. SUFFICES ASSUME PInv PROVE TypeOK
  OBVIOUS
<1>1. Val \subseteq InterfaceType
  <2>1. (IF Expiring = {} THEN {0} ELSE 0..MaxTime + Lifetime) \subseteq 0..MaxTime + Lifetime
    BY ServerAssumption
  <2>. QED  BY <2>1 DEF Val, InterfaceType
<1>2. ASSUME NEW K PROVE TMaps(K) \subseteq MapsOver(K)
  <2>. SUFFICES ASSUME NEW m \in TMaps(K) PROVE m \in MapsOver(K)
    OBVIOUS
  <2>1. DOMAIN m \subseteq K /\ m \in [DOMAIN m -> Val]
    BY MapForm
  <2>2. m \in [DOMAIN m -> InterfaceType]
    BY <1>1, <2>1
  <2>. QED  BY <2>1, <2>2 DEF MapsOver
<1>3. TMap \subseteq AgentMap
  BY <1>2 DEF TMap, AgentMap
<1>4. TMessage \subseteq MessageType
  BY <1>3 DEF TMessage, MessageType
<1>5. ASSUME NEW s \in Seq(TMessage) PROVE s \in Seq(MessageType)
  BY <1>4, SeqMonotonic
<1>6. TConn \subseteq ConnType
  BY <1>5 DEF TConn, ConnType
<1>7. TClient \subseteq ClientType
  BY <1>2 DEF TClient, ClientType
<1>8. THandler \subseteq HandlerType
  BY <1>3 DEF THandler, HandlerType
<1>9. counter \in 0..MaxGroups
  <2>1. counter \in Nat /\ counter + PendingIds <= MaxGroups /\ MaxGroups \in Nat
    BY ServerAssumption DEF PInv, Types, Protocol
  <2>2. PendingIds \in Nat
    <3>1. {k \in Conns : \E i \in DOMAIN conn[k].c2s :
              conn[k].c2s[i].op = "REQUEST_GROUP_ID"} \subseteq Conns
      OBVIOUS
    <3>. QED  BY <3>1, ServerAssumption, FS_Subset, FS_CardinalityType DEF PendingIds
  <2>. DEFINE p == PendingIds
  <2>3. p \in Nat /\ counter + p <= MaxGroups
    BY <2>1, <2>2
  <2>. HIDE DEF p
  <2>. QED  BY <2>1, <2>3
<1>. QED  BY <1>3, <1>6, <1>7, <1>8, <1>9 DEF PInv, Types, TypeOK

\* The variables keep their types; in particular the ids handed out stay within
\* the bound on m_agent_group_counter, as a request is only sent when it fits.
THEOREM TypeCorrect == Spec => []TypeOK
  BY ExchangeInvariant, TypesSuffice, PTL

\* Over the connection in use the server applies the group's current agents: only
\* a commit whose group has hung up can be out of date.
THEOREM CommitsAreCurrent == Spec => []StaleOnlyAfterDisconnect
<1>1. PInv => StaleOnlyAfterDisconnect
  <2>. SUFFICES ASSUME PInv, NEW k \in Conns, handler[k].pc = "apply", conn[k].client_open
                PROVE  handler[k].agents = Interfaces(conn[k].owner)
    BY DEF StaleOnlyAfterDisconnect
  <2>. DEFINE cl == client[conn[k].owner]
  <2>1. cl \in TClient /\ Live(cl, conn[k], handler[k]) /\ conn[k].server_open
    BY AtWork
  <2>2. PICK rest : Writing(cl, conn[k], handler[k], rest)
    BY <2>1, Busy
  <2>3. handler[k].agents = InterfacesOf(cl)
    BY <2>2 DEF Writing, Resting
  <2>. QED  BY <2>3 DEF InterfacesOf, Interfaces
<1>. QED  BY <1>1, ExchangeInvariant, PTL

\* The agents that follow a reply header are as many as it announced, although
\* commits and expiry change the state between the two.
THEOREM SyncReplies == Spec => []SyncReplyComplete
<1>1. PInv => SyncReplyComplete
  <2>. SUFFICES ASSUME PInv, NEW c \in Clients, client[c].pc = "await_agents", Inbox(c) # <<>>
                PROVE  Cardinality(DOMAIN Head(Inbox(c)).agents) = client[c].expect
    BY DEF SyncReplyComplete
  <2>. DEFINE k == client[c].conn
  <2>1. Inbox(c) = conn[k].s2c /\ Live(client[c], conn[k], handler[k])
    BY Reading
  <2>2. AwaitAgents(client[c], conn[k], handler[k])
    BY <2>1 DEF Live
  <2>3. PICK m \in TMap : Size(m) = client[c].expect /\ conn[k].s2c = <<Data(m)>>
    BY <2>1, <2>2 DEF AwaitAgents
  <2>4. Head(Inbox(c)).agents = m
    BY <2>1, <2>3, ShortQueues DEF Data
  <2>. QED  BY <2>3, <2>4 DEF Size
<1>. QED  BY <1>1, ExchangeInvariant, PTL

-----------------------------------------------------------------------------
(* The server implements the single-threaded PublishedState. *)

\* What the groups see of the server's state.
Pub == IF readBuffer.set THEN readBuffer.agents ELSE <<>>

\* The change that the holder of the lock is about to publish: a whole commit, or
\* the removal of all that had expired by some time.
ExpiredBy(m, t) == {j \in DOMAIN m : m[j].expires \in 1..t}
Held ==
  /\ lock \in Conns => \E m : IsCommit(m) /\ globalState = Merge(Pub, m)
  /\ lock = "main" =>
       \E id \in DOMAIN Pub : globalState = Drop(Pub, ExpiredBy(Pub, Pub[id].expires))

\* Few steps change the state that the lock protects.
LEMMA StepsOnState ==
  ASSUME [Next]_vars
  PROVE  \/ UNCHANGED stateVars \/ ServerGone
         \/ ExpiredAgentCheck \/ ExpiredAgentsSwap
         \/ \E k \in Conns : HandleApply(k) \/ HandleSwap(k)
<1>1. ASSUME NEW c \in Clients, ClientNext(c) PROVE UNCHANGED stateVars
  BY <1>1 DEF ClientNext, ClientStep, RequestGroupId, ReceiveGroupId, CommitNothing, CommitHeader,
       CommitAgents, SyncHeader, SyncReply, SyncAgents, Process, Disconnect, Exit, GiveUp, Kill,
       serverUnchanged
<1>2. ASSUME NEW k \in Conns, Accept(k) \/ Dispatch(k) \/ HandlerStep(k)
      PROVE  UNCHANGED stateVars \/ ServerGone \/ HandleApply(k) \/ HandleSwap(k)
  BY <1>2 DEF Accept, Dispatch, HandlerStep, HandleEndOfStream, HandleDisconnect,
       HandleRequestGroupId, HandleSyncHeader, HandleCommitHeader, HandleSync, HandleSyncNull,
       HandleSyncData, HandleCommit, HandleCommitData, HandleCommitLost, HandlerIoFails,
       HandlerReturn
<1>3. ASSUME ServerStop \/ ServerStart \/ Tick \/ UNCHANGED vars
      PROVE  UNCHANGED stateVars \/ ServerGone
  BY <1>3 DEF ServerStop, ServerStart, Tick, vars
<1>. QED  BY <1>1, <1>2, <1>3 DEF Next, ClientNext

\* Of a nonempty set of numbers below a bound, one is the greatest.
LEMMA Greatest ==
  ASSUME NEW n \in Nat, NEW S, S # {}, S \subseteq 0..n
  PROVE  \E x \in S : \A y \in S : y <= x
<1>. DEFINE T == {i \in Nat : n - i \in S}
            R == {p \in Nat \X Nat : p[1] < p[2]}
<1>1. IsWellFoundedOn(R, Nat)
  BY NatLessThanWellFounded DEF OpToRel
<1>2. T \subseteq Nat /\ T # {}
  <2>1. PICK x \in S : TRUE
    OBVIOUS
  <2>2. n - x \in Nat /\ n - (n - x) = x
    BY <2>1
  <2>3. n - x \in T
    BY <2>1, <2>2
  <2>. QED  BY <2>3
<1>3. PICK i \in T : \A j \in T : <<j, i>> \notin R
  <2>. HIDE DEF T, R
  <2>. QED  BY <1>1, <1>2, WFMin
<1>4. ASSUME NEW y \in S PROVE y <= n - i
  <2>1. n - y \in Nat /\ n - (n - y) = y
    BY <1>4
  <2>2. n - y \in T
    BY <1>4, <2>1
  <2>3. ~(n - y < i)
    BY <1>3, <2>1, <2>2
  <2>. QED  BY <1>3, <1>4, <2>3
<1>. QED  BY <1>3, <1>4

\* What has expired is what had expired by the time of the latest of it.
LEMMA ExpiredLatest ==
  ASSUME NEW m \in TMap, now \in Nat, Expired(m) # {}
  PROVE  \E id \in DOMAIN m : Expired(m) = ExpiredBy(m, m[id].expires)
<1>1. \A j \in DOMAIN m : m[j].expires \in Nat
  <2>1. m \in [DOMAIN m -> Val]
    BY MapForm DEF TMap
  <2>2. \A v \in Val : v.expires \in Nat
    BY ServerAssumption DEF Val
  <2>. QED  BY <2>1, <2>2
<1>. DEFINE S == {m[j].expires : j \in Expired(m)}
<1>2. S # {} /\ S \subseteq 0..now
  BY <1>1 DEF Expired
<1>3. PICK x \in S : \A y \in S : y <= x
  <2>. HIDE DEF S
  <2>. QED  BY <1>2, Greatest
<1>4. PICK id \in Expired(m) : x = m[id].expires
  BY <1>3
<1>5. \A j \in Expired(m) : m[j].expires <= m[id].expires
  BY <1>3, <1>4
<1>6. id \in DOMAIN m /\ m[id].expires < now
  BY <1>1, <1>4 DEF Expired
<1>7. Expired(m) = ExpiredBy(m, m[id].expires)
  BY <1>1, <1>5, <1>6 DEF Expired, ExpiredBy
<1>. QED  BY <1>6, <1>7

\* The holder of the lock has made a change of the published state, and nothing else.
LEMMA HeldInvariant == PInv /\ Held /\ [Next]_vars => Held'
<1>. SUFFICES ASSUME PInv, Held, [Next]_vars PROVE Held'
  OBVIOUS
<1>0. "free" \notin Conns /\ "main" \notin Conns
  BY ServerAssumption
<1>1. CASE UNCHANGED stateVars
  BY <1>1 DEF Held, Pub, stateVars
<1>2. CASE ServerGone
  BY <1>0, <1>2 DEF Held, ServerGone
<1>3. ASSUME lock = "free" PROVE globalState = Pub
  BY <1>3 DEF PInv, IInv, BufferConsistent, Pub
<1>4. CASE ExpiredAgentCheck
  <2>1. /\ lock = "free" /\ lock' = "main" /\ Expired(globalState) # {}
        /\ globalState' = Drop(globalState, Expired(globalState)) /\ Pub' = Pub
    BY <1>4 DEF ExpiredAgentCheck, Pub
  <2>2. globalState \in TMap /\ now \in Nat
    BY ServerAssumption DEF PInv, Types
  <2>3. \E id \in DOMAIN Pub : Expired(globalState) = ExpiredBy(Pub, Pub[id].expires)
    BY <1>3, <2>1, <2>2, ExpiredLatest
  <2>. QED  BY <1>0, <1>3, <2>1, <2>3 DEF Held
<1>5. CASE ExpiredAgentsSwap
  BY <1>0, <1>5 DEF Held, ExpiredAgentsSwap, UpdateReadBuffer
<1>6. ASSUME NEW k \in Conns, HandleApply(k) PROVE Held'
  <2>1. /\ lock = "free" /\ lock' = k /\ handler[k].pc = "apply"
        /\ globalState' = Merge(globalState, handler[k].agents) /\ Pub' = Pub
    BY <1>6 DEF HandleApply, Pub
  <2>2. IsCommit(handler[k].agents)
    BY <2>1, AtWork DEF Stream
  <2>. QED  BY <1>0, <1>3, <2>1, <2>2 DEF Held
<1>7. ASSUME NEW k \in Conns, HandleSwap(k) PROVE Held'
  BY <1>0, <1>7 DEF Held, HandleSwap, UpdateReadBuffer
<1>. QED  BY <1>1, <1>2, <1>4, <1>5, <1>6, <1>7, StepsOnState

\* A commit is one to PublishedState, and both make the same of it.
LEMMA SameCommits ==
  /\ \A m : IsCommit(m) => m \in Published!Commits
  /\ \A m, a : Published!Merge(m, a) = Merge(m, a)
  /\ \A m, S : Published!Drop(m, S) = Drop(m, S)
<1>1. ASSUME NEW m, IsCommit(m) PROVE m \in Published!Commits
  <2>1. DOMAIN m \subseteq IdsOf(1..MaxGroups) /\ m \in [DOMAIN m -> Val]
    BY <1>1, MapForm DEF IsCommit, TMap
  <2>2. DOMAIN m # {} /\ Published!SameGroup(DOMAIN m)
    BY <1>1 DEF IsCommit, Published!SameGroup
  <2>. QED  BY <2>1, <2>2 DEF Published!Commits, Val
<1>2. ASSUME NEW m, NEW a PROVE Published!Merge(m, a) = Merge(m, a)
  BY DEF Merge, Leq, Less, GroupMask,
         Published!Merge, Published!Leq, Published!Less, Published!GroupMask
<1>3. ASSUME NEW m, NEW S PROVE Published!Drop(m, S) = Drop(m, S)
  BY DEF Drop, Published!Drop
<1>. QED  BY <1>1, <1>2, <1>3

\* Releasing the lock publishes the change of its holder, in one step.
LEMMA SwapRefines ==
  ASSUME PInv, Held
  PROVE  /\ ExpiredAgentsSwap => Published!Expire
         /\ \A k \in Conns : HandleSwap(k) => Published!Commit
<1>1. ASSUME ExpiredAgentsSwap PROVE Published!Expire
  <2>1. lock = "main" /\ Pub' = globalState
    BY <1>1 DEF ExpiredAgentsSwap, UpdateReadBuffer, Buffer, Pub
  <2>2. PICK id \in DOMAIN Pub : globalState = Drop(Pub, ExpiredBy(Pub, Pub[id].expires))
    BY <2>1 DEF Held
  <2>3. Pub[id].expires \in Nat
    <3>1. readBuffer.agents \in TMap
      BY DEF PInv, Types
    <3>2. Pub \in TMap
      BY <3>1, EmptyMap DEF Pub, TMap
    <3>3. Pub[id] \in Val
      BY <2>2, <3>2, MapForm DEF TMap
    <3>. QED  BY <3>3, ServerAssumption DEF Val
  <2>4. Published!ExpiredAt(Pub[id].expires + 1) = ExpiredBy(Pub, Pub[id].expires)
    <3>. DEFINE e == Pub[id].expires
                t == e + 1
    <3>1. e \in Nat
      BY <2>3
    <3>. HIDE DEF e
    <3>2. t - 1 = e
      BY <3>1
    <3>. HIDE DEF t
    <3>3. Published!ExpiredAt(t) = {j \in DOMAIN Pub : Pub[j].expires \in 1..t - 1}
      BY DEF Published!ExpiredAt, Pub
    <3>4. Published!ExpiredAt(t) = ExpiredBy(Pub, e)
      BY <3>2, <3>3 DEF ExpiredBy
    <3>. QED  BY <3>4 DEF t, e
  <2>. QED  BY <2>1, <2>2, <2>4, SameCommits DEF Published!Expire, Pub
<1>2. ASSUME NEW k \in Conns, HandleSwap(k) PROVE Published!Commit
  <2>1. handler[k].pc = "swap" /\ Pub' = globalState
    BY <1>2 DEF HandleSwap, UpdateReadBuffer, Buffer, Pub
  <2>2. lock = k
    BY <2>1 DEF PInv, IInv, LockDiscipline
  <2>3. PICK m : IsCommit(m) /\ globalState = Merge(Pub, m)
    BY <2>2 DEF Held
  <2>. QED  BY <2>1, <2>3, SameCommits DEF Published!Commit, Pub
<1>. QED  BY <1>1, <1>2

\* The read buffer, which every sync is answered from, moves as the state of a
\* server without threads does: by whole commits, by the removal of everything
\* that has expired, and to nothing when the server goes; every other step of
\* the handlers, the main thread and the groups leaves it alone.
THEOREM PublishedIsImplemented == Spec => ImplementsPublishedState
<1>1. Init => Held /\ Published!Init
  BY ServerAssumption DEF Init, Held, NullBuffer, Published!Init
<1>2. PInv /\ Held /\ [Next]_vars
        => [Published!Next]_(IF readBuffer.set THEN readBuffer.agents ELSE <<>>)
  <2>. SUFFICES ASSUME PInv, Held, [Next]_vars PROVE Published!Next \/ Pub' = Pub
    BY DEF Pub
  <2>1. CASE UNCHANGED stateVars \/ ExpiredAgentCheck
    BY <2>1 DEF stateVars, ExpiredAgentCheck, Pub
  <2>2. CASE ServerGone
    BY <2>2 DEF ServerGone, NullBuffer, Published!Next, Published!Restart
  <2>3. CASE ExpiredAgentsSwap
    BY <2>3, SwapRefines DEF Published!Next
  <2>4. ASSUME NEW k \in Conns, HandleApply(k) \/ HandleSwap(k)
        PROVE  Published!Next \/ Pub' = Pub
    BY <2>4, SwapRefines DEF Published!Next, HandleApply, Pub
  <2>. QED  BY <2>1, <2>2, <2>3, <2>4, StepsOnState
<1>. QED  BY <1>1, <1>2, InitProtocol, NextProtocol, HeldInvariant, PTL
          DEF Spec, ImplementsPublishedState, Published!Spec

-----------------------------------------------------------------------------
(* Agents under way: what the streams to the server hold.                  *)

\* The messages in a stream to the server, and their maps of agents.
InStream(r) == {r.c2s[i] : i \in DOMAIN r.c2s}
StreamMaps(r) == {m.agents : m \in InStream(r)}

\* What the ends do to them.
LEMMA InStreamOf ==
  ASSUME NEW r \in TConn
  PROVE  /\ \A m \in TMessage : InStream(ToServer(r, m)) \subseteq InStream(r) \cup {m}
         /\ \A m \in TMessage : InStream(ToClient(r, m)) = InStream(r)
         /\ InStream(ClosedByClient(r)) \subseteq InStream(r)
         /\ InStream(ClosedByServer(r)) \subseteq InStream(r)
         /\ r.c2s # <<>> =>
              /\ Head(r.c2s) \in InStream(r)
              /\ InStream([r EXCEPT !.c2s = Tail(@)]) \subseteq InStream(r)
         /\ r.s2c # <<>> => InStream([r EXCEPT !.s2c = Tail(@)]) = InStream(r)
         /\ r.c2s = <<>> => InStream(r) = {}
<1>0. r.c2s \in Seq(TMessage)
  BY ConnFieldTypes
<1>1. ASSUME NEW m \in TMessage
      PROVE  InStream(ToServer(r, m)) \subseteq InStream(r) \cup {m}
  <2>1. CASE r.server_open
    <3>. DEFINE q == Append(r.c2s, m)
    <3>1. ToServer(r, m).c2s = q
      BY <2>1, Sending
    <3>2. \A i \in DOMAIN q : (i \in DOMAIN r.c2s /\ q[i] = r.c2s[i]) \/ q[i] = m
      BY <1>0, Queue
    <3>. HIDE DEF q
    <3>. QED  BY <3>1, <3>2 DEF InStream
  <2>2. CASE ~r.server_open
    BY <2>2, Sending DEF InStream
  <2>. QED  BY <2>1, <2>2
<1>2. ASSUME NEW m \in TMessage PROVE InStream(ToClient(r, m)) = InStream(r)
  BY Replying DEF InStream
<1>3. ASSUME NEW q, q.c2s = <<>> PROVE InStream(q) = {}
  BY <1>3, EmptyMap DEF InStream
<1>4. /\ InStream(ClosedByClient(r)) \subseteq InStream(r)
      /\ InStream(ClosedByServer(r)) \subseteq InStream(r)
  <2>. DEFINE x == ClosedByClient(r)
              y == ClosedByServer(r)
  <2>1. (x.c2s = r.c2s \/ x.c2s = <<>>) /\ y.c2s = <<>>
    BY Closing
  <2>. HIDE DEF x, y
  <2>2. InStream(x) \subseteq InStream(r) /\ InStream(y) \subseteq InStream(r)
    BY <1>3, <2>1 DEF InStream
  <2>. QED  BY <2>2 DEF x, y
<1>5. ASSUME r.c2s # <<>>
      PROVE  /\ Head(r.c2s) \in InStream(r)
             /\ InStream([r EXCEPT !.c2s = Tail(@)]) \subseteq InStream(r)
  <2>. DEFINE x == [r EXCEPT !.c2s = Tail(@)]
              q == Tail(r.c2s)
  <2>1. x.c2s = q
    BY <1>5, Taking
  <2>2. /\ 1 \in DOMAIN r.c2s /\ r.c2s[1] = Head(r.c2s)
        /\ \A i \in DOMAIN q : i + 1 \in DOMAIN r.c2s /\ q[i] = r.c2s[i + 1]
    BY <1>0, <1>5, QueueTaken
  <2>. HIDE DEF x, q
  <2>3. InStream(x) \subseteq InStream(r) /\ Head(r.c2s) \in InStream(r)
    BY <2>1, <2>2 DEF InStream
  <2>. QED  BY <2>3 DEF x
<1>6. ASSUME r.s2c # <<>> PROVE InStream([r EXCEPT !.s2c = Tail(@)]) = InStream(r)
  <2>1. [r EXCEPT !.s2c = Tail(@)].c2s = r.c2s
    BY <1>6, Taking
  <2>. QED  BY <2>1 DEF InStream
<1>. QED  BY <1>1, <1>2, <1>3, <1>4, <1>5, <1>6

\* A group has a number of agents.
LEMMA AgentCount == ASSUME PInv, NEW c \in Clients PROVE Cardinality(DOMAIN client[c].agents) \in Nat
<1>1. client[c].agents \in TMaps(Numbers)
  BY DEF PInv, Types, TClient
<1>2. DOMAIN client[c].agents \subseteq Numbers
  BY <1>1, MapForm
<1>3. IsFiniteSet(Numbers)
  BY ServerAssumption, FS_Interval DEF Numbers
<1>. QED  BY <1>2, <1>3, FS_Subset, FS_CardinalityType

\* The data of a commit are the group's agents.
LEMMA CommitData ==
  ASSUME PInv, NEW c \in Clients, CommitAgents(c)
  PROVE  Data(Interfaces(c)) \in TMessage /\ Data(Interfaces(c)).agents = Interfaces(c)
<1>1. client[c] \in TClient /\ client[c].gid # 0
  BY DEF CommitAgents, PInv, Types, Protocol, ClientOK, ClientState
<1>2. Interfaces(c) = InterfacesOf(client[c])
  BY DEF Interfaces, InterfacesOf
<1>. QED  BY <1>1, <1>2, InterfacesAreMap, Messages

\* What a step of a group makes of it.
LEMMA ClientEffect ==
  ASSUME PInv, NEW c \in Clients, ClientNext(c)
  PROVE  \E cl :
           /\ client' = [client EXCEPT ![c] = cl]
           /\ cl.pc = "await_id" => RequestGroupId(c)
           /\ \/ cl = Off
              \/ /\ ReceiveGroupId(c) /\ cl.pc = "commit" /\ cl.synced = client[c].synced
                 /\ cl.gid = Head(Inbox(c)).n
                 /\ \E n \in InitialAgents :
                      cl.agents = [i \in 1..n |-> [round |-> 0, expires |-> 0]]
              \/ /\ Process(c) /\ cl.pc = "commit" /\ cl.gid = client[c].gid
                 /\ cl.synced = client[c].synced
              \/ /\ cl.gid = client[c].gid /\ cl.agents = client[c].agents
                 /\ \/ cl.synced = client[c].synced
                    \/ SyncReply(c) \/ SyncAgents(c)
<1>. DEFINE Effect(cl) ==
       /\ client' = [client EXCEPT ![c] = cl]
       /\ cl.pc = "await_id" => RequestGroupId(c)
       /\ \/ cl = Off
          \/ /\ ReceiveGroupId(c) /\ cl.pc = "commit" /\ cl.synced = client[c].synced
             /\ cl.gid = Head(Inbox(c)).n
             /\ \E n \in InitialAgents :
                  cl.agents = [i \in 1..n |-> [round |-> 0, expires |-> 0]]
          \/ /\ Process(c) /\ cl.pc = "commit" /\ cl.gid = client[c].gid
             /\ cl.synced = client[c].synced
          \/ /\ cl.gid = client[c].gid /\ cl.agents = client[c].agents
             /\ \/ cl.synced = client[c].synced
                \/ SyncReply(c) \/ SyncAgents(c)
<1>. SUFFICES \E cl : Effect(cl)
  OBVIOUS
<1>0. client[c] \in TClient
  BY DEF PInv, Types
<1>1. ASSUME NEW op, NEW n, NEW pc, SendRequest(c, op, n, pc), pc = "await_id" => RequestGroupId(c)
      PROVE  \E cl : Effect(cl)
  <2>1. PICK k : client' = [client EXCEPT ![c].pc = pc, ![c].conn = k]
    BY <1>1 DEF SendRequest
  <2>. DEFINE cl == [client[c] EXCEPT !.pc = pc, !.conn = k]
  <2>2. client' = [client EXCEPT ![c] = cl]
    BY <2>1
  <2>3. /\ cl.pc = pc /\ cl.gid = client[c].gid /\ cl.agents = client[c].agents
        /\ cl.synced = client[c].synced
    BY <1>0 DEF TClient
  <2>. HIDE DEF cl
  <2>4. Effect(cl)
    BY <1>1, <2>2, <2>3
  <2>. QED  BY <2>4
<1>2. CASE RequestGroupId(c) \/ CommitHeader(c) \/ SyncHeader(c)
  BY <1>1, <1>2 DEF RequestGroupId, CommitHeader, SyncHeader
<1>3. CASE ReceiveGroupId(c)
  <2>1. PICK n \in InitialAgents :
          client' = [client EXCEPT
            ![c].pc = "commit", ![c].gid = Head(Inbox(c)).n, ![c].number = n,
            ![c].agents = [i \in 1..n |-> [round |-> 0, expires |-> 0]],
            ![c].session = session]
    BY <1>3 DEF ReceiveGroupId
  <2>. DEFINE agents == [i \in 1..n |-> [round |-> 0, expires |-> 0]]
              cl == [client[c] EXCEPT !.pc = "commit", !.gid = Head(Inbox(c)).n, !.number = n,
                                      !.agents = agents, !.session = session]
  <2>2. client' = [client EXCEPT ![c] = cl]
    BY <2>1
  <2>. HIDE DEF agents
  <2>3. /\ cl.pc = "commit" /\ cl.gid = Head(Inbox(c)).n /\ cl.agents = agents
        /\ cl.synced = client[c].synced
    BY <1>0 DEF TClient
  <2>. HIDE DEF cl
  <2>4. Effect(cl)
    BY <1>3, <2>2, <2>3 DEF agents
  <2>. QED  BY <2>4
<1>4. CASE Process(c)
  <2>. DEFINE stamp == IF c \in Expiring THEN now + Lifetime ELSE 0
  <2>1. PICK keep \in SUBSET DOMAIN client[c].agents, n \in client[c].number..MaxAgents :
          client' = [client EXCEPT
            ![c].pc = "commit", ![c].round = @ + 1, ![c].number = n,
            ![c].agents = [i \in keep \cup (client[c].number + 1)..n |->
               IF i \in keep
               THEN [round |-> client[c].round + 1, expires |-> stamp]
               ELSE [round |-> client[c].round + 1, expires |-> 0]]]
    BY <1>4 DEF Process
  <2>. DEFINE agents == [i \in keep \cup (client[c].number + 1)..n |->
                           IF i \in keep
                           THEN [round |-> client[c].round + 1, expires |-> stamp]
                           ELSE [round |-> client[c].round + 1, expires |-> 0]]
              cl == [client[c] EXCEPT !.pc = "commit", !.round = client[c].round + 1,
                                      !.number = n, !.agents = agents]
  <2>2. client' = [client EXCEPT ![c] = cl]
    BY <2>1
  <2>. HIDE DEF agents
  <2>3. cl.pc = "commit" /\ cl.gid = client[c].gid /\ cl.synced = client[c].synced
    BY <1>0 DEF TClient
  <2>. HIDE DEF cl
  <2>4. Effect(cl)
    BY <1>4, <2>2, <2>3
  <2>. QED  BY <2>4
<1>5. CASE \/ CommitNothing(c) \/ CommitAgents(c) \/ SyncReply(c) \/ SyncAgents(c)
           \/ Disconnect(c)
  <2>1. \E cl : /\ client' = [client EXCEPT ![c] = cl]
                /\ cl.pc # "await_id" /\ cl.gid = client[c].gid
                /\ cl.agents = client[c].agents
                /\ cl.synced = client[c].synced \/ SyncReply(c) \/ SyncAgents(c)
    <3>1. CASE CommitNothing(c) \/ CommitAgents(c)
      <4>1. AfterCommit(c) # "await_id"
        BY DEF AfterCommit
      <4>. QED  BY <1>0, <3>1, <4>1 DEF CommitNothing, CommitAgents, TClient
    <3>2. CASE SyncReply(c)
      <4>. DEFINE n == Head(Inbox(c)).n
                  pc == IF n > 0 THEN "await_agents" ELSE "process"
                  cl == [client[c] EXCEPT !.pc = pc, !.expect = n, !.synced = @ \/ n = 0]
      <4>1. client' = [client EXCEPT ![c] = cl]
        BY <3>2 DEF SyncReply
      <4>2. cl.pc = pc /\ cl.gid = client[c].gid /\ cl.agents = client[c].agents
        BY <1>0 DEF TClient
      <4>3. pc # "await_id"
        OBVIOUS
      <4>. HIDE DEF cl, pc
      <4>. QED  BY <3>2, <4>1, <4>2, <4>3
    <3>3. CASE SyncAgents(c) \/ Disconnect(c)
      BY <1>0, <3>3 DEF SyncAgents, Disconnect, TClient
    <3>. QED  BY <1>5, <3>1, <3>2, <3>3
  <2>. QED  BY <2>1
<1>6. CASE Exit(c) \/ GiveUp(c) \/ Kill(c)
  <2>1. client' = [client EXCEPT ![c] = Off] /\ Off.pc # "await_id"
    BY <1>6 DEF Exit, GiveUp, Kill, Off
  <2>2. Effect(Off)
    BY <2>1
  <2>. QED  BY <2>2
<1>. QED  BY <1>2, <1>3, <1>4, <1>5, <1>6 DEF ClientNext, ClientStep

\* A group sends requests, and no agents but its own as the data of a commit.
LEMMA ClientStreams ==
  ASSUME PInv, NEW c \in Clients, ClientNext(c), NEW j \in Conns
  PROVE  \E m \in TMessage :
           /\ InStream(conn'[j]) \subseteq InStream(conn[j]) \cup {m}
           /\ m.op = "AGENT_SYNC_ALL" => SyncHeader(c) /\ j \in Connectable(c)
           /\ \/ m.agents = <<>>
              \/ CommitAgents(c) /\ j = client[c].conn /\ m.agents = Interfaces(c)
<1>. DEFINE Within(m) == InStream(conn'[j]) \subseteq InStream(conn[j]) \cup {m}
            bye == Header("DISCONNECT", 0)
            Goal == \E m \in TMessage :
                      /\ Within(m)
                      /\ m.op = "AGENT_SYNC_ALL" => SyncHeader(c) /\ j \in Connectable(c)
                      /\ \/ m.agents = <<>>
                         \/ CommitAgents(c) /\ j = client[c].conn /\ m.agents = Interfaces(c)
<1>. SUFFICES Goal
  OBVIOUS
<1>0. /\ conn \in [Conns -> TConn] /\ conn[j] \in TConn
      /\ client[c].conn \in Conns \cup {NoConn}
      /\ bye \in TMessage /\ bye.op = "DISCONNECT" /\ bye.agents = <<>>
  BY Messages DEF PInv, Types, TClient, Ops
<1>. HIDE DEF bye
<1>a. Within(bye) => Goal
  BY <1>0
<1>1. ASSUME NEW op \in Ops, NEW n \in Nat, NEW pc, SendRequest(c, op, n, pc),
             op = "AGENT_SYNC_ALL" => SyncHeader(c)
      PROVE  Goal
  <2>. PICK k \in Connectable(c) :
         conn' = [conn EXCEPT ![k] = ToServer(Connected(c, k), Header(op, n))]
    BY <1>1 DEF SendRequest
  <2>. DEFINE r == Connected(c, k)
              m == Header(op, n)
  <2>1. k \in Conns /\ r \in TConn /\ (r = conn[k] \/ r.c2s = <<>>)
    BY Connecting
  <2>2. m \in TMessage /\ m.op = op /\ m.agents = <<>>
    BY Messages
  <2>. HIDE DEF r, m
  <2>3. InStream(ToServer(r, m)) \subseteq InStream(conn[k]) \cup {m}
    BY <2>1, <2>2, InStreamOf
  <2>4. conn'[j] = IF j = k THEN ToServer(r, m) ELSE conn[j]
    BY <1>0, <2>1 DEF r, m
  <2>5. CASE j = k
    BY <1>1, <2>2, <2>3, <2>4, <2>5
  <2>6. CASE j # k
    BY <1>a, <2>4, <2>6
  <2>. QED  BY <2>5, <2>6
<1>2. ASSUME Inbox(c) # <<>>, conn' = Consume(c) PROVE Within(bye)
  <2>1. client[c].conn \in Conns /\ Inbox(c) = conn[client[c].conn].s2c
    BY <1>2, Reading
  <2>2. InStream(Taken(c)) = InStream(conn[client[c].conn])
    BY <1>0, <1>2, <2>1, InStreamOf DEF Taken
  <2>. QED  BY <1>0, <1>2, <2>1, <2>2 DEF Consume
<1>3. ASSUME conn' = CloseOf(c) PROVE Within(bye)
  <2>. DEFINE k == client[c].conn
  <2>1. CASE k = NoConn
    BY <1>0, <1>3, <2>1 DEF CloseOf
  <2>2. CASE k # NoConn
    <3>1. k \in Conns /\ conn' = [conn EXCEPT ![k] = ClosedByClient(conn[k])]
      BY <1>0, <1>3, <2>2 DEF CloseOf
    <3>. HIDE DEF k
    <3>2. InStream(ClosedByClient(conn[k])) \subseteq InStream(conn[k])
      BY <1>0, <3>1, InStreamOf
    <3>. QED  BY <1>0, <3>1, <3>2
  <2>. QED  BY <2>1, <2>2
<1>4. ASSUME conn' = HangUp(c) PROVE Within(bye)
  <2>. DEFINE k == client[c].conn
              x == ToServer(conn[k], bye)
  <2>1. CASE k = NoConn
    BY <1>0, <1>4, <2>1 DEF HangUp
  <2>2. CASE k # NoConn
    <3>1. k \in Conns /\ conn' = [conn EXCEPT ![k] = ClosedByClient(x)]
      BY <1>0, <1>4, <2>2 DEF HangUp, bye
    <3>. HIDE DEF k
    <3>2. conn[k] \in TConn
      BY <1>0, <3>1
    <3>3. x \in TConn /\ InStream(x) \subseteq InStream(conn[k]) \cup {bye}
      BY <1>0, <3>2, Sending, InStreamOf
    <3>. HIDE DEF x
    <3>4. InStream(ClosedByClient(x)) \subseteq InStream(conn[k]) \cup {bye}
      BY <3>3, InStreamOf
    <3>. QED  BY <1>0, <3>1, <3>4
  <2>. QED  BY <2>1, <2>2
<1>5. CASE CommitAgents(c)
  <2>. DEFINE k == client[c].conn
              m == Data(Interfaces(c))
              x == Taken(c)
  <2>1. k \in Conns /\ x \in TConn /\ Inbox(c) = conn[k].s2c /\ Inbox(c) # <<>>
        /\ conn' = [conn EXCEPT ![k] = ToServer(x, m)] /\ client[c].pc = "await_commit"
    BY <1>5, Reading DEF CommitAgents
  <2>2. m \in TMessage /\ m.op = "DATA" /\ m.agents = Interfaces(c)
    BY <1>5, CommitData DEF Data
  <2>3. InStream(x) = InStream(conn[k])
    BY <1>0, <2>1, InStreamOf DEF Taken
  <2>. HIDE DEF x, m
  <2>4. InStream(ToServer(x, m)) \subseteq InStream(conn[k]) \cup {m}
    BY <2>1, <2>2, <2>3, InStreamOf
  <2>5. CASE j = k
    BY <1>0, <1>5, <2>1, <2>2, <2>4, <2>5
  <2>6. CASE j # k
    BY <1>0, <1>a, <2>1, <2>6
  <2>. QED  BY <2>5, <2>6
<1>6. CASE RequestGroupId(c) \/ CommitHeader(c) \/ SyncHeader(c)
  <2>1. {"REQUEST_GROUP_ID", "AGENT_COMMIT", "AGENT_SYNC_ALL"} \subseteq Ops /\ 0 \in Nat
    BY DEF Ops
  <2>. HIDE DEF Goal
  <2>. QED  BY <1>1, <1>6, <2>1, AgentCount DEF RequestGroupId, CommitHeader, SyncHeader
<1>7. CASE ReceiveGroupId(c) \/ SyncReply(c) \/ SyncAgents(c)
  BY <1>a, <1>2, <1>7 DEF ReceiveGroupId, SyncReply, SyncAgents
<1>8. CASE CommitNothing(c) \/ Process(c)
  BY <1>a, <1>8 DEF CommitNothing, Process
<1>9. CASE Disconnect(c) \/ Exit(c) \/ GiveUp(c) \/ Kill(c)
  BY <1>a, <1>3, <1>4, <1>9 DEF Disconnect, Exit, GiveUp, Kill
<1>. QED  BY <1>5, <1>6, <1>7, <1>8, <1>9 DEF ClientNext, ClientStep

\* A step of the server on connection k only takes from the streams, and what its
\* handlers then have is what they took or the read buffer.
TakesOnly(j) ==
  /\ InStream(conn'[j]) \subseteq InStream(conn[j])
  /\ \/ handler'[j] = handler[j]
     \/ handler'[j].pc # "apply" /\ handler'[j].agents \in {<<>>, readBuffer.agents}
     \/ \E m \in InStream(conn[j]) : handler'[j].agents = m.agents

\* The form of such a step: co is made of the connection, pc and m of the handler.
LEMMA TakesMoves ==
  ASSUME PInv, NEW k \in Conns, NEW j \in Conns, NEW pc, NEW n, NEW m, NEW co,
         pc # "apply", m = <<>> \/ m = readBuffer.agents,
         InStream(co) \subseteq InStream(conn[k]),
         handler' = [handler EXCEPT ![k] = At(pc, n, m)],
         conn' = [conn EXCEPT ![k] = co]
  PROVE  TakesOnly(j)
<1>0. DOMAIN conn = Conns /\ DOMAIN handler = Conns
  BY DEF PInv, Types
<1>1. CASE j = k
  <2>1. /\ handler'[j].pc = pc /\ handler'[j].agents = m
        /\ conn'[j] = co
    BY <1>0, <1>1 DEF At
  <2>. QED  BY <1>1, <2>1 DEF TakesOnly
<1>2. CASE j # k
  BY <1>0, <1>2 DEF TakesOnly
<1>. QED  BY <1>1, <1>2

\* Every step of the server is one.
LEMMA ServerStreams ==
  ASSUME PInv, NEW k \in Conns, NEW j \in Conns,
         Accept(k) \/ Dispatch(k) \/ HandlerStep(k) \/ ServerGone
  PROVE  TakesOnly(j)
<1>0. /\ conn \in [Conns -> TConn] /\ handler \in [Conns -> THandler] /\ conn[k] \in TConn
      /\ conn = [conn EXCEPT ![k] = conn[k]]
  BY DEF PInv, Types
<1>1. \A m \in TMessage : InStream(ToClient(conn[k], m)) = InStream(conn[k])
  BY <1>0, InStreamOf
<1>2. ASSUME conn[k].c2s # <<>>
      PROVE  /\ Received(k) \in TConn /\ InStream(Received(k)) \subseteq InStream(conn[k])
             /\ Head(conn[k].c2s) \in InStream(conn[k])
             /\ Head(conn[k].c2s) \in TMessage
  BY <1>0, <1>2, InStreamOf, Taking, ConnFieldTypes, QueueTaken DEF Received
<1>3. InStream(ClosedByServer(conn[k])) \subseteq InStream(conn[k])
  BY <1>0, InStreamOf
<1>5. CASE Accept(k)
  <2>1. conn' = [conn EXCEPT ![k] = [conn[k] EXCEPT !.accepted = TRUE]] /\ handler' = handler
    BY <1>5 DEF Accept
  <2>2. [conn[k] EXCEPT !.accepted = TRUE].c2s = conn[k].c2s
    BY <1>0 DEF TConn
  <2>3. InStream([conn[k] EXCEPT !.accepted = TRUE]) = InStream(conn[k])
    BY <2>2 DEF InStream
  <2>4. CASE j = k
    BY <1>0, <2>1, <2>3, <2>4 DEF TakesOnly
  <2>5. CASE j # k
    BY <1>0, <2>1, <2>5 DEF TakesOnly
  <2>. QED  BY <2>4, <2>5
<1>6. CASE \/ Dispatch(k) \/ HandleCommitLost(k) \/ HandleApply(k) \/ HandleSwap(k)
           \/ HandlerReturn(k)
  <2>1. conn' = [conn EXCEPT ![k] = conn[k]]
    BY <1>0, <1>6 DEF Dispatch, HandleCommitLost, HandleApply, HandleSwap, HandlerReturn
  <2>2. PICK pc \in {"header", "return", "swap", "none"} :
          handler' = [handler EXCEPT ![k] = At(pc, 0, <<>>)]
    BY <1>6 DEF Dispatch, HandleCommitLost, HandleApply, HandleSwap, HandlerReturn, Goto,
                Finished, Idle
  <2>. QED  BY <2>1, <2>2, TakesMoves
<1>7. ASSUME conn' = CloseByServer(k), handler' = Finished(k) PROVE TakesOnly(j)
  <2>1. /\ conn' = [conn EXCEPT ![k] = ClosedByServer(conn[k])]
        /\ handler' = [handler EXCEPT ![k] = At("none", 0, <<>>)]
    BY <1>7 DEF CloseByServer, Finished, Idle
  <2>. QED  BY <1>3, <2>1, TakesMoves
<1>8. CASE HandleRequestGroupId(k)
  <2>. DEFINE m == Header("SERVER_ACK", counter')
              co == ToClient(Received(k), m)
  <2>1. m \in TMessage
    <3>1. counter' \in Nat /\ "SERVER_ACK" \in Ops
      BY <1>8 DEF HandleRequestGroupId, PInv, Types, Ops
    <3>. QED  BY <3>1, Messages
  <2>2. conn[k].c2s # <<>>
    BY <1>8 DEF HandleRequestGroupId, Receives
  <2>3. \/ conn' = CloseByServer(k) /\ handler' = Finished(k)
        \/ conn' = [conn EXCEPT ![k] = co] /\ handler' = [handler EXCEPT ![k] = At("return", 0, <<>>)]
    BY <1>8 DEF HandleRequestGroupId, Goto
  <2>. HIDE DEF m
  <2>4. InStream(co) \subseteq InStream(conn[k])
    <3>1. Received(k) \in TConn /\ InStream(Received(k)) \subseteq InStream(conn[k])
      BY <1>2, <2>2
    <3>. DEFINE r == Received(k)
    <3>. HIDE DEF r
    <3>2. InStream(ToClient(r, m)) = InStream(r)
      BY <2>1, <3>1, InStreamOf DEF r
    <3>. QED  BY <3>1, <3>2 DEF r
  <2>. HIDE DEF co
  <2>. QED  BY <1>7, <2>3, <2>4, TakesMoves
<1>9. CASE HandleSyncHeader(k) \/ HandleCommitHeader(k)
  <2>1. conn' = [conn EXCEPT ![k] = Received(k)] /\ conn[k].c2s # <<>>
    BY <1>9 DEF HandleSyncHeader, HandleCommitHeader, Receives
  <2>2. \/ handler' = [handler EXCEPT ![k] = At("sync", 0, <<>>)]
        \/ handler' = [handler EXCEPT ![k] = At("commit", Head(conn[k].c2s).n, <<>>)]
    BY <1>9 DEF HandleSyncHeader, HandleCommitHeader, Goto
  <2>. QED  BY <1>2, <2>1, <2>2, TakesMoves
<1>10. CASE HandleSync(k)
  <2>. DEFINE n == Cardinality(DOMAIN readBuffer.agents)
              m == Header("SERVER_ACK", n)
  <2>1. m \in TMessage
    <3>1. n \in Nat /\ "SERVER_ACK" \in Ops
      BY MapSize DEF PInv, Types, Ops, Size
    <3>. QED  BY <3>1, Messages
  <2>2. /\ conn' = [conn EXCEPT ![k] = ToClient(conn[k], m)]
        /\ \/ handler' = [handler EXCEPT ![k] = At("sync_data", 0, readBuffer.agents)]
           \/ handler' = [handler EXCEPT ![k] = At("return", 0, <<>>)]
    BY <1>10 DEF HandleSync
  <2>3. InStream(ToClient(conn[k], m)) \subseteq InStream(conn[k])
    BY <1>1, <2>1
  <2>. HIDE DEF m, n
  <2>. QED  BY <2>2, <2>3, TakesMoves
<1>11. CASE HandleSyncData(k) \/ HandleCommit(k)
  <2>1. Data(handler[k].agents) \in TMessage /\ Header("SERVER_ACK", handler[k].count) \in TMessage
    <3>1. handler[k].agents \in TMap /\ handler[k].count \in Nat /\ "SERVER_ACK" \in Ops
      BY <1>0 DEF THandler, Ops
    <3>. QED  BY <3>1, Messages
  <2>2. PICK m \in TMessage, pc \in {"return", "commit_data"} :
          /\ conn' = [conn EXCEPT ![k] = ToClient(conn[k], m)]
          /\ handler' = [handler EXCEPT ![k] = At(pc, 0, <<>>)]
    BY <1>11, <2>1 DEF HandleSyncData, HandleCommit, Goto
  <2>3. InStream(ToClient(conn[k], m)) \subseteq InStream(conn[k])
    BY <1>1
  <2>. QED  BY <2>2, <2>3, TakesMoves
<1>12. CASE HandleCommitData(k)
  <2>1. /\ conn' = [conn EXCEPT ![k] = Received(k)] /\ conn[k].c2s # <<>>
        /\ handler' = [handler EXCEPT ![k] = At("apply", 0, Head(conn[k].c2s).agents)]
    BY <1>12 DEF HandleCommitData
  <2>2. CASE j = k
    <3>1. conn'[j] = Received(k) /\ handler'[j].agents = Head(conn[k].c2s).agents
      BY <1>0, <2>1, <2>2 DEF At
    <3>. QED  BY <1>2, <2>1, <2>2, <3>1 DEF TakesOnly
  <2>3. CASE j # k
    BY <1>0, <2>1, <2>3 DEF TakesOnly
  <2>. QED  BY <2>2, <2>3
<1>13. CASE ServerGone
  <2>1. /\ handler'[j].agents = <<>> /\ handler'[j].pc = "none"
        /\ conn'[j] = IF conn[j].server_open THEN ClosedByServer(conn[j]) ELSE conn[j]
    BY <1>13 DEF ServerGone, Idle, At
  <2>2. InStream(ClosedByServer(conn[j])) \subseteq InStream(conn[j])
    BY <1>0, InStreamOf
  <2>. QED  BY <2>1, <2>2 DEF TakesOnly
<1>14. CASE HandleEndOfStream(k) \/ HandleDisconnect(k) \/ HandlerIoFails(k)
  BY <1>7, <1>14 DEF HandleEndOfStream, HandleDisconnect, HandlerIoFails
<1>. QED  BY <1>5, <1>6, <1>8, <1>9, <1>10, <1>11, <1>12, <1>13, <1>14
         DEF HandlerStep, HandleSyncNull

-----------------------------------------------------------------------------
(* Group ids, while the server runs without a restart. *)

\* Group id n is on its way to a group that waits for it.
Offered(k, n) ==
  /\ conn[k].client_open /\ client[conn[k].owner].pc = "await_id"
  /\ conn[k].s2c = <<Ack(n)>>

\* A step of a group changes no connection that another group has, and leaves the
\* server's end of its own open.
LEMMA OwnConnection ==
  ASSUME PInv, NEW c \in Clients, ClientNext(c)
  PROVE  \A j \in Conns :
           \/ conn'[j] = conn[j] \/ ~conn'[j].client_open
           \/ /\ conn'[j].owner = c /\ (RequestGroupId(c) => conn'[j].s2c = <<>>)
              /\ (conn[j].client_open => conn[j].server_open) => conn'[j].server_open
<1>0. /\ conn \in [Conns -> TConn]
      /\ client[c].conn \in Conns \cup {NoConn}
  BY DEF PInv, Types, TClient
<1>. DEFINE Own(k, r) ==
       \/ ~r.client_open
       \/ /\ r.owner = c /\ (RequestGroupId(c) => r.s2c = <<>>)
          /\ (conn[k].client_open => conn[k].server_open) => r.server_open
<1>2. \E k, r : (k \in Conns => Own(k, r)) /\ (conn' = conn \/ conn' = [conn EXCEPT ![k] = r])
  <2>. DEFINE Goal == \E k, r : (k \in Conns => Own(k, r))
                               /\ (conn' = conn \/ conn' = [conn EXCEPT ![k] = r])
  <2>. SUFFICES Goal
    OBVIOUS
  <2>1. ASSUME NEW op \in Ops, NEW n \in Nat, NEW pc, SendRequest(c, op, n, pc)
        PROVE  Goal
    <3>. PICK k \in Connectable(c) :
           conn' = [conn EXCEPT ![k] = ToServer(Connected(c, k), Header(op, n))]
      BY <2>1 DEF SendRequest
    <3>. DEFINE q == Connected(c, k)
                m == Header(op, n)
                r == ToServer(q, m)
    <3>1. q \in TConn /\ q.owner = c
      BY Connecting
    <3>2. RequestGroupId(c) => q.s2c = <<>>
      <4>1. RequestGroupId(c) => client[c].conn = NoConn
        BY OffState DEF RequestGroupId, PInv, Protocol, ClientOK, ClientState
      <4>2. client[c].conn = NoConn => q.s2c = <<>>
        BY Connecting, ServerAssumption
      <4>. QED  BY <4>1, <4>2
    <3>3. m \in TMessage
      BY Messages
    <3>. HIDE DEF q, m
    <3>4. r.owner = c /\ r.s2c = q.s2c /\ r.server_open = q.server_open
      BY <3>1, <3>3, Sending
    <3>6. (conn[k].client_open => conn[k].server_open) => q.server_open
      <4>1. CASE client[c].conn = k
        BY <4>1, Connecting DEF q, Connected
      <4>2. CASE client[c].conn # k
        BY <4>2 DEF q, Connected, FreeConn
      <4>. QED  BY <4>1, <4>2
    <3>5. Own(k, r) /\ conn' = [conn EXCEPT ![k] = r]
      BY <3>2, <3>4, <3>6 DEF q, m
    <3>. HIDE DEF r, Own
    <3>. QED  BY <3>5
  <2>2. ASSUME ~RequestGroupId(c), Inbox(c) # <<>>, NEW m \in TMessage,
               \/ conn' = Consume(c)
               \/ conn' = [conn EXCEPT ![client[c].conn] = ToServer(Taken(c), m)]
        PROVE  Goal
    <3>. DEFINE k == client[c].conn
                q == Taken(c)
                r == ToServer(q, m)
    <3>1. /\ q \in TConn /\ q.owner = c
          /\ (conn[k].client_open => conn[k].server_open) => q.server_open
      BY <2>2, Reading, Mine
    <3>2. \/ conn' = [conn EXCEPT ![k] = q]
          \/ conn' = [conn EXCEPT ![k] = r]
      BY <2>2 DEF Consume
    <3>. HIDE DEF q, k
    <3>3. r.owner = c /\ r.server_open = q.server_open
      BY <2>2, <3>1, Sending
    <3>4. Own(k, q) /\ Own(k, r)
      BY <2>2, <3>1, <3>3
    <3>. HIDE DEF r, Own
    <3>. QED  BY <3>2, <3>4
  <2>3. ASSUME conn' = CloseOf(c) \/ conn' = HangUp(c)
        PROVE  Goal
    <3>. DEFINE k == client[c].conn
                m == Header("DISCONNECT", 0)
                q == ToServer(conn[k], m)
    <3>1. CASE k = NoConn
      <4>1. conn' = conn /\ NoConn \notin Conns
        BY <2>3, <3>1, ServerAssumption DEF CloseOf, HangUp
      <4>. HIDE DEF Own
      <4>. QED  BY <4>1
    <3>2. CASE k # NoConn
      <4>1. \/ conn' = [conn EXCEPT ![k] = ClosedByClient(conn[k])]
            \/ conn' = [conn EXCEPT ![k] = ClosedByClient(q)]
        BY <2>3, <3>2 DEF CloseOf, HangUp
      <4>2. conn[k] \in TConn /\ m \in TMessage
        BY <1>0, <3>2, Messages DEF Ops
      <4>. HIDE DEF k, m
      <4>3. q \in TConn
        BY <4>2, Sending
      <4>. HIDE DEF q
      <4>4. ~ClosedByClient(conn[k]).client_open /\ ~ClosedByClient(q).client_open
        BY <4>2, <4>3, Closing
      <4>5. Own(k, ClosedByClient(conn[k])) /\ Own(k, ClosedByClient(q))
        BY <4>4
      <4>. HIDE DEF Own
      <4>. QED  BY <4>1, <4>5
    <3>. QED  BY <3>1, <3>2
  <2>. HIDE DEF Goal
  <2>4. CASE RequestGroupId(c) \/ CommitHeader(c) \/ SyncHeader(c)
    <3>1. {"REQUEST_GROUP_ID", "AGENT_COMMIT", "AGENT_SYNC_ALL"} \subseteq Ops /\ 0 \in Nat
      BY DEF Ops
    <3>. QED  BY <2>1, <2>4, <3>1, AgentCount DEF RequestGroupId, CommitHeader, SyncHeader
  <2>5. CASE ReceiveGroupId(c) \/ SyncReply(c) \/ SyncAgents(c) \/ CommitAgents(c)
    <3>1. ~RequestGroupId(c)
      BY <2>5 DEF RequestGroupId, ReceiveGroupId, SyncReply, SyncAgents, CommitAgents
    <3>2. PICK m \in TMessage : CommitAgents(c) => m = Data(Interfaces(c))
      BY CommitData, Messages DEF Ops
    <3>3. Inbox(c) # <<>>
      BY <2>5 DEF ReceiveGroupId, SyncReply, SyncAgents, CommitAgents
    <3>4. \/ conn' = Consume(c)
          \/ conn' = [conn EXCEPT ![client[c].conn] = ToServer(Taken(c), m)]
      BY <2>5, <3>2 DEF ReceiveGroupId, SyncReply, SyncAgents, CommitAgents
    <3>. QED  BY <2>2, <3>1, <3>3, <3>4
  <2>6. CASE CommitNothing(c) \/ Process(c)
    <3>1. conn' = conn /\ NoConn \notin Conns
      BY <2>6, ServerAssumption DEF CommitNothing, Process
    <3>. HIDE DEF Own
    <3>. QED  BY <3>1 DEF Goal
  <2>7. CASE Disconnect(c) \/ Exit(c) \/ GiveUp(c) \/ Kill(c)
    BY <2>3, <2>7 DEF Disconnect, Exit, GiveUp, Kill
  <2>. QED  BY <2>4, <2>5, <2>6, <2>7 DEF ClientNext, ClientStep
<1>3. ASSUME NEW j \in Conns PROVE conn'[j] = conn[j] \/ Own(j, conn'[j])
  <2>. HIDE DEF Own
  <2>. QED  BY <1>0, <1>2
<1>. QED  BY <1>3

\* What a step of the server sends to the groups that are still there.
Replies(k, j) ==
  /\ conn'[j].client_open = conn[j].client_open
  /\ conn[j].client_open =>
       /\ conn'[j].owner = conn[j].owner
       /\ \/ conn'[j].s2c = conn[j].s2c
          \/ /\ HandleRequestGroupId(k) /\ j = k
             /\ conn'[j].s2c = Append(conn[j].s2c, Ack(counter + 1))
          \/ /\ HandleSync(k) /\ j = k
             /\ conn'[j].s2c = Append(conn[j].s2c, Ack(Size(readBuffer.agents)))
          \/ /\ HandleSyncData(k) /\ j = k
             /\ conn'[j].s2c = Append(conn[j].s2c, Data(handler[k].agents))
          \/ HandleCommit(k) /\ j = k

\* Every step of the server is such a step.
LEMMA ServerReplies ==
  ASSUME PInv, NEW k \in Conns, NEW j \in Conns,
         Accept(k) \/ Dispatch(k) \/ HandlerStep(k) \/ ServerGone
  PROVE  Replies(k, j)
<1>0. /\ conn \in [Conns -> TConn] /\ conn[k] \in TConn /\ conn[j] \in TConn
      /\ handler[k] \in THandler /\ readBuffer.agents \in TMap /\ counter \in Nat
  BY DEF PInv, Types
<1>1. /\ ClosedByServer(conn[j]).client_open = conn[j].client_open
      /\ conn[j].client_open => /\ ClosedByServer(conn[j]).owner = conn[j].owner
                                /\ ClosedByServer(conn[j]).s2c = conn[j].s2c
  BY <1>0, Closing
<1>2. ASSUME NEW co, conn' = [conn EXCEPT ![k] = co], j = k => co.client_open = conn[j].client_open,
             j = k /\ conn[j].client_open => co.owner = conn[j].owner /\ co.s2c = conn[j].s2c
      PROVE  Replies(k, j)
  <2>1. CASE j = k
    BY <1>0, <1>2, <2>1 DEF Replies
  <2>2. CASE j # k
    BY <1>0, <1>2, <2>2 DEF Replies
  <2>. QED  BY <2>1, <2>2
<1>3. ASSUME conn[k].c2s # <<>>
      PROVE  /\ Received(k) \in TConn /\ Received(k).s2c = conn[k].s2c
             /\ Received(k).owner = conn[k].owner
             /\ Received(k).client_open = conn[k].client_open
  BY <1>0, <1>3, Taking DEF Received
<1>4. ASSUME NEW q \in TConn, NEW m \in TMessage, q.s2c = conn[k].s2c, q.owner = conn[k].owner,
             q.client_open = conn[k].client_open, conn' = [conn EXCEPT ![k] = ToClient(q, m)],
             conn[k].client_open =>
               \/ HandleRequestGroupId(k) /\ m = Ack(counter + 1)
               \/ HandleSync(k) /\ m = Ack(Size(readBuffer.agents))
               \/ HandleSyncData(k) /\ m = Data(handler[k].agents)
               \/ HandleCommit(k)
      PROVE  Replies(k, j)
  <2>. DEFINE co == ToClient(q, m)
  <2>1. /\ co.client_open = conn[k].client_open /\ co.owner = conn[k].owner
        /\ conn[k].client_open => co.s2c = Append(conn[k].s2c, m)
    <3>1. /\ co.client_open = q.client_open /\ co.owner = q.owner
          /\ co.s2c = IF q.client_open THEN Append(q.s2c, m) ELSE q.s2c
      BY Replying
    <3>. HIDE DEF co
    <3>. QED  BY <1>4, <3>1
  <2>. HIDE DEF co
  <2>2. conn'[j] = IF j = k THEN co ELSE conn[j]
    BY <1>0, <1>4 DEF co
  <2>. QED  BY <1>4, <2>1, <2>2 DEF Replies
<1>5. CASE Accept(k)
  <2>. DEFINE co == [conn[k] EXCEPT !.accepted = TRUE]
  <2>1. conn' = [conn EXCEPT ![k] = co]
    BY <1>5 DEF Accept
  <2>2. co.client_open = conn[k].client_open /\ co.owner = conn[k].owner /\ co.s2c = conn[k].s2c
    BY <1>0 DEF TConn
  <2>. HIDE DEF co
  <2>. QED  BY <1>2, <2>1, <2>2
<1>6. CASE \/ Dispatch(k) \/ HandleCommitLost(k) \/ HandleApply(k) \/ HandleSwap(k)
           \/ HandlerReturn(k)
  <2>1. conn' = conn
    BY <1>6 DEF Dispatch, HandleCommitLost, HandleApply, HandleSwap, HandlerReturn
  <2>. QED  BY <2>1 DEF Replies
<1>7. ASSUME conn' = CloseByServer(k) PROVE Replies(k, j)
  <2>1. conn' = [conn EXCEPT ![k] = ClosedByServer(conn[k])]
    BY <1>7 DEF CloseByServer
  <2>. QED  BY <1>1, <1>2, <2>1
<1>8. CASE HandleRequestGroupId(k)
  <2>1. conn[k].c2s # <<>> /\ counter' = counter + 1
    BY <1>8 DEF HandleRequestGroupId, Receives
  <2>2. \/ conn' = CloseByServer(k)
        \/ conn' = [conn EXCEPT ![k] = ToClient(Received(k), Ack(counter'))]
    BY <1>8 DEF HandleRequestGroupId, Ack
  <2>3. Ack(counter + 1) \in TMessage
    BY <1>0, Messages DEF Ops, Ack
  <2>. QED  BY <1>3, <1>4, <1>7, <1>8, <2>1, <2>2, <2>3
<1>9. CASE HandleSyncHeader(k) \/ HandleCommitHeader(k)
  <2>1. conn' = [conn EXCEPT ![k] = Received(k)] /\ conn[k].c2s # <<>>
    BY <1>9 DEF HandleSyncHeader, HandleCommitHeader, Receives
  <2>. QED  BY <1>2, <1>3, <2>1
<1>10. CASE HandleSync(k)
  <2>1. conn' = [conn EXCEPT ![k] = ToClient(conn[k], Ack(Size(readBuffer.agents)))]
    BY <1>10 DEF HandleSync, Ack, Size
  <2>2. Ack(Size(readBuffer.agents)) \in TMessage
    BY <1>0, MapSize, Messages DEF Ops, Ack
  <2>. QED  BY <1>0, <1>4, <1>10, <2>1, <2>2
<1>11. CASE HandleSyncData(k)
  <2>1. conn' = [conn EXCEPT ![k] = ToClient(conn[k], Data(handler[k].agents))]
    BY <1>11 DEF HandleSyncData
  <2>2. Data(handler[k].agents) \in TMessage
    BY <1>0, Messages DEF THandler
  <2>. QED  BY <1>0, <1>4, <1>11, <2>1, <2>2
<1>12. CASE HandleCommit(k)
  <2>1. conn' = [conn EXCEPT ![k] = ToClient(conn[k], Ack(handler[k].count))]
    BY <1>12 DEF HandleCommit, Ack
  <2>2. Ack(handler[k].count) \in TMessage
    BY <1>0, Messages DEF Ops, Ack, THandler
  <2>. QED  BY <1>0, <1>4, <1>12, <2>1, <2>2
<1>13. CASE HandleCommitData(k)
  <2>1. conn' = [conn EXCEPT ![k] = Received(k)] /\ conn[k].c2s # <<>>
    BY <1>13 DEF HandleCommitData
  <2>. QED  BY <1>2, <1>3, <2>1
<1>14. CASE ServerGone
  <2>1. conn'[j] = IF conn[j].server_open THEN ClosedByServer(conn[j]) ELSE conn[j]
    BY <1>14 DEF ServerGone
  <2>. QED  BY <1>1, <2>1 DEF Replies
<1>15. CASE HandleEndOfStream(k) \/ HandleDisconnect(k) \/ HandlerIoFails(k)
  BY <1>7, <1>15 DEF HandleEndOfStream, HandleDisconnect, HandlerIoFails
<1>. QED  BY <1>5, <1>6, <1>8, <1>9, <1>10, <1>11, <1>12, <1>13, <1>14, <1>15
         DEF HandlerStep, HandleSyncNull

\* No step of a group offers an id.
LEMMA ClientOffers ==
  ASSUME PInv, NEW c \in Clients, ClientNext(c), NEW j \in Conns, NEW n, Offered(j, n)'
  PROVE  Offered(j, n)
<1>. DEFINE d == conn'[j].owner
<1>1. conn'[j].client_open /\ client'[d].pc = "await_id" /\ conn'[j].s2c = <<Ack(n)>>
  BY DEF Offered, Ack, Header
<1>2. PICK cl : client' = [client EXCEPT ![c] = cl] /\ (cl.pc = "await_id" => RequestGroupId(c))
  BY ClientEffect
<1>3. conn'[j] = conn[j] \/ (d = c /\ (RequestGroupId(c) => conn'[j].s2c = <<>>))
  BY <1>1, OwnConnection
<1>4. client'[c] = cl /\ (d # c => client'[d] = client[d])
  BY <1>2 DEF PInv, Types
<1>5. ASSUME d = c PROVE FALSE
  <2>1. RequestGroupId(c)
    BY <1>1, <1>2, <1>4, <1>5
  <2>2. conn'[j] = conn[j]
    BY <1>1, <1>3, <2>1, ShortQueues
  <2>3. client[c].conn = j
    BY <1>1, <1>5, <2>2 DEF PInv, Protocol, ConnOK
  <2>4. client[c].conn = NoConn
    BY <2>1, OffState DEF RequestGroupId, PInv, Protocol, ClientOK, ClientState
  <2>. QED  BY <2>3, <2>4, ServerAssumption
<1>. QED  BY <1>1, <1>3, <1>4, <1>5 DEF Offered

\* The server offers an id only when it handles a request for one.
LEMMA ServerOffers ==
  ASSUME PInv, NEW k \in Conns, NEW j \in Conns,
         Accept(k) \/ Dispatch(k) \/ HandlerStep(k) \/ ServerGone,
         UNCHANGED client, NEW n, Offered(j, n)'
  PROVE  Offered(j, n) \/ (HandleRequestGroupId(k) /\ j = k /\ Ack(n) = Ack(counter + 1))
<1>0. /\ conn'[j].client_open /\ client[conn'[j].owner].pc = "await_id"
      /\ conn'[j].s2c = <<Ack(n)>>
  BY DEF Offered, Ack, Header
<1>1. Replies(k, j)
  BY ServerReplies
<1>2. /\ conn[j].client_open /\ conn'[j].owner = conn[j].owner
      /\ client[conn[j].owner].pc = "await_id"
  BY <1>0, <1>1 DEF Replies
<1>3. AwaitId(conn[j], handler[j]) /\ handler[j].pc \in Resting
  BY <1>2, AtWork DEF Live, AwaitId
<1>4. ~HandleSync(j) /\ ~HandleSyncData(j) /\ ~HandleCommit(j)
  BY <1>3 DEF HandleSync, HandleSyncData, HandleCommit, Resting
<1>5. CASE conn'[j].s2c = conn[j].s2c
  BY <1>0, <1>2, <1>5 DEF Offered
<1>6. CASE HandleRequestGroupId(k) /\ j = k
           /\ conn'[j].s2c = Append(conn[j].s2c, Ack(counter + 1))
  <2>1. conn[j].s2c = <<>>
    BY <1>2, <1>6, AtWork, HeaderOf DEF HandleRequestGroupId, Receives
  <2>2. conn'[j].s2c = <<Ack(counter + 1)>>
    BY <1>6, <2>1
  <2>3. Ack(n) = Ack(counter + 1)
    BY <1>0, <2>2, ShortQueues
  <2>. QED  BY <1>6, <2>3
<1>. QED  BY <1>1, <1>2, <1>4, <1>5, <1>6 DEF Replies

\* Group id g is in use: a group has it, or an agent under it is stored or under way.
GroupsIn(m) == {id[1] : id \in DOMAIN m}
Used(g) ==
  \/ \E c \in Clients : client[c].gid = g
  \/ g \in GroupsIn(globalState) \/ g \in GroupsIn(readBuffer.agents)
  \/ \E k \in Conns : \E a \in StreamMaps(conn[k]) \cup {handler[k].agents} : g \in GroupsIn(a)

\* While the server runs, ids in use or offered have been counted, and one that is
\* offered is offered once and not in use.
IdsFresh ==
  /\ session # 0
  /\ \A k \in Conns : handler[k].pc # "none" => up
  /\ up => \A g \in Nat \ {0} : Used(g) \/ (\E k \in Conns : Offered(k, g)) => g <= counter
  /\ \A k \in Conns, g \in Nat \ {0} :
       Offered(k, g) => ~Used(g) /\ \A j \in Conns : Offered(j, g) => j = k

\* The groups of the maps that the server and the groups make.
LEMMA GroupsOf ==
  /\ GroupsIn(<<>>) = {}
  /\ \A m, S : GroupsIn(Drop(m, S)) \subseteq GroupsIn(m)
  /\ \A m, a : GroupsIn(Merge(m, a)) \subseteq GroupsIn(m) \cup GroupsIn(a)
  /\ \A c \in Clients : GroupsIn(Interfaces(c)) \subseteq {client[c].gid}
<1>1. GroupsIn(<<>>) = {}
  BY EmptyMap DEF GroupsIn
<1>2. ASSUME NEW m, NEW S PROVE GroupsIn(Drop(m, S)) \subseteq GroupsIn(m)
  <2>1. DOMAIN Drop(m, S) \subseteq DOMAIN m
    BY DEF Drop
  <2>. QED  BY <2>1 DEF GroupsIn
<1>3. ASSUME NEW m, NEW a PROVE GroupsIn(Merge(m, a)) \subseteq GroupsIn(m) \cup GroupsIn(a)
  <2>. DEFINE stale == {k \in DOMAIN m \ DOMAIN a :
                          /\ \E x \in DOMAIN a : Leq(GroupMask(x), k)
                          /\ \E x \in DOMAIN a : Less(k, x)}
  <2>1. Merge(m, a) = [k \in (DOMAIN m \ stale) \cup DOMAIN a |->
                         IF k \in DOMAIN a THEN a[k] ELSE m[k]]
    BY DEF Merge
  <2>. HIDE DEF stale
  <2>2. DOMAIN Merge(m, a) \subseteq DOMAIN m \cup DOMAIN a
    BY <2>1
  <2>. QED  BY <2>2 DEF GroupsIn
<1>4. ASSUME NEW c \in Clients PROVE GroupsIn(Interfaces(c)) \subseteq {client[c].gid}
  <2>1. DOMAIN Interfaces(c) = {client[c].gid} \X DOMAIN client[c].agents
    BY DEF Interfaces
  <2>. QED  BY <2>1 DEF GroupsIn
<1>. QED  BY <1>1, <1>2, <1>3, <1>4

\* A step that uses and offers no other ids keeps them fresh.
LEMMA FreshKept ==
  ASSUME PInv, IdsFresh, session' # 0, up' => up /\ counter' = counter,
         \A k \in Conns : handler'[k].pc # "none" => up',
         \A g \in Nat \ {0} : Used(g)' => Used(g),
         \A k \in Conns, g \in Nat \ {0} : Offered(k, g)' => Offered(k, g)
  PROVE  IdsFresh'
<1>. DEFINE u(g) == Used(g)'
            o(k, g) == Offered(k, g)'
<1>1. /\ \A g \in Nat \ {0} : u(g) => Used(g)
      /\ \A k \in Conns, g \in Nat \ {0} : o(k, g) => Offered(k, g)
  OBVIOUS
<1>. HIDE DEF u, o
<1>2. up' => \A g \in Nat \ {0} : u(g) \/ (\E k \in Conns : o(k, g)) => g <= counter'
  BY <1>1 DEF IdsFresh
<1>3. \A k \in Conns, g \in Nat \ {0} :
        o(k, g) => ~u(g) /\ \A j \in Conns : o(j, g) => j = k
  BY <1>1 DEF IdsFresh
<1>. QED  BY <1>2, <1>3 DEF IdsFresh, u, o

\* A step of a group uses no id but the one it is given.
LEMMA ClientUses ==
  ASSUME PInv, NEW c \in Clients, ClientNext(c), NEW g \in Nat \ {0}, Used(g)'
  PROVE  Used(g) \/ (ReceiveGroupId(c) /\ g = Head(Inbox(c)).n)
<1>0. UNCHANGED <<globalState, readBuffer, handler>>
  BY DEF ClientNext, ClientStep, RequestGroupId, ReceiveGroupId, CommitNothing, CommitHeader,
       CommitAgents, SyncHeader, SyncReply, SyncAgents, Process, Disconnect, Exit, GiveUp, Kill,
       serverUnchanged, stateVars
<1>1. CASE \E d \in Clients : client'[d].gid = g
  <2>1. PICK d \in Clients : client'[d].gid = g
    BY <1>1
  <2>2. PICK cl : /\ client' = [client EXCEPT ![c] = cl]
                  /\ \/ cl = Off
                     \/ ReceiveGroupId(c) /\ cl.gid = Head(Inbox(c)).n
                     \/ cl.gid = client[c].gid
    BY ClientEffect
  <2>3. client'[d] = IF d = c THEN cl ELSE client[d]
    BY <2>2 DEF PInv, Types
  <2>4. Off.gid # g
    BY DEF Off
  <2>. QED  BY <2>1, <2>2, <2>3, <2>4 DEF Used
<1>2. CASE g \in GroupsIn(globalState') \/ g \in GroupsIn(readBuffer'.agents)
  BY <1>0, <1>2 DEF Used
<1>3. ASSUME NEW j \in Conns, NEW a \in StreamMaps(conn'[j]) \cup {handler'[j].agents},
             g \in GroupsIn(a)
      PROVE  Used(g)
  <2>1. CASE a \in StreamMaps(conn[j]) \cup {handler[j].agents}
    BY <1>3, <2>1 DEF Used
  <2>2. a # <<>>
    BY <1>3, GroupsOf
  <2>3. CASE a = Interfaces(c)
    BY <1>3, <2>3, GroupsOf DEF Used
  <2>. QED  BY <1>0, <1>3, <2>1, <2>2, <2>3, ClientStreams DEF StreamMaps
<1>4. \/ \E d \in Clients : client'[d].gid = g
      \/ g \in GroupsIn(globalState') \/ g \in GroupsIn(readBuffer'.agents)
      \/ \E j \in Conns : \E a \in StreamMaps(conn'[j]) \cup {handler'[j].agents} :
           g \in GroupsIn(a)
  BY DEF Used, GroupsIn, StreamMaps, InStream
<1>. QED  BY <1>1, <1>2, <1>3, <1>4

\* A step of the server uses no id that was not in use.
LEMMA ServerUses ==
  ASSUME PInv, NEW k \in Conns, Accept(k) \/ Dispatch(k) \/ HandlerStep(k) \/ ServerGone,
         UNCHANGED client, NEW g \in Nat \ {0}, Used(g)'
  PROVE  Used(g)
<1>1. \/ \E d \in Clients : client[d].gid = g
      \/ g \in GroupsIn(globalState') \/ g \in GroupsIn(readBuffer'.agents)
      \/ \E j \in Conns : \E a \in StreamMaps(conn'[j]) \cup {handler'[j].agents} :
           g \in GroupsIn(a)
  BY DEF Used, GroupsIn, StreamMaps, InStream
<1>2. \/ UNCHANGED <<globalState, readBuffer>>
      \/ globalState' = <<>> /\ readBuffer'.agents = <<>>
      \/ globalState' = Merge(globalState, handler[k].agents) /\ readBuffer' = readBuffer
      \/ readBuffer'.agents = globalState /\ globalState' = globalState
  <2>1. ASSUME Accept(k) \/ Dispatch(k) \/ HandlerStep(k)
        PROVE  UNCHANGED stateVars \/ ServerGone \/ HandleApply(k) \/ HandleSwap(k)
    BY <2>1 DEF Accept, Dispatch, HandlerStep, HandleEndOfStream, HandleDisconnect,
       HandleRequestGroupId, HandleSyncHeader, HandleCommitHeader, HandleSync, HandleSyncNull,
       HandleSyncData, HandleCommit, HandleCommitData, HandleCommitLost, HandlerIoFails,
       HandlerReturn
  <2>2. CASE UNCHANGED stateVars
    BY <2>2 DEF stateVars
  <2>3. CASE ServerGone
    BY <2>3 DEF ServerGone, NullBuffer
  <2>4. CASE HandleApply(k) \/ HandleSwap(k)
    BY <2>4 DEF HandleApply, HandleSwap, UpdateReadBuffer, Buffer
  <2>. QED  BY <2>1, <2>2, <2>3, <2>4
<1>3. CASE g \in GroupsIn(globalState') \/ g \in GroupsIn(readBuffer'.agents)
  <2>1. g \in GroupsIn(handler[k].agents) => Used(g)
    BY DEF Used
  <2>2. g \in GroupsIn(globalState) \/ g \in GroupsIn(readBuffer.agents) => Used(g)
    BY DEF Used
  <2>. QED  BY <1>2, <1>3, <2>1, <2>2, GroupsOf
<1>4. ASSUME NEW j \in Conns, NEW a \in StreamMaps(conn'[j]) \cup {handler'[j].agents},
             g \in GroupsIn(a)
      PROVE  Used(g)
  <2>1. a \in StreamMaps(conn[j]) \cup {handler[j].agents, <<>>, readBuffer.agents}
    BY <1>4, ServerStreams DEF TakesOnly, StreamMaps
  <2>2. a # <<>>
    BY <1>4, GroupsOf
  <2>. QED  BY <1>4, <2>1, <2>2 DEF Used
<1>. QED  BY <1>1, <1>3, <1>4 DEF Used

\* The id a group receives was offered to it, over its connection.
LEMMA IdOffered ==
  ASSUME PInv, NEW c \in Clients, ReceiveGroupId(c)
  PROVE  /\ client[c].conn \in Conns /\ conn[client[c].conn].owner = c
         /\ Head(Inbox(c)).n \in 1..MaxGroups
         /\ Offered(client[c].conn, Head(Inbox(c)).n)
<1>. DEFINE k == client[c].conn
<1>1. client[c].pc = "await_id" /\ Inbox(c) # <<>>
  BY DEF ReceiveGroupId
<1>2. /\ k \in Conns /\ Inbox(c) = conn[k].s2c /\ Live(client[c], conn[k], handler[k])
      /\ conn[k].client_open /\ conn[k].owner = c
  BY <1>1, Reading, Mine
<1>3. AwaitId(conn[k], handler[k])
  BY <1>1, <1>2 DEF Live
<1>4. PICK n \in 1..MaxGroups : conn[k].s2c = <<Ack(n)>>
  BY <1>1, <1>2, <1>3 DEF AwaitId
<1>5. Head(Inbox(c)).n = n
  BY <1>2, <1>4, ShortQueues DEF Ack, Header
<1>. QED  BY <1>1, <1>2, <1>4, <1>5 DEF Offered

\* A group's steps keep the ids fresh; the one it receives is no longer offered.
LEMMA ClientFresh ==
  ASSUME PInv, IdsFresh, NEW c \in Clients, ClientNext(c)
  PROVE  IdsFresh'
<1>0. UNCHANGED <<handler, session, up, counter>>
  BY DEF ClientNext, ClientStep, RequestGroupId, ReceiveGroupId, CommitNothing, CommitHeader,
       CommitAgents, SyncHeader, SyncReply, SyncAgents, Process, Disconnect, Exit, GiveUp, Kill,
       serverUnchanged, procVars
<1>1. \A k \in Conns, g \in Nat \ {0} : Offered(k, g)' => Offered(k, g)
  BY ClientOffers
<1>2. \A k \in Conns : handler'[k].pc # "none" => up'
  BY <1>0 DEF IdsFresh
<1>3. session' # 0
  BY <1>0 DEF IdsFresh
<1>4. CASE ~ReceiveGroupId(c)
  <2>1. \A g \in Nat \ {0} : Used(g)' => Used(g)
    BY <1>4, ClientUses
  <2>. QED  BY <1>0, <1>1, <1>2, <1>3, <2>1, FreshKept
<1>5. CASE ReceiveGroupId(c)
  <2>. DEFINE u(g) == Used(g)'
              o(k, g) == Offered(k, g)'
  <2>1. PICK kc \in Conns, n \in Nat \ {0} :
          /\ kc = client[c].conn /\ conn[kc].owner = c /\ n = Head(Inbox(c)).n
          /\ Offered(kc, n)
    BY <1>5, IdOffered
  <2>2. /\ \A g \in Nat \ {0} : u(g) => Used(g) \/ g = n
        /\ \A k \in Conns, g \in Nat \ {0} : o(k, g) => Offered(k, g)
    BY <1>1, <2>1, ClientUses
  <2>3. ~o(kc, n)
    <3>1. /\ client'[c].pc = "commit" /\ conn' = Consume(c) /\ Inbox(c) # <<>>
      BY <1>5 DEF ReceiveGroupId, PInv, Types, TClient
    <3>2. conn'[kc] = Taken(c) /\ Taken(c).owner = c
      BY <2>1, <3>1, Reading DEF Consume, PInv, Types
    <3>. QED  BY <3>1, <3>2 DEF Offered
  <2>. HIDE DEF u, o
  <2>4. up' => \A g \in Nat \ {0} : u(g) \/ (\E k \in Conns : o(k, g)) => g <= counter'
    BY <1>0, <2>1, <2>2 DEF IdsFresh
  <2>5. \A k \in Conns, g \in Nat \ {0} :
          o(k, g) => ~u(g) /\ \A j \in Conns : o(j, g) => j = k
    <3>. SUFFICES ASSUME NEW k \in Conns, NEW g \in Nat \ {0}, o(k, g)
                  PROVE  ~u(g) /\ \A j \in Conns : o(j, g) => j = k
      OBVIOUS
    <3>1. Offered(k, g) /\ ~Used(g) /\ \A j \in Conns : Offered(j, g) => j = k
      BY <2>2 DEF IdsFresh
    <3>2. g # n
      BY <2>1, <2>3, <3>1
    <3>. QED  BY <2>2, <3>1, <3>2
  <2>. QED  BY <1>2, <1>3, <2>4, <2>5 DEF IdsFresh, u, o
<1>. QED  BY <1>4, <1>5

\* Handlers work only while the server runs.
LEMMA HandlersUp ==
  ASSUME PInv, IdsFresh, NEW k \in Conns, Accept(k) \/ Dispatch(k) \/ HandlerStep(k), ~ServerGone
  PROVE  /\ up /\ UNCHANGED <<up, session, client>>
         /\ \A j \in Conns : handler'[j].pc # "none" => up'
         /\ ~HandleRequestGroupId(k) => counter' = counter
<1>1. UNCHANGED <<up, session, client>> /\ (~HandleRequestGroupId(k) => counter' = counter)
  BY DEF Accept, Dispatch, HandlerStep, HandleEndOfStream, HandleDisconnect,
       HandleRequestGroupId, HandleSyncHeader, HandleCommitHeader, HandleSync, HandleSyncNull,
       HandleSyncData, HandleCommit, HandleCommitData, HandleCommitLost, HandleApply,
       HandleSwap, HandlerIoFails, HandlerReturn, procVars
<1>2. up
  <2>1. Accept(k) \/ Dispatch(k) \/ handler[k].pc # "none"
    BY DEF HandlerStep, HandleEndOfStream, HandleDisconnect, Receives,
       HandleRequestGroupId, HandleSyncHeader, HandleCommitHeader, HandleSync, HandleSyncNull,
       HandleSyncData, HandleCommit, HandleCommitData, HandleCommitLost, HandleApply,
       HandleSwap, HandlerIoFails, HandlerReturn
  <2>2. Accept(k) \/ Dispatch(k) => up
    BY DEF Accept, Dispatch, MainThreadRuns
  <2>. QED  BY <2>1, <2>2 DEF IdsFresh
<1>. QED  BY <1>1, <1>2

\* So do the handlers' steps: an id that is handed out has never been.
LEMMA ServerFresh ==
  ASSUME PInv, IdsFresh, NEW k \in Conns, Accept(k) \/ Dispatch(k) \/ HandlerStep(k), ~ServerGone
  PROVE  IdsFresh'
<1>0. /\ up /\ UNCHANGED <<up, session, client>>
      /\ \A j \in Conns : handler'[j].pc # "none" => up'
      /\ ~HandleRequestGroupId(k) => counter' = counter
      /\ counter \in Nat /\ session' # 0
  BY HandlersUp DEF PInv, Types, IdsFresh
<1>1. \A g \in Nat \ {0} : Used(g)' => Used(g)
  BY <1>0, ServerUses
<1>2. \A j \in Conns, g \in Nat \ {0} : Offered(j, g)' =>
        Offered(j, g) \/ (HandleRequestGroupId(k) /\ j = k /\ g = counter + 1)
  <2>1. \A m, n : Ack(m) = Ack(n) => m = n
    BY DEF Ack, Header
  <2>. QED  BY <1>0, <2>1, ServerOffers
<1>3. CASE ~HandleRequestGroupId(k)
  BY <1>0, <1>1, <1>2, <1>3, FreshKept
<1>4. CASE HandleRequestGroupId(k)
  <2>. DEFINE u(g) == Used(g)'
              o(j, g) == Offered(j, g)'
  <2>1. /\ \A g \in Nat \ {0} : u(g) => Used(g)
        /\ \A j \in Conns, g \in Nat \ {0} : o(j, g) =>
             Offered(j, g) \/ (j = k /\ g = counter + 1)
        /\ counter' = counter + 1
    BY <1>1, <1>2, <1>4 DEF HandleRequestGroupId
  <2>. HIDE DEF u, o
  <2>2. \A g \in Nat \ {0} : Used(g) \/ (\E j \in Conns : Offered(j, g)) => g <= counter
    BY <1>0 DEF IdsFresh
  <2>3. \A g \in Nat \ {0} : u(g) \/ (\E j \in Conns : o(j, g)) => g <= counter'
    BY <1>0, <2>1, <2>2
  <2>4. ASSUME NEW j \in Conns, NEW g \in Nat \ {0}, o(j, g)
        PROVE  ~u(g) /\ \A i \in Conns : o(i, g) => i = j
    <3>1. CASE g = counter + 1
      BY <1>0, <2>1, <2>2, <2>4, <3>1
    <3>2. CASE g # counter + 1
      BY <2>1, <2>4, <3>2 DEF IdsFresh
    <3>. QED  BY <3>1, <3>2
  <2>. QED  BY <1>0, <2>3, <2>4 DEF IdsFresh, u, o
<1>. QED  BY <1>3, <1>4

\* Until the server is started again it is in its first start.
LEMMA StartsOnce ==
  ASSUME PInv, session # 0, [Next]_vars
  PROVE  session' # 0 /\ (session' = 1 => session = 1 /\ ~ServerStart)
<1>1. session \in Nat
  BY DEF PInv, Types
<1>2. ASSUME ~ServerStart PROVE UNCHANGED session
  <2>1. ASSUME NEW c \in Clients, ClientNext(c) PROVE UNCHANGED session
    BY <2>1 DEF ClientNext, ClientStep, RequestGroupId, ReceiveGroupId, CommitNothing,
       CommitHeader, CommitAgents, SyncHeader, SyncReply, SyncAgents, Process, Disconnect, Exit,
       GiveUp, Kill, serverUnchanged, procVars
  <2>2. ASSUME NEW k \in Conns, Accept(k) \/ Dispatch(k) \/ HandlerStep(k)
        PROVE  UNCHANGED session
    BY <2>2 DEF Accept, Dispatch, HandlerStep, HandleEndOfStream, HandleDisconnect,
       HandleRequestGroupId, HandleSyncHeader, HandleCommitHeader, HandleSync, HandleSyncNull,
       HandleSyncData, HandleCommit, HandleCommitData, HandleCommitLost, HandleApply,
       HandleSwap, HandlerIoFails, HandlerReturn, ServerGone, procVars
  <2>3. CASE ServerStop \/ ExpiredAgentCheck \/ ExpiredAgentsSwap \/ Tick \/ UNCHANGED vars
    BY <2>3 DEF ServerStop, ServerGone, ExpiredAgentCheck, ExpiredAgentsSwap, Tick, vars, procVars
  <2>. QED  BY <1>2, <2>1, <2>2, <2>3 DEF Next, ClientNext
<1>3. ServerStart => session' = session + 1
  BY DEF ServerStart
<1>. QED  BY <1>1, <1>2, <1>3

\* And the rest of the server, until it starts again.
LEMMA MainFresh ==
  ASSUME PInv, IdsFresh,
         ServerGone \/ ExpiredAgentCheck \/ ExpiredAgentsSwap \/ Tick \/ UNCHANGED vars
  PROVE  IdsFresh'
<1>1. CASE ServerGone
  <2>1. /\ session' # 0 /\ ~up' /\ UNCHANGED client
        /\ \A k \in Conns : handler'[k].pc = "none"
    BY <1>1 DEF ServerGone, IdsFresh, Idle, At
  <2>2. CASE Conns = {}
    <3>. DEFINE u(g) == Used(g)'
    <3>. QED  BY <2>1, <2>2 DEF IdsFresh
  <2>3. CASE Conns # {}
    <3>. PICK k \in Conns : TRUE
      BY <2>3
    <3>1. \A g \in Nat \ {0} : Used(g)' => Used(g)
      BY <1>1, <2>1, ServerUses
    <3>2. ~HandleRequestGroupId(k) \/ counter' = counter + 1
      BY DEF HandleRequestGroupId
    <3>3. counter' = 0 /\ counter \in Nat
      BY <1>1 DEF ServerGone, PInv, Types
    <3>4. ~HandleRequestGroupId(k)
      BY <3>2, <3>3
    <3>5. \A j \in Conns, g \in Nat \ {0} : Offered(j, g)' => Offered(j, g)
      BY <1>1, <2>1, <3>4, ServerOffers
    <3>. QED  BY <2>1, <3>1, <3>5, FreshKept
  <2>. QED  BY <2>2, <2>3
<1>2. CASE ExpiredAgentCheck \/ ExpiredAgentsSwap \/ Tick \/ UNCHANGED vars
  <2>1. /\ UNCHANGED <<client, conn, handler, session, up, counter>>
        /\ \/ UNCHANGED <<globalState, readBuffer>>
           \/ globalState' = Drop(globalState, Expired(globalState)) /\ readBuffer' = readBuffer
           \/ readBuffer'.agents = globalState /\ globalState' = globalState
    BY <1>2 DEF ExpiredAgentCheck, ExpiredAgentsSwap, Tick, vars, netVars, stateVars, procVars,
                UpdateReadBuffer, Buffer
  <2>2. \A k \in Conns, g \in Nat \ {0} : Offered(k, g)' => Offered(k, g)
    BY <2>1 DEF Offered
  <2>3. ASSUME NEW g \in Nat \ {0}, Used(g)' PROVE Used(g)
    <3>1. \/ \E d \in Clients : client[d].gid = g
          \/ g \in GroupsIn(globalState') \/ g \in GroupsIn(readBuffer'.agents)
          \/ \E j \in Conns : \E a \in StreamMaps(conn[j]) \cup {handler[j].agents} :
               g \in GroupsIn(a)
      BY <2>1, <2>3 DEF Used, GroupsIn, StreamMaps, InStream
    <3>2. g \in GroupsIn(globalState') \/ g \in GroupsIn(readBuffer'.agents)
            => g \in GroupsIn(globalState) \/ g \in GroupsIn(readBuffer.agents)
      BY <2>1, GroupsOf
    <3>. QED  BY <3>1, <3>2 DEF Used
  <2>4. session' # 0 /\ \A k \in Conns : handler'[k].pc # "none" => up'
    BY <2>1 DEF IdsFresh
  <2>. QED  BY <2>1, <2>2, <2>3, <2>4, FreshKept
<1>. QED  BY <1>1, <1>2

\* What holds of ids until the server is started again.
FirstFresh == session # 0 /\ (session = 1 => IdsFresh)

\* Nothing is in use or offered at first.
LEMMA InitFresh == Init => FirstFresh
<1>. SUFFICES ASSUME Init PROVE FirstFresh
  OBVIOUS
<1>1. \A k \in Conns : conn[k] = FreeConn /\ handler[k] = Idle
  BY DEF Init
<1>2. ASSUME NEW k \in Conns, NEW n PROVE ~Offered(k, n)
  BY <1>1, Free DEF Offered
<1>3. ASSUME NEW g \in Nat \ {0} PROVE ~Used(g)
  <2>1. \A k \in Conns : StreamMaps(conn[k]) = {} /\ handler[k].agents = <<>>
    <3>1. StreamMaps(FreeConn) = {}
      <4>1. InStream(FreeConn) = {}
        BY Free, InStreamOf
      <4>. QED  BY <4>1 DEF StreamMaps
    <3>2. Idle.agents = <<>>
      BY DEF Idle, At
    <3>. QED  BY <1>1, <3>1, <3>2
  <2>2. \A c \in Clients : client[c].gid = 0
    BY DEF Init, Off
  <2>3. globalState = <<>> /\ readBuffer.agents = <<>>
    BY DEF Init, NullBuffer
  <2>. QED  BY <2>1, <2>2, <2>3, GroupsOf DEF Used
<1>4. session # 0 /\ \A k \in Conns : handler[k].pc = "none"
  BY <1>1, AtType DEF Init
<1>. QED  BY <1>2, <1>3, <1>4 DEF IdsFresh, FirstFresh

\* Every step keeps ids fresh, until the server is started again.
LEMMA NextFresh == PInv /\ FirstFresh /\ [Next]_vars => FirstFresh'
<1>. SUFFICES ASSUME PInv, FirstFresh, [Next]_vars, session' = 1 PROVE IdsFresh'
  BY StartsOnce DEF FirstFresh
<1>0. IdsFresh /\ ~ServerStart
  BY StartsOnce DEF FirstFresh
<1>1. CASE \E c \in Clients : ClientNext(c)
  BY <1>0, <1>1, ClientFresh
<1>2. CASE \E k \in Conns : Accept(k) \/ Dispatch(k) \/ HandlerStep(k)
  BY <1>0, <1>2, ServerFresh, MainFresh
<1>3. CASE ServerStop \/ ExpiredAgentCheck \/ ExpiredAgentsSwap \/ Tick \/ UNCHANGED vars
  BY <1>0, <1>3, MainFresh DEF ServerStop
<1>. QED  BY <1>0, <1>1, <1>2, <1>3 DEF Next, ClientNext

\* Until the server is started again, a group that learns its id is the
\* only one to have it, and no agent under it is stored or under way: the atomic
\* counter, the reply over the group's own stream and the order of the two make
\* ids unique, however many groups ask at a time.  After a restart, which resets
\* m_agent_group_counter, it does not hold.
THEOREM GroupIdsAreFresh == Spec => FreshGroupId
<1>. DEFINE Fresh(c) ==
       LET g == client'[c].gid
       IN g # client[c].gid /\ g # 0 =>
            /\ \A d \in Clients : client[d].gid # g
            /\ \A id \in DOMAIN globalState : id[1] # g
            /\ \A k \in Conns : \A id \in DOMAIN handler[k].agents : id[1] # g
<1>1. ASSUME PInv, IdsFresh, [Next]_vars, NEW c \in Clients PROVE Fresh(c)
  <2>1. CASE client'[c].gid = client[c].gid \/ client'[c].gid = 0
    BY <2>1
  <2>2. CASE client'[c].gid # client[c].gid /\ client'[c].gid # 0
    <3>1. \E d \in Clients : ClientNext(d)
      <4>1. ~UNCHANGED client
        BY <2>2
      <4>2. ASSUME NEW k \in Conns, Accept(k) \/ Dispatch(k) \/ HandlerStep(k)
            PROVE  UNCHANGED client
        BY <4>2 DEF Accept, Dispatch, HandlerStep, HandleEndOfStream, HandleDisconnect,
             HandleRequestGroupId, HandleSyncHeader, HandleCommitHeader, HandleSync,
             HandleSyncNull, HandleSyncData, HandleCommit, HandleCommitData, HandleCommitLost,
             HandleApply, HandleSwap, HandlerIoFails, HandlerReturn, ServerGone
      <4>3. ASSUME \/ ServerStop \/ ExpiredAgentCheck \/ ExpiredAgentsSwap \/ ServerStart \/ Tick
                   \/ UNCHANGED vars
            PROVE  UNCHANGED client
        BY <4>3 DEF ServerStop, ServerGone, ExpiredAgentCheck, ExpiredAgentsSwap, ServerStart,
                    Tick, vars
      <4>. QED  BY <1>1, <4>1, <4>2, <4>3 DEF Next, ClientNext
    <3>. PICK d \in Clients : ClientNext(d)
      BY <3>1
    <3>2. PICK cl : /\ client' = [client EXCEPT ![d] = cl]
                    /\ \/ cl = Off
                       \/ ReceiveGroupId(d) /\ cl.gid = Head(Inbox(d)).n
                       \/ cl.gid = client[d].gid
      BY <1>1, ClientEffect
    <3>3. d = c /\ client'[c] = cl /\ ReceiveGroupId(c) /\ client'[c].gid = Head(Inbox(c)).n
      BY <1>1, <2>2, <3>2 DEF PInv, Types, Off
    <3>4. PICK k \in Conns, g \in Nat \ {0} : g = client'[c].gid /\ Offered(k, g)
      BY <1>1, <3>3, IdOffered
    <3>5. ~Used(g)
      BY <1>1, <3>4 DEF IdsFresh
    <3>. QED  BY <3>4, <3>5 DEF Used, GroupsIn
  <2>. QED  BY <2>1, <2>2
<1>2. PInv /\ FirstFresh /\ [Next]_vars => [session = 1 => \A c \in Clients : Fresh(c)]_vars
  BY <1>1 DEF FirstFresh
<1>. QED  BY <1>2, InitProtocol, NextProtocol, InitFresh, NextFresh, PTL DEF Spec, FreshGroupId


-----------------------------------------------------------------------------
(* The read buffer, while the server runs without a restart. *)

\* What a step of a group says of the place it comes to.
LEMMA ClientPlaces ==
  ASSUME PInv, NEW c \in Clients, ClientNext(c)
  PROVE  LET cl == client'[c]
         IN /\ cl.pc = "process" => cl.synced
            /\ cl.pc = "await_agents" => SyncReply(c)
            /\ cl.pc = "sync" => CommitNothing(c) \/ CommitAgents(c) \/ Disconnect(c)
            /\ cl.pc = "await_sync" => SyncHeader(c)
            /\ cl.pc \notin {"off", "await_id"} =>
                 ReceiveGroupId(c) \/ client[c].pc \notin {"off", "await_id"}
<1>0. client[c] \in TClient /\ client \in [Clients -> TClient]
  BY DEF PInv, Types
<1>1. ASSUME NEW op, NEW n, NEW pc, SendRequest(c, op, n, pc) PROVE client'[c].pc = pc
  BY <1>0, <1>1 DEF SendRequest, TClient
<1>2. CASE RequestGroupId(c) \/ CommitHeader(c) \/ SyncHeader(c)
  <2>1. /\ RequestGroupId(c) => client'[c].pc = "await_id"
        /\ CommitHeader(c) => client'[c].pc = "await_commit" /\ client[c].pc = "commit"
        /\ SyncHeader(c) => client'[c].pc = "await_sync" /\ client[c].pc = "sync"
    BY <1>1 DEF RequestGroupId, CommitHeader, SyncHeader
  <2>. QED  BY <1>2, <2>1
<1>3. CASE ReceiveGroupId(c) \/ Process(c)
  <2>1. client'[c].pc = "commit"
    <3>1. CASE ReceiveGroupId(c)
      <4>1. PICK n \in InitialAgents :
              client' = [client EXCEPT
                ![c].pc = "commit", ![c].gid = Head(Inbox(c)).n, ![c].number = n,
                ![c].agents = [i \in 1..n |-> [round |-> 0, expires |-> 0]],
                ![c].session = session]
        BY <3>1 DEF ReceiveGroupId
      <4>. QED  BY <1>0, <4>1 DEF TClient
    <3>2. CASE Process(c)
      <4>1. PICK n, agents :
              client' = [client EXCEPT ![c].pc = "commit", ![c].round = @ + 1, ![c].number = n,
                                       ![c].agents = agents]
        BY <3>2 DEF Process
      <4>. QED  BY <1>0, <4>1 DEF TClient
    <3>. QED  BY <1>3, <3>1, <3>2
  <2>2. Process(c) => client[c].pc = "process"
    BY DEF Process
  <2>. QED  BY <1>3, <2>1, <2>2
<1>4. CASE CommitNothing(c) \/ CommitAgents(c)
  <2>1. client'[c].pc = AfterCommit(c) /\ client[c].pc \in {"commit", "await_commit"}
    BY <1>0, <1>4 DEF CommitNothing, CommitAgents, TClient
  <2>2. AfterCommit(c) \in {"disconnect", "sync"}
    BY DEF AfterCommit
  <2>. QED  BY <1>4, <2>1, <2>2
<1>5. CASE SyncReply(c)
  <2>. DEFINE n == Head(Inbox(c)).n
              pc == IF n > 0 THEN "await_agents" ELSE "process"
              cl == [client[c] EXCEPT !.pc = pc, !.expect = n, !.synced = @ \/ n = 0]
  <2>1. client'[c] = cl /\ client[c].pc = "await_sync" /\ n \in Nat
    BY <1>0, <1>5, Reading DEF SyncReply, TMessage
  <2>2. pc \in {"await_agents", "process"} /\ (pc = "process" => n = 0)
    BY <2>1
  <2>. HIDE DEF n, pc
  <2>3. cl.pc = pc /\ (n = 0 => cl.synced)
    BY <1>0 DEF TClient
  <2>. HIDE DEF cl
  <2>. QED  BY <1>5, <2>1, <2>2, <2>3
<1>6. CASE SyncAgents(c)
  BY <1>0, <1>6 DEF SyncAgents, TClient
<1>7. CASE Disconnect(c)
  BY <1>0, <1>7 DEF Disconnect, TClient
<1>8. CASE Exit(c) \/ GiveUp(c) \/ Kill(c)
  <2>1. client'[c] = Off /\ Off.pc = "off"
    BY <1>0, <1>8 DEF Exit, GiveUp, Kill, Off
  <2>. QED  BY <2>1
<1>. QED  BY <1>2, <1>3, <1>4, <1>5, <1>6, <1>7, <1>8 DEF ClientNext, ClientStep

\* A request for a sync is in the stream; a commit is on its way into the buffer.
Asking(r) == \E m \in InStream(r) : m.op = "AGENT_SYNC_ALL"
Storing == {"commit_data", "apply", "swap"}

\* Before the first commit is published, nobody handles a sync, and wherever one is
\* sent, about to be sent or awaited, the group's own commit is before it.
Before(k) ==
  /\ handler[k].pc \notin {"sync", "sync_data"}
  /\ \/ Asking(conn[k])
     \/ conn[k].client_open /\ client[conn[k].owner].pc \in {"sync", "await_sync"}
     => handler[k].pc \in Storing

\* A server that has not stopped yet closes no connection that is in use; a group has
\* agents until its first sync; and before the first commit is published nobody has
\* synced.
Filled ==
  /\ up /\ session = 1
  /\ \A k \in Conns : conn[k].client_open => conn[k].server_open
  /\ \A c \in Clients :
       /\ client[c].pc = "process" => client[c].synced
       /\ client[c].pc \notin {"off", "await_id"} /\ ~client[c].synced =>
            DOMAIN client[c].agents # {}
  /\ ~readBuffer.set =>
       /\ \A c \in Clients : ~client[c].synced /\ client[c].pc # "await_agents"
       /\ \A k \in Conns : Before(k)

\* A group that waits for a sync while its commit is being stored has no reply yet.
LEMMA NoReplyYet ==
  ASSUME PInv, NEW c \in Clients, SyncReply(c),
         handler[client[c].conn].pc \in Storing, conn[client[c].conn].server_open
  PROVE  FALSE
<1>. DEFINE k == client[c].conn
<1>1. conn[k].s2c # <<>> /\ Live(client[c], conn[k], handler[k]) /\ client[c].pc = "await_sync"
  BY Reading DEF SyncReply
<1>. HIDE DEF k
<1>2. AwaitSync(client[c], conn[k], handler[k])
  BY <1>1 DEF Live
<1>3. ~Writing(client[c], conn[k], handler[k], <<SyncRequest>>)
  BY <1>1 DEF Writing
<1>4. ~Answered(conn[k], handler[k])
  BY DEF Answered, Storing, Resting, k
<1>. QED  BY <1>2, <1>3, <1>4 DEF AwaitSync

\* Before anybody has synced, the steps of the groups are these.
LEMMA StepsBefore ==
  ASSUME PInv, Filled, ~readBuffer.set, NEW c \in Clients, ClientNext(c)
  PROVE  /\ ~CommitNothing(c) /\ ~SyncReply(c) /\ ~SyncAgents(c) /\ ~Process(c) /\ ~Disconnect(c)
         /\ SyncHeader(c) \/ CommitAgents(c) =>
              client[c].conn \in Conns /\ handler[client[c].conn].pc \in Storing
         /\ SyncHeader(c) => Connectable(c) = {client[c].conn}
<1>0. ~client[c].synced /\ client[c].pc # "await_agents" /\ ClientState(client[c])
  BY DEF Filled, PInv, Protocol, ClientOK
<1>1. ~CommitNothing(c) /\ ~SyncAgents(c) /\ ~Process(c) /\ ~Disconnect(c)
  BY <1>0 DEF CommitNothing, SyncAgents, Process, Disconnect, Filled, ClientState
<1>. DEFINE k == client[c].conn
<1>2. ASSUME k # NoConn
      PROVE  /\ k \in Conns /\ conn[k].client_open /\ conn[k].server_open /\ conn[k].owner = c
             /\ Live(client[c], conn[k], handler[k]) /\ Before(k)
  <2>1. k \in Conns /\ conn[k].client_open /\ conn[k].owner = c /\ Live(client[c], conn[k], handler[k])
    BY <1>2, Mine
  <2>. QED  BY <2>1 DEF Filled
<1>3. ~SyncReply(c)
  <2>1. SyncReply(c) => client[c].pc = "await_sync" /\ k # NoConn
    BY DEF SyncReply, Inbox
  <2>. QED  BY <1>2, <2>1, NoReplyYet DEF Before
<1>4. ASSUME SyncHeader(c)
      PROVE  k \in Conns /\ handler[k].pc \in Storing /\ Connectable(c) = {k}
  <2>1. client[c].pc = "sync" /\ k # NoConn
    BY <1>0, <1>4 DEF SyncHeader, ClientState
  <2>. QED  BY <1>2, <2>1 DEF Before, Connectable
<1>5. ASSUME CommitAgents(c) PROVE k \in Conns /\ handler[k].pc \in Storing
  <2>1. client[c].pc = "await_commit" /\ k # NoConn /\ conn[k].s2c # <<>>
    BY <1>5 DEF CommitAgents, Inbox
  <2>2. AwaitCommit(conn[k], handler[k]) /\ conn[k].server_open /\ k \in Conns
    BY <1>2, <2>1 DEF Live
  <2>3. handler[k].pc = "commit_data"
    BY <2>1, <2>2 DEF AwaitCommit
  <2>. QED  BY <2>2, <2>3 DEF Storing
<1>. QED  BY <1>1, <1>3, <1>4, <1>5

\* A group's steps keep the buffer's invariant.
LEMMA ClientFilled ==
  ASSUME PInv, Filled, 0 \notin InitialAgents, NEW c \in Clients, ClientNext(c)
  PROVE  Filled'
<1>0. UNCHANGED <<handler, readBuffer, session, up>> /\ client \in [Clients -> TClient]
  BY DEF ClientNext, ClientStep, RequestGroupId, ReceiveGroupId, CommitNothing, CommitHeader,
       CommitAgents, SyncHeader, SyncReply, SyncAgents, Process, Disconnect, Exit, GiveUp, Kill,
       serverUnchanged, stateVars, procVars, PInv, Types
<1>. PICK cl : /\ client' = [client EXCEPT ![c] = cl]
               /\ \/ cl = Off
                  \/ ReceiveGroupId(c) /\ cl.synced = client[c].synced
                  \/ Process(c) /\ cl.synced = client[c].synced
                  \/ /\ cl.agents = client[c].agents
                     /\ \/ cl.synced = client[c].synced
                        \/ SyncReply(c) \/ SyncAgents(c)
  BY ClientEffect
<1>1. client'[c] = cl /\ \A d \in Clients \ {c} : client'[d] = client[d]
  BY <1>0
<1>2. \A k \in Conns : conn'[k].client_open => conn'[k].server_open
  BY OwnConnection DEF Filled
<1>3. ASSUME NEW d \in Clients
      PROVE  /\ client'[d].pc = "process" => client'[d].synced
             /\ client'[d].pc \notin {"off", "await_id"} /\ ~client'[d].synced =>
                  DOMAIN client'[d].agents # {}
  <2>1. cl.pc = "process" => cl.synced
    BY <1>1, ClientPlaces
  <2>2. ASSUME cl.pc \notin {"off", "await_id"}, ~cl.synced PROVE DOMAIN cl.agents # {}
    <3>1. Off.pc = "off"
      BY DEF Off
    <3>2. CASE ReceiveGroupId(c)
      <4>1. PICK n \in InitialAgents :
              client' = [client EXCEPT
                ![c].pc = "commit", ![c].gid = Head(Inbox(c)).n, ![c].number = n,
                ![c].agents = [i \in 1..n |-> [round |-> 0, expires |-> 0]],
                ![c].session = session]
        BY <3>2 DEF ReceiveGroupId
      <4>. DEFINE agents == [i \in 1..n |-> [round |-> 0, expires |-> 0]]
      <4>2. client' = [client EXCEPT
              ![c].pc = "commit", ![c].gid = Head(Inbox(c)).n, ![c].number = n,
              ![c].agents = agents, ![c].session = session]
        BY <4>1
      <4>3. 1 \in DOMAIN agents
        BY ServerAssumption
      <4>. HIDE DEF agents
      <4>4. cl.agents = agents
        BY <1>0, <1>1, <4>2 DEF TClient
      <4>. QED  BY <4>3, <4>4
    <3>3. ~Process(c) \/ cl.synced # client[c].synced
      BY <2>2 DEF Process, Filled
    <3>4. CASE cl.agents = client[c].agents /\ ~ReceiveGroupId(c)
      <4>1. client[c].pc \notin {"off", "await_id"}
        BY <1>1, <2>2, <3>4, ClientPlaces
      <4>2. ASSUME SyncReply(c) \/ SyncAgents(c) PROVE ~client[c].synced
        <5>1. SyncReply(c) => cl.synced = (client[c].synced \/ Head(Inbox(c)).n = 0)
          BY <1>0, <1>1 DEF SyncReply, TClient
        <5>2. SyncAgents(c) => cl.synced
          BY <1>0, <1>1 DEF SyncAgents, TClient
        <5>. QED  BY <2>2, <4>2, <5>1, <5>2
      <4>3. cl # Off
        BY <2>2, <3>1
      <4>4. ~client[c].synced
        BY <2>2, <3>3, <3>4, <4>2, <4>3
      <4>5. DOMAIN client[c].agents # {}
        BY <4>1, <4>4 DEF Filled
      <4>. QED  BY <3>4, <4>5
    <3>. QED  BY <2>2, <3>1, <3>2, <3>3, <3>4
  <2>. QED  BY <1>1, <2>1, <2>2 DEF Filled
<1>4. ASSUME ~readBuffer.set, NEW d \in Clients
      PROVE  ~client'[d].synced /\ client'[d].pc # "await_agents"
  <2>1. ~SyncReply(c) /\ ~SyncAgents(c) /\ ~client[c].synced
    BY <1>4, StepsBefore DEF Filled
  <2>2. ~cl.synced
    BY <2>1 DEF Off
  <2>3. cl.pc # "await_agents"
    BY <1>1, <2>1, ClientPlaces
  <2>. QED  BY <1>1, <1>4, <2>2, <2>3 DEF Filled
<1>5. ASSUME ~readBuffer.set, NEW j \in Conns PROVE Before(j)'
  <2>1. Before(j)
    BY <1>5 DEF Filled
  <2>2. CASE Asking(conn'[j])
    <3>1. Asking(conn[j]) \/ (SyncHeader(c) /\ j \in Connectable(c))
      BY <2>2, ClientStreams DEF Asking
    <3>2. handler[j].pc \in Storing
      BY <1>5, <2>1, <3>1, StepsBefore DEF Before
    <3>. QED  BY <1>0, <2>1, <3>2 DEF Before
  <2>3. CASE conn'[j].client_open /\ client'[conn'[j].owner].pc \in {"sync", "await_sync"}
    <3>. DEFINE d == conn'[j].owner
    <3>1. PInv'
      BY NextProtocol DEF Next, ClientNext
    <3>2. d \in Clients /\ client'[d].conn = j
      BY <2>3, <3>1 DEF PInv, Protocol, ConnOK
    <3>3. CASE d = c
      <4>1. CommitAgents(c) \/ SyncHeader(c)
        BY <1>5, <2>3, <3>3, ClientPlaces, StepsBefore
      <4>2. client[c].conn = j
        <5>1. ASSUME CommitAgents(c) PROVE client'[c].conn = client[c].conn
          BY <1>0, <5>1 DEF CommitAgents, TClient
        <5>2. ASSUME SyncHeader(c) PROVE client'[c].conn = client[c].conn
          <6>1. PICK k \in Connectable(c) :
                  client' = [client EXCEPT ![c].pc = "await_sync", ![c].conn = k]
            BY <5>2 DEF SyncHeader, SendRequest
          <6>2. k = client[c].conn
            BY <1>5, <5>2, StepsBefore
          <6>. QED  BY <1>0, <6>1, <6>2 DEF TClient
        <5>. QED  BY <3>2, <3>3, <4>1, <5>1, <5>2
      <4>3. handler[j].pc \in Storing
        BY <1>5, <4>1, <4>2, StepsBefore
      <4>. QED  BY <1>0, <2>1, <4>3 DEF Before
    <3>4. CASE d # c
      <4>1. conn'[j] = conn[j] /\ client'[d] = client[d]
        BY <1>1, <2>3, <3>2, <3>4, OwnConnection
      <4>2. handler[j].pc \in Storing
        BY <2>1, <2>3, <4>1 DEF Before
      <4>. QED  BY <1>0, <2>1, <4>2 DEF Before
    <3>. QED  BY <3>3, <3>4
  <2>. QED  BY <1>0, <2>1, <2>2, <2>3 DEF Before
<1>. QED  BY <1>0, <1>2, <1>3, <1>4, <1>5 DEF Filled

\* A handler closes no connection that its group has open.
LEMMA ServerStays ==
  ASSUME PInv, NEW k \in Conns, Accept(k) \/ Dispatch(k) \/ HandlerStep(k), ~HandleSyncNull(k),
         NEW j \in Conns, conn[j].client_open
  PROVE  conn'[j].server_open = conn[j].server_open
<1>0. /\ conn \in [Conns -> TConn] /\ conn[k] \in TConn /\ handler[k] \in THandler
      /\ readBuffer.agents \in TMap /\ counter \in Nat
  BY DEF PInv, Types
<1>1. ASSUME NEW co, conn' = [conn EXCEPT ![k] = co], co.server_open = conn[k].server_open
      PROVE  conn'[j].server_open = conn[j].server_open
  <2>1. conn'[j] = IF j = k THEN co ELSE conn[j]
    BY <1>0, <1>1
  <2>. QED  BY <1>1, <2>1
<1>2. ASSUME conn' = CloseByServer(k), ~conn[k].client_open
      PROVE  conn'[j].server_open = conn[j].server_open
  BY <1>0, <1>2 DEF CloseByServer
<1>3. CASE Accept(k)
  <2>. DEFINE co == [conn[k] EXCEPT !.accepted = TRUE]
  <2>1. conn' = [conn EXCEPT ![k] = co] /\ co.server_open = conn[k].server_open
    BY <1>0, <1>3 DEF Accept, TConn
  <2>. HIDE DEF co
  <2>. QED  BY <1>1, <2>1
<1>4. CASE \/ Dispatch(k) \/ HandleCommitLost(k) \/ HandleApply(k) \/ HandleSwap(k)
           \/ HandlerReturn(k)
  BY <1>4 DEF Dispatch, HandleCommitLost, HandleApply, HandleSwap, HandlerReturn
<1>5. ASSUME conn[k].c2s # <<>>
      PROVE  Received(k) \in TConn /\ Received(k).server_open = conn[k].server_open
  BY <1>0, <1>5, Taking DEF Received
<1>6. CASE HandleSyncHeader(k) \/ HandleCommitHeader(k) \/ HandleCommitData(k)
  <2>1. conn' = [conn EXCEPT ![k] = Received(k)] /\ conn[k].c2s # <<>>
    BY <1>6 DEF HandleSyncHeader, HandleCommitHeader, HandleCommitData, Receives
  <2>. QED  BY <1>1, <1>5, <2>1
<1>7. CASE HandleSync(k) \/ HandleSyncData(k) \/ HandleCommit(k)
  <2>. PICK m \in TMessage : conn' = [conn EXCEPT ![k] = ToClient(conn[k], m)]
    <3>1. /\ Header("SERVER_ACK", handler[k].count) \in TMessage
          /\ Header("SERVER_ACK", Size(readBuffer.agents)) \in TMessage
          /\ Data(handler[k].agents) \in TMessage
      BY <1>0, MapSize, Messages DEF THandler, Ops
    <3>. QED  BY <1>7, <3>1 DEF HandleSync, HandleSyncData, HandleCommit, Size
  <2>1. ToClient(conn[k], m).server_open = conn[k].server_open
    BY <1>0, Replying
  <2>. QED  BY <1>1, <2>1
<1>8. CASE HandleRequestGroupId(k)
  <2>. DEFINE r == Received(k)
              m == Header("SERVER_ACK", counter')
  <2>1. conn[k].c2s # <<>> /\ m \in TMessage
    BY <1>0, <1>8, Messages DEF HandleRequestGroupId, Receives, Ops
  <2>2. \/ conn' = [conn EXCEPT ![k] = ToClient(r, m)]
        \/ conn' = CloseByServer(k) /\ ~conn[k].client_open
    BY <1>8 DEF HandleRequestGroupId
  <2>3. r \in TConn /\ r.server_open = conn[k].server_open
    BY <1>5, <2>1
  <2>. HIDE DEF r, m
  <2>4. ToClient(r, m).server_open = conn[k].server_open
    BY <2>1, <2>3, Replying
  <2>. QED  BY <1>1, <1>2, <2>2, <2>4
<1>9. CASE HandleEndOfStream(k) \/ HandlerIoFails(k)
  BY <1>2, <1>9 DEF HandleEndOfStream, HandlerIoFails
<1>10. CASE HandleDisconnect(k)
  <2>1. /\ conn' = CloseByServer(k) /\ handler[k].pc = "header" /\ conn[k].c2s # <<>>
        /\ Head(conn[k].c2s).op = "DISCONNECT"
    BY <1>10 DEF HandleDisconnect, Receives
  <2>2. ~conn[k].client_open
    <3>1. \A op : op # "DISCONNECT" => \A n : Header(op, n).op # "DISCONNECT"
      BY DEF Header
    <3>2. \A m : Head(<<m>>) = m
      BY ShortQueues
    <3>. QED  BY <2>1, <3>1, <3>2, AtWork, HeaderOf DEF SyncRequest
  <2>. QED  BY <1>2, <2>1, <2>2
<1>. QED  BY <1>3, <1>4, <1>6, <1>7, <1>8, <1>9, <1>10 DEF HandlerStep

\* Neither do the handlers' steps break the buffer's invariant.
LEMMA HandlerFilled ==
  ASSUME PInv, Filled, NEW k \in Conns, Accept(k) \/ Dispatch(k) \/ HandlerStep(k)
  PROVE  Filled'
<1>0. handler \in [Conns -> THandler] /\ conn \in [Conns -> TConn]
  BY DEF PInv, Types
<1>1. ~HandleSyncNull(k)
  BY DEF HandleSyncNull, Filled, Before
<1>2. UNCHANGED <<client, up, session>>
  BY <1>1 DEF Accept, Dispatch, HandlerStep, HandleEndOfStream, HandleDisconnect,
     HandleRequestGroupId, HandleSyncHeader, HandleCommitHeader, HandleSync, HandleSyncData,
     HandleCommit, HandleCommitData, HandleCommitLost, HandleApply, HandleSwap,
     HandlerIoFails, HandlerReturn, procVars
<1>3. \A j \in Conns : conn'[j].client_open = conn[j].client_open
                       /\ (conn[j].client_open => conn'[j].owner = conn[j].owner)
  BY ServerReplies DEF Replies
<1>4. \A j \in Conns : conn'[j].client_open => conn'[j].server_open
  BY <1>1, <1>3, ServerStays DEF Filled
<1>5. readBuffer' = readBuffer \/ readBuffer'.set
  <2>1. HandleSwap(k) => readBuffer'.set
    BY DEF HandleSwap, UpdateReadBuffer, Buffer
  <2>. QED  BY <1>1, <2>1 DEF Accept, Dispatch, HandlerStep, HandleEndOfStream, HandleDisconnect,
       HandleRequestGroupId, HandleSyncHeader, HandleCommitHeader, HandleSync, HandleSyncData,
       HandleCommit, HandleCommitData, HandleCommitLost, HandleApply,
       HandlerIoFails, HandlerReturn, stateVars
<1>6. ASSUME ~readBuffer'.set, NEW j \in Conns PROVE Before(j)'
  <2>1. ~readBuffer.set /\ Before(j) /\ Before(k)
    BY <1>5, <1>6 DEF Filled
  <2>2. ~HandleSync(k) /\ ~HandleSyncData(k) /\ ~HandleSwap(k) /\ ~HandleSyncHeader(k)
    <3>1. ~HandleSync(k) /\ ~HandleSyncData(k)
      BY <2>1 DEF HandleSync, HandleSyncData, Before
    <3>2. ~HandleSwap(k)
      BY <1>6 DEF HandleSwap, UpdateReadBuffer, Buffer
    <3>3. ASSUME HandleSyncHeader(k) PROVE FALSE
      <4>1. /\ handler[k].pc = "header" /\ conn[k].c2s # <<>>
            /\ Head(conn[k].c2s).op = "AGENT_SYNC_ALL"
        BY <3>3 DEF HandleSyncHeader, Receives
      <4>2. Head(conn[k].c2s) \in InStream(conn[k])
        BY <1>0, <4>1, InStreamOf
      <4>. QED  BY <2>1, <4>1, <4>2 DEF Before, Asking, Storing
    <3>. QED  BY <3>1, <3>2, <3>3
  <2>. DEFINE Lost == ~conn[k].client_open /\ conn[k].c2s = <<>>
  <2>3. PICK pc, n, m : /\ handler' = [handler EXCEPT ![k] = At(pc, n, m)] \/ handler' = handler
                        /\ pc \notin {"sync", "sync_data"}
                        /\ handler' # handler /\ handler[k].pc \in Storing =>
                             pc \in Storing \/ Lost
    <3>. DEFINE Moved(pc, n, m) ==
           /\ handler' = [handler EXCEPT ![k] = At(pc, n, m)] \/ handler' = handler
           /\ pc \notin {"sync", "sync_data"}
           /\ handler' # handler /\ handler[k].pc \in Storing =>
                pc \in Storing \/ Lost
    <3>. SUFFICES \E pc, n, m : Moved(pc, n, m)
      OBVIOUS
    <3>1. CASE Accept(k)
      <4>1. Moved("none", 0, <<>>)
        BY <3>1 DEF Accept
      <4>. QED  BY <4>1
    <3>2. CASE Dispatch(k)
      <4>1. handler[k].pc = "none" /\ Moved("header", 0, <<>>)
        BY <3>2 DEF Dispatch, Goto, Storing, PInv, IInv, HandlerExclusive
      <4>. QED  BY <4>1
    <3>3. CASE \/ HandleEndOfStream(k) \/ HandleDisconnect(k) \/ HandlerReturn(k)
               \/ HandlerIoFails(k)
      <4>1. Moved("none", 0, <<>>)
        BY <3>3 DEF HandleEndOfStream, HandleDisconnect, HandlerReturn, HandlerIoFails,
                    Receives, Finished, Idle, Storing
      <4>. QED  BY <4>1
    <3>4. CASE HandleRequestGroupId(k)
      <4>1. Moved("none", 0, <<>>) \/ Moved("return", 0, <<>>)
        BY <3>4 DEF HandleRequestGroupId, Receives, Finished, Idle, Goto, Storing
      <4>. QED  BY <4>1
    <3>5. CASE HandleCommitHeader(k)
      <4>1. Moved("commit", Head(conn[k].c2s).n, <<>>)
        BY <3>5 DEF HandleCommitHeader, Receives, Storing
      <4>. QED  BY <4>1
    <3>6. CASE HandleCommit(k)
      <4>1. Moved("commit_data", 0, <<>>)
        BY <3>6 DEF HandleCommit, Goto, Storing
      <4>. QED  BY <4>1
    <3>7. CASE HandleCommitData(k)
      <4>1. Moved("apply", 0, Head(conn[k].c2s).agents)
        BY <3>7 DEF HandleCommitData, Storing
      <4>. QED  BY <4>1
    <3>8. CASE HandleCommitLost(k)
      <4>1. Moved("return", 0, <<>>)
        BY <3>8 DEF HandleCommitLost, Goto, Storing
      <4>. QED  BY <4>1
    <3>9. CASE HandleApply(k)
      <4>1. Moved("swap", 0, <<>>)
        BY <3>9 DEF HandleApply, Goto, Storing
      <4>. QED  BY <4>1
    <3>. HIDE DEF Moved
    <3>. QED  BY <1>1, <2>2, <3>1, <3>2, <3>3, <3>4, <3>5, <3>6, <3>7, <3>8, <3>9
              DEF HandlerStep
  <2>4. handler'[j].pc \notin {"sync", "sync_data"}
    BY <1>0, <2>1, <2>3 DEF Before, At
  <2>5. ASSUME \/ Asking(conn'[j])
               \/ conn'[j].client_open /\ client'[conn'[j].owner].pc \in {"sync", "await_sync"}
        PROVE  handler'[j].pc \in Storing
    <3>1. \/ Asking(conn[j])
          \/ conn[j].client_open /\ client[conn[j].owner].pc \in {"sync", "await_sync"}
      BY <1>2, <1>3, <2>5, ServerStreams DEF TakesOnly, Asking
    <3>2. handler[j].pc \in Storing
      BY <2>1, <3>1 DEF Before
    <3>3. ~(Lost /\ j = k)
      <4>1. conn[k].c2s = <<>> => ~Asking(conn[k])
        BY <1>0, InStreamOf DEF Asking
      <4>. QED  BY <3>1, <4>1
    <3>. QED  BY <1>0, <2>3, <3>2, <3>3 DEF At
  <2>. QED  BY <2>4, <2>5 DEF Before
<1>7. ASSUME ~readBuffer'.set, NEW c \in Clients
      PROVE  ~client'[c].synced /\ client'[c].pc # "await_agents"
  BY <1>2, <1>5, <1>7 DEF Filled
<1>. QED  BY <1>2, <1>4, <1>6, <1>7 DEF Filled

\* What holds of the buffer while the server runs for the first time.
FirstFilled == session # 0 /\ (session = 1 /\ up => Filled)

\* Every step keeps the buffer's invariant; a server that is stopped has no handlers.
LEMMA NextFilled ==
  ASSUME 0 \notin InitialAgents
  PROVE  PInv /\ FirstFilled /\ [Next]_vars => FirstFilled'
<1>. SUFFICES ASSUME PInv, FirstFilled, [Next]_vars, session' = 1, up' PROVE Filled'
  BY StartsOnce DEF FirstFilled
<1>0. Filled /\ ~ServerStart
  <2>1. session = 1 /\ ~ServerStart
    BY StartsOnce DEF FirstFilled
  <2>2. ASSUME ~up PROVE FALSE
    <3>1. ASSUME NEW c \in Clients, ClientNext(c) PROVE UNCHANGED up
      BY <3>1 DEF ClientNext, ClientStep, RequestGroupId, ReceiveGroupId, CommitNothing,
         CommitHeader, CommitAgents, SyncHeader, SyncReply, SyncAgents, Process, Disconnect, Exit,
         GiveUp, Kill, serverUnchanged, procVars
    <3>2. ASSUME NEW k \in Conns, Accept(k) \/ Dispatch(k) \/ HandlerStep(k)
          PROVE  UNCHANGED up \/ ~up'
      BY <3>2 DEF Accept, Dispatch, HandlerStep, HandleEndOfStream, HandleDisconnect,
         HandleRequestGroupId, HandleSyncHeader, HandleCommitHeader, HandleSync, HandleSyncNull,
         HandleSyncData, HandleCommit, HandleCommitData, HandleCommitLost, HandleApply,
         HandleSwap, HandlerIoFails, HandlerReturn, ServerGone, procVars
    <3>3. CASE ServerStop \/ ExpiredAgentCheck \/ ExpiredAgentsSwap \/ Tick \/ UNCHANGED vars
      BY <2>2, <3>3 DEF ServerStop, ServerGone, ExpiredAgentCheck, ExpiredAgentsSwap, Tick, vars,
                        procVars
    <3>. QED  BY <2>1, <2>2, <3>1, <3>2, <3>3 DEF Next, ClientNext
  <2>. QED  BY <2>1, <2>2 DEF FirstFilled
<1>1. CASE \E c \in Clients : ClientNext(c)
  BY <1>0, <1>1, ClientFilled
<1>2. CASE \E k \in Conns : Accept(k) \/ Dispatch(k) \/ HandlerStep(k)
  BY <1>0, <1>2, HandlerFilled
<1>3. CASE ExpiredAgentCheck \/ ExpiredAgentsSwap \/ Tick \/ UNCHANGED vars
  <2>1. UNCHANGED <<client, conn, handler, up, session>>
    BY <1>3 DEF ExpiredAgentCheck, ExpiredAgentsSwap, Tick, vars, netVars, procVars
  <2>2. readBuffer' = readBuffer \/ readBuffer'.set
    BY <1>3 DEF ExpiredAgentCheck, ExpiredAgentsSwap, Tick, vars, stateVars,
                UpdateReadBuffer, Buffer
  <2>. QED  BY <1>0, <2>1, <2>2 DEF Filled, Before
<1>4. ~ServerStop
  BY DEF ServerStop, ServerGone
<1>. QED  BY <1>0, <1>1, <1>2, <1>3, <1>4 DEF Next, ClientNext

\* At first nobody has asked for anything.
LEMMA InitFilled == Init => FirstFilled
<1>. SUFFICES ASSUME Init PROVE FirstFilled
  OBVIOUS
<1>1. \A k \in Conns : ~conn[k].client_open /\ conn[k].c2s = <<>> /\ conn[k] \in TConn
  BY Free DEF Init
<1>2. \A k \in Conns : handler[k].pc = "none"
  BY AtType DEF Init, Idle
<1>3. \A c \in Clients : client[c].pc = "off" /\ ~client[c].synced
  BY DEF Init, Off
<1>4. ASSUME NEW k \in Conns PROVE Before(k)
  <2>1. ~Asking(conn[k])
    BY <1>1, InStreamOf DEF Asking
  <2>. QED  BY <1>1, <1>2, <2>1 DEF Before
<1>. QED  BY <1>1, <1>3, <1>4 DEF Filled, FirstFilled, Init

\* If every group starts with an agent, then until the server is started again a sync
\* never reads through the null m_read_buffer: a group's first sync follows its first
\* commit on the same stream, which one handler at a time reads, and the handler
\* returns to the stream only after it has published the commit.
THEOREM BufferIsNeverNull ==
  ASSUME 0 \notin InitialAgents PROVE Spec => []NoNullBuffer
<1>1. FirstFresh /\ FirstFilled => NoNullBuffer
  BY DEF FirstFresh, IdsFresh, FirstFilled, Filled, Before, NoNullBuffer
<1>. QED  BY <1>1, InitProtocol, NextProtocol, InitFresh, NextFresh, InitFilled, NextFilled, PTL
          DEF Spec


-----------------------------------------------------------------------------
(* The first sync of a group, while the server runs without a restart. *)

\* The map m shows the group cl all of its agents as it has them.
Visible(m, cl) ==
  \A id \in DOMAIN InterfacesOf(cl) : id \in DOMAIN m /\ m[id] = InterfacesOf(cl)[id]

\* A group's own commit makes its agents visible; the commits of others, and the
\* removal of expired agents, leave those visible that never expire.
LEMMA VisibleMaps ==
  ASSUME NEW cl \in TClient, cl.gid # 0, NEW m \in TMap
  PROVE  /\ DOMAIN cl.agents = {} => Visible(m, cl)
         /\ Visible(m, cl) /\ DOMAIN m = {} => DOMAIN cl.agents = {}
         /\ Visible(Merge(m, InterfacesOf(cl)), cl)
         /\ \A a : IsCommit(a) /\ cl.gid \notin GroupsIn(a) /\ Visible(m, cl) =>
              Visible(Merge(m, a), cl)
         /\ (\A i \in DOMAIN cl.agents : cl.agents[i].expires = 0) /\ Visible(m, cl) =>
              Visible(Drop(m, Expired(m)), cl)
<1>. DEFINE I == InterfacesOf(cl)
<1>0. DOMAIN I = {cl.gid} \X DOMAIN cl.agents /\ DOMAIN cl.agents \subseteq Numbers
      /\ I \in TMap
  <2>1. cl.agents \in TMaps(Numbers)
    BY DEF TClient
  <2>. QED  BY <2>1, MapForm, InterfacesAreMap
<1>1. /\ \A id \in DOMAIN I : id[1] = cl.gid /\ id[2] \in DOMAIN cl.agents /\ id[2] \in Nat
                              /\ I[id] = cl.agents[id[2]]
      /\ \A i \in DOMAIN cl.agents : <<cl.gid, i>> \in DOMAIN I
      /\ cl.gid \in Nat
  BY <1>0 DEF Numbers, InterfacesOf, TClient
<1>2. \A id \in DOMAIN m : id[1] \in Nat /\ id[2] \in Nat
  BY MapForm, Ids DEF TMap, IdType
<1>3. DOMAIN cl.agents = {} => Visible(m, cl)
  BY <1>1 DEF Visible
<1>4. Visible(m, cl) /\ DOMAIN m = {} => DOMAIN cl.agents = {}
  BY <1>1 DEF Visible
<1>5. ASSUME NEW a
      PROVE  LET stale == {k \in DOMAIN m \ DOMAIN a :
                             /\ \E x \in DOMAIN a : Leq(GroupMask(x), k)
                             /\ \E x \in DOMAIN a : Less(k, x)}
             IN Merge(m, a) = [k \in (DOMAIN m \ stale) \cup DOMAIN a |->
                                 IF k \in DOMAIN a THEN a[k] ELSE m[k]]
  BY DEF Merge
<1>6. Visible(Merge(m, I), cl)
  <2>. DEFINE stale == {k \in DOMAIN m \ DOMAIN I :
                          /\ \E x \in DOMAIN I : Leq(GroupMask(x), k)
                          /\ \E x \in DOMAIN I : Less(k, x)}
  <2>1. Merge(m, I) = [k \in (DOMAIN m \ stale) \cup DOMAIN I |->
                         IF k \in DOMAIN I THEN I[k] ELSE m[k]]
    BY <1>5
  <2>. HIDE DEF stale, I
  <2>2. \A id \in DOMAIN I : id \in DOMAIN Merge(m, I) /\ Merge(m, I)[id] = I[id]
    BY <2>1
  <2>. QED  BY <2>2 DEF Visible, I
<1>7. ASSUME NEW a, IsCommit(a), cl.gid \notin GroupsIn(a), Visible(m, cl)
      PROVE  Visible(Merge(m, a), cl)
  <2>. DEFINE stale == {k \in DOMAIN m \ DOMAIN a :
                          /\ \E x \in DOMAIN a : Leq(GroupMask(x), k)
                          /\ \E x \in DOMAIN a : Less(k, x)}
  <2>1. PICK g \in Nat \ {cl.gid} : \A x \in DOMAIN a : x[1] = g
    <3>1. PICK x \in DOMAIN a : TRUE
      BY <1>7 DEF IsCommit
    <3>2. x[1] \in Nat
      BY <1>7, MapForm, Ids DEF IsCommit, TMap, IdType
    <3>3. x[1] # cl.gid
      BY <1>7 DEF GroupsIn
    <3>. QED  BY <1>7, <3>1, <3>2, <3>3 DEF IsCommit
  <2>2. ASSUME NEW id \in DOMAIN I PROVE id \notin stale /\ id \notin DOMAIN a
    <3>1. id[1] = cl.gid /\ id[1] \in Nat
      BY <1>1
    <3>2. ASSUME NEW x \in DOMAIN a, NEW y \in DOMAIN a, Leq(GroupMask(x), id), Less(id, y)
          PROVE  FALSE
      <4>1. x[1] = g /\ y[1] = g
        BY <2>1
      <4>2. g <= id[1] /\ id[1] <= g
        BY <3>1, <3>2, <4>1 DEF Leq, Less, GroupMask
      <4>. QED  BY <2>1, <3>1, <4>2
    <3>. QED  BY <2>1, <3>1, <3>2
  <2>3. Merge(m, a) = [k \in (DOMAIN m \ stale) \cup DOMAIN a |->
                         IF k \in DOMAIN a THEN a[k] ELSE m[k]]
    BY <1>5
  <2>. HIDE DEF stale, I
  <2>4. ASSUME NEW id \in DOMAIN I, id \in DOMAIN m, m[id] = I[id]
        PROVE  id \in DOMAIN Merge(m, a) /\ Merge(m, a)[id] = I[id]
    BY <2>2, <2>3, <2>4
  <2>. QED  BY <1>7, <2>4 DEF Visible, I
<1>8. ASSUME \A i \in DOMAIN cl.agents : cl.agents[i].expires = 0, Visible(m, cl)
      PROVE  Visible(Drop(m, Expired(m)), cl)
  <2>. HIDE DEF I
  <2>1. ASSUME NEW id \in DOMAIN I
        PROVE  id \in DOMAIN m \ Expired(m) /\ m[id] = I[id]
    <3>1. id \in DOMAIN m /\ m[id] = I[id]
      BY <1>8 DEF Visible, I
    <3>2. m[id].expires = 0
      BY <1>1, <1>8, <3>1
    <3>. QED  BY <3>1, <3>2 DEF Expired
  <2>. QED  BY <2>1 DEF Visible, Drop, I
<1>. QED  BY <1>3, <1>4, <1>6, <1>7, <1>8

\* How far the group cl, which has not synced, can rely on seeing its agents: in the
\* global state g when its commit has been applied, in the read buffer b as well when
\* the handler ha is done with the commit, and then in what is sent over co.
Seen(cl, co, ha, g, b) ==
  /\ ha.pc = "swap" => Visible(g, cl)
  /\ /\ co.server_open /\ cl.pc \in {"sync", "await_sync"}
     /\ ha.pc \in Resting \cup {"sync"} /\ co.s2c = <<>>
     => Visible(g, cl) /\ Visible(b, cl)
  /\ ha.pc = "sync_data" => Visible(ha.agents, cl)
  /\ cl.pc = "await_sync" /\ co.s2c # <<>> /\ Head(co.s2c).n = 0 => DOMAIN cl.agents = {}
  /\ \A i \in DOMAIN co.s2c : co.s2c[i].op = "DATA" => Visible(co.s2c[i].agents, cl)

\* Agents of group g are on their way to the state over connection k.
Carries(k, g) ==
  \/ \E a \in StreamMaps(conn[k]) : g \in GroupsIn(a)
  \/ handler[k].pc = "apply" /\ g \in GroupsIn(handler[k].agents)

\* Groups have different ids.  Until its first sync a group's agents do not expire and
\* are committed over its present connection only, and what it has committed it can
\* rely on seeing.
FirstSync ==
  /\ \A c, d \in Clients : client[c].gid = client[d].gid /\ client[c].gid # 0 => c = d
  /\ \A c \in Clients :
       /\ client[c].pc = "process" => client[c].synced
       /\ ~client[c].synced =>
            /\ \A i \in DOMAIN client[c].agents : client[c].agents[i].expires = 0
            /\ client[c].gid # 0 =>
                 \A k \in Conns : Carries(k, client[c].gid) => client[c].conn = k
  /\ \A k \in Conns :
       conn[k].client_open /\ ~client[conn[k].owner].synced =>
         Seen(client[conn[k].owner], conn[k], handler[k], globalState, readBuffer.agents)

\* A group that has not synced by the end of a step keeps its id, its agents and its
\* connection, but for the step that gives it the first two.
LEMMA UnsyncedKeeps ==
  ASSUME PInv, FirstSync, NEW c \in Clients, ClientNext(c),
         ~client'[c].synced, client'[c].pc # "off"
  PROVE  /\ ~client[c].synced /\ ~Process(c) /\ ~Disconnect(c) /\ ~SyncAgents(c)
         /\ ~ReceiveGroupId(c) =>
              /\ client'[c].gid = client[c].gid /\ client'[c].agents = client[c].agents
              /\ client[c].gid # 0 => client'[c].conn = client[c].conn
<1>0. client \in [Clients -> TClient] /\ client[c] \in TClient /\ ClientState(client[c])
  BY DEF PInv, Types, Protocol, ClientOK
<1>. PICK cl : /\ client' = [client EXCEPT ![c] = cl]
               /\ \/ cl = Off
                  \/ ReceiveGroupId(c) /\ cl.synced = client[c].synced
                  \/ Process(c) /\ cl.synced = client[c].synced
                  \/ /\ cl.gid = client[c].gid /\ cl.agents = client[c].agents
                     /\ cl.synced = client[c].synced \/ SyncReply(c) \/ SyncAgents(c)
  BY ClientEffect
<1>1. client'[c] = cl /\ cl # Off
  BY <1>0 DEF Off
<1>2. ~SyncAgents(c)
  BY <1>0, <1>1 DEF SyncAgents, TClient
<1>3. ~client[c].synced
  <2>1. SyncReply(c) => cl.synced = (client[c].synced \/ Head(Inbox(c)).n = 0)
    BY <1>0, <1>1 DEF SyncReply, TClient
  <2>. QED  BY <1>1, <1>2, <2>1
<1>4. ~Process(c) /\ ~Disconnect(c)
  BY <1>0, <1>3 DEF Process, Disconnect, FirstSync, ClientState
<1>5. ASSUME client[c].gid # 0, ~ReceiveGroupId(c) PROVE cl.conn = client[c].conn
  <2>1. client[c].conn # NoConn
    <3>1. client[c].pc \notin {"off"}
      BY <1>0, <1>5 DEF ClientState, Off
    <3>. QED  BY <1>0, <1>3, <3>1 DEF ClientState
  <2>2. ASSUME NEW op, NEW n, NEW pc, SendRequest(c, op, n, pc) PROVE cl.conn = client[c].conn
    <3>1. PICK k \in Connectable(c) : client' = [client EXCEPT ![c].pc = pc, ![c].conn = k]
      BY <2>2 DEF SendRequest
    <3>2. k = client[c].conn
      BY <2>1 DEF Connectable
    <3>. QED  BY <1>0, <1>1, <3>1, <3>2 DEF TClient
  <2>3. CASE RequestGroupId(c) \/ CommitHeader(c) \/ SyncHeader(c)
    BY <2>2, <2>3 DEF RequestGroupId, CommitHeader, SyncHeader
  <2>4. CASE CommitNothing(c) \/ CommitAgents(c)
    BY <1>0, <1>1, <2>4 DEF CommitNothing, CommitAgents, TClient
  <2>5. CASE SyncReply(c)
    BY <1>0, <1>1, <2>5 DEF SyncReply, TClient
  <2>6. CASE Exit(c) \/ GiveUp(c) \/ Kill(c)
    BY <1>0, <1>1, <2>6 DEF Exit, GiveUp, Kill
  <2>. QED  BY <1>2, <1>4, <1>5, <2>3, <2>4, <2>5, <2>6 DEF ClientNext, ClientStep
<1>. QED  BY <1>1, <1>2, <1>3, <1>4, <1>5

\* A group's steps keep the ids apart and its agents on its own connection.
LEMMA ClientApart ==
  ASSUME PInv, IdsFresh, FirstSync, NEW c \in Clients, ClientNext(c)
  PROVE  /\ \A e, d \in Clients : client'[e].gid = client'[d].gid /\ client'[e].gid # 0 => e = d
         /\ \A d \in Clients :
              /\ client'[d].pc = "process" => client'[d].synced
              /\ ~client'[d].synced =>
                   /\ \A i \in DOMAIN client'[d].agents : client'[d].agents[i].expires = 0
                   /\ client'[d].gid # 0 =>
                        \A k \in Conns : Carries(k, client[d].gid)' => client'[d].conn = k
<1>0. client \in [Clients -> TClient] /\ UNCHANGED handler
  BY DEF ClientNext, ClientStep, RequestGroupId, ReceiveGroupId, CommitNothing, CommitHeader,
       CommitAgents, SyncHeader, SyncReply, SyncAgents, Process, Disconnect, Exit, GiveUp, Kill,
       serverUnchanged, PInv, Types
<1>. PICK cl : /\ client' = [client EXCEPT ![c] = cl]
               /\ \/ cl = Off
                  \/ ReceiveGroupId(c) /\ cl.gid = Head(Inbox(c)).n
                  \/ cl.gid = client[c].gid
  BY ClientEffect
<1>1. client'[c] = cl /\ \A d \in Clients \ {c} : client'[d] = client[d]
  BY <1>0
<1>2. ASSUME ReceiveGroupId(c)
      PROVE  ~Used(cl.gid) /\ cl.gid # 0 /\ \A i \in DOMAIN cl.agents : cl.agents[i].expires = 0
  <2>1. PICK n \in InitialAgents :
          client' = [client EXCEPT
            ![c].pc = "commit", ![c].gid = Head(Inbox(c)).n, ![c].number = n,
            ![c].agents = [i \in 1..n |-> [round |-> 0, expires |-> 0]],
            ![c].session = session]
    BY <1>2 DEF ReceiveGroupId
  <2>. DEFINE agents == [i \in 1..n |-> [round |-> 0, expires |-> 0]]
  <2>2. client' = [client EXCEPT
            ![c].pc = "commit", ![c].gid = Head(Inbox(c)).n, ![c].number = n,
            ![c].agents = agents, ![c].session = session]
    BY <2>1
  <2>3. \A i \in DOMAIN agents : agents[i].expires = 0
    OBVIOUS
  <2>. HIDE DEF agents
  <2>4. cl.agents = agents /\ cl.gid = Head(Inbox(c)).n
    BY <1>0, <1>1, <2>2 DEF TClient
  <2>5. cl.gid \in Nat \ {0} /\ ~Used(cl.gid)
    BY <1>2, <2>4, IdOffered DEF IdsFresh
  <2>. QED  BY <2>3, <2>4, <2>5
<1>3. \/ cl.gid = 0
      \/ ReceiveGroupId(c)
      \/ cl.gid = client[c].gid /\ ~ReceiveGroupId(c)
  BY DEF Off
<1>4. ASSUME NEW e \in Clients, NEW d \in Clients,
             client'[e].gid = client'[d].gid, client'[e].gid # 0
      PROVE  e = d
  <2>1. \A f \in Clients : client[f].gid # 0 => (ReceiveGroupId(c) => client[f].gid # cl.gid)
    BY <1>2 DEF Used
  <2>. QED  BY <1>1, <1>2, <1>3, <1>4, <2>1 DEF FirstSync
<1>5. ASSUME NEW d \in Clients PROVE client'[d].pc = "process" => client'[d].synced
  BY <1>1, ClientPlaces DEF FirstSync
<1>6. ASSUME NEW d \in Clients, ~client'[d].synced
      PROVE  \A i \in DOMAIN client'[d].agents : client'[d].agents[i].expires = 0
  <2>1. CASE d # c
    BY <1>1, <1>6, <2>1 DEF FirstSync
  <2>2. CASE d = c /\ cl.pc = "off"
    <3>1. cl = Off
      <4>1. ClientState(client'[c])
        BY NextProtocol DEF Next, ClientNext, PInv, Protocol, ClientOK
      <4>. QED  BY <1>1, <2>2, <4>1 DEF ClientState
    <3>. QED  BY <1>1, <2>2, <3>1, EmptyMap DEF Off
  <2>3. CASE d = c /\ cl.pc # "off"
    <3>1. CASE ReceiveGroupId(c)
      BY <1>1, <1>2, <2>3, <3>1
    <3>2. CASE ~ReceiveGroupId(c)
      BY <1>1, <1>6, <2>3, <3>2, UnsyncedKeeps DEF FirstSync
    <3>. QED  BY <3>1, <3>2
  <2>. QED  BY <2>1, <2>2, <2>3
<1>7. ASSUME NEW d \in Clients, ~client'[d].synced, client'[d].gid # 0,
             NEW k \in Conns, Carries(k, client[d].gid)'
      PROVE  client'[d].conn = k
  <2>. DEFINE g == client'[d].gid
  <2>1. \/ Carries(k, g)
        \/ CommitAgents(c) /\ k = client[c].conn /\ g = client[c].gid
    <3>1. \/ \E a \in StreamMaps(conn'[k]) : g \in GroupsIn(a)
          \/ handler[k].pc = "apply" /\ g \in GroupsIn(handler[k].agents)
      BY <1>0, <1>7 DEF Carries, StreamMaps, InStream, GroupsIn
    <3>2. ASSUME NEW a \in StreamMaps(conn'[k]), g \in GroupsIn(a)
          PROVE  \/ Carries(k, g)
                 \/ CommitAgents(c) /\ k = client[c].conn /\ g = client[c].gid
      <4>1. \/ a \in StreamMaps(conn[k]) \/ a = <<>>
            \/ CommitAgents(c) /\ k = client[c].conn /\ a = Interfaces(c)
        BY <3>2, ClientStreams DEF StreamMaps
      <4>. QED  BY <3>2, <4>1, GroupsOf DEF Carries
    <3>. HIDE DEF g
    <3>. QED  BY <3>1, <3>2 DEF Carries
  <2>2. CASE d # c
    BY <1>1, <1>7, <2>1, <2>2 DEF FirstSync
  <2>3. CASE d = c /\ ReceiveGroupId(c)
    <3>1. ~CommitAgents(c)
      BY <2>3 DEF ReceiveGroupId, CommitAgents
    <3>2. ~Carries(k, g)
      BY <1>1, <1>2, <2>3 DEF Carries, Used
    <3>. QED  BY <2>1, <3>1, <3>2
  <2>4. CASE d = c /\ ~ReceiveGroupId(c)
    <3>1. cl.pc # "off"
      <4>1. ClientState(client'[c])
        BY NextProtocol DEF Next, ClientNext, PInv, Protocol, ClientOK
      <4>. QED  BY <1>1, <1>7, <2>4, <4>1 DEF ClientState, Off
    <3>2. ~client[c].synced /\ g = client[c].gid /\ client'[c].conn = client[c].conn
      BY <1>1, <1>7, <2>4, <3>1, UnsyncedKeeps
    <3>. QED  BY <1>7, <2>1, <2>4, <3>2 DEF FirstSync
  <2>. QED  BY <2>2, <2>3, <2>4
<1>. QED  BY <1>4, <1>5, <1>6, <1>7

\* What a group can rely on before it has committed, and when it has nothing to see.
LEMMA SeenAtFirst ==
  ASSUME NEW cl \in TClient, NEW co \in TConn, NEW ha \in THandler, NEW g \in TMap, NEW b \in TMap,
         \/ cl.pc \in {"await_id", "commit", "await_commit"} /\ Live(cl, co, ha)
              /\ (~co.server_open => ha.pc = "none")
         \/ cl.gid # 0 /\ DOMAIN cl.agents = {}
  PROVE  Seen(cl, co, ha, g, b)
<1>1. CASE cl.gid # 0 /\ DOMAIN cl.agents = {}
  <2>1. \A m \in TMap : Visible(m, cl)
    BY <1>1, VisibleMaps
  <2>2. ha.agents \in TMap /\ \A i \in DOMAIN co.s2c : co.s2c[i].agents \in TMap
    <3>1. co.s2c \in Seq(TMessage) /\ ha.agents \in TMap
      BY ConnFieldTypes DEF THandler
    <3>2. \A i \in DOMAIN co.s2c : co.s2c[i] \in TMessage
      BY <3>1
    <3>. QED  BY <3>1, <3>2 DEF TMessage
  <2>. QED  BY <1>1, <2>1, <2>2 DEF Seen
<1>2. CASE cl.pc \in {"await_id", "commit", "await_commit"} /\ Live(cl, co, ha)
             /\ (~co.server_open => ha.pc = "none")
  <2>1. \/ cl.pc = "await_id" /\ AwaitId(co, ha)
        \/ cl.pc = "commit" /\ ha.pc \in Resting /\ co.s2c = <<>>
        \/ cl.pc = "await_commit" /\ AwaitCommit(co, ha)
    BY <1>2 DEF Live
  <2>2. ha.pc \notin {"swap", "sync_data"}
    BY <1>2, <2>1 DEF AwaitId, AwaitCommit, Resting
  <2>3. co.s2c = <<>> \/ \E n : co.s2c = <<Ack(n)>>
    BY <2>1 DEF AwaitId, AwaitCommit
  <2>4. \A i \in DOMAIN co.s2c : co.s2c[i].op # "DATA"
    <3>1. CASE co.s2c = <<>>
      BY <3>1, EmptyMap
    <3>2. CASE co.s2c # <<>>
      <4>. PICK n : co.s2c = <<Ack(n)>>
        BY <2>3, <3>2
      <4>1. Ack(n).op # "DATA"
        BY DEF Ack, Header
      <4>. HIDE DEF Ack
      <4>. QED  BY <4>1
    <3>. QED  BY <3>1, <3>2
  <2>. QED  BY <1>2, <2>2, <2>4 DEF Seen
<1>. QED  BY <1>1, <1>2

\* A group's steps keep what it can rely on.
LEMMA ClientSeen ==
  ASSUME PInv, FirstSync, NEW c \in Clients, ClientNext(c),
         NEW k \in Conns, conn'[k].client_open, ~client'[conn'[k].owner].synced
  PROVE  Seen(client'[conn'[k].owner], conn'[k], handler'[k], globalState', readBuffer'.agents)
<1>0. /\ client \in [Clients -> TClient] /\ conn \in [Conns -> TConn] /\ handler[k] \in THandler
      /\ globalState \in TMap /\ readBuffer.agents \in TMap
      /\ UNCHANGED <<handler, globalState, readBuffer>>
  BY DEF ClientNext, ClientStep, RequestGroupId, ReceiveGroupId, CommitNothing, CommitHeader,
       CommitAgents, SyncHeader, SyncReply, SyncAgents, Process, Disconnect, Exit, GiveUp, Kill,
       serverUnchanged, stateVars, PInv, Types
<1>1. PInv'
  BY NextProtocol DEF Next, ClientNext
<1>. DEFINE d == conn'[k].owner
            cl == client'[c]
            co == conn'[k]
<1>2. /\ d \in Clients /\ client'[d].conn = k /\ client'[d] \in TClient /\ co \in TConn
      /\ Live(client'[d], co, handler[k]) /\ ClientState(client'[d])
      /\ ~co.server_open => handler[k].pc = "none"
  BY <1>0, <1>1 DEF PInv, Types, Protocol, ClientOK, ConnOK, IInv, HandlerExclusive
<1>3. CASE d # c
  <2>1. conn'[k] = conn[k]
    BY <1>3, OwnConnection
  <2>2. client'[d] = client[d]
    BY <1>0, <1>2, <1>3, ClientEffect
  <2>. QED  BY <1>0, <2>1, <2>2 DEF FirstSync
<1>4. CASE d = c
  <2>1. ~cl.synced /\ cl.pc # "off"
    BY <1>2, <1>4 DEF Live
  <2>2. /\ ~client[c].synced /\ ~Process(c) /\ ~Disconnect(c) /\ ~SyncAgents(c)
        /\ ~ReceiveGroupId(c) =>
              /\ cl.gid = client[c].gid /\ cl.agents = client[c].agents
              /\ client[c].gid # 0 => client[c].conn = k
    BY <1>2, <1>4, <2>1, UnsyncedKeeps
  <2>3. CASE cl.pc \in {"await_id", "commit", "await_commit"}
    BY <1>0, <1>2, <1>4, <2>3, SeenAtFirst
  <2>4. cl.pc \notin {"process", "disconnect"}
    <3>1. cl.pc # "process"
      BY <2>1, ClientPlaces
    <3>. QED  BY <1>2, <1>4, <2>1, <3>1 DEF ClientState
  <2>5. CASE DOMAIN cl.agents = {} /\ cl.pc \in {"sync", "await_sync", "await_agents"}
    BY <1>0, <1>2, <1>4, <2>5, SeenAtFirst DEF ClientState
  <2>6. ASSUME ~ReceiveGroupId(c), client[c].pc \notin {"off", "await_id"}
        PROVE  /\ cl.gid = client[c].gid /\ cl.agents = client[c].agents /\ client[c].conn = k
               /\ client[c] \in TClient /\ conn[k] \in TConn
               /\ conn[k].owner = c /\ Live(client[c], conn[k], handler[k])
               /\ Seen(client[c], conn[k], handler[k], globalState, readBuffer.agents)
               /\ \A m : Visible(m, cl) <=> Visible(m, client[c])
    <3>1. client[c].gid # 0
      BY <2>6 DEF PInv, Protocol, ClientOK, ClientState
    <3>2. cl.gid = client[c].gid /\ cl.agents = client[c].agents /\ client[c].conn = k
      BY <2>2, <2>6, <3>1
    <3>3. conn[k].client_open /\ conn[k].owner = c /\ Live(client[c], conn[k], handler[k])
      BY <3>2, Mine, ServerAssumption
    <3>4. InterfacesOf(cl) = InterfacesOf(client[c])
      BY <3>2, SameInterfaces
    <3>. QED  BY <1>0, <2>2, <3>2, <3>3, <3>4 DEF FirstSync, Visible
  <2>7. CASE CommitNothing(c)
    <3>1. cl.agents = client[c].agents /\ DOMAIN client[c].agents = {}
      BY <2>6, <2>7 DEF CommitNothing, ReceiveGroupId
    <3>2. cl.pc \notin {"await_agents", "await_sync"}
      BY <2>7, ClientPlaces DEF CommitNothing, SyncReply, SyncHeader
    <3>. QED  BY <1>2, <1>4, <2>3, <2>4, <2>5, <3>1, <3>2, <2>1 DEF TClient, ClientPc
  <2>8. CASE CommitAgents(c)
    <3>1. /\ client[c].pc = "await_commit" /\ Inbox(c) # <<>>
          /\ conn' = [conn EXCEPT ![client[c].conn] = ToServer(Taken(c), Data(Interfaces(c)))]
      BY <2>8 DEF CommitAgents
    <3>2. client[c].conn = k
      BY <2>6, <3>1 DEF ReceiveGroupId
    <3>. DEFINE x == Taken(c)
                m == Data(Interfaces(c))
    <3>3. /\ x \in TConn /\ x.s2c = Tail(conn[k].s2c) /\ x.server_open = conn[k].server_open
          /\ conn[k].s2c # <<>> /\ Live(client[c], conn[k], handler[k])
      BY <3>1, <3>2, Reading
    <3>4. m \in TMessage
      BY <2>8, CommitData
    <3>5. co = ToServer(x, m)
      BY <1>0, <3>1, <3>2
    <3>. HIDE DEF x, m, co
    <3>6. co.s2c = Tail(conn[k].s2c) /\ co.server_open = conn[k].server_open
      BY <3>3, <3>4, <3>5, Sending
    <3>7. /\ \E n : conn[k].s2c = <<Ack(n)>>
          /\ handler[k].pc = "commit_data" \/ ~conn[k].server_open
      BY <3>1, <3>3 DEF Live, AwaitCommit
    <3>8. co.s2c = <<>>
      BY <3>6, <3>7, ShortQueues
    <3>9. handler[k].pc \in {"commit_data", "none"} /\ (handler[k].pc = "none" => ~co.server_open)
      BY <1>2, <3>6, <3>7 DEF co
    <3>. QED  BY <1>0, <1>4, <3>8, <3>9 DEF Seen, co, Resting
  <2>9. CASE SyncHeader(c)
    <3>1. client[c].pc = "sync" /\ cl.pc = "await_sync"
      <4>1. PICK j : client' = [client EXCEPT ![c].pc = "await_sync", ![c].conn = j]
        BY <2>9 DEF SyncHeader, SendRequest
      <4>. QED  BY <1>0, <2>9, <4>1 DEF SyncHeader, TClient
    <3>2. /\ client[c].conn = k /\ Live(client[c], conn[k], handler[k])
          /\ Seen(client[c], conn[k], handler[k], globalState, readBuffer.agents)
          /\ \A m : Visible(m, cl) <=> Visible(m, client[c])
      BY <2>6, <3>1 DEF ReceiveGroupId
    <3>. DEFINE m == Header("AGENT_SYNC_ALL", 0)
    <3>3. co = ToServer(conn[k], m)
      <4>1. PICK j \in Connectable(c) :
              conn' = [conn EXCEPT ![j] = ToServer(Connected(c, j), m)]
        BY <2>9 DEF SyncHeader, SendRequest
      <4>2. j = k /\ Connected(c, k) = conn[k]
        BY <3>2, ServerAssumption DEF Connectable, Connected
      <4>. QED  BY <1>0, <4>1, <4>2
    <3>4. m \in TMessage
      BY Messages DEF Ops
    <3>5. conn[k].s2c = <<>>
      BY <3>1, <3>2 DEF Live, Writing
    <3>. HIDE DEF m, co, cl
    <3>6. co.s2c = conn[k].s2c /\ co.server_open = conn[k].server_open
      BY <1>0, <3>3, <3>4, Sending
    <3>7. Seen(cl, co, handler[k], globalState, readBuffer.agents)
      BY <3>1, <3>2, <3>5, <3>6 DEF Seen
    <3>. QED  BY <1>0, <1>4, <3>7 DEF cl, co
  <2>10. CASE SyncReply(c)
    <3>1. /\ client[c].pc = "await_sync" /\ Inbox(c) # <<>> /\ conn' = Consume(c)
          /\ cl.pc \in {"await_agents", "process"}
      <4>. DEFINE pc == IF Head(Inbox(c)).n > 0 THEN "await_agents" ELSE "process"
      <4>1. pc \in {"await_agents", "process"}
        OBVIOUS
      <4>2. cl.pc = pc
        BY <1>0, <2>10 DEF SyncReply, TClient
      <4>. HIDE DEF pc
      <4>. QED  BY <2>10, <4>1, <4>2 DEF SyncReply
    <3>2. /\ client[c].conn = k
          /\ Seen(client[c], conn[k], handler[k], globalState, readBuffer.agents)
          /\ \A m : Visible(m, cl) <=> Visible(m, client[c])
      BY <2>6, <3>1 DEF ReceiveGroupId
    <3>3. co = Taken(c) /\ co.s2c = Tail(conn[k].s2c) /\ conn[k].s2c # <<>>
      BY <1>0, <3>1, <3>2, Reading DEF Consume
    <3>4. \A i \in DOMAIN co.s2c : \E j \in DOMAIN conn[k].s2c : co.s2c[i] = conn[k].s2c[j]
      <4>. DEFINE q == conn[k].s2c
      <4>1. q \in Seq(TMessage)
        BY <1>0, ConnFieldTypes
      <4>. HIDE DEF q
      <4>2. q # <<>> => \A i \in DOMAIN Tail(q) : i + 1 \in DOMAIN q /\ Tail(q)[i] = q[i + 1]
        BY <4>1, QueueTaken
      <4>. QED  BY <3>3, <4>2 DEF q
    <3>5. cl.pc = "await_agents"
      BY <2>4, <3>1
    <3>. HIDE DEF co, cl
    <3>6. Seen(cl, co, handler[k], globalState, readBuffer.agents)
      BY <3>2, <3>4, <3>5 DEF Seen
    <3>. QED  BY <1>0, <1>4, <3>6 DEF cl, co
  <2>11. CASE RequestGroupId(c) \/ CommitHeader(c) \/ ReceiveGroupId(c)
    <3>1. cl.pc \notin {"sync", "await_sync", "await_agents"}
      BY <2>11, ClientPlaces DEF RequestGroupId, CommitHeader, ReceiveGroupId, SyncReply, SyncHeader,
           CommitNothing, CommitAgents, Disconnect
    <3>. QED  BY <1>2, <1>4, <2>1, <2>3, <2>4, <3>1 DEF TClient, ClientPc
  <2>12. CASE Exit(c) \/ GiveUp(c) \/ Kill(c)
    BY <1>0, <2>1, <2>12 DEF Exit, GiveUp, Kill, Off
  <2>. QED  BY <2>2, <2>7, <2>8, <2>9, <2>10, <2>11, <2>12 DEF ClientNext, ClientStep
<1>. QED  BY <1>3, <1>4

\* A step of the server puts nothing on its way to the state.
LEMMA NothingNew ==
  ASSUME PInv, FirstSync, UNCHANGED client, \A j \in Conns : TakesOnly(j)
  PROVE  /\ \A c, d \in Clients : client'[c].gid = client'[d].gid /\ client'[c].gid # 0 => c = d
         /\ \A c \in Clients :
              /\ client'[c].pc = "process" => client'[c].synced
              /\ ~client'[c].synced =>
                   /\ \A i \in DOMAIN client'[c].agents : client'[c].agents[i].expires = 0
                   /\ client'[c].gid # 0 =>
                        \A k \in Conns : Carries(k, client[c].gid)' => client'[c].conn = k
<1>1. ASSUME NEW j \in Conns, NEW c \in Clients, Carries(j, client[c].gid)'
      PROVE  Carries(j, client[c].gid)
  <2>. DEFINE g == client[c].gid
  <2>1. \/ \E m \in InStream(conn'[j]) : g \in GroupsIn(m.agents)
        \/ handler'[j].pc = "apply" /\ g \in GroupsIn(handler'[j].agents)
    BY <1>1 DEF Carries, StreamMaps, InStream, GroupsIn
  <2>. HIDE DEF g
  <2>2. \/ \E m \in InStream(conn[j]) : g \in GroupsIn(m.agents)
        \/ handler[j].pc = "apply" /\ g \in GroupsIn(handler[j].agents)
    BY <1>1, <2>1 DEF TakesOnly
  <2>. QED  BY <2>2 DEF Carries, StreamMaps, g
<1>. QED  BY <1>1 DEF FirstSync

\* A handler that does not publish, and sends nothing, keeps what its group can rely on.
LEMMA SeenKept ==
  ASSUME NEW cl, NEW co, NEW co2, NEW ha, NEW ha2, NEW g, NEW b, Seen(cl, co, ha, g, b),
         co2.s2c = co.s2c, co2.server_open => co.server_open,
         \/ ha2 = ha
         \/ /\ ha2.pc \notin {"swap", "sync_data"}
            /\ ha2.pc \in Resting \cup {"sync"} => ha.pc \in Resting \cup {"sync"}
  PROVE  Seen(cl, co2, ha2, g, b)
<1>1. CASE ha2 = ha
  BY <1>1 DEF Seen
<1>2. CASE /\ ha2.pc \notin {"swap", "sync_data"}
           /\ ha2.pc \in Resting \cup {"sync"} => ha.pc \in Resting \cup {"sync"}
  BY <1>2 DEF Seen
<1>. QED  BY <1>1, <1>2

\* The reply to a sync shows what the handler has of the group's agents.
LEMMA SeenReply ==
  ASSUME NEW cl \in TClient, NEW co \in TConn, NEW co2, NEW ha \in THandler, NEW ha2,
         NEW g, NEW b \in TMap, Seen(cl, co, ha, g, b), Live(cl, co, ha), co.server_open,
         cl.gid # 0, DOMAIN cl.agents # {},
         \/ /\ ha.pc = "sync" /\ co2.s2c = Append(co.s2c, Ack(Size(b)))
            /\ ha2 = IF Size(b) > 0 THEN At("sync_data", 0, b) ELSE At("return", 0, <<>>)
         \/ /\ ha.pc = "sync_data" /\ co2.s2c = Append(co.s2c, Data(ha.agents))
            /\ ha2 = At("return", 0, <<>>)
  PROVE  Seen(cl, co2, ha2, g, b)
<1>1. CASE ha.pc = "sync"
  <2>1. cl.pc = "await_sync" /\ co.s2c = <<>>
    BY <1>1, Busy
  <2>2. Visible(b, cl)
    BY <1>1, <2>1 DEF Seen
  <2>3. Size(b) \in Nat /\ Size(b) # 0
    BY <2>2, VisibleMaps, MapSize
  <2>. DEFINE n == Size(b)
              a == Ack(n)
  <2>4. a.op = "SERVER_ACK" /\ a.n = n
    BY DEF Ack, Header
  <2>5. ha2.pc = "sync_data" /\ ha2.agents = b
    BY <1>1, <2>3 DEF At
  <2>6. co2.s2c = <<a>>
    BY <1>1, <2>1
  <2>. HIDE DEF a, n
  <2>7. /\ Head(co2.s2c) = a /\ co2.s2c # <<>>
        /\ \A i \in DOMAIN co2.s2c : co2.s2c[i].op = "SERVER_ACK"
    BY <2>4, <2>6, ShortQueues
  <2>8. n # 0
    BY <2>3 DEF n
  <2>. QED  BY <2>2, <2>4, <2>5, <2>7, <2>8 DEF Seen
<1>2. CASE ha.pc = "sync_data"
  <2>. DEFINE q == co.s2c
              m == Data(ha.agents)
  <2>1. /\ Visible(ha.agents, cl)
        /\ \A i \in DOMAIN q : q[i].op = "DATA" => Visible(q[i].agents, cl)
    BY <1>2 DEF Seen
  <2>2. \/ cl.pc = "await_sync" /\ Size(ha.agents) > 0 /\ q = <<Ack(Size(ha.agents))>>
        \/ cl.pc = "await_agents" /\ q = <<>>
    BY <1>2, Busy
  <2>3. q \in Seq(TMessage) /\ m \in TMessage /\ m.agents = ha.agents
    BY ConnFieldTypes, Messages DEF THandler
  <2>4. cl.pc = "await_sync" => Head(co2.s2c).n # 0
    <3>. DEFINE n == Size(ha.agents)
    <3>1. CASE cl.pc = "await_sync"
      <4>1. n > 0 /\ q = <<Ack(n)>>
        BY <2>2, <3>1
      <4>2. co2.s2c = <<Ack(n), m>>
        BY <1>2, <4>1, ShortQueues
      <4>3. Ack(n).n = n
        BY DEF Ack, Header
      <4>. HIDE DEF n, m
      <4>4. Head(co2.s2c) = Ack(n)
        BY <4>2, ShortQueues
      <4>5. n # 0
        BY <4>1
      <4>. QED  BY <4>3, <4>4, <4>5
    <3>. QED  BY <3>1
  <2>5. co2.s2c = Append(q, m) /\ ha2.pc = "return"
    BY <1>2 DEF At
  <2>. HIDE DEF q, m
  <2>6. /\ co2.s2c # <<>>
        /\ \A i \in DOMAIN co2.s2c : (i \in DOMAIN q /\ co2.s2c[i] = q[i]) \/ co2.s2c[i] = m
    BY <2>3, <2>5, Queue
  <2>7. \A i \in DOMAIN co2.s2c : co2.s2c[i].op = "DATA" => Visible(co2.s2c[i].agents, cl)
    BY <2>1, <2>3, <2>6
  <2>. QED  BY <2>4, <2>5, <2>6, <2>7 DEF Seen
<1>. QED  BY <1>1, <1>2

\* A commit that is applied, and the buffer swapped, keep what every group can rely on.
LEMMA SeenPublished ==
  ASSUME PInv, FirstSync, NEW k \in Conns, HandleApply(k) \/ HandleSwap(k),
         NEW j \in Conns, conn[j].client_open, ~client[conn[j].owner].synced,
         client[conn[j].owner].gid # 0
  PROVE  Seen(client[conn[j].owner], conn'[j], handler'[j], globalState', readBuffer'.agents)
<1>. DEFINE d == conn[j].owner
            cl == client[d]
<1>0. /\ handler \in [Conns -> THandler] /\ UNCHANGED <<client, conn>>
      /\ globalState \in TMap /\ readBuffer.agents \in TMap
      /\ d \in Clients /\ cl \in TClient /\ cl.conn = j /\ Live(cl, conn[j], handler[j])
      /\ Seen(cl, conn[j], handler[j], globalState, readBuffer.agents)
  BY AtWork DEF HandleApply, HandleSwap, PInv, Types, Protocol, ConnOK, FirstSync
<1>. HIDE DEF cl
<1>1. CASE HandleApply(k)
  <2>1. /\ handler[k].pc = "apply" /\ lock = "free" /\ UNCHANGED readBuffer
        /\ globalState' = Merge(globalState, handler[k].agents)
        /\ handler' = [handler EXCEPT ![k] = At("swap", 0, <<>>)]
    BY <1>1 DEF HandleApply, Goto
  <2>2. CASE j = k
    <3>1. handler[k].agents = InterfacesOf(cl) /\ conn[k].s2c = <<>>
      BY <1>0, <2>1, <2>2, AtWork, Busy DEF Writing, Resting
    <3>2. Visible(globalState', cl) /\ handler'[k].pc = "swap"
      BY <1>0, <2>1, <3>1, VisibleMaps DEF At, cl
    <3>. QED  BY <1>0, <2>2, <3>1, <3>2, EmptyMap DEF Seen, Resting, cl
  <2>3. CASE j # k
    <3>1. handler[j].pc # "swap" /\ handler'[j] = handler[j]
      <4>1. j # "free"
        BY ServerAssumption
      <4>. QED  BY <1>0, <2>1, <2>3, <4>1 DEF PInv, IInv, LockDiscipline
    <3>2. IsCommit(handler[k].agents)
      BY <2>1, AtWork DEF Stream
    <3>3. cl.gid \notin GroupsIn(handler[k].agents)
      <4>1. SUFFICES ASSUME Carries(k, cl.gid) PROVE FALSE
        BY <2>1 DEF Carries
      <4>. QED  BY <1>0, <2>3, <4>1 DEF FirstSync, cl
    <3>4. Visible(globalState, cl) => Visible(globalState', cl)
      BY <1>0, <2>1, <3>2, <3>3, VisibleMaps DEF cl
    <3>. QED  BY <1>0, <2>1, <3>1, <3>4 DEF Seen, cl
  <2>. QED  BY <2>2, <2>3
<1>2. CASE HandleSwap(k)
  <2>1. /\ handler[k].pc = "swap" /\ UNCHANGED globalState /\ readBuffer'.agents = globalState
        /\ handler' = [handler EXCEPT ![k] = At("return", 0, <<>>)]
    BY <1>2 DEF HandleSwap, UpdateReadBuffer, Buffer, Goto
  <2>2. CASE j = k
    <3>1. Visible(globalState, cl) /\ conn[k].s2c = <<>>
      BY <1>0, <2>1, <2>2, AtWork, Busy DEF Writing, Seen
    <3>2. handler'[k].pc = "return"
      BY <1>0, <2>1 DEF At
    <3>. QED  BY <1>0, <2>1, <2>2, <3>1, <3>2, EmptyMap DEF Seen, cl
  <2>3. CASE j # k
    <3>1. handler'[j] = handler[j]
      BY <1>0, <2>1, <2>3
    <3>. QED  BY <1>0, <2>1, <3>1 DEF Seen, cl
  <2>. QED  BY <2>2, <2>3
<1>. QED  BY <1>1, <1>2

\* What a step of the server other than these does, away from the state.
LEMMA ServerElsewhere ==
  ASSUME PInv, NEW k \in Conns, Accept(k) \/ Dispatch(k) \/ HandlerStep(k),
         ~HandleApply(k), ~HandleSwap(k), ~HandleSyncNull(k)
  PROVE  /\ UNCHANGED <<globalState, readBuffer>>
         /\ \A j \in Conns \ {k} : conn'[j] = conn[j] /\ handler'[j] = handler[j]
<1>0. conn \in [Conns -> TConn] /\ handler \in [Conns -> THandler]
  BY DEF PInv, Types
<1>. QED  BY <1>0 DEF Accept, Dispatch, HandlerStep, HandleEndOfStream, HandleDisconnect,
     HandleRequestGroupId, HandleSyncHeader, HandleCommitHeader, HandleSync, HandleSyncData,
     HandleCommit, HandleCommitData, HandleCommitLost, HandlerIoFails, HandlerReturn,
     CloseByServer, Finished, Goto, stateVars

\* A server that goes away leaves the groups what they have received.
LEMMA SeenGone ==
  ASSUME PInv, FirstSync, ServerGone,
         NEW j \in Conns, conn[j].client_open, ~client[conn[j].owner].synced
  PROVE  Seen(client[conn[j].owner], conn'[j], handler'[j], globalState', readBuffer'.agents)
<1>1. Seen(client[conn[j].owner], conn[j], handler[j], globalState, readBuffer.agents)
  BY DEF FirstSync
<1>2. handler'[j].pc = "none" /\ conn[j] \in TConn
  BY AtType, AtWork DEF ServerGone
<1>3. conn'[j].s2c = conn[j].s2c /\ ~conn'[j].server_open
  <2>1. conn'[j] = IF conn[j].server_open THEN ClosedByServer(conn[j]) ELSE conn[j]
    BY DEF ServerGone
  <2>2. ClosedByServer(conn[j]).s2c = conn[j].s2c /\ ~ClosedByServer(conn[j]).server_open
    BY <1>2, Closing
  <2>. QED  BY <2>1, <2>2
<1>. QED  BY <1>1, <1>2, <1>3 DEF Seen

\* Every step of the server keeps what a group can rely on.
LEMMA ServerSeen ==
  ASSUME PInv, FirstSync, NEW k \in Conns, Accept(k) \/ Dispatch(k) \/ HandlerStep(k),
         UNCHANGED client,
         NEW j \in Conns, conn'[j].client_open, ~client'[conn'[j].owner].synced
  PROVE  Seen(client'[conn'[j].owner], conn'[j], handler'[j], globalState', readBuffer'.agents)
<1>. DEFINE d == conn[j].owner
            cl == client[d]
<1>0. /\ conn \in [Conns -> TConn] /\ handler \in [Conns -> THandler]
      /\ conn[k] \in TConn /\ handler[k] \in THandler
      /\ globalState' \in TMap /\ readBuffer' \in [set : BOOLEAN, agents : TMap]
      /\ readBuffer.agents \in TMap /\ PInv'
      /\ conn'[j] \in TConn /\ handler'[j] \in THandler
  <2>1. PInv'
    BY NextProtocol DEF Next
  <2>. QED  BY <2>1 DEF PInv, Types
<1>1. /\ conn[j].client_open /\ conn'[j].owner = d /\ d \in Clients /\ cl \in TClient
      /\ ~cl.synced /\ Live(cl, conn[j], handler[j]) /\ ClientState(cl)
      /\ Seen(cl, conn[j], handler[j], globalState, readBuffer.agents)
      /\ client'[conn'[j].owner] = cl
  <2>1. conn[j].client_open /\ conn'[j].owner = d
    BY ServerReplies DEF Replies
  <2>2. Seen(cl, conn[j], handler[j], globalState, readBuffer.agents) /\ d \in Clients
    BY <2>1, AtWork DEF FirstSync
  <2>. QED  BY <2>1, <2>2, AtWork DEF PInv, Protocol, ClientOK
<1>2. Live(cl, conn'[j], handler'[j]) /\ (~conn'[j].server_open => handler'[j].pc = "none")
  BY <1>0, <1>1 DEF PInv, Protocol, ConnOK, IInv, HandlerExclusive
<1>. SUFFICES Seen(cl, conn'[j], handler'[j], globalState', readBuffer'.agents)
  BY <1>1
<1>. HIDE DEF d, cl
<1>3. CASE cl.pc \in {"await_id", "commit", "await_commit"} \/ (cl.gid # 0 /\ DOMAIN cl.agents = {})
  BY <1>0, <1>1, <1>2, <1>3, SeenAtFirst
<1>4. CASE cl.pc \notin {"await_id", "commit", "await_commit"} /\ DOMAIN cl.agents # {}
  <2>1. cl.gid # 0
    BY <1>1, <1>4 DEF Live, ClientState
  <2>2. CASE HandleApply(k) \/ HandleSwap(k)
    BY <1>1, <2>1, <2>2, SeenPublished DEF cl, d
  <2>3. CASE HandleSyncNull(k)
    BY <1>1, <2>3, SeenGone DEF HandleSyncNull, cl, d
  <2>4. CASE j # k /\ ~HandleApply(k) /\ ~HandleSwap(k) /\ ~HandleSyncNull(k)
    <3>1. /\ UNCHANGED <<globalState, readBuffer>>
          /\ conn'[j] = conn[j] /\ handler'[j] = handler[j]
      BY <2>4, ServerElsewhere
    <3>. QED  BY <1>1, <3>1
  <2>5. CASE j = k /\ ~HandleApply(k) /\ ~HandleSwap(k) /\ ~HandleSyncNull(k)
    <3>1. UNCHANGED <<globalState, readBuffer>>
      BY <2>5, ServerElsewhere
    <3>. SUFFICES Seen(cl, conn'[k], handler'[k], globalState, readBuffer.agents)
      BY <2>5, <3>1
    <3>2. /\ conn[k].client_open /\ Live(cl, conn[k], handler[k])
          /\ Seen(cl, conn[k], handler[k], globalState, readBuffer.agents)
          /\ handler[k].pc # "none" => conn[k].server_open
      BY <1>1, <2>5, AtWork
    <3>3. ASSUME NEW ha2, NEW co2, conn' = [conn EXCEPT ![k] = co2], co2.s2c = conn[k].s2c,
                 co2.server_open => conn[k].server_open,
                 handler' = [handler EXCEPT ![k] = ha2],
                 \/ ha2 = handler[k]
                 \/ /\ ha2.pc \notin {"swap", "sync_data"}
                    /\ ha2.pc \in Resting \cup {"sync"} => handler[k].pc \in Resting \cup {"sync"}
          PROVE  Seen(cl, conn'[k], handler'[k], globalState, readBuffer.agents)
      <4>1. conn'[k] = co2 /\ handler'[k] = ha2
        BY <1>0, <3>3
      <4>2. Seen(cl, co2, ha2, globalState, readBuffer.agents)
        BY <3>2, <3>3, SeenKept
      <4>. QED  BY <4>1, <4>2
    <3>4. CASE Accept(k)
      <4>. DEFINE co == [conn[k] EXCEPT !.accepted = TRUE]
      <4>1. /\ conn' = [conn EXCEPT ![k] = co] /\ co.s2c = conn[k].s2c
            /\ co.server_open = conn[k].server_open
            /\ handler' = [handler EXCEPT ![k] = handler[k]]
        BY <1>0, <3>4 DEF Accept, TConn
      <4>. HIDE DEF co
      <4>. QED  BY <3>3, <4>1
    <3>5. CASE Dispatch(k) \/ HandlerReturn(k)
      <4>1. /\ conn' = [conn EXCEPT ![k] = conn[k]] /\ handler[k].pc \in Resting
            /\ \/ handler' = [handler EXCEPT ![k] = At("header", 0, <<>>)]
               \/ handler' = [handler EXCEPT ![k] = At("none", 0, <<>>)]
        BY <1>0, <3>5 DEF Dispatch, HandlerReturn, Goto, Finished, Idle, Resting, PInv, IInv,
                          HandlerExclusive
      <4>2. At("header", 0, <<>>).pc = "header" /\ At("none", 0, <<>>).pc = "none"
        BY DEF At
      <4>. QED  BY <3>3, <4>1, <4>2
    <3>6. CASE HandleSyncHeader(k) \/ HandleCommitHeader(k) \/ HandleCommitData(k)
      <4>1. /\ conn' = [conn EXCEPT ![k] = Received(k)] /\ conn[k].c2s # <<>>
            /\ handler[k].pc \in {"header", "commit_data"}
            /\ \/ handler[k].pc = "header" /\ handler' = [handler EXCEPT ![k] = At("sync", 0, <<>>)]
               \/ \E n, m : handler' = [handler EXCEPT ![k] = At("commit", n, m)]
               \/ \E n, m : handler' = [handler EXCEPT ![k] = At("apply", n, m)]
        BY <3>6 DEF HandleSyncHeader, HandleCommitHeader, HandleCommitData, Receives, Goto
      <4>2. Received(k).s2c = conn[k].s2c /\ Received(k).server_open = conn[k].server_open
        BY <1>0, <4>1, Taking DEF Received
      <4>3. PICK ha2 : /\ handler' = [handler EXCEPT ![k] = ha2]
                       /\ \/ handler[k].pc = "header" /\ ha2.pc = "sync"
                          \/ ha2.pc \in {"commit", "apply"}
        <5>1. \A pc, n, m : At(pc, n, m).pc = pc
          BY DEF At
        <5>. HIDE DEF At
        <5>2. CASE handler[k].pc = "header" /\ handler' = [handler EXCEPT ![k] = At("sync", 0, <<>>)]
          <6>1. At("sync", 0, <<>>).pc = "sync"
            BY <5>1
          <6>. QED  BY <5>2, <6>1
        <5>3. ASSUME NEW n, NEW m, NEW pc \in {"commit", "apply"},
                     handler' = [handler EXCEPT ![k] = At(pc, n, m)]
              PROVE  \E ha2 : handler' = [handler EXCEPT ![k] = ha2] /\ ha2.pc \in {"commit", "apply"}
          <6>1. At(pc, n, m).pc \in {"commit", "apply"}
            BY <5>1
          <6>. QED  BY <5>3, <6>1
        <5>4. (\E ha2 : handler' = [handler EXCEPT ![k] = ha2] /\ ha2.pc \in {"commit", "apply"})
              \/ (handler[k].pc = "header" /\ handler' = [handler EXCEPT ![k] = At("sync", 0, <<>>)])
          BY <4>1, <5>3
        <5>. QED  BY <5>2, <5>4
      <4>4. /\ ha2.pc \notin {"swap", "sync_data"}
            /\ ha2.pc \in Resting \cup {"sync"} => handler[k].pc \in Resting \cup {"sync"}
        BY <4>3 DEF Resting
      <4>. DEFINE co == Received(k)
      <4>5. co.s2c = conn[k].s2c /\ co.server_open = conn[k].server_open /\ conn' = [conn EXCEPT ![k] = co]
        BY <4>1, <4>2
      <4>. HIDE DEF co
      <4>. QED  BY <3>3, <4>3, <4>4, <4>5
    <3>7. CASE HandleSync(k) \/ HandleSyncData(k)
      <4>1. PICK co2, ha2 :
              /\ conn' = [conn EXCEPT ![k] = co2] /\ handler' = [handler EXCEPT ![k] = ha2]
              /\ \/ /\ handler[k].pc = "sync"
                    /\ co2 = ToClient(conn[k], Ack(Size(readBuffer.agents)))
                    /\ ha2 = IF Size(readBuffer.agents) > 0
                             THEN At("sync_data", 0, readBuffer.agents) ELSE At("return", 0, <<>>)
                 \/ /\ handler[k].pc = "sync_data"
                    /\ co2 = ToClient(conn[k], Data(handler[k].agents))
                    /\ ha2 = At("return", 0, <<>>)
        BY <3>7 DEF HandleSync, HandleSyncData, Size, Ack, Goto
      <4>2. Ack(Size(readBuffer.agents)) \in TMessage /\ Data(handler[k].agents) \in TMessage
        BY <1>0, MapSize, Messages DEF THandler, Ack, Ops
      <4>3. ASSUME NEW m \in TMessage PROVE ToClient(conn[k], m).s2c = Append(conn[k].s2c, m)
        <5>. DEFINE r == conn[k]
        <5>1. r \in TConn /\ r.client_open
          BY <1>0, <3>2
        <5>. HIDE DEF r
        <5>2. ToClient(r, m).s2c = Append(r.s2c, m)
          BY <5>1, Replying
        <5>. QED  BY <5>2 DEF r
      <4>4. Seen(cl, co2, ha2, globalState, readBuffer.agents)
        BY <1>0, <1>1, <1>4, <2>1, <3>2, <4>1, <4>2, <4>3, SeenReply
      <4>5. conn'[k] = co2 /\ handler'[k] = ha2
        BY <1>0, <4>1
      <4>. QED  BY <4>4, <4>5
    <3>8. ~HandleRequestGroupId(k) /\ ~HandleCommit(k) /\ ~HandleDisconnect(k)
      <4>1. ~HandleCommit(k)
        BY <1>1, <1>4, <3>2, Busy DEF HandleCommit
      <4>2. ASSUME NEW op \in {"REQUEST_GROUP_ID", "DISCONNECT"}, Receives(k, op) PROVE FALSE
        <5>1. Head(conn[k].c2s).op \in {"AGENT_COMMIT", "AGENT_SYNC_ALL"}
          <6>1. conn[k].c2s # <<>> /\ handler[k].pc = "header"
            BY <4>2 DEF Receives
          <6>2. \/ \E n : conn[k].c2s = <<Header("AGENT_COMMIT", n)>>
                \/ conn[k].c2s = <<SyncRequest>>
            BY <1>1, <1>4, <3>2, <6>1, HeaderOf
          <6>3. /\ \A n : Header("AGENT_COMMIT", n).op = "AGENT_COMMIT"
                /\ SyncRequest.op = "AGENT_SYNC_ALL"
            BY DEF Header, SyncRequest
          <6>. QED  BY <6>2, <6>3, ShortQueues
        <5>. QED  BY <4>2, <5>1 DEF Receives
      <4>. QED  BY <4>1, <4>2 DEF HandleRequestGroupId, HandleDisconnect
    <3>9. ~HandleEndOfStream(k) /\ ~HandleCommitLost(k) /\ ~HandlerIoFails(k)
      BY <3>2 DEF HandleEndOfStream, HandleCommitLost, HandlerIoFails
    <3>. QED  BY <2>5, <3>4, <3>5, <3>6, <3>7, <3>8, <3>9 DEF HandlerStep
  <2>. QED  BY <2>2, <2>3, <2>4, <2>5
<1>5. cl.pc \in {"await_id", "commit", "await_commit"} \/ cl.gid # 0
  BY <1>1 DEF Live, ClientState
<1>. QED  BY <1>3, <1>4, <1>5

\* The removal of expired agents, and what else the main thread does, leaves every
\* group what it can rely on.
LEMMA MainSeen ==
  ASSUME PInv, FirstSync, ExpiredAgentCheck \/ ExpiredAgentsSwap \/ Tick \/ UNCHANGED vars,
         NEW j \in Conns, conn[j].client_open, ~client[conn[j].owner].synced
  PROVE  Seen(client[conn[j].owner], conn[j], handler[j], globalState', readBuffer'.agents)
<1>. DEFINE cl == client[conn[j].owner]
<1>0. /\ globalState \in TMap /\ cl \in TClient /\ conn[j].owner \in Clients
      /\ Live(cl, conn[j], handler[j]) /\ ClientState(cl)
      /\ Seen(cl, conn[j], handler[j], globalState, readBuffer.agents)
      /\ \A i \in DOMAIN cl.agents : cl.agents[i].expires = 0
  BY AtWork DEF PInv, Types, FirstSync, Protocol, ClientOK
<1>1. CASE ExpiredAgentCheck
  <2>1. /\ lock = "free" /\ globalState' = Drop(globalState, Expired(globalState))
        /\ UNCHANGED readBuffer
    BY <1>1 DEF ExpiredAgentCheck
  <2>2. handler[j].pc # "swap"
    BY <2>1, ServerAssumption DEF PInv, IInv, LockDiscipline
  <2>. HIDE DEF cl
  <2>3. cl.pc \in {"sync", "await_sync"} /\ Visible(globalState, cl) => Visible(globalState', cl)
    <3>1. cl.pc \in {"sync", "await_sync"} => cl.gid # 0
      BY <1>0 DEF ClientState
    <3>. QED  BY <1>0, <2>1, <3>1, VisibleMaps
  <2>. QED  BY <1>0, <2>1, <2>2, <2>3 DEF Seen, cl
<1>2. CASE ExpiredAgentsSwap
  <2>1. UNCHANGED globalState /\ readBuffer'.agents = globalState
    BY <1>2 DEF ExpiredAgentsSwap, UpdateReadBuffer, Buffer
  <2>. QED  BY <1>0, <2>1 DEF Seen
<1>3. CASE Tick \/ UNCHANGED vars
  BY <1>0, <1>3 DEF Tick, vars, stateVars
<1>. QED  BY <1>1, <1>2, <1>3

\* What holds of the first syncs until the server is started again.
FirstSeen == session = 1 => FirstSync

\* At first nobody has an id or a connection.
LEMMA InitFirst == Init => FirstSeen
<1>. SUFFICES ASSUME Init PROVE FirstSync
  BY DEF FirstSeen
<1>1. \A k \in Conns : ~conn[k].client_open
  BY Free DEF Init
<1>2. \A c \in Clients : client[c].pc = "off" /\ client[c].gid = 0 /\ client[c].agents = <<>>
  BY DEF Init, Off
<1>. QED  BY <1>1, <1>2, EmptyMap DEF FirstSync

\* Every step keeps it, the end of the server included.
LEMMA NextFirst == PInv /\ FirstFresh /\ FirstSeen /\ [Next]_vars => FirstSeen'
<1>. SUFFICES ASSUME PInv, IdsFresh, FirstSync, [Next]_vars, ~ServerStart PROVE FirstSync'
  BY StartsOnce DEF FirstFresh, FirstSeen
<1>1. ASSUME NEW c \in Clients, ClientNext(c) PROVE FirstSync'
  BY <1>1, ClientApart, ClientSeen DEF FirstSync
<1>2. ASSUME NEW k \in Conns, Accept(k) \/ Dispatch(k) \/ HandlerStep(k) PROVE FirstSync'
  <2>1. UNCHANGED client
    BY <1>2 DEF Accept, Dispatch, HandlerStep, HandleEndOfStream, HandleDisconnect,
       HandleRequestGroupId, HandleSyncHeader, HandleCommitHeader, HandleSync,
       HandleSyncNull, HandleSyncData, HandleCommit, HandleCommitData, HandleCommitLost,
       HandleApply, HandleSwap, HandlerIoFails, HandlerReturn, ServerGone
  <2>2. \A j \in Conns : TakesOnly(j)
    BY <1>2, ServerStreams
  <2>. QED  BY <1>2, <2>1, <2>2, NothingNew, ServerSeen DEF FirstSync
<1>3. CASE ExpiredAgentCheck \/ ExpiredAgentsSwap \/ Tick \/ UNCHANGED vars
  <2>1. UNCHANGED <<client, conn, handler>>
    BY <1>3 DEF ExpiredAgentCheck, ExpiredAgentsSwap, Tick, vars, netVars
  <2>2. \A j \in Conns : TakesOnly(j)
    BY <2>1 DEF TakesOnly, InStream
  <2>. QED  BY <1>3, <2>1, <2>2, NothingNew, MainSeen DEF FirstSync
<1>4. CASE ServerStop
  <2>1. ServerGone /\ UNCHANGED client
    BY <1>4 DEF ServerStop, ServerGone
  <2>2. ASSUME NEW j \in Conns
        PROVE  /\ TakesOnly(j)
               /\ conn'[j].client_open =>
                    conn[j].client_open /\ conn'[j].owner = conn[j].owner
    BY <2>1, ServerStreams, ServerReplies DEF Replies
  <2>. QED  BY <2>1, <2>2, NothingNew, SeenGone DEF FirstSync
<1>. QED  BY <1>1, <1>2, <1>3, <1>4 DEF Next, ClientNext

\* Until the server is started again, a group's first sync shows it all of its agents
\* as it committed them: although the server acknowledges a commit before it receives
\* the agents, it takes the requests of one stream in turn, the handler goes back to
\* the stream with the commit published, and neither the commits of other groups nor
\* the removal of expired agents touch the agents until then.
THEOREM FirstSyncIsComplete == Spec => FirstSyncSeesCommit
<1>. DEFINE Complete(c) ==
       ~client[c].synced /\ client'[c].synced =>
         LET seen == IF client[c].pc = "await_agents"
                     THEN Head(Inbox(c)).agents ELSE <<>>
         IN \A id \in DOMAIN Interfaces(c) :
              id \in DOMAIN seen /\ seen[id] = Interfaces(c)[id]
<1>1. ASSUME PInv, FirstSync, [Next]_vars, NEW c \in Clients PROVE Complete(c)
  <2>. SUFFICES ASSUME ~client[c].synced, client'[c].synced
                PROVE  LET seen == IF client[c].pc = "await_agents"
                                   THEN Head(Inbox(c)).agents ELSE <<>>
                       IN \A id \in DOMAIN Interfaces(c) :
                            id \in DOMAIN seen /\ seen[id] = Interfaces(c)[id]
    OBVIOUS
  <2>1. \E e \in Clients : ClientNext(e)
    <3>1. ~UNCHANGED client
      OBVIOUS
    <3>2. ASSUME NEW k \in Conns, Accept(k) \/ Dispatch(k) \/ HandlerStep(k)
          PROVE  UNCHANGED client
      BY <3>2 DEF Accept, Dispatch, HandlerStep, HandleEndOfStream, HandleDisconnect,
           HandleRequestGroupId, HandleSyncHeader, HandleCommitHeader, HandleSync,
           HandleSyncNull, HandleSyncData, HandleCommit, HandleCommitData, HandleCommitLost,
           HandleApply, HandleSwap, HandlerIoFails, HandlerReturn, ServerGone
    <3>3. ASSUME \/ ServerStop \/ ExpiredAgentCheck \/ ExpiredAgentsSwap \/ ServerStart \/ Tick
                 \/ UNCHANGED vars
          PROVE  UNCHANGED client
      BY <3>3 DEF ServerStop, ServerGone, ExpiredAgentCheck, ExpiredAgentsSwap, ServerStart,
                  Tick, vars
    <3>. QED  BY <1>1, <3>1, <3>2, <3>3 DEF Next, ClientNext
  <2>. PICK e \in Clients : ClientNext(e)
    BY <2>1
  <2>2. e = c /\ (SyncReply(c) \/ SyncAgents(c))
    <3>1. PICK cl : /\ client' = [client EXCEPT ![e] = cl]
                    /\ \/ cl = Off
                       \/ cl.synced = client[e].synced
                       \/ SyncReply(e) \/ SyncAgents(e)
      BY <1>1, ClientEffect
    <3>2. ~Off.synced
      BY DEF Off
    <3>. QED  BY <1>1, <3>1, <3>2 DEF PInv, Types
  <2>. DEFINE k == client[c].conn
              q == conn[k].s2c
  <2>3. /\ client[c] \in TClient /\ Inbox(c) # <<>> /\ Inbox(c) = q /\ k \in Conns
        /\ q # <<>> /\ Head(q) \in TMessage /\ conn[k].client_open /\ conn[k].owner = c
        /\ Live(client[c], conn[k], handler[k])
        /\ Interfaces(c) = InterfacesOf(client[c])
        /\ Seen(client[c], conn[k], handler[k], globalState, readBuffer.agents)
    <3>1. Inbox(c) # <<>>
      BY <2>2 DEF SyncReply, SyncAgents
    <3>2. /\ Inbox(c) = q /\ q # <<>> /\ k \in Conns /\ Head(q) \in TMessage
          /\ conn[k].client_open /\ conn[k].owner = c /\ Live(client[c], conn[k], handler[k])
      BY <1>1, <3>1, Reading, Mine
    <3>. QED  BY <1>1, <3>1, <3>2 DEF PInv, Types, FirstSync, Interfaces, InterfacesOf
  <2>4. CASE SyncReply(c)
    <3>1. client[c].pc = "await_sync" /\ Head(q).n = 0
      <4>1. client'[c].synced = (client[c].synced \/ Head(Inbox(c)).n = 0)
        BY <1>1, <2>4 DEF SyncReply, PInv, Types, TClient
      <4>. QED  BY <2>3, <2>4, <4>1 DEF SyncReply
    <3>2. DOMAIN client[c].agents = {}
      BY <2>3, <3>1 DEF Seen
    <3>3. DOMAIN Interfaces(c) = {}
      BY <3>2 DEF Interfaces
    <3>. QED  BY <3>3
  <2>5. CASE SyncAgents(c)
    <3>1. client[c].pc = "await_agents"
      BY <2>5 DEF SyncAgents
    <3>2. PICK m : q = <<Data(m)>>
      BY <2>3, <3>1 DEF Live, AwaitAgents
    <3>3. Data(m).op = "DATA" /\ Data(m).agents = m
      BY DEF Data
    <3>4. Visible(m, client[c]) /\ Head(q).agents = m
      <4>. DEFINE x == Data(m)
      <4>1. \A i \in DOMAIN q : q[i].op = "DATA" => Visible(q[i].agents, client[c])
        BY <2>3 DEF Seen
      <4>. HIDE DEF x, q
      <4>2. q = <<x>>
        BY <3>2 DEF x
      <4>3. 1 \in DOMAIN q /\ q[1] = x /\ Head(q) = x
        BY <4>2, ShortQueues
      <4>. QED  BY <3>3, <4>1, <4>3 DEF x
    <3>. QED  BY <2>3, <3>1, <3>4 DEF Visible
  <2>. QED  BY <2>2, <2>4, <2>5
<1>2. PInv /\ FirstSeen /\ [Next]_vars => [session = 1 => \A c \in Clients : Complete(c)]_vars
  BY <1>1 DEF FirstSeen
<1>. QED  BY <1>2, InitProtocol, NextProtocol, InitFresh, NextFresh, InitFirst, NextFirst, PTL
          DEF Spec, FirstSyncSeesCommit

=============================================================================
