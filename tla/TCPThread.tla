----------------------------- MODULE TCPThread ------------------------------
(***************************************************************************)
(* One io thread of tcp_threads: the connections of ConnCenter, kept in a  *)
(* map by socket, a map by connection id, the id allocator (SeqNum) and    *)
(* the idle records (RecordTimeoutMgr), and the callbacks of ThreadSink    *)
(* that create and destroy them.                                           *)
(*                                                                         *)
(* The thread is sequential, but its callbacks nest: a logic that is told  *)
(* about a connection may call CloseClient, which runs OnClientClosed and  *)
(* frees a connection object before the caller goes on.  "frames" is the   *)
(* stack of such calls; a conn pointer held in a frame, or in the batch of *)
(* RecordTimeoutMgr, may by then be dangling.                              *)
(***************************************************************************)
EXTENDS Integers, Sequences, FiniteSets

CONSTANTS FDs,              \* socket numbers
          SeqMin, SeqMax,   \* connection ids
          MaxConns,         \* bound: connections created in a behaviour
          MaxTime,          \* bound on the clock
          Life,             \* inactive_conn_life
          ConnLimit,        \* tcp_conn_count_limit, 0 for none
          NumLogics,        \* logic_item_vec_'s size (there is no common_logic_)
          ClosesInCallback, \* logics close connections when told of a new one or of data
          ClosesInClosed,   \* logics close another connection in OnClientClosed
          NoRecord,         \* for RecordTimeoutMgr
          MaxForeign        \* bound: sockets closed behind the thread's back

ASSUME TCPAssumption ==
    /\ MaxConns \in Nat /\ MaxTime \in Nat /\ Life \in 0..MaxTime /\ ConnLimit \in Nat
    /\ SeqMin \in Nat /\ SeqMax \in Nat
    /\ NumLogics \in Nat \ {0} /\ MaxForeign \in Nat
    /\ ClosesInCallback \in BOOLEAN /\ ClosesInClosed \in BOOLEAN

VARIABLES
    conn,      \* conn[o]: the BaseConn objects created, live or freed
    by_fd,     \* conn_hash_map_
    by_id,     \* conn_id_hash_map_
    cursor, inuse,                       \* conn_id_seq_
    now, record, index, batch, active,   \* the RecordTimeoutMgr base class
    online,    \* online_tcp_conn_count_
    stopping,  \* the thread's stopping_
    frames,    \* the running callbacks, innermost first
    fd_open,   \* the kernel's view: sockets that are open
    foreign,   \* sockets closed by another thread so far
    told,      \* history: told[o], OnClientConnected / OnClientClosed calls begun
    uaf        \* a freed BaseConn was used

idVars == <<cursor, inuse>>
rtmVars == <<now, record, index, batch, active>>
mapVars == <<conn, by_fd, by_id, online>>
envVars == <<stopping, fd_open, foreign>>
tcpVars == <<mapVars, idVars, rtmVars, envVars, frames, told, uaf>>

Objs == 1..MaxConns
NoConn == 0
Ids == SeqMin..SeqMax

S == INSTANCE SeqNum
R == INSTANCE RecordTimeoutMgr WITH Keys <- Ids, Values <- Objs, Timeouts <- {Life}

ASSUME IdleRecordAssumption == NoRecord \notin R!Records

Unborn == [state |-> "unborn"]
Conns == {Unborn} \cup [state : {"live", "freed"}, id : Ids, fd : FDs]

\* A callback in progress: about object o of socket fd, logic i is next.
Frame(op, o, fd, i) == [op |-> op, o |-> o, fd |-> fd, i |-> i]
Frames == [op : {"create", "connected", "recv", "closed"},
           o : Objs \cup {NoConn}, fd : FDs, i : 0..(NumLogics + 1)]

TCPInit ==
    /\ conn = [o \in Objs |-> Unborn]
    /\ by_fd = [f \in FDs |-> NoConn]
    /\ by_id = [d \in Ids |-> NoConn]
    /\ S!SeqInit
    /\ R!RTMInit
    /\ online = 0
    /\ stopping = FALSE
    /\ frames = <<>>
    /\ fd_open = {}
    /\ foreign = 0
    /\ told = [o \in Objs |-> [connected |-> 0, closed |-> 0]]
    /\ uaf = FALSE

-----------------------------------------------------------------------------
Top == Head(frames)
Push(f) == frames' = <<f>> \o frames
Pop == frames' = Tail(frames)
Next1 == frames' = <<[Top EXCEPT !.i = @ + 1]>> \o Tail(frames)

\* The event loop, which runs once the thread is activated, is between two
\* callbacks.
InLoop == active /\ frames = <<>> /\ R!Quiet /\ ~uaf

Live(o) == conn[o].state = "live"

\* OnClientClosed(conn) is called: every logic is told, then the object goes.
CallClosed(o) == Frame("closed", o, conn[o].fd, 1)

\* Clear: the object leaves both maps, its socket is closed, its id is free.
Clear(o) ==
    /\ conn' = [conn EXCEPT ![o].state = "freed"]
    /\ by_fd' = [by_fd EXCEPT ![conn[o].fd] = NoConn]
    /\ by_id' = [by_id EXCEPT ![conn[o].id] = NoConn]
    /\ fd_open' = fd_open \ {conn[o].fd}
    /\ S!Free(conn[o].id)

\* DestroyConn(sock_fd), nothing if there is no such connection, and the
\* caller's --online_tcp_conn_count_.
DestroyConn(fd) ==
    /\ IF by_fd[fd] # NoConn
       THEN /\ R!RemoveRecord(conn[by_fd[fd]].id)
            /\ Clear(by_fd[fd])
       ELSE UNCHANGED <<conn, by_fd, by_id, fd_open, idVars, rtmVars>>
    /\ online' = online - 1

-----------------------------------------------------------------------------
\* OnAccept: the kernel hands out a socket number that is not open.
OnAccept(fd) ==
    /\ InLoop
    /\ fd \notin fd_open
    /\ ~stopping
    /\ ConnLimit > 0 => online < ConnLimit
    /\ fd_open' = fd_open \cup {fd}
    /\ Push(Frame("create", NoConn, fd, 0))
    /\ UNCHANGED <<mapVars, idVars, rtmVars, stopping, foreign, told, uaf>>

\* OnClientConnected finds a connection with that socket: destroyed first,
\* which closes the socket just accepted.
DestroyOld ==
    /\ frames # <<>> /\ Top.op = "create"
    /\ by_fd[Top.fd] # NoConn
    /\ DestroyConn(Top.fd)
    /\ UNCHANGED <<stopping, foreign, frames, told, uaf>>

Unused == CHOOSE o \in Objs : conn[o] = Unborn

\* Mutant: the new connection gets no idle record.
CreateConnUnwatched(id) ==
    /\ frames # <<>> /\ Top.op = "create"
    /\ by_fd[Top.fd] = NoConn
    /\ Top.fd \in fd_open
    /\ S!Alloc(id)
    /\ conn' = [conn EXCEPT ![Unused] = [state |-> "live", id |-> id, fd |-> Top.fd]]
    /\ by_fd' = [by_fd EXCEPT ![Top.fd] = Unused]
    /\ by_id' = [by_id EXCEPT ![id] = Unused]
    /\ online' = online + 1
    /\ frames' = <<Frame("connected", Unused, Top.fd, 1)>> \o Tail(frames)
    /\ UNCHANGED <<rtmVars, envVars, told, uaf>>

\* CreateConn: registered in all maps; the logics are to be told.
CreateConn(id) ==
    /\ frames # <<>> /\ Top.op = "create"
    /\ by_fd[Top.fd] = NoConn
    /\ Top.fd \in fd_open
    /\ S!Alloc(id)
    /\ conn' = [conn EXCEPT ![Unused] = [state |-> "live", id |-> id, fd |-> Top.fd]]
    /\ by_fd' = [by_fd EXCEPT ![Top.fd] = Unused]
    /\ by_id' = [by_id EXCEPT ![id] = Unused]
    /\ R!UpsertRecord(id, Unused, Life)
    /\ online' = online + 1
    /\ frames' = <<Frame("connected", Unused, Top.fd, 1)>> \o Tail(frames)
    /\ UNCHANGED <<envVars, told, uaf>>

\* Initialize fails, event_add refusing the closed socket: Clear frees the id
\* again, so only the cursor has moved.
CreateFails(id) ==
    /\ frames # <<>> /\ Top.op = "create"
    /\ by_fd[Top.fd] = NoConn
    /\ Top.fd \notin fd_open
    /\ S!IsNext(id)
    /\ cursor' = id
    /\ Pop
    /\ UNCHANGED <<mapVars, inuse, rtmVars, envVars, told, uaf>>

-----------------------------------------------------------------------------
\* UpdateConnStatus(id, in) when the connection goes on: its life is renewed.
Renew(o) == R!UpsertRecord(conn[o].id, o, Life)

\* ReadCallback, EV_READ: unless the thread is stopping the connection is
\* renewed and the socket read until it is empty.
Readable(fd) ==
    /\ InLoop
    /\ by_fd[fd] # NoConn
    /\ ~stopping
    /\ Renew(by_fd[fd])
    /\ Push(Frame("recv", by_fd[fd], fd, 0))
    /\ UNCHANGED <<mapVars, idVars, envVars, told, uaf>>

\* ReadCallback, EV_CLOSED, or EV_READ with too many reads (a net storm).
Closed(fd) ==
    /\ InLoop
    /\ by_fd[fd] # NoConn
    /\ Push(CallClosed(by_fd[fd]))
    /\ UNCHANGED <<mapVars, idVars, rtmVars, envVars, told, uaf>>

\* WriteCallback has sent everything.
Written(fd) ==
    /\ InLoop
    /\ by_fd[fd] # NoConn
    /\ Renew(by_fd[fd])
    /\ UNCHANGED <<mapVars, idVars, envVars, frames, told, uaf>>

\* Mutant: the read loop does not look the connection up again.
ReadLoopUnchecked ==
    /\ frames # <<>> /\ Top.op = "recv" /\ Top.i \in {0, NumLogics + 1}
    /\ \/ Pop
       \/ frames' = <<Frame("closed", Top.o, Top.fd, 1)>> \o Tail(frames)
       \/ frames' = <<[Top EXCEPT !.i = 1]>> \o Tail(frames)
    /\ UNCHANGED <<mapVars, idVars, rtmVars, envVars, told, uaf>>

\* The head of the read loop: the connection was closed by a logic, or there
\* is no more data; eof: OnClientClosed; or data, for the logics.
ReadLoop ==
    /\ frames # <<>> /\ Top.op = "recv" /\ Top.i \in {0, NumLogics + 1}
    /\ \/ /\ Pop
       \/ /\ by_fd[Top.fd] # NoConn
          /\ frames' = <<Frame("closed", Top.o, Top.fd, 1)>> \o Tail(frames)
       \/ /\ by_fd[Top.fd] # NoConn
          /\ frames' = <<[Top EXCEPT !.i = 1]>> \o Tail(frames)
    /\ UNCHANGED <<mapVars, idVars, rtmVars, envVars, told, uaf>>

\* Mutant: a close task destroys the connection at once.
CloseTaskSilent(id) ==
    /\ InLoop
    /\ by_id[id] # NoConn
    /\ DestroyConn(conn[by_id[id]].fd)
    /\ UNCHANGED <<stopping, foreign, frames, told, uaf>>

\* A task with a ConnGUID that asks to close: CloseClient.
CloseTask(id) ==
    /\ InLoop
    /\ by_id[id] # NoConn
    /\ Push(CallClosed(by_id[id]))
    /\ UNCHANGED <<mapVars, idVars, rtmVars, envVars, told, uaf>>

-----------------------------------------------------------------------------
\* The call of logic i made by the innermost callback.
Telling ==
    /\ frames # <<>> /\ ~uaf
    /\ Top.op \in {"connected", "recv", "closed"}
    /\ Top.i \in 1..NumLogics

Telled ==
    told' = IF Top.op = "recv" THEN told
            ELSE [told EXCEPT ![Top.o][Top.op] = IF Top.i = 1 THEN @ + 1 ELSE @]

\* conn->GetConnGUID(), conn->GetSockFD(): of a freed object, it reads what
\* the memory held.
UseTop == uaf' = ~Live(Top.o)

\* The logic only looks at the connection.
Tell ==
    /\ Telling
    /\ UseTop
    /\ Next1
    /\ Telled
    /\ UNCHANGED <<mapVars, idVars, rtmVars, envVars>>

\* The logics close connections in this kind of callback.  In OnClientClosed
\* none closes a connection whose OnClientClosed is already running.
MayClose(o) ==
    IF Top.op = "closed"
    THEN ClosesInClosed /\ \A j \in DOMAIN frames : frames[j].o # o
    ELSE ClosesInCallback

\* The logic closes connection id, through the scheduler's CloseClient.
TellAndClose(id) ==
    /\ Telling
    /\ by_id[id] # NoConn
    /\ MayClose(by_id[id])
    /\ UseTop
    /\ frames' = <<CallClosed(by_id[id]), [Top EXCEPT !.i = @ + 1]>> \o Tail(frames)
    /\ Telled
    /\ UNCHANGED <<mapVars, idVars, rtmVars, envVars>>

\* OnClientConnected returns.
ConnectedDone ==
    /\ frames # <<>> /\ Top.op = "connected" /\ Top.i > NumLogics
    /\ Pop
    /\ UNCHANGED <<mapVars, idVars, rtmVars, envVars, told, uaf>>

\* OnClientClosed ends: the connection is destroyed.
ClosedDone ==
    /\ frames # <<>> /\ Top.op = "closed" /\ Top.i > NumLogics /\ ~uaf
    /\ UseTop
    /\ DestroyConn(conn[Top.o].fd)
    /\ Pop
    /\ UNCHANGED <<stopping, foreign, told>>

-----------------------------------------------------------------------------
\* The expiry check finds idle connections.
OnTimer ==
    /\ InLoop
    /\ R!OnTimer
    /\ UNCHANGED <<mapVars, idVars, envVars, frames, told, uaf>>

\* ConnCenter::OnTimeout: OnClientClosed with the pointer of the batch.
OnTimeout(id) ==
    /\ frames = <<>> /\ ~uaf
    /\ batch[id] # NoRecord
    /\ Push(CallClosed(batch[id].v))
    /\ R!OnTimeout(id)
    /\ UNCHANGED <<mapVars, idVars, envVars, told, uaf>>

Activate ==
    /\ ~active /\ R!Activate
    /\ UNCHANGED <<mapVars, idVars, envVars, frames, told, uaf>>

Tick ==
    /\ InLoop
    /\ now < MaxTime /\ R!SetClock(now + 1)
    /\ UNCHANGED <<mapVars, idVars, envVars, frames, told, uaf>>

Stop ==
    /\ InLoop
    /\ ~stopping /\ stopping' = TRUE
    /\ UNCHANGED <<mapVars, idVars, rtmVars, fd_open, foreign, frames, told, uaf>>

\* Another io thread, its Initialize having failed, closes its socket twice
\* (Initialize, then Finalize) and hits one that this thread was given in
\* between.
ForeignClose(fd) ==
    /\ foreign < MaxForeign
    /\ fd \in fd_open
    /\ fd_open' = fd_open \ {fd}
    /\ foreign' = foreign + 1
    /\ UNCHANGED <<mapVars, idVars, rtmVars, stopping, frames, told, uaf>>

TCPNext ==
    \/ \E fd \in FDs : (\E o \in Objs : conn[o] = Unborn) /\ OnAccept(fd)
    \/ \E fd \in FDs : Readable(fd) \/ Closed(fd) \/ Written(fd) \/ ForeignClose(fd)
    \/ \E id \in Ids : \/ CreateConn(id) \/ CreateFails(id) \/ CloseTask(id)
                       \/ TellAndClose(id) \/ OnTimeout(id)
    \/ DestroyOld \/ ReadLoop \/ Tell
    \/ ConnectedDone \/ ClosedDone
    \/ OnTimer \/ Activate \/ Tick \/ Stop

TCPSpec == TCPInit /\ [][TCPNext]_tcpVars

-----------------------------------------------------------------------------
\* Types of a tcp thread's connections, counters and running callback.
TCPTypeOK ==
    /\ conn \in [Objs -> Conns]
    /\ by_fd \in [FDs -> Objs \cup {NoConn}]
    /\ by_id \in [Ids -> Objs \cup {NoConn}]
    /\ inuse \subseteq Ids
    /\ online \in 0..MaxConns
    /\ frames \in Seq(Frames)
    /\ fd_open \subseteq FDs

LiveConns == {o \in Objs : Live(o)}

\* The maps by socket and by id, the ids in use and the idle records all
\* describe the same connections, in every state: whichever way a connection
\* goes (peer, task, idle timer, a logic's call inside another callback).
MapsAgree ==
    /\ TCPTypeOK
    /\ \A o \in LiveConns : by_fd[conn[o].fd] = o /\ by_id[conn[o].id] = o
    /\ \A fd \in FDs : by_fd[fd] # NoConn => by_fd[fd] \in LiveConns
    /\ \A id \in Ids : by_id[id] # NoConn => by_id[id] \in LiveConns
    /\ inuse = {conn[o].id : o \in LiveConns}
    /\ \A id \in Ids : by_id[id] = NoConn => record[id] = NoRecord
    /\ \A o \in LiveConns :
         record[conn[o].id] # NoRecord => record[conn[o].id].v = o

\* online_tcp_conn_count_, on which OnAccept's limit rests, counts the
\* connections that exist.
OnlineMatches == online = Cardinality(LiveConns)

\* An idle connection cannot be forgotten: every connection has its idle
\* record, or its timeout is being delivered.
IdleWatched ==
    \A o \in LiveConns :
        \/ record[conn[o].id] # NoRecord
        \/ batch[conn[o].id] # NoRecord
        \/ \E j \in DOMAIN frames : frames[j].op = "closed" /\ frames[j].o = o

\* No callback uses a BaseConn that was freed under it.
NoUseAfterFree == ~uaf

\* The logics are told of the end of a connection, once, if and only if they
\* were told of it, and before it is freed.  (A connection whose socket was
\* closed by another thread is replaced without a word.)
ClosedIsTold ==
    \A o \in Objs :
        /\ told[o].closed <= 1
        /\ told[o].closed <= told[o].connected
        /\ conn[o].state = "freed" /\ foreign = 0 =>
             told[o].connected = 1 /\ told[o].closed = 1

\* Everything a tcp thread keeps about its connections agrees: maps, ids, the
\* counter OnAccept's limit rests on, and the idle records.
TablesMatch == MapsAgree /\ OnlineMatches /\ IdleWatched
=============================================================================
