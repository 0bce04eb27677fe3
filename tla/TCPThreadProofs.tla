--------------------------- MODULE TCPThreadProofs ---------------------------
(***************************************************************************)
(* What an io thread of tcp_threads promises about its connections, for    *)
(* any number of sockets, ids, connections and logics, when its logics are *)
(* careful: none closes a connection inside OnClientClosed, and if they    *)
(* close one when told of a new one or of data, there is one logic only.   *)
(* (Otherwise the thread uses a connection after it was freed.)            *)
(***************************************************************************)
EXTENDS TCPThread, FiniteSetTheorems, TLAPS

LogicsCareful == ~ClosesInClosed /\ (ClosesInCallback => NumLogics = 1)

Types ==
    /\ conn \in [Objs -> Conns]
    /\ by_fd \in [FDs -> Objs \cup {NoConn}]
    /\ by_id \in [Ids -> Objs \cup {NoConn}]
    /\ inuse \subseteq Ids
    /\ fd_open \subseteq FDs
    /\ foreign \in Nat
    /\ told \in [Objs -> [connected : Nat, closed : Nat]]

RecordTypes ==
    /\ now \in 0..MaxTime
    /\ record \in [Ids -> R!Slots]
    /\ batch \in [Ids -> R!Slots]

\* Both maps are one to one with the live connections.
Maps ==
    /\ \A o \in LiveConns : by_fd[conn[o].fd] = o /\ by_id[conn[o].id] = o
    /\ \A fd \in FDs : by_fd[fd] # NoConn => Live(by_fd[fd]) /\ conn[by_fd[fd]].fd = fd
    /\ \A id \in Ids : by_id[id] # NoConn => Live(by_id[id]) /\ conn[by_id[id]].id = id
    /\ inuse = {conn[o].id : o \in LiveConns}

\* As long as nobody closes a foreign socket the live ones are open.
Sockets == foreign = 0 => \A o \in LiveConns : conn[o].fd \in fd_open

Counted == IsFiniteSet(LiveConns) /\ online = Cardinality(LiveConns)

\* What a running callback may rely on.
FrameOK(f) ==
    /\ f.op = "create" => /\ f.o = NoConn /\ f.i = 0
                          /\ \E o \in Objs : conn[o] = Unborn
                          /\ foreign = 0 => by_fd[f.fd] = NoConn
    /\ f.op # "create" => f.o \in Objs /\ conn[f.o] # Unborn /\ conn[f.o].fd = f.fd
    /\ f.op = "closed" => f.i >= 1 /\ Live(f.o) /\ batch[conn[f.o].id] = NoRecord
    /\ f.op = "connected" => f.i >= 1
    /\ f.op = "recv" => by_fd[f.fd] \in {NoConn, f.o}
    /\ f.op \in {"connected", "recv"} /\ f.i \in 1..NumLogics => Live(f.o)

\* A logic's call nests one OnClientClosed, and its caller has then called all
\* logics; a batch of idle connections is delivered with nothing else running.
Nesting ==
    /\ frames \in Seq(Frames) /\ Len(frames) <= 2
    /\ \A j \in 1..Len(frames) : FrameOK(frames[j])
    /\ Len(frames) = 2 => /\ frames[1].op = "closed"
                          /\ frames[2].op \in {"connected", "recv"}
                          /\ frames[2].i > NumLogics
    /\ Len(frames) = 0 \/ (Len(frames) = 1 /\ frames[1].op = "closed") \/ R!Quiet

\* OnClientClosed runs for o.
Closing(o) == Len(frames) > 0 /\ frames[1].op = "closed" /\ frames[1].o = o

\* Idle records and the batch name the connection that has the id.
Watched ==
    /\ \A id \in Ids :
         /\ record[id] # NoRecord => by_id[id] # NoConn /\ record[id].v = by_id[id]
         /\ batch[id] # NoRecord => by_id[id] # NoConn /\ batch[id].v = by_id[id]
    /\ \A o \in LiveConns :
         record[conn[o].id] # NoRecord \/ batch[conn[o].id] # NoRecord \/ Closing(o)

\* The first logic is about to be told of the new connection o.
Fresh(o) == Len(frames) > 0 /\ frames[1].op = "connected" /\ frames[1].o = o /\ frames[1].i = 1

\* What the logics know of a connection.
Known ==
    \A o \in Objs :
        /\ conn[o] = Unborn => told[o].connected = 0 /\ told[o].closed = 0
        /\ Live(o) /\ ~Fresh(o) => told[o].connected = 1
        /\ Live(o) /\ Fresh(o) => told[o].connected = 0
        /\ Live(o) /\ Closing(o) /\ frames[1].i > 1 => told[o].closed = 1
        /\ Live(o) /\ ~(Closing(o) /\ frames[1].i > 1) => told[o].closed = 0
        /\ conn[o].state = "freed" =>
             /\ told[o].connected <= 1 /\ told[o].closed <= told[o].connected
             /\ foreign = 0 => told[o].connected = 1 /\ told[o].closed = 1

\* The maps and counters, as they are between two callbacks.
Tables == Types /\ RecordTypes /\ Maps /\ Sockets /\ Counted

TCPInv == Tables /\ Nesting /\ Watched /\ Known /\ ~uaf
-----------------------------------------------------------------------------
\* The assumptions on the constants, as the steps use them.
LEMMA TCPConstants ==
    /\ MaxConns \in Nat /\ NoConn \notin Objs
    /\ MaxTime \in Nat /\ Life \in 0..MaxTime
    /\ NumLogics \in Nat /\ NumLogics >= 1
    /\ NoRecord \notin R!Records
  BY TCPAssumption, IdleRecordAssumption DEF Objs, NoConn

\* What an object that was created has.
LEMMA ConnFields ==
    ASSUME Types, NEW o \in Objs
    PROVE  /\ Live(o) => conn[o] # Unborn
           /\ conn[o] = Unborn => conn[o].state = "unborn"
           /\ conn[o] # Unborn => /\ conn[o] \in [state : {"live", "freed"}, id : Ids, fd : FDs]
                                  /\ conn[o].state \in {"live", "freed"}
                                  /\ conn[o].id \in Ids /\ conn[o].fd \in FDs
<1>1. conn[o] \in Conns
  BY DEF Types
<1>2. Unborn.state = "unborn"
  BY DEF Unborn
<1> QED
  BY <1>1, <1>2 DEF Live, Conns

\* RemoveRecord, UpsertRecord and the timer callbacks on the idle records.
LEMMA RemoveRecordEffect ==
    ASSUME RecordTypes, NEW id \in Ids, R!RemoveRecord(id)
    PROVE  /\ RecordTypes' /\ UNCHANGED <<now, batch>>
           /\ record' = [record EXCEPT ![id] = NoRecord]
<1>1. UNCHANGED <<now, batch>>
  BY DEF R!RemoveRecord
<1>2. record' = [record EXCEPT ![id] = NoRecord]
  BY DEF R!RemoveRecord, R!Exists, RecordTypes
<1> QED
  BY <1>1, <1>2 DEF RecordTypes, R!Slots

\* A record is made or renewed: a renewed one keeps its value.
LEMMA UpsertRecordEffect ==
    ASSUME RecordTypes, NEW id \in Ids, NEW o \in Objs, R!UpsertRecord(id, o, Life)
    PROVE  /\ RecordTypes' /\ UNCHANGED <<now, batch>>
           /\ \A d \in Ids \ {id} : record'[d] = record[d]
           /\ record'[id] # NoRecord
           /\ record'[id].v = IF record[id] = NoRecord THEN o ELSE record[id].v
<1> USE TCPConstants
<1>1. UNCHANGED <<now, batch>>
  BY DEF R!UpsertRecord
<1>2. CASE R!Exists(id)
  <2>1. record[id] \in R!Records
    BY <1>2 DEF R!Exists, RecordTypes, R!Slots
  <2>2. R!Record(record[id].v, now, Life) \in R!Records
    BY <2>1 DEF R!Records, R!Record, RecordTypes
  <2>3. record' = [record EXCEPT ![id] = R!Record(record[id].v, now, Life)]
    BY <1>2 DEF R!UpsertRecord
  <2>4. R!Record(record[id].v, now, Life).v = record[id].v
    BY DEF R!Record
  <2> QED
    BY <1>1, <1>2, <2>2, <2>3, <2>4 DEF RecordTypes, R!Slots, R!Exists
<1>3. CASE ~R!Exists(id)
  <2>2. R!Record(o, now, Life) \in R!Records
    BY DEF R!Records, R!Record, RecordTypes
  <2>3. record' = [record EXCEPT ![id] = R!Record(o, now, Life)]
    BY <1>3 DEF R!UpsertRecord
  <2>4. R!Record(o, now, Life).v = o
    BY DEF R!Record
  <2> QED
    BY <1>1, <1>3, <2>2, <2>3, <2>4 DEF RecordTypes, R!Slots, R!Exists
<1> QED
  BY <1>2, <1>3

\* The scan takes records that exist, and only moves them.
LEMMA OnTimerEffect ==
    ASSUME RecordTypes, R!OnTimer
    PROVE  /\ RecordTypes'
           /\ \A id \in Ids : batch[id] = NoRecord
           /\ \A id \in Ids : \/ record'[id] = record[id] /\ batch'[id] = NoRecord
                              \/ /\ record[id] # NoRecord /\ record'[id] = NoRecord
                                 /\ batch'[id] # NoRecord /\ batch'[id].v = record[id].v
<1> USE TCPConstants
<1>1. \A id \in Ids : batch[id] = NoRecord
  BY DEF R!OnTimer, R!Quiet
<1>2. now' = now
  BY DEF R!OnTimer
<1>3. R!Due \subseteq R!Met
  <2> SUFFICES ASSUME NEW p \in R!Due, NEW q \in R!Times \X Ids, index[q] > 0, q[1] < p[1]
               PROVE  q \in R!Due
    BY DEF R!Due, R!Met
  <2>1. p[1] \in Nat /\ q[1] \in Nat /\ p[1] <= now
    BY DEF R!Due, R!Times
  <2> QED
    BY <2>1 DEF R!Due, RecordTypes
<1>4. ASSUME NEW id \in R!DueKeys
      PROVE  record[id] # NoRecord
  <2>1. PICK p \in R!Due : id = p[2]
    BY <1>4 DEF R!DueKeys
  <2>2. p \in R!Met
    BY <1>3
  <2> QED
    BY <2>1, <2>2 DEF R!OnTimer, R!Stray, R!Exists
<1>5. ASSUME NEW id \in Ids
      PROVE  /\ record'[id] \in R!Slots /\ batch'[id] \in R!Slots
             /\ \/ record'[id] = record[id] /\ batch'[id] = NoRecord
                \/ /\ record[id] # NoRecord /\ record'[id] = NoRecord
                   /\ batch'[id] # NoRecord /\ batch'[id].v = record[id].v
  <2>1. CASE id \in R!DueKeys
    <3>1. record[id] \in R!Records
      BY <1>4, <2>1 DEF RecordTypes, R!Slots
    <3>2. batch'[id] = R!Record(record[id].v, 0, record[id].timeout_sec)
      BY <2>1 DEF R!OnTimer
    <3>3. record'[id] = NoRecord
      BY <2>1 DEF R!OnTimer
    <3>4. batch'[id] \in R!Records /\ batch'[id].v = record[id].v
      BY <3>1, <3>2 DEF R!Record, R!Records
    <3> QED
      BY <1>4, <2>1, <3>3, <3>4 DEF R!Slots
  <2>2. CASE id \notin R!DueKeys
    BY <2>2 DEF R!OnTimer, R!Slots, RecordTypes
  <2> QED
    BY <2>1, <2>2
<1>6. DOMAIN record' = Ids /\ DOMAIN batch' = Ids /\ record' = [id \in Ids |-> record'[id]]
      /\ batch' = [id \in Ids |-> batch'[id]]
  BY DEF R!OnTimer
<1>7. record' \in [Ids -> R!Slots] /\ batch' \in [Ids -> R!Slots]
  BY <1>5, <1>6
<1> QED
  BY <1>1, <1>2, <1>5, <1>7 DEF RecordTypes
-----------------------------------------------------------------------------
\* DestroyConn of the socket of a live connection o, all of it.
Destroys(o) ==
    /\ R!RemoveRecord(conn[o].id) /\ Clear(o)
    /\ online' = online - 1
    /\ UNCHANGED <<foreign, told>>

\* DestroyConn finds the live connection of a socket in the map.
LEMMA DestroyConnEffect ==
    ASSUME Types, Maps, NEW o \in LiveConns, DestroyConn(conn[o].fd), UNCHANGED <<foreign, told>>
    PROVE  Destroys(o)
<1>1. by_fd[conn[o].fd] = o /\ o # NoConn
  BY TCPConstants DEF Maps, LiveConns
<1> QED
  BY <1>1 DEF DestroyConn, Destroys

\* Destroying a live connection keeps the tables in accord.
LEMMA DestroyTables ==
    ASSUME Tables, NEW o \in LiveConns, Destroys(o)
    PROVE  /\ Tables'
           /\ LiveConns' = LiveConns \ {o}
           /\ \A p \in Objs \ {o} : conn'[p] = conn[p]
           /\ conn'[o] # Unborn /\ conn'[o].state = "freed"
           /\ conn'[o].fd = conn[o].fd /\ conn'[o].id = conn[o].id
<1> USE TCPConstants
<1>1. o \in Objs /\ Live(o) /\ conn[o] \in [state : {"live", "freed"}, id : Ids, fd : FDs]
      /\ conn[o].id \in Ids /\ conn[o].fd \in FDs
  BY ConnFields DEF LiveConns, Tables
<1>2. conn' = [conn EXCEPT ![o].state = "freed"]
  BY DEF Destroys, Clear
<1>3. /\ conn'[o] \in [state : {"live", "freed"}, id : Ids, fd : FDs]
      /\ conn'[o].state = "freed" /\ conn'[o].fd = conn[o].fd /\ conn'[o].id = conn[o].id
      /\ conn'[o] # Unborn
  BY <1>1, <1>2 DEF Tables, Types, Unborn
<1>4. \A p \in Objs \ {o} : conn'[p] = conn[p]
  BY <1>1, <1>2 DEF Tables, Types
<1>5. LiveConns' = LiveConns \ {o}
  BY <1>1, <1>3, <1>4 DEF LiveConns, Live
<1>6. by_fd' = [by_fd EXCEPT ![conn[o].fd] = NoConn] /\ by_id' = [by_id EXCEPT ![conn[o].id] = NoConn]
      /\ fd_open' = fd_open \ {conn[o].fd} /\ inuse' = inuse \ {conn[o].id}
      /\ foreign' = foreign /\ told' = told
  BY DEF Destroys, Clear, S!Free
<1>7. Types'
  <2>1. conn' \in [Objs -> Conns]
    BY <1>1, <1>2, <1>3 DEF Tables, Types, Conns
  <2> QED
    BY <1>1, <1>6, <2>1 DEF Tables, Types
<1>8. RecordTypes'
  BY <1>1, RemoveRecordEffect DEF Destroys, Tables
<1>9. \A p \in LiveConns \ {o} : conn[p].fd # conn[o].fd /\ conn[p].id # conn[o].id
  BY DEF Tables, Maps
<1>10. Maps'
  <2>0. \A p \in LiveConns : p \in Objs /\ Live(p) /\ conn[p].fd \in FDs /\ conn[p].id \in Ids
    BY ConnFields DEF LiveConns, Tables
  <2>1. ASSUME NEW p \in LiveConns'
        PROVE  by_fd'[conn'[p].fd] = p /\ by_id'[conn'[p].id] = p
    <3>1. p \in LiveConns \ {o} /\ conn'[p] = conn[p] /\ conn[p].fd \in FDs /\ conn[p].id \in Ids
      BY <1>4, <1>5, <2>0, <2>1
    <3>2. by_fd[conn[p].fd] = p /\ by_id[conn[p].id] = p
      BY <3>1 DEF Tables, Maps
    <3> QED
      BY <1>1, <1>6, <1>9, <3>1, <3>2 DEF Tables, Types
  <2>2. ASSUME NEW fd \in FDs, by_fd'[fd] # NoConn
        PROVE  Live(by_fd[fd])' /\ conn'[by_fd'[fd]].fd = fd
    <3>1. fd # conn[o].fd /\ by_fd'[fd] = by_fd[fd]
      BY <1>1, <1>6, <2>2 DEF Tables, Types
    <3>2. by_fd[fd] \in Objs /\ Live(by_fd[fd]) /\ conn[by_fd[fd]].fd = fd
      BY <2>2, <3>1 DEF Tables, Maps, Types
    <3> QED
      BY <1>4, <3>1, <3>2 DEF Live
  <2>3. ASSUME NEW id \in Ids, by_id'[id] # NoConn
        PROVE  Live(by_id[id])' /\ conn'[by_id'[id]].id = id
    <3>1. id # conn[o].id /\ by_id'[id] = by_id[id]
      BY <1>1, <1>6, <2>3 DEF Tables, Types
    <3>2. by_id[id] \in Objs /\ Live(by_id[id]) /\ conn[by_id[id]].id = id
      BY <2>3, <3>1 DEF Tables, Maps, Types
    <3> QED
      BY <1>4, <3>1, <3>2 DEF Live
  <2>4. inuse' = {conn'[p].id : p \in LiveConns'}
    <3>1. {conn'[p].id : p \in LiveConns'} = {conn[p].id : p \in LiveConns \ {o}}
      BY <1>4, <1>5, <2>0
    <3>2. {conn[p].id : p \in LiveConns \ {o}} = {conn[p].id : p \in LiveConns} \ {conn[o].id}
      BY <1>9
    <3> QED
      BY <1>6, <3>1, <3>2 DEF Tables, Maps
  <2> QED
    BY <2>1, <2>2, <2>3, <2>4 DEF Maps
<1>11. Sockets'
  BY <1>4, <1>5, <1>6, <1>9 DEF Sockets, Tables, LiveConns
<1>12. Counted'
  <2>1. IsFiniteSet(LiveConns) /\ online = Cardinality(LiveConns)
    BY DEF Tables, Counted
  <2>2. IsFiniteSet(LiveConns \ {o}) /\ Cardinality(LiveConns \ {o}) = Cardinality(LiveConns) - 1
    BY <2>1, FS_RemoveElement
  <2> QED
    BY <1>5, <2>1, <2>2 DEF Counted, Destroys
<1> QED
  BY <1>3, <1>4, <1>5, <1>7, <1>8, <1>10, <1>11, <1>12 DEF Tables
\* CreateConn of object o with number id for socket fd, all of it.
Creates(o, id, fd) ==
    /\ o \in Objs /\ conn[o] = Unborn
    /\ by_fd[fd] = NoConn /\ fd \in fd_open
    /\ id \in Ids \ inuse /\ inuse' = inuse \cup {id}
    /\ conn' = [conn EXCEPT ![o] = [state |-> "live", id |-> id, fd |-> fd]]
    /\ by_fd' = [by_fd EXCEPT ![fd] = o]
    /\ by_id' = [by_id EXCEPT ![id] = o]
    /\ R!UpsertRecord(id, o, Life)
    /\ online' = online + 1
    /\ UNCHANGED <<fd_open, foreign, told>>

\* So does creating one.
LEMMA CreateTables ==
    ASSUME Tables, NEW o, NEW id, NEW fd \in FDs, Creates(o, id, fd)
    PROVE  /\ Tables'
           /\ LiveConns' = LiveConns \cup {o} /\ o \notin LiveConns
           /\ \A p \in Objs \ {o} : conn'[p] = conn[p]
           /\ conn'[o].state = "live" /\ conn'[o].fd = fd /\ conn'[o].id = id
           /\ by_id[id] = NoConn
<1> USE TCPConstants
<1>1. o \in Objs /\ id \in Ids /\ conn[o] = Unborn /\ ~Live(o)
  BY ConnFields DEF Creates, Tables, Live
<1>2. conn' = [conn EXCEPT ![o] = [state |-> "live", id |-> id, fd |-> fd]]
  BY DEF Creates
<1>3. /\ conn'[o] = [state |-> "live", id |-> id, fd |-> fd]
      /\ conn'[o].state = "live" /\ conn'[o].fd = fd /\ conn'[o].id = id
  BY <1>1, <1>2 DEF Tables, Types
<1>4. \A p \in Objs \ {o} : conn'[p] = conn[p]
  BY <1>1, <1>2 DEF Tables, Types
<1>5. LiveConns' = LiveConns \cup {o} /\ o \notin LiveConns
  BY <1>1, <1>3, <1>4 DEF LiveConns, Live
<1>6. by_fd' = [by_fd EXCEPT ![fd] = o] /\ by_id' = [by_id EXCEPT ![id] = o]
      /\ by_fd[fd] = NoConn /\ fd \in fd_open /\ fd_open' = fd_open
      /\ id \notin inuse /\ inuse' = inuse \cup {id}
      /\ foreign' = foreign /\ told' = told
  BY DEF Creates
<1>7. Types'
  <2>1. [state |-> "live", id |-> id, fd |-> fd] \in Conns
    BY <1>1 DEF Conns
  <2>2. conn' \in [Objs -> Conns]
    BY <1>1, <1>2, <2>1 DEF Tables, Types
  <2> QED
    BY <1>1, <1>6, <2>2 DEF Tables, Types
<1>8. RecordTypes'
  BY <1>1, UpsertRecordEffect DEF Creates, Tables
<1>9. by_id[id] = NoConn
  <2> SUFFICES ASSUME by_id[id] # NoConn PROVE FALSE
    OBVIOUS
  <2>1. by_id[id] \in Objs /\ Live(by_id[id]) /\ conn[by_id[id]].id = id
    BY <1>1 DEF Tables, Maps, Types
  <2>2. by_id[id] \in LiveConns
    BY <2>1 DEF LiveConns
  <2> QED
    BY <1>6, <2>1, <2>2 DEF Tables, Maps
<1>10. \A p \in LiveConns : /\ p \in Objs \ {o} /\ Live(p) /\ conn[p].fd \in FDs /\ conn[p].id \in Ids
                            /\ conn[p].fd # fd /\ conn[p].id # id
  <2>1. \A p \in LiveConns : p \in Objs \ {o} /\ Live(p) /\ conn[p].fd \in FDs /\ conn[p].id \in Ids
    BY <1>5, ConnFields DEF LiveConns, Tables
  <2> QED
    BY <1>6, <1>9, <2>1 DEF Tables, Maps
<1>11. Maps'
  <2>1. ASSUME NEW p \in LiveConns'
        PROVE  by_fd'[conn'[p].fd] = p /\ by_id'[conn'[p].id] = p
    <3>1. CASE p = o
      BY <1>1, <1>3, <1>6, <3>1 DEF Tables, Types
    <3>2. CASE p \in LiveConns
      <4>1. conn'[p] = conn[p] /\ conn[p].fd # fd /\ conn[p].id # id
            /\ conn[p].fd \in FDs /\ conn[p].id \in Ids
        BY <1>4, <1>10, <3>2
      <4>2. by_fd[conn[p].fd] = p /\ by_id[conn[p].id] = p
        BY <3>2 DEF Tables, Maps
      <4> QED
        BY <1>1, <1>6, <4>1, <4>2 DEF Tables, Types
    <3> QED
      BY <1>5, <2>1, <3>1, <3>2
  <2>2. ASSUME NEW x \in FDs, by_fd'[x] # NoConn
        PROVE  Live(by_fd[x])' /\ conn'[by_fd'[x]].fd = x
    <3>1. CASE x = fd
      BY <1>1, <1>3, <1>6, <3>1 DEF Tables, Types, Live
    <3>2. CASE x # fd
      <4>1. by_fd'[x] = by_fd[x]
        BY <1>6, <3>2 DEF Tables, Types
      <4>2. by_fd[x] \in Objs /\ Live(by_fd[x]) /\ conn[by_fd[x]].fd = x
        BY <2>2, <4>1 DEF Tables, Maps, Types
      <4> QED
        BY <1>1, <1>4, <4>1, <4>2 DEF Live
    <3> QED
      BY <3>1, <3>2
  <2>3. ASSUME NEW x \in Ids, by_id'[x] # NoConn
        PROVE  Live(by_id[x])' /\ conn'[by_id'[x]].id = x
    <3>1. CASE x = id
      BY <1>1, <1>3, <1>6, <3>1 DEF Tables, Types, Live
    <3>2. CASE x # id
      <4>1. by_id'[x] = by_id[x]
        BY <1>6, <3>2 DEF Tables, Types
      <4>2. by_id[x] \in Objs /\ Live(by_id[x]) /\ conn[by_id[x]].id = x
        BY <2>3, <4>1 DEF Tables, Maps, Types
      <4> QED
        BY <1>1, <1>4, <4>1, <4>2 DEF Live
    <3> QED
      BY <3>1, <3>2
  <2>4. inuse' = {conn'[p].id : p \in LiveConns'}
    <3>1. {conn'[p].id : p \in LiveConns'} = {conn'[p].id : p \in LiveConns} \cup {id}
      BY <1>3, <1>5
    <3>2. {conn'[p].id : p \in LiveConns} = {conn[p].id : p \in LiveConns}
      BY <1>4, <1>10
    <3> QED
      BY <1>6, <3>1, <3>2 DEF Tables, Maps
  <2> QED
    BY <2>1, <2>2, <2>3, <2>4 DEF Maps
<1>12. Sockets'
  BY <1>3, <1>4, <1>5, <1>6, <1>10 DEF Sockets, Tables
<1>13. Counted'
  <2>1. IsFiniteSet(LiveConns) /\ online = Cardinality(LiveConns)
    BY DEF Tables, Counted
  <2>2. IsFiniteSet(LiveConns \cup {o}) /\ Cardinality(LiveConns \cup {o}) = Cardinality(LiveConns) + 1
    BY <1>5, <2>1, FS_AddElement
  <2> QED
    BY <1>5, <2>1, <2>2 DEF Counted, Creates
<1> QED
  BY <1>3, <1>4, <1>5, <1>7, <1>8, <1>9, <1>11, <1>12, <1>13 DEF Tables

\* A step that neither creates nor destroys a connection.
LEMMA SameTables ==
    ASSUME Tables, RecordTypes', Sockets', UNCHANGED <<mapVars, inuse>>,
           told' \in [Objs -> [connected : Nat, closed : Nat]],
           foreign' \in Nat, fd_open' \subseteq FDs
    PROVE  Tables'
<1>1. Types'
  BY DEF Tables, Types, mapVars
<1>2. LiveConns' = LiveConns
  BY DEF LiveConns, Live, mapVars
<1>3. Maps'
  BY <1>2 DEF Tables, Maps, mapVars, Live
<1>4. Counted'
  BY <1>2 DEF Tables, Counted, mapVars
<1> QED
  BY <1>1, <1>3, <1>4 DEF Tables
-----------------------------------------------------------------------------
\* The stack of callbacks.
LEMMA PushFrame ==
    ASSUME NEW s \in Seq(Frames), NEW f \in Frames
    PROVE  /\ <<f>> \o s \in Seq(Frames) /\ Len(<<f>> \o s) = Len(s) + 1
           /\ (<<f>> \o s)[1] = f
           /\ Len(s) = 1 => (<<f>> \o s)[2] = s[1]
  OBVIOUS

\* The innermost callback returns.
LEMMA PopFrame ==
    ASSUME NEW s \in Seq(Frames), s # <<>>
    PROVE  /\ Tail(s) \in Seq(Frames) /\ Len(Tail(s)) = Len(s) - 1
           /\ Len(s) = 2 => Tail(s)[1] = s[2]
           /\ Head(s) = s[1] /\ s[1] \in Frames /\ Len(s) >= 1
  OBVIOUS
\* The event loop between two callbacks: nothing runs.
LEMMA IdleFacts ==
    ASSUME TCPInv, InLoop
    PROVE  /\ frames = <<>> /\ Len(frames) = 0
           /\ \A id \in Ids : batch[id] = NoRecord
           /\ \A o : ~Closing(o) /\ ~Fresh(o)
  BY DEF InLoop, R!Quiet, Closing, Fresh

\* A callback begins.
LEMMA FirstFrame ==
    ASSUME NEW f \in Frames, frames = <<>>, Push(f)
    PROVE  frames' \in Seq(Frames) /\ Len(frames') = 1 /\ frames'[1] = f
  BY PushFrame DEF Push

\* The objects the maps name.
LEMMA MappedConns ==
    ASSUME Tables
    PROVE  /\ \A fd \in FDs : by_fd[fd] # NoConn =>
                 by_fd[fd] \in LiveConns /\ by_fd[fd] \in Objs /\ conn[by_fd[fd]].fd = fd
           /\ \A id \in Ids : by_id[id] # NoConn =>
                 by_id[id] \in LiveConns /\ by_id[id] \in Objs /\ conn[by_id[id]].id = id
           /\ \A o \in LiveConns : /\ o \in Objs /\ Live(o) /\ conn[o] # Unborn
                                   /\ conn[o].fd \in FDs /\ conn[o].id \in Ids
                                   /\ by_fd[conn[o].fd] = o /\ by_id[conn[o].id] = o
  BY ConnFields DEF Tables, Types, Maps, LiveConns

\* OnAccept: the new socket has no connection yet, unless another thread has
\* closed its last owner's.
LEMMA AcceptStep ==
    ASSUME TCPInv, NEW fd \in FDs, \E o \in Objs : conn[o] = Unborn, OnAccept(fd)
    PROVE  TCPInv'
<1> DEFINE f == Frame("create", NoConn, fd, 0)
<1>1. f \in Frames /\ f.op = "create" /\ f.o = NoConn /\ f.fd = fd /\ f.i = 0
  BY TCPConstants DEF Frame, Frames
<1>2. frames' \in Seq(Frames) /\ Len(frames') = 1 /\ frames'[1] = f
  BY <1>1, FirstFrame DEF OnAccept, InLoop
<1>3. UNCHANGED <<conn, by_fd, by_id, online, inuse, now, record, batch, foreign, told, uaf>>
      /\ fd_open' = fd_open \cup {fd}
  BY DEF OnAccept, mapVars, idVars, rtmVars
<1>4. Tables'
  <2>1. RecordTypes'
    BY <1>3 DEF TCPInv, Tables, RecordTypes
  <2>2. Sockets'
    BY <1>3 DEF TCPInv, Tables, Sockets, LiveConns, Live
  <2> QED
    BY <1>3, <2>1, <2>2, SameTables DEF TCPInv, Tables, Types, mapVars
<1>5. foreign = 0 => by_fd[fd] = NoConn
  BY MappedConns DEF TCPInv, Tables, Sockets, OnAccept
<1>6. Nesting'
  <2>1. FrameOK(f)'
    BY <1>1, <1>3, <1>5 DEF FrameOK
  <2> QED
    BY <1>2, <1>3, <2>1, IdleFacts DEF Nesting, R!Quiet, OnAccept
<1>7. \A o : ~Closing(o)' /\ ~Fresh(o)'
  BY <1>1, <1>2 DEF Closing, Fresh
<1>8. Watched'
  BY <1>3, <1>7, IdleFacts DEF TCPInv, Watched, LiveConns, Live, OnAccept
<1>9. Known'
  BY <1>3, <1>7, IdleFacts DEF TCPInv, Known, Live, OnAccept
<1> QED
  BY <1>3, <1>4, <1>6, <1>8, <1>9 DEF TCPInv

\* OnClientClosed of a live connection begins, from the event loop.
LEMMA CloseStep ==
    ASSUME TCPInv, InLoop, NEW o \in LiveConns, Push(CallClosed(o)),
           UNCHANGED <<mapVars, idVars, rtmVars, envVars, told, uaf>>
    PROVE  TCPInv'
<1> USE TCPConstants
<1>0. o \in Objs /\ Live(o) /\ conn[o] # Unborn /\ conn[o].fd \in FDs /\ conn[o].id \in Ids
  BY MappedConns DEF TCPInv
<1> PICK f : f = CallClosed(o)
  OBVIOUS
<1>1. f \in Frames /\ f.op = "closed" /\ f.o = o /\ f.fd = conn[o].fd /\ f.i = 1
  BY <1>0 DEF CallClosed, Frame, Frames
<1>2. frames' \in Seq(Frames) /\ Len(frames') = 1 /\ frames'[1] = f
  BY <1>1, FirstFrame DEF InLoop
<1>3. UNCHANGED <<conn, by_fd, by_id, online, inuse, now, record, batch, foreign, fd_open, told, uaf>>
  BY DEF mapVars, idVars, rtmVars, envVars
<1>4. Tables'
  <2>1. RecordTypes' /\ Sockets'
    BY <1>3 DEF TCPInv, Tables, RecordTypes, Sockets, LiveConns, Live
  <2> QED
    BY <1>3, <2>1, SameTables DEF TCPInv, Tables, Types, mapVars
<1>5. Nesting'
  <2>1. FrameOK(f)'
    BY <1>0, <1>1, <1>3, IdleFacts DEF FrameOK, Live
  <2> QED
    BY <1>1, <1>2, <2>1 DEF Nesting
<1>6. \A p : ~Fresh(p)' /\ (Closing(p)' => p = o) /\ frames'[1].i = 1
  BY <1>1, <1>2 DEF Closing, Fresh
<1>7. Watched'
  BY <1>3, IdleFacts DEF TCPInv, Watched, LiveConns, Live
<1>8. Known'
  BY <1>3, <1>6, IdleFacts DEF TCPInv, Known, Live
<1> QED
  BY <1>3, <1>4, <1>5, <1>7, <1>8 DEF TCPInv

\* The idle record of a live connection is renewed in the event loop.
LEMMA RenewTables ==
    ASSUME TCPInv, NEW o \in LiveConns, Renew(o),
           UNCHANGED <<mapVars, idVars, envVars, told>>
    PROVE  /\ Tables' /\ UNCHANGED <<conn, by_fd, by_id, foreign, batch>>
           /\ \A id \in Ids : record[id] # NoRecord => record'[id] # NoRecord
           /\ \A id \in Ids : record'[id] # NoRecord => by_id[id] # NoConn /\ record'[id].v = by_id[id]
<1> USE TCPConstants
<1>0. o \in Objs /\ Live(o) /\ conn[o].id \in Ids /\ by_id[conn[o].id] = o /\ o # NoConn
  BY MappedConns DEF TCPInv
<1>1. R!UpsertRecord(conn[o].id, o, Life) /\ RecordTypes
  BY DEF Renew, TCPInv, Tables
<1>2. /\ RecordTypes' /\ UNCHANGED <<now, batch>>
      /\ \A d \in Ids \ {conn[o].id} : record'[d] = record[d]
      /\ record'[conn[o].id] # NoRecord
      /\ record'[conn[o].id].v = IF record[conn[o].id] = NoRecord THEN o ELSE record[conn[o].id].v
  BY <1>0, <1>1, UpsertRecordEffect
<1>3. UNCHANGED <<conn, by_fd, by_id, online, inuse, foreign, fd_open, told>>
  BY DEF mapVars, idVars, envVars
<1>4. Tables'
  <2>1. Sockets'
    BY <1>3 DEF TCPInv, Tables, Sockets, LiveConns, Live
  <2> QED
    BY <1>2, <1>3, <2>1, SameTables DEF TCPInv, Tables, Types, mapVars
<1> QED
  BY <1>0, <1>2, <1>3, <1>4 DEF TCPInv, Watched

\* ReadCallback finds its connection and renews it.
LEMMA ReadableStep ==
    ASSUME TCPInv, NEW fd \in FDs, Readable(fd)
    PROVE  TCPInv'
<1> USE TCPConstants
<1> PICK o : o = by_fd[fd]
  OBVIOUS
<1> DEFINE f == Frame("recv", o, fd, 0)
<1>0. o \in LiveConns /\ o \in Objs /\ Live(o) /\ conn[o] # Unborn /\ conn[o].fd = fd
  BY MappedConns DEF TCPInv, Readable
<1>1. f \in Frames /\ f.op = "recv" /\ f.o = o /\ f.fd = fd /\ f.i = 0
  BY <1>0 DEF Frame, Frames
<1>2. frames' \in Seq(Frames) /\ Len(frames') = 1 /\ frames'[1] = f
  BY <1>1, FirstFrame DEF Readable, InLoop
<1>3. /\ Tables' /\ UNCHANGED <<conn, by_fd, by_id, foreign, batch>>
      /\ \A id \in Ids : record[id] # NoRecord => record'[id] # NoRecord
      /\ \A id \in Ids : record'[id] # NoRecord => by_id[id] # NoConn /\ record'[id].v = by_id[id]
  BY <1>0, RenewTables DEF Readable
<1>4. told' = told /\ uaf' = uaf
  BY DEF Readable
<1>5. Nesting'
  <2>1. FrameOK(f)'
    BY <1>0, <1>1, <1>3 DEF FrameOK
  <2>2. R!Quiet'
    BY <1>3, IdleFacts DEF R!Quiet, Readable
  <2> QED
    BY <1>2, <2>1, <2>2 DEF Nesting
<1>6. \A p : ~Closing(p)' /\ ~Fresh(p)'
  BY <1>1, <1>2 DEF Closing, Fresh
<1>7. Watched'
  <2>1. \A p \in LiveConns' : p \in LiveConns /\ conn'[p] = conn[p] /\ conn[p].id \in Ids
    BY <1>3, MappedConns DEF TCPInv, LiveConns, Live
  <2> QED
    BY <1>3, <2>1, IdleFacts DEF TCPInv, Watched, Readable
<1>8. Known'
  BY <1>3, <1>4, <1>6, IdleFacts DEF TCPInv, Known, Live, Readable
<1> QED
  BY <1>3, <1>4, <1>5, <1>7, <1>8 DEF TCPInv

\* WriteCallback renews its connection.
LEMMA WrittenStep ==
    ASSUME TCPInv, NEW fd \in FDs, Written(fd)
    PROVE  TCPInv'
<1> DEFINE o == by_fd[fd]
<1>0. o \in LiveConns
  BY MappedConns DEF TCPInv, Written
<1>1. /\ Tables' /\ UNCHANGED <<conn, by_fd, by_id, foreign, batch>>
      /\ \A id \in Ids : record[id] # NoRecord => record'[id] # NoRecord
      /\ \A id \in Ids : record'[id] # NoRecord => by_id[id] # NoConn /\ record'[id].v = by_id[id]
  BY <1>0, RenewTables DEF Written
<1>2. UNCHANGED <<frames, told, uaf>>
  BY DEF Written
<1>3. Nesting'
  BY <1>2, IdleFacts DEF TCPInv, Nesting, Written
<1>4. Watched'
  <2>1. \A p \in LiveConns' : p \in LiveConns /\ conn'[p] = conn[p] /\ conn[p].id \in Ids
    BY <1>1, MappedConns DEF TCPInv, LiveConns, Live
  <2> QED
    BY <1>1, <2>1, IdleFacts DEF TCPInv, Watched, Written
<1>5. Known'
  BY <1>1, <1>2 DEF TCPInv, Known, Live, Closing, Fresh
<1> QED
  BY <1>1, <1>2, <1>3, <1>4, <1>5 DEF TCPInv

\* Another thread closes a socket: from then on a socket number may be reused.
LEMMA ForeignStep ==
    ASSUME TCPInv, NEW fd \in FDs, ForeignClose(fd)
    PROVE  TCPInv'
<1>1. UNCHANGED <<conn, by_fd, by_id, online, inuse, now, record, batch, frames, told, uaf>>
      /\ fd_open' = fd_open \ {fd} /\ foreign' = foreign + 1 /\ foreign \in Nat
  BY DEF ForeignClose, mapVars, idVars, rtmVars, TCPInv, Tables, Types
<1>2. foreign' # 0 /\ foreign' \in Nat
  BY <1>1
<1>3. Tables'
  <2>1. RecordTypes' /\ Sockets'
    BY <1>1, <1>2 DEF TCPInv, Tables, RecordTypes, Sockets
  <2> QED
    BY <1>1, <1>2, <2>1, SameTables DEF TCPInv, Tables, Types, mapVars
<1>4. Nesting'
  BY <1>1, <1>2 DEF TCPInv, Nesting, FrameOK, Live, R!Quiet
<1>5. Watched'
  BY <1>1 DEF TCPInv, Watched, LiveConns, Live, Closing
<1>6. Known'
  BY <1>1, <1>2 DEF TCPInv, Known, Live, Closing, Fresh
<1> QED
  BY <1>1, <1>3, <1>4, <1>5, <1>6 DEF TCPInv
-----------------------------------------------------------------------------
\* A callback other than OnClientClosed is innermost: it is the only one, and
\* no batch is being delivered.
LEMMA TopFrame ==
    ASSUME TCPInv, frames # <<>>
    PROVE  /\ Len(frames) \in 1..2 /\ Top = frames[1] /\ Top \in Frames /\ FrameOK(Top)
           /\ frames \in Seq(Frames)
           /\ Top.op # "closed" => Len(frames) = 1 /\ \A id \in Ids : batch[id] = NoRecord
           /\ \A o : Closing(o) <=> Top.op = "closed" /\ Top.o = o
           /\ \A o : Fresh(o) <=> Top.op = "connected" /\ Top.o = o /\ Top.i = 1
<1>1. frames \in Seq(Frames) /\ Len(frames) <= 2
  BY DEF TCPInv, Nesting
<1>2. Len(frames) \in 1..2 /\ Top = frames[1] /\ Top \in Frames
  <2>1. Head(frames) = frames[1] /\ frames[1] \in Frames /\ Len(frames) >= 1
    BY <1>1, PopFrame
  <2>2. Len(frames) \in Nat
    BY <1>1
  <2>3. Len(frames) \in 1..2
    <3>1. \A n \in Nat : n >= 1 /\ n <= 2 => n \in 1..2
      OBVIOUS
    <3> QED
      BY <1>1, <2>1, <2>2, <3>1, Zenon
  <2> QED
    BY <2>1, <2>3 DEF Top
<1>3. FrameOK(Top)
  BY <1>2 DEF TCPInv, Nesting
<1>4. Top.op # "closed" => Len(frames) = 1 /\ \A id \in Ids : batch[id] = NoRecord
  BY <1>2 DEF TCPInv, Nesting, R!Quiet
<1>5. \A o : Closing(o) <=> Top.op = "closed" /\ Top.o = o
  BY <1>2 DEF Closing
<1>6. \A o : Fresh(o) <=> Top.op = "connected" /\ Top.o = o /\ Top.i = 1
  BY <1>2 DEF Fresh
<1> QED
  BY <1>1, <1>2, <1>3, <1>4, <1>5, <1>6

\* The innermost callback goes on, or another one begins in its place.
LEMMA ReplaceFrame ==
    ASSUME NEW f \in Frames, frames \in Seq(Frames), frames # <<>>,
           frames' = <<f>> \o Tail(frames)
    PROVE  /\ frames' \in Seq(Frames) /\ Len(frames') = Len(frames) /\ frames'[1] = f
           /\ Len(frames) = 2 => frames'[2] = frames[2]
<1>1. /\ Tail(frames) \in Seq(Frames) /\ Len(Tail(frames)) = Len(frames) - 1
      /\ Len(frames) = 2 => Tail(frames)[1] = frames[2]
  BY PopFrame
<1>2. /\ frames' \in Seq(Frames) /\ Len(frames') = Len(Tail(frames)) + 1
      /\ frames'[1] = f
      /\ Len(Tail(frames)) = 1 => frames'[2] = Tail(frames)[1]
  BY <1>1, PushFrame
<1> QED
  BY <1>1, <1>2

\* The innermost callback, the only one, returns.
LEMMA LastFrame ==
    ASSUME TCPInv, frames # <<>>, Len(frames) = 1, Pop
    PROVE  /\ frames' \in Seq(Frames) /\ Len(frames') = 0
           /\ \A o : ~Closing(o)' /\ ~Fresh(o)'
  BY PopFrame DEF TCPInv, Nesting, Pop, Closing, Fresh

\* CreateConn, inside OnAccept.
LEMMA CreateStep ==
    ASSUME TCPInv, NEW id \in Ids, CreateConn(id)
    PROVE  TCPInv'
<1> USE TCPConstants
<1>1. /\ frames # <<>> /\ Top.op = "create" /\ FrameOK(Top) /\ Top \in Frames /\ Len(frames) = 1
      /\ frames \in Seq(Frames) /\ \A d \in Ids : batch[d] = NoRecord
      /\ \A p : ~Closing(p) /\ ~Fresh(p)
  BY TopFrame DEF CreateConn
<1>2. PICK fd \in FDs : fd = Top.fd
  BY <1>1 DEF Frames
<1>3. PICK o \in Objs : o = Unused /\ conn[o] = Unborn
  BY <1>1 DEF FrameOK, Unused
<1>4. Creates(o, id, fd)
  BY <1>2, <1>3 DEF CreateConn, Creates, S!Alloc, S!IsNext, envVars
<1>5. /\ Tables'
      /\ LiveConns' = LiveConns \cup {o} /\ o \notin LiveConns
      /\ \A p \in Objs \ {o} : conn'[p] = conn[p]
      /\ conn'[o].state = "live" /\ conn'[o].fd = fd /\ conn'[o].id = id
      /\ by_id[id] = NoConn
  BY <1>4, CreateTables DEF TCPInv
<1>6. /\ batch' = batch /\ \A d \in Ids \ {id} : record'[d] = record[d]
      /\ record'[id] # NoRecord
      /\ record'[id].v = IF record[id] = NoRecord THEN o ELSE record[id].v
  BY <1>4, UpsertRecordEffect DEF TCPInv, Tables, Creates
<1>7. by_id' = [by_id EXCEPT ![id] = o] /\ foreign' = foreign /\ told' = told /\ uaf' = uaf
  BY <1>3 DEF CreateConn, envVars
<1> DEFINE f == Frame("connected", o, fd, 1)
<1>8. f \in Frames /\ f.op = "connected" /\ f.o = o /\ f.fd = fd /\ f.i = 1
  BY DEF Frame, Frames
<1>9. frames' \in Seq(Frames) /\ Len(frames') = 1 /\ frames'[1] = f
  <2>1. frames' = <<f>> \o Tail(frames)
    BY <1>2, <1>3 DEF CreateConn
  <2> QED
    BY <1>1, <1>8, <2>1, ReplaceFrame
<1>10. conn'[o] # Unborn /\ Live(o)'
  BY <1>5 DEF Live, Unborn
<1>11. Nesting'
  <2>1. FrameOK(f)'
    BY <1>5, <1>8, <1>10 DEF FrameOK
  <2> QED
    BY <1>1, <1>6, <1>9, <2>1 DEF Nesting, R!Quiet
<1>12. Watched'
  <2>1. record[id] = NoRecord
    BY <1>5 DEF TCPInv, Watched
  <2>2. \A d \in Ids : record'[d] # NoRecord => by_id'[d] # NoConn /\ record'[d].v = by_id'[d]
    BY <1>6, <1>7, <2>1 DEF TCPInv, Watched, Tables, Types
  <2>3. ASSUME NEW p \in LiveConns, p # o
        PROVE  record'[conn'[p].id] # NoRecord
    <3>1. conn'[p] = conn[p] /\ conn[p].id \in Ids /\ by_id[conn[p].id] = p /\ p \in Objs
      BY <1>5, <2>3, MappedConns DEF TCPInv
    <3>2. conn[p].id # id
      BY <1>5, <3>1
    <3>3. record[conn[p].id] # NoRecord
      BY <1>1, <3>1 DEF TCPInv, Watched
    <3> QED
      BY <1>6, <3>1, <3>2, <3>3
  <2> QED
    BY <1>1, <1>5, <1>6, <2>2, <2>3 DEF Watched
<1>13. Known'
  <2>1. \A p \in Objs \ {o} : ~Closing(p)' /\ ~Fresh(p)'
    BY <1>8, <1>9 DEF Closing, Fresh
  <2>2. Fresh(o)' /\ ~Closing(o)'
    BY <1>8, <1>9 DEF Closing, Fresh
  <2>3. told[o].connected = 0 /\ told[o].closed = 0
    BY <1>3 DEF TCPInv, Known
  <2>4. \A p \in Objs \ {o} : /\ conn[p] = Unborn => told[p].connected = 0 /\ told[p].closed = 0
                              /\ Live(p) => told[p].connected = 1 /\ told[p].closed = 0
                              /\ conn[p].state = "freed" =>
                                   /\ told[p].connected <= 1 /\ told[p].closed <= told[p].connected
                                   /\ foreign = 0 => told[p].connected = 1 /\ told[p].closed = 1
    BY <1>1 DEF TCPInv, Known
  <2> QED
    BY <1>5, <1>7, <1>10, <2>1, <2>2, <2>3, <2>4 DEF Known, Live
<1> QED
  BY <1>5, <1>7, <1>11, <1>12, <1>13 DEF TCPInv

\* CreateConn fails: nothing is left of the connection.
LEMMA CreateFailsStep ==
    ASSUME TCPInv, NEW id \in Ids, CreateFails(id)
    PROVE  TCPInv'
<1>1. /\ frames # <<>> /\ Top.op = "create" /\ Len(frames) = 1
      /\ \A p : ~Closing(p) /\ ~Fresh(p)
  BY TopFrame DEF CreateFails
<1>2. frames' \in Seq(Frames) /\ Len(frames') = 0 /\ \A o : ~Closing(o)' /\ ~Fresh(o)'
  BY <1>1, LastFrame DEF CreateFails
<1>3. UNCHANGED <<conn, by_fd, by_id, online, inuse, now, record, batch, foreign, fd_open, told, uaf>>
  BY DEF CreateFails, mapVars, rtmVars, envVars
<1>4. Tables'
  <2>1. RecordTypes' /\ Sockets'
    BY <1>3 DEF TCPInv, Tables, RecordTypes, Sockets, LiveConns, Live
  <2> QED
    BY <1>3, <2>1, SameTables DEF TCPInv, Tables, Types, mapVars
<1>5. Nesting'
  BY <1>2 DEF Nesting
<1>6. Watched'
  BY <1>1, <1>3 DEF TCPInv, Watched, LiveConns, Live
<1>7. Known'
  BY <1>1, <1>2, <1>3 DEF TCPInv, Known, Live
<1> QED
  BY <1>3, <1>4, <1>5, <1>6, <1>7 DEF TCPInv

\* An older connection with the accepted socket goes: another thread must have
\* closed that socket.
LEMMA DestroyOldStep ==
    ASSUME TCPInv, DestroyOld
    PROVE  TCPInv'
<1> USE TCPConstants
<1>1. /\ frames # <<>> /\ Top.op = "create" /\ FrameOK(Top) /\ Top \in Frames /\ Len(frames) = 1
      /\ Top = frames[1] /\ frames \in Seq(Frames) /\ \A d \in Ids : batch[d] = NoRecord
      /\ \A p : ~Closing(p) /\ ~Fresh(p)
  BY TopFrame DEF DestroyOld
<1> PICK f : f = Top
  OBVIOUS
<1>2. PICK fd \in FDs : fd = Top.fd
  BY <1>1 DEF Frames
<1>3. PICK o \in LiveConns : o = by_fd[fd] /\ conn[o].fd = fd /\ o \in Objs /\ conn[o].id \in Ids
  BY <1>2, MappedConns DEF TCPInv, DestroyOld
<1>4. Destroys(o)
  BY <1>2, <1>3, DestroyConnEffect DEF DestroyOld, TCPInv, Tables
<1>5. /\ Tables'
      /\ LiveConns' = LiveConns \ {o}
      /\ \A p \in Objs \ {o} : conn'[p] = conn[p]
      /\ conn'[o] # Unborn /\ conn'[o].state = "freed"
  BY <1>4, DestroyTables DEF TCPInv
<1>6. batch' = batch /\ record' = [record EXCEPT ![conn[o].id] = NoRecord]
  BY <1>3, <1>4, RemoveRecordEffect DEF Destroys, TCPInv, Tables
<1>7. /\ by_id' = [by_id EXCEPT ![conn[o].id] = NoConn] /\ by_fd' = [by_fd EXCEPT ![fd] = NoConn]
      /\ UNCHANGED <<foreign, told, frames, uaf>>
  BY <1>3, <1>4 DEF Destroys, Clear, DestroyOld
<1>8. foreign # 0
  BY <1>1, <1>2, <1>3 DEF FrameOK
<1>9. Nesting'
  <2>1. FrameOK(f)'
    <3>1. \E p \in Objs : conn'[p] = Unborn
      <4>1. PICK p \in Objs : conn[p] = Unborn
        BY <1>1 DEF FrameOK
      <4>2. conn[o] # Unborn
        BY MappedConns DEF TCPInv
      <4> QED
        BY <1>5, <4>1, <4>2
    <3>2. by_fd'[fd] = NoConn
      BY <1>7 DEF TCPInv, Tables, Types
    <3> QED
      BY <1>1, <1>2, <3>1, <3>2 DEF FrameOK
  <2>2. R!Quiet'
    BY <1>1, <1>6 DEF R!Quiet
  <2>3. frames' \in Seq(Frames) /\ Len(frames') = 1 /\ frames'[1] = f
    BY <1>1, <1>7
  <2> QED
    BY <2>1, <2>2, <2>3 DEF Nesting
<1>10. Watched'
  <2>1. \A d \in Ids : record'[d] # NoRecord => by_id'[d] # NoConn /\ record'[d].v = by_id'[d]
    BY <1>3, <1>6, <1>7 DEF TCPInv, Watched, Tables, Types, RecordTypes
  <2>2. ASSUME NEW p \in LiveConns, p # o
        PROVE  record'[conn'[p].id] # NoRecord
    <3>1. conn'[p] = conn[p] /\ conn[p].id \in Ids /\ by_id[conn[p].id] = p
          /\ by_id[conn[o].id] = o
      BY <1>5, <2>2, MappedConns DEF TCPInv
    <3>2. record[conn[p].id] # NoRecord
      BY <1>1, <3>1 DEF TCPInv, Watched
    <3> QED
      BY <1>6, <2>2, <3>1, <3>2 DEF TCPInv, Tables, RecordTypes
  <2> QED
    BY <1>1, <1>5, <1>6, <2>1, <2>2 DEF Watched
<1>11. Known'
  <2>1. \A p : ~Closing(p)' /\ ~Fresh(p)'
    BY <1>1, <1>7 DEF Closing, Fresh
  <2>2. Live(o) /\ told[o].connected = 1 /\ told[o].closed = 0
    BY <1>1, <1>3 DEF TCPInv, Known, LiveConns
  <2>3. ~Live(o)'
    BY <1>5 DEF Live
  <2>4. \A p \in Objs \ {o} : /\ conn[p] = Unborn => told[p].connected = 0 /\ told[p].closed = 0
                              /\ Live(p) => told[p].connected = 1 /\ told[p].closed = 0
                              /\ conn[p].state = "freed" =>
                                   /\ told[p].connected <= 1 /\ told[p].closed <= told[p].connected
                                   /\ foreign = 0 => told[p].connected = 1 /\ told[p].closed = 1
    BY <1>1 DEF TCPInv, Known
  <2> QED
    BY <1>5, <1>7, <1>8, <2>1, <2>2, <2>3, <2>4 DEF Known, Live
<1> QED
  BY <1>5, <1>7, <1>9, <1>10, <1>11 DEF TCPInv
-----------------------------------------------------------------------------
\* Steps of the callbacks that leave the tables alone.
LEMMA FrameTables ==
    ASSUME TCPInv, UNCHANGED <<mapVars, idVars, rtmVars, envVars>>,
           told' \in [Objs -> [connected : Nat, closed : Nat]]
    PROVE  /\ Tables' /\ LiveConns' = LiveConns
           /\ UNCHANGED <<conn, by_fd, by_id, record, batch, foreign>>
<1>1. UNCHANGED <<conn, by_fd, by_id, online, inuse, now, record, batch, foreign, fd_open>>
  BY DEF mapVars, idVars, rtmVars, envVars
<1>2. LiveConns' = LiveConns
  BY <1>1 DEF LiveConns, Live
<1>3. RecordTypes' /\ Sockets'
  BY <1>1, <1>2 DEF TCPInv, Tables, RecordTypes, Sockets
<1> QED
  BY <1>1, <1>2, <1>3, SameTables DEF TCPInv, Tables, Types, mapVars

\* The read loop uses its connection only when it finds it in the map.
LEMMA ReadLoopStep ==
    ASSUME TCPInv, ReadLoop
    PROVE  TCPInv'
<1> USE TCPConstants
<1>1. /\ frames # <<>> /\ Top.op = "recv" /\ FrameOK(Top) /\ Top \in Frames /\ Len(frames) = 1
      /\ frames \in Seq(Frames) /\ \A d \in Ids : batch[d] = NoRecord
      /\ \A p : ~Closing(p) /\ ~Fresh(p)
  BY TopFrame DEF ReadLoop
<1>2. told' = told /\ uaf' = uaf
  BY DEF ReadLoop
<1>3. /\ Tables' /\ LiveConns' = LiveConns
      /\ UNCHANGED <<conn, by_fd, by_id, record, batch, foreign>>
  BY <1>2, FrameTables DEF ReadLoop, TCPInv, Tables, Types
<1>4. R!Quiet'
  BY <1>1, <1>3 DEF R!Quiet
<1>5. Watched'
  BY <1>1, <1>3 DEF TCPInv, Watched
<1>6. PICK o \in Objs, fd \in FDs : o = Top.o /\ fd = Top.fd
  BY <1>1 DEF FrameOK, Frames
<1>7. CASE Pop
  <2>1. frames' \in Seq(Frames) /\ Len(frames') = 0 /\ \A p : ~Closing(p)' /\ ~Fresh(p)'
    BY <1>1, <1>7, LastFrame
  <2>2. Nesting'
    BY <2>1 DEF Nesting
  <2>3. Known'
    BY <1>1, <1>2, <1>3, <2>1 DEF TCPInv, Known, Live
  <2> QED
    BY <1>2, <1>3, <1>5, <2>2, <2>3 DEF TCPInv
<1>8. ASSUME by_fd[fd] # NoConn
      PROVE  Live(o) /\ conn[o] # Unborn /\ conn[o].fd = fd /\ conn[o].id \in Ids /\ by_fd[fd] = o
  BY <1>1, <1>6, <1>8, MappedConns DEF FrameOK, TCPInv
<1>9. CASE by_fd[Top.fd] # NoConn /\ frames' = <<Frame("closed", Top.o, Top.fd, 1)>> \o Tail(frames)
  <2> DEFINE f == Frame("closed", o, fd, 1)
  <2>1. f \in Frames /\ f.op = "closed" /\ f.o = o /\ f.fd = fd /\ f.i = 1
    BY DEF Frame, Frames
  <2>2. frames' \in Seq(Frames) /\ Len(frames') = 1 /\ frames'[1] = f
    BY <1>1, <1>6, <1>9, <2>1, ReplaceFrame
  <2>3. FrameOK(f)'
    BY <1>1, <1>3, <1>6, <1>8, <1>9, <2>1 DEF FrameOK, Live
  <2>4. Nesting'
    BY <1>4, <2>2, <2>3 DEF Nesting
  <2>5. \A p : ~Fresh(p)' /\ frames'[1].i = 1
    BY <2>1, <2>2 DEF Fresh
  <2>6. Known'
    BY <1>1, <1>2, <1>3, <2>5 DEF TCPInv, Known, Live
  <2> QED
    BY <1>2, <1>3, <1>5, <2>4, <2>6 DEF TCPInv
<1>10. CASE by_fd[Top.fd] # NoConn /\ frames' = <<[Top EXCEPT !.i = 1]>> \o Tail(frames)
  <2>0. PICK f : f = [Top EXCEPT !.i = 1]
    OBVIOUS
  <2>1. f \in Frames /\ f.op = "recv" /\ f.o = o /\ f.fd = fd /\ f.i = 1
    BY <1>1, <1>6, <2>0 DEF Frames
  <2>2. frames' \in Seq(Frames) /\ Len(frames') = 1 /\ frames'[1] = f
    BY <1>1, <1>10, <2>0, <2>1, ReplaceFrame
  <2>3. FrameOK(f)'
    BY <1>1, <1>3, <1>6, <1>8, <1>10, <2>1 DEF FrameOK, Live
  <2>4. Nesting'
    BY <1>4, <2>2, <2>3 DEF Nesting
  <2>5. \A p : ~Fresh(p)' /\ ~Closing(p)'
    BY <2>1, <2>2 DEF Fresh, Closing
  <2>6. Known'
    BY <1>1, <1>2, <1>3, <2>5 DEF TCPInv, Known, Live
  <2> QED
    BY <1>2, <1>3, <1>5, <2>4, <2>6 DEF TCPInv
<1> QED
  BY <1>7, <1>9, <1>10 DEF ReadLoop

\* What a call of a logic adds to what the logics know.
LEMMA TellingFacts ==
    ASSUME TCPInv, Telling, Telled
    PROVE  /\ frames # <<>> /\ frames \in Seq(Frames) /\ Len(frames) \in 1..2
           /\ Top = frames[1] /\ Top \in Frames /\ FrameOK(Top)
           /\ Top.op \in {"connected", "recv", "closed"} /\ Top.i \in 1..NumLogics
           /\ Top.o \in Objs /\ Live(Top.o) /\ conn[Top.o] # Unborn
           /\ told' \in [Objs -> [connected : Nat, closed : Nat]]
           /\ \A p \in Objs : p # Top.o => told'[p] = told[p]
           /\ Top.op = "recv" => told' = told
           /\ Top.op = "connected" => /\ told'[Top.o].connected = 1
                                      /\ told'[Top.o].closed = told[Top.o].closed
           /\ Top.op = "closed" => /\ told'[Top.o].connected = told[Top.o].connected
                                   /\ told'[Top.o].closed = 1
<1> USE TCPConstants
<1>1. frames # <<>> /\ Top.op \in {"connected", "recv", "closed"} /\ Top.i \in 1..NumLogics
  BY DEF Telling
<1>2. /\ frames \in Seq(Frames) /\ Len(frames) \in 1..2
      /\ Top = frames[1] /\ Top \in Frames /\ FrameOK(Top)
      /\ Closing(Top.o) <=> Top.op = "closed"
      /\ Fresh(Top.o) <=> Top.op = "connected" /\ Top.i = 1
  BY <1>1, TopFrame
<1>3. PICK o \in Objs, i \in Nat : o = Top.o /\ i = Top.i /\ i >= 1 /\ Live(o) /\ conn[o] # Unborn
  BY <1>1, <1>2 DEF FrameOK
<1>4. told \in [Objs -> [connected : Nat, closed : Nat]]
  BY DEF TCPInv, Tables, Types
<1>5. told[o].connected \in Nat /\ told[o].closed \in Nat
  BY <1>4
<1>6. CASE Top.op = "recv"
  BY <1>1, <1>2, <1>3, <1>4, <1>6 DEF Telled
<1>7. CASE Top.op = "connected"
  <2>1. told' = [told EXCEPT ![o]["connected"] = IF i = 1 THEN @ + 1 ELSE @]
    BY <1>3, <1>7 DEF Telled
  <2>2. told[o].connected = IF i = 1 THEN 0 ELSE 1
    BY <1>2, <1>3, <1>7 DEF TCPInv, Known
  <2>3. told'[o].connected = 1 /\ told'[o].closed = told[o].closed
    BY <1>4, <1>5, <2>1, <2>2
  <2>4. told' \in [Objs -> [connected : Nat, closed : Nat]] /\ \A p \in Objs : p # o => told'[p] = told[p]
    BY <1>4, <1>5, <2>1
  <2> QED
    BY <1>1, <1>2, <1>3, <1>7, <2>3, <2>4
<1>8. CASE Top.op = "closed"
  <2>1. told' = [told EXCEPT ![o]["closed"] = IF i = 1 THEN @ + 1 ELSE @]
    BY <1>3, <1>8 DEF Telled
  <2>2. told[o].closed = IF i = 1 THEN 0 ELSE 1
    BY <1>2, <1>3, <1>8 DEF TCPInv, Known
  <2>3. told'[o].closed = 1 /\ told'[o].connected = told[o].connected
    BY <1>4, <1>5, <2>1, <2>2
  <2>4. told' \in [Objs -> [connected : Nat, closed : Nat]] /\ \A p \in Objs : p # o => told'[p] = told[p]
    BY <1>4, <1>5, <2>1
  <2> QED
    BY <1>1, <1>2, <1>3, <1>8, <2>3, <2>4
<1> QED
  BY <1>1, <1>6, <1>7, <1>8

\* A logic is told: the object is live.
LEMMA TellStep ==
    ASSUME TCPInv, Tell
    PROVE  TCPInv'
<1> USE TCPConstants
<1>1. /\ frames # <<>> /\ frames \in Seq(Frames) /\ Len(frames) \in 1..2
      /\ Top = frames[1] /\ Top \in Frames /\ FrameOK(Top)
      /\ Top.op \in {"connected", "recv", "closed"} /\ Top.i \in 1..NumLogics
      /\ Top.o \in Objs /\ Live(Top.o) /\ conn[Top.o] # Unborn
      /\ told' \in [Objs -> [connected : Nat, closed : Nat]]
      /\ \A p \in Objs : p # Top.o => told'[p] = told[p]
      /\ Top.op = "recv" => told' = told
      /\ Top.op = "connected" => /\ told'[Top.o].connected = 1
                                 /\ told'[Top.o].closed = told[Top.o].closed
      /\ Top.op = "closed" => /\ told'[Top.o].connected = told[Top.o].connected
                              /\ told'[Top.o].closed = 1
  BY TellingFacts DEF Tell
<1>2. /\ Tables' /\ LiveConns' = LiveConns
      /\ UNCHANGED <<conn, by_fd, by_id, record, batch, foreign>>
  BY <1>1, FrameTables DEF Tell
<1>3. ~uaf'
  BY <1>1 DEF Tell, UseTop
<1>4. PICK f : f = [Top EXCEPT !.i = @ + 1]
  OBVIOUS
<1>5. f \in Frames /\ f.op = Top.op /\ f.o = Top.o /\ f.fd = Top.fd /\ f.i = Top.i + 1
  <2>1. Top.i + 1 \in 0..(NumLogics + 1)
    BY <1>1
  <2> QED
    BY <1>1, <1>4, <2>1 DEF Frames
<1>6. /\ frames' \in Seq(Frames) /\ Len(frames') = Len(frames) /\ frames'[1] = f
      /\ Len(frames) = 2 => frames'[2] = frames[2]
  BY <1>1, <1>4, <1>5, ReplaceFrame DEF Tell, Next1
<1>7. FrameOK(f)'
  BY <1>1, <1>2, <1>5 DEF FrameOK, Live
<1>8. ASSUME Len(frames) = 2
      PROVE  /\ FrameOK(frames'[2]) /\ frames[1].op = "closed"
             /\ frames'[2].op \in {"connected", "recv"} /\ frames'[2].i > NumLogics
  BY <1>6, <1>8 DEF TCPInv, Nesting
<1>9. Nesting'
  <2>1. ASSUME NEW j \in 1..Len(frames')
        PROVE  FrameOK(frames[j])'
    <3>1. CASE j = 1
      BY <1>6, <1>7, <3>1
    <3>2. CASE j = 2
      <4>1. PICK h : h = frames'[2]
        OBVIOUS
      <4>2. FrameOK(h)
        BY <1>1, <1>6, <1>8, <2>1, <3>2, <4>1
      <4>3. FrameOK(h)'
        BY <1>2, <4>2 DEF FrameOK, Live
      <4> QED
        BY <3>2, <4>1, <4>3
    <3>3. \A n \in 1..2 : \A k \in 1..n : k = 1 \/ k = 2
      OBVIOUS
    <3> QED
      BY <1>1, <1>6, <2>1, <3>1, <3>2, <3>3
  <2>2. Len(frames') = 0 \/ (Len(frames') = 1 /\ frames'[1].op = "closed") \/ R!Quiet'
    <3>1. Len(frames) = 0 \/ (Len(frames) = 1 /\ frames[1].op = "closed") \/ R!Quiet
      BY DEF TCPInv, Nesting
    <3> QED
      BY <1>1, <1>2, <1>5, <1>6, <3>1 DEF R!Quiet
  <2>3. Len(frames') = 2 => /\ frames'[1].op = "closed"
                            /\ frames'[2].op \in {"connected", "recv"}
                            /\ frames'[2].i > NumLogics
    BY <1>1, <1>5, <1>6, <1>8
  <2>4. frames' \in Seq(Frames) /\ Len(frames') <= 2
    BY <1>6 DEF TCPInv, Nesting
  <2> QED
    BY <2>1, <2>2, <2>3, <2>4, Zenon DEF Nesting
<1>10. \A p : Closing(p)' <=> Closing(p)
  BY <1>1, <1>5, <1>6 DEF Closing
<1>11. Watched'
  BY <1>2, <1>10 DEF TCPInv, Watched
<1>12. \A p : ~Fresh(p)' /\ frames'[1].i > 1
  BY <1>1, <1>5, <1>6 DEF Fresh
<1>13. Known'
  <2>1. ASSUME NEW p \in Objs, p # Top.o
        PROVE  ~Fresh(p) /\ ~Closing(p) /\ ~Closing(p)'
    BY <1>1, <1>10, <2>1 DEF Fresh, Closing
  <2>2. ASSUME NEW p \in Objs, p # Top.o
        PROVE  /\ conn[p] = Unborn => told[p].connected = 0 /\ told[p].closed = 0
               /\ Live(p) => told[p].connected = 1 /\ told[p].closed = 0
               /\ conn[p].state = "freed" =>
                    /\ told[p].connected <= 1 /\ told[p].closed <= told[p].connected
                    /\ foreign = 0 => told[p].connected = 1 /\ told[p].closed = 1
    BY <2>1, <2>2 DEF TCPInv, Known
  <2>3. told'[Top.o].connected = 1
    BY <1>1, TopFrame DEF TCPInv, Known
  <2>4. Top.op = "closed" => told'[Top.o].closed = 1
    BY <1>1
  <2>5. Top.op # "closed" => told'[Top.o].closed = 0
    BY <1>1, TopFrame DEF TCPInv, Known
  <2>6. Closing(Top.o) <=> Top.op = "closed"
    BY <1>1 DEF Closing
  <2>7. conn[Top.o].state # "freed"
    BY <1>1 DEF Live
  <2>8. PICK o \in Objs : o = Top.o
    BY <1>1
  <2> QED
    BY <1>1, <1>2, <1>10, <1>12, <2>1, <2>2, <2>3, <2>4, <2>5, <2>6, <2>7, <2>8 DEF Known, Live
<1> QED
  BY <1>2, <1>3, <1>9, <1>11, <1>13 DEF TCPInv
\* A callback begins inside the only one that runs.
LEMMA NestFrame ==
    ASSUME NEW s \in Seq(Frames), Len(s) = 1, NEW f \in Frames, NEW g \in Frames
    PROVE  /\ <<f, g>> \o Tail(s) \in Seq(Frames) /\ Len(<<f, g>> \o Tail(s)) = 2
           /\ (<<f, g>> \o Tail(s))[1] = f /\ (<<f, g>> \o Tail(s))[2] = g
<1>1. Tail(s) \in Seq(Frames) /\ Len(Tail(s)) = 0
  BY PopFrame
<1>2. PICK t \in Seq(Frames) : t = Tail(s) /\ Len(t) = 0
  BY <1>1
<1>3. <<f, g>> \o t \in Seq(Frames)
  OBVIOUS
<1>4. Len(<<f, g>> \o t) = 2
  BY <1>2
<1>5. (<<f, g>> \o t)[1] = f
  OBVIOUS
<1>6. (<<f, g>> \o t)[2] = g
  OBVIOUS
<1> QED
  BY <1>2, <1>3, <1>4, <1>5, <1>6

\* A logic that is told of a new connection or of data closes one: it is the
\* only logic, so its caller has nobody left to call.
LEMMA TellAndCloseStep ==
    ASSUME LogicsCareful, TCPInv, NEW id \in Ids, TellAndClose(id)
    PROVE  TCPInv'
<1> USE TCPConstants
<1>1. /\ frames # <<>> /\ frames \in Seq(Frames) /\ Len(frames) \in 1..2
      /\ Top = frames[1] /\ Top \in Frames /\ FrameOK(Top)
      /\ Top.op \in {"connected", "recv", "closed"} /\ Top.i \in 1..NumLogics
      /\ Top.o \in Objs /\ Live(Top.o) /\ conn[Top.o] # Unborn
      /\ told' \in [Objs -> [connected : Nat, closed : Nat]]
      /\ \A p \in Objs : p # Top.o => told'[p] = told[p]
      /\ Top.op = "recv" => told' = told
      /\ Top.op = "connected" => /\ told'[Top.o].connected = 1
                                 /\ told'[Top.o].closed = told[Top.o].closed
  BY TellingFacts DEF TellAndClose
<1>2. Top.op \in {"connected", "recv"} /\ NumLogics = 1 /\ Top.i = 1
  BY <1>1 DEF TellAndClose, MayClose, LogicsCareful
<1>3. /\ Len(frames) = 1 /\ \A d \in Ids : batch[d] = NoRecord
      /\ \A p : ~Closing(p)
      /\ \A p : Fresh(p) <=> Top.op = "connected" /\ Top.o = p /\ Top.i = 1
  BY <1>1, <1>2, TopFrame
<1>4. /\ Tables' /\ LiveConns' = LiveConns
      /\ UNCHANGED <<conn, by_fd, by_id, record, batch, foreign>>
  BY <1>1, FrameTables DEF TellAndClose
<1>5. ~uaf'
  BY <1>1 DEF TellAndClose, UseTop
<1>6. PICK o \in LiveConns : o = by_id[id] /\ o \in Objs /\ Live(o) /\ conn[o] # Unborn
                             /\ conn[o].fd \in FDs /\ conn[o].id \in Ids
  BY MappedConns DEF TCPInv, TellAndClose
<1>7. PICK f : f = CallClosed(o)
  OBVIOUS
<1>8. f \in Frames /\ f.op = "closed" /\ f.o = o /\ f.fd = conn[o].fd /\ f.i = 1
  BY <1>6, <1>7 DEF CallClosed, Frame, Frames
<1>9. PICK g : g = [Top EXCEPT !.i = @ + 1]
  OBVIOUS
<1>10. g \in Frames /\ g.op = Top.op /\ g.o = Top.o /\ g.fd = Top.fd /\ g.i = 2
  BY <1>1, <1>2, <1>9 DEF Frames
<1>11. /\ frames' \in Seq(Frames) /\ Len(frames') = 2
       /\ frames'[1] = f /\ frames'[2] = g
  <2>1. frames' = <<f, g>> \o Tail(frames)
    BY <1>6, <1>7, <1>9 DEF TellAndClose
  <2> QED
    BY <1>1, <1>3, <1>8, <1>10, <2>1, NestFrame
<1>12. Nesting'
  <2>1. FrameOK(f)'
    BY <1>3, <1>4, <1>6, <1>8 DEF FrameOK, Live
  <2>2. FrameOK(g)'
    BY <1>1, <1>2, <1>4, <1>10 DEF FrameOK, Live
  <2>3. R!Quiet'
    BY <1>3, <1>4 DEF R!Quiet
  <2> QED
    BY <1>2, <1>8, <1>10, <1>11, <2>1, <2>2, <2>3 DEF Nesting
<1>13. Watched'
  BY <1>3, <1>4 DEF TCPInv, Watched
<1>14. Known'
  <2>1. \A p : ~Fresh(p)' /\ ~(frames'[1].i > 1)
    BY <1>8, <1>11 DEF Fresh
  <2>2. ASSUME NEW p \in Objs, p # Top.o
        PROVE  /\ conn[p] = Unborn => told[p].connected = 0 /\ told[p].closed = 0
               /\ Live(p) => told[p].connected = 1 /\ told[p].closed = 0
               /\ conn[p].state = "freed" =>
                    /\ told[p].connected <= 1 /\ told[p].closed <= told[p].connected
                    /\ foreign = 0 => told[p].connected = 1 /\ told[p].closed = 1
    BY <1>3, <2>2 DEF TCPInv, Known
  <2>3. told[Top.o].closed = 0 /\ (Top.op = "recv" => told[Top.o].connected = 1)
    BY <1>1, <1>3 DEF TCPInv, Known
  <2>4. told'[Top.o].connected = 1 /\ told'[Top.o].closed = 0
    BY <1>1, <1>2, <2>3
  <2>5. conn[Top.o].state # "freed"
    BY <1>1 DEF Live
  <2>6. PICK q \in Objs : q = Top.o
    BY <1>1
  <2> QED
    BY <1>1, <1>4, <2>1, <2>2, <2>4, <2>5, <2>6 DEF Known, Live
<1> QED
  BY <1>4, <1>5, <1>12, <1>13, <1>14 DEF TCPInv

\* OnClientConnected returns.
LEMMA ConnectedDoneStep ==
    ASSUME TCPInv, ConnectedDone
    PROVE  TCPInv'
<1> USE TCPConstants
<1>1. /\ frames # <<>> /\ Top.op = "connected" /\ Len(frames) = 1 /\ Top.i > NumLogics
      /\ \A p : ~Closing(p)
      /\ \A p : Fresh(p) <=> Top.op = "connected" /\ Top.o = p /\ Top.i = 1
  BY TopFrame DEF ConnectedDone
<1>2. \A p : ~Fresh(p)
  BY <1>1
<1>3. frames' \in Seq(Frames) /\ Len(frames') = 0 /\ \A o : ~Closing(o)' /\ ~Fresh(o)'
  BY <1>1, LastFrame DEF ConnectedDone
<1>4. told' = told /\ uaf' = uaf
  BY DEF ConnectedDone
<1>5. /\ Tables' /\ LiveConns' = LiveConns
      /\ UNCHANGED <<conn, by_fd, by_id, record, batch, foreign>>
  BY <1>4, FrameTables DEF ConnectedDone, TCPInv, Tables, Types
<1>6. Nesting'
  BY <1>3 DEF Nesting
<1>7. Watched'
  BY <1>1, <1>5 DEF TCPInv, Watched
<1>8. Known'
  BY <1>1, <1>2, <1>3, <1>4, <1>5 DEF TCPInv, Known, Live
<1> QED
  BY <1>4, <1>5, <1>6, <1>7, <1>8 DEF TCPInv

\* OnClientClosed ends, maybe inside another callback, which has no logic left
\* to call.
LEMMA ClosedDoneStep ==
    ASSUME TCPInv, ClosedDone
    PROVE  TCPInv'
<1> USE TCPConstants
<1>1. /\ frames # <<>> /\ frames \in Seq(Frames) /\ Len(frames) \in 1..2
      /\ Top = frames[1] /\ Top \in Frames /\ FrameOK(Top)
      /\ Top.op = "closed" /\ Top.i > NumLogics
      /\ \A p : Closing(p) <=> Top.op = "closed" /\ Top.o = p
      /\ \A p : Fresh(p) <=> Top.op = "connected" /\ Top.o = p /\ Top.i = 1
  BY TopFrame DEF ClosedDone
<1>2. PICK o \in LiveConns : o = Top.o /\ o \in Objs /\ Live(o) /\ conn[o].id \in Ids
                             /\ conn[o].fd \in FDs /\ batch[conn[o].id] = NoRecord
                             /\ by_id[conn[o].id] = o
  BY <1>1, MappedConns DEF FrameOK, LiveConns, TCPInv
<1>3. Destroys(o)
  BY <1>2, DestroyConnEffect DEF ClosedDone, TCPInv, Tables
<1>4. /\ Tables'
      /\ LiveConns' = LiveConns \ {o}
      /\ \A p \in Objs \ {o} : conn'[p] = conn[p]
      /\ conn'[o] # Unborn /\ conn'[o].state = "freed" /\ conn'[o].fd = conn[o].fd
  BY <1>3, DestroyTables DEF TCPInv
<1>5. batch' = batch /\ record' = [record EXCEPT ![conn[o].id] = NoRecord]
  BY <1>2, <1>3, RemoveRecordEffect DEF Destroys, TCPInv, Tables
<1>6. /\ by_id' = [by_id EXCEPT ![conn[o].id] = NoConn]
      /\ by_fd' = [by_fd EXCEPT ![conn[o].fd] = NoConn]
      /\ UNCHANGED <<foreign, told>>
  BY <1>3 DEF Destroys, Clear
<1>7. ~uaf'
  BY <1>2 DEF ClosedDone, UseTop
<1>8. /\ frames' \in Seq(Frames) /\ Len(frames') = Len(frames) - 1
      /\ Len(frames) = 2 => frames'[1] = frames[2]
  BY <1>1, PopFrame DEF ClosedDone, Pop
<1>9. ASSUME Len(frames) = 2
      PROVE  /\ frames'[1] \in Frames /\ FrameOK(frames'[1])
             /\ frames'[1].op \in {"connected", "recv"} /\ frames'[1].i > NumLogics
             /\ \A d \in Ids : batch[d] = NoRecord
  <2>0. 2 \in 1..Len(frames) /\ frames[2] \in Frames
    <3>1. \A n : n = 2 => 2 \in 1..n
      OBVIOUS
    <3>2. 2 \in 1..Len(frames)
      BY <1>9, <3>1, Zenon
    <3> QED
      BY <1>1, <3>2
  <2>1. FrameOK(frames[2]) /\ frames[2].op \in {"connected", "recv"} /\ frames[2].i > NumLogics
        /\ frames[2] \in Frames
    BY <1>9, <2>0, Zenon DEF TCPInv, Nesting
  <2>2. R!Quiet
    BY <1>1, <1>9 DEF TCPInv, Nesting
  <2> QED
    BY <1>8, <1>9, <2>1, <2>2 DEF R!Quiet
<1>10. ASSUME Len(frames) = 1
       PROVE  Nesting' /\ \A p : ~Closing(p)' /\ ~Fresh(p)'
  <2>1. frames' \in Seq(Frames) /\ Len(frames') = 0 /\ \A p : ~Closing(p)' /\ ~Fresh(p)'
    BY <1>1, <1>10, LastFrame DEF ClosedDone
  <2>2. Nesting'
    BY <2>1 DEF Nesting
  <2> QED
    BY <2>1, <2>2
<1>11. ASSUME Len(frames) = 2
       PROVE  Nesting' /\ \A p : ~Closing(p)' /\ ~Fresh(p)'
  <2>1. Len(frames') = 1
    BY <1>8, <1>11
  <2>2. PICK h : h = frames'[1]
    OBVIOUS
  <2>3. h \in Frames /\ FrameOK(h) /\ h.op \in {"connected", "recv"} /\ h.i > NumLogics
    BY <1>9, <1>11, <2>2
  <2>4. h.o \in Objs /\ conn[h.o] # Unborn /\ conn[h.o].fd = h.fd /\ h.fd \in FDs
    BY <2>3 DEF FrameOK, Frames
  <2>5. conn'[h.o] # Unborn /\ conn'[h.o].fd = h.fd
    BY <1>4, <2>4
  <2>6. h.op = "recv" => by_fd'[h.fd] \in {NoConn, h.o}
    <3>1. h.op = "recv" => by_fd[h.fd] \in {NoConn, h.o}
      BY <2>3 DEF FrameOK
    <3> QED
      BY <1>2, <1>6, <2>4, <3>1 DEF TCPInv, Tables, Types
  <2>7. FrameOK(h)'
    BY <2>3, <2>4, <2>5, <2>6 DEF FrameOK, Frames
  <2>8. R!Quiet'
    BY <1>5, <1>9, <1>11 DEF R!Quiet
  <2>9. Nesting'
    <3>1. \A j \in 1..Len(frames') : j = 1
      BY <2>1
    <3>2. \A j \in 1..Len(frames') : FrameOK(frames[j])'
      BY <2>2, <2>7, <3>1
    <3>3. Len(frames') <= 2 /\ Len(frames') # 2
      BY <2>1
    <3> QED
      BY <1>8, <2>8, <3>2, <3>3, Zenon DEF Nesting
  <2>10. \A p : ~Closing(p)' /\ ~Fresh(p)'
    <3>1. h.i # 1
      BY <2>3 DEF Frames
    <3> QED
      BY <2>2, <2>3, <3>1 DEF Closing, Fresh
  <2> QED
    BY <2>9, <2>10
<1>12. Nesting' /\ \A p : ~Closing(p)' /\ ~Fresh(p)'
  <2>1. \A n \in 1..2 : n = 1 \/ n = 2
    OBVIOUS
  <2> QED
    BY <1>1, <1>10, <1>11, <2>1
<1>13. Watched'
  <2>1. \A d \in Ids : record'[d] # NoRecord => by_id'[d] # NoConn /\ record'[d].v = by_id'[d]
    BY <1>2, <1>5, <1>6 DEF TCPInv, Watched, Tables, Types, RecordTypes
  <2>2. \A d \in Ids : batch'[d] # NoRecord => by_id'[d] # NoConn /\ batch'[d].v = by_id'[d]
    BY <1>2, <1>5, <1>6 DEF TCPInv, Watched, Tables, Types, RecordTypes
  <2>3. ASSUME NEW p \in LiveConns, p # o
        PROVE  record'[conn'[p].id] # NoRecord \/ batch'[conn'[p].id] # NoRecord
    <3>1. conn'[p] = conn[p] /\ conn[p].id \in Ids /\ by_id[conn[p].id] = p
      BY <1>4, <2>3, MappedConns DEF TCPInv
    <3>2. ~Closing(p)
      BY <1>1, <1>2, <2>3
    <3>3. record[conn[p].id] # NoRecord \/ batch[conn[p].id] # NoRecord
      BY <3>2 DEF TCPInv, Watched
    <3>4. conn[p].id # conn[o].id
      BY <1>2, <2>3, <3>1
    <3> QED
      BY <1>5, <3>1, <3>3, <3>4 DEF TCPInv, Tables, RecordTypes
  <2> QED
    BY <1>4, <2>1, <2>2, <2>3 DEF Watched
<1>14. Known'
  <2>1. Closing(o) /\ ~Fresh(o) /\ frames[1].i > 1
    BY <1>1, <1>2 DEF Frames
  <2>2. told[o].connected = 1 /\ told[o].closed = 1
    BY <1>2, <2>1 DEF TCPInv, Known
  <2>3. ~Live(o)'
    BY <1>4 DEF Live
  <2>4. ASSUME NEW p \in Objs, p # o
        PROVE  /\ conn[p] = Unborn => told[p].connected = 0 /\ told[p].closed = 0
               /\ Live(p) => told[p].connected = 1 /\ told[p].closed = 0
               /\ conn[p].state = "freed" =>
                    /\ told[p].connected <= 1 /\ told[p].closed <= told[p].connected
                    /\ foreign = 0 => told[p].connected = 1 /\ told[p].closed = 1
    <3>1. ~Closing(p) /\ ~Fresh(p)
      BY <1>1, <1>2, <2>4
    <3> QED
      BY <3>1 DEF TCPInv, Known
  <2> QED
    BY <1>4, <1>6, <1>12, <2>2, <2>3, <2>4 DEF Known, Live
<1> QED
  BY <1>4, <1>7, <1>12, <1>13, <1>14 DEF TCPInv
-----------------------------------------------------------------------------
\* The scan for idle connections only moves records into the batch.
LEMMA OnTimerStep ==
    ASSUME TCPInv, OnTimer
    PROVE  TCPInv'
<1>1. UNCHANGED <<conn, by_fd, by_id, online, inuse, fd_open, foreign, frames, told, uaf>>
  BY DEF OnTimer, mapVars, idVars, envVars
<1>2. /\ frames = <<>> /\ Len(frames) = 0 /\ \A id \in Ids : batch[id] = NoRecord
      /\ \A o : ~Closing(o) /\ ~Fresh(o)
  BY IdleFacts DEF OnTimer
<1>3. /\ RecordTypes'
      /\ \A id \in Ids : \/ record'[id] = record[id] /\ batch'[id] = NoRecord
                         \/ /\ record[id] # NoRecord /\ record'[id] = NoRecord
                            /\ batch'[id] # NoRecord /\ batch'[id].v = record[id].v
  BY OnTimerEffect DEF OnTimer, TCPInv, Tables
<1>4. Tables'
  <2>1. Sockets'
    BY <1>1 DEF TCPInv, Tables, Sockets, LiveConns, Live
  <2> QED
    BY <1>1, <1>3, <2>1, SameTables DEF TCPInv, Tables, Types, mapVars
<1>5. Nesting'
  <2>1. frames' \in Seq(Frames) /\ Len(frames') = 0
    BY <1>1, <1>2
  <2> QED
    BY <2>1 DEF Nesting
<1>6. Watched'
  <2>1. \A p \in LiveConns' : p \in LiveConns /\ conn'[p] = conn[p] /\ conn[p].id \in Ids
    BY <1>1, MappedConns DEF TCPInv, LiveConns, Live
  <2>2. \A p \in LiveConns : record[conn[p].id] # NoRecord
    BY <1>2, MappedConns DEF TCPInv, Watched
  <2> QED
    BY <1>1, <1>3, <2>1, <2>2 DEF TCPInv, Watched
<1>7. Known'
  BY <1>1 DEF TCPInv, Known, Live, Closing, Fresh
<1> QED
  BY <1>1, <1>4, <1>5, <1>6, <1>7 DEF TCPInv

\* OnClientClosed of an idle connection begins with the pointer of the batch:
\* it is the connection that has the id still.
LEMMA OnTimeoutStep ==
    ASSUME TCPInv, NEW id \in Ids, OnTimeout(id)
    PROVE  TCPInv'
<1> USE TCPConstants
<1>1. UNCHANGED <<conn, by_fd, by_id, online, inuse, now, record, fd_open, foreign, told, uaf>>
      /\ batch' = [batch EXCEPT ![id] = NoRecord]
  BY DEF OnTimeout, R!OnTimeout, mapVars, idVars, envVars
<1>2. PICK o \in LiveConns : /\ o = batch[id].v /\ o = by_id[id] /\ o \in Objs /\ Live(o) /\ conn[o] # Unborn
                             /\ conn[o].fd \in FDs /\ conn[o].id = id
  BY MappedConns DEF OnTimeout, TCPInv, Watched
<1> PICK f : f = CallClosed(o)
  OBVIOUS
<1>3. f \in Frames /\ f.op = "closed" /\ f.o = o /\ f.fd = conn[o].fd /\ f.i = 1
  BY <1>2 DEF CallClosed, Frame, Frames
<1>4. frames' \in Seq(Frames) /\ Len(frames') = 1 /\ frames'[1] = f
  BY <1>2, <1>3, FirstFrame DEF OnTimeout
<1>5. \A p : ~Closing(p) /\ ~Fresh(p)
  BY DEF Closing, Fresh, OnTimeout
<1>6. batch \in [Ids -> R!Slots]
  BY DEF TCPInv, Tables, RecordTypes
<1>7. Tables'
  <2>1. RecordTypes'
    BY <1>1, <1>6 DEF TCPInv, Tables, RecordTypes, R!Slots
  <2>2. Sockets'
    BY <1>1 DEF TCPInv, Tables, Sockets, LiveConns, Live
  <2> QED
    BY <1>1, <2>1, <2>2, SameTables DEF TCPInv, Tables, Types, mapVars
<1>8. Nesting'
  <2>1. FrameOK(f)'
    BY <1>1, <1>2, <1>3, <1>6 DEF FrameOK, Live
  <2> QED
    BY <1>3, <1>4, <2>1 DEF Nesting
<1>9. \A p : ~Fresh(p)' /\ ~(frames'[1].i > 1) /\ (Closing(p)' <=> p = o)
  BY <1>3, <1>4 DEF Closing, Fresh
<1>10. Watched'
  <2>1. \A p \in LiveConns' : p \in LiveConns /\ conn'[p] = conn[p] /\ conn[p].id \in Ids
                              /\ by_id[conn[p].id] = p
    BY <1>1, MappedConns DEF TCPInv, LiveConns, Live
  <2>2. \A d \in Ids : d # id => batch'[d] = batch[d]
    BY <1>1, <1>6
  <2>3. batch'[id] = NoRecord
    BY <1>1, <1>6
  <2>4. ASSUME NEW p \in LiveConns'
        PROVE  record'[conn'[p].id] # NoRecord \/ batch'[conn'[p].id] # NoRecord \/ Closing(p)'
    BY <1>1, <1>2, <1>5, <1>9, <2>1, <2>2, <2>4 DEF TCPInv, Watched
  <2> QED
    BY <1>1, <2>2, <2>3, <2>4 DEF TCPInv, Watched
<1>11. Known'
  BY <1>1, <1>5, <1>9 DEF TCPInv, Known, Live
<1> QED
  BY <1>1, <1>7, <1>8, <1>10, <1>11 DEF TCPInv

\* Steps that touch none of the tables.
LEMMA OtherSteps ==
    ASSUME TCPInv, Activate \/ Tick \/ Stop \/ UNCHANGED tcpVars
    PROVE  TCPInv'
<1> USE TCPConstants
<1>1. UNCHANGED <<conn, by_fd, by_id, online, inuse, record, batch, fd_open, foreign, frames, told, uaf>>
  BY DEF Activate, Tick, Stop, R!Activate, R!SetClock, mapVars, idVars, rtmVars, envVars, tcpVars
<1>2. now' = now \/ (now < MaxTime /\ now' = now + 1)
  BY DEF Activate, Tick, Stop, R!Activate, R!SetClock, rtmVars, tcpVars
<1>3. now \in 0..MaxTime
  BY DEF TCPInv, Tables, RecordTypes
<1>4. now' \in 0..MaxTime
  BY <1>2, <1>3
<1>5. Tables'
  <2>1. RecordTypes' /\ Sockets'
    BY <1>1, <1>4 DEF TCPInv, Tables, RecordTypes, Sockets, LiveConns, Live
  <2> QED
    BY <1>1, <2>1, SameTables DEF TCPInv, Tables, Types, mapVars
<1>6. Nesting'
  BY <1>1 DEF TCPInv, Nesting, FrameOK, Live, R!Quiet
<1>7. Watched'
  BY <1>1 DEF TCPInv, Watched, LiveConns, Live, Closing
<1>8. Known'
  BY <1>1 DEF TCPInv, Known, Live, Closing, Fresh
<1> QED
  BY <1>1, <1>5, <1>6, <1>7, <1>8 DEF TCPInv

\* The thread starts with no connection.
LEMMA TCPInitially == TCPInit => TCPInv
<1> SUFFICES ASSUME TCPInit PROVE TCPInv
  OBVIOUS
<1> USE TCPConstants DEF TCPInit
<1>1. \A o \in Objs : conn[o] = Unborn /\ ~Live(o) /\ conn[o].state = "unborn"
  BY DEF Live, Unborn
<1>2. LiveConns = {}
  BY <1>1 DEF LiveConns
<1>3. Types
  BY DEF Types, Conns, S!SeqInit
<1>4. RecordTypes
  BY DEF RecordTypes, R!RTMInit, R!Slots
<1>5. Maps
  BY <1>2, <1>3 DEF Maps, S!SeqInit
<1>6. Sockets
  BY <1>2 DEF Sockets
<1>7. Counted
  BY <1>2, FS_EmptySet DEF Counted
<1>8. Nesting
  <2>1. frames \in Seq(Frames) /\ Len(frames) = 0
    OBVIOUS
  <2> QED
    BY <2>1 DEF Nesting
<1>9. Watched
  BY <1>2 DEF Watched, R!RTMInit
<1>10. Known
  BY <1>1 DEF Known
<1> QED
  BY <1>3, <1>4, <1>5, <1>6, <1>7, <1>8, <1>9, <1>10 DEF TCPInv, Tables
-----------------------------------------------------------------------------
\* Every step of the thread keeps its tables, callbacks and what the logics
\* know in accord, as long as the logics are careful.
LEMMA TCPStep ==
    ASSUME LogicsCareful, TCPInv, [TCPNext]_tcpVars
    PROVE  TCPInv'
<1>1. ASSUME NEW fd \in FDs, (\E o \in Objs : conn[o] = Unborn) /\ OnAccept(fd)
      PROVE  TCPInv'
  BY <1>1, AcceptStep
<1>2. ASSUME NEW fd \in FDs, Closed(fd)
      PROVE  TCPInv'
  <2>1. by_fd[fd] \in LiveConns
    BY <1>2, MappedConns DEF Closed, TCPInv
  <2> QED
    BY <1>2, <2>1, CloseStep DEF Closed
<1>3. ASSUME NEW fd \in FDs, Readable(fd) \/ Written(fd) \/ ForeignClose(fd)
      PROVE  TCPInv'
  BY <1>3, ReadableStep, WrittenStep, ForeignStep
<1>4. ASSUME NEW id \in Ids, CloseTask(id)
      PROVE  TCPInv'
  <2>1. by_id[id] \in LiveConns
    BY <1>4, MappedConns DEF CloseTask, TCPInv
  <2> QED
    BY <1>4, <2>1, CloseStep DEF CloseTask
<1>5. ASSUME NEW id \in Ids, CreateConn(id) \/ CreateFails(id) \/ TellAndClose(id) \/ OnTimeout(id)
      PROVE  TCPInv'
  BY <1>5, CreateStep, CreateFailsStep, TellAndCloseStep, OnTimeoutStep
<1>6. CASE DestroyOld \/ ReadLoop \/ Tell \/ ConnectedDone \/ ClosedDone
  BY <1>6, DestroyOldStep, ReadLoopStep, TellStep, ConnectedDoneStep, ClosedDoneStep
<1>7. CASE OnTimer \/ Activate \/ Tick \/ Stop \/ UNCHANGED tcpVars
  BY <1>7, OnTimerStep, OtherSteps
<1> QED
  BY <1>1, <1>2, <1>3, <1>4, <1>5, <1>6, <1>7 DEF TCPNext

\* The invariant of an io thread's connections.
THEOREM TCPInvariant ==
    ASSUME LogicsCareful
    PROVE  TCPSpec => []TCPInv
<1>1. TCPInit => TCPInv
  BY TCPInitially
<1>2. TCPInv /\ [TCPNext]_tcpVars => TCPInv'
  BY TCPStep
<1> QED
  BY <1>1, <1>2, PTL DEF TCPSpec

\* At most MaxConns connections are live.
LEMMA OnlineBounded ==
    ASSUME TCPInv
    PROVE  online \in 0..MaxConns
<1>1. IsFiniteSet(Objs) /\ Cardinality(Objs) = MaxConns
  BY TCPConstants, FS_Interval DEF Objs
<1>2. LiveConns \subseteq Objs /\ IsFiniteSet(LiveConns)
  BY DEF LiveConns, TCPInv, Tables, Counted
<1>3. Cardinality(LiveConns) <= Cardinality(Objs) /\ Cardinality(LiveConns) \in Nat
  BY <1>1, <1>2, FS_Subset, FS_CardinalityType
<1> QED
  BY <1>1, <1>3, TCPConstants DEF TCPInv, Tables, Counted

\* The maps by socket and by id, the ids in use, online_tcp_conn_count_ and
\* the idle records of an io thread always describe the same connections, and
\* no connection is left without a watch, for any number of sockets, ids,
\* connections and (careful) logics.
THEOREM TablesAgree ==
    ASSUME LogicsCareful
    PROVE  TCPSpec => []TablesMatch
<1>1. TCPInv => TablesMatch
  <2> SUFFICES ASSUME TCPInv PROVE TablesMatch
    OBVIOUS
  <2>1. TCPTypeOK
    BY OnlineBounded DEF TCPTypeOK, TCPInv, Tables, Types, Nesting
  <2>2. MapsAgree
    <3>1. \A id \in Ids : by_id[id] = NoConn => record[id] = NoRecord
      BY DEF TCPInv, Watched
    <3>2. \A o \in LiveConns : record[conn[o].id] # NoRecord => record[conn[o].id].v = o
      BY MappedConns DEF TCPInv, Watched
    <3> QED
      BY <2>1, <3>1, <3>2, MappedConns DEF MapsAgree, TCPInv, Tables, Maps
  <2>3. OnlineMatches
    BY DEF OnlineMatches, TCPInv, Tables, Counted
  <2>4. IdleWatched
    <3>1. ASSUME NEW o, Closing(o)
          PROVE  \E j \in DOMAIN frames : frames[j].op = "closed" /\ frames[j].o = o
      <4>1. frames \in Seq(Frames) /\ Len(frames) > 0
        BY <3>1 DEF Closing, TCPInv, Nesting
      <4>2. 1 \in DOMAIN frames
        BY <4>1
      <4> QED
        BY <3>1, <4>2 DEF Closing
    <3> QED
      BY <3>1 DEF IdleWatched, TCPInv, Watched
  <2> QED
    BY <2>2, <2>3, <2>4 DEF TablesMatch
<1> QED
  BY <1>1, TCPInvariant, PTL

\* No callback of an io thread uses a connection that was freed under it, as
\* long as the logics are careful.
THEOREM FreedNeverUsed ==
    ASSUME LogicsCareful
    PROVE  TCPSpec => []NoUseAfterFree
<1>1. TCPInv => NoUseAfterFree
  BY DEF TCPInv, NoUseAfterFree
<1> QED
  BY <1>1, TCPInvariant, PTL

\* Every connection the logics were told of ends with exactly one
\* OnClientClosed before it is freed, whichever way it goes.
THEOREM EndIsTold ==
    ASSUME LogicsCareful
    PROVE  TCPSpec => []ClosedIsTold
<1>1. TCPInv => ClosedIsTold
  <2> SUFFICES ASSUME TCPInv, NEW o \in Objs
               PROVE  /\ told[o].closed <= 1
                      /\ told[o].closed <= told[o].connected
                      /\ conn[o].state = "freed" /\ foreign = 0 =>
                           told[o].connected = 1 /\ told[o].closed = 1
    BY DEF ClosedIsTold
  <2>1. conn[o] = Unborn \/ Live(o) \/ conn[o].state = "freed"
    BY ConnFields DEF TCPInv, Tables, Live
  <2>2. told[o].connected \in Nat /\ told[o].closed \in Nat
    BY DEF TCPInv, Tables, Types
  <2>3. Closing(o) => ~Fresh(o)
    BY DEF Closing, Fresh
  <2>4. conn[o] = Unborn => conn[o].state # "freed"
    BY DEF Unborn
  <2>5. Live(o) => conn[o].state # "freed"
    BY DEF Live
  <2>6. CASE conn[o] = Unborn
    BY <2>4, <2>6 DEF TCPInv, Known
  <2>7. CASE Live(o)
    BY <2>2, <2>3, <2>5, <2>7 DEF TCPInv, Known
  <2>8. CASE conn[o].state = "freed"
    BY <2>2, <2>8 DEF TCPInv, Known
  <2> QED
    BY <2>1, <2>6, <2>7, <2>8
<1> QED
  BY <1>1, TCPInvariant, PTL

\* The thread uses RecordTimeoutMgr as it is specified: each callback is one
\* of its operations on the idle records, or leaves them alone.
LEMMA IdleRecordStep ==
    ASSUME TCPInv, [TCPNext]_tcpVars
    PROVE  [R!RTMNext]_(R!rtmVars)
<1> USE TCPConstants
<1> DEFINE Same == UNCHANGED R!rtmVars
<1>1. ASSUME NEW fd \in FDs, OnAccept(fd) \/ Closed(fd) \/ ForeignClose(fd)
      PROVE  Same
  BY <1>1 DEF OnAccept, Closed, ForeignClose, rtmVars, R!rtmVars
<1>2. ASSUME NEW fd \in FDs, Readable(fd) \/ Written(fd)
      PROVE  R!RTMNext
  <2>1. PICK o \in Objs : conn[o].id \in Ids /\ R!UpsertRecord(conn[o].id, o, Life)
    BY <1>2, MappedConns DEF Readable, Written, Renew, TCPInv
  <2> QED
    BY <2>1 DEF R!RTMNext
<1>3. ASSUME NEW id \in Ids, CloseTask(id) \/ TellAndClose(id) \/ CreateFails(id)
      PROVE  Same
  BY <1>3 DEF CloseTask, TellAndClose, CreateFails, rtmVars, R!rtmVars
<1>4. ASSUME NEW id \in Ids, OnTimeout(id)
      PROVE  R!RTMNext
  BY <1>4 DEF OnTimeout, R!RTMNext
<1>5. ASSUME NEW id \in Ids, CreateConn(id)
      PROVE  R!RTMNext
  <2>1. Unused \in Objs
    BY <1>5, TopFrame DEF CreateConn, FrameOK, Unused
  <2>2. R!UpsertRecord(id, Unused, Life)
    BY <1>5 DEF CreateConn
  <2> QED
    BY <2>1, <2>2 DEF R!RTMNext
<1>6. ASSUME NEW fd, DestroyConn(fd), fd \in FDs
      PROVE  R!RTMNext \/ Same
  <2>1. CASE by_fd[fd] = NoConn
    BY <1>6, <2>1 DEF DestroyConn, rtmVars, R!rtmVars
  <2>2. CASE by_fd[fd] # NoConn
    <3>1. conn[by_fd[fd]].id \in Ids
      BY <1>6, <2>2, MappedConns DEF TCPInv
    <3>2. R!RemoveRecord(conn[by_fd[fd]].id)
      BY <1>6, <2>2 DEF DestroyConn
    <3> QED
      BY <3>1, <3>2 DEF R!RTMNext
  <2> QED
    BY <2>1, <2>2
<1>7. CASE DestroyOld
  <2>1. Top.fd \in FDs
    BY <1>7, TopFrame DEF DestroyOld, Frames
  <2> QED
    BY <1>6, <1>7, <2>1 DEF DestroyOld
<1>8. CASE ClosedDone
  <2>1. conn[Top.o].fd \in FDs
    BY <1>8, TopFrame, MappedConns DEF ClosedDone, FrameOK, TCPInv, Frames
  <2> QED
    BY <1>6, <1>8, <2>1 DEF ClosedDone
<1>9. CASE ReadLoop \/ Tell \/ ConnectedDone \/ Stop \/ UNCHANGED tcpVars
  BY <1>9 DEF ReadLoop, Tell, ConnectedDone, Stop, tcpVars, rtmVars, R!rtmVars
<1>10. CASE OnTimer \/ Activate
  BY <1>10 DEF OnTimer, Activate, R!RTMNext
<1>11. CASE Tick
  <2>1. now \in 0..MaxTime /\ now < MaxTime /\ R!SetClock(now + 1)
    BY <1>11 DEF Tick, TCPInv, Tables, RecordTypes
  <2>2. now + 1 \in 0..MaxTime
    BY <2>1
  <2> QED
    BY <2>1, <2>2 DEF R!RTMNext
<1> QED
  BY <1>1, <1>2, <1>3, <1>4, <1>5, <1>7, <1>8, <1>9, <1>10, <1>11 DEF TCPNext

\* ConnCenter is a client of RecordTimeoutMgr: whatever happens to the
\* connections, their idle records go through its operations only.
THEOREM IdleRecordsKept ==
    ASSUME LogicsCareful
    PROVE  TCPSpec => R!RTMSpec
<1>1. TCPInit => R!RTMInit
  BY DEF TCPInit
<1>2. TCPInv /\ [TCPNext]_tcpVars => [R!RTMNext]_(R!rtmVars)
  BY IdleRecordStep
<1> QED
  BY <1>1, <1>2, TCPInvariant, PTL DEF TCPSpec, R!RTMSpec
=============================================================================
