---------------------------- MODULE ClientsProofs ----------------------------
(***************************************************************************)
(* What the clients of a thread promise, for any number of transactions,   *)
(* sockets and cells of a message, any reconnect interval and any limit.   *)
(* The invariant has one part for each question; a part is shown to be     *)
(* kept by every step from the parts it needs.                             *)
(***************************************************************************)
EXTENDS Clients, TLAPS

\* Cells of the answers to some requests.
Cells(ids) == [msg : ids, at : Nat]

\* The transactions; ids are given out in their order.
TableTypes ==
    /\ live \subseteq Ids
    /\ next_id \in Nat
    /\ peer \in [Ids -> {"none", "tcp", "http"}]
    /\ told \in [Ids -> {"nothing", "done", "rsp", "closed"}]

ClientTypes ==
    /\ bufs \in [Bufs -> {"none", "connecting", "up"}]
    /\ failed \in Nat
    /\ cache \subseteq Ids /\ buf_event \in Bufs \cup {NoBuf}
    /\ written \in [Ids -> Bufs \cup {NoBuf}]
    /\ arg \in [Ids -> {"none", "inflight", "cleanup", "released"}]

\* The connection of the client, and what a client that is gone leaves.
Connection ==
    /\ connected => buf_event \in Bufs /\ bufs[buf_event] = "up" /\ ~timer
    /\ ~connected => buf_event = NoBuf
    /\ client /\ was_up /\ ~connected => timer = (ReconnectInterval # 0)
    /\ ~client => /\ ~timer /\ ~connected /\ ~was_up
                  /\ \A b \in Bufs : bufs[b] = "none"
                  /\ \A id \in Ids : written[id] = NoBuf

\* An id that RecordTransCtx has not returned yet is used nowhere.
Unused ==
    /\ \A id \in cache : id < next_id
    /\ \A id \in Ids : id >= next_id => written[id] = NoBuf /\ arg[id] = "none"

\* The http requests.
Requests ==
    /\ (\E id \in Ids : arg[id] \in {"inflight", "cleanup"}) => http_client
    /\ \A id \in Ids : arg[id] = "cleanup" => id \notin live

\* A request was written to the connection that is up, or its sink knows.
Losses ==
    \A id \in live :
        peer[id] = "tcp" =>
            written[id] \in {NoBuf, buf_event} \/ told[id] = "closed"

\* Whatever cell the peer sent belongs to an answer.
Answers ==
    /\ peer_sent \subseteq Ids \cup Nfys
    /\ notified \subseteq peer_sent
    /\ recved \in Seq(Cells(peer_sent))
    /\ stream \in [Bufs -> Seq(Cells(peer_sent))]
    /\ \A id \in Ids : told[id] = "rsp" => id \in peer_sent

ClientsInv ==
    TableTypes /\ ClientTypes /\ Connection /\ Unused /\ Requests /\ Losses /\ Answers
-----------------------------------------------------------------------------
\* The assumptions of the modules on their constants.
LEMMA ClientAssumptions ==
    /\ MaxId \in Nat /\ NoBuf \notin Bufs
    /\ ReconnectInterval \in Nat /\ ReconnectLimit \in Nat
    /\ MsgCells \in Nat \ {0}
  BY TransTableAssumption, ProtoClientAssumption, CodecAssumption DEF MsgCells
-----------------------------------------------------------------------------
\* What the steps of the proto tcp client come to.

\* CreateClient, OnTimer: one more attempt.
Opens(b) ==
    /\ ~client \/ timer
    /\ client' = TRUE /\ Connect(b, TRUE)
    /\ UNCHANGED <<connected, buf_event, failed, timer, cache, recved, stream,
                   written, peer_sent, notified, was_up, tableVars, httpVars>>

\* Close, and the end of the last attempt.
Gone == RemoveClient /\ UNCHANGED <<peer_sent, notified, tableVars, httpVars>>

\* The end of a bufferevent of a connected client, and of another one.
Lost(b) ==
    /\ client /\ connected /\ ReconnectInterval # 0
    /\ bufs' = [bufs EXCEPT ![b] = "none"]
    /\ stream' = [stream EXCEPT ![b] = <<>>]
    /\ SetClosed /\ UNCHANGED httpVars

Failed(b) ==
    /\ client /\ ~connected
    /\ bufs' = [bufs EXCEPT ![b] = "none"]
    /\ stream' = [stream EXCEPT ![b] = <<>>]
    /\ SetFailed /\ UNCHANGED httpVars

\* An attempt succeeds, while another connection is up and while none is.
UpToo(b) ==
    /\ connected
    /\ bufs' = [bufs EXCEPT ![b] = "up"]
    /\ UNCHANGED <<client, connected, buf_event, failed, timer, cache, recved, stream,
                   reading, written, peer_sent, notified, was_up, tableVars, httpVars>>

Up(b, refused) ==
    /\ client /\ ~connected
    /\ bufs' = [bufs EXCEPT ![b] = "up"]
    /\ failed' = 0 /\ connected' = TRUE /\ was_up' = TRUE
    /\ buf_event' = b /\ timer' = FALSE
    /\ SendCacheMsg(b, refused)
    /\ UNCHANGED <<client, recved, stream, peer_sent, notified, httpVars>>

\* Send of a logic, and of the error message when the loop of ReadCallback stops.
Sent(id, sink, taken) ==
    /\ RecordTransCtx(id, "tcp", sink, TRUE) /\ PostMsg(id, taken)
    /\ recved' \in {recved, <<>>}
    /\ UNCHANGED <<client, bufs, connected, buf_event, failed, timer, stream,
                   peer_sent, notified, was_up, httpVars>>

\* The loop stops without a message being sent, or an attempt fails at once.
Stopped ==
    /\ recved' \in {recved, <<>>} /\ (client' <=> client)
    /\ UNCHANGED <<bufs, connected, buf_event, failed, timer, cache, stream,
                   written, peer_sent, notified, was_up, tableVars, httpVars>>

\* The loop hands out a response.
Responded(id) ==
    /\ OfOneMsg(recved, MsgCells) /\ id = recved[1].msg
    /\ EndTrans(id, "rsp")
    /\ recved' = Left(recved)
    /\ UNCHANGED <<client, bufs, connected, buf_event, failed, timer, cache, stream,
                   written, peer_sent, notified, was_up, httpVars>>

\* The loop hands out a notification.
Notified(m) ==
    /\ OfOneMsg(recved, MsgCells) /\ m = recved[1].msg
    /\ notified' = notified \cup {m}
    /\ recved' = Left(recved)
    /\ UNCHANGED <<client, bufs, connected, buf_event, failed, timer, cache, stream,
                   written, peer_sent, was_up, tableVars, httpVars>>

\* Every step is one of these.
LEMMA StepCases ==
    [Next]_vars /\ TableTypes /\ ClientTypes =>
        \/ \E id \in Ids : TransTimeout(id)
        \/ RemoveHTTPClient
        \/ \E id \in Ids, sink, ok \in BOOLEAN : Get(id, sink, ok) /\ UNCHANGED <<clientVars, frozen>>
        \/ \E id \in Ids : HTTPReqDone(id) /\ UNCHANGED <<clientVars, frozen>>
        \/ \E id \in Ids : OnConnCleanupEvent(id) /\ UNCHANGED <<clientVars, frozen>>
        \/ \E b \in Bufs : Opens(b)
        \/ Gone
        \/ \E b \in Bufs : Lost(b)
        \/ \E b \in Bufs : Failed(b)
        \/ \E b \in Bufs : UpToo(b)
        \/ \E b \in Bufs, refused \in SUBSET cache : Up(b, refused)
        \/ \E b \in Bufs, n \in Nat : ReadCallback(b, n) /\ UNCHANGED <<httpVars, frozen>>
        \/ \E m \in Ids \cup Nfys, b \in Bufs : PeerSends(m, b) /\ UNCHANGED <<httpVars, frozen>>
        \/ \E id \in Ids, sink, taken \in BOOLEAN : Sent(id, sink, taken)
        \/ Stopped
        \/ \E id \in Ids : Responded(id)
        \/ \E m \in Nfys : Notified(m)
        \/ Freeze
        \/ UNCHANGED vars
<1> SUFFICES ASSUME [Next]_vars, TableTypes, ClientTypes
             PROVE
                    \/ \E id \in Ids : TransTimeout(id)
                    \/ RemoveHTTPClient
                    \/ \E id \in Ids, sink, ok \in BOOLEAN : Get(id, sink, ok) /\ UNCHANGED <<clientVars, frozen>>
                    \/ \E id \in Ids : HTTPReqDone(id) /\ UNCHANGED <<clientVars, frozen>>
                    \/ \E id \in Ids : OnConnCleanupEvent(id) /\ UNCHANGED <<clientVars, frozen>>
                    \/ \E b \in Bufs : Opens(b)
                    \/ Gone
                    \/ \E b \in Bufs : Lost(b)
                    \/ \E b \in Bufs : Failed(b)
                    \/ \E b \in Bufs : UpToo(b)
                    \/ \E b \in Bufs, refused \in SUBSET cache : Up(b, refused)
                    \/ \E b \in Bufs, n \in Nat : ReadCallback(b, n) /\ UNCHANGED <<httpVars, frozen>>
                    \/ \E m \in Ids \cup Nfys, b \in Bufs : PeerSends(m, b) /\ UNCHANGED <<httpVars, frozen>>
                    \/ \E id \in Ids, sink, taken \in BOOLEAN : Sent(id, sink, taken)
                    \/ Stopped
                    \/ \E id \in Ids : Responded(id)
                    \/ \E m \in Nfys : Notified(m)
                    \/ Freeze
                    \/ UNCHANGED vars
  OBVIOUS
<1> USE DEF clientVars, tableVars, httpVars
<1>1. ASSUME NEW b \in Bufs, NEW ok \in BOOLEAN, CreateClient(b, ok) \/ OnConnectTimer(b, ok),
             UNCHANGED <<httpVars, frozen>>
      PROVE  Opens(b) \/ Stopped
  <2>1. CASE ok = TRUE
    BY <1>1, <2>1 DEF CreateClient, OnConnectTimer, Idle, Opens
  <2>2. CASE ok = FALSE
    BY <1>1, <2>2 DEF CreateClient, OnConnectTimer, Connect, Idle, Stopped
  <2> QED
    BY <2>1, <2>2
<1>2. ASSUME NEW b \in Bufs, OnClosed(b), UNCHANGED <<httpVars, frozen>>
      PROVE  Gone \/ Lost(b) \/ Failed(b)
  BY <1>2 DEF OnClosed, GivesUp, Idle, Gone, Lost, Failed
<1>3. ASSUME NEW b \in Bufs, NEW refused \in SUBSET cache, OnConnected(b, refused),
             UNCHANGED <<httpVars, frozen>>
      PROVE  UpToo(b) \/ Up(b, refused)
  BY <1>3 DEF OnConnected, SetConnected, Idle, UpToo, Up
<1>4. ASSUME NEW id \in Ids, NEW sink \in BOOLEAN, NEW taken \in BOOLEAN, Send(id, sink, taken),
             UNCHANGED <<httpVars, frozen>>
      PROVE  Sent(id, sink, taken)
  BY <1>4 DEF Send, Sent
<1>5. ASSUME Close, UNCHANGED <<httpVars, frozen>>
      PROVE  Gone
  BY <1>5 DEF Close, Gone
<1>6. ASSUME ReadStops, UNCHANGED <<httpVars, frozen>>
      PROVE  Stopped \/ \E id \in Ids, sink, taken \in BOOLEAN : Sent(id, sink, taken)
  <2>1. CASE UNCHANGED <<tableVars, cache, written>>
    BY <1>6, <2>1 DEF ReadStops, Stopped
  <2>2. CASE SendError /\ next_id \in Ids
    <3>1. RecordTransCtx(next_id, "tcp", FALSE, TRUE)
      BY <2>2 DEF SendError
    <3>2. PICK taken \in BOOLEAN : PostMsg(next_id, taken)
      BY <2>2 DEF SendError
    <3>3. Sent(next_id, FALSE, taken)
      BY <1>6, <3>1, <3>2 DEF ReadStops, Sent
    <3> QED
      BY <2>2, <3>3
  <2> QED
    BY <1>6, <2>1, <2>2 DEF ReadStops, SendError
<1>7. ASSUME ReadMsg, UNCHANGED <<httpVars, frozen>>
      PROVE  \/ Stopped
             \/ \E id \in Ids : Responded(id)
             \/ \E m \in Nfys : Notified(m)
  <2> DEFINE m == recved[1].msg
  <2>1. CASE OnRecvRsp(m)
    BY <1>7, <2>1 DEF ReadMsg, DecodeMsg, OnRecvRsp, NextMsg, Responded, TableTypes
  <2>2. CASE OnRecvNfy(m)
    BY <1>7, <2>2 DEF ReadMsg, DecodeMsg, OnRecvNfy, NextMsg, Notified
  <2>3. CASE IgnoreRsp(m)
    BY <1>7, <2>3 DEF ReadMsg, IgnoreRsp, Stopped
  <2> QED
    BY <1>7, <2>1, <2>2, <2>3 DEF ReadMsg
<1>8. ASSUME NEW id \in Ids, PeerAnswers(id)
      PROVE  \E m \in Ids \cup Nfys, b \in Bufs : PeerSends(m, b)
  BY <1>8 DEF PeerAnswers, ClientTypes
<1>9. ASSUME NEW b \in Bufs, NEW m \in Nfys, PeerNotifies(m, b)
      PROVE  PeerSends(m, b)
  BY <1>9 DEF PeerNotifies
<1>10. \A b \in Bufs : \A n \in 1..Len(stream[b]) : n \in Nat
  OBVIOUS
<1> QED
  BY <1>1, <1>2, <1>3, <1>4, <1>5, <1>6, <1>7, <1>8, <1>9, <1>10
     DEF Next, HTTPNext, ProtoNext, ClientNext
-----------------------------------------------------------------------------
\* The transactions keep their types.
LEMMA TableTypesStep ==
    TableTypes /\ ClientTypes /\ [Next]_vars => TableTypes'
<1> SUFFICES ASSUME TableTypes, ClientTypes, [Next]_vars
             PROVE  TableTypes'
  OBVIOUS
<1> USE ClientAssumptions DEF TableTypes, Ids, clientVars, tableVars, httpVars
<1>1. CASE \E id \in Ids : TransTimeout(id)
  BY <1>1 DEF TransTimeout, EndTrans, tableVars
<1>2. CASE RemoveHTTPClient
  BY <1>2 DEF RemoveHTTPClient, HTTPFinalize, ReleaseArgs, ArgSet
<1>3. CASE \E id \in Ids, sink, ok \in BOOLEAN : Get(id, sink, ok) /\ UNCHANGED <<clientVars, frozen>>
  BY <1>3 DEF Get, RecordTransCtx, DoHTTPReq
<1>4. CASE \E id \in Ids : HTTPReqDone(id) /\ UNCHANGED <<clientVars, frozen>>
  BY <1>4 DEF HTTPReqDone, EndTrans, SetCleanup, ReleaseArgs
<1>5. CASE \E id \in Ids : OnConnCleanupEvent(id) /\ UNCHANGED <<clientVars, frozen>>
  BY <1>5 DEF OnConnCleanupEvent, ReleaseArgs, ArgSet
<1>6. CASE \E b \in Bufs : Opens(b)
  BY <1>6 DEF Opens, Connect
<1>7. CASE Gone
  BY <1>7 DEF Gone, RemoveClient, ClientReset
<1>8. CASE \E b \in Bufs : Lost(b)
  BY <1>8 DEF Lost, SetClosed, TellSinks, StartConnectTimer
<1>9. CASE \E b \in Bufs : Failed(b)
  BY <1>9 DEF Failed, SetFailed
<1>10. CASE \E b \in Bufs : UpToo(b)
  BY <1>10 DEF UpToo
<1>11. CASE \E b \in Bufs, refused \in SUBSET cache : Up(b, refused)
  BY <1>11 DEF Up, SendCacheMsg
<1>12. CASE \E b \in Bufs, n \in Nat : ReadCallback(b, n) /\ UNCHANGED <<httpVars, frozen>>
  BY <1>12 DEF ReadCallback
<1>13. CASE \E m \in Ids \cup Nfys, b \in Bufs : PeerSends(m, b) /\ UNCHANGED <<httpVars, frozen>>
  BY <1>13 DEF PeerSends
<1>14. CASE \E id \in Ids, sink, taken \in BOOLEAN : Sent(id, sink, taken)
  BY <1>14 DEF Sent, RecordTransCtx, PostMsg
<1>15. CASE Stopped
  BY <1>15 DEF Stopped
<1>16. CASE \E id \in Ids : Responded(id)
  <2> PICK id \in Ids : Responded(id)
    BY <1>16
  <2>1. UNCHANGED <<next_id, peer>> /\ live' \subseteq live
    BY DEF Responded, EndTrans
  <2>2. told' \in {told, [told EXCEPT ![id] = "rsp"]}
    BY DEF Responded, EndTrans
  <2> QED
    BY <2>1, <2>2
<1>17. CASE \E m \in Nfys : Notified(m)
  BY <1>17 DEF Notified
<1>18. CASE Freeze
  BY <1>18 DEF Freeze, RemoveClient, ClientReset, HTTPFinalize, ReleaseArgs, ArgSet
<1>19. CASE UNCHANGED vars
  BY <1>19 DEF vars
<1> QED
  BY <1>1, <1>2, <1>3, <1>4, <1>5, <1>6, <1>7, <1>8, <1>9, <1>10,
     <1>11, <1>12, <1>13, <1>14, <1>15, <1>16, <1>17, <1>18, <1>19, StepCases

\* The clients' state keeps its types.
LEMMA ClientTypesStep ==
    TableTypes /\ ClientTypes /\ [Next]_vars => ClientTypes'
<1> SUFFICES ASSUME TableTypes, ClientTypes, [Next]_vars
             PROVE  ClientTypes'
  OBVIOUS
<1> USE ClientAssumptions DEF TableTypes, ClientTypes, Ids, clientVars, tableVars, httpVars
<1>1. CASE \E id \in Ids : TransTimeout(id)
  BY <1>1 DEF TransTimeout, EndTrans, tableVars
<1>2. CASE RemoveHTTPClient
  BY <1>2 DEF RemoveHTTPClient, HTTPFinalize, ReleaseArgs, ArgSet
<1>3. CASE \E id \in Ids, sink, ok \in BOOLEAN : Get(id, sink, ok) /\ UNCHANGED <<clientVars, frozen>>
  BY <1>3 DEF Get, RecordTransCtx, DoHTTPReq
<1>4. CASE \E id \in Ids : HTTPReqDone(id) /\ UNCHANGED <<clientVars, frozen>>
  BY <1>4 DEF HTTPReqDone, EndTrans, SetCleanup, ReleaseArgs
<1>5. CASE \E id \in Ids : OnConnCleanupEvent(id) /\ UNCHANGED <<clientVars, frozen>>
  BY <1>5 DEF OnConnCleanupEvent, ReleaseArgs, ArgSet
<1>6. CASE \E b \in Bufs : Opens(b)
  BY <1>6 DEF Opens, Connect
<1>7. CASE Gone
  BY <1>7 DEF Gone, RemoveClient, ClientReset
<1>8. CASE \E b \in Bufs : Lost(b)
  BY <1>8 DEF Lost, SetClosed, TellSinks, StartConnectTimer
<1>9. CASE \E b \in Bufs : Failed(b)
  BY <1>9 DEF Failed, SetFailed
<1>10. CASE \E b \in Bufs : UpToo(b)
  BY <1>10 DEF UpToo
<1>11. CASE \E b \in Bufs, refused \in SUBSET cache : Up(b, refused)
  BY <1>11 DEF Up, SendCacheMsg
<1>12. CASE \E b \in Bufs, n \in Nat : ReadCallback(b, n) /\ UNCHANGED <<httpVars, frozen>>
  BY <1>12 DEF ReadCallback
<1>13. CASE \E m \in Ids \cup Nfys, b \in Bufs : PeerSends(m, b) /\ UNCHANGED <<httpVars, frozen>>
  BY <1>13 DEF PeerSends
<1>14. CASE \E id \in Ids, sink, taken \in BOOLEAN : Sent(id, sink, taken)
  <2> PICK id \in Ids, sink \in BOOLEAN, taken \in BOOLEAN : Sent(id, sink, taken)
    BY <1>14
  <2>1. UNCHANGED <<bufs, failed, arg>>
    BY DEF Sent
  <2>2. /\ cache' \subseteq cache \cup {id}
        /\ written' \in {written, [written EXCEPT ![id] = buf_event]}
    BY DEF Sent, PostMsg
  <2>3. cache' \subseteq Ids /\ buf_event' \in Bufs \cup {NoBuf}
    BY <2>2 DEF Sent
  <2>4. written' \in [Ids -> Bufs \cup {NoBuf}]
    BY <2>2
  <2> QED
    BY <2>1, <2>3, <2>4
<1>15. CASE Stopped
  BY <1>15 DEF Stopped
<1>16. CASE \E id \in Ids : Responded(id)
  BY <1>16 DEF Responded, EndTrans
<1>17. CASE \E m \in Nfys : Notified(m)
  BY <1>17 DEF Notified
<1>18. CASE Freeze
  BY <1>18 DEF Freeze, RemoveClient, ClientReset, HTTPFinalize, ReleaseArgs, ArgSet
<1>19. CASE UNCHANGED vars
  BY <1>19 DEF vars
<1> QED
  BY <1>1, <1>2, <1>3, <1>4, <1>5, <1>6, <1>7, <1>8, <1>9, <1>10,
     <1>11, <1>12, <1>13, <1>14, <1>15, <1>16, <1>17, <1>18, <1>19, StepCases

\* The client keeps track of its connection, whatever attempts overlap.
LEMMA ConnectionStep ==
    TableTypes /\ ClientTypes /\ Connection /\ Unused /\ [Next]_vars => Connection'
<1> SUFFICES ASSUME TableTypes, ClientTypes, Connection, Unused, [Next]_vars
             PROVE  Connection'
  OBVIOUS
<1> USE ClientAssumptions DEF ClientTypes, Connection, Unused, clientVars, tableVars, httpVars
<1>1. CASE \E id \in Ids : TransTimeout(id)
  BY <1>1 DEF TransTimeout, EndTrans, tableVars
<1>2. CASE RemoveHTTPClient
  BY <1>2 DEF RemoveHTTPClient, HTTPFinalize, ReleaseArgs, ArgSet
<1>3. CASE \E id \in Ids, sink, ok \in BOOLEAN : Get(id, sink, ok) /\ UNCHANGED <<clientVars, frozen>>
  BY <1>3 DEF Get, RecordTransCtx, DoHTTPReq
<1>4. CASE \E id \in Ids : HTTPReqDone(id) /\ UNCHANGED <<clientVars, frozen>>
  BY <1>4 DEF HTTPReqDone, EndTrans, SetCleanup, ReleaseArgs
<1>5. CASE \E id \in Ids : OnConnCleanupEvent(id) /\ UNCHANGED <<clientVars, frozen>>
  BY <1>5 DEF OnConnCleanupEvent, ReleaseArgs, ArgSet
<1>6. CASE \E b \in Bufs : Opens(b)
  BY <1>6 DEF Opens, Connect
<1>7. CASE Gone
  BY <1>7 DEF Gone, RemoveClient, ClientReset
<1>8. CASE \E b \in Bufs : Lost(b)
  BY <1>8 DEF Lost, SetClosed, TellSinks, StartConnectTimer
<1>9. CASE \E b \in Bufs : Failed(b)
  BY <1>9 DEF Failed, SetFailed
<1>10. CASE \E b \in Bufs : UpToo(b)
  BY <1>10 DEF UpToo
<1>11. CASE \E b \in Bufs, refused \in SUBSET cache : Up(b, refused)
  BY <1>11 DEF Up, SendCacheMsg
<1>12. CASE \E b \in Bufs, n \in Nat : ReadCallback(b, n) /\ UNCHANGED <<httpVars, frozen>>
  BY <1>12 DEF ReadCallback
<1>13. CASE \E m \in Ids \cup Nfys, b \in Bufs : PeerSends(m, b) /\ UNCHANGED <<httpVars, frozen>>
  BY <1>13 DEF PeerSends
<1>14. CASE \E id \in Ids, sink, taken \in BOOLEAN : Sent(id, sink, taken)
  BY <1>14 DEF Sent, RecordTransCtx, PostMsg
<1>15. CASE Stopped
  BY <1>15 DEF Stopped
<1>16. CASE \E id \in Ids : Responded(id)
  BY <1>16 DEF Responded, EndTrans
<1>17. CASE \E m \in Nfys : Notified(m)
  BY <1>17 DEF Notified
<1>18. CASE Freeze
  BY <1>18 DEF Freeze, RemoveClient, ClientReset, HTTPFinalize, ReleaseArgs, ArgSet
<1>19. CASE UNCHANGED vars
  BY <1>19 DEF vars
<1> QED
  BY <1>1, <1>2, <1>3, <1>4, <1>5, <1>6, <1>7, <1>8, <1>9, <1>10,
     <1>11, <1>12, <1>13, <1>14, <1>15, <1>16, <1>17, <1>18, <1>19, StepCases

\* Ids are used after RecordTransCtx has returned them.
LEMMA UnusedStep ==
    TableTypes /\ ClientTypes /\ Unused /\ [Next]_vars => Unused'
<1> SUFFICES ASSUME TableTypes, ClientTypes, Unused, [Next]_vars
             PROVE  Unused'
  OBVIOUS
<1> USE ClientAssumptions DEF TableTypes, ClientTypes, Unused, Ids, clientVars, tableVars, httpVars
<1>1. CASE \E id \in Ids : TransTimeout(id)
  BY <1>1 DEF TransTimeout, EndTrans, tableVars
<1>2. CASE RemoveHTTPClient
  BY <1>2 DEF RemoveHTTPClient, HTTPFinalize, ReleaseArgs, ArgSet
<1>3. CASE \E id \in Ids, sink, ok \in BOOLEAN : Get(id, sink, ok) /\ UNCHANGED <<clientVars, frozen>>
  BY <1>3 DEF Get, RecordTransCtx, DoHTTPReq
<1>4. CASE \E id \in Ids : HTTPReqDone(id) /\ UNCHANGED <<clientVars, frozen>>
  BY <1>4 DEF HTTPReqDone, EndTrans, SetCleanup, ReleaseArgs
<1>5. CASE \E id \in Ids : OnConnCleanupEvent(id) /\ UNCHANGED <<clientVars, frozen>>
  BY <1>5 DEF OnConnCleanupEvent, ReleaseArgs, ArgSet
<1>6. CASE \E b \in Bufs : Opens(b)
  BY <1>6 DEF Opens, Connect
<1>7. CASE Gone
  BY <1>7 DEF Gone, RemoveClient, ClientReset
<1>8. CASE \E b \in Bufs : Lost(b)
  BY <1>8 DEF Lost, SetClosed, TellSinks, StartConnectTimer
<1>9. CASE \E b \in Bufs : Failed(b)
  BY <1>9 DEF Failed, SetFailed
<1>10. CASE \E b \in Bufs : UpToo(b)
  BY <1>10 DEF UpToo
<1>11. CASE \E b \in Bufs, refused \in SUBSET cache : Up(b, refused)
  BY <1>11 DEF Up, SendCacheMsg
<1>12. CASE \E b \in Bufs, n \in Nat : ReadCallback(b, n) /\ UNCHANGED <<httpVars, frozen>>
  BY <1>12 DEF ReadCallback
<1>13. CASE \E m \in Ids \cup Nfys, b \in Bufs : PeerSends(m, b) /\ UNCHANGED <<httpVars, frozen>>
  BY <1>13 DEF PeerSends
<1>14. CASE \E id \in Ids, sink, taken \in BOOLEAN : Sent(id, sink, taken)
  <2> PICK id \in Ids, sink \in BOOLEAN, taken \in BOOLEAN : Sent(id, sink, taken)
    BY <1>14
  <2>1. id = next_id /\ next_id' = id + 1 /\ UNCHANGED arg
    BY DEF Sent, RecordTransCtx
  <2>2. /\ cache' \subseteq cache \cup {id}
        /\ written' \in {written, [written EXCEPT ![id] = buf_event]}
    BY DEF Sent, PostMsg
  <2> QED
    BY <2>1, <2>2
<1>15. CASE Stopped
  BY <1>15 DEF Stopped
<1>16. CASE \E id \in Ids : Responded(id)
  BY <1>16 DEF Responded, EndTrans
<1>17. CASE \E m \in Nfys : Notified(m)
  BY <1>17 DEF Notified
<1>18. CASE Freeze
  BY <1>18 DEF Freeze, RemoveClient, ClientReset, HTTPFinalize, ReleaseArgs, ArgSet
<1>19. CASE UNCHANGED vars
  BY <1>19 DEF vars
<1> QED
  BY <1>1, <1>2, <1>3, <1>4, <1>5, <1>6, <1>7, <1>8, <1>9, <1>10,
     <1>11, <1>12, <1>13, <1>14, <1>15, <1>16, <1>17, <1>18, <1>19, StepCases

\* A request belongs to an http client and ends its transaction before its
\* connection is freed.
LEMMA RequestsStep ==
    TableTypes /\ ClientTypes /\ Unused /\ Requests /\ [Next]_vars => Requests'
<1> SUFFICES ASSUME TableTypes, ClientTypes, Unused, Requests, [Next]_vars
             PROVE  Requests'
  OBVIOUS
<1> USE ClientAssumptions DEF TableTypes, ClientTypes, Requests, Unused, Ids, clientVars, tableVars, httpVars
<1>1. CASE \E id \in Ids : TransTimeout(id)
  BY <1>1 DEF TransTimeout, EndTrans, tableVars
<1>2. CASE RemoveHTTPClient
  BY <1>2 DEF RemoveHTTPClient, HTTPFinalize, ReleaseArgs, ArgSet
<1>3. CASE \E id \in Ids, sink, ok \in BOOLEAN : Get(id, sink, ok) /\ UNCHANGED <<clientVars, frozen>>
  BY <1>3 DEF Get, RecordTransCtx, DoHTTPReq
<1>4. CASE \E id \in Ids : HTTPReqDone(id) /\ UNCHANGED <<clientVars, frozen>>
  BY <1>4 DEF HTTPReqDone, EndTrans, SetCleanup, ReleaseArgs
<1>5. CASE \E id \in Ids : OnConnCleanupEvent(id) /\ UNCHANGED <<clientVars, frozen>>
  <2> PICK id \in Ids : OnConnCleanupEvent(id)
    BY <1>5
  <2>1. /\ arg' = [x \in Ids |-> IF x = id THEN "released" ELSE arg[x]]
        /\ UNCHANGED live
    BY DEF OnConnCleanupEvent, ReleaseArgs
  <2>2. http_client' = (ArgSet(arg') # {})
    BY DEF OnConnCleanupEvent
  <2>3. (\E x \in Ids : arg'[x] \in {"inflight", "cleanup"}) => http_client'
    BY <2>2 DEF ArgSet
  <2>4. \A x \in Ids : arg'[x] = "cleanup" => x \notin live'
    BY <2>1
  <2> QED
    BY <2>3, <2>4
<1>6. CASE \E b \in Bufs : Opens(b)
  BY <1>6 DEF Opens, Connect
<1>7. CASE Gone
  BY <1>7 DEF Gone, RemoveClient, ClientReset
<1>8. CASE \E b \in Bufs : Lost(b)
  BY <1>8 DEF Lost, SetClosed, TellSinks, StartConnectTimer
<1>9. CASE \E b \in Bufs : Failed(b)
  BY <1>9 DEF Failed, SetFailed
<1>10. CASE \E b \in Bufs : UpToo(b)
  BY <1>10 DEF UpToo
<1>11. CASE \E b \in Bufs, refused \in SUBSET cache : Up(b, refused)
  BY <1>11 DEF Up, SendCacheMsg
<1>12. CASE \E b \in Bufs, n \in Nat : ReadCallback(b, n) /\ UNCHANGED <<httpVars, frozen>>
  BY <1>12 DEF ReadCallback
<1>13. CASE \E m \in Ids \cup Nfys, b \in Bufs : PeerSends(m, b) /\ UNCHANGED <<httpVars, frozen>>
  BY <1>13 DEF PeerSends
<1>14. CASE \E id \in Ids, sink, taken \in BOOLEAN : Sent(id, sink, taken)
  BY <1>14 DEF Sent, RecordTransCtx, PostMsg
<1>15. CASE Stopped
  BY <1>15 DEF Stopped
<1>16. CASE \E id \in Ids : Responded(id)
  BY <1>16 DEF Responded, EndTrans
<1>17. CASE \E m \in Nfys : Notified(m)
  BY <1>17 DEF Notified
<1>18. CASE Freeze
  BY <1>18 DEF Freeze, RemoveClient, ClientReset, HTTPFinalize, ReleaseArgs, ArgSet
<1>19. CASE UNCHANGED vars
  BY <1>19 DEF vars
<1> QED
  BY <1>1, <1>2, <1>3, <1>4, <1>5, <1>6, <1>7, <1>8, <1>9, <1>10,
     <1>11, <1>12, <1>13, <1>14, <1>15, <1>16, <1>17, <1>18, <1>19, StepCases

\* No step loses a request that was written without its sink being told.
LEMMA LossesStep ==
    TableTypes /\ ClientTypes /\ Connection /\ Unused /\ Losses /\ [Next]_vars => Losses'
<1> SUFFICES ASSUME TableTypes, ClientTypes, Connection, Unused, Losses, [Next]_vars
             PROVE  Losses'
  OBVIOUS
<1> USE ClientAssumptions DEF TableTypes, ClientTypes, Connection, Unused, Losses, Ids,
      clientVars, tableVars, httpVars
<1>1. CASE \E id \in Ids : TransTimeout(id)
  BY <1>1 DEF TransTimeout, EndTrans, tableVars
<1>2. CASE RemoveHTTPClient
  BY <1>2 DEF RemoveHTTPClient, HTTPFinalize, ReleaseArgs, ArgSet
<1>3. CASE \E id \in Ids, sink, ok \in BOOLEAN : Get(id, sink, ok) /\ UNCHANGED <<clientVars, frozen>>
  <2> PICK id \in Ids, sink \in BOOLEAN, ok \in BOOLEAN : Get(id, sink, ok) /\ UNCHANGED <<clientVars, frozen>>
    BY <1>3
  <2>1. /\ live' \subseteq live \cup {id} 
        /\ peer' = [peer EXCEPT ![id] = "http"] /\ UNCHANGED <<told, buf_event, written>>
    BY DEF Get, RecordTransCtx
  <2>2. peer'[id] = "http" /\ \A j \in Ids \ {id} : peer'[j] = peer[j]
    BY <2>1
  <2> QED
    BY <2>1, <2>2
<1>4. CASE \E id \in Ids : HTTPReqDone(id) /\ UNCHANGED <<clientVars, frozen>>
  BY <1>4 DEF HTTPReqDone, EndTrans, SetCleanup, ReleaseArgs
<1>5. CASE \E id \in Ids : OnConnCleanupEvent(id) /\ UNCHANGED <<clientVars, frozen>>
  BY <1>5 DEF OnConnCleanupEvent, ReleaseArgs, ArgSet
<1>6. CASE \E b \in Bufs : Opens(b)
  BY <1>6 DEF Opens, Connect
<1>7. CASE Gone
  BY <1>7 DEF Gone, RemoveClient, ClientReset
<1>8. CASE \E b \in Bufs : Lost(b)
  BY <1>8 DEF Lost, SetClosed, TellSinks, StartConnectTimer
<1>9. CASE \E b \in Bufs : Failed(b)
  BY <1>9 DEF Failed, SetFailed
<1>10. CASE \E b \in Bufs : UpToo(b)
  BY <1>10 DEF UpToo
<1>11. CASE \E b \in Bufs, refused \in SUBSET cache : Up(b, refused)
  BY <1>11 DEF Up, SendCacheMsg
<1>12. CASE \E b \in Bufs, n \in Nat : ReadCallback(b, n) /\ UNCHANGED <<httpVars, frozen>>
  BY <1>12 DEF ReadCallback
<1>13. CASE \E m \in Ids \cup Nfys, b \in Bufs : PeerSends(m, b) /\ UNCHANGED <<httpVars, frozen>>
  BY <1>13 DEF PeerSends
<1>14. CASE \E id \in Ids, sink, taken \in BOOLEAN : Sent(id, sink, taken)
  <2> PICK id \in Ids, sink \in BOOLEAN, taken \in BOOLEAN : Sent(id, sink, taken)
    BY <1>14
  <2>1. /\ id = next_id /\ live' \subseteq live \cup {id} 
        /\ peer' = [peer EXCEPT ![id] = "tcp"] /\ told' = told /\ buf_event' = buf_event
    BY DEF Sent, RecordTransCtx
  <2>2. written' \in {written, [written EXCEPT ![id] = buf_event]}
    BY DEF Sent, PostMsg
  <2>3. written'[id] \in {NoBuf, buf_event}
    BY <2>1, <2>2
  <2>4. ASSUME NEW x \in Ids \ {id}, x \in live', peer'[x] = "tcp"
        PROVE  written'[x] \in {NoBuf, buf_event'} \/ told'[x] = "closed"
    BY <2>1, <2>2, <2>4
  <2> QED
    BY <2>1, <2>3, <2>4
<1>15. CASE Stopped
  BY <1>15 DEF Stopped
<1>16. CASE \E id \in Ids : Responded(id)
  BY <1>16 DEF Responded, EndTrans
<1>17. CASE \E m \in Nfys : Notified(m)
  BY <1>17 DEF Notified
<1>18. CASE Freeze
  BY <1>18 DEF Freeze, RemoveClient, ClientReset, HTTPFinalize, ReleaseArgs, ArgSet
<1>19. CASE UNCHANGED vars
  BY <1>19 DEF vars
<1> QED
  BY <1>1, <1>2, <1>3, <1>4, <1>5, <1>6, <1>7, <1>8, <1>9, <1>10,
     <1>11, <1>12, <1>13, <1>14, <1>15, <1>16, <1>17, <1>18, <1>19, StepCases

\* Facts about sequences.
LEMMA SeqMono ==
    ASSUME NEW A, NEW B, A \subseteq B
    PROVE  Seq(A) \subseteq Seq(B)
  OBVIOUS

\* Sequences, as the streams of answers use them: joining two,
LEMMA SeqConcat ==
    ASSUME NEW A, NEW s \in Seq(A), NEW t \in Seq(A)
    PROVE  s \o t \in Seq(A)
  OBVIOUS

\* none at all,
LEMMA EmptySeqType ==
    ASSUME NEW A
    PROVE  <<>> \in Seq(A)
  OBVIOUS

\* and one of its members.
LEMMA SeqElement ==
    ASSUME NEW A, NEW s \in Seq(A), NEW i \in 1..Len(s)
    PROVE  s[i] \in A
  OBVIOUS

\* What is received comes from answers, whatever connections it came over.
LEMMA AnswersStep ==
    TableTypes /\ ClientTypes /\ Answers /\ [Next]_vars => Answers'
<1> SUFFICES ASSUME TableTypes, ClientTypes, Answers, [Next]_vars
             PROVE  Answers'
  OBVIOUS
<1> USE ClientAssumptions DEF TableTypes, ClientTypes, Answers, Ids, clientVars, tableVars, httpVars
<1>1. CASE \E id \in Ids : TransTimeout(id)
  BY <1>1 DEF TransTimeout, EndTrans, tableVars
<1>2. CASE RemoveHTTPClient
  BY <1>2 DEF RemoveHTTPClient, HTTPFinalize, ReleaseArgs, ArgSet
<1>3. CASE \E id \in Ids, sink, ok \in BOOLEAN : Get(id, sink, ok) /\ UNCHANGED <<clientVars, frozen>>
  BY <1>3 DEF Get, RecordTransCtx, DoHTTPReq
<1>4. CASE \E id \in Ids : HTTPReqDone(id) /\ UNCHANGED <<clientVars, frozen>>
  BY <1>4 DEF HTTPReqDone, EndTrans, SetCleanup, ReleaseArgs
<1>5. CASE \E id \in Ids : OnConnCleanupEvent(id) /\ UNCHANGED <<clientVars, frozen>>
  BY <1>5 DEF OnConnCleanupEvent, ReleaseArgs, ArgSet
<1>6. CASE \E b \in Bufs : Opens(b)
  BY <1>6 DEF Opens, Connect
<1>7. CASE Gone
  BY <1>7 DEF Gone, RemoveClient, ClientReset
<1>8. CASE \E b \in Bufs : Lost(b)
  BY <1>8 DEF Lost, SetClosed, TellSinks, StartConnectTimer
<1>9. CASE \E b \in Bufs : Failed(b)
  BY <1>9 DEF Failed, SetFailed
<1>10. CASE \E b \in Bufs : UpToo(b)
  BY <1>10 DEF UpToo
<1>11. CASE \E b \in Bufs, refused \in SUBSET cache : Up(b, refused)
  BY <1>11 DEF Up, SendCacheMsg
<1>12. CASE \E b \in Bufs, n \in Nat : ReadCallback(b, n) /\ UNCHANGED <<httpVars, frozen>>
  <2> PICK b \in Bufs, n \in Nat : ReadCallback(b, n)
    BY <1>12
  <2>1. stream[b] \in Seq(Cells(peer_sent)) /\ n \in 1..Len(stream[b])
    BY DEF ReadCallback
  <2>2. /\ SubSeq(stream[b], 1, n) \in Seq(Cells(peer_sent))
        /\ SubSeq(stream[b], n + 1, Len(stream[b])) \in Seq(Cells(peer_sent))
    BY <2>1
  <2>3. recved' \in Seq(Cells(peer_sent))
    BY <2>2 DEF ReadCallback
  <2>4. stream' \in [Bufs -> Seq(Cells(peer_sent))]
    BY <2>2 DEF ReadCallback
  <2> QED
    BY <2>3, <2>4 DEF ReadCallback
<1>13. CASE \E m \in Ids \cup Nfys, b \in Bufs : PeerSends(m, b) /\ UNCHANGED <<httpVars, frozen>>
  <2> PICK m \in Ids \cup Nfys, b \in Bufs : PeerSends(m, b)
    BY <1>13
  <2>1. peer_sent' = peer_sent \cup {m} /\ UNCHANGED <<recved, told, notified>>
    BY DEF PeerSends
  <2>2. EncodeMsg(m) \in Seq(Cells(peer_sent'))
    BY <2>1 DEF EncodeMsg, Cells
  <2>3. Cells(peer_sent) \subseteq Cells(peer_sent')
    BY <2>1 DEF Cells
  <2>4. recved \in Seq(Cells(peer_sent')) /\ stream \in [Bufs -> Seq(Cells(peer_sent'))]
    BY <2>3, SeqMono
  <2>5. stream[b] \o EncodeMsg(m) \in Seq(Cells(peer_sent'))
    BY <2>2, <2>4, SeqConcat
  <2>6. stream' \in [Bufs -> Seq(Cells(peer_sent'))]
    BY <2>4, <2>5 DEF PeerSends
  <2> QED
    BY <2>1, <2>4, <2>6
<1>14. CASE \E id \in Ids, sink, taken \in BOOLEAN : Sent(id, sink, taken)
  <2>1. UNCHANGED <<peer_sent, notified, told, stream>> /\ recved' \in {recved, <<>>}
    BY <1>14 DEF Sent, RecordTransCtx
  <2>2. recved' \in Seq(Cells(peer_sent))
    BY <2>1, EmptySeqType
  <2> QED
    BY <2>1, <2>2
<1>15. CASE Stopped
  <2>1. UNCHANGED <<peer_sent, notified, told, stream>> /\ recved' \in {recved, <<>>}
    BY <1>15 DEF Stopped
  <2>2. recved' \in Seq(Cells(peer_sent))
    BY <2>1, EmptySeqType
  <2> QED
    BY <2>1, <2>2
<1>16. CASE \E id \in Ids : Responded(id)
  <2> PICK id \in Ids : Responded(id)
    BY <1>16
  <2>1. UNCHANGED <<peer_sent, notified, stream>> /\ recved' = Left(recved)
    BY DEF Responded
  <2>2. MsgCells <= Len(recved) /\ id = recved[1].msg
    BY DEF Responded, OfOneMsg
  <2>3. id \in peer_sent
    <3>1. 1 \in 1..Len(recved)
      BY <2>2
    <3>2. recved[1] \in Cells(peer_sent)
      BY <3>1, SeqElement
    <3> QED
      BY <2>2, <3>2 DEF Cells
  <2>4. recved' \in Seq(Cells(peer_sent))
    BY <2>1, <2>2 DEF Left
  <2>5. told' \in {told, [told EXCEPT ![id] = "rsp"]}
    BY DEF Responded, EndTrans
  <2>6. \A x \in Ids : told'[x] = "rsp" => x \in peer_sent
    BY <2>3, <2>5
  <2> QED
    BY <2>1, <2>4, <2>6
<1>17. CASE \E m \in Nfys : Notified(m)
  <2> PICK m \in Nfys : Notified(m)
    BY <1>17
  <2>1. UNCHANGED <<peer_sent, stream, told>> /\ recved' = Left(recved)
    BY DEF Notified
  <2>2. MsgCells <= Len(recved) /\ m = recved[1].msg
    BY DEF Notified, OfOneMsg
  <2>3. m \in peer_sent
    <3>1. 1 \in 1..Len(recved)
      BY <2>2
    <3>2. recved[1] \in Cells(peer_sent)
      BY <3>1, SeqElement
    <3> QED
      BY <2>2, <3>2 DEF Cells
  <2>4. recved' \in Seq(Cells(peer_sent))
    BY <2>1, <2>2 DEF Left
  <2>5. notified' \subseteq peer_sent
    BY <2>3 DEF Notified
  <2> QED
    BY <2>1, <2>4, <2>5
<1>18. CASE Freeze
  BY <1>18 DEF Freeze, RemoveClient, ClientReset, HTTPFinalize, ReleaseArgs, ArgSet
<1>19. CASE UNCHANGED vars
  BY <1>19 DEF vars
<1> QED
  BY <1>1, <1>2, <1>3, <1>4, <1>5, <1>6, <1>7, <1>8, <1>9, <1>10,
     <1>11, <1>12, <1>13, <1>14, <1>15, <1>16, <1>17, <1>18, <1>19, StepCases

-----------------------------------------------------------------------------
\* No client and no transaction at the start.
LEMMA ClientsInvInit == Init => ClientsInv
<1> SUFFICES ASSUME Init PROVE ClientsInv
  OBVIOUS
<1> USE ClientAssumptions DEF Init, TableInit, ClientInit, HTTPInit, Ids
<1>1. TableTypes
  BY DEF TableTypes
<1>2. ClientTypes
  BY DEF ClientTypes
<1>3. Connection
  BY DEF Connection
<1>4. Unused
  BY DEF Unused
<1>5. Requests
  BY DEF Requests
<1>6. Losses
  BY DEF Losses
<1>7. Answers
  BY EmptySeqType DEF Answers
<1> QED
  BY <1>1, <1>2, <1>3, <1>4, <1>5, <1>6, <1>7 DEF ClientsInv

\* The parts together hold in every state.
THEOREM ClientsInvariant == Spec => []ClientsInv
<1>1. ClientsInv /\ [Next]_vars => ClientsInv'
  BY TableTypesStep, ClientTypesStep, ConnectionStep, UnusedStep, RequestsStep, LossesStep,
     AnswersStep DEF ClientsInv
<1> QED
  BY ClientsInvInit, <1>1, PTL DEF Spec

\* The bufferevent that is written to is up, the connect timer runs exactly
\* while a connection that was lost is missing, nothing is left of a removed
\* client, and http requests end before they are freed: SetConnected and
\* EventCallback keep this through overlapping attempts, for any number of
\* sockets and transactions.
THEOREM ClientStateCoherent == Spec => []ClientsCoherent
<1>1. ClientsInv => ClientsCoherent
  <2> SUFFICES ASSUME ClientsInv PROVE ClientsCoherent
    OBVIOUS
  <2>1. TypeOK
    BY DEF ClientsInv, TableTypes, ClientTypes, TypeOK
  <2>2. ArgSet(arg) # {} => http_client
    BY DEF ClientsInv, Requests, ArgSet
  <2> QED
    BY <2>1, <2>2 DEF ClientsInv, Connection, Requests, ClientsCoherent
<1> QED
  BY ClientsInvariant, <1>1, PTL

\* A request that was written to a connection does not vanish with it: as
\* long as the client is there, the loss of the connection was told to the
\* sink (SetConnected(false) calls TransCenter::OnClosed first).
THEOREM LossesAreTold == Spec => []LossIsTold
<1>1. ClientsInv => LossIsTold
  <2> SUFFICES ASSUME ClientsInv, client,
                      NEW id \in live, peer[id] = "tcp",
                      written[id] # NoBuf, bufs[written[id]] = "none"
               PROVE  told[id] = "closed"
    BY DEF LossIsTold
  <2>1. id \in Ids
    BY DEF ClientsInv, TableTypes
  <2>2. written[id] # buf_event
    BY <2>1 DEF ClientsInv, Connection
  <2> QED
    BY <2>1, <2>2 DEF ClientsInv, Losses
<1> QED
  BY ClientsInvariant, <1>1, PTL

\* A sink gets a response only for a request the peer has answered, and a
\* notification only when the peer has sent it, in whatever pieces and over
\* whatever connections the cells came into the one recved_data_ (ReadCallback).
THEOREM ResponsesAreAnswers == Spec => []RspIsAnswer
<1>1. ClientsInv => RspIsAnswer
  BY DEF ClientsInv, Answers, RspIsAnswer
<1> QED
  BY ClientsInvariant, <1>1, PTL
=============================================================================
