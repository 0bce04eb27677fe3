---------------------------- MODULE ProtoStream -----------------------------
(***************************************************************************)
(* One client connection of a proto tcp thread, from the bytes the client  *)
(* sends to the bytes it gets: NormalConn or BufferEventConn below,        *)
(* ProtoLogic::OnRecvClientData above.  Idle connections, accepts and the  *)
(* id and socket maps are TCPThread's.  One thread runs all of it: while   *)
(* the loop of OnRecvClientData goes on (parsing) nothing else of it does. *)
(***************************************************************************)
EXTENDS ProtoCodec, FiniteSets, SequencesExt, FiniteSetsExt

CONSTANTS N, Kinds   \* the client's messages, and what they can be

ASSUME StreamAssumption ==
    /\ N \in Nat \ {0}
    /\ Kinds \subseteq {"heartbeat", "handled", "unhandled", "badlen", "badsum"}

VARIABLES
    kind,        \* what each message is
    conn_type,   \* "normal" or "buffer"
    wire,        \* cells of the client that have not arrived
    data,        \* BaseConn::data_
    parsing,     \* inside the loop of OnRecvClientData
    part,        \* the connection has a record in part_msg_mgr_
    open,        \* the connection exists
    send_list,   \* NormalConn::send_list_, or the output of the bufferevent
    armed,       \* the write event is pending
    peer_up,     \* the client reads
    work,        \* messages passed to a work thread, not answered
    stopping,
    accepted, delivered, dispatched, refused   \* history

inVars == <<wire, data, parsing, part>>
outVars == <<send_list, armed, accepted, delivered>>
vars == <<kind, conn_type, inVars, open, outVars, peer_up, work, stopping,
          dispatched, refused>>

Msgs == 1..N

\* The client encodes message after message (EncodeMsg): cell i is the one at
\* CellAt(i) of message MsgAt(i).
MsgAt(i) == 1 + ((i - 1) \div MsgCells)
CellAt(i) == 1 + ((i - 1) % MsgCells)
Stream == [i \in 1..(N * MsgCells) |-> [msg |-> MsgAt(i), at |-> CellAt(i)]]

LenOK == [m \in Msgs |-> kind[m] # "badlen"]
SumOK == [m \in Msgs |-> kind[m] # "badsum"]

\* Initialize of the connection: its read event is added or its bufferevent is
\* enabled; ProtoLogic::OnClientConnected clears its data.
Init ==
    /\ kind \in [Msgs -> Kinds] /\ conn_type \in {"normal", "buffer"}
    /\ wire = Stream /\ data = <<>> /\ parsing = FALSE /\ part = FALSE
    /\ open = TRUE /\ send_list = <<>> /\ armed = (conn_type = "buffer")
    /\ peer_up = TRUE /\ work = {} /\ stopping = FALSE
    /\ accepted = <<>> /\ delivered = <<>> /\ dispatched = <<>> /\ refused = {}

-----------------------------------------------------------------------------
\* NormalConn::Send: the write event is added when the list was empty; when
\* that fails nothing is queued.
NormalSendUnarmed(m, ok) ==
    IF ok THEN /\ send_list' = Append(send_list, EncodeMsg(m))
               /\ UNCHANGED armed
          ELSE send_list = <<>> /\ UNCHANGED <<send_list, armed>>
NormalSend(m, ok) ==
    IF ok THEN /\ send_list' = Append(send_list, EncodeMsg(m))
               /\ armed' = (armed \/ send_list = <<>>)
          ELSE send_list = <<>> /\ UNCHANGED <<send_list, armed>>

\* BufferEventConn::Send.
BufferSend(m, ok) ==
    /\ send_list' = IF ok THEN Append(send_list, EncodeMsg(m)) ELSE send_list
    /\ UNCHANGED armed

\* Scheduler::SendToClient of a message with the answer to m, on the
\* connection's own thread.
SendToClient(m) ==
    /\ UNCHANGED <<open, delivered>>
    /\ \E ok \in BOOLEAN :
        /\ IF conn_type = "normal" THEN NormalSend(m, ok) ELSE BufferSend(m, ok)
        /\ accepted' = IF ok THEN accepted \o EncodeMsg(m) ELSE accepted
        /\ refused' = IF ok THEN refused ELSE refused \cup {m}

\* Finalize of either connection: what was not written is dropped.
NormalFinalize == send_list' = <<>> /\ armed' = FALSE
BufferFinalize == send_list' = <<>> /\ armed' = FALSE

\* The end of the connection's own state; delivered bytes stay delivered.
DestroyConn ==
    /\ open' = FALSE
    /\ IF conn_type = "normal" THEN NormalFinalize ELSE BufferFinalize
    /\ UNCHANGED delivered

\* ProtoLogic::OnClientClosed: no data and no record is left.
LogicClosed == data' = <<>> /\ part' = FALSE /\ parsing' = FALSE

-----------------------------------------------------------------------------
\* ReadCallback of a NormalConn: one read takes n of the cells.
NormalRead(n) ==
    /\ conn_type = "normal"
    /\ data' = data \o SubSeq(wire, 1, n)
    /\ wire' = SubSeq(wire, n + 1, Len(wire))

\* ReadCallback of a BufferEventConn: the input buffer holds n cells, all are
\* passed on and drained.
BufferRead(n) ==
    /\ conn_type = "buffer"
    /\ data' = data \o SubSeq(wire, 1, n)
    /\ wire' = SubSeq(wire, n + 1, Len(wire))

\* A thread that stops refuses the data of clients.
ReadCallback(n) ==
    /\ open /\ ~parsing /\ ~stopping
    /\ NormalRead(n) \/ BufferRead(n)
    /\ parsing' = TRUE
    /\ UNCHANGED <<kind, conn_type, part, open, outVars, peer_up, work, stopping,
                   dispatched, refused>>

\* OnClientMsg: heartbeats are answered at once; a handler answers or closes; a
\* message without a handler goes to a work thread, or is answered with an
\* error when there is none or the push fails.
OnClientMsg(m) ==
    \/ /\ SendToClient(m)
       /\ UNCHANGED work
    \/ /\ kind[m] = "handled" /\ DestroyConn
       /\ UNCHANGED <<accepted, refused, work>>
    \/ /\ kind[m] = "unhandled" /\ work' = work \cup {m}
       /\ UNCHANGED <<open, outVars, refused>>

\* What is kept of the data behind the first message: the rest (d.assign).
KeepNothing(buf) == <<>>
KeepRest(buf) == Left(buf)

\* OnRecvClientData hands the first message on, looks the connection up again,
\* for a handler may have closed it, and goes on with what is left.
WholeMsg ==
    LET m == data[1].msg
    IN  /\ dispatched' = Append(dispatched, m)
        /\ OnClientMsg(m)
        /\ IF open' THEN /\ data' = KeepRest(data) /\ part' = FALSE
                         /\ parsing' = (KeepRest(data) # <<>>)
                    ELSE LogicClosed

\* A message that cannot be decoded: the error is sent, the record is gone and
\* the message stays where it is.
UndecodableMsg ==
    /\ SendToClient(data[1].msg)
    /\ part' = FALSE /\ parsing' = FALSE
    /\ UNCHANGED <<data, work, dispatched>>

\* A length that is not accepted: the error message is queued, and dropped as
\* the connection is closed right after.
InvalidMsg ==
    /\ LogicClosed /\ DestroyConn
    /\ accepted' \in {accepted, accepted \o EncodeMsg(data[1].msg)}
    /\ UNCHANGED <<refused, work, dispatched>>

\* No whole message: the rest waits, watched by part_msg_mgr_.
PartMsgUnwatched ==
    /\ parsing' = FALSE
    /\ UNCHANGED <<data, part, open, outVars, refused, work, dispatched>>
PartMsg ==
    /\ part' = TRUE /\ parsing' = FALSE
    /\ UNCHANGED <<data, open, outVars, refused, work, dispatched>>

\* One turn of the loop of OnRecvClientData.
OnRecvClientData ==
    /\ parsing
    /\ \E said \in IsWholeMsg(data, LenOK) :
        \/ said = "invalid" /\ InvalidMsg
        \/ said = "part" /\ PartMsg
        \/ said = "whole" /\ IF DecodeMsg(data, SumOK) THEN WholeMsg ELSE UndecodableMsg
    /\ UNCHANGED <<kind, conn_type, wire, peer_up, stopping>>

\* PartMsgMgr::OnTimeout.
PartMsgTimeout ==
    /\ open /\ ~parsing /\ part
    /\ LogicClosed /\ DestroyConn
    /\ UNCHANGED <<kind, conn_type, wire, peer_up, work, stopping, accepted,
                   dispatched, refused>>

-----------------------------------------------------------------------------
\* What WriteCallback leaves in the list when the socket took t cells and no
\* more: whole items are erased, the first one left is cut at sent_len.
Flat(list) == FlattenSeq(list)
ItemsSent(t) == Max({k \in 0..Len(send_list) : Len(Flat(SubSeq(send_list, 1, k))) <= t})
Items(k) == SubSeq(send_list, k, Len(send_list))
AfterWriteUncut(t) == Items(ItemsSent(t) + 1)
AfterWrite(t) ==
    LET k == ItemsSent(t)
        off == t - Len(Flat(SubSeq(send_list, 1, k)))
    IN  IF k = Len(send_list) THEN <<>>
        ELSE <<SubSeq(send_list[k + 1], off + 1, Len(send_list[k + 1]))>> \o Items(k + 2)

\* WriteCallback of a NormalConn.  Zero-length writes and EINTR are tried again
\* on the spot; with the last cell the event is deleted; a reset returns
\* without cutting the item, there is no one left to read it.
WriteCallback(t) ==
    /\ conn_type = "normal" /\ open /\ ~parsing /\ armed /\ peer_up
    /\ t \in 0..Len(Flat(send_list))
    /\ delivered' = delivered \o SubSeq(Flat(send_list), 1, t)
    /\ \/ /\ send_list' = AfterWrite(t)
          /\ armed' = (send_list' # <<>>)
          /\ UNCHANGED peer_up
       \/ /\ t < Len(Flat(send_list)) /\ peer_up' = FALSE
          /\ send_list' = Items(ItemsSent(t) + 1) /\ UNCHANGED armed
    /\ UNCHANGED <<kind, conn_type, inVars, open, accepted, work, stopping, dispatched, refused>>

\* The bufferevent writes its output buffer (libevent).
BufferWrite(t) ==
    /\ conn_type = "buffer" /\ open /\ ~parsing /\ peer_up
    /\ t \in 1..Len(Flat(send_list))
    /\ delivered' = delivered \o SubSeq(Flat(send_list), 1, t)
    /\ send_list' = <<SubSeq(Flat(send_list), t + 1, Len(Flat(send_list)))>>
    /\ UNCHANGED <<kind, conn_type, inVars, open, armed, accepted, peer_up, work, stopping,
                   dispatched, refused>>

-----------------------------------------------------------------------------
\* The client is gone: what it had sent may still arrive.
PeerCloses ==
    /\ peer_up /\ peer_up' = FALSE
    /\ UNCHANGED <<kind, conn_type, inVars, open, outVars, work, stopping, dispatched, refused>>

\* EV_CLOSED or a read of 0 in ReadCallback, BEV_EVENT_EOF or an error in
\* EventCallback: data that is still to be read is not read.
CloseEvent ==
    /\ ~peer_up /\ open /\ ~parsing
    /\ LogicClosed /\ DestroyConn
    /\ UNCHANGED <<kind, conn_type, wire, peer_up, work, stopping, accepted, dispatched, refused>>

\* A work thread answers: its task makes the thread send, if the connection is
\* still there.
WorkAnswers(m) ==
    /\ m \in work /\ work' = work \ {m} /\ ~parsing
    /\ IF open THEN SendToClient(m) ELSE UNCHANGED <<open, outVars, refused>>
    /\ UNCHANGED <<kind, conn_type, inVars, peer_up, stopping, dispatched>>

Stop ==
    /\ ~stopping /\ stopping' = TRUE /\ ~parsing
    /\ UNCHANGED <<kind, conn_type, inVars, open, outVars, peer_up, work, dispatched, refused>>

Reads == \E n \in 1..Len(wire) : ReadCallback(n)
Writes == \E t \in 0..Len(Flat(send_list)) : WriteCallback(t) \/ BufferWrite(t)

Next ==
    \/ Reads \/ OnRecvClientData \/ PartMsgTimeout \/ Writes
    \/ PeerCloses \/ CloseEvent \/ (\E m \in Msgs : WorkAnswers(m)) \/ Stop

Spec == Init /\ [][Next]_vars

\* What arrived is read, loops end, a client that is there takes bytes, work
\* threads answer, and a closed socket is reported.
Fairness ==
    /\ WF_vars(Reads) /\ WF_vars(OnRecvClientData) /\ WF_vars(CloseEvent)
    /\ WF_vars(\E t \in 1..Len(Flat(send_list)) : WriteCallback(t) \/ BufferWrite(t))
    /\ WF_vars(\E m \in Msgs : WorkAnswers(m))

FairSpec == Spec /\ Fairness

-----------------------------------------------------------------------------
\* Messages reach OnClientMsg whole, each once and in the order the client sent
\* them, however the bytes were cut, none behind one that is not accepted, and
\* none is lost while the connection lasts.
InOrder ==
    /\ dispatched = [i \in 1..Len(dispatched) |-> i]
    /\ open => data \o wire = SubSeq(Stream, Len(dispatched) * MsgCells + 1, Len(Stream))
    /\ \A i \in 1..Len(dispatched) : LenOK[i] /\ SumOK[i]

\* Data that waits is watched by part_msg_mgr_ or starts with a message whose
\* checksum is wrong; nothing waits of a closed connection.
PartWatched ==
    /\ part \/ data # <<>> => open
    /\ ~parsing /\ data # <<>> /\ ~part => kind[data[1].msg] = "badsum"

\* The bytes given to Send reach the client once each and in order, whatever the
\* socket takes at a time.
Channel == INSTANCE ByteChannel WITH up <- open
SendsInOrder == Channel!Spec

\* The answer to a message that was handed on reaches the client, unless Send
\* refused it or the connection ended.
Answered ==
    \A m \in Msgs : m \in Range(dispatched)
        ~> (m \in refused \/ ~open \/ \E i \in 1..Len(delivered) : delivered[i] = [msg |-> m, at |-> MsgCells])
=============================================================================
