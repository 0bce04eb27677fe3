--------------------------- MODULE ProtoTCPClient ---------------------------
(***************************************************************************)
(* tcp::proto::Client and ClientCenter, for one peer.  A client connects   *)
(* when it is created; it keeps what is sent before the connection is up,  *)
(* reconnects by a timer when a connection is lost, matches responses to   *)
(* transactions and hands notifications to its sinks.  Attempts may        *)
(* overlap: every one has a bufferevent of its own, and all of them share  *)
(* the state of the client.                                                *)
(***************************************************************************)
EXTENDS TransTable, ProtoCodec

CONSTANTS Bufs,             \* bufferevents: as many sockets as can be open
          ReconnectInterval, ReconnectLimit,
          Nfys,             \* notifications of the peer
          MaxPeerMsgs,      \* bound: messages the peer sends
          NoBuf

ASSUME ProtoClientAssumption ==
    /\ ReconnectInterval \in Nat
    /\ ReconnectLimit \in Nat
    /\ NoBuf \notin Bufs
    /\ Nfys \cap (1..MaxId) = {}   \* NFY_PASSBACK is no transaction id

VARIABLES
    client,      \* client_map_ has the peer
    bufs,        \* bufevent_set_: "none", "connecting", "up"
    connected, buf_event,
    failed,      \* reconnect_failed_count_
    timer,       \* the connect timer is set
    cache,       \* cache_msg_trans_id_list_, in the order of the ids
    recved,      \* recved_data_
    stream,      \* what the peer sent on a connection and was not read yet
    reading,     \* in the loop of ReadCallback
    written,     \* history: the connection a request of this client was written to
    peer_sent,   \* history: the peer's messages: requests answered, notifications
    notified,    \* history: notifications the sinks in nfy_sink_set_ were told
    was_up       \* history: this client was connected

clientVars == <<client, bufs, connected, buf_event, failed, timer, cache, recved,
                stream, reading, written, peer_sent, notified, was_up>>

ClientReset ==
    /\ bufs' = [b \in Bufs |-> "none"]
    /\ stream' = [b \in Bufs |-> <<>>]
    /\ connected' = FALSE /\ buf_event' = NoBuf
    /\ failed' = 0 /\ timer' = FALSE
    /\ cache' = {} /\ recved' = <<>>
    /\ reading' = FALSE /\ was_up' = FALSE
    /\ written' = [id \in Ids |-> NoBuf]

ClientInit ==
    /\ client = FALSE
    /\ bufs = [b \in Bufs |-> "none"]
    /\ stream = [b \in Bufs |-> <<>>]
    /\ connected = FALSE /\ buf_event = NoBuf
    /\ failed = 0 /\ timer = FALSE
    /\ cache = {} /\ recved = <<>>
    /\ reading = FALSE /\ was_up = FALSE
    /\ written = [id \in Ids |-> NoBuf]
    /\ peer_sent = {} /\ notified = {}

\* The thread is in no callback of the client.
Idle == client /\ ~reading

-----------------------------------------------------------------------------
\* Connect: a socket and a bufferevent of its own, unless there is no address,
\* no socket or no bufferevent, or the call of connect fails: then what was made
\* is freed and the caller gets -1.
Connect(b, ok) ==
    /\ bufs[b] = "none"
    /\ bufs' = IF ok THEN [bufs EXCEPT ![b] = "connecting"] ELSE bufs

\* CreateClient: Initialize and Activate, which connects; the client is not
\* kept when that fails.  The scheduler adds the sink of the thread to the
\* nfy_sink_set_ of a client it creates, before it sends; nobody removes it.
CreateClient(b, ok) ==
    /\ ~client /\ client' = ok
    /\ Connect(b, ok)
    /\ UNCHANGED <<connected, buf_event, failed, timer, cache, recved, stream, reading,
                   written, peer_sent, notified, was_up, tableVars>>

\* RemoveClient: Freeze stops the timer, Finalize frees the bufferevents.
RemoveClient == client' = FALSE /\ ClientReset

\* StartConnectTimer.
StartConnectTimer == timer' = (ReconnectInterval # 0)

\* OnTimer, whatever Connect returns; the timer goes on until it is killed.
OnConnectTimer(b, ok) ==
    /\ Idle /\ timer
    /\ Connect(b, ok)
    /\ UNCHANGED <<client, connected, buf_event, failed, timer, cache, recved,
                   stream, reading, written, peer_sent, notified, was_up, tableVars>>

-----------------------------------------------------------------------------
\* SendCacheMsg over InnerSend: what libevent does not take stays.
\* TransCenter::OnConnected, after it, changes nothing but what the sinks know.
SendCacheMsg(b, refused) ==
    /\ cache' = cache \cap refused
    /\ written' = [id \in Ids |-> IF id \in cache \ refused THEN b ELSE written[id]]
    /\ UNCHANGED tableVars

\* Mutant: a second connection takes the place of the first.
SetConnectedTakesLatest(b, refused) ==
    /\ failed' = 0 /\ connected' = TRUE /\ was_up' = TRUE
    /\ buf_event' = CHOOSE x \in Bufs : x # b \/ Bufs = {b}
    /\ timer' = FALSE
    /\ SendCacheMsg(b, refused)

\* SetConnected(true): nothing when another connection is up.
SetConnected(b, refused) ==
    IF connected
    THEN UNCHANGED <<failed, connected, was_up, buf_event, timer, cache, written, tableVars>>
    ELSE /\ failed' = 0 /\ connected' = TRUE /\ was_up' = TRUE
         /\ buf_event' = b
         /\ timer' = FALSE
         /\ SendCacheMsg(b, refused)

\* Mutant: the sinks are not told of the close.
SetClosedSilently ==
    /\ connected' = FALSE /\ buf_event' = NoBuf
    /\ UNCHANGED failed
    /\ StartConnectTimer
    /\ UNCHANGED <<client, cache, recved, reading, written, peer_sent, notified, was_up, tableVars>>

\* SetConnected(false) of a client that is connected.
SetClosed ==
    /\ connected' = FALSE /\ buf_event' = NoBuf
    /\ TellSinks("tcp", "closed")
    /\ StartConnectTimer
    /\ UNCHANGED <<client, failed, cache, recved, reading, written, peer_sent, notified, was_up>>

\* Mutant: failed attempts are not counted.
SetFailedUncounted == UNCHANGED <<client, connected, buf_event, failed, timer, cache, recved,
                                  reading, written, peer_sent, notified, was_up, tableVars>>

\* SetConnected(false) of one that is not, below the limit.
SetFailed ==
    /\ failed' = failed + 1
    /\ UNCHANGED <<client, connected, buf_event, timer, cache, recved, reading,
                   written, peer_sent, notified, was_up, tableVars>>

GivesUp == ReconnectInterval = 0 \/ (~connected /\ failed + 1 = ReconnectLimit)

\* EventCallback, BEV_EVENT_CONNECTED.
OnConnected(b, refused) ==
    /\ Idle /\ bufs[b] = "connecting"
    /\ bufs' = [bufs EXCEPT ![b] = "up"]
    /\ SetConnected(b, refused)
    /\ UNCHANGED <<client, recved, stream, reading, peer_sent, notified>>

\* EventCallback, BEV_EVENT_EOF and BEV_EVENT_ERROR: the bufferevent goes with
\* what it holds, whichever of the client's it is.
OnClosed(b) ==
    /\ Idle /\ bufs[b] # "none"
    /\ \/ /\ GivesUp
          /\ RemoveClient
          /\ UNCHANGED <<peer_sent, notified, tableVars>>
       \/ /\ ~GivesUp
          /\ bufs' = [bufs EXCEPT ![b] = "none"]
          /\ stream' = [stream EXCEPT ![b] = <<>>]
          /\ IF connected THEN SetClosed ELSE SetFailed

\* Close, called by the logic.
Close ==
    /\ Idle
    /\ RemoveClient
    /\ UNCHANGED <<peer_sent, notified, tableVars>>

-----------------------------------------------------------------------------
\* The part of Send behind RecordTransCtx: the message is cached, or libevent
\* takes it, or refuses it and nobody is told.
PostMsg(id, taken) ==
    IF ~connected
    THEN cache' = cache \cup {id} /\ UNCHANGED written
    ELSE /\ UNCHANGED cache
         /\ written' = IF taken THEN [written EXCEPT ![id] = buf_event] ELSE written

\* Send of a logic.
Send(id, sink, taken) ==
    /\ Idle
    /\ RecordTransCtx(id, "tcp", sink, TRUE)
    /\ PostMsg(id, taken)
    /\ UNCHANGED <<client, bufs, connected, buf_event, failed, timer, recved, stream,
                   reading, peer_sent, notified, was_up>>

\* A message of the peer arrives on a connection.
PeerSends(m, b) ==
    /\ bufs[b] = "up"
    /\ Cardinality(peer_sent) < MaxPeerMsgs
    /\ m \notin peer_sent /\ peer_sent' = peer_sent \cup {m}
    /\ stream' = [stream EXCEPT ![b] = @ \o EncodeMsg(m)]
    /\ UNCHANGED <<client, bufs, connected, buf_event, failed, timer, cache, recved,
                   reading, written, notified, was_up, tableVars>>

\* The peer answers a request, with the passback it got.
PeerAnswers(id) == written[id] # NoBuf /\ PeerSends(id, written[id])

\* The peer sends a notification: its passback is NFY_PASSBACK.
PeerNotifies(m, b) == m \in Nfys /\ PeerSends(m, b)

\* ReadCallback: n cells are added to recved_data_.
ReadCallback(b, n) ==
    /\ Idle /\ bufs[b] = "up" /\ n \in 1..Len(stream[b])
    /\ recved' = recved \o SubSeq(stream[b], 1, n)
    /\ stream' = [stream EXCEPT ![b] = SubSeq(@, n + 1, Len(@))]
    /\ reading' = TRUE
    /\ UNCHANGED <<client, bufs, connected, buf_event, failed, timer, cache, written,
                   peer_sent, notified, was_up, tableVars>>

Whole == [m \in Ids \cup Nfys |-> TRUE]
Verdicts == IsWholeMsg(recved, Whole)

\* An error message answers what cannot be decoded.  It has a transaction, and
\* no sink (up to the bound on the ids).
SendError ==
    IF next_id \in Ids
    THEN RecordTransCtx(next_id, "tcp", FALSE, TRUE) /\ \E taken \in BOOLEAN : PostMsg(next_id, taken)
    ELSE UNCHANGED <<tableVars, cache, written>>

\* The loop stops: the rest of a message is missing, or the length is invalid
\* and everything is thrown away, or a message does not decode and stays.
ReadStops ==
    /\ reading /\ reading' = FALSE
    /\ \/ "part" \in Verdicts /\ UNCHANGED <<recved, cache, written, tableVars>>
       \/ /\ \/ "invalid" \in Verdicts /\ recved' = <<>>
             \/ "whole" \in Verdicts /\ ~DecodeMsg(recved, Whole) /\ UNCHANGED recved
          /\ SendError
    /\ UNCHANGED <<client, bufs, connected, buf_event, failed, timer, stream, peer_sent, notified, was_up>>

\* What is in front of recved_data_ is done with; the loop goes on with the rest.
NextMsg == recved' = Left(recved) /\ reading' = (recved' # <<>>)

\* Mutant: a response ends whatever transaction is the oldest.
OnRecvRspOldest(id) ==
    /\ live # {} /\ EndTrans(CHOOSE x \in live : \A y \in live : x <= y, "rsp")
    /\ NextMsg /\ UNCHANGED notified

\* A response ends its transaction.
OnRecvRsp(id) == id \in live /\ EndTrans(id, "rsp") /\ NextMsg /\ UNCHANGED notified

\* A notification goes to the sinks and touches no transaction.
OnRecvNfy(m) ==
    m \in Nfys /\ notified' = notified \cup {m} /\ NextMsg /\ UNCHANGED tableVars

\* A response whose transaction is gone, or was recorded without a sink, ends
\* the loop: it is neither handled nor removed, and stays in front.
IgnoreRsp(id) ==
    /\ id \notin live \cup Nfys
    /\ reading' = FALSE /\ UNCHANGED <<recved, notified, tableVars>>

\* One turn of the loop with a whole message.
ReadMsg ==
    /\ reading /\ "whole" \in Verdicts /\ DecodeMsg(recved, Whole)
    /\ LET m == recved[1].msg IN OnRecvRsp(m) \/ OnRecvNfy(m) \/ IgnoreRsp(m)
    /\ UNCHANGED <<client, bufs, connected, buf_event, failed, timer, cache, stream,
                   written, peer_sent, was_up>>

\* The peer of a client, seen by ClientCenter and TransCenter.
ClientNext ==
    \/ \E b \in Bufs : \/ OnClosed(b)
                       \/ \E ok \in BOOLEAN : CreateClient(b, ok) \/ OnConnectTimer(b, ok)
                       \/ \E m \in Nfys : PeerNotifies(m, b)
                       \/ \E refused \in SUBSET cache : OnConnected(b, refused)
                       \/ \E n \in 1..Len(stream[b]) : ReadCallback(b, n)
    \/ \E id \in Ids : PeerAnswers(id) \/ \E sink, taken \in BOOLEAN : Send(id, sink, taken)
    \/ Close \/ ReadStops \/ ReadMsg
=============================================================================
