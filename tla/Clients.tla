------------------------------ MODULE Clients -------------------------------
(***************************************************************************)
(* client_center_mgr: the proto tcp client and the http client of one      *)
(* thread, to one peer each, with the transactions of the thread.  The     *)
(* loop of a callback is not interrupted; what a sink does in its callback *)
(* is taken after it (it does not remove the client that calls it).        *)
(***************************************************************************)
EXTENDS ProtoTCPClient, HTTPClient

VARIABLE frozen   \* the thread ends

vars == <<tableVars, clientVars, httpVars, frozen>>

\* CreateProtoTCPClientCenter, CreateHTTPClientCenter.
Init == TableInit /\ ClientInit /\ HTTPInit /\ frozen = FALSE

Runs == ~reading /\ ~frozen

\* TransCenter::OnTimeout of a transaction that has a timeout.
TransTimeout(id) ==
    /\ Runs /\ id \in live
    /\ EndTrans(id, "done")
    /\ UNCHANGED <<clientVars, httpVars, frozen>>

\* ClientCenter::RemoveClient, called by a logic: the transactions of the
\* requests stay.
RemoveHTTPClient ==
    /\ Runs /\ http_client
    /\ HTTPFinalize
    /\ UNCHANGED <<tableVars, clientVars, frozen>>

HTTPNext ==
    /\ Runs
    /\ \E id \in Ids : \/ \E sink, ok \in BOOLEAN : Get(id, sink, ok)
                       \/ HTTPReqDone(id)
                       \/ OnConnCleanupEvent(id)
    /\ UNCHANGED <<clientVars, frozen>>

ProtoNext == ~frozen /\ ClientNext /\ UNCHANGED <<httpVars, frozen>>

\* Freeze, Finalize and Release of both centers and of TransCenter.
Freeze ==
    /\ Runs /\ frozen' = TRUE
    /\ RemoveClient /\ HTTPFinalize
    /\ live' = {}
    /\ UNCHANGED <<peer_sent, notified, next_id, peer, told>>

Next ==
    \/ \E id \in Ids : TransTimeout(id)
    \/ RemoveHTTPClient \/ HTTPNext \/ ProtoNext \/ Freeze

Spec == Init /\ [][Next]_vars

\* Attempts to connect end, the connect timer goes on and finds a socket in the
\* end, loops end, and libevent ends every request.
Proto(A) == ~frozen /\ A /\ UNCHANGED <<httpVars, frozen>>
Fairness ==
    /\ WF_vars(Proto(\E b \in Bufs : bufs[b] = "connecting" /\ (OnConnected(b, {}) \/ OnClosed(b))))
    /\ WF_vars(Proto(\E b \in Bufs : OnConnectTimer(b, TRUE)))
    /\ WF_vars(Proto(ReadStops \/ ReadMsg))
    /\ WF_vars(/\ Runs /\ \E id \in Ids : HTTPReqDone(id) \/ OnConnCleanupEvent(id)
               /\ UNCHANGED <<clientVars, frozen>>)

FairSpec == Spec /\ Fairness

-----------------------------------------------------------------------------
TypeOK ==
    /\ live \subseteq Ids
    /\ bufs \in [Bufs -> {"none", "connecting", "up"}]
    /\ failed \in Nat
    /\ arg \in [Ids -> {"none", "inflight", "cleanup", "released"}]

\* The clients' own state is coherent, whatever attempts and connections
\* overlap: the bufferevent that is written to is one that is up and was not
\* freed, an established client keeps the timer off and a lost one on, nothing
\* is left of a removed client, and requests belong to an http client that
\* exists and end their transaction before they are freed.
ClientsCoherent ==
    /\ TypeOK
    /\ connected => buf_event \in Bufs /\ bufs[buf_event] = "up" /\ ~timer
    /\ client /\ was_up /\ ~connected => timer = (ReconnectInterval # 0)
    /\ ~client => ~timer /\ \A b \in Bufs : bufs[b] = "none"
    /\ ArgSet(arg) # {} => http_client
    /\ \A id \in Ids : arg[id] = "cleanup" => id \notin live

\* A request that was written to a connection cannot disappear with it
\* unnoticed: once the connection is gone and the client lives on, the sink was
\* told of a close since then, or something ended the transaction.
LossIsTold ==
    client => \A id \in {x \in live : peer[x] = "tcp"} :
        written[id] # NoBuf /\ bufs[written[id]] = "none"
            => told[id] = "closed"

\* A sink gets a response only when the peer answered that very request, and a
\* notification only when the peer sent it, also when messages arrive in pieces,
\* over two connections at once, and behind the first part of a message of a
\* connection that was lost.
RspIsAnswer ==
    /\ \A id \in Ids : told[id] = "rsp" /\ peer[id] = "tcp" => id \in peer_sent
    /\ notified \subseteq peer_sent

\* A client that lost its connection has one again, or gives up at the limit.
Reconnects == (client /\ was_up /\ ~connected) ~> (connected \/ ~client)

\* A client gets a connection or gives up at the limit.
ConnectsOrGivesUp == (client /\ ~connected) ~> (connected \/ ~client)

\* Every http request is ended, and its connection freed outside of the
\* callback.
HTTPReleased == \A id \in Ids : (arg[id] = "inflight") ~> (arg[id] = "released")
=============================================================================
