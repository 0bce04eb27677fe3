----------------------------- MODULE HTTPClient -----------------------------
(***************************************************************************)
(* http::Client and http::ClientCenter, for one peer.  Every request has   *)
(* a connection and a CallbackArg of its own; the connection may only be   *)
(* freed outside of its callback, by a timer event, and the client goes    *)
(* with its last request.                                                  *)
(***************************************************************************)
EXTENDS TransTable

VARIABLES
    http_client,  \* client_map_ has the peer
    arg           \* the CallbackArg of a request: "none", "inflight", "cleanup"
                  \* (its timer event is set), "released"

httpVars == <<http_client, arg>>

HTTPInit == http_client = FALSE /\ arg = [id \in Ids |-> "none"]

\* callback_arg_set_.
ArgSet(a) == {id \in Ids : a[id] \in {"inflight", "cleanup"}}

\* CallbackArg::Release: connection and timer event go.
ReleaseArgs(ids) == arg' = [id \in Ids |-> IF id \in ids THEN "released" ELSE arg[id]]

\* DoHTTPReq: it fails anywhere before evhttp_make_request took the request,
\* or the arg is in the set.
DoHTTPReq(id, ok) == arg' = IF ok THEN [arg EXCEPT ![id] = "inflight"] ELSE arg

\* Get and Post, on the client GetClient or CreateClient returns; a failed
\* request takes its transaction back and leaves the client.
Get(id, sink, ok) ==
    /\ RecordTransCtx(id, "http", sink, ok)
    /\ DoHTTPReq(id, ok)
    /\ http_client' = TRUE

\* Mutant: the timer event is not set.
SetCleanupNever(id) == UNCHANGED httpVars

\* HTTPReqDoneCallback sets the timer event that frees the arg; when that
\* fails the arg is freed at once and the client stays.
SetCleanup(id) ==
    /\ UNCHANGED http_client
    /\ \/ arg' = [arg EXCEPT ![id] = "cleanup"]
       \/ ReleaseArgs({id})

\* HTTPReqDoneCallback and OnHTTPReqDone: the sink is told a close, a timeout or
\* the response (not told apart here), and the transaction ends, unless it has
\* ended before or had no sink.
HTTPReqDone(id) ==
    /\ arg[id] = "inflight"
    /\ EndTrans(id, "done")
    /\ SetCleanup(id)

\* OnConnCleanupEvent.
OnConnCleanupEvent(id) ==
    /\ arg[id] = "cleanup"
    /\ ReleaseArgs({id})
    /\ http_client' = (ArgSet(arg') # {})
    /\ UNCHANGED tableVars

\* The end of a client: every arg is released.
HTTPFinalize == ReleaseArgs(ArgSet(arg)) /\ http_client' = FALSE
=============================================================================
