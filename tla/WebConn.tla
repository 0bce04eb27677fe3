------------------------------ MODULE WebConn -------------------------------
(***************************************************************************)
(* WebLogic with the parsers of its connections: bytes arrive in pieces,   *)
(* http_parser and websocket_parser (external) call back, a request or a   *)
(* websocket message is handed on when it is complete.  A request is a     *)
(* sequence of tokens, the stretches of bytes between two callbacks:       *)
(*   u1 u2    the two halves of its URL                                    *)
(*   g        the headers of a request without a body, which ends with it  *)
(*   h, f     the headers of one with a body; f says multipart/form-data   *)
(*   b, e     the first and the last stretch of a body                     *)
(*   up       the headers of a request to upgrade                          *)
(*   x        bytes that are no request                                    *)
(* and a websocket frame is a header and d, its body: t0 the header of a   *)
(* text frame that is not the last of its message, n1 of the continuation  *)
(* that is, t1 of a text message of one frame, p of a ping, c of a close.  *)
(***************************************************************************)
EXTENDS Integers, Sequences, FiniteSets, SequencesExt

CONSTANTS Conns, Threads, Scripts, Idle   \* Idle: a thread that runs no parser

BodyToken == {"b", "e"}
FrameHeader == {"t0", "n1", "t1", "p", "c"}

\* What the parsers see: they do not call back for a part of a request or of a
\* frame without the part before it, nor begin a message inside another.
InOrder(s) ==
    \A i \in 1..Len(s) :
        /\ s[i] = "u1" => i = 1 \/ s[i - 1] \in {"g", "e"}
        /\ s[i] = "u2" => i > 1 /\ s[i - 1] = "u1"
        /\ s[i] \in {"g", "h", "f", "up"} => i > 1 /\ s[i - 1] = "u2"
        /\ s[i] \in BodyToken => i > 1 /\ s[i - 1] \in {"h", "f", "b"}
        /\ s[i] \in FrameHeader => i > 1 /\ s[i - 1] \in {"up", "d"}
        /\ s[i] = "d" => i > 1 /\ s[i - 1] \in FrameHeader
        /\ s[i] = "x" => i = 1 \/ s[i - 1] \notin FrameHeader \cup {"up", "d"}

ASSUME WebAssumption ==
    Idle \notin Conns /\ \A s \in Scripts : s \in [Conns -> Seq(STRING)]

ASSUME ParserAssumption == \A s \in Scripts : \A c \in Conns : InOrder(s[c])

VARIABLES
    script,      \* what each client sends
    thread,      \* the thread of each connection
    pos,         \* tokens of it that were read
    piece,       \* tokens of this read that are still to be parsed
    busy,        \* the connection whose parser a thread runs
    on_body,     \* the callback in the settings all http parsers share
    req,         \* http_req_ and complete_ of each connection's parser
    ws,          \* upgrade_ of its HTTPConnCtx; payloads_, is_text_ and fin_
    open,        \* the connection and its HTTPConnCtx exist
    part,        \* it has a record in part_msg_mgr_
    crashed,     \* a null pointer ended the process
    over,        \* history: the record is that of a message that was complete
    astray,      \* history: what came between a message and the body callback
    handed, handed_ws, freed_use   \* history

vars == <<script, thread, pos, piece, busy, on_body, req, ws, open, part, crashed,
          over, astray, handed, handed_ws, freed_use>>

\* content: what the Content-Type says; mpart: the processor has a parser.
NoReq == [url |-> {}, content |-> "none", body |-> <<>>, mpart |-> FALSE,
          complete |-> FALSE, error |-> FALSE, url_here |-> FALSE]
NoWS == [upgraded |-> FALSE, payloads |-> <<>>, text |-> FALSE, fin |-> FALSE]

\* Req::Reset, which leaves the processor of multipart bodies as it is.
Reset(r) == [NoReq EXCEPT !.mpart = r.mpart]

\* OnClientConnected made a context for each.
Init ==
    /\ script \in Scripts /\ thread \in [Conns -> Threads]
    /\ pos = [c \in Conns |-> 0] /\ piece = [c \in Conns |-> 0]
    /\ busy = [t \in Threads |-> Idle] /\ on_body = "plain"
    /\ req = [c \in Conns |-> NoReq] /\ ws = [c \in Conns |-> NoWS]
    /\ open = [c \in Conns |-> TRUE] /\ part = [c \in Conns |-> FALSE]
    /\ crashed = FALSE
    /\ over = [c \in Conns |-> FALSE] /\ astray = [c \in Conns |-> {}]
    /\ handed = [c \in Conns |-> <<>>] /\ handed_ws = [c \in Conns |-> <<>>]
    /\ freed_use = {}

Runs(c) == busy[thread[c]] = c
Free(c) == busy[thread[c]] = Idle
Tok(c) == script[c][pos[c] + 1]
LastTok(c) == script[c][pos[c]]

Advance(c) == pos' = [pos EXCEPT ![c] = @ + 1] /\ piece' = [piece EXCEPT ![c] = @ - 1]

\* A record made while a complete request waits goes when that is handed on.
Behind(c) == req[c].complete /\ ~ws[c].upgraded
RecordOnce(c) ==
    /\ part' = [part EXCEPT ![c] = @ \/ pos[c] > 0]
    /\ over' = [over EXCEPT ![c] = Behind(c)]
RecordPartMsg(c) ==
    /\ part' = [part EXCEPT ![c] = TRUE]
    /\ over' = [over EXCEPT ![c] = Behind(c)]

RemoveRecord(c) == part' = [part EXCEPT ![c] = FALSE]

\* A use of the parser of c after a handler may have closed c.
Uses(c) == freed_use' = IF open'[c] THEN freed_use ELSE freed_use \cup {c}

Return(c) == busy' = [busy EXCEPT ![thread[c]] = Idle] /\ piece' = [piece EXCEPT ![c] = 0]
Goes(c) == UNCHANGED <<script, thread, busy, open, crashed>>

\* OnRecvClientData, with n tokens.
OnRecvClientData(c, n) ==
    /\ ~crashed /\ open[c] /\ Free(c) /\ pos[c] + n <= Len(script[c])
    /\ busy' = [busy EXCEPT ![thread[c]] = c] /\ piece' = [piece EXCEPT ![c] = n]
    /\ req' = [req EXCEPT ![c].url_here = FALSE]
    /\ UNCHANGED <<script, thread, pos, on_body, ws, open, part, crashed, over, astray,
                   handed, handed_ws, freed_use>>

-----------------------------------------------------------------------------
\* The callbacks of the http parser.  A message that begins while the last one
\* was not handed on yet is added to it.
HTTPRuns(c) == Runs(c) /\ piece[c] > 0 /\ ~ws[c].upgraded /\ ~req[c].error

\* The settings are one object for all connections of all threads.
SetOnBody(c, callback, own) ==
    /\ on_body' = callback
    /\ astray' = [d \in Conns |->
          IF d = c THEN own
          ELSE IF callback # on_body THEN astray[d] \cup {"others"} ELSE astray[d]]

\* OnMessageBegin sets the body callback back; OnURL with the first half.
Begun(c) == IF req[c].complete THEN {"joined"} ELSE {}
KeepCallback(c) == SetOnBody(c, on_body, Begun(c))
OnMessageBegin(c) == SetOnBody(c, "plain", Begun(c))

\* OnURL keeps what this call is given, whatever earlier calls were.
OnURL(c, half) ==
    [req EXCEPT ![c].url = IF req[c].url_here THEN @ \cup {half} ELSE {half},
                ![c].url_here = TRUE]

ParseURL(c) ==
    /\ HTTPRuns(c) /\ Tok(c) \in {"u1", "u2"}
    /\ IF Tok(c) = "u1" THEN OnMessageBegin(c) ELSE UNCHANGED <<on_body, astray>>
    /\ req' = OnURL(c, Tok(c))
    /\ RecordPartMsg(c) /\ Advance(c) /\ Goes(c)
    /\ UNCHANGED <<ws, handed, handed_ws, freed_use>>

\* The Content-Type that find() finds: AddHeader keeps the first of those of
\* requests that are added to one another.
Content(c) ==
    IF req[c].content # "none" THEN req[c].content
    ELSE IF Tok(c) = "f" THEN "form" ELSE IF Tok(c) = "h" THEN "other" ELSE "none"

\* MPartBodyProcessor::Initialize makes a parser and takes the body callback over.
TakeOver(c) == IF Content(c) = "form" THEN SetOnBody(c, "mpart", astray[c])
               ELSE UNCHANGED <<on_body, astray>>

OnHeadersComplete(c) ==
    /\ HTTPRuns(c) /\ Tok(c) \in {"g", "h", "f"}
    /\ req' = [req EXCEPT ![c].content = Content(c), ![c].mpart = @ \/ Content(c) = "form",
                          ![c].complete = @ \/ Tok(c) = "g", ![c].url_here = FALSE]
    /\ TakeOver(c)
    /\ RecordPartMsg(c) /\ Advance(c) /\ Goes(c)
    /\ UNCHANGED <<ws, handed, handed_ws, freed_use>>

\* OnBody.
AssignBody(c) == [req EXCEPT ![c].body = <<pos[c] + 1>>, ![c].complete = @ \/ Tok(c) = "e"]
AppendBody(c) == [req EXCEPT ![c].body = Append(@, pos[c] + 1), ![c].complete = @ \/ Tok(c) = "e"]

OnBody(c) ==
    /\ HTTPRuns(c) /\ Tok(c) \in BodyToken /\ on_body = "plain"
    /\ req' = AppendBody(c)
    /\ RecordPartMsg(c) /\ Advance(c) /\ Goes(c)
    /\ UNCHANGED <<on_body, astray, ws, handed, handed_ws, freed_use>>

\* OnMPartBody: the multipart parser of this connection gets the bytes, and its
\* MPartBodyProcessor keeps nothing of them.
OnMPartBody(c) ==
    /\ HTTPRuns(c) /\ Tok(c) \in BodyToken /\ on_body = "mpart" /\ req[c].mpart
    /\ req' = [req EXCEPT ![c].complete = @ \/ Tok(c) = "e"]
    /\ Advance(c) /\ Goes(c)
    /\ UNCHANGED <<on_body, astray, ws, over, part, handed, handed_ws, freed_use>>

\* OnMPartBody without one: multipart_parser_execute reads its state.
NullParser(c) == HTTPRuns(c) /\ Tok(c) \in BodyToken /\ on_body = "mpart" /\ ~req[c].mpart
OnMPartBodyNull(c) ==
    /\ NullParser(c) /\ crashed' = TRUE
    /\ UNCHANGED <<script, thread, pos, piece, busy, on_body, req, ws, open, part, over,
                   astray, handed, handed_ws, freed_use>>

\* MPartBodyProcessor::Initialize finds no boundary, Finalize frees what an
\* earlier request made, and OnHeadersComplete fails.
NoBoundary(c) == Tok(c) \in {"g", "h", "f", "up"} /\ Content(c) = "form"

\* The parser stops at what is no request, and takes nothing ever after; a
\* request that was complete in this piece is not handed on.
ParseError(c) ==
    /\ Runs(c) /\ piece[c] > 0 /\ ~ws[c].upgraded
    /\ req[c].error \/ Tok(c) = "x" \/ NoBoundary(c)
    /\ req' = [req EXCEPT ![c].error = TRUE, ![c].mpart = @ /\ (req[c].error \/ Tok(c) = "x")]
    /\ pos' = [pos EXCEPT ![c] = @ + piece[c]]
    /\ Return(c)
    /\ UNCHANGED <<script, thread, on_body, ws, open, part, crashed, over, astray, handed,
                   handed_ws, freed_use>>

-----------------------------------------------------------------------------
\* WebLogic::OnClientClosed, then DestroyConn: the context is freed.
OnClientClosed(c) ==
    /\ open' = [open EXCEPT ![c] = FALSE]
    /\ part' = [part EXCEPT ![c] = FALSE]

\* OnHTTPReq takes the connection off the list.
TakeOffAlways(c) == part' = [part EXCEPT ![c] = FALSE]
TakeOffList(c) == part' = [part EXCEPT ![c] = @ /\ ~req[c].complete]

\* OnHTTPReq: DispatchMsg finds the handler of a whole path, which may close.
Dispatched(c) == req[c].url = {"u1", "u2"}

\* What Parser::Execute does with its request once OnHTTPReq is back: nothing
\* when the handler closed the connection, which freed the parser.
ResetAlways(c, conn_closed) ==
    IF req[c].complete THEN req' = [req EXCEPT ![c] = Reset(@)] /\ Uses(c)
    ELSE UNCHANGED <<req, freed_use>>
ResetUnlessClosed(c, conn_closed) ==
    IF req[c].complete /\ ~conn_closed THEN req' = [req EXCEPT ![c] = Reset(@)] /\ Uses(c)
    ELSE UNCHANGED <<req, freed_use>>

\* The end of Parser::Execute: a complete request is handed on.
ExecuteDone(c) ==
    /\ Runs(c) /\ piece[c] = 0 /\ ~ws[c].upgraded
    /\ \/ UNCHANGED open /\ TakeOffList(c)
       \/ req[c].complete /\ Dispatched(c) /\ OnClientClosed(c)
    /\ handed' = IF req[c].complete /\ Dispatched(c)
                 THEN [handed EXCEPT ![c] = Append(@, req[c].body)] ELSE handed
    /\ ResetUnlessClosed(c, ~open'[c])
    /\ Return(c)
    /\ UNCHANGED <<script, thread, pos, on_body, ws, crashed, over, astray, handed_ws>>

\* CheckUpgrade does not accept the headers, or the handshake cannot be sent.
RefuseUpgrade(c) ==
    /\ OnClientClosed(c) /\ Return(c)
    /\ pos' = [pos EXCEPT ![c] = @ + piece[c]]
    /\ UNCHANGED <<ws, over>>

\* The handshake (MakeHandshake) is sent; the rest goes to the ws parser.
AcceptUpgrade(c) ==
    /\ ws' = [ws EXCEPT ![c].upgraded = TRUE]
    /\ RecordPartMsg(c) /\ Advance(c) /\ UNCHANGED <<busy, open>>

OnUpgrade(c) ==
    /\ HTTPRuns(c) /\ Tok(c) = "up"
    /\ TakeOver(c)
    /\ RefuseUpgrade(c) \/ AcceptUpgrade(c)
    /\ UNCHANGED <<script, thread, req, crashed, handed, handed_ws, freed_use>>

-----------------------------------------------------------------------------
\* Of one frame: OnFrameHeader, then OnFrameBody with OnFrameEnd.
OnFrameHeader(c) ==
    /\ Runs(c) /\ piece[c] > 0 /\ ws[c].upgraded /\ Tok(c) \in FrameHeader
    /\ ws' = [ws EXCEPT ![c].text = @ \/ Tok(c) \in {"t0", "t1"}, ![c].fin = Tok(c) # "t0"]
    /\ RecordPartMsg(c) /\ Advance(c) /\ Goes(c)
    /\ UNCHANGED <<on_body, astray, req, handed, handed_ws, freed_use>>

Payloads(c) == Append(ws[c].payloads, pos[c] + 1)
FrameEnds(c) == Runs(c) /\ piece[c] > 0 /\ ws[c].upgraded /\ Tok(c) = "d"

\* A frame that is not the last of its message is kept.
OnFrame(c) ==
    /\ FrameEnds(c) /\ ~ws[c].fin
    /\ ws' = [ws EXCEPT ![c].payloads = Payloads(c)]
    /\ RecordPartMsg(c) /\ Advance(c) /\ Goes(c)
    /\ UNCHANGED <<on_body, astray, req, handed, handed_ws, freed_use>>

\* OnWSMsg, and what OnFrameEnd keeps.  The message goes to the logics when any
\* frame since the last one was text, and a logic may close; pings are answered,
\* a close frame too, and other messages dropped.  Then websocket_parser_execute
\* sets the state of the parser.
Cleared(c) == [ws EXCEPT ![c].payloads = <<>>, ![c].text = FALSE]

OnWSMsg(c) ==
    /\ FrameEnds(c) /\ ws[c].fin
    /\ handed_ws' = [handed_ws EXCEPT ![c] = Append(@, Payloads(c))]
    /\ \/ /\ ws' = Cleared(c)
          /\ RemoveRecord(c) /\ Advance(c) /\ Goes(c)
       \/ /\ ws[c].text
          /\ OnClientClosed(c) /\ Return(c)
          /\ pos' = [pos EXCEPT ![c] = @ + piece[c]]
          /\ UNCHANGED <<ws, script, thread, crashed>>
    /\ Uses(c)
    /\ UNCHANGED <<on_body, astray, over, req, handed>>

WSDone(c) ==
    /\ Runs(c) /\ piece[c] = 0 /\ ws[c].upgraded
    /\ Return(c)
    /\ UNCHANGED <<script, thread, pos, on_body, req, ws, open, part, crashed, over, astray,
                   handed, handed_ws, freed_use>>

-----------------------------------------------------------------------------
\* PartMsgMgr::OnTimeout, or the peer is gone.
Ends(c) ==
    /\ ~crashed /\ OnClientClosed(c)
    /\ UNCHANGED <<script, thread, pos, piece, busy, on_body, req, ws, crashed, over, astray,
                   handed, handed_ws, freed_use>>
PartMsgTimeout(c) == open[c] /\ Free(c) /\ part[c] /\ Ends(c)
PeerCloses(c) == open[c] /\ Free(c) /\ Ends(c)

Parses(c) ==
    /\ ~crashed
    /\ \/ ParseURL(c) \/ OnHeadersComplete(c) \/ OnBody(c) \/ OnMPartBody(c)
       \/ OnMPartBodyNull(c) \/ ParseError(c) \/ ExecuteDone(c) \/ OnUpgrade(c)
       \/ OnFrameHeader(c) \/ OnFrame(c) \/ OnWSMsg(c) \/ WSDone(c)

Next == \E c \in Conns :
    \/ \E n \in 1..Len(script[c]) : OnRecvClientData(c, n)
    \/ Parses(c) \/ PartMsgTimeout(c) \/ PeerCloses(c)

Spec == Init /\ [][Next]_vars

\* Parsers end and timeouts fire; nothing makes a client send.
FairSpec == Spec /\ \A c \in Conns : WF_vars(Parses(c)) /\ WF_vars(PartMsgTimeout(c))

-----------------------------------------------------------------------------
\* In the middle of a message, as the parser sees it.
Mid(c) ==
    /\ pos[c] > 0 /\ LastTok(c) \notin {"g", "e", "up"}
    /\ LastTok(c) = "d" => ~ws[c].fin

\* Inside a multipart request.
FormBody(c) == \E i \in 1..pos[c] :
    script[c][i] = "f" /\ \A j \in (i + 1)..pos[c] : script[c][j] = "b"

SendsForm(c) == \E i \in 1..Len(script[c]) : script[c][i] = "f"

BodyToks(c) == SelectSeq([i \in 1..pos[c] |-> i], LAMBDA i : script[c][i] \in BodyToken)
WSToks(c) == SelectSeq([i \in 1..pos[c] |-> i], LAMBDA i : script[c][i] = "d")

IsSubSeq(s, t) == \E f \in [1..Len(s) -> 1..Len(t)] :
    /\ \A i, j \in 1..Len(s) : i < j => f[i] < f[j]
    /\ \A i \in 1..Len(s) : s[i] = t[f[i]]

\* A body that is handed on is one or more whole bodies of this connection's
\* requests, none twice and in order, though reads cut and join requests and
\* other connections switch the body callback; the payloads of websocket frames
\* are handed on in order and without a gap.  Of clients that send no multipart
\* request and whose bodies behind the first are one stretch: a read that ends a
\* request and also has the first stretch of the next body hands both on.
BytesInOrder ==
    \A c \in Conns :
        /\ ~SendsForm(c) => IsSubSeq(FlattenSeq(handed[c]), BodyToks(c))
        /\ \A k \in 1..Len(handed[c]) : ~SendsForm(c) /\ handed[c][k] # <<>> =>
              /\ script[c][Head(handed[c][k]) - 1] = "h"
              /\ script[c][handed[c][k][Len(handed[c][k])]] = "e"
        /\ ws[c].upgraded /\ open[c] => FlattenSeq(handed_ws[c]) \o ws[c].payloads = WSToks(c)

\* A connection in the middle of a message is watched by part_msg_mgr_, unless
\* its record went with the message before it, which ended in the same read, or
\* its parser gave up.
WatchedWhilePart ==
    \A c \in Conns : open[c] /\ Free(c) /\ Mid(c) => part[c] \/ over[c] \/ req[c].error

\* A body goes to the multipart parser of its connection exactly when its own
\* headers said so, whatever requests came before, unless another connection's
\* parser switched the shared callback since the request began or it began in a
\* read that ended the one before; a null multipart parser is used only in the
\* first of these cases.  No http parser is used after a handler closed its
\* connection; a websocket parser is, when a logic closes.
CtxUse ==
    /\ \A c \in Conns : HTTPRuns(c) /\ Tok(c) \in BodyToken /\ astray[c] = {} =>
          IF FormBody(c) THEN on_body = "mpart" /\ req[c].mpart ELSE on_body = "plain"
    /\ crashed => \E c \in Conns : NullParser(c) /\ "others" \in astray[c]
    /\ \A c \in freed_use : ws[c].upgraded

\* A client that stops in the middle of a message that is watched, or should be,
\* is closed in the end unless it sends the rest; also when it sends bytes that
\* do not parse.
PartEnds == \A c \in Conns :
    (open[c] /\ Free(c) /\ Mid(c) /\ (part[c] \/ ~(over[c] \/ req[c].error)))
        ~> (~open[c] \/ ~(Mid(c) \/ req[c].error) \/ crashed)
=============================================================================
