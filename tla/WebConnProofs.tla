--------------------------- MODULE WebConnProofs ----------------------------
(***************************************************************************)
(* Proofs about WebConn, for any clients, however what they send is cut    *)
(* into reads, on any number of threads.                                   *)
(***************************************************************************)
EXTENDS WebConn, TLAPS

-----------------------------------------------------------------------------
\* The inductive invariant.

\* The types; what a body, a URL or a payload is made of does not matter.
IsReq(r) ==
    /\ r = [url |-> r.url, content |-> r.content, body |-> r.body, mpart |-> r.mpart,
            complete |-> r.complete, error |-> r.error, url_here |-> r.url_here]
    /\ r.mpart \in BOOLEAN /\ r.complete \in BOOLEAN /\ r.error \in BOOLEAN

IsWS(w) ==
    /\ w = [upgraded |-> w.upgraded, payloads |-> w.payloads, text |-> w.text, fin |-> w.fin]
    /\ w.upgraded \in BOOLEAN

WebTypes ==
    /\ script \in Scripts /\ thread \in [Conns -> Threads]
    /\ pos \in [Conns -> Nat] /\ piece \in [Conns -> Nat]
    /\ \A c \in Conns : pos[c] + piece[c] <= Len(script[c])
    /\ busy \in [Threads -> Conns \cup {Idle}] /\ on_body \in {"plain", "mpart"}
    /\ req = [c \in Conns |-> req[c]] /\ \A c \in Conns : IsReq(req[c])
    /\ ws = [c \in Conns |-> ws[c]] /\ \A c \in Conns : IsWS(ws[c])
    /\ open \in [Conns -> BOOLEAN] /\ part \in [Conns -> BOOLEAN]
    /\ over \in [Conns -> BOOLEAN]

\* A parser runs on an open connection until it returns, having taken all that
\* was read, and one that gave up takes what is read at once and is not upgraded.
RunInv(c) ==
    /\ Runs(c) => open[c]
    /\ ~Runs(c) => piece[c] = 0
    /\ Runs(c) /\ req[c].error => piece[c] > 0
    /\ ws[c].upgraded => ~req[c].error

\* The http parser of a connection can still run.
Parsing(c) == open[c] /\ ~req[c].error /\ ~ws[c].upgraded

\* A request that is complete is handed on at the end of the read, and what was
\* parsed behind it in that read is known to be; the next begins on a new one.
CompleteInv(c) ==
    /\ Parsing(c) /\ req[c].complete /\ Mid(c) => over[c] /\ "joined" \in astray[c]
    /\ Parsing(c) /\ req[c].complete => Runs(c)
    /\ Parsing(c) /\ ~req[c].complete /\ (pos[c] = 0 \/ LastTok(c) \in {"g", "e"}) =>
          req[c].content = "none"

\* The shared callback is set back when a request begins and fits its headers,
\* as far as no other connection switched it since.
CallbackInv(c) ==
    Parsing(c) /\ pos[c] > 0 =>
        /\ LastTok(c) \in {"u1", "u2"} =>
              /\ "others" \notin astray[c] => on_body = "plain"
              /\ astray[c] = {} => req[c].content = "none"
        /\ LastTok(c) \in {"h", "f", "b"} =>
              /\ "others" \notin astray[c] /\ on_body = "mpart" => req[c].mpart
              /\ astray[c] = {} => (on_body = "mpart" <=> FormBody(c))

\* A message that has begun is watched, but for a record that goes with the
\* message before it.
PartInv(c) == open[c] /\ ~req[c].error /\ Mid(c) /\ ~over[c] => part[c]

\* What is known of uses after the free and of the null pointer.
CtxInv ==
    /\ freed_use \subseteq Conns
    /\ \A c \in freed_use : ws[c].upgraded
    /\ crashed => \E c \in Conns : NullParser(c)

ConnInv(c) == RunInv(c) /\ CompleteInv(c) /\ CallbackInv(c) /\ PartInv(c)

WebInv == WebTypes /\ (\A c \in Conns : ConnInv(c)) /\ CtxInv

-----------------------------------------------------------------------------
\* The types.

\* The process starts with fresh contexts.
LEMMA WebTypesInit == ASSUME Init PROVE WebTypes
  <1> USE DEF Init
  <1>1. IsReq(NoReq)
    BY DEF NoReq, IsReq
  <1>2. IsWS(NoWS)
    BY DEF NoWS, IsWS
  <1>3. \A c \in Conns : pos[c] = 0 /\ piece[c] = 0
    OBVIOUS
  <1>4. \A c \in Conns : Len(script[c]) \in Nat
    BY WebAssumption
  <1>5. \A c \in Conns : pos[c] + piece[c] <= Len(script[c])
    BY <1>3, <1>4
  <1> QED
    BY <1>1, <1>2, <1>5 DEF WebTypes

\* A request after some of its fields were set.
LEMMA ReqTypes ==
  ASSUME NEW r, IsReq(r), NEW u, NEW b, NEW h, NEW t, NEW m \in BOOLEAN, NEW done \in BOOLEAN,
         NEW q,
         \/ q = [r EXCEPT !.url_here = FALSE]
         \/ q = [r EXCEPT !.error = TRUE, !.mpart = m]
         \/ q = [r EXCEPT !.url = u, !.url_here = h]
         \/ q = [r EXCEPT !.content = t, !.mpart = m, !.complete = done, !.url_here = FALSE]
         \/ q = [r EXCEPT !.body = b, !.complete = done]
         \/ q = [r EXCEPT !.complete = done]
  PROVE  IsReq(q)
  <1>1. CASE q = [r EXCEPT !.url_here = FALSE]
    BY <1>1 DEF IsReq
  <1>2. CASE q = [r EXCEPT !.error = TRUE, !.mpart = m]
    BY <1>2 DEF IsReq
  <1>3. CASE q = [r EXCEPT !.url = u, !.url_here = h]
    BY <1>3 DEF IsReq
  <1>4. CASE q = [r EXCEPT !.content = t, !.mpart = m, !.complete = done, !.url_here = FALSE]
    BY <1>4 DEF IsReq
  <1>5. CASE q = [r EXCEPT !.body = b, !.complete = done]
    BY <1>5 DEF IsReq
  <1>6. CASE q = [r EXCEPT !.complete = done]
    BY <1>6 DEF IsReq
  <1> QED
    BY <1>1, <1>2, <1>3, <1>4, <1>5, <1>6

-----------------------------------------------------------------------------
\* Steps of one connection.

\* What a step of connection c does to another, d: it may change the body
\* callback all share, and that is then on d's account.
Apart(d) ==
    /\ pos'[d] = pos[d] /\ piece'[d] = piece[d] /\ req'[d] = req[d] /\ ws'[d] = ws[d]
    /\ open'[d] = open[d] /\ part'[d] = part[d] /\ over'[d] = over[d]
    /\ (busy'[thread[d]] = d) <=> (busy[thread[d]] = d)
    /\ astray[d] \subseteq astray'[d]
    /\ "others" \in astray'[d] \/ (on_body' = on_body /\ astray'[d] = astray[d])

Local(c) ==
    /\ WebTypes'
    /\ script' = script /\ thread' = thread
    /\ \A d \in Conns \ {c} : Apart(d)

\* The invariant of another connection holds on.
LEMMA OthersKeep ==
  ASSUME WebInv, NEW c \in Conns, Local(c), NEW d \in Conns \ {c}
  PROVE  ConnInv(d)'
  <1>1. RunInv(d) /\ CompleteInv(d) /\ CallbackInv(d) /\ PartInv(d)
    BY DEF WebInv, ConnInv
  <1>2. /\ script' = script /\ thread' = thread
        /\ pos'[d] = pos[d] /\ piece'[d] = piece[d] /\ req'[d] = req[d] /\ ws'[d] = ws[d]
        /\ open'[d] = open[d] /\ part'[d] = part[d] /\ over'[d] = over[d]
        /\ (busy'[thread[d]] = d) <=> (busy[thread[d]] = d)
    BY DEF Local, Apart
  <1>3. /\ astray[d] \subseteq astray'[d]
        /\ "others" \in astray'[d] \/ (on_body' = on_body /\ astray'[d] = astray[d])
    BY DEF Local, Apart
  <1>4. Runs(d)' <=> Runs(d)
    BY <1>2 DEF Runs
  <1>5. Parsing(d)' <=> Parsing(d)
    BY <1>2 DEF Parsing
  <1>6. (Mid(d)' <=> Mid(d)) /\ LastTok(d)' = LastTok(d)
    BY <1>2 DEF Mid, LastTok
  <1>7. FormBody(d)' <=> FormBody(d)
    BY <1>2 DEF FormBody
  <1>8. RunInv(d)'
    BY <1>1, <1>2, <1>4 DEF RunInv
  <1>9. CompleteInv(d)'
    <2>1. (Parsing(d) /\ req[d].complete /\ Mid(d) => over[d] /\ "joined" \in astray[d])'
      BY <1>1, <1>2, <1>3, <1>5, <1>6 DEF CompleteInv
    <2>2. (Parsing(d) /\ req[d].complete => Runs(d))'
      BY <1>1, <1>2, <1>4, <1>5 DEF CompleteInv
    <2>3. (Parsing(d) /\ ~req[d].complete /\ (pos[d] = 0 \/ LastTok(d) \in {"g", "e"}) =>
             req[d].content = "none")'
      BY <1>1, <1>2, <1>5, <1>6 DEF CompleteInv
    <2> QED
      BY <2>1, <2>2, <2>3 DEF CompleteInv
  <1>10. CallbackInv(d)'
    <2>1. CASE "others" \in astray'[d]
      BY <2>1 DEF CallbackInv
    <2>2. CASE on_body' = on_body /\ astray'[d] = astray[d]
      BY <1>1, <1>2, <1>5, <1>6, <1>7, <2>2 DEF CallbackInv
    <2> QED
      BY <1>3, <2>1, <2>2
  <1>11. PartInv(d)'
    BY <1>1, <1>2, <1>6 DEF PartInv
  <1> QED
    BY <1>8, <1>9, <1>10, <1>11 DEF ConnInv

\* So it is enough to look at the connection that steps.
LEMMA OneKeeps ==
  ASSUME WebInv, NEW c \in Conns, Local(c), ConnInv(c)', CtxInv'
  PROVE  WebInv'
  <1>1. \A d \in Conns : ConnInv(d)'
    BY OthersKeep
  <1>2. WebTypes'
    BY DEF Local
  <1> QED
    BY <1>1, <1>2 DEF WebInv

\* An upgraded connection stays so, and only such ones are used when freed.
LEMMA CtxKeeps ==
  ASSUME WebInv, ~crashed',
         \A d \in freed_use' : d \in freed_use \/ (d \in Conns /\ ws'[d].upgraded),
         \A d \in Conns : ws[d].upgraded => ws'[d].upgraded
  PROVE  CtxInv'
  <1>1. freed_use \subseteq Conns /\ \A d \in freed_use : ws[d].upgraded
    BY DEF WebInv, CtxInv
  <1>2. \A d \in freed_use' : d \in Conns /\ ws'[d].upgraded
    BY <1>1
  <1> QED
    BY <1>2 DEF CtxInv

-----------------------------------------------------------------------------
\* The next token.

\* There is a next token while a piece is left, and it follows the last one as
\* the parsers call back.
LEMMA NextTok ==
  ASSUME WebTypes, NEW c \in Conns, piece[c] > 0
  PROVE  /\ pos[c] \in Nat /\ pos[c] + 1 \in 1..Len(script[c])
         /\ Tok(c) = "u1" => pos[c] = 0 \/ LastTok(c) \in {"g", "e"}
         /\ Tok(c) = "u2" => pos[c] > 0 /\ LastTok(c) = "u1"
         /\ Tok(c) \in {"g", "h", "f", "up"} => pos[c] > 0 /\ LastTok(c) = "u2"
         /\ Tok(c) \in BodyToken => pos[c] > 0 /\ LastTok(c) \in {"h", "f", "b"}
  <1>1. PICK s : s = script[c]
    OBVIOUS
  <1>2. PICK n : n = pos[c]
    OBVIOUS
  <1>3. script \in Scripts /\ n \in Nat /\ piece[c] \in Nat /\ n + piece[c] <= Len(s)
    BY <1>1, <1>2 DEF WebTypes
  <1>4. Len(s) \in Nat
    BY <1>1, <1>3, WebAssumption
  <1>5. n + 1 \in 1..Len(s)
    BY <1>3, <1>4
  <1>6. InOrder(s)
    BY <1>1, <1>3, ParserAssumption
  <1>7. (n + 1) - 1 = n /\ (n + 1 > 1 => n > 0) /\ (n + 1 = 1 => n = 0)
    BY <1>3
  <1>8. Tok(c) = s[n + 1] /\ LastTok(c) = s[n]
    BY <1>1, <1>2 DEF Tok, LastTok
  <1>9. /\ s[n + 1] = "u1" => n + 1 = 1 \/ s[(n + 1) - 1] \in {"g", "e"}
        /\ s[n + 1] = "u2" => n + 1 > 1 /\ s[(n + 1) - 1] = "u1"
        /\ s[n + 1] \in {"g", "h", "f", "up"} => n + 1 > 1 /\ s[(n + 1) - 1] = "u2"
        /\ s[n + 1] \in BodyToken => n + 1 > 1 /\ s[(n + 1) - 1] \in {"h", "f", "b"}
    BY <1>5, <1>6 DEF InOrder
  <1>10. Tok(c) = "u1" => n = 0 \/ LastTok(c) \in {"g", "e"}
    BY <1>7, <1>8, <1>9
  <1>11. Tok(c) = "u2" => n > 0 /\ LastTok(c) = "u1"
    BY <1>7, <1>8, <1>9
  <1>12. Tok(c) \in {"g", "h", "f", "up"} => n > 0 /\ LastTok(c) = "u2"
    BY <1>7, <1>8, <1>9
  <1>13. Tok(c) \in BodyToken => n > 0 /\ LastTok(c) \in {"h", "f", "b"}
    BY <1>7, <1>8, <1>9
  <1> QED
    BY <1>1, <1>2, <1>3, <1>5, <1>10, <1>11, <1>12, <1>13

\* A token is parsed.
LEMMA Advanced ==
  ASSUME WebTypes, NEW c \in Conns, piece[c] > 0, Advance(c), script' = script
  PROVE  /\ pos' \in [Conns -> Nat] /\ piece' \in [Conns -> Nat]
         /\ \A d \in Conns : pos'[d] + piece'[d] <= Len(script[d])
         /\ pos'[c] = pos[c] + 1 /\ piece'[c] = piece[c] - 1
         /\ \A d \in Conns \ {c} : pos'[d] = pos[d] /\ piece'[d] = piece[d]
         /\ LastTok(c)' = Tok(c)
  <1>1. /\ pos' = [pos EXCEPT ![c] = @ + 1] /\ piece' = [piece EXCEPT ![c] = @ - 1]
        /\ pos \in [Conns -> Nat] /\ piece \in [Conns -> Nat]
    BY DEF Advance, WebTypes
  <1>2. pos'[c] = pos[c] + 1 /\ piece'[c] = piece[c] - 1
    BY <1>1
  <1>3. \A d \in Conns \ {c} : pos'[d] = pos[d] /\ piece'[d] = piece[d]
    BY <1>1
  <1>4. pos' \in [Conns -> Nat] /\ piece' \in [Conns -> Nat]
    BY <1>1
  <1>5. pos'[c] + piece'[c] <= Len(script[c])
    <2>1. pos[c] + piece[c] <= Len(script[c]) /\ Len(script[c]) \in Nat
          /\ pos[c] \in Nat /\ piece[c] \in Nat
      BY <1>1, WebAssumption DEF WebTypes
    <2> QED
      BY <1>2, <2>1
  <1>6. \A d \in Conns \ {c} : pos'[d] + piece'[d] <= Len(script[d])
    BY <1>3 DEF WebTypes
  <1>7. LastTok(c)' = Tok(c)
    BY <1>2 DEF LastTok, Tok
  <1> QED
    BY <1>2, <1>3, <1>4, <1>5, <1>6, <1>7

\* Whether the connection is inside a multipart request after one more token.
LEMMA FormBodyNext ==
  ASSUME WebTypes, NEW c \in Conns, script' = script, pos'[c] = pos[c] + 1
  PROVE  /\ Tok(c) = "f" => FormBody(c)'
         /\ Tok(c) = "h" => ~FormBody(c)'
         /\ Tok(c) = "b" => (FormBody(c)' <=> FormBody(c))
  <1>1. PICK s : s = script[c]
    OBVIOUS
  <1>2. PICK n \in Nat : n = pos[c]
    BY DEF WebTypes
  <1>3. Tok(c) = s[n + 1]
    BY <1>1, <1>2 DEF Tok
  <1>4. FormBody(c) <=> \E i \in 1..n : s[i] = "f" /\ \A j \in (i + 1)..n : s[j] = "b"
    BY <1>1, <1>2 DEF FormBody
  <1>5. FormBody(c)' <=> \E i \in 1..(n + 1) : s[i] = "f" /\ \A j \in (i + 1)..(n + 1) : s[j] = "b"
    BY <1>1, <1>2 DEF FormBody
  <1>6. ASSUME s[n + 1] = "f" PROVE FormBody(c)'
    <2>1. n + 1 \in 1..(n + 1) /\ \A j \in ((n + 1) + 1)..(n + 1) : s[j] = "b"
      OBVIOUS
    <2> QED
      BY <1>5, <1>6, <2>1
  <1>7. ASSUME s[n + 1] # "f",
               NEW i \in 1..(n + 1), s[i] = "f", \A j \in (i + 1)..(n + 1) : s[j] = "b"
        PROVE  s[n + 1] = "b" /\ FormBody(c)
    <2>1. i # n + 1
      BY <1>7
    <2>2. i \in 1..n
      BY <2>1
    <2>3. n + 1 \in (i + 1)..(n + 1) /\ \A j \in (i + 1)..n : j \in (i + 1)..(n + 1)
      BY <2>2
    <2>4. s[n + 1] = "b" /\ \A j \in (i + 1)..n : s[j] = "b"
      BY <1>7, <2>3
    <2> QED
      BY <1>4, <1>7, <2>2, <2>4
  <1>8. ASSUME s[n + 1] = "b", FormBody(c) PROVE FormBody(c)'
    <2>1. PICK i \in 1..n : s[i] = "f" /\ \A j \in (i + 1)..n : s[j] = "b"
      BY <1>4, <1>8
    <2>2. \A j \in (i + 1)..(n + 1) : j \in (i + 1)..n \/ j = n + 1
      OBVIOUS
    <2>3. i \in 1..(n + 1) /\ \A j \in (i + 1)..(n + 1) : s[j] = "b"
      BY <1>8, <2>1, <2>2
    <2> QED
      BY <1>5, <2>1, <2>3
  <1>9. Tok(c) = "h" => ~FormBody(c)'
    BY <1>3, <1>5, <1>7
  <1>10. Tok(c) = "b" => (FormBody(c)' <=> FormBody(c))
    BY <1>3, <1>5, <1>7, <1>8
  <1> QED
    BY <1>3, <1>6, <1>9, <1>10

\* The parser of c goes on: nothing of the others changes.
LEMMA GoesOn ==
  ASSUME WebTypes, NEW c \in Conns, piece[c] > 0, Advance(c), Goes(c),
         NEW q, IsReq(q), req' = [req EXCEPT ![c] = q],
         NEW w, IsWS(w), ws' = [ws EXCEPT ![c] = w],
         NEW p \in BOOLEAN, part' = [part EXCEPT ![c] = p],
         NEW o \in BOOLEAN, over' = [over EXCEPT ![c] = o],
         on_body' \in {"plain", "mpart"},
         \A d \in Conns \ {c} :
            /\ astray[d] \subseteq astray'[d]
            /\ "others" \in astray'[d] \/ (on_body' = on_body /\ astray'[d] = astray[d])
  PROVE  Local(c) /\ req'[c] = q /\ ws'[c] = w /\ part'[c] = p /\ over'[c] = o
  <1>1. script' = script /\ thread' = thread /\ busy' = busy /\ open' = open
    BY DEF Goes
  <1>2. /\ pos' \in [Conns -> Nat] /\ piece' \in [Conns -> Nat]
        /\ \A d \in Conns : pos'[d] + piece'[d] <= Len(script'[d])
        /\ \A d \in Conns \ {c} : pos'[d] = pos[d] /\ piece'[d] = piece[d]
    BY <1>1, Advanced
  <1>3. /\ req = [d \in Conns |-> req[d]] /\ (\A d \in Conns : IsReq(req[d]))
        /\ ws = [d \in Conns |-> ws[d]] /\ (\A d \in Conns : IsWS(ws[d]))
    BY DEF WebTypes
  <1>4. /\ req' = [d \in Conns |-> req'[d]] /\ req'[c] = q
        /\ \A d \in Conns \ {c} : req'[d] = req[d]
    BY <1>3
  <1>5. /\ ws' = [d \in Conns |-> ws'[d]] /\ ws'[c] = w
        /\ \A d \in Conns \ {c} : ws'[d] = ws[d]
    BY <1>3
  <1>6. \A d \in Conns : IsReq(req'[d])
    BY <1>3, <1>4
  <1>7. \A d \in Conns : IsWS(ws'[d])
    BY <1>3, <1>5
  <1>8. part' \in [Conns -> BOOLEAN] /\ part'[c] = p /\ \A d \in Conns \ {c} : part'[d] = part[d]
    BY DEF WebTypes
  <1>9. over' \in [Conns -> BOOLEAN] /\ over'[c] = o /\ \A d \in Conns \ {c} : over'[d] = over[d]
    BY DEF WebTypes
  <1>10. WebTypes'
    BY <1>1, <1>2, <1>4, <1>5, <1>6, <1>7, <1>8, <1>9 DEF WebTypes
  <1> QED
    BY <1>1, <1>2, <1>4, <1>5, <1>8, <1>9, <1>10 DEF Local, Apart

-----------------------------------------------------------------------------
\* The callbacks of the http parser.

\* What setting the shared callback does.
LEMMA BodySet ==
  ASSUME NEW c \in Conns, NEW callback, NEW own, SetOnBody(c, callback, own)
  PROVE  /\ on_body' = callback /\ astray'[c] = own
         /\ \A d \in Conns \ {c} :
               /\ astray[d] \subseteq astray'[d]
               /\ "others" \in astray'[d] \/ (on_body' = on_body /\ astray'[d] = astray[d])
  BY DEF SetOnBody

\* What a callback of the http parser does to the body callback of its own
\* connection, and to its record.
CallbackStep(c) ==
    \/ /\ Tok(c) = "u1" /\ on_body' = "plain" /\ astray'[c] = Begun(c)
       /\ req'[c].content = req[c].content
    \/ /\ Tok(c) \in {"u2", "b", "e"} /\ on_body' = on_body /\ astray'[c] = astray[c]
       /\ req'[c].content = req[c].content /\ (req'[c].mpart <=> req[c].mpart)
    \/ /\ Tok(c) \in {"g", "h", "f"} /\ astray'[c] = astray[c]
       /\ on_body' = IF Content(c) = "form" THEN "mpart" ELSE on_body
       /\ req'[c].mpart <=> (req[c].mpart \/ Content(c) = "form")

RecordStep(c) ==
    \/ part'[c] /\ (over'[c] <=> req[c].complete)
    \/ Tok(c) \in BodyToken /\ (part'[c] <=> part[c]) /\ (over'[c] <=> over[c])

HTTPStep(c) ==
    /\ HTTPRuns(c) /\ Advance(c) /\ Goes(c) /\ Local(c)
    /\ Tok(c) \in {"u1", "u2", "g", "h", "f", "b", "e"}
    /\ ~req'[c].error /\ ws'[c] = ws[c]
    /\ req'[c].complete <=> req[c].complete \/ Tok(c) \in {"g", "e"}
    /\ CallbackStep(c) /\ RecordStep(c)

\* It keeps the invariant of the connection.
LEMMA HTTPStepKeeps ==
  ASSUME WebInv, NEW c \in Conns, HTTPStep(c)
  PROVE  ConnInv(c)'
  <1>1. PICK tok : tok = Tok(c)
    OBVIOUS
  <1>2. PICK last : last = LastTok(c)
    OBVIOUS
  <1>3. PICK n : n = pos[c]
    OBVIOUS
  <1>4. /\ Runs(c) /\ piece[c] > 0 /\ ~ws[c].upgraded /\ ~req[c].error
        /\ script' = script /\ thread' = thread /\ busy' = busy /\ open' = open
        /\ tok \in {"u1", "u2", "g", "h", "f", "b", "e"}
    BY <1>1 DEF HTTPStep, HTTPRuns, Goes
  <1>5. WebTypes /\ RunInv(c) /\ CompleteInv(c) /\ CallbackInv(c) /\ PartInv(c)
    BY DEF WebInv, ConnInv
  <1>6. /\ pos'[c] = n + 1 /\ piece'[c] = piece[c] - 1 /\ LastTok(c)' = tok
        /\ n \in Nat /\ n + 1 \in 1..Len(script[c])
    BY <1>1, <1>3, <1>4, <1>5, Advanced, NextTok DEF HTTPStep
  <1>7. /\ tok = "u1" => n = 0 \/ last \in {"g", "e"}
        /\ tok = "u2" => n > 0 /\ last = "u1"
        /\ tok \in {"g", "h", "f", "up"} => n > 0 /\ last = "u2"
        /\ tok \in BodyToken => n > 0 /\ last \in {"h", "f", "b"}
    BY <1>1, <1>2, <1>3, <1>4, <1>5, NextTok
  <1>8. Runs(c)' /\ open[c] /\ open'[c] /\ Parsing(c) /\ Parsing(c)'
    <2>1. Runs(c)'
      BY <1>4 DEF Runs
    <2>2. open[c] /\ open'[c]
      BY <1>4, <1>5 DEF RunInv
    <2>3. Parsing(c)
      BY <1>4, <2>2 DEF Parsing
    <2>4. ~req'[c].error /\ ~ws'[c].upgraded
      BY <1>4 DEF HTTPStep
    <2> QED
      BY <2>1, <2>2, <2>3, <2>4 DEF Parsing
  <1>9. RunInv(c)'
    BY <1>8 DEF RunInv, HTTPStep
  <1>10. Mid(c)' => tok \notin {"g", "e"}
    BY <1>6 DEF Mid
  <1>11. tok \notin {"u1", "g", "e"} => Mid(c)
    <2>1. ASSUME tok \notin {"u1", "g", "e"} PROVE n > 0 /\ last \in {"u1", "u2", "h", "f", "b"}
      BY <1>4, <1>7, <2>1 DEF BodyToken
    <2> QED
      BY <1>2, <1>3, <2>1 DEF Mid
  <1>12. PICK done : done <=> req[c].complete
    OBVIOUS
  <1>13. req'[c].complete <=> (done \/ tok \in {"g", "e"})
    BY <1>1, <1>12 DEF HTTPStep
  <1>14. CallbackStep(c) /\ RecordStep(c)
    BY DEF HTTPStep
  <1>15. /\ done /\ Mid(c) => over[c] /\ "joined" \in astray[c]
         /\ ~done /\ (n = 0 \/ last \in {"g", "e"}) => req[c].content = "none"
    BY <1>2, <1>3, <1>5, <1>8, <1>12 DEF CompleteInv
  <1>16. CompleteInv(c)'
    <2>1. ASSUME req'[c].complete, Mid(c)' PROVE over'[c] /\ "joined" \in astray'[c]
      <3>1. tok \notin {"g", "e"} /\ done
        BY <1>10, <1>13, <2>1
      <3>2. tok = "u1" \/ (over[c] /\ "joined" \in astray[c])
        BY <1>11, <1>15, <3>1
      <3>3. over'[c]
        <4>1. CASE part'[c] /\ (over'[c] <=> req[c].complete)
          BY <1>12, <3>1, <4>1
        <4>2. CASE Tok(c) \in BodyToken /\ (part'[c] <=> part[c]) /\ (over'[c] <=> over[c])
          BY <1>1, <3>2, <4>2 DEF BodyToken
        <4> QED
          BY <1>14, <4>1, <4>2 DEF RecordStep
      <3>4. "joined" \in astray'[c]
        <4>1. CASE tok = "u1"
          <5>1. astray'[c] = Begun(c)
            BY <1>1, <1>14, <4>1 DEF CallbackStep
          <5>2. Begun(c) = {"joined"}
            BY <1>12, <3>1 DEF Begun
          <5> QED
            BY <5>1, <5>2
        <4>2. CASE tok # "u1"
          <5>1. astray'[c] = astray[c]
            BY <1>1, <1>14, <4>2 DEF CallbackStep
          <5> QED
            BY <3>2, <4>2, <5>1
        <4> QED
          BY <4>1, <4>2
      <3> QED
        BY <3>3, <3>4
    <2>2. pos'[c] # 0 /\ (LastTok(c)' \in {"g", "e"} => req'[c].complete)
      BY <1>6, <1>13
    <2> QED
      BY <1>8, <2>1, <2>2 DEF CompleteInv
  <1>17. /\ n > 0 /\ last \in {"u1", "u2"} =>
               /\ "others" \notin astray[c] => on_body = "plain"
               /\ astray[c] = {} => req[c].content = "none"
         /\ n > 0 /\ last \in {"h", "f", "b"} =>
               /\ "others" \notin astray[c] /\ on_body = "mpart" => req[c].mpart
               /\ astray[c] = {} => (on_body = "mpart" <=> FormBody(c))
    BY <1>2, <1>3, <1>5, <1>8 DEF CallbackInv
  <1>18. /\ tok = "f" => FormBody(c)'
         /\ tok = "h" => ~FormBody(c)'
         /\ tok = "b" => (FormBody(c)' <=> FormBody(c))
    BY <1>1, <1>3, <1>4, <1>5, <1>6, FormBodyNext
  <1>19. CallbackInv(c)'
    <2>1. CASE tok = "u1"
      <3>1. on_body' = "plain" /\ astray'[c] = Begun(c) /\ req'[c].content = req[c].content
        BY <1>1, <1>14, <2>1 DEF CallbackStep
      <3>2. astray'[c] = {} => ~done
        BY <1>12, <3>1 DEF Begun
      <3>3. astray'[c] = {} => req'[c].content = "none"
        BY <1>7, <1>15, <2>1, <3>1, <3>2
      <3> QED
        BY <1>6, <2>1, <3>1, <3>3 DEF CallbackInv
    <2>2. CASE tok \in {"u2", "b", "e"}
      <3>1. /\ on_body' = on_body /\ astray'[c] = astray[c]
            /\ req'[c].content = req[c].content /\ (req'[c].mpart <=> req[c].mpart)
        BY <1>1, <1>14, <2>2 DEF CallbackStep
      <3>2. CASE tok = "u2"
        BY <1>6, <1>7, <1>17, <3>1, <3>2 DEF CallbackInv
      <3>3. CASE tok = "b"
        <4>1. n > 0 /\ last \in {"h", "f", "b"}
          BY <1>7, <3>3 DEF BodyToken
        <4>2. "others" \notin astray'[c] /\ on_body' = "mpart" => req'[c].mpart
          BY <1>17, <3>1, <4>1
        <4>3. astray'[c] = {} => (on_body' = "mpart" <=> FormBody(c)')
          BY <1>17, <1>18, <3>1, <3>3, <4>1
        <4> QED
          BY <1>6, <3>3, <4>2, <4>3 DEF CallbackInv
      <3>4. CASE tok = "e"
        BY <1>6, <3>4 DEF CallbackInv
      <3> QED
        BY <2>2, <3>2, <3>3, <3>4
    <2>3. CASE tok \in {"g", "h", "f"}
      <3>1. /\ astray'[c] = astray[c]
            /\ on_body' = IF Content(c) = "form" THEN "mpart" ELSE on_body
            /\ req'[c].mpart <=> (req[c].mpart \/ Content(c) = "form")
        BY <1>1, <1>14, <2>3 DEF CallbackStep
      <3>2. n > 0 /\ last = "u2"
        BY <1>7, <2>3
      <3>3. /\ "others" \notin astray[c] => on_body = "plain"
            /\ astray[c] = {} => req[c].content = "none"
        BY <1>17, <3>2
      <3>4. "others" \notin astray'[c] /\ on_body' = "mpart" => req'[c].mpart
        <4>1. SUFFICES ASSUME "others" \notin astray'[c], on_body' = "mpart" PROVE req'[c].mpart
          OBVIOUS
        <4>2. Content(c) = "form"
          BY <3>1, <3>3, <4>1
        <4> QED
          BY <3>1, <4>2
      <3>5. astray'[c] = {} => (on_body' = "mpart" <=> Content(c) = "form")
        BY <3>1, <3>3
      <3>6. astray'[c] = {} => (Content(c) = "form" <=> tok = "f")
        BY <1>1, <3>1, <3>3 DEF Content
      <3>7. CASE tok = "g"
        BY <1>6, <3>7 DEF CallbackInv
      <3>8. CASE tok \in {"h", "f"}
        <4>1. FormBody(c)' <=> tok = "f"
          BY <1>18, <3>8
        <4>2. astray'[c] = {} => (on_body' = "mpart" <=> FormBody(c)')
          BY <3>5, <3>6, <4>1
        <4> QED
          BY <1>6, <3>4, <3>8, <4>2 DEF CallbackInv
      <3> QED
        BY <2>3, <3>7, <3>8
    <2> QED
      BY <1>4, <2>1, <2>2, <2>3
  <1>20. PartInv(c)'
    <2>1. SUFFICES ASSUME Mid(c)', ~over'[c] PROVE part'[c]
      BY DEF PartInv
    <2>2. CASE Tok(c) \in BodyToken /\ (part'[c] <=> part[c]) /\ (over'[c] <=> over[c])
      <3>1. tok \notin {"u1", "g", "e"}
        BY <1>1, <1>10, <2>1, <2>2 DEF BodyToken
      <3>2. Mid(c)
        BY <1>11, <3>1
      <3> QED
        BY <1>4, <1>5, <1>8, <2>1, <2>2, <3>2 DEF PartInv
    <2> QED
      BY <1>14, <2>2 DEF RecordStep
  <1> QED
    BY <1>9, <1>16, <1>19, <1>20 DEF ConnInv

\* The record of a part message, and what goes with it.
LEMMA Recorded ==
  ASSUME WebTypes, NEW c \in Conns, RecordPartMsg(c)
  PROVE  \E o \in BOOLEAN : /\ part' = [part EXCEPT ![c] = TRUE] /\ over' = [over EXCEPT ![c] = o]
                            /\ o <=> (req[c].complete /\ ~ws[c].upgraded)
  <1>1. PICK o : o = Behind(c)
    OBVIOUS
  <1>2. IsReq(req[c]) /\ IsWS(ws[c])
    BY DEF WebTypes
  <1>3. o \in BOOLEAN
    BY <1>1, <1>2 DEF Behind, IsReq, IsWS
  <1>4. o <=> (req[c].complete /\ ~ws[c].upgraded)
    BY <1>1 DEF Behind
  <1>5. part' = [part EXCEPT ![c] = TRUE] /\ over' = [over EXCEPT ![c] = o]
    BY <1>1 DEF RecordPartMsg
  <1> QED
    BY <1>3, <1>4, <1>5

\* Half of a URL.
LEMMA ParseURLKeeps == ASSUME WebInv, ~crashed, NEW c \in Conns, ParseURL(c) PROVE WebInv'
  <1>1. WebTypes /\ HTTPRuns(c) /\ piece[c] > 0 /\ Advance(c) /\ Goes(c) /\ RecordPartMsg(c)
    BY DEF ParseURL, HTTPRuns, WebInv
  <1>2. PICK q : q = [req[c] EXCEPT !.url = IF req[c].url_here THEN @ \cup {Tok(c)} ELSE {Tok(c)},
                                    !.url_here = TRUE]
    OBVIOUS
  <1>3. IsReq(req[c]) /\ req = [d \in Conns |-> req[d]] /\ IsWS(ws[c]) /\ ws = [d \in Conns |-> ws[d]]
    BY <1>1 DEF WebTypes
  <1>4. req' = [req EXCEPT ![c] = q]
    BY <1>2, <1>3 DEF ParseURL, OnURL
  <1>5. IsReq(q) /\ q.error = req[c].error /\ q.mpart = req[c].mpart /\ q.complete = req[c].complete
        /\ q.content = req[c].content
    <2>1. PICK u : u = IF req[c].url_here THEN req[c].url \cup {Tok(c)} ELSE {Tok(c)}
      OBVIOUS
    <2>2. q = [req[c] EXCEPT !.url = u, !.url_here = TRUE]
      BY <1>2, <2>1
    <2> QED
      BY <1>3, <2>2 DEF IsReq
  <1>6. ws' = [ws EXCEPT ![c] = ws[c]]
    BY <1>3 DEF ParseURL
  <1>7. PICK o \in BOOLEAN : /\ part' = [part EXCEPT ![c] = TRUE] /\ over' = [over EXCEPT ![c] = o]
                             /\ o <=> (req[c].complete /\ ~ws[c].upgraded)
    BY <1>1, Recorded
  <1>8. Tok(c) \in {"u1", "u2"} /\ ~req[c].error /\ ~ws[c].upgraded
    BY DEF ParseURL, HTTPRuns
  <1>9. /\ Tok(c) = "u1" => on_body' = "plain" /\ astray'[c] = Begun(c)
        /\ Tok(c) # "u1" => on_body' = on_body /\ astray'[c] = astray[c]
        /\ \A d \in Conns \ {c} :
              /\ astray[d] \subseteq astray'[d]
              /\ "others" \in astray'[d] \/ (on_body' = on_body /\ astray'[d] = astray[d])
    <2>1. CASE Tok(c) = "u1"
      <3>1. SetOnBody(c, "plain", Begun(c))
        BY <2>1 DEF ParseURL, OnMessageBegin
      <3> QED
        BY <2>1, <3>1, BodySet
    <2>2. CASE Tok(c) # "u1"
      <3>1. on_body' = on_body /\ astray' = astray
        BY <2>2 DEF ParseURL
      <3> QED
        BY <2>2, <3>1
    <2> QED
      BY <2>1, <2>2
  <1>10. on_body' \in {"plain", "mpart"}
    BY <1>1, <1>9 DEF WebTypes
  <1>11. Local(c) /\ req'[c] = q /\ ws'[c] = ws[c] /\ part'[c] = TRUE /\ over'[c] = o
    BY <1>1, <1>3, <1>4, <1>5, <1>6, <1>7, <1>9, <1>10, GoesOn
  <1>12. CallbackStep(c)
    BY <1>5, <1>8, <1>9, <1>11 DEF CallbackStep
  <1>13. RecordStep(c)
    BY <1>7, <1>8, <1>11 DEF RecordStep
  <1>14. HTTPStep(c)
    <2>1. req'[c].complete <=> req[c].complete \/ Tok(c) \in {"g", "e"}
      BY <1>5, <1>8, <1>11
    <2>2. ~req'[c].error /\ Tok(c) \in {"u1", "u2", "g", "h", "f", "b", "e"}
      BY <1>5, <1>8, <1>11
    <2> QED
      BY <1>1, <1>11, <1>12, <1>13, <2>1, <2>2 DEF HTTPStep
  <1>15. CtxInv'
    <2>1. freed_use' = freed_use /\ ws' = ws /\ ~crashed'
      BY <1>1 DEF ParseURL, Goes
    <2> QED
      BY <2>1, CtxKeeps
  <1> QED
    BY <1>11, <1>14, <1>15, HTTPStepKeeps, OneKeeps

\* Whether a multipart parser takes over.
LEMMA TakenOver ==
  ASSUME WebTypes, NEW c \in Conns, TakeOver(c)
  PROVE  /\ on_body' = IF Content(c) = "form" THEN "mpart" ELSE on_body
         /\ on_body' \in {"plain", "mpart"}
         /\ astray'[c] = astray[c]
         /\ \A d \in Conns \ {c} :
               /\ astray[d] \subseteq astray'[d]
               /\ "others" \in astray'[d] \/ (on_body' = on_body /\ astray'[d] = astray[d])
  <1>1. CASE Content(c) = "form"
    <2>1. SetOnBody(c, "mpart", astray[c])
      BY <1>1 DEF TakeOver
    <2> QED
      BY <1>1, <2>1, BodySet
  <1>2. CASE Content(c) # "form"
    <2>1. on_body' = on_body /\ astray' = astray
      BY <1>2 DEF TakeOver
    <2> QED
      BY <1>2, <2>1 DEF WebTypes
  <1> QED
    BY <1>1, <1>2

\* The headers; those of a multipart request switch the body callback.
LEMMA HeadersKeep == ASSUME WebInv, ~crashed, NEW c \in Conns, OnHeadersComplete(c) PROVE WebInv'
  <1>1. WebTypes /\ HTTPRuns(c) /\ piece[c] > 0 /\ Advance(c) /\ Goes(c) /\ RecordPartMsg(c)
        /\ TakeOver(c)
    BY DEF OnHeadersComplete, HTTPRuns, WebInv
  <1>2. PICK m, done, t : /\ m = (req[c].mpart \/ Content(c) = "form")
                          /\ done = (req[c].complete \/ Tok(c) = "g") /\ t = Content(c)
    OBVIOUS
  <1>3. PICK q : q = [req[c] EXCEPT !.content = t, !.mpart = m, !.complete = done, !.url_here = FALSE]
    OBVIOUS
  <1>4. IsReq(req[c]) /\ req = [d \in Conns |-> req[d]] /\ IsWS(ws[c]) /\ ws = [d \in Conns |-> ws[d]]
    BY <1>1 DEF WebTypes
  <1>5. req' = [req EXCEPT ![c] = q]
    BY <1>2, <1>3, <1>4 DEF OnHeadersComplete
  <1>6. m \in BOOLEAN /\ done \in BOOLEAN
    BY <1>2, <1>4 DEF IsReq
  <1>7. IsReq(q) /\ q.error = req[c].error /\ q.mpart = m /\ q.complete = done
    BY <1>3, <1>4, <1>6 DEF IsReq
  <1>8. ws' = [ws EXCEPT ![c] = ws[c]]
    BY <1>4 DEF OnHeadersComplete
  <1>9. PICK o \in BOOLEAN : /\ part' = [part EXCEPT ![c] = TRUE] /\ over' = [over EXCEPT ![c] = o]
                             /\ o <=> (req[c].complete /\ ~ws[c].upgraded)
    BY <1>1, Recorded
  <1>10. /\ on_body' = IF Content(c) = "form" THEN "mpart" ELSE on_body
         /\ on_body' \in {"plain", "mpart"}
         /\ astray'[c] = astray[c]
         /\ \A d \in Conns \ {c} :
               /\ astray[d] \subseteq astray'[d]
               /\ "others" \in astray'[d] \/ (on_body' = on_body /\ astray'[d] = astray[d])
    BY <1>1, TakenOver
  <1>11. Local(c) /\ req'[c] = q /\ ws'[c] = ws[c] /\ part'[c] = TRUE /\ over'[c] = o
    BY <1>1, <1>4, <1>5, <1>7, <1>8, <1>9, <1>10, GoesOn
  <1>12. Tok(c) \in {"g", "h", "f"} /\ ~req[c].error /\ ~ws[c].upgraded
    BY DEF OnHeadersComplete, HTTPRuns
  <1>13. req'[c].mpart <=> (req[c].mpart \/ Content(c) = "form")
    BY <1>2, <1>7, <1>11
  <1>14. CallbackStep(c)
    BY <1>10, <1>12, <1>13 DEF CallbackStep
  <1>15. RecordStep(c)
    BY <1>9, <1>11, <1>12 DEF RecordStep
  <1>16. HTTPStep(c)
    <2>1. req'[c].complete <=> req[c].complete \/ Tok(c) \in {"g", "e"}
      BY <1>2, <1>7, <1>11, <1>12
    <2>2. ~req'[c].error /\ Tok(c) \in {"u1", "u2", "g", "h", "f", "b", "e"}
      BY <1>7, <1>11, <1>12
    <2> QED
      BY <1>1, <1>11, <1>14, <1>15, <2>1, <2>2 DEF HTTPStep
  <1>17. CtxInv'
    <2>1. freed_use' = freed_use /\ ws' = ws /\ ~crashed'
      BY <1>1 DEF OnHeadersComplete, Goes
    <2> QED
      BY <2>1, CtxKeeps
  <1> QED
    BY <1>11, <1>16, <1>17, HTTPStepKeeps, OneKeeps

\* A stretch of a body.
LEMMA BodyKeeps == ASSUME WebInv, ~crashed, NEW c \in Conns, OnBody(c) PROVE WebInv'
  <1>1. WebTypes /\ HTTPRuns(c) /\ piece[c] > 0 /\ Advance(c) /\ Goes(c) /\ RecordPartMsg(c)
    BY DEF OnBody, HTTPRuns, WebInv
  <1>2. PICK b, done : b = Append(req[c].body, pos[c] + 1) /\ done = (req[c].complete \/ Tok(c) = "e")
    OBVIOUS
  <1>3. PICK q : q = [req[c] EXCEPT !.body = b, !.complete = done]
    OBVIOUS
  <1>4. IsReq(req[c]) /\ req = [d \in Conns |-> req[d]] /\ IsWS(ws[c]) /\ ws = [d \in Conns |-> ws[d]]
    BY <1>1 DEF WebTypes
  <1>5. req' = [req EXCEPT ![c] = q]
    BY <1>2, <1>3, <1>4 DEF OnBody, AppendBody
  <1>6. done \in BOOLEAN
    BY <1>2, <1>4 DEF IsReq
  <1>7. IsReq(q) /\ q.error = req[c].error /\ q.mpart = req[c].mpart /\ q.complete = done
        /\ q.content = req[c].content
    BY <1>3, <1>4, <1>6 DEF IsReq
  <1>8. ws' = [ws EXCEPT ![c] = ws[c]]
    BY <1>4 DEF OnBody
  <1>9. PICK o \in BOOLEAN : /\ part' = [part EXCEPT ![c] = TRUE] /\ over' = [over EXCEPT ![c] = o]
                             /\ o <=> (req[c].complete /\ ~ws[c].upgraded)
    BY <1>1, Recorded
  <1>10. on_body' = on_body /\ on_body \in {"plain", "mpart"} /\ astray' = astray
    BY <1>1 DEF OnBody, WebTypes
  <1>11. Local(c) /\ req'[c] = q /\ ws'[c] = ws[c] /\ part'[c] = TRUE /\ over'[c] = o
    BY <1>1, <1>4, <1>5, <1>7, <1>8, <1>9, <1>10, GoesOn
  <1>12. Tok(c) \in {"b", "e"} /\ ~req[c].error /\ ~ws[c].upgraded
    BY DEF OnBody, HTTPRuns, BodyToken
  <1>13. CallbackStep(c)
    BY <1>7, <1>10, <1>11, <1>12 DEF CallbackStep
  <1>14. RecordStep(c)
    BY <1>9, <1>11, <1>12 DEF RecordStep
  <1>15. HTTPStep(c)
    <2>1. req'[c].complete <=> req[c].complete \/ Tok(c) \in {"g", "e"}
      BY <1>2, <1>7, <1>11, <1>12
    <2>2. ~req'[c].error /\ Tok(c) \in {"u1", "u2", "g", "h", "f", "b", "e"}
      BY <1>7, <1>11, <1>12
    <2> QED
      BY <1>1, <1>11, <1>13, <1>14, <2>1, <2>2 DEF HTTPStep
  <1>16. CtxInv'
    <2>1. freed_use' = freed_use /\ ws' = ws /\ ~crashed'
      BY <1>1 DEF OnBody, Goes
    <2> QED
      BY <2>1, CtxKeeps
  <1> QED
    BY <1>11, <1>15, <1>16, HTTPStepKeeps, OneKeeps

\* A stretch of a body for the multipart parser, which makes no record.
LEMMA MPartBodyKeeps == ASSUME WebInv, ~crashed, NEW c \in Conns, OnMPartBody(c) PROVE WebInv'
  <1>1. WebTypes /\ HTTPRuns(c) /\ piece[c] > 0 /\ Advance(c) /\ Goes(c) /\ Tok(c) \in BodyToken
    BY DEF OnMPartBody, HTTPRuns, WebInv
  <1>2. PICK done : done = (req[c].complete \/ Tok(c) = "e")
    OBVIOUS
  <1>3. PICK q : q = [req[c] EXCEPT !.complete = done]
    OBVIOUS
  <1>4. IsReq(req[c]) /\ req = [d \in Conns |-> req[d]] /\ IsWS(ws[c]) /\ ws = [d \in Conns |-> ws[d]]
    BY <1>1 DEF WebTypes
  <1>5. req' = [req EXCEPT ![c] = q]
    BY <1>2, <1>3, <1>4 DEF OnMPartBody
  <1>6. done \in BOOLEAN
    BY <1>2, <1>4 DEF IsReq
  <1>7. IsReq(q) /\ q.error = req[c].error /\ q.mpart = req[c].mpart /\ q.complete = done
        /\ q.content = req[c].content
    BY <1>3, <1>4, <1>6 DEF IsReq
  <1>8. ws' = [ws EXCEPT ![c] = ws[c]]
    BY <1>4 DEF OnMPartBody
  <1>9. part' = [part EXCEPT ![c] = part[c]] /\ part[c] \in BOOLEAN
    BY <1>1 DEF OnMPartBody, WebTypes
  <1>10. over' = [over EXCEPT ![c] = over[c]] /\ over[c] \in BOOLEAN
    BY <1>1 DEF OnMPartBody, WebTypes
  <1>11. on_body' = on_body /\ on_body \in {"plain", "mpart"} /\ astray' = astray
    BY <1>1 DEF OnMPartBody, WebTypes
  <1>12. Local(c) /\ req'[c] = q /\ ws'[c] = ws[c] /\ part'[c] = part[c] /\ over'[c] = over[c]
    BY <1>1, <1>4, <1>5, <1>7, <1>8, <1>9, <1>10, <1>11, GoesOn
  <1>13. Tok(c) \in {"b", "e"} /\ ~req[c].error
    BY <1>1 DEF HTTPRuns, BodyToken
  <1>14. CallbackStep(c)
    BY <1>7, <1>11, <1>12, <1>13 DEF CallbackStep
  <1>15. RecordStep(c)
    BY <1>1, <1>12 DEF RecordStep
  <1>16. HTTPStep(c)
    <2>1. req'[c].complete <=> req[c].complete \/ Tok(c) \in {"g", "e"}
      BY <1>2, <1>7, <1>12, <1>13
    <2>2. ~req'[c].error /\ Tok(c) \in {"u1", "u2", "g", "h", "f", "b", "e"}
      BY <1>7, <1>12, <1>13
    <2> QED
      BY <1>1, <1>12, <1>14, <1>15, <2>1, <2>2 DEF HTTPStep
  <1>17. CtxInv'
    <2>1. freed_use' = freed_use /\ ws' = ws /\ ~crashed'
      BY <1>1 DEF OnMPartBody, Goes
    <2> QED
      BY <2>1, CtxKeeps
  <1> QED
    BY <1>12, <1>16, <1>17, HTTPStepKeeps, OneKeeps

\* And without a multipart parser: nothing but the crash happens.
LEMMA NullKeeps == ASSUME WebInv, NEW c \in Conns, OnMPartBodyNull(c) PROVE WebInv'
  <1>1. UNCHANGED <<script, thread, pos, piece, busy, on_body, req, ws, open, part, over, astray,
                    freed_use>>
    BY DEF OnMPartBodyNull
  <1>2. WebTypes'
    BY <1>1 DEF WebInv, WebTypes
  <1>3. Local(c)
    BY <1>1, <1>2 DEF Local, Apart
  <1>4. ConnInv(c)'
    <2>1. ConnInv(c)
      BY DEF WebInv
    <2> QED
      BY <1>1, <2>1 DEF ConnInv, RunInv, CompleteInv, CallbackInv, PartInv, Parsing, Runs,
         FormBody, Mid, LastTok
  <1>5. CtxInv'
    <2>1. NullParser(c)'
      BY <1>1 DEF OnMPartBodyNull, NullParser, HTTPRuns, Runs, Tok
    <2> QED
      BY <1>1, <2>1 DEF WebInv, CtxInv
  <1> QED
    BY <1>3, <1>4, <1>5, OneKeeps

-----------------------------------------------------------------------------
\* The begin and the end of a read.

\* A parser returns, having taken all of its piece.
LEMMA Returned ==
  ASSUME WebTypes, NEW c \in Conns, Runs(c), Return(c), script' = script, thread' = thread,
         pos' = pos \/ pos' = [pos EXCEPT ![c] = @ + piece[c]]
  PROVE  /\ pos' \in [Conns -> Nat] /\ piece' \in [Conns -> Nat]
         /\ busy' \in [Threads -> Conns \cup {Idle}]
         /\ \A d \in Conns : pos'[d] + piece'[d] <= Len(script[d])
         /\ \A d \in Conns \ {c} : /\ pos'[d] = pos[d] /\ piece'[d] = piece[d]
                                   /\ (busy'[thread[d]] = d) <=> (busy[thread[d]] = d)
         /\ piece'[c] = 0 /\ ~Runs(c)'
  <1>1. /\ pos \in [Conns -> Nat] /\ piece \in [Conns -> Nat] /\ thread \in [Conns -> Threads]
        /\ busy \in [Threads -> Conns \cup {Idle}]
        /\ piece' = [piece EXCEPT ![c] = 0] /\ busy' = [busy EXCEPT ![thread[c]] = Idle]
    BY DEF WebTypes, Return
  <1>2. piece' \in [Conns -> Nat] /\ piece'[c] = 0 /\ \A d \in Conns \ {c} : piece'[d] = piece[d]
    BY <1>1
  <1>3. /\ pos' \in [Conns -> Nat] /\ (\A d \in Conns \ {c} : pos'[d] = pos[d])
        /\ pos'[c] = pos[c] \/ pos'[c] = pos[c] + piece[c]
    <2>1. CASE pos' = pos
      BY <1>1, <2>1
    <2>2. CASE pos' = [pos EXCEPT ![c] = @ + piece[c]]
      BY <1>1, <2>2
    <2> QED
      BY <2>1, <2>2
  <1>4. busy' \in [Threads -> Conns \cup {Idle}] /\ busy'[thread[c]] = Idle
    BY <1>1
  <1>5. ~Runs(c)'
    BY <1>4, WebAssumption DEF Runs
  <1>6. ASSUME NEW d \in Conns \ {c} PROVE (busy'[thread[d]] = d) <=> (busy[thread[d]] = d)
    <2>1. CASE thread[d] = thread[c]
      BY <1>4, <2>1, WebAssumption DEF Runs
    <2>2. CASE thread[d] # thread[c]
      BY <1>1, <2>2
    <2> QED
      BY <2>1, <2>2
  <1>7. pos'[c] + piece'[c] <= Len(script[c])
    <2>1. pos[c] + piece[c] <= Len(script[c]) /\ Len(script[c]) \in Nat
          /\ pos[c] \in Nat /\ piece[c] \in Nat
      BY <1>1, WebAssumption DEF WebTypes
    <2> QED
      BY <1>2, <1>3, <2>1
  <1>8. \A d \in Conns \ {c} : pos'[d] + piece'[d] <= Len(script[d])
    BY <1>2, <1>3 DEF WebTypes
  <1> QED
    BY <1>2, <1>3, <1>4, <1>5, <1>6, <1>7, <1>8

\* A read begins: the parser takes the thread, and the record of the request
\* only forgets which piece its URL came in.
LEMMA RecvKeeps ==
  ASSUME WebInv, ~crashed, NEW c \in Conns, NEW n \in 1..Len(script[c]), OnRecvClientData(c, n)
  PROVE  WebInv'
  <1>1. WebTypes /\ RunInv(c) /\ CompleteInv(c) /\ CallbackInv(c) /\ PartInv(c)
    BY DEF WebInv, ConnInv
  <1>2. /\ open[c] /\ busy[thread[c]] = Idle /\ pos[c] + n <= Len(script[c])
        /\ busy' = [busy EXCEPT ![thread[c]] = c] /\ piece' = [piece EXCEPT ![c] = n]
        /\ UNCHANGED <<script, thread, pos, on_body, ws, open, part, crashed, over, astray,
                       freed_use>>
    BY DEF OnRecvClientData, Free
  <1>3. PICK q : q = [req[c] EXCEPT !.url_here = FALSE]
    OBVIOUS
  <1>4. IsReq(req[c]) /\ req = [d \in Conns |-> req[d]]
    BY <1>1 DEF WebTypes
  <1>5. req' = [req EXCEPT ![c] = q]
    BY <1>3, <1>4 DEF OnRecvClientData
  <1>6. IsReq(q) /\ q.error = req[c].error /\ q.mpart = req[c].mpart /\ q.complete = req[c].complete
        /\ q.content = req[c].content
    BY <1>3, <1>4 DEF IsReq
  <1>7. n \in Nat /\ n > 0
    OBVIOUS
  <1>8. /\ piece' \in [Conns -> Nat] /\ piece'[c] = n
        /\ \A d \in Conns \ {c} : piece'[d] = piece[d]
    BY <1>1, <1>2, <1>7 DEF WebTypes
  <1>9. /\ req' = [d \in Conns |-> req'[d]] /\ req'[c] = q /\ \A d \in Conns \ {c} : req'[d] = req[d]
    BY <1>4, <1>5
  <1>10. \A d \in Conns : IsReq(req'[d])
    BY <1>1, <1>6, <1>9 DEF WebTypes
  <1>12. busy' \in [Threads -> Conns \cup {Idle}] /\ busy'[thread[c]] = c
    BY <1>1, <1>2 DEF WebTypes
  <1>13. ASSUME NEW d \in Conns \ {c} PROVE (busy'[thread[d]] = d) <=> (busy[thread[d]] = d)
    <2>1. CASE thread[d] = thread[c]
      BY <1>2, <1>12, <2>1, WebAssumption
    <2>2. CASE thread[d] # thread[c]
      BY <1>1, <1>2, <2>2 DEF WebTypes
    <2> QED
      BY <2>1, <2>2
  <1>14. \A d \in Conns : pos'[d] + piece'[d] <= Len(script'[d])
    BY <1>1, <1>2, <1>8 DEF WebTypes
  <1>15. WebTypes'
    BY <1>1, <1>2, <1>8, <1>9, <1>10, <1>12, <1>14 DEF WebTypes
  <1>16. Local(c)
    BY <1>2, <1>8, <1>9, <1>13, <1>15 DEF Local, Apart
  <1>17. Runs(c)' /\ ~Runs(c)
    BY <1>2, <1>12, WebAssumption DEF Runs
  <1>18. Parsing(c)' <=> Parsing(c)
    BY <1>2, <1>6, <1>9 DEF Parsing
  <1>19. RunInv(c)'
    BY <1>1, <1>2, <1>6, <1>7, <1>8, <1>9, <1>17 DEF RunInv
  <1>20. LastTok(c)' = LastTok(c) /\ pos'[c] = pos[c] /\ (Mid(c)' <=> Mid(c))
        /\ (FormBody(c)' <=> FormBody(c))
    BY <1>2 DEF LastTok, Mid, FormBody
  <1>21. ~(Parsing(c) /\ req[c].complete)
    BY <1>1, <1>17 DEF CompleteInv
  <1>22. CompleteInv(c)'
    <2>1. ~(Parsing(c)' /\ req'[c].complete)
      BY <1>6, <1>9, <1>18, <1>21
    <2>2. (Parsing(c) /\ ~req[c].complete /\ (pos[c] = 0 \/ LastTok(c) \in {"g", "e"}) =>
             req[c].content = "none")'
      BY <1>1, <1>6, <1>9, <1>18, <1>20 DEF CompleteInv
    <2> QED
      BY <2>1, <2>2 DEF CompleteInv
  <1>23. CallbackInv(c)'
    BY <1>1, <1>2, <1>6, <1>9, <1>18, <1>20 DEF CallbackInv
  <1>24. PartInv(c)'
    BY <1>1, <1>2, <1>6, <1>9, <1>20 DEF PartInv
  <1>25. CtxInv'
    BY <1>2, CtxKeeps
  <1> QED
    BY <1>16, <1>19, <1>22, <1>23, <1>24, <1>25, OneKeeps DEF ConnInv

\* A connection that was closed, or whose parser gave up, and that has returned.
LEMMA StoppedKeeps ==
  ASSUME NEW c \in Conns, piece'[c] = 0, ~Runs(c)',
         ~open'[c] \/ req'[c].error, ws'[c].upgraded => ~req'[c].error
  PROVE  ConnInv(c)'
  <1>1. RunInv(c)'
    BY DEF RunInv
  <1>2. ~Parsing(c)'
    BY DEF Parsing
  <1>3. CompleteInv(c)' /\ CallbackInv(c)'
    BY <1>2 DEF CompleteInv, CallbackInv
  <1>4. PartInv(c)'
    BY DEF PartInv
  <1> QED
    BY <1>1, <1>3, <1>4 DEF ConnInv

\* Bytes that are no request: the parser gives up.
LEMMA ErrorKeeps == ASSUME WebInv, ~crashed, NEW c \in Conns, ParseError(c) PROVE WebInv'
  <1>1. WebTypes /\ RunInv(c)
    BY DEF WebInv, ConnInv
  <1>2. /\ Runs(c) /\ ~ws[c].upgraded /\ Return(c)
        /\ pos' = [pos EXCEPT ![c] = @ + piece[c]]
        /\ UNCHANGED <<script, thread, on_body, ws, open, part, crashed, over, astray, freed_use>>
    BY DEF ParseError
  <1>3. PICK m, q : /\ m = (req[c].mpart /\ (req[c].error \/ Tok(c) = "x"))
                    /\ q = [req[c] EXCEPT !.error = TRUE, !.mpart = m]
    OBVIOUS
  <1>4. IsReq(req[c]) /\ req = [d \in Conns |-> req[d]]
    BY <1>1 DEF WebTypes
  <1>5. req' = [req EXCEPT ![c] = q]
    BY <1>3, <1>4 DEF ParseError
  <1>6. IsReq(q) /\ q.error = TRUE
    <2>1. m \in BOOLEAN
      BY <1>3, <1>4 DEF IsReq
    <2> QED
      BY <1>3, <1>4, <2>1 DEF IsReq
  <1>7. /\ req' = [d \in Conns |-> req'[d]] /\ req'[c] = q /\ \A d \in Conns \ {c} : req'[d] = req[d]
    BY <1>4, <1>5
  <1>8. \A d \in Conns : IsReq(req'[d])
    BY <1>1, <1>6, <1>7 DEF WebTypes
  <1>9. /\ pos' \in [Conns -> Nat] /\ piece' \in [Conns -> Nat]
        /\ busy' \in [Threads -> Conns \cup {Idle}]
        /\ \A d \in Conns : pos'[d] + piece'[d] <= Len(script[d])
        /\ \A d \in Conns \ {c} : /\ pos'[d] = pos[d] /\ piece'[d] = piece[d]
                                  /\ (busy'[thread[d]] = d) <=> (busy[thread[d]] = d)
        /\ piece'[c] = 0 /\ ~Runs(c)'
    BY <1>1, <1>2, Returned
  <1>10. WebTypes'
    BY <1>1, <1>2, <1>7, <1>8, <1>9 DEF WebTypes
  <1>11. Local(c)
    BY <1>2, <1>7, <1>9, <1>10 DEF Local, Apart
  <1>12. req'[c].error /\ ~ws'[c].upgraded
    BY <1>2, <1>6, <1>7
  <1>13. ConnInv(c)'
    BY <1>9, <1>12, StoppedKeeps
  <1>14. CtxInv'
    BY <1>2, CtxKeeps
  <1> QED
    BY <1>11, <1>13, <1>14, OneKeeps

\* The end of a read for the http parser: a complete request is handed on and
\* its record made new, and what went over its end is known to have.
LEMMA ExecuteKeeps == ASSUME WebInv, ~crashed, NEW c \in Conns, ExecuteDone(c) PROVE WebInv'
  <1>1. WebTypes /\ RunInv(c) /\ CompleteInv(c) /\ CallbackInv(c) /\ PartInv(c)
    BY DEF WebInv, ConnInv
  <1>2. /\ Runs(c) /\ piece[c] = 0 /\ ~ws[c].upgraded /\ Return(c)
        /\ UNCHANGED <<script, thread, pos, on_body, ws, crashed, over, astray>>
    BY DEF ExecuteDone
  <1>3. PICK new : new = Reset(req[c])
    OBVIOUS
  <1>4. IsReq(req[c]) /\ req = [d \in Conns |-> req[d]]
    BY <1>1 DEF WebTypes
  <1>5. /\ IsReq(new) /\ new.complete = FALSE /\ new.error = FALSE
         /\ new.content = "none" /\ new.mpart = req[c].mpart
    BY <1>3, <1>4 DEF Reset, NoReq, IsReq
  <1>6. open' \in [Conns -> BOOLEAN] /\ \A d \in Conns \ {c} : open'[d] = open[d]
    BY <1>1 DEF ExecuteDone, OnClientClosed, WebTypes
  <1>7. part' \in [Conns -> BOOLEAN] /\ \A d \in Conns \ {c} : part'[d] = part[d]
    <2>1. CASE part' = [part EXCEPT ![c] = FALSE]
      BY <1>1, <2>1 DEF WebTypes
    <2>2. CASE part' = [part EXCEPT ![c] = @ /\ ~req[c].complete]
      BY <1>1, <2>2 DEF WebTypes
    <2> QED
      BY <2>1, <2>2 DEF ExecuteDone, OnClientClosed, TakeOffList
  <1>8. PICK q : q = IF req[c].complete /\ open'[c] THEN new ELSE req[c]
    OBVIOUS
  <1>9. req' = [req EXCEPT ![c] = q]
    <2>1. CASE req[c].complete /\ open'[c]
      BY <1>3, <1>8, <1>4, <2>1 DEF ExecuteDone, ResetUnlessClosed
    <2>2. CASE ~(req[c].complete /\ open'[c])
      BY <1>8, <1>4, <2>2 DEF ExecuteDone, ResetUnlessClosed
    <2> QED
      BY <2>1, <2>2
  <1>10. /\ req' = [d \in Conns |-> req'[d]] /\ req'[c] = q /\ \A d \in Conns \ {c} : req'[d] = req[d]
    BY <1>9, <1>4
  <1>11. \A d \in Conns : IsReq(req'[d])
    BY <1>1, <1>8, <1>10, <1>5 DEF WebTypes
  <1>12. /\ pos' \in [Conns -> Nat] /\ piece' \in [Conns -> Nat]
         /\ busy' \in [Threads -> Conns \cup {Idle}]
         /\ \A d \in Conns : pos'[d] + piece'[d] <= Len(script[d])
         /\ \A d \in Conns \ {c} : /\ pos'[d] = pos[d] /\ piece'[d] = piece[d]
                                   /\ (busy'[thread[d]] = d) <=> (busy[thread[d]] = d)
         /\ piece'[c] = 0 /\ ~Runs(c)'
    BY <1>1, <1>2, Returned
  <1>13. WebTypes'
    BY <1>1, <1>2, <1>6, <1>7, <1>10, <1>11, <1>12 DEF WebTypes
  <1>14. Local(c)
    BY <1>2, <1>6, <1>7, <1>10, <1>12, <1>13 DEF Local, Apart
  <1>15. CtxInv'
    <2>1. freed_use' = freed_use
      BY DEF ExecuteDone, ResetUnlessClosed, Uses
    <2> QED
      BY <1>2, <2>1, CtxKeeps
  <1>16. ~req[c].error
    BY <1>1, <1>2 DEF RunInv
  <1>17. ConnInv(c)'
    <2>1. CASE ~open'[c]
      BY <1>2, <1>12, <2>1, StoppedKeeps
    <2>2. CASE open'[c]
      <3>1. open[c] /\ Parsing(c)
        BY <1>1, <1>2, <1>16 DEF RunInv, Parsing
      <3>2. part' = [part EXCEPT ![c] = @ /\ ~req[c].complete]
        <4>1. CASE OnClientClosed(c)
          BY <1>1, <2>2, <4>1 DEF OnClientClosed, WebTypes
        <4>2. CASE TakeOffList(c)
          BY <4>2 DEF TakeOffList
        <4> QED
          BY <4>1, <4>2 DEF ExecuteDone
      <3>3. ~req'[c].complete /\ (req[c].complete => req'[c].content = "none")
            /\ req'[c].mpart = req[c].mpart
        <4>1. CASE req[c].complete
          BY <1>8, <1>10, <1>5, <2>2, <4>1
        <4>2. CASE ~req[c].complete
          BY <1>8, <1>10, <4>2
        <4> QED
          BY <4>1, <4>2
      <3>4. RunInv(c)'
        BY <1>2, <1>12 DEF RunInv
      <3>5. LastTok(c)' = LastTok(c) /\ pos'[c] = pos[c] /\ (Mid(c)' <=> Mid(c))
            /\ (FormBody(c)' <=> FormBody(c))
        BY <1>2 DEF LastTok, Mid, FormBody
      <3>6. ~req[c].complete => req'[c] = req[c] /\ (part'[c] <=> part[c])
        <4>1. SUFFICES ASSUME ~req[c].complete PROVE req'[c] = req[c] /\ (part'[c] <=> part[c])
          OBVIOUS
        <4>2. req'[c] = req[c]
          BY <1>8, <1>10, <4>1
        <4>3. part'[c] <=> part[c]
          BY <1>1, <3>2, <4>1 DEF WebTypes
        <4> QED
          BY <4>2, <4>3
      <3>7. CompleteInv(c)'
        <4>1. (pos[c] = 0 \/ LastTok(c) \in {"g", "e"}) => req'[c].content = "none"
          BY <1>1, <3>1, <3>3, <3>6 DEF CompleteInv
        <4> QED
          BY <3>3, <3>5, <4>1 DEF CompleteInv
      <3>8. CallbackInv(c)'
        <4>1. on_body' = on_body /\ astray' = astray
          BY <1>2
        <4>2. ASSUME pos[c] > 0, LastTok(c) \in {"u1", "u2"}, astray[c] = {}
              PROVE  req'[c].content = "none"
          <5>1. Mid(c)
            BY <4>2 DEF Mid
          <5>2. ~req[c].complete
            BY <1>1, <3>1, <4>2, <5>1 DEF CompleteInv
          <5> QED
            BY <1>1, <3>1, <3>6, <4>2, <5>2 DEF CallbackInv
        <4> QED
          BY <1>1, <3>1, <3>3, <3>5, <4>1, <4>2 DEF CallbackInv
      <3>9. PartInv(c)'
        <4>1. SUFFICES ASSUME Mid(c)', ~over'[c] PROVE part'[c]
          BY DEF PartInv
        <4>2. Mid(c) /\ ~over[c]
          BY <1>2, <3>5, <4>1
        <4>3. ~req[c].complete
          BY <1>1, <3>1, <4>2 DEF CompleteInv
        <4>4. part[c]
          BY <1>1, <1>16, <3>1, <4>2 DEF PartInv
        <4> QED
          BY <3>6, <4>3, <4>4
      <3> QED
        BY <3>4, <3>7, <3>8, <3>9 DEF ConnInv
    <2> QED
      BY <2>1, <2>2
  <1> QED
    BY <1>14, <1>15, <1>17, OneKeeps

-----------------------------------------------------------------------------
\* Upgrades and websocket frames.

\* A connection whose parser goes on as a websocket parser.
LEMMA UpgradedKeeps ==
  ASSUME NEW c \in Conns, Runs(c)', open'[c], ~req'[c].error, ws'[c].upgraded,
         Mid(c)' /\ ~over'[c] => part'[c]
  PROVE  ConnInv(c)'
  <1>1. RunInv(c)'
    BY DEF RunInv
  <1>2. ~Parsing(c)'
    BY DEF Parsing
  <1>3. CompleteInv(c)' /\ CallbackInv(c)'
    BY <1>2 DEF CompleteInv, CallbackInv
  <1>4. PartInv(c)'
    BY DEF PartInv
  <1> QED
    BY <1>1, <1>3, <1>4 DEF ConnInv

\* The context is freed in the middle of a read, which is over with it.
LEMMA ClosedInRead ==
  ASSUME WebInv, NEW c \in Conns, Runs(c), OnClientClosed(c), Return(c),
         pos' = pos \/ pos' = [pos EXCEPT ![c] = @ + piece[c]],
         UNCHANGED <<script, thread, req, ws, over>>, on_body' \in {"plain", "mpart"},
         \A d \in Conns \ {c} :
            /\ astray[d] \subseteq astray'[d]
            /\ "others" \in astray'[d] \/ (on_body' = on_body /\ astray'[d] = astray[d])
  PROVE  Local(c) /\ ConnInv(c)'
  <1>1. WebTypes
    BY DEF WebInv
  <1>2. /\ pos' \in [Conns -> Nat] /\ piece' \in [Conns -> Nat]
        /\ busy' \in [Threads -> Conns \cup {Idle}]
        /\ \A d \in Conns : pos'[d] + piece'[d] <= Len(script[d])
        /\ \A d \in Conns \ {c} : /\ pos'[d] = pos[d] /\ piece'[d] = piece[d]
                                  /\ (busy'[thread[d]] = d) <=> (busy[thread[d]] = d)
        /\ piece'[c] = 0 /\ ~Runs(c)'
    BY <1>1, Returned
  <1>3. /\ open' \in [Conns -> BOOLEAN] /\ open'[c] = FALSE
        /\ part' \in [Conns -> BOOLEAN]
        /\ \A d \in Conns \ {c} : open'[d] = open[d] /\ part'[d] = part[d]
    BY <1>1 DEF OnClientClosed, WebTypes
  <1>4. WebTypes'
    BY <1>1, <1>2, <1>3 DEF WebTypes
  <1>5. Local(c)
    BY <1>2, <1>3, <1>4 DEF Local, Apart
  <1>6. ConnInv(c)'
    <2>1. ws'[c].upgraded => ~req'[c].error
      BY DEF WebInv, ConnInv, RunInv
    <2> QED
      BY <1>2, <1>3, <2>1, StoppedKeeps
  <1> QED
    BY <1>5, <1>6

\* A request to upgrade.
LEMMA UpgradeKeeps == ASSUME WebInv, ~crashed, NEW c \in Conns, OnUpgrade(c) PROVE WebInv'
  <1>1. /\ Runs(c) /\ piece[c] > 0 /\ ~req[c].error /\ Tok(c) = "up" /\ TakeOver(c)
        /\ UNCHANGED <<script, thread, req, crashed, freed_use>>
    BY DEF OnUpgrade, HTTPRuns
  <1>2. WebTypes /\ RunInv(c)
    BY DEF WebInv, ConnInv
  <1>3. /\ on_body' \in {"plain", "mpart"}
        /\ \A d \in Conns \ {c} :
              /\ astray[d] \subseteq astray'[d]
              /\ "others" \in astray'[d] \/ (on_body' = on_body /\ astray'[d] = astray[d])
    BY <1>1, <1>2, TakenOver
  <1>4. CASE RefuseUpgrade(c)
    <2>1. OnClientClosed(c) /\ Return(c) /\ pos' = [pos EXCEPT ![c] = @ + piece[c]]
          /\ UNCHANGED <<ws, over>>
      BY <1>4 DEF RefuseUpgrade
    <2>2. Local(c) /\ ConnInv(c)'
      BY <1>1, <1>3, <2>1, ClosedInRead
    <2>3. CtxInv'
      BY <1>1, <2>1, CtxKeeps
    <2> QED
      BY <2>2, <2>3, OneKeeps
  <1>5. CASE AcceptUpgrade(c)
    <2>1. PICK w : w = [ws[c] EXCEPT !.upgraded = TRUE]
      OBVIOUS
    <2>2. IsReq(req[c]) /\ req = [d \in Conns |-> req[d]] /\ IsWS(ws[c])
          /\ ws = [d \in Conns |-> ws[d]]
      BY <1>2 DEF WebTypes
    <2>3. ws' = [ws EXCEPT ![c] = w] /\ IsWS(w) /\ w.upgraded = TRUE
      BY <1>5, <2>1, <2>2 DEF AcceptUpgrade, IsWS
    <2>4. req' = [req EXCEPT ![c] = req[c]]
      BY <1>1, <2>2
    <2>5. RecordPartMsg(c) /\ Advance(c) /\ Goes(c)
      BY <1>1, <1>5 DEF AcceptUpgrade, Goes
    <2>6. PICK o \in BOOLEAN : /\ part' = [part EXCEPT ![c] = TRUE] /\ over' = [over EXCEPT ![c] = o]
                               /\ o <=> (req[c].complete /\ ~ws[c].upgraded)
      BY <1>2, <2>5, Recorded
    <2>7. Local(c) /\ req'[c] = req[c] /\ ws'[c] = w /\ part'[c] = TRUE
      BY <1>1, <1>2, <1>3, <2>2, <2>3, <2>4, <2>5, <2>6, GoesOn
    <2>8. Runs(c)' /\ open'[c]
      BY <1>1, <1>2, <2>5 DEF Runs, Goes, RunInv
    <2>9. ConnInv(c)'
      BY <1>1, <2>3, <2>7, <2>8, UpgradedKeeps
    <2>10. CtxInv'
      <3>1. \A d \in Conns : ws[d].upgraded => ws'[d].upgraded
        <4> SUFFICES ASSUME NEW d \in Conns, ws[d].upgraded PROVE ws'[d].upgraded
          OBVIOUS
        <4>1. CASE d = c
          BY <2>3, <2>7, <4>1
        <4>2. CASE d # c
          BY <2>2, <2>3, <4>2
        <4> QED
          BY <4>1, <4>2
      <3> QED
        BY <1>1, <3>1, CtxKeeps
    <2> QED
      BY <2>7, <2>9, <2>10, OneKeeps
  <1> QED
    BY <1>4, <1>5 DEF OnUpgrade

\* A frame keeps or clears the payloads, and the connection stays upgraded.
LEMMA FrameStep ==
  ASSUME WebInv, ~crashed, NEW c \in Conns, Runs(c), piece[c] > 0, ws[c].upgraded,
         Advance(c), Goes(c), NEW w, IsWS(w), w.upgraded, ws' = [ws EXCEPT ![c] = w],
         NEW p \in BOOLEAN, part' = [part EXCEPT ![c] = p],
         p \/ ((Tok(c) = "d") /\ w.fin),
         NEW o \in BOOLEAN, over' = [over EXCEPT ![c] = o],
         UNCHANGED <<on_body, astray, req, freed_use>>
  PROVE  WebInv'
  <1>1. WebTypes /\ RunInv(c)
    BY DEF WebInv, ConnInv
  <1>2. IsReq(req[c]) /\ req = [d \in Conns |-> req[d]] /\ ws = [d \in Conns |-> ws[d]]
    BY <1>1 DEF WebTypes
  <1>3. req' = [req EXCEPT ![c] = req[c]]
    BY <1>2
  <1>4. on_body' = on_body /\ on_body \in {"plain", "mpart"}
    BY <1>1 DEF WebTypes
  <1>5. Local(c) /\ req'[c] = req[c] /\ ws'[c] = w /\ part'[c] = p /\ over'[c] = o
    BY <1>1, <1>2, <1>3, <1>4, GoesOn
  <1>6. LastTok(c)' = Tok(c)
    BY <1>1, Advanced DEF Goes
  <1>7. part'[c] \/ ~Mid(c)'
    BY <1>5, <1>6 DEF Mid
  <1>8. Runs(c)' /\ open'[c]
    BY <1>1 DEF Runs, Goes, RunInv
  <1>9. ConnInv(c)'
    <2>1. ~req'[c].error
      BY <1>1, <1>5 DEF RunInv
    <2> QED
      BY <1>5, <1>7, <1>8, <2>1, UpgradedKeeps
  <1>10. CtxInv'
    <2>1. \A d \in Conns : ws[d].upgraded => ws'[d].upgraded
      BY <1>2
    <2> QED
      BY <2>1, CtxKeeps DEF Goes
  <1> QED
    BY <1>5, <1>9, <1>10, OneKeeps

\* The header of a frame.
LEMMA OnFrameHeaderKeeps ==
  ASSUME WebInv, ~crashed, NEW c \in Conns, OnFrameHeader(c)
  PROVE  WebInv'
  <1>1. WebTypes /\ IsWS(ws[c]) /\ ws = [d \in Conns |-> ws[d]]
    BY DEF WebInv, WebTypes
  <1>2. PICK x, f : x = (ws[c].text \/ Tok(c) \in {"t0", "t1"}) /\ f = (Tok(c) # "t0")
    OBVIOUS
  <1>3. PICK w : w = [ws[c] EXCEPT !.text = x, !.fin = f]
    OBVIOUS
  <1>4. ws' = [ws EXCEPT ![c] = w]
    BY <1>1, <1>2, <1>3 DEF OnFrameHeader
  <1>5. /\ Runs(c) /\ piece[c] > 0 /\ ws[c].upgraded /\ Advance(c) /\ Goes(c) /\ RecordPartMsg(c)
        /\ UNCHANGED <<on_body, astray, req, freed_use>>
    BY DEF OnFrameHeader
  <1>6. IsWS(w) /\ w.upgraded
    BY <1>1, <1>3, <1>5 DEF IsWS
  <1>7. PICK o \in BOOLEAN : /\ part' = [part EXCEPT ![c] = TRUE] /\ over' = [over EXCEPT ![c] = o]
                             /\ o <=> (req[c].complete /\ ~ws[c].upgraded)
    BY <1>1, <1>5, Recorded
  <1> QED
    BY <1>4, <1>5, <1>6, <1>7, FrameStep

\* A frame that is not the last of its message.
LEMMA OnFrameKeeps == ASSUME WebInv, ~crashed, NEW c \in Conns, OnFrame(c) PROVE WebInv'
  <1>1. WebTypes /\ IsWS(ws[c]) /\ ws = [d \in Conns |-> ws[d]]
    BY DEF WebInv, WebTypes
  <1>2. PICK b : b = Payloads(c)
    OBVIOUS
  <1>3. PICK w : w = [ws[c] EXCEPT !.payloads = b]
    OBVIOUS
  <1>4. ws' = [ws EXCEPT ![c] = w]
    BY <1>1, <1>2, <1>3 DEF OnFrame
  <1>5. /\ Runs(c) /\ piece[c] > 0 /\ ws[c].upgraded /\ Advance(c) /\ Goes(c) /\ RecordPartMsg(c)
        /\ UNCHANGED <<on_body, astray, req, freed_use>>
    BY DEF OnFrame, FrameEnds
  <1>6. IsWS(w) /\ w.upgraded
    BY <1>1, <1>3, <1>5 DEF IsWS
  <1>7. PICK o \in BOOLEAN : /\ part' = [part EXCEPT ![c] = TRUE] /\ over' = [over EXCEPT ![c] = o]
                             /\ o <=> (req[c].complete /\ ~ws[c].upgraded)
    BY <1>1, <1>5, Recorded
  <1> QED
    BY <1>4, <1>5, <1>6, <1>7, FrameStep

\* The last frame of a message: it is handed on, and a logic may close.
LEMMA OnWSMsgKeeps == ASSUME WebInv, ~crashed, NEW c \in Conns, OnWSMsg(c) PROVE WebInv'
  <1>1. /\ Runs(c) /\ piece[c] > 0 /\ ws[c].upgraded /\ Tok(c) = "d" /\ ws[c].fin /\ Uses(c)
        /\ UNCHANGED <<on_body, astray, over, req>>
    BY DEF OnWSMsg, FrameEnds
  <1>2. WebTypes /\ RunInv(c)
    BY DEF WebInv, ConnInv
  <1>3. CASE ws' = Cleared(c) /\ RemoveRecord(c) /\ Advance(c) /\ Goes(c)
    <2>1. IsWS(ws[c]) /\ ws = [d \in Conns |-> ws[d]]
      BY <1>2 DEF WebTypes
    <2>2. PICK w : w = [ws[c] EXCEPT !.payloads = <<>>, !.text = FALSE]
      OBVIOUS
    <2>3. ws' = [ws EXCEPT ![c] = w]
      BY <1>3, <2>1, <2>2 DEF Cleared
    <2>4. IsWS(w) /\ w.upgraded /\ w.fin
      BY <1>1, <2>1, <2>2 DEF IsWS
    <2>5. part' = [part EXCEPT ![c] = FALSE]
      BY <1>3 DEF RemoveRecord
    <2>6. over' = [over EXCEPT ![c] = over[c]] /\ over[c] \in BOOLEAN
      BY <1>1, <1>2 DEF WebTypes
    <2>7. freed_use' = freed_use
      BY <1>1, <1>2, <1>3 DEF Uses, Goes, RunInv
    <2> QED
      BY <1>1, <1>3, <2>3, <2>4, <2>5, <2>6, <2>7, FrameStep
  <1>4. CASE /\ OnClientClosed(c) /\ Return(c)
             /\ pos' = [pos EXCEPT ![c] = @ + piece[c]]
             /\ UNCHANGED <<ws, script, thread, crashed>>
    <2>1. on_body' \in {"plain", "mpart"} /\ on_body' = on_body /\ astray' = astray
      BY <1>1, <1>2 DEF WebTypes
    <2>2. Local(c) /\ ConnInv(c)'
      BY <1>1, <1>4, <2>1, ClosedInRead
    <2>3. freed_use' \subseteq freed_use \cup {c}
      BY <1>1 DEF Uses
    <2>4. CtxInv'
      BY <1>1, <1>4, <2>3, CtxKeeps
    <2> QED
      BY <2>2, <2>4, OneKeeps
  <1> QED
    BY <1>3, <1>4 DEF OnWSMsg

\* The end of a read for the websocket parser.
LEMMA WSDoneKeeps == ASSUME WebInv, ~crashed, NEW c \in Conns, WSDone(c) PROVE WebInv'
  <1>1. WebTypes /\ RunInv(c) /\ PartInv(c)
    BY DEF WebInv, ConnInv
  <1>2. /\ Runs(c) /\ piece[c] = 0 /\ ws[c].upgraded /\ Return(c)
        /\ UNCHANGED <<script, thread, pos, on_body, req, ws, open, part, crashed, over, astray,
                       freed_use>>
    BY DEF WSDone
  <1>3. /\ pos' \in [Conns -> Nat] /\ piece' \in [Conns -> Nat]
        /\ busy' \in [Threads -> Conns \cup {Idle}]
        /\ \A d \in Conns : pos'[d] + piece'[d] <= Len(script[d])
        /\ \A d \in Conns \ {c} : /\ pos'[d] = pos[d] /\ piece'[d] = piece[d]
                                  /\ (busy'[thread[d]] = d) <=> (busy[thread[d]] = d)
        /\ piece'[c] = 0 /\ ~Runs(c)'
    BY <1>1, <1>2, Returned
  <1>4. WebTypes'
    BY <1>1, <1>2, <1>3 DEF WebTypes
  <1>5. Local(c)
    BY <1>2, <1>3, <1>4 DEF Local, Apart
  <1>6. RunInv(c)'
    BY <1>1, <1>2, <1>3 DEF RunInv
  <1>7. ~Parsing(c)'
    BY <1>2 DEF Parsing
  <1>8. CompleteInv(c)' /\ CallbackInv(c)'
    BY <1>7 DEF CompleteInv, CallbackInv
  <1>9. PartInv(c)'
    <2>1. Mid(c)' <=> Mid(c)
      BY <1>2 DEF Mid, LastTok
    <2> QED
      BY <1>1, <1>2, <1>3, <2>1 DEF PartInv
  <1>10. CtxInv'
    BY <1>2, CtxKeeps
  <1> QED
    BY <1>5, <1>6, <1>8, <1>9, <1>10, OneKeeps DEF ConnInv

\* A timeout or the peer closes a connection between two reads.
LEMMA EndsKeeps ==
  ASSUME WebInv, ~crashed, NEW c \in Conns, PartMsgTimeout(c) \/ PeerCloses(c)
  PROVE  WebInv'
  <1>1. WebTypes /\ RunInv(c)
    BY DEF WebInv, ConnInv
  <1>2. /\ busy[thread[c]] = Idle /\ OnClientClosed(c)
        /\ UNCHANGED <<script, thread, pos, piece, busy, on_body, req, ws, crashed, over, astray,
                       freed_use>>
    BY DEF PartMsgTimeout, PeerCloses, Ends, Free
  <1>3. /\ open' \in [Conns -> BOOLEAN] /\ open'[c] = FALSE
        /\ part' \in [Conns -> BOOLEAN]
        /\ \A d \in Conns \ {c} : open'[d] = open[d] /\ part'[d] = part[d]
    BY <1>1, <1>2 DEF OnClientClosed, WebTypes
  <1>4. WebTypes'
    BY <1>1, <1>2, <1>3 DEF WebTypes
  <1>5. Local(c)
    BY <1>2, <1>3, <1>4 DEF Local, Apart
  <1>6. ~Runs(c) /\ ~Runs(c)'
    BY <1>2, WebAssumption DEF Runs
  <1>7. piece'[c] = 0 /\ (ws'[c].upgraded => ~req'[c].error)
    BY <1>1, <1>2, <1>6 DEF RunInv
  <1>8. ConnInv(c)'
    BY <1>3, <1>6, <1>7, StoppedKeeps
  <1>9. CtxInv'
    BY <1>2, CtxKeeps
  <1> QED
    BY <1>5, <1>8, <1>9, OneKeeps

-----------------------------------------------------------------------------
\* The invariant.

\* It holds at the start.
LEMMA WebInvInit == ASSUME Init PROVE WebInv
  <1>1. WebTypes
    BY WebTypesInit
  <1>2. ASSUME NEW c \in Conns PROVE ConnInv(c)
    <2>1. /\ pos[c] = 0 /\ piece[c] = 0 /\ ~req[c].complete /\ ~req[c].error
          /\ ~ws[c].upgraded /\ req[c].content = "none"
      BY DEF Init, NoReq, NoWS
    <2>2. thread[c] \in Threads
      BY DEF Init
    <2>3. ~Runs(c)
      BY <2>2, WebAssumption DEF Init, Runs
    <2>4. ~Mid(c)
      BY <2>1 DEF Mid
    <2>5. RunInv(c)
      BY <2>1, <2>3 DEF RunInv
    <2>6. CompleteInv(c)
      BY <2>1 DEF CompleteInv
    <2>7. CallbackInv(c)
      BY <2>1 DEF CallbackInv
    <2>8. PartInv(c)
      BY <2>4 DEF PartInv
    <2> QED
      BY <2>5, <2>6, <2>7, <2>8 DEF ConnInv
  <1>3. CtxInv
    BY DEF Init, CtxInv
  <1> QED
    BY <1>1, <1>2, <1>3 DEF WebInv

\* Every step keeps it.
LEMMA WebInvStep == ASSUME WebInv, [Next]_vars PROVE WebInv'
  <1>1. ASSUME NEW c \in Conns, Parses(c) PROVE WebInv'
    BY <1>1, ParseURLKeeps, HeadersKeep, BodyKeeps, MPartBodyKeeps, NullKeeps, ErrorKeeps,
       ExecuteKeeps, UpgradeKeeps, OnFrameHeaderKeeps, OnFrameKeeps, OnWSMsgKeeps, WSDoneKeeps
       DEF Parses
  <1>2. ASSUME NEW c \in Conns, PartMsgTimeout(c) \/ PeerCloses(c) PROVE WebInv'
    BY <1>2, EndsKeeps DEF PartMsgTimeout, PeerCloses, Ends
  <1>3. ASSUME NEW c \in Conns, NEW n \in 1..Len(script[c]), OnRecvClientData(c, n) PROVE WebInv'
    BY <1>3, RecvKeeps DEF OnRecvClientData
  <1>4. CASE UNCHANGED vars
    <2>1. WebTypes'
      BY <1>4 DEF vars, WebInv, WebTypes
    <2>2. ASSUME NEW c \in Conns PROVE ConnInv(c)'
      <3>1. ConnInv(c)
        BY DEF WebInv
      <3> QED
        BY <1>4, <3>1 DEF vars, ConnInv, RunInv, CompleteInv, CallbackInv, PartInv, Parsing,
           Runs, FormBody, Mid, LastTok
    <2>3. CtxInv'
      BY <1>4 DEF vars, WebInv, CtxInv, NullParser, HTTPRuns, Runs, Tok
    <2> QED
      BY <2>1, <2>2, <2>3 DEF WebInv
  <1> QED
    BY <1>1, <1>2, <1>3, <1>4 DEF Next

\* The inductive invariant of the connections.
THEOREM WebInvariant == Spec => []WebInv
  <1>1. Init => WebInv
    BY WebInvInit
  <1>2. WebInv /\ [Next]_vars => WebInv'
    BY WebInvStep
  <1> QED
    BY <1>1, <1>2, PTL DEF Spec

\* However reads cut and join what clients send, a connection in the middle of a
\* message is in part_msg_mgr_ whenever its thread waits, but for a message whose
\* record went with the one before, which ended in the same read, or bytes that
\* did not parse (TheHTTPParser's callbacks, WebLogic::OnHTTPReq).
THEOREM PartsWatched == Spec => []WatchedWhilePart
  <1>1. WebInv => WatchedWhilePart
    <2> SUFFICES ASSUME WebInv, NEW c \in Conns, open[c], Mid(c)
                 PROVE  part[c] \/ over[c] \/ req[c].error
      BY DEF WatchedWhilePart
    <2>1. PartInv(c)
      BY DEF WebInv, ConnInv
    <2> QED
      BY <2>1 DEF PartInv
  <1> QED
    BY <1>1, WebInvariant, PTL

\* A body goes to the multipart parser of its connection exactly when its own
\* headers said so, and that parser exists, unless another connection switched
\* the callback all share since the request began or it began behind another in
\* one read; only the first can use a null parser; and no http parser goes on in
\* a context that a handler freed (OnMessageBegin, OnMPartBody, Parser::Execute).
THEOREM CtxSound == Spec => []CtxUse
  <1>1. WebInv => CtxUse
    <2> SUFFICES ASSUME WebInv PROVE CtxUse
      OBVIOUS
    <2>1. ASSUME NEW c \in Conns, HTTPRuns(c), Tok(c) \in BodyToken
          PROVE  /\ "others" \notin astray[c] /\ on_body = "mpart" => req[c].mpart
                 /\ astray[c] = {} => (on_body = "mpart" <=> FormBody(c))
      <3>1. WebTypes /\ RunInv(c) /\ CallbackInv(c)
        BY DEF WebInv, ConnInv
      <3>2. Parsing(c) /\ piece[c] > 0
        BY <2>1, <3>1 DEF HTTPRuns, RunInv, Parsing
      <3>3. pos[c] > 0 /\ LastTok(c) \in {"h", "f", "b"}
        BY <2>1, <3>1, <3>2, NextTok
      <3> QED
        BY <3>1, <3>2, <3>3 DEF CallbackInv
    <2>2. ASSUME NEW c \in Conns, HTTPRuns(c), Tok(c) \in BodyToken, astray[c] = {}
          PROVE  IF FormBody(c) THEN on_body = "mpart" /\ req[c].mpart ELSE on_body = "plain"
      <3>1. /\ on_body = "mpart" => req[c].mpart
            /\ on_body = "mpart" <=> FormBody(c)
        BY <2>1, <2>2
      <3>2. on_body \in {"plain", "mpart"}
        BY DEF WebInv, WebTypes
      <3> QED
        BY <3>1, <3>2
    <2>3. crashed => \E c \in Conns : NullParser(c) /\ "others" \in astray[c]
      <3>1. SUFFICES ASSUME crashed PROVE \E c \in Conns : NullParser(c) /\ "others" \in astray[c]
        OBVIOUS
      <3>2. PICK c \in Conns : NullParser(c)
        BY <3>1 DEF WebInv, CtxInv
      <3>3. "others" \in astray[c]
        BY <2>1, <3>2 DEF NullParser
      <3> QED
        BY <3>2, <3>3
    <2>4. \A c \in freed_use : ws[c].upgraded
      BY DEF WebInv, CtxInv
    <2> QED
      BY <2>2, <2>3, <2>4 DEF CtxUse
  <1> QED
    BY <1>1, WebInvariant, PTL

=============================================================================
