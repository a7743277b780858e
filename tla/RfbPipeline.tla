---------------------------- MODULE RfbPipeline ----------------------------
(***************************************************************************)
(* The update loop of the VNC client (internal/rfb: Run,                   *)
(* handleFramebufferUpdate, noteUpdate, sendNextRequest) against a server. *)
(*                                                                         *)
(* The client keeps one FramebufferUpdateRequest in flight.  It sends the  *)
(* next one either before it decodes an update's rectangles (pipelined) or *)
(* after, and lets a tuner change the pixel format between updates.  The   *)
(* bytes of an update carry no format tag: the client decodes them with    *)
(* its own idea of the format, `level', so that idea must agree with what  *)
(* the server used although both directions are asynchronous.              *)
(*                                                                         *)
(* Abstractions.  The screen is a row of cells 1..width.  A rectangle is   *)
(* its kind; the pixels are left out.  What noteUpdate measures (bytes,    *)
(* times, throughput) is nondeterministic, its guards and its effects on   *)
(* lastFast, wantLevel and cooldown are kept.  A SetPixelFormat and the    *)
(* SetEncodings written with it are one message.  Bell, cut text, colour   *)
(* maps and input events touch none of this state.  The connection does    *)
(* not fail here; SessionLifecycle models what a failure leads to.         *)
(***************************************************************************)
EXTENDS Naturals, Sequences

CONSTANTS
    MaxLevel,        \* the pixel levels are 0..MaxLevel, 0 being full colour
    AdaptCooldown,   \* updates the tuner skips after asking for a new level
    MaxWidth,        \* bound: the widest screen
    MaxResizes,      \* bound: how often the server's screen changes size
    ResizeAlone      \* the server reports a size change in an update of its own

ASSUME PipelineAssumption ==
    /\ MaxLevel \in Nat \ {0}
    /\ AdaptCooldown \in Nat \ {0}
    /\ MaxWidth \in Nat \ {0}
    /\ MaxResizes \in Nat
    /\ ResizeAlone \in BOOLEAN

VARIABLES
    \* the client
    phase,           \* "dialed", "idle" (reading a message type), "rects", "failed"
    level,           \* the format rectangles are decoded with
    sentLevel,       \* the format last sent to the server
    wantLevel,       \* the format the tuner would like next
    lastFast,        \* the previous update was small or quick
    cooldown,        \* updates left before the tuner judges again
    width,           \* the screen size the client knows
    pipelined,       \* the request after the current update is already sent
    rects,           \* rectangles of the current update not yet decoded
    usedTight,       \* a Tight rectangle was decoded in the current update
    curFmt,          \* the format the server encoded the current update in
    \* the two directions of the TCP connection
    toServer, toClient,
    \* the server
    srvFmt,          \* the format in force
    srvTight,        \* the client accepts Tight
    srvReq,          \* width of the pending update request, 0 for none
    srvWidth,        \* the real screen size
    resized,         \* the client has not been told of the real size
    dirty,           \* cells that changed since they were last sent
    resizes          \* how often the size changed so far

clientVars == <<phase, level, sentLevel, wantLevel, lastFast, cooldown, width,
                pipelined, rects, usedTight, curFmt>>
serverVars == <<srvFmt, srvTight, srvReq, srvWidth, resized, dirty, resizes>>
vars == <<clientVars, toServer, toClient, serverVars>>

-----------------------------------------------------------------------------
Levels == 0..MaxLevel
Widths == 1..MaxWidth

\* Mutants of FormatMsg, for the properties' sensitivity: levels counted
\* from one, and Tight offered at every level.
FormatMsgOffByOne(l) == [type |-> "format", level |-> l + 1, tight |-> l = 0]
FormatMsgAlwaysTight(l) == [type |-> "format", level |-> l, tight |-> TRUE]

\* SetPixelFormat for level l, and the SetEncodings that goes with it: Tight
\* is offered only at full colour.
FormatMsg(l) == [type |-> "format", level |-> l, tight |-> l = 0]
RequestMsg(inc, w) == [type |-> "request", incremental |-> inc, width |-> w]

ClientMessages == [type : {"format"}, level : Levels, tight : BOOLEAN]
                    \cup [type : {"request"}, incremental : BOOLEAN, width : Widths]
Rects == [kind : {"pixels", "tight"}] \cup [kind : {"size"}, width : Widths]
Updates == [fmt : Levels, rects : Seq(Rects)]

TypeOK ==
    /\ phase \in {"dialed", "idle", "rects", "failed"}
    /\ level \in Levels /\ sentLevel \in Levels /\ wantLevel \in Levels
    /\ lastFast \in BOOLEAN /\ pipelined \in BOOLEAN /\ usedTight \in BOOLEAN
    /\ cooldown \in 0..AdaptCooldown
    /\ width \in Widths
    /\ rects \in Seq(Rects)
    /\ curFmt \in Levels
    /\ toServer \in Seq(ClientMessages)
    /\ toClient \in Seq(Updates)
    /\ srvFmt \in Levels /\ srvTight \in BOOLEAN
    /\ srvReq \in 0..MaxWidth
    /\ srvWidth \in Widths
    /\ resized \in BOOLEAN
    /\ dirty \in SUBSET Widths
    /\ resizes \in 0..MaxResizes

\* Dial has returned: the handshake sent the formats for the start level,
\* which is 1 on a far link and 0 otherwise.
Init ==
    /\ phase = "dialed"
    /\ level \in {0, 1} /\ sentLevel = level /\ wantLevel = level
    /\ lastFast = FALSE
    /\ cooldown = 0
    /\ width \in Widths
    /\ pipelined = FALSE /\ rects = <<>> /\ usedTight = FALSE /\ curFmt = level
    /\ toServer = <<FormatMsg(level)>>
    /\ toClient = <<>>
    /\ srvFmt = 0 /\ srvTight = FALSE /\ srvReq = 0
    /\ srvWidth = width /\ resized = FALSE /\ dirty = {} /\ resizes = 0

-----------------------------------------------------------------------------
(* The client.                                                             *)

\* Run asks for the whole screen before it starts reading.
StartRun ==
    /\ phase = "dialed"
    /\ phase' = "idle"
    /\ toServer' = Append(toServer, RequestMsg(FALSE, width))
    /\ UNCHANGED <<level, sentLevel, wantLevel, lastFast, cooldown, width, pipelined,
                   rects, usedTight, curFmt, toClient, serverVars>>

\* Mutant of SendNextRequest: the request overtakes the format it relies on.
SendNextRequestFirst(want, w) ==
    /\ toServer' = toServer \o (IF want # sentLevel
                                THEN <<RequestMsg(TRUE, w), FormatMsg(want)>>
                                ELSE <<RequestMsg(TRUE, w)>>)
    /\ sentLevel' = want

\* Announce the wanted level if it is not the one in force, then ask for the
\* next update of the screen as the client knows it.
SendNextRequest(want, w) ==
    /\ toServer' = toServer \o (IF want # sentLevel
                                THEN <<FormatMsg(want), RequestMsg(TRUE, w)>>
                                ELSE <<RequestMsg(TRUE, w)>>)
    /\ sentLevel' = want

\* The header of an update arrives.  If the previous update was fast the next
\* request goes out now, before any rectangle is decoded.
ReadHeader ==
    /\ phase = "idle"
    /\ toClient # <<>>
    /\ phase' = "rects"
    /\ rects' = Head(toClient).rects
    /\ curFmt' = Head(toClient).fmt
    /\ toClient' = Tail(toClient)
    /\ usedTight' = FALSE
    /\ pipelined' = lastFast
    /\ IF lastFast THEN SendNextRequest(wantLevel, width)
                   ELSE UNCHANGED <<toServer, sentLevel>>
    /\ UNCHANGED <<level, wantLevel, lastFast, cooldown, width, serverVars>>

\* The size the client knows after rectangle r.  (The mutant forgets to adopt
\* a new one.)
WidthAfterKept(r) == width
WidthAfter(r) == IF r.kind = "size" THEN r.width ELSE width

\* One rectangle is decoded.  A Tight rectangle at a reduced level is a
\* protocol error that ends the connection; a size change is adopted.
DecodeRect ==
    /\ phase = "rects"
    /\ rects # <<>>
    /\ rects' = Tail(rects)
    /\ LET r == Head(rects) IN
         /\ phase' = IF r.kind = "tight" /\ level # 0 THEN "failed" ELSE phase
         /\ usedTight' = (usedTight \/ r.kind = "tight")
         /\ width' = WidthAfter(r)
    /\ UNCHANGED <<level, sentLevel, wantLevel, lastFast, cooldown, pipelined, curFmt,
                   toServer, toClient, serverVars>>

\* How long the tuner pauses after a decision.  (The mutant does not.)
NoPause == 0
Pause == AdaptCooldown

\* The tuner: an update with Tight teaches it nothing, a cooling tuner only
\* counts down, and otherwise it may settle on another level.
NoteUpdate ==
    \/ usedTight /\ UNCHANGED <<wantLevel, cooldown>>
    \/ /\ ~usedTight /\ cooldown > 0
       /\ cooldown' = cooldown - 1
       /\ UNCHANGED wantLevel
    \/ /\ ~usedTight /\ cooldown = 0
       /\ \/ UNCHANGED <<wantLevel, cooldown>>
          \/ /\ wantLevel = level
             /\ wantLevel' \in Levels \ {level}
             /\ cooldown' = Pause

\* Whether the next request is still to be sent when an update is done, and
\* the level to decode the following updates with.  (The mutants always send
\* it, and adopt a level before the server has been told.)
AskAtEndAlways == TRUE
AskAtEnd == ~pipelined
LevelWanted == wantLevel'
LevelInForce == sentLevel'

\* The last rectangle is done: note the update, send the next request unless
\* it went out already, and decode from now on in the format last sent.
FinishUpdate ==
    /\ phase = "rects"
    /\ rects = <<>>
    /\ phase' = "idle"
    /\ lastFast' \in BOOLEAN
    /\ NoteUpdate
    /\ IF AskAtEnd THEN SendNextRequest(wantLevel', width)
                   ELSE UNCHANGED <<toServer, sentLevel>>
    /\ level' = LevelInForce
    /\ UNCHANGED <<width, pipelined, rects, usedTight, curFmt, toClient, serverVars>>

-----------------------------------------------------------------------------
(* The server: a conforming one.  It handles messages in order, sends an   *)
(* update only for a pending request, and then all that changed in it.     *)

ServerRead ==
    /\ toServer # <<>>
    /\ toServer' = Tail(toServer)
    /\ LET m == Head(toServer) IN
         \/ /\ m.type = "format"
            /\ srvFmt' = m.level /\ srvTight' = m.tight
            /\ UNCHANGED <<srvReq, dirty>>
         \/ /\ m.type = "request"
            /\ srvReq' = m.width
            /\ dirty' = IF m.incremental THEN dirty ELSE 1..srvWidth
            /\ UNCHANGED <<srvFmt, srvTight>>
    /\ UNCHANGED <<clientVars, toClient, srvWidth, resized, resizes>>

\* Something on the server's screen changes.
ServerDraw ==
    /\ \E cell \in 1..srvWidth : dirty' = dirty \cup {cell}
    /\ UNCHANGED <<clientVars, toServer, toClient, srvFmt, srvTight, srvReq, srvWidth,
                   resized, resizes>>

\* The server's screen changes size; its whole content is then new.
ServerResize ==
    /\ resizes < MaxResizes
    /\ resizes' = resizes + 1
    /\ srvWidth' \in Widths \ {srvWidth}
    /\ resized' = TRUE
    /\ dirty' = 1..srvWidth'
    /\ UNCHANGED <<clientVars, toServer, toClient, srvFmt, srvTight, srvReq>>

\* The pending request is answered: a pending size change first, alone or
\* (unless ResizeAlone) followed by the changed cells of the requested area.
\* Later format changes do not touch an update once it is composed.
ServerUpdate ==
    LET visible == dirty \cap 1..srvReq
        sizeRect == IF resized THEN <<[kind |-> "size", width |-> srvWidth]>> ELSE <<>>
        Send(pixels) ==
            toClient' = Append(toClient, [fmt |-> srvFmt, rects |-> sizeRect \o pixels])
    IN /\ srvReq # 0
       /\ srvReq' = 0
       /\ resized' = FALSE
       /\ \/ /\ resized
             /\ Send(<<>>)
             /\ UNCHANGED dirty
          \/ /\ visible # {} /\ ~(resized /\ ResizeAlone)
             /\ \/ Send(<<[kind |-> "pixels"]>>)
                \/ srvTight /\ Send(<<[kind |-> "tight"]>>)
             /\ dirty' = dirty \ visible
       /\ UNCHANGED <<clientVars, toServer, srvFmt, srvTight, srvWidth, resizes>>

-----------------------------------------------------------------------------
Client == StartRun \/ ReadHeader \/ DecodeRect \/ FinishUpdate
Server == ServerRead \/ ServerDraw \/ ServerResize \/ ServerUpdate
Next == Client \/ Server

Spec == Init /\ [][Next]_vars

\* The Run goroutine keeps going while it has something to read, and the
\* server keeps reading and keeps answering what it can answer.
FairSpec == Spec /\ WF_vars(Client) /\ WF_vars(ServerRead) /\ WF_vars(ServerUpdate)

-----------------------------------------------------------------------------
(* Properties.                                                             *)

\* Rectangles are decoded in the format the server encoded them in, although
\* the next format may already be announced and the next update composed
\* while they are being decoded (encodings.go, the comment at `c.level =
\* c.sentLevel').
FormatAgreement == phase = "rects" => curFmt = level

RequestsIn(q) == {i \in DOMAIN q : q[i].type = "request"}

\* "The invariant of never having more than one request in flight"
\* (sendNextRequest): a request is under way to the server, or pending
\* there, or answered by an update the client has not begun to read.
OneRequestInFlight ==
    /\ \A i, j \in RequestsIn(toServer) : i = j
    /\ RequestsIn(toServer) # {} => srvReq = 0 /\ toClient = <<>>
    /\ srvReq # 0 => toClient = <<>>
    /\ Len(toClient) <= 1

\* A conforming server never makes the client fail with "tight rectangle at
\* reduced pixel level": the level is only left or entered together with the
\* encodings that withdraw or offer Tight.
NoProtocolError == phase # "failed"

\* The tuner never judges while a format change of its own is under way: by
\* the time the cooldown is over the client decodes at the wanted level.
JudgesSettled == cooldown = 0 => wantLevel = level

\* The loop never starves the screen: whatever changes on the server is sent
\* in some later update (or overtaken by a resize that removes the cell),
\* also when a pipelined request went out before the client knew of a new
\* size.  Needs ResizeAlone: a server that answers with the size and pixels
\* together can leave the exposed area unsent, since the pipelined request
\* covers only the old one.
EveryChangeSent == \A cell \in Widths : cell \in dirty ~> cell \notin dirty

\* The loop implements the strict alternation of UpdateExchange.
Exchange == INSTANCE UpdateExchange WITH
    Formats <- Levels,
    turn <- IF RequestsIn(toServer) # {} \/ srvReq # 0 THEN "server" ELSE "client",
    announced <- sentLevel,
    encoded <- IF toClient # <<>> THEN toClient[1].fmt ELSE curFmt

\* Requests and updates alternate, and every update is encoded in the format
\* announced before its request (sendNextRequest's contract).
ExchangeSpec == Exchange!Spec
=============================================================================
