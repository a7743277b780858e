-------------------------- MODULE SessionLifecycle --------------------------
(***************************************************************************)
(* One remote session from the click on "connect" to its end: app.go's     *)
(* startSession and its reconnect loop, the bridge session the browser     *)
(* attaches to (internal/wsbridge), the dial of the protocol clients, and  *)
(* the viewer tab of the frontend (frontend/src/main.js).                  *)
(*                                                                         *)
(* Three parties interleave.  The session goroutine dials, runs the client *)
(* and redials.  The tab learns of the session through two calls back from *)
(* the backend, the result of Connect and the status events, and opens the *)
(* WebSocket once it has the result.  The user may close the tab at any    *)
(* time.  The first frame a client writes blocks until the tab attached.   *)
(*                                                                         *)
(* Sessions share nothing but two maps under fresh UUIDs, so one session   *)
(* is enough.  Frames and input are left out.  Run of neither client ever  *)
(* returns nil, so the branch for that in startSession is not modelled.    *)
(***************************************************************************)
EXTENDS Naturals, Sequences

CONSTANTS
    HandshakeDeadline,  \* the handshake is bounded in time: rdp.Dial, not rfb.Dial
    InitialDelay,       \* reconnectInitialDelay
    MaxDelay,           \* reconnectMaxDelay
    UiQueueBound        \* bound: calls under way to the webview

ASSUME LifecycleAssumption ==
    /\ HandshakeDeadline \in BOOLEAN
    /\ InitialDelay \in Nat \ {0} /\ MaxDelay \in Nat /\ InitialDelay <= MaxDelay
    /\ UiQueueBound \in Nat \ {0, 1}

VARIABLES
    \* the session goroutine (before it exists, startSession)
    pc,            \* where it is, see Steps
    started,       \* the first dial succeeded: the session exists
    returned,      \* startSession has returned the session to the webview
    cancelled,     \* its context is cancelled
    live,          \* it is in App.live, where Disconnect looks for it
    delay,         \* the current reconnect delay
    misses,        \* history: redials that failed since the last success
    lastEmitted,   \* history: the last status emitted
    linkUp,        \* the TCP connection in use works
    \* the bridge session
    attached,      \* attachedCh is closed
    closed,        \* closedCh is closed and the bridge has forgotten the session
    \* the tab
    tab,           \* "open" or "closed" by the user
    known,         \* it has the session id
    uiStatus,      \* what it shows
    ws,            \* its WebSocket: "none", "opening", "open", "closed"
    discPending,   \* a call of Disconnect is under way to the backend
    \* the environment
    ui,            \* calls under way to the webview, in order
    server         \* "up", "silent" (accepts, then says nothing) or "down"

sessionVars == <<pc, started, returned, cancelled, live, delay, misses, lastEmitted, linkUp>>
bridgeVars == <<attached, closed>>
tabVars == <<tab, known, uiStatus, ws, discPending>>
vars == <<sessionVars, bridgeVars, tabVars, ui, server>>

-----------------------------------------------------------------------------
Steps == {"tcp",        \* in net.Dialer.DialContext
          "handshake",  \* in the client's handshake, which ignores the context
          "init",       \* in Run, writing the first frame
          "running",    \* in Run's read loop, the context being watched
          "ranOut",     \* Run returned an error and the client is closed
          "backoff",    \* waiting for the delay or the context
          "ended",      \* returned, deferred clean-up done
          "failed"}     \* the first dial failed: no session
Statuses == {"connecting", "connected", "reconnecting", "error", "disconnected"}

Status(s) == [kind |-> "status", state |-> s]
Result == [kind |-> "result"]
Reject == [kind |-> "reject"]
UiCalls == [kind : {"status"}, state : Statuses] \cup {Result, Reject}

TypeOK ==
    /\ pc \in Steps
    /\ started \in BOOLEAN /\ returned \in BOOLEAN /\ cancelled \in BOOLEAN /\ live \in BOOLEAN
    /\ delay \in InitialDelay..MaxDelay
    /\ misses \in 0..MaxDelay
    /\ lastEmitted \in Statuses
    /\ linkUp \in BOOLEAN /\ attached \in BOOLEAN /\ closed \in BOOLEAN
    /\ tab \in {"open", "closed"} /\ known \in BOOLEAN /\ uiStatus \in Statuses
    /\ ws \in {"none", "opening", "open", "closed"}
    /\ discPending \in BOOLEAN
    /\ ui \in Seq(UiCalls)
    /\ server \in {"up", "silent", "down"}

\* The user clicked "connect": the tab exists, startSession announced
\* "connecting" and is dialling.
Init ==
    /\ pc = "tcp" /\ started = FALSE /\ returned = FALSE /\ cancelled = FALSE /\ live = FALSE
    /\ delay = InitialDelay /\ misses = 0
    /\ lastEmitted = "connecting"
    /\ linkUp = FALSE /\ attached = FALSE /\ closed = FALSE
    /\ tab = "open" /\ known = FALSE /\ uiStatus = "connecting" /\ ws = "none"
    /\ discPending = FALSE
    /\ ui = <<Status("connecting")>>
    /\ server \in {"up", "silent", "down"}

-----------------------------------------------------------------------------
(* The session goroutine.                                                  *)

\* The calls to the webview are queued in the order they are made.
Call(calls) == /\ Len(ui) + Len(calls) <= UiQueueBound
               /\ ui' = ui \o calls
Emit(s) == Call(<<Status(s)>>) /\ lastEmitted' = s

\* The goroutine returns: out of App.live, bridge session closed, its
\* WebSocket with it, context cancelled.
End ==
    /\ Emit("disconnected")
    /\ pc' = "ended" /\ live' = FALSE /\ cancelled' = TRUE
    /\ closed' = TRUE
    /\ ws' = IF ws = "open" THEN "closed" ELSE ws

\* The next delay: doubled, at most MaxDelay.  (The mutant is not capped.)
DoubledDelayUncapped == 2 * delay
DoubledDelay == IF 2 * delay > MaxDelay THEN MaxDelay ELSE 2 * delay

\* Where a failed redial leads: back to the top of the loop, which runs the
\* dead client again.  (The mutant gives up.)
AfterFailedRedialGivesUp == "failed"
AfterFailedRedial == "init"

\* A dial failed: the first one ends in an error, a later one ends the
\* session if it was cancelled and is retried otherwise.
DialFailed ==
    /\ linkUp' = FALSE
    /\ IF ~started
       THEN /\ Call(<<Status("error"), Reject>>) /\ lastEmitted' = "error"
            /\ pc' = "failed" /\ cancelled' = TRUE
            /\ UNCHANGED <<live, misses, closed, ws>>
       ELSE IF cancelled
       THEN End /\ UNCHANGED misses
       ELSE /\ pc' = AfterFailedRedial
            /\ misses' = IF misses = MaxDelay THEN misses ELSE misses + 1
            /\ UNCHANGED <<cancelled, live, lastEmitted, closed, ws, ui>>
    /\ UNCHANGED <<started, returned, delay, attached, tab, known, uiStatus, discPending, server>>

\* Only the TCP connect itself heeds the context.
TcpConnected ==
    /\ pc = "tcp" /\ ~cancelled /\ server # "down"
    /\ pc' = "handshake"
    /\ linkUp' = TRUE
    /\ UNCHANGED <<started, returned, cancelled, live, delay, misses, lastEmitted, bridgeVars, tabVars,
                   ui, server>>

TcpFailed ==
    /\ pc = "tcp" /\ (cancelled \/ server = "down")
    /\ DialFailed

\* The delay after a successful redial.  (The mutant forgets to reset it.)
DelayKept == delay
DelayAfterSuccess == InitialDelay

\* The client is ready.  The first time the bridge session is created and
\* entered in App.live before the tab hears of it, and the goroutine is
\* started before startSession returns.
HandshakeDone ==
    /\ pc = "handshake" /\ linkUp /\ server = "up"
    /\ pc' = "init"
    /\ started' = TRUE
    /\ live' = TRUE
    /\ delay' = IF started THEN DelayAfterSuccess ELSE delay
    /\ misses' = 0
    /\ Emit("connected")
    /\ UNCHANGED <<returned, cancelled, linkUp, bridgeVars, tabVars, server>>

\* startSession returns, and with it Connect, while the goroutine runs.
ReturnResult ==
    /\ started /\ ~returned
    /\ returned' = TRUE
    /\ Call(<<Result>>)
    /\ UNCHANGED <<pc, started, cancelled, live, delay, misses, lastEmitted, linkUp, bridgeVars,
                   tabVars, server>>

\* The connection is lost, the deadline passes, or, the first time, the server
\* refuses (say, the password).
HandshakeFailed ==
    /\ pc = "handshake"
    /\ \/ ~linkUp
       \/ HandshakeDeadline /\ server = "silent"
       \/ ~started /\ server = "up"
    /\ DialFailed

\* Session.write waits for the tab to attach or the session to close.  (The
\* mutant lets frames through before anyone listens.)
WriteReadyAlways == TRUE
WriteReady == attached \/ closed

\* Run has written its first frame; from here on it watches the context.
InitWritten ==
    /\ pc = "init" /\ WriteReady
    /\ pc' = "running"
    /\ UNCHANGED <<started, returned, cancelled, live, delay, misses, lastEmitted, linkUp, bridgeVars,
                   tabVars, ui, server>>

\* The context watcher closes the connection.  (The mutant has no watcher.)
WatcherAbsent == FALSE
WatcherFires == cancelled

\* Run's read fails, because the connection is gone or the watcher closed
\* it; startSession closes the client.
RunFails ==
    /\ pc = "running" /\ (~linkUp \/ WatcherFires)
    /\ pc' = "ranOut"
    /\ linkUp' = FALSE
    /\ UNCHANGED <<started, returned, cancelled, live, delay, misses, lastEmitted, bridgeVars, tabVars,
                   ui, server>>

RunReturned ==
    /\ pc = "ranOut"
    /\ IF cancelled THEN End
       ELSE /\ Emit("reconnecting")
            /\ pc' = "backoff"
            /\ UNCHANGED <<cancelled, live, closed, ws>>
    /\ UNCHANGED <<started, returned, delay, misses, linkUp, attached, tab, known, uiStatus, discPending,
                   server>>

\* The delay is over first ...
TimerFires ==
    /\ pc = "backoff"
    /\ pc' = "tcp"
    /\ delay' = IF delay < MaxDelay THEN DoubledDelay ELSE delay
    /\ UNCHANGED <<started, returned, cancelled, live, misses, lastEmitted, linkUp, bridgeVars, tabVars,
                   ui, server>>

\* ... or the context is.
BackoffCancelled ==
    /\ pc = "backoff" /\ cancelled
    /\ End
    /\ UNCHANGED <<started, returned, delay, misses, linkUp, attached, tab, known, uiStatus, discPending,
                   server>>

\* App.Disconnect: nothing to do for a session that is not live.
Disconnect ==
    /\ discPending
    /\ discPending' = FALSE
    /\ cancelled' = (cancelled \/ live)
    /\ UNCHANGED <<pc, started, returned, live, delay, misses, lastEmitted, linkUp, bridgeVars, tab, known,
                   uiStatus, ws, ui, server>>

-----------------------------------------------------------------------------
(* The tab.                                                                *)

\* A status event is shown if it names a session this tab knows.
StatusArrives ==
    /\ ui # <<>> /\ Head(ui).kind = "status"
    /\ ui' = Tail(ui)
    /\ uiStatus' = IF known THEN Head(ui).state ELSE uiStatus
    /\ UNCHANGED <<sessionVars, bridgeVars, tab, known, ws, discPending, server>>

\* Connect's promise resolves.  A tab closed meanwhile asks to disconnect; an
\* open one adopts the session and opens its WebSocket.
ResultArrives ==
    /\ ui # <<>> /\ Head(ui).kind = "result"
    /\ ui' = Tail(ui)
    /\ IF tab = "closed"
       THEN discPending' = TRUE /\ UNCHANGED <<known, uiStatus, ws>>
       ELSE /\ known' = TRUE
            /\ uiStatus' = IF uiStatus # "error" THEN "connected" ELSE uiStatus
            /\ ws' = "opening"
            /\ UNCHANGED discPending
    /\ UNCHANGED <<sessionVars, bridgeVars, tab, server>>

RejectArrives ==
    /\ ui # <<>> /\ Head(ui).kind = "reject"
    /\ ui' = Tail(ui)
    /\ uiStatus' = IF tab = "open" THEN "error" ELSE uiStatus
    /\ UNCHANGED <<sessionVars, bridgeVars, tab, known, ws, discPending, server>>

\* The bridge accepts the WebSocket, unless it no longer knows the session.
WsOpens ==
    /\ ws = "opening"
    /\ ws' = IF closed THEN "closed" ELSE "open"
    /\ attached' = (attached \/ ~closed)
    /\ UNCHANGED <<sessionVars, closed, tab, known, uiStatus, discPending, ui, server>>

\* The bridge drops the WebSocket on a frame it refuses to read.
WsDrops ==
    /\ ws = "open"
    /\ ws' = "closed"
    /\ UNCHANGED <<sessionVars, bridgeVars, tab, known, uiStatus, discPending, ui, server>>

\* The user closes the tab: the WebSocket is closed, even while it is still
\* opening, and the session, if the tab knows one, is to be disconnected.
CloseTab ==
    /\ tab = "open"
    /\ tab' = "closed"
    /\ ws' = IF ws \in {"opening", "open"} THEN "closed" ELSE ws
    /\ discPending' = known
    /\ UNCHANGED <<sessionVars, bridgeVars, known, uiStatus, ui, server>>

-----------------------------------------------------------------------------
(* The server comes and goes; going down it takes the connection along.    *)
ServerChanges ==
    /\ server' \in {"up", "silent", "down"} \ {server}
    /\ linkUp' = (linkUp /\ server' # "down")
    /\ UNCHANGED <<pc, started, returned, cancelled, live, delay, misses, lastEmitted, bridgeVars,
                   tabVars, ui>>

-----------------------------------------------------------------------------
Dial == TcpConnected \/ TcpFailed \/ HandshakeDone \/ HandshakeFailed
Session == InitWritten \/ RunFails \/ RunReturned \/ TimerFires \/ BackoffCancelled
Webview == StatusArrives \/ ResultArrives \/ RejectArrives
Next == \/ Dial \/ ReturnResult \/ Session \/ Webview \/ Disconnect
        \/ WsOpens \/ WsDrops \/ CloseTab \/ ServerChanges

Spec == Init /\ [][Next]_vars

\* Goroutines run when they can, the TCP connect and the delays are bounded,
\* the webview handles its calls and opens the sockets it was asked to open.
\* Nothing is assumed of the user or of the server.
FairSpec ==
    /\ Spec
    /\ WF_vars(Dial) /\ WF_vars(ReturnResult) /\ WF_vars(Session) /\ WF_vars(Webview)
    /\ WF_vars(Disconnect) /\ WF_vars(WsOpens)

-----------------------------------------------------------------------------
(* Properties.                                                             *)

\* No status is lost on the tab although it cannot match an event to itself
\* before Connect's result is in: once every call has arrived, an open tab
\* that knows its session shows what was emitted last.
NoStatusLost == ui = <<>> /\ known /\ tab = "open" => uiStatus = lastEmitted

\* The delay after n failed redials in a row.
Backoff[n \in 0..MaxDelay] ==
    IF n = 0 THEN InitialDelay
    ELSE IF 2 * Backoff[n - 1] > MaxDelay THEN MaxDelay ELSE 2 * Backoff[n - 1]

\* The wait before a redial is the exponential backoff of the failures since
\* the last success, however connects and failures alternated before.
BackoffExact == pc = "backoff" => delay = Backoff[misses]

\* "Disconnect tears down a live session": closing a tab whose WebSocket was
\* once attached ends the session, wherever the loop is at that moment.
ClosingAttachedTabEnds == (tab = "closed" /\ attached) ~> (pc = "ended")

\* "Never given up on outright": a session the tab attached to is running, or
\* comes back once the server stays up, unless the tab is closed.
Reconnects ==
    (started /\ attached) ~> ((pc = "running" /\ linkUp) \/ server # "up" \/ tab = "closed")

\* "Disconnect tears down a live session", for every tab the user closes.
ClosingTabEnds == (tab = "closed") ~> (pc \in {"ended", "failed"})
=============================================================================
