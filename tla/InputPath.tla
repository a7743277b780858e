----------------------------- MODULE InputPath -----------------------------
(***************************************************************************)
(* Mouse and keyboard on their way to the remote desktop: the viewer's     *)
(* event handlers (frontend/src/viewer.js), which coalesce mouse moves to  *)
(* one per animation frame, the bridge that hands each frame to the client *)
(* in use (wsbridge/session.go, handleInput), and the messages of the two  *)
(* protocols (rfb/messages.go, rdp/input.go).                              *)
(*                                                                         *)
(* Mouse events are numbered, and a position is the number of the event    *)
(* that reported it: older and newer positions can be told apart.  The     *)
(* server (external) does with a message what its protocol says.  The      *)
(* connection may drop and be replaced while events are under way.         *)
(***************************************************************************)
EXTENDS Naturals, Sequences, SequencesExt

CONSTANTS
    Protocols,    \* the protocols of the sessions considered
    Buttons,      \* the mouse buttons in use
    MaxEvents,    \* bound: mouse events
    MaxStrokes,   \* bound: key presses
    MaxDrops,     \* bound: connections lost
    QueueBound    \* bound: frames, and messages, under way

ASSUME InputAssumption ==
    /\ Protocols # {} /\ Protocols \subseteq {"vnc", "rdp"}
    /\ Buttons # {} /\ Buttons \subseteq {"left", "middle", "right"}
    /\ MaxEvents \in Nat /\ MaxStrokes \in Nat /\ MaxDrops \in Nat
    /\ QueueBound \in Nat \ {0, 1}

VARIABLES
    proto,        \* the session's protocol
    \* the user
    log,          \* history: the buttons held after each mouse event
    keys,         \* the keys held
    strokes,      \* key presses so far
    \* the viewer
    pendingMove,  \* the move that waits for an animation frame, 0 if none
    buttonMask,   \* the buttons it takes to be held
    \* the bridge
    frames,       \* input frames on the WebSocket
    hand,         \* the frame in handleInput, with the client it goes to
    input,        \* the client in use: its number
    \* the connection
    up,           \* it works
    wire,         \* messages under way to the server
    remote,       \* the server's pointer, buttons and keys
    lost          \* history: input was lost after the latest mouse event

userVars == <<proto, log, keys, strokes>>
viewerVars == <<pendingMove, buttonMask>>
linkVars == <<input, up, wire, remote>>
vars == <<userVars, viewerVars, frames, hand, linkVars, lost>>

-----------------------------------------------------------------------------
Wheel == "wheel"
Masks == SUBSET (Buttons \cup {Wheel})
Held(n) == IF n = 0 THEN {} ELSE log[n]

Keys == {"shift", "letter"}

\* What the viewer sends for a key.  keysymFor asks the event for the
\* character, which depends on Shift; scancodeFor for the physical key.
KeyFor(k) == IF proto = "vnc" /\ k = "letter" /\ "shift" \in keys THEN "LETTER" ELSE k
Symbols == Keys \cup {"LETTER"}

Pointer(n, mask) == [kind |-> "pointer", at |-> n, mask |-> mask]
Key(sym, down) == [kind |-> "key", sym |-> sym, down |-> down]
Frames == [kind : {"pointer"}, at : 1 .. MaxEvents, mask : Masks]
          \cup [kind : {"key"}, sym : Symbols, down : BOOLEAN]

\* What the RDP server is told about the mouse: the buttons named by the
\* message and whether they went down.
Flags(n, named, down) == [kind |-> "flags", at |-> n, named |-> named, down |-> down]
Messages == Frames \cup [kind : {"flags"}, at : 0 .. MaxEvents, named : Masks, down : BOOLEAN]

NoFrame == [kind |-> "none"]
Desktop == [at : 0 .. MaxEvents, held : Masks, keys : SUBSET Symbols]
Untouched == [at |-> 0, held |-> {}, keys |-> {}]

TypeOK ==
    /\ proto \in Protocols
    /\ log \in Seq(SUBSET Buttons) /\ Len(log) <= MaxEvents
    /\ keys \subseteq Keys /\ strokes \in 0 .. MaxStrokes
    /\ pendingMove \in 0 .. Len(log) /\ buttonMask \subseteq Buttons
    /\ frames \in Seq(Frames)
    /\ hand \in [frame : Frames, to : 0 .. MaxDrops] \cup {NoFrame}
    /\ input \in 0 .. MaxDrops /\ up \in BOOLEAN
    /\ wire \in Seq(Messages) /\ remote \in Desktop /\ lost \in BOOLEAN

Init ==
    /\ proto \in Protocols
    /\ log = <<>> /\ keys = {} /\ strokes = 0
    /\ pendingMove = 0 /\ buttonMask = {}
    /\ frames = <<>> /\ hand = NoFrame
    /\ input = 0 /\ up = TRUE /\ wire = <<>> /\ remote = Untouched
    /\ lost = FALSE

-----------------------------------------------------------------------------
(* The user and the viewer's handlers.                                     *)

Now == Len(log) + 1
MouseEvent(mask) ==
    /\ Len(log) < MaxEvents
    /\ log' = Append(log, mask)
    /\ lost' = FALSE
    /\ UNCHANGED <<proto, keys, strokes, hand, linkVars>>

\* A move waits for the next animation frame; a newer one replaces it.
\* (The mutant keeps the move that waits already.)
OnPointerMoveKeepsFirst ==
    /\ MouseEvent(buttonMask)
    /\ pendingMove' = IF pendingMove = 0 THEN Now ELSE pendingMove
    /\ UNCHANGED <<buttonMask, frames>>
OnPointerMove ==
    /\ MouseEvent(buttonMask)
    /\ pendingMove' = Now
    /\ UNCHANGED <<buttonMask, frames>>

FlushMove ==
    /\ pendingMove # 0
    /\ pendingMove' = 0
    /\ frames' = Append(frames, Pointer(pendingMove, buttonMask))
    /\ Len(frames) < QueueBound
    /\ UNCHANGED <<userVars, buttonMask, hand, linkVars, lost>>

\* A button or the wheel: the waiting move is dropped and the event sent.
SendsAtOnce(mask, sent) ==
    /\ MouseEvent(mask)
    /\ pendingMove' = 0
    /\ buttonMask' = mask
    /\ Len(frames) + Len(sent) <= QueueBound
    /\ frames' = frames \o sent

OnPointerDown(b) ==
    /\ b \notin buttonMask
    /\ SendsAtOnce(buttonMask \cup {b}, <<Pointer(Now, buttonMask \cup {b})>>)
\* (The mutant keeps the move that waits.)
OnPointerUpKeepsMove(b) ==
    /\ b \in buttonMask
    /\ MouseEvent(buttonMask \ {b})
    /\ buttonMask' = buttonMask \ {b}
    /\ frames' = Append(frames, Pointer(Now, buttonMask \ {b}))
    /\ UNCHANGED pendingMove
OnPointerUp(b) ==
    /\ b \in buttonMask
    /\ SendsAtOnce(buttonMask \ {b}, <<Pointer(Now, buttonMask \ {b})>>)
\* (The mutant leaves the wheel's bit in the mask.)
OnWheelSticks ==
    SendsAtOnce(buttonMask \cup {Wheel}, <<Pointer(Now, buttonMask \cup {Wheel})>>)
OnWheel ==
    SendsAtOnce(buttonMask, <<Pointer(Now, buttonMask \cup {Wheel}), Pointer(Now, buttonMask)>>)

Stroke(k, held, down) ==
    /\ keys' = held
    /\ Len(frames) < QueueBound
    /\ frames' = Append(frames, Key(KeyFor(k), down))
    /\ UNCHANGED <<proto, log, viewerVars, hand, linkVars, lost>>
OnKeyDown(k) ==
    /\ k \notin keys /\ strokes < MaxStrokes /\ strokes' = strokes + 1
    /\ Stroke(k, keys \cup {k}, TRUE)
\* (The mutant takes the release of a letter under Shift for a key it does not know.)
OnKeyUpUnderShift(k) ==
    /\ k \in keys /\ UNCHANGED strokes
    /\ IF "shift" \in keys \ {k}
       THEN keys' = keys \ {k} /\ UNCHANGED <<proto, log, viewerVars, frames, hand, linkVars, lost>>
       ELSE Stroke(k, keys \ {k}, FALSE)
OnKeyUp(k) == k \in keys /\ UNCHANGED strokes /\ Stroke(k, keys \ {k}, FALSE)

-----------------------------------------------------------------------------
(* The bridge and the clients.                                             *)

\* handleInput: the client is read under the mutex and used after it.
HandleInput ==
    /\ frames # <<>> /\ hand = NoFrame
    /\ hand' = [frame |-> Head(frames), to |-> input]
    /\ frames' = Tail(frames)
    /\ UNCHANGED <<userVars, viewerVars, linkVars, lost>>

\* rdp.SendPointerEvent: a wheel event of its own, or a move with the flags of
\* the buttons that are down.
RdpPointer(f) == IF Wheel \in f.mask THEN Flags(f.at, {Wheel}, TRUE)
                                     ELSE Flags(f.at, f.mask, f.mask # {})
Translate(f) == IF f.kind = "key" \/ proto = "vnc" THEN f ELSE RdpPointer(f)

\* SendPointerEvent, SendKeyEvent: a client whose connection is gone fails,
\* and the bridge drops the error.
SendEvent ==
    /\ hand # NoFrame /\ Len(wire) < QueueBound
    /\ hand' = NoFrame
    /\ IF up /\ hand.to = input
       THEN wire' = Append(wire, Translate(hand.frame)) /\ UNCHANGED lost
       ELSE lost' = TRUE /\ UNCHANGED wire
    /\ UNCHANGED <<userVars, viewerVars, frames, input, up, remote>>

Drop ==
    /\ up /\ input < MaxDrops
    /\ up' = FALSE /\ wire' = <<>> /\ lost' = TRUE
    /\ UNCHANGED <<userVars, viewerVars, frames, hand, input, remote>>

\* The redial succeeded: SetInput.  The new server has seen no input yet.
SetInput ==
    /\ ~up
    /\ up' = TRUE /\ input' = input + 1 /\ remote' = Untouched /\ lost' = TRUE
    /\ UNCHANGED <<userVars, viewerVars, frames, hand, wire>>

-----------------------------------------------------------------------------
(* The server.                                                             *)

Reacts(r, m) ==
    CASE m.kind = "pointer" -> [r EXCEPT !.at = m.at, !.held = m.mask]
      [] m.kind = "key" -> [r EXCEPT !.keys = IF m.down THEN @ \cup {m.sym} ELSE @ \ {m.sym}]
      [] m.kind = "flags" /\ Wheel \in m.named -> r
      [] m.kind = "flags" /\ Wheel \notin m.named ->
             [r EXCEPT !.at = m.at, !.held = IF m.down THEN @ \cup m.named ELSE @ \ m.named]

ServerReads ==
    /\ up /\ wire # <<>>
    /\ remote' = Reacts(remote, Head(wire))
    /\ wire' = Tail(wire)
    /\ UNCHANGED <<userVars, viewerVars, frames, hand, input, up, lost>>

Next ==
    \/ OnPointerMove \/ FlushMove \/ OnWheel
    \/ \E b \in Buttons : OnPointerDown(b) \/ OnPointerUp(b)
    \/ \E k \in Keys : OnKeyDown(k) \/ OnKeyUp(k)
    \/ HandleInput \/ SendEvent \/ ServerReads
    \/ Drop \/ SetInput

\* Animation frames come, the bridge and the server read what has arrived.
Spec ==
    /\ Init /\ [][Next]_vars
    /\ WF_vars(FlushMove) /\ WF_vars(HandleInput) /\ WF_vars(SendEvent)
    /\ WF_vars(ServerReads)
-----------------------------------------------------------------------------
\* What the server sees of the mouse is at every moment a state the mouse was
\* in: the buttons it takes to be down are those that were down when the
\* pointer was where it has it ("clicks never land at a stale position or get
\* reordered against a queued move", viewer.js:247; buttons in input.go:36).
ButtonsFollow == up => remote.held \ {Wheel} = Held(remote.at)
VncButtonsFollow == proto = "vnc" => ButtonsFollow

\* A key that is up is up on the server too once everything sent has arrived,
\* whatever was lost with a connection (viewer.js, onKeyUp).
Quiet == up /\ frames = <<>> /\ hand = NoFrame /\ wire = <<>>
KeysFollow == Quiet => remote.keys \subseteq {KeyFor(k) : k \in keys}
RdpKeysFollow == proto = "rdp" => KeysFollow

\* Within a connection the remote pointer never goes back to where the mouse
\* was earlier (flushMove and dropPendingMove).
NeverBackwards == [][input' = input => remote'.at >= remote.at]_vars

\* When the mouse rests the remote pointer comes to rest at the same place,
\* with no wheel turning, unless input was lost with a connection.
Settles == <>[](lost \/ (remote.at = Len(log) /\ Wheel \notin remote.held))
=============================================================================
