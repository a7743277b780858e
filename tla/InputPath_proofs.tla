-------------------------- MODULE InputPath_proofs --------------------------
(***************************************************************************)
(* Proofs about InputPath, for any number of events, buttons and lost      *)
(* connections: the remote mouse is always in a state the local one was    *)
(* in, it never goes back, and no key stays down under RDP.                *)
(*                                                                         *)
(* An event passes through four places: frames, hand, wire, remote.  The   *)
(* invariant says that positions are in order from the last place to the   *)
(* first, that what a mask says is what was held at its position, and that *)
(* for every key that is up again a release follows each press on its way. *)
(***************************************************************************)
EXTENDS InputPath, SequenceTheorems, TLAPS

\* A connection that is down carries nothing, and one may follow it; what was in hand when it was
\* replaced finds the new one untouched.
Link ==
    /\ ~up => wire = <<>> /\ input < MaxDrops
    /\ up /\ hand # NoFrame /\ hand.to # input => wire = <<>> /\ remote = Untouched
    /\ \A i \in 1 .. Len(wire) : wire[i].kind # IF proto = "vnc" THEN "flags" ELSE "pointer"

\* The messages that move the remote pointer, in the order of their positions.
Moves(m) == m.kind = "pointer" \/ (m.kind = "flags" /\ Wheel \notin m.named)
HandMoves == hand # NoFrame /\ Moves(hand.frame)

FramesInOrder ==
    /\ \A i \in 1 .. Len(frames) : Moves(frames[i]) => frames[i].at <= Len(log)
    /\ \A i \in 1 .. Len(frames) : \A j \in i .. Len(frames) :
           Moves(frames[i]) /\ Moves(frames[j]) => frames[i].at <= frames[j].at
HandInOrder ==
    HandMoves =>
        /\ hand.frame.at <= Len(log)
        /\ \A j \in 1 .. Len(frames) : Moves(frames[j]) => hand.frame.at <= frames[j].at
WireInOrder ==
    \A i \in 1 .. Len(wire) : Moves(wire[i]) =>
        /\ wire[i].at <= Len(log)
        /\ \A j \in i .. Len(wire) : Moves(wire[j]) => wire[i].at <= wire[j].at
        /\ HandMoves => wire[i].at <= hand.frame.at
        /\ \A j \in 1 .. Len(frames) : Moves(frames[j]) => wire[i].at <= frames[j].at
RemoteInOrder ==
    /\ remote.at <= Len(log)
    /\ \A i \in 1 .. Len(wire) : Moves(wire[i]) => remote.at <= wire[i].at
    /\ HandMoves => remote.at <= hand.frame.at
    /\ \A j \in 1 .. Len(frames) : Moves(frames[j]) => remote.at <= frames[j].at
MoveIsLatest == pendingMove # 0 => pendingMove = Len(log)
Positions == FramesInOrder /\ HandInOrder /\ WireInOrder /\ RemoteInOrder /\ MoveIsLatest

\* A pointer message says what was held where it says.
HeldIn(lg, n) == IF n = 0 THEN {} ELSE lg[n]
Truthful(lg, m) == m.kind = "pointer" => m.mask \ {Wheel} = HeldIn(lg, m.at)
Masked ==
    /\ buttonMask = HeldIn(log, Len(log))
    /\ \A i \in 1 .. Len(frames) : Truthful(log, frames[i])
    /\ hand # NoFrame => Truthful(log, hand.frame)
    /\ \A i \in 1 .. Len(wire) : Truthful(log, wire[i])
    /\ proto = "vnc" /\ up => remote.held \ {Wheel} = HeldIn(log, remote.at)

\* For a key that is up: a release follows every press under way.
Presses(m, k) == m.kind = "key" /\ m.sym = k /\ m.down
Releases(m, k) == m.kind = "key" /\ m.sym = k /\ ~m.down
FramesRelease(k) == \E j \in 1 .. Len(frames) : Releases(frames[j], k)
HandReleases(k) == hand # NoFrame /\ hand.to = input /\ Releases(hand.frame, k)
LettersOnly ==
    /\ \A i \in 1 .. Len(frames) : frames[i].kind = "key" => frames[i].sym \in Keys
    /\ hand # NoFrame /\ hand.frame.kind = "key" => hand.frame.sym \in Keys
    /\ \A i \in 1 .. Len(wire) : wire[i].kind = "key" => wire[i].sym \in Keys
    /\ remote.keys \subseteq Keys
Released(k) ==
    /\ \A i \in 1 .. Len(frames) : Presses(frames[i], k) =>
           \E j \in i + 1 .. Len(frames) : Releases(frames[j], k)
    /\ hand # NoFrame /\ Presses(hand.frame, k) => FramesRelease(k)
    /\ \A i \in 1 .. Len(wire) : Presses(wire[i], k) =>
           \/ \E j \in i + 1 .. Len(wire) : Releases(wire[j], k)
           \/ HandReleases(k) \/ FramesRelease(k)
    /\ up /\ k \in remote.keys =>
           \/ \E j \in 1 .. Len(wire) : Releases(wire[j], k)
           \/ HandReleases(k) \/ FramesRelease(k)
NoKeySticks == proto = "rdp" => LettersOnly /\ \A k \in Keys \ keys : Released(k)

IInv == TypeOK /\ Link /\ Positions /\ Masked /\ NoKeySticks

-----------------------------------------------------------------------------
(* Frames, messages and the log.                                           *)

LEMMA FrameKinds ==
  ASSUME NEW f \in Frames
  PROVE  /\ f \in Messages /\ f.kind \in {"pointer", "key"}
         /\ f.kind = "pointer" => f.at \in 1 .. MaxEvents /\ f.mask \in Masks
         /\ f.kind = "key" => f.sym \in Symbols
  BY DEF Frames, Messages

LEMMA MessageKinds ==
  ASSUME NEW m \in Messages
  PROVE  /\ m.kind \in {"pointer", "key", "flags"}
         /\ m.kind = "pointer" => m.at \in 1 .. MaxEvents /\ m.mask \in Masks
         /\ m.kind = "flags" => m.at \in 0 .. MaxEvents /\ m.named \in Masks
         /\ m.kind = "key" => m.sym \in Symbols
  BY DEF Frames, Messages

LEMMA PointerFrame ==
  ASSUME NEW n \in 1 .. MaxEvents, NEW mask \in Masks
  PROVE  LET f == Pointer(n, mask)
         IN  f \in Frames /\ f.kind = "pointer" /\ f.at = n /\ f.mask = mask
  BY DEF Pointer, Frames

LEMMA KeyFrame ==
  ASSUME NEW k \in Keys, NEW down \in BOOLEAN
  PROVE  LET f == Key(KeyFor(k), down)
         IN  /\ f \in Frames /\ f.kind = "key" /\ f.sym = KeyFor(k) /\ f.down = down
             /\ proto = "rdp" => f.sym = k
  BY DEF Key, KeyFor, Keys, Symbols, Frames

\* The wheel is none of the buttons.
LEMMA ButtonMasks == \A mask \in SUBSET Buttons :
    /\ mask \in Masks /\ mask \cup {Wheel} \in Masks
    /\ mask \ {Wheel} = mask /\ (mask \cup {Wheel}) \ {Wheel} = mask
  BY InputAssumption DEF Masks, Wheel

\* What the client sends for a frame.
LEMMA Translated ==
  ASSUME NEW f \in Frames, proto \in {"vnc", "rdp"}
  PROVE  LET m == Translate(f)
         IN  /\ m \in Messages
             /\ m.kind # IF proto = "vnc" THEN "flags" ELSE "pointer"
             /\ Moves(m) => Moves(f) /\ m.at = f.at
             /\ m.kind = "pointer" \/ m.kind = "key" => m = f
             /\ f.kind = "key" => m = f
<1>1. CASE f.kind = "key" \/ proto = "vnc"
  BY <1>1, FrameKinds DEF Translate
<1>2. CASE f.kind = "pointer" /\ proto = "rdp" /\ Wheel \in f.mask
  <2>1. {Wheel} \in Masks /\ f.at \in 0 .. MaxEvents
    BY <1>2, FrameKinds, InputAssumption DEF Masks
  <2>2. Translate(f) = Flags(f.at, {Wheel}, TRUE)
    BY <1>2 DEF Translate, RdpPointer
  <2>3. LET m == Flags(f.at, {Wheel}, TRUE) IN m \in Messages /\ m.kind = "flags" /\ m.named = {Wheel}
    BY <2>1, InputAssumption DEF Flags, Messages
  <2> QED BY <1>2, <2>2, <2>3 DEF Moves
<1>3. CASE f.kind = "pointer" /\ proto = "rdp" /\ Wheel \notin f.mask
  <2>1. f.at \in 0 .. MaxEvents /\ f.mask \in Masks
    BY <1>3, FrameKinds, InputAssumption
  <2> DEFINE down == f.mask # {}
  <2>2. down \in BOOLEAN
    OBVIOUS
  <2>3. Translate(f) = Flags(f.at, f.mask, down)
    BY <1>3 DEF Translate, RdpPointer
  <2> HIDE DEF down
  <2>4. LET m == Flags(f.at, f.mask, down) IN m \in Messages /\ m.kind = "flags" /\ m.at = f.at
    BY <2>1, <2>2 DEF Flags, Messages
  <2> QED BY <1>3, <2>3, <2>4 DEF Moves
<1> QED BY <1>1, <1>2, <1>3, FrameKinds

\* A mouse event is written to the log, which keeps what it has.
LEMMA Logged ==
  ASSUME TypeOK, NEW mask \in SUBSET Buttons, MouseEvent(mask)
  PROVE  /\ log' \in Seq(SUBSET Buttons) /\ Len(log') <= MaxEvents
         /\ Len(log) \in Nat /\ Len(log') = Len(log) + 1 /\ Now = Len(log') /\ Now \in 1 .. MaxEvents
         /\ \A n \in 0 .. Len(log) : HeldIn(log', n) = HeldIn(log, n)
         /\ HeldIn(log', Len(log')) = mask
<1>1. log \in Seq(SUBSET Buttons) /\ Len(log) < MaxEvents /\ log' = Append(log, mask) /\ MaxEvents \in Nat
  BY InputAssumption DEF TypeOK, MouseEvent
<1>2. /\ log' \in Seq(SUBSET Buttons) /\ Len(log) \in Nat /\ Len(log') = Len(log) + 1
      /\ \A n \in 1 .. Len(log) : log'[n] = log[n]
      /\ log'[Len(log) + 1] = mask
  BY <1>1
<1> QED BY <1>1, <1>2 DEF Now, HeldIn

\* Frames are added to the queue.
LEMMA Grown ==
  ASSUME TypeOK, NEW sent \in Seq(Frames), frames' = frames \o sent
  PROVE  /\ frames' \in Seq(Frames) /\ Len(frames) \in Nat
         /\ Len(frames') = Len(frames) + Len(sent)
         /\ \A i \in 1 .. Len(frames) : frames'[i] = frames[i]
         /\ \A i \in Len(frames) + 1 .. Len(frames') :
                i - Len(frames) \in 1 .. Len(sent) /\ frames'[i] = sent[i - Len(frames)]
  BY DEF TypeOK

LEMMA Added ==
  ASSUME TypeOK, NEW f \in Frames, frames' = Append(frames, f)
  PROVE  /\ <<f>> \in Seq(Frames) /\ Len(<<f>>) = 1 /\ <<f>>[1] = f
         /\ frames' = frames \o <<f>>
  BY DEF TypeOK

-----------------------------------------------------------------------------
(* Positions.                                                              *)

\* The frames of events that happen now are later than all others.
LEMMA GrowKeepsPositions ==
  ASSUME TypeOK, Positions, NEW sent \in Seq(Frames), frames' = frames \o sent,
         Len(log') \in Nat, Len(log') >= Len(log),
         \A i \in 1 .. Len(sent) : Moves(sent[i]) => sent[i].at = Len(log'),
         UNCHANGED <<hand, wire, remote>>, MoveIsLatest'
  PROVE  Positions'
<1>1. /\ frames' \in Seq(Frames) /\ Len(frames) \in Nat
      /\ Len(frames') = Len(frames) + Len(sent)
      /\ \A i \in 1 .. Len(frames) : frames'[i] = frames[i]
      /\ \A i \in Len(frames) + 1 .. Len(frames') :
             i - Len(frames) \in 1 .. Len(sent) /\ frames'[i] = sent[i - Len(frames)]
  BY Grown
<1>2. \A i \in Len(frames) + 1 .. Len(frames') : Moves(frames'[i]) => frames'[i].at = Len(log')
  BY <1>1
<1>3. Len(log) \in Nat /\ Len(frames') \in Nat
  BY <1>1 DEF TypeOK
<1>4. \A i \in 1 .. Len(frames) : Moves(frames[i]) => frames[i].at \in Nat
  <2> SUFFICES ASSUME NEW i \in 1 .. Len(frames), Moves(frames[i]) PROVE frames[i].at \in Nat
    OBVIOUS
  <2>1. frames[i] \in Frames
    BY DEF TypeOK
  <2> QED BY <2>1, FrameKinds DEF Moves
<1>5. \A i \in 1 .. Len(wire) : Moves(wire[i]) => wire[i].at \in Nat
  <2> SUFFICES ASSUME NEW i \in 1 .. Len(wire), Moves(wire[i]) PROVE wire[i].at \in Nat
    OBVIOUS
  <2>1. wire[i] \in Messages
    BY DEF TypeOK
  <2> QED BY <2>1, MessageKinds DEF Moves
<1>6. HandMoves => hand.frame.at \in Nat
  <2> SUFFICES ASSUME HandMoves PROVE hand.frame.at \in Nat
    OBVIOUS
  <2>1. hand.frame \in Frames
    BY DEF TypeOK, HandMoves
  <2> QED BY <2>1, FrameKinds DEF HandMoves, Moves
<1>7. remote.at \in Nat
  BY DEF TypeOK, Desktop
<1>8. FramesInOrder'
  <2>1. \A i \in 1 .. Len(frames') : Moves(frames'[i]) => frames'[i].at <= Len(log')
    BY <1>1, <1>2, <1>3, <1>4 DEF Positions, FramesInOrder
  <2>2. \A i \in 1 .. Len(frames') : \A j \in i .. Len(frames') :
           Moves(frames'[i]) /\ Moves(frames'[j]) => frames'[i].at <= frames'[j].at
    <3> SUFFICES ASSUME NEW i \in 1 .. Len(frames'), NEW j \in i .. Len(frames'),
                        Moves(frames'[i]), Moves(frames'[j])
                 PROVE  frames'[i].at <= frames'[j].at
      OBVIOUS
    <3>1. CASE j \in 1 .. Len(frames)
      <4>1. i \in 1 .. Len(frames) /\ j \in i .. Len(frames)
        BY <1>1, <3>1
      <4> QED BY <1>1, <4>1 DEF Positions, FramesInOrder
    <3>2. CASE j \notin 1 .. Len(frames)
      <4>1. j \in Len(frames) + 1 .. Len(frames')
        BY <1>1, <1>3, <3>2
      <4>2. frames'[j].at = Len(log') /\ frames'[i].at <= Len(log')
        BY <1>2, <2>1, <4>1
      <4> QED BY <4>2
    <3> QED BY <3>1, <3>2
  <2> QED BY <2>1, <2>2 DEF FramesInOrder
<1>9. HandInOrder'
  BY <1>1, <1>2, <1>3, <1>6 DEF Positions, HandInOrder, HandMoves
<1>10. WireInOrder'
  <2> SUFFICES ASSUME NEW i \in 1 .. Len(wire), Moves(wire[i])
               PROVE  /\ wire[i].at <= Len(log')
                      /\ \A j \in 1 .. Len(frames') : Moves(frames'[j]) => wire[i].at <= frames'[j].at
    BY DEF Positions, WireInOrder, HandMoves
  <2>1. wire[i].at <= Len(log) /\ \A j \in 1 .. Len(frames) : Moves(frames[j]) => wire[i].at <= frames[j].at
    BY DEF Positions, WireInOrder
  <2> QED BY <1>1, <1>2, <1>3, <1>5, <2>1
<1>11. RemoteInOrder'
  <2>1. remote.at <= Len(log) /\ \A j \in 1 .. Len(frames) : Moves(frames[j]) => remote.at <= frames[j].at
    BY DEF Positions, RemoteInOrder
  <2>2. \A j \in 1 .. Len(frames') : Moves(frames'[j]) => remote.at <= frames'[j].at
    BY <1>1, <1>2, <1>3, <1>7, <2>1
  <2>3. remote.at <= Len(log')
    BY <1>3, <1>7, <2>1
  <2>4. wire' = wire /\ remote' = remote /\ (HandMoves' <=> HandMoves) /\ hand' = hand
    BY DEF HandMoves
  <2> QED BY <2>2, <2>3, <2>4 DEF Positions, RemoteInOrder
<1> QED BY <1>8, <1>9, <1>10, <1>11 DEF Positions

\* What the bridge's handler reads, what a client sends and what the server does.
LEMMA Taken ==
  ASSUME TypeOK, HandleInput
  PROVE  /\ hand' # NoFrame /\ hand'.frame \in Frames /\ hand'.frame = frames[1] /\ hand'.to = input
         /\ hand' \in [frame : Frames, to : 0 .. MaxDrops] /\ hand = NoFrame
         /\ frames' \in Seq(Frames) /\ Len(frames) \in Nat \ {0} /\ Len(frames') = Len(frames) - 1
         /\ \A i \in 1 .. Len(frames') : frames'[i] = frames[i + 1]
         /\ \A i \in 2 .. Len(frames) : i - 1 \in 1 .. Len(frames') /\ frames'[i - 1] = frames[i]
         /\ UNCHANGED <<userVars, viewerVars, linkVars, lost>>
<1>1. /\ frames \in Seq(Frames) /\ frames # <<>> /\ frames' = Tail(frames) /\ hand = NoFrame
      /\ hand' = [frame |-> Head(frames), to |-> input] /\ input \in 0 .. MaxDrops
      /\ UNCHANGED <<userVars, viewerVars, linkVars, lost>>
  BY DEF TypeOK, HandleInput
<1>2. /\ Len(frames) \in Nat \ {0} /\ frames' \in Seq(Frames) /\ Len(frames') = Len(frames) - 1
      /\ \A i \in 1 .. Len(frames') : frames'[i] = frames[i + 1]
      /\ Head(frames) = frames[1] /\ Head(frames) \in Frames
  BY <1>1
<1>3. \A i \in 2 .. Len(frames) : i - 1 \in 1 .. Len(frames') /\ frames'[i - 1] = frames[i]
  BY <1>2
<1>4. hand' \in [frame : Frames, to : 0 .. MaxDrops] /\ hand'.frame = frames[1] /\ hand'.to = input
  BY <1>1, <1>2
<1>5. hand' # NoFrame
  <2>1. DOMAIN hand' = {"frame", "to"} /\ DOMAIN NoFrame = {"kind"}
    BY <1>1 DEF NoFrame
  <2>2. "kind" \notin {"frame", "to"}
    OBVIOUS
  <2> QED BY <2>1, <2>2
<1> QED BY <1>1, <1>2, <1>3, <1>4, <1>5

LEMMA Put ==
  ASSUME TypeOK, Link, SendEvent, up, hand.to = input
  PROVE  /\ hand.frame \in Frames /\ hand' = NoFrame /\ hand # NoFrame
         /\ wire' \in Seq(Messages) /\ Len(wire) \in Nat /\ Len(wire') = Len(wire) + 1
         /\ \A i \in 1 .. Len(wire) : wire'[i] = wire[i]
         /\ wire'[Len(wire) + 1] = Translate(hand.frame)
         /\ UNCHANGED <<userVars, viewerVars, frames, input, up, remote, lost>>
<1>1. hand.frame \in Frames /\ proto \in {"vnc", "rdp"}
  BY InputAssumption DEF TypeOK, SendEvent
<1>2. Translate(hand.frame) \in Messages
  BY <1>1, Translated
<1>3. wire \in Seq(Messages) /\ wire' = Append(wire, Translate(hand.frame))
  BY DEF TypeOK, SendEvent
<1> HIDE DEF Translate
<1>4. /\ wire' \in Seq(Messages) /\ Len(wire) \in Nat /\ Len(wire') = Len(wire) + 1
      /\ \A i \in 1 .. Len(wire) : wire'[i] = wire[i]
      /\ wire'[Len(wire) + 1] = Translate(hand.frame)
  BY <1>2, <1>3
<1> QED BY <1>1, <1>4 DEF SendEvent

LEMMA Reacted ==
  ASSUME NEW r \in Desktop, NEW m \in Messages
  PROVE  LET q == Reacts(r, m)
         IN  /\ q \in Desktop
             /\ q.at = IF Moves(m) THEN m.at ELSE r.at
             /\ m.kind = "pointer" => q.held = m.mask
             /\ m.kind = "key" => q.held = r.held
             /\ q.keys = IF m.kind = "key"
                         THEN IF m.down THEN r.keys \cup {m.sym} ELSE r.keys \ {m.sym}
                         ELSE r.keys
<1>1. CASE m.kind = "pointer"
  <2>1. Reacts(r, m) = [r EXCEPT !.at = m.at, !.held = m.mask]
    BY <1>1 DEF Reacts
  <2>2. m.at \in 0 .. MaxEvents /\ m.mask \in Masks
    BY <1>1, MessageKinds, InputAssumption
  <2> QED BY <1>1, <2>1, <2>2 DEF Desktop, Moves
<1>2. CASE m.kind = "key"
  <2>1. Reacts(r, m) = [r EXCEPT !.keys = IF m.down THEN r.keys \cup {m.sym} ELSE r.keys \ {m.sym}]
    BY <1>2 DEF Reacts, Desktop
  <2>2. m.sym \in Symbols
    BY <1>2, MessageKinds
  <2> QED BY <1>2, <2>1, <2>2 DEF Desktop, Moves
<1>3. CASE m.kind = "flags" /\ Wheel \in m.named
  <2>1. Reacts(r, m) = r
    BY <1>3 DEF Reacts
  <2> QED BY <1>3, <2>1 DEF Moves
<1>4. CASE m.kind = "flags" /\ Wheel \notin m.named
  <2>1. Reacts(r, m) = [r EXCEPT !.at = m.at,
                                 !.held = IF m.down THEN r.held \cup m.named ELSE r.held \ m.named]
    BY <1>4 DEF Reacts, Desktop
  <2>2. m.at \in 0 .. MaxEvents /\ m.named \subseteq Buttons \cup {Wheel}
    BY <1>4, MessageKinds DEF Masks
  <2> QED BY <1>4, <2>1, <2>2 DEF Desktop, Masks, Moves
<1> QED BY <1>1, <1>2, <1>3, <1>4, MessageKinds

LEMMA ReadByServer ==
  ASSUME TypeOK, Link, ServerReads
  PROVE  /\ up /\ wire' \in Seq(Messages) /\ Len(wire) \in Nat \ {0} /\ Len(wire') = Len(wire) - 1
         /\ \A i \in 1 .. Len(wire') : wire'[i] = wire[i + 1]
         /\ \A i \in 2 .. Len(wire) : i - 1 \in 1 .. Len(wire') /\ wire'[i - 1] = wire[i]
         /\ wire[1] \in Messages
         /\ remote' \in Desktop
         /\ remote'.at = IF Moves(wire[1]) THEN wire[1].at ELSE remote.at
         /\ wire[1].kind = "pointer" => remote'.held = wire[1].mask
         /\ wire[1].kind = "key" => remote'.held = remote.held
         /\ remote'.keys = IF wire[1].kind = "key"
                           THEN IF wire[1].down THEN remote.keys \cup {wire[1].sym}
                                                ELSE remote.keys \ {wire[1].sym}
                           ELSE remote.keys
         /\ hand # NoFrame => hand.to = input
         /\ UNCHANGED <<userVars, viewerVars, frames, hand, input, up, lost>>
<1>1. /\ wire \in Seq(Messages) /\ wire # <<>> /\ wire' = Tail(wire) /\ remote \in Desktop
      /\ remote' = Reacts(remote, Head(wire)) /\ up
      /\ UNCHANGED <<userVars, viewerVars, frames, hand, input, up, lost>>
  BY DEF TypeOK, ServerReads
<1>2. /\ Len(wire) \in Nat \ {0} /\ wire' \in Seq(Messages) /\ Len(wire') = Len(wire) - 1
      /\ \A i \in 1 .. Len(wire') : wire'[i] = wire[i + 1]
      /\ Head(wire) = wire[1] /\ Head(wire) \in Messages
  BY <1>1
<1>3. \A i \in 2 .. Len(wire) : i - 1 \in 1 .. Len(wire') /\ wire'[i - 1] = wire[i]
  BY <1>2
<1>4. hand # NoFrame => hand.to = input
  BY <1>1 DEF Link
<1>5. LET q == Reacts(remote, wire[1])
      IN  /\ q \in Desktop
          /\ q.at = IF Moves(wire[1]) THEN wire[1].at ELSE remote.at
          /\ wire[1].kind = "pointer" => q.held = wire[1].mask
          /\ wire[1].kind = "key" => q.held = remote.held
          /\ q.keys = IF wire[1].kind = "key"
                      THEN IF wire[1].down THEN remote.keys \cup {wire[1].sym}
                                           ELSE remote.keys \ {wire[1].sym}
                      ELSE remote.keys
  BY <1>1, <1>2, Reacted
<1>6. remote' = Reacts(remote, wire[1])
  BY <1>1, <1>2
<1> QED BY <1>1, <1>2, <1>3, <1>4, <1>5, <1>6

LEMMA HandleInputKeepsPositions ==
  ASSUME TypeOK, Positions, HandleInput
  PROVE  Positions'
<1>1. /\ hand' # NoFrame /\ hand'.frame = frames[1] /\ hand = NoFrame
      /\ Len(frames) \in Nat \ {0} /\ Len(frames') = Len(frames) - 1
      /\ \A i \in 1 .. Len(frames') : frames'[i] = frames[i + 1]
      /\ log' = log /\ wire' = wire /\ remote' = remote /\ pendingMove' = pendingMove
  BY Taken DEF userVars, viewerVars, linkVars
<1>2. 1 \in 1 .. Len(frames) /\ \A i \in 1 .. Len(frames') : i + 1 \in 1 .. Len(frames)
  BY <1>1
<1>3. FramesInOrder'
  <2>1. \A i \in 1 .. Len(frames') : \A j \in i .. Len(frames') : j + 1 \in i + 1 .. Len(frames)
    BY <1>1
  <2>2. \A i \in 1 .. Len(frames') : \A j \in i .. Len(frames') : frames'[j] = frames[j + 1]
    BY <1>1
  <2> QED BY <1>1, <1>2, <2>1, <2>2 DEF Positions, FramesInOrder
<1>4. HandInOrder'
  BY <1>1, <1>2 DEF Positions, FramesInOrder, HandInOrder, HandMoves
<1>5. WireInOrder'
  BY <1>1, <1>2 DEF Positions, WireInOrder, HandMoves
<1>6. RemoteInOrder' /\ MoveIsLatest'
  BY <1>1, <1>2 DEF Positions, RemoteInOrder, MoveIsLatest, HandMoves
<1> QED BY <1>3, <1>4, <1>5, <1>6 DEF Positions

LEMMA SendEventKeepsPositions ==
  ASSUME TypeOK, Link, Positions, SendEvent
  PROVE  Positions'
<1>1. /\ hand' = NoFrame /\ hand # NoFrame
      /\ log' = log /\ frames' = frames /\ remote' = remote /\ pendingMove' = pendingMove
  BY DEF SendEvent, userVars, viewerVars
<1>2. FramesInOrder' /\ HandInOrder' /\ MoveIsLatest'
  BY <1>1 DEF Positions, FramesInOrder, HandInOrder, MoveIsLatest, HandMoves
<1>3. CASE up /\ hand.to = input
  <2>1. /\ hand.frame \in Frames
        /\ Len(wire) \in Nat /\ Len(wire') = Len(wire) + 1
        /\ \A i \in 1 .. Len(wire) : wire'[i] = wire[i]
        /\ wire'[Len(wire) + 1] = Translate(hand.frame)
    BY <1>3, Put
  <2>2. Moves(wire'[Len(wire) + 1]) => HandMoves /\ wire'[Len(wire) + 1].at = hand.frame.at
    BY <1>1, <2>1, Translated, InputAssumption DEF TypeOK, HandMoves
  <2>3. Moves(wire'[Len(wire) + 1]) => hand.frame.at \in Nat
    BY <2>1, <2>2, FrameKinds DEF HandMoves, Moves
  <2>4. WireInOrder'
    <3> SUFFICES ASSUME NEW i \in 1 .. Len(wire'), Moves(wire'[i])
                 PROVE  /\ wire'[i].at <= Len(log)
                        /\ \A j \in i .. Len(wire') : Moves(wire'[j]) => wire'[i].at <= wire'[j].at
                        /\ \A j \in 1 .. Len(frames) : Moves(frames[j]) => wire'[i].at <= frames[j].at
      BY <1>1 DEF WireInOrder, HandMoves
    <3>1. CASE i \in 1 .. Len(wire)
      <4>1. \A j \in i .. Len(wire') : j \in i .. Len(wire) \/ j = Len(wire) + 1
        BY <2>1, <3>1
      <4>2. wire'[i] = wire[i] /\ Moves(wire[i])
        BY <2>1, <3>1
      <4> QED BY <2>1, <2>2, <3>1, <4>1, <4>2 DEF Positions, WireInOrder
    <3>2. CASE i = Len(wire) + 1
      <4>1. \A j \in i .. Len(wire') : j = i
        BY <2>1, <3>2
      <4> QED BY <2>1, <2>2, <2>3, <3>2, <4>1 DEF Positions, HandInOrder
    <3> QED BY <2>1, <3>1, <3>2
  <2>5. RemoteInOrder'
    BY <1>1, <2>1, <2>2 DEF Positions, RemoteInOrder, HandMoves
  <2> QED BY <1>2, <2>4, <2>5 DEF Positions
<1>4. CASE ~(up /\ hand.to = input)
  <2>1. wire' = wire
    BY <1>4 DEF SendEvent
  <2>2. WireInOrder' /\ RemoteInOrder'
    BY <1>1, <2>1 DEF Positions, WireInOrder, RemoteInOrder, HandMoves
  <2> QED BY <1>2, <2>2 DEF Positions
<1> QED BY <1>3, <1>4

LEMMA ServerReadsKeepsPositions ==
  ASSUME TypeOK, Link, Positions, ServerReads
  PROVE  Positions'
<1>1. /\ Len(wire) \in Nat \ {0} /\ Len(wire') = Len(wire) - 1
      /\ \A i \in 1 .. Len(wire') : wire'[i] = wire[i + 1]
      /\ remote'.at = IF Moves(wire[1]) THEN wire[1].at ELSE remote.at
      /\ log' = log /\ frames' = frames /\ hand' = hand /\ pendingMove' = pendingMove
  BY ReadByServer DEF userVars, viewerVars
<1>2. 1 \in 1 .. Len(wire) /\ \A i \in 1 .. Len(wire') : i + 1 \in 1 .. Len(wire)
  BY <1>1
<1>3. FramesInOrder' /\ HandInOrder' /\ MoveIsLatest'
  BY <1>1 DEF Positions, FramesInOrder, HandInOrder, MoveIsLatest, HandMoves
<1>4. WireInOrder'
  <2>1. \A i \in 1 .. Len(wire') : \A j \in i .. Len(wire') :
           j + 1 \in i + 1 .. Len(wire) /\ wire'[j] = wire[j + 1]
    BY <1>1
  <2> QED BY <1>1, <1>2, <2>1 DEF Positions, WireInOrder, HandMoves
<1>5. RemoteInOrder'
  <2>1. CASE Moves(wire[1])
    BY <1>1, <1>2, <2>1 DEF Positions, WireInOrder, RemoteInOrder, HandMoves
  <2>2. CASE ~Moves(wire[1])
    BY <1>1, <1>2, <2>2 DEF Positions, RemoteInOrder, HandMoves
  <2> QED BY <2>1, <2>2
<1> QED BY <1>3, <1>4, <1>5 DEF Positions

\* A new connection starts from nothing.
LEMMA LinkKeepsPositions ==
  ASSUME TypeOK, Link, Positions, Drop \/ SetInput
  PROVE  Positions'
<1>1. /\ log' = log /\ frames' = frames /\ hand' = hand /\ pendingMove' = pendingMove
      /\ wire' = <<>> /\ (remote' = remote \/ remote' = Untouched)
  BY DEF Drop, SetInput, Link, userVars, viewerVars
<1>2. FramesInOrder' /\ HandInOrder' /\ MoveIsLatest'
  BY <1>1 DEF Positions, FramesInOrder, HandInOrder, MoveIsLatest, HandMoves
<1>3. WireInOrder'
  BY <1>1 DEF WireInOrder
<1>4. RemoteInOrder'
  <2>1. CASE remote' = remote
    BY <1>1, <2>1 DEF Positions, RemoteInOrder, HandMoves
  <2>2. CASE remote' = Untouched
    <3>1. remote'.at = 0 /\ Len(log) \in Nat
      BY <2>2 DEF Untouched, TypeOK
    <3>2. \A j \in 1 .. Len(frames) : Moves(frames[j]) => frames[j].at \in Nat
      <4> SUFFICES ASSUME NEW j \in 1 .. Len(frames), Moves(frames[j]) PROVE frames[j].at \in Nat
        OBVIOUS
      <4>1. frames[j] \in Frames
        BY DEF TypeOK
      <4> QED BY <4>1, FrameKinds DEF Moves
    <3>3. HandMoves => hand.frame.at \in Nat
      <4> SUFFICES ASSUME HandMoves PROVE hand.frame.at \in Nat
        OBVIOUS
      <4>1. hand.frame \in Frames
        BY DEF TypeOK, HandMoves
      <4> QED BY <4>1, FrameKinds DEF HandMoves, Moves
    <3> QED BY <1>1, <3>1, <3>2, <3>3 DEF RemoteInOrder, HandMoves
  <2> QED BY <1>1, <2>1, <2>2
<1> QED BY <1>2, <1>3, <1>4 DEF Positions

-----------------------------------------------------------------------------
(* Masks.                                                                  *)

LEMMA GrowKeepsMasks ==
  ASSUME TypeOK, Positions, Masked, NEW sent \in Seq(Frames), frames' = frames \o sent,
         \A n \in 0 .. Len(log) : HeldIn(log', n) = HeldIn(log, n),
         buttonMask' = HeldIn(log', Len(log')),
         \A i \in 1 .. Len(sent) : Truthful(log', sent[i]),
         UNCHANGED <<proto, hand, linkVars>>
  PROVE  Masked'
<1>1. /\ Len(frames) \in Nat /\ Len(frames') = Len(frames) + Len(sent)
      /\ \A i \in 1 .. Len(frames) : frames'[i] = frames[i]
      /\ \A i \in Len(frames) + 1 .. Len(frames') :
             i - Len(frames) \in 1 .. Len(sent) /\ frames'[i] = sent[i - Len(frames)]
  BY Grown
\* What was true of an older position still is.
<1>2. ASSUME NEW m \in Messages, Truthful(log, m), Moves(m) => m.at <= Len(log)
      PROVE  Truthful(log', m)
  <2> SUFFICES ASSUME m.kind = "pointer" PROVE m.mask \ {Wheel} = HeldIn(log', m.at)
    BY DEF Truthful
  <2>1. m.at \in 0 .. Len(log)
    BY <1>2, MessageKinds, InputAssumption DEF Moves, TypeOK
  <2> QED BY <1>2, <2>1 DEF Truthful
<1>3. \A i \in 1 .. Len(frames') : Truthful(log', frames'[i])
  <2> SUFFICES ASSUME NEW i \in 1 .. Len(frames') PROVE Truthful(log', frames'[i])
    OBVIOUS
  <2>1. CASE i \in 1 .. Len(frames)
    <3>1. frames[i] \in Messages
      BY <2>1, FrameKinds DEF TypeOK
    <3>2. Truthful(log, frames[i]) /\ (Moves(frames[i]) => frames[i].at <= Len(log))
      BY <2>1 DEF Masked, Positions, FramesInOrder
    <3> QED BY <1>1, <1>2, <2>1, <3>1, <3>2
  <2>2. CASE i \in Len(frames) + 1 .. Len(frames')
    BY <1>1, <2>2
  <2> QED BY <1>1, <2>1, <2>2
<1>4. hand # NoFrame => Truthful(log', hand.frame)
  <2> SUFFICES ASSUME hand # NoFrame PROVE Truthful(log', hand.frame)
    OBVIOUS
  <2>1. hand.frame \in Messages
    BY FrameKinds DEF TypeOK
  <2>2. Truthful(log, hand.frame) /\ (Moves(hand.frame) => hand.frame.at <= Len(log))
    BY DEF Masked, Positions, HandInOrder, HandMoves
  <2> QED BY <1>2, <2>1, <2>2
<1>5. \A i \in 1 .. Len(wire) : Truthful(log', wire[i])
  <2> SUFFICES ASSUME NEW i \in 1 .. Len(wire) PROVE Truthful(log', wire[i])
    OBVIOUS
  <2>1. wire[i] \in Messages
    BY DEF TypeOK
  <2>2. Truthful(log, wire[i]) /\ (Moves(wire[i]) => wire[i].at <= Len(log))
    BY DEF Masked, Positions, WireInOrder
  <2> QED BY <1>2, <2>1, <2>2
<1>6. proto = "vnc" /\ up => remote.held \ {Wheel} = HeldIn(log', remote.at)
  <2>1. remote.at \in 0 .. Len(log)
    BY DEF Positions, RemoteInOrder, TypeOK, Desktop
  <2> QED BY <2>1 DEF Masked
<1> QED BY <1>3, <1>4, <1>5, <1>6 DEF Masked, linkVars

LEMMA PipelineKeepsMasks ==
  ASSUME TypeOK, Link, Positions, Masked, HandleInput \/ SendEvent \/ ServerReads \/ Drop \/ SetInput
  PROVE  Masked'
<1>1. log' = log /\ buttonMask' = buttonMask /\ proto' = proto
  BY DEF HandleInput, SendEvent, ServerReads, Drop, SetInput, userVars, viewerVars
<1>2. CASE HandleInput
  <2>1. /\ hand'.frame = frames[1] /\ Len(frames) \in Nat \ {0} /\ Len(frames') = Len(frames) - 1
        /\ \A i \in 1 .. Len(frames') : frames'[i] = frames[i + 1]
        /\ wire' = wire /\ remote' = remote /\ up' = up
    BY <1>2, Taken DEF linkVars
  <2>2. 1 \in 1 .. Len(frames) /\ \A i \in 1 .. Len(frames') : i + 1 \in 1 .. Len(frames)
    BY <2>1
  <2> QED BY <1>1, <2>1, <2>2 DEF Masked
<1>3. CASE SendEvent /\ up /\ hand.to = input
  <2>1. /\ hand.frame \in Frames /\ hand' = NoFrame /\ hand # NoFrame
        /\ Len(wire) \in Nat /\ Len(wire') = Len(wire) + 1
        /\ \A i \in 1 .. Len(wire) : wire'[i] = wire[i]
        /\ wire'[Len(wire) + 1] = Translate(hand.frame)
        /\ frames' = frames /\ remote' = remote /\ up' = up
    BY <1>3, Put
  <2>2. wire'[Len(wire) + 1].kind = "pointer" => wire'[Len(wire) + 1] = hand.frame
    BY <2>1, Translated, InputAssumption DEF TypeOK
  <2>3. Truthful(log, wire'[Len(wire) + 1])
    BY <2>1, <2>2 DEF Masked, Truthful
  <2>4. \A i \in 1 .. Len(wire') : Truthful(log, wire'[i])
    BY <2>1, <2>3 DEF Masked
  <2> QED BY <1>1, <2>1, <2>4 DEF Masked
<1>4. CASE SendEvent /\ ~(up /\ hand.to = input)
  <2>1. hand' = NoFrame /\ UNCHANGED <<wire, frames, remote, up>>
    BY <1>4 DEF SendEvent
  <2> QED BY <1>1, <2>1 DEF Masked
<1>5. CASE ServerReads
  <2>1. /\ up /\ Len(wire) \in Nat \ {0} /\ Len(wire') = Len(wire) - 1
        /\ \A i \in 1 .. Len(wire') : wire'[i] = wire[i + 1]
        /\ wire[1] \in Messages
        /\ remote'.at = IF Moves(wire[1]) THEN wire[1].at ELSE remote.at
        /\ wire[1].kind = "pointer" => remote'.held = wire[1].mask
        /\ wire[1].kind = "key" => remote'.held = remote.held
        /\ frames' = frames /\ hand' = hand
    BY <1>5, ReadByServer
  <2>2. 1 \in 1 .. Len(wire) /\ \A i \in 1 .. Len(wire') : i + 1 \in 1 .. Len(wire)
    BY <2>1
  <2>3. ASSUME proto = "vnc" PROVE remote'.held \ {Wheel} = HeldIn(log, remote'.at)
    <3>1. wire[1].kind \in {"pointer", "key"}
      BY <2>1, <2>2, <2>3, MessageKinds DEF Link
    <3>2. CASE wire[1].kind = "pointer"
      BY <2>1, <2>2, <3>2 DEF Masked, Truthful, Moves
    <3>3. CASE wire[1].kind = "key"
      BY <2>1, <2>3, <3>3 DEF Masked, Moves
    <3> QED BY <3>1, <3>2, <3>3
  <2> QED BY <1>1, <2>1, <2>2, <2>3 DEF Masked
<1>6. CASE Drop
  <2>1. wire' = <<>> /\ up' = FALSE /\ UNCHANGED <<frames, hand>>
    BY <1>6 DEF Drop
  <2> QED BY <1>1, <2>1 DEF Masked
<1>7. CASE SetInput
  <2>1. wire' = wire /\ remote' = Untouched /\ UNCHANGED <<frames, hand>>
    BY <1>7 DEF SetInput
  <2>2. remote'.held \ {Wheel} = HeldIn(log, remote'.at)
    BY <2>1 DEF HeldIn, Untouched
  <2> QED BY <1>1, <2>1, <2>2 DEF Masked
<1> QED BY <1>2, <1>3, <1>4, <1>5, <1>6, <1>7

-----------------------------------------------------------------------------
(* Keys.                                                                   *)

\* New frames leave no key down: one that is up now either was up before and
\* is not pressed by them, or is released by the last of them.
LEMMA GrowKeepsKeys ==
  ASSUME TypeOK, NoKeySticks, NEW sent \in Seq(Frames), frames' = frames \o sent,
         UNCHANGED <<proto, hand, linkVars>>,
         proto = "rdp" =>
           /\ \A i \in 1 .. Len(sent) : sent[i].kind = "key" => sent[i].sym \in Keys
           /\ \A k \in Keys \ keys' :
                 \/ k \notin keys /\ \A i \in 1 .. Len(sent) : ~Presses(sent[i], k)
                 \/ Len(sent) > 0 /\ Releases(sent[Len(sent)], k)
  PROVE  NoKeySticks'
<1> SUFFICES ASSUME proto = "rdp" PROVE (LettersOnly /\ \A k \in Keys \ keys : Released(k))'
  BY DEF NoKeySticks
<1>1. /\ Len(frames) \in Nat /\ Len(sent) \in Nat /\ Len(frames') = Len(frames) + Len(sent)
      /\ \A i \in 1 .. Len(frames) : frames'[i] = frames[i]
      /\ \A i \in Len(frames) + 1 .. Len(frames') :
             i - Len(frames) \in 1 .. Len(sent) /\ frames'[i] = sent[i - Len(frames)]
  BY Grown
<1>2. LettersOnly'
  <2>1. \A i \in 1 .. Len(frames') : i \in 1 .. Len(frames) \/ i \in Len(frames) + 1 .. Len(frames')
    BY <1>1
  <2> QED BY <1>1, <2>1 DEF NoKeySticks, LettersOnly, linkVars
<1>3. ASSUME NEW k \in Keys \ keys' PROVE Released(k)'
  <2>1. CASE k \notin keys /\ \A i \in 1 .. Len(sent) : ~Presses(sent[i], k)
    <3>1. Released(k)
      BY <2>1 DEF NoKeySticks
    <3>2. FramesRelease(k) => FramesRelease(k)'
      BY <1>1 DEF FramesRelease
    <3>3. ASSUME NEW i \in 1 .. Len(frames'), Presses(frames'[i], k)
          PROVE  \E j \in i + 1 .. Len(frames') : Releases(frames'[j], k)
      <4>1. i \in 1 .. Len(frames) /\ Presses(frames[i], k)
        BY <1>1, <2>1, <3>3
      <4>2. PICK j \in i + 1 .. Len(frames) : Releases(frames[j], k)
        BY <3>1, <4>1 DEF Released
      <4>3. j \in i + 1 .. Len(frames') /\ Releases(frames'[j], k)
        BY <1>1, <4>2
      <4> QED BY <4>3
    <3> QED BY <3>1, <3>2, <3>3 DEF Released, HandReleases, linkVars
  <2>2. CASE Len(sent) > 0 /\ Releases(sent[Len(sent)], k)
    <3>1. Len(frames') \in 1 .. Len(frames') /\ Releases(frames'[Len(frames')], k)
      BY <1>1, <2>2
    <3>2. FramesRelease(k)'
      BY <3>1 DEF FramesRelease
    <3>3. \A i \in 1 .. Len(frames') : Presses(frames'[i], k) => Len(frames') \in i + 1 .. Len(frames')
      BY <1>1, <3>1 DEF Presses, Releases
    <3> QED BY <3>1, <3>2, <3>3 DEF Released
  <2> QED BY <1>3, <2>1, <2>2
<1> QED BY <1>2, <1>3

LEMMA PipelineKeepsKeys ==
  ASSUME TypeOK, Link, NoKeySticks, HandleInput \/ SendEvent \/ ServerReads \/ Drop \/ SetInput
  PROVE  NoKeySticks'
<1>1. keys' = keys /\ proto' = proto
  BY DEF HandleInput, SendEvent, ServerReads, Drop, SetInput, userVars
<1> SUFFICES ASSUME proto = "rdp" PROVE LettersOnly' /\ \A k \in Keys \ keys : Released(k)'
  BY <1>1 DEF NoKeySticks
<1>2. LettersOnly /\ \A k \in Keys \ keys : Released(k)
  BY DEF NoKeySticks
<1>3. CASE HandleInput
  <2>1. /\ hand'.frame = frames[1] /\ hand'.to = input /\ hand = NoFrame /\ hand' # NoFrame
        /\ Len(frames) \in Nat \ {0} /\ Len(frames') = Len(frames) - 1
        /\ \A i \in 1 .. Len(frames') : frames'[i] = frames[i + 1]
        /\ \A i \in 2 .. Len(frames) : i - 1 \in 1 .. Len(frames') /\ frames'[i - 1] = frames[i]
        /\ wire' = wire /\ remote' = remote /\ up' = up /\ input' = input
    BY <1>3, Taken DEF linkVars
  <2>2. 1 \in 1 .. Len(frames) /\ \A i \in 1 .. Len(frames') : i + 1 \in 1 .. Len(frames)
    BY <2>1
  <2>3. LettersOnly'
    BY <1>2, <2>1, <2>2 DEF LettersOnly
  <2>4. ASSUME NEW k \in Keys \ keys PROVE Released(k)'
    <3>1. FramesRelease(k) => HandReleases(k)' \/ FramesRelease(k)'
      <4> SUFFICES ASSUME NEW j \in 1 .. Len(frames), Releases(frames[j], k)
                   PROVE  HandReleases(k)' \/ FramesRelease(k)'
        BY DEF FramesRelease
      <4>1. CASE j = 1
        BY <2>1, <4>1 DEF HandReleases
      <4>2. CASE j \in 2 .. Len(frames)
        BY <2>1, <4>2 DEF FramesRelease
      <4> QED BY <2>1, <4>1, <4>2
    <3>2. \A i \in 1 .. Len(frames) : Presses(frames[i], k) =>
             \E j \in i + 1 .. Len(frames) : Releases(frames[j], k)
      BY <1>2 DEF Released
    <3>3. ASSUME NEW i \in 1 .. Len(frames'), Presses(frames'[i], k)
          PROVE  \E j \in i + 1 .. Len(frames') : Releases(frames'[j], k)
      <4>1. PICK j \in i + 2 .. Len(frames) : Releases(frames[j], k)
        BY <2>1, <2>2, <3>2, <3>3
      <4>2. j - 1 \in i + 1 .. Len(frames') /\ Releases(frames'[j - 1], k)
        BY <2>1, <4>1
      <4> QED BY <4>2
    <3>4. Presses(hand'.frame, k) => FramesRelease(k)'
      <4> SUFFICES ASSUME Presses(frames[1], k) PROVE FramesRelease(k)'
        BY <2>1
      <4>1. PICK j \in 2 .. Len(frames) : Releases(frames[j], k)
        BY <2>2, <3>2
      <4> QED BY <2>1, <4>1 DEF FramesRelease
    <3> QED BY <1>2, <2>1, <3>1, <3>3, <3>4 DEF Released, HandReleases
  <2> QED BY <2>3, <2>4
<1>4. CASE SendEvent /\ up /\ hand.to = input
  <2>1. /\ hand.frame \in Frames /\ hand' = NoFrame /\ hand # NoFrame
        /\ Len(wire) \in Nat /\ Len(wire') = Len(wire) + 1
        /\ \A i \in 1 .. Len(wire) : wire'[i] = wire[i]
        /\ wire'[Len(wire) + 1] = Translate(hand.frame)
        /\ frames' = frames /\ remote' = remote /\ up' = up /\ input' = input
    BY <1>4, Put
  <2> DEFINE m == Translate(hand.frame)
  <2>2. (m.kind = "key" => m = hand.frame) /\ (hand.frame.kind = "key" => m = hand.frame)
    BY <2>1, Translated
  <2> HIDE DEF m
  <2>3. wire'[Len(wire) + 1] = m
    BY <2>1 DEF m
  <2>4. LettersOnly'
    BY <1>2, <2>1, <2>2, <2>3 DEF LettersOnly
  <2>5. ASSUME NEW k \in Keys \ keys PROVE Released(k)'
    <3>1. (Presses(m, k) <=> Presses(hand.frame, k)) /\ (Releases(m, k) <=> Releases(hand.frame, k))
      BY <2>2 DEF Presses, Releases
    <3>2. Len(wire) + 1 \in 1 .. Len(wire') /\ \A i \in 1 .. Len(wire) : Len(wire) + 1 \in i + 1 .. Len(wire')
      BY <2>1
    <3>3. (FramesRelease(k)' <=> FramesRelease(k)) /\ ~HandReleases(k)'
      BY <2>1 DEF FramesRelease, HandReleases
    <3>4. HandReleases(k) => Releases(wire'[Len(wire) + 1], k)
      BY <2>3, <3>1 DEF HandReleases
    <3>5. ASSUME NEW i \in 1 .. Len(wire'), Presses(wire'[i], k)
          PROVE  (\E j \in i + 1 .. Len(wire') : Releases(wire'[j], k)) \/ FramesRelease(k)
      <4>1. CASE i \in 1 .. Len(wire)
        <5>1. (\E j \in i + 1 .. Len(wire) : Releases(wire[j], k)) \/ HandReleases(k) \/ FramesRelease(k)
          BY <1>2, <2>1, <3>5, <4>1 DEF Released
        <5> QED BY <2>1, <3>2, <3>4, <4>1, <5>1
      <4>2. CASE i = Len(wire) + 1
        BY <1>2, <2>1, <2>3, <3>1, <3>5, <4>2 DEF Released
      <4> QED BY <2>1, <4>1, <4>2
    <3>6. ASSUME up, k \in remote.keys
          PROVE  (\E j \in 1 .. Len(wire') : Releases(wire'[j], k)) \/ FramesRelease(k)
      <4>1. (\E j \in 1 .. Len(wire) : Releases(wire[j], k)) \/ HandReleases(k) \/ FramesRelease(k)
        BY <1>2, <3>6 DEF Released
      <4> QED BY <2>1, <3>2, <3>4, <4>1
    <3> QED BY <1>2, <2>1, <3>3, <3>5, <3>6 DEF Released
  <2> QED BY <2>4, <2>5
<1>5. CASE SendEvent /\ ~(up /\ hand.to = input)
  <2>1. hand # NoFrame /\ hand' = NoFrame /\ UNCHANGED <<wire, frames, remote, up, input>>
    BY <1>5 DEF SendEvent
  <2>2. wire = <<>> /\ (up => remote.keys = {})
    BY <1>5, <2>1 DEF Link, Untouched
  <2>3. LettersOnly'
    BY <1>2, <2>1 DEF LettersOnly
  <2>4. \A k \in Keys \ keys : Released(k)'
    BY <1>2, <2>1, <2>2 DEF Released, FramesRelease
  <2> QED BY <2>3, <2>4
<1>6. CASE ServerReads
  <2>1. /\ up /\ Len(wire) \in Nat \ {0} /\ Len(wire') = Len(wire) - 1
        /\ \A i \in 1 .. Len(wire') : wire'[i] = wire[i + 1]
        /\ \A i \in 2 .. Len(wire) : i - 1 \in 1 .. Len(wire') /\ wire'[i - 1] = wire[i]
        /\ wire[1] \in Messages
        /\ remote'.keys = IF wire[1].kind = "key"
                          THEN IF wire[1].down THEN remote.keys \cup {wire[1].sym}
                                               ELSE remote.keys \ {wire[1].sym}
                          ELSE remote.keys
        /\ frames' = frames /\ hand' = hand /\ input' = input /\ up' = up
    BY <1>6, ReadByServer
  <2>2. 1 \in 1 .. Len(wire) /\ \A i \in 1 .. Len(wire') : i + 1 \in 1 .. Len(wire)
    BY <2>1
  <2>3. LettersOnly'
    BY <1>2, <2>1, <2>2 DEF LettersOnly
  <2>4. ASSUME NEW k \in Keys \ keys PROVE Released(k)'
    <3>1. (FramesRelease(k)' <=> FramesRelease(k)) /\ (HandReleases(k)' <=> HandReleases(k))
      BY <2>1 DEF FramesRelease, HandReleases
    <3>2. \A i \in 1 .. Len(wire) : Presses(wire[i], k) =>
             (\E j \in i + 1 .. Len(wire) : Releases(wire[j], k)) \/ HandReleases(k) \/ FramesRelease(k)
      BY <1>2 DEF Released
    <3>3. ASSUME NEW i \in 1 .. Len(wire'), Presses(wire'[i], k), ~HandReleases(k), ~FramesRelease(k)
          PROVE  \E j \in i + 1 .. Len(wire') : Releases(wire'[j], k)
      <4>1. PICK j \in i + 2 .. Len(wire) : Releases(wire[j], k)
        BY <2>1, <2>2, <3>2, <3>3
      <4>2. j - 1 \in i + 1 .. Len(wire') /\ Releases(wire'[j - 1], k)
        BY <2>1, <4>1
      <4> QED BY <4>2
    <3>4. ASSUME k \in remote'.keys, ~HandReleases(k), ~FramesRelease(k)
          PROVE  \E j \in 1 .. Len(wire') : Releases(wire'[j], k)
      <4>1. PICK j \in 2 .. Len(wire) : Releases(wire[j], k)
        <5>1. CASE k \in remote.keys
          <6>1. PICK j \in 1 .. Len(wire) : Releases(wire[j], k)
            BY <1>2, <2>1, <3>4, <5>1 DEF Released
          <6>2. CASE j = 1
            <7>1. k \in remote'.keys => FALSE
              BY <2>1, <6>1, <6>2 DEF Presses, Releases
            <7> QED BY <3>4, <7>1
          <6>3. CASE j # 1
            BY <2>1, <6>1, <6>3
          <6> QED BY <6>2, <6>3
        <5>2. CASE k \notin remote.keys
          <6>1. wire[1].kind = "key" /\ wire[1].down /\ wire[1].sym = k
            BY <2>1, <3>4, <5>2
          <6>2. Presses(wire[1], k)
            BY <6>1 DEF Presses
          <6> QED BY <2>2, <3>2, <3>4, <6>2
        <5> QED BY <5>1, <5>2
      <4> QED BY <2>1, <4>1
    <3> QED BY <1>2, <2>1, <3>1, <3>3, <3>4 DEF Released
  <2> QED BY <2>3, <2>4
<1>7. CASE Drop
  <2>1. wire' = <<>> /\ up' = FALSE /\ UNCHANGED <<frames, hand, remote, input>>
    BY <1>7 DEF Drop
  <2> QED BY <1>2, <2>1 DEF LettersOnly, Released, FramesRelease
<1>8. CASE SetInput
  <2>1. wire = <<>> /\ wire' = wire /\ remote' = Untouched /\ UNCHANGED <<frames, hand>>
    BY <1>8 DEF SetInput, Link
  <2> QED BY <1>2, <2>1 DEF LettersOnly, Released, FramesRelease, Untouched
<1> QED BY <1>3, <1>4, <1>5, <1>6, <1>7, <1>8

-----------------------------------------------------------------------------
(* The steps.                                                              *)

LEMMA GrowKeepsLink ==
  ASSUME Link, UNCHANGED <<proto, hand, linkVars>>
  PROVE  Link'
  BY DEF Link, linkVars

LEMMA RestTyped ==
  ASSUME TypeOK, UNCHANGED <<proto, keys, strokes, hand, linkVars>>,
         log' \in Seq(SUBSET Buttons), Len(log') <= MaxEvents,
         pendingMove' \in 0 .. Len(log'), buttonMask' \subseteq Buttons,
         frames' \in Seq(Frames), lost' \in BOOLEAN
  PROVE  TypeOK'
  BY DEF TypeOK, linkVars

\* A button or the wheel.
LEMMA SendsAtOnceKeeps ==
  ASSUME IInv, NEW mask \in SUBSET Buttons, NEW sent \in Seq(Frames), SendsAtOnce(mask, sent),
         \A i \in 1 .. Len(sent) :
             sent[i].kind = "pointer" /\ sent[i].at = Now /\ sent[i].mask \ {Wheel} = mask
  PROVE  IInv'
<1>1. /\ MouseEvent(mask) /\ pendingMove' = 0 /\ buttonMask' = mask /\ frames' = frames \o sent
      /\ UNCHANGED <<proto, keys, strokes, hand, linkVars>> /\ lost' = FALSE
  BY DEF SendsAtOnce, MouseEvent
<1>2. /\ log' \in Seq(SUBSET Buttons) /\ Len(log') <= MaxEvents
      /\ Len(log) \in Nat /\ Len(log') = Len(log) + 1 /\ Now = Len(log') /\ Now \in 1 .. MaxEvents
      /\ \A n \in 0 .. Len(log) : HeldIn(log', n) = HeldIn(log, n)
      /\ HeldIn(log', Len(log')) = mask
  BY <1>1, Logged DEF IInv
<1>3. frames' \in Seq(Frames)
  BY <1>1, Grown DEF IInv
<1>4. TypeOK'
  <2>1. pendingMove' \in 0 .. Len(log') /\ buttonMask' \subseteq Buttons
    BY <1>1, <1>2
  <2>2. lost' \in BOOLEAN
    BY <1>1
  <2> QED BY <1>1, <1>2, <1>3, <2>1, <2>2, RestTyped DEF IInv
<1>5. Link'
  BY <1>1, GrowKeepsLink DEF IInv
<1>6. Positions'
  <2>1. \A i \in 1 .. Len(sent) : Moves(sent[i]) => sent[i].at = Len(log')
    BY <1>2
  <2>2. MoveIsLatest' /\ UNCHANGED <<hand, wire, remote>> /\ Len(log') \in Nat /\ Len(log') >= Len(log)
    BY <1>1, <1>2 DEF MoveIsLatest, linkVars
  <2> QED BY <1>1, <2>1, <2>2, GrowKeepsPositions DEF IInv
<1>7. Masked'
  <2>1. \A i \in 1 .. Len(sent) : Truthful(log', sent[i])
    BY <1>2 DEF Truthful
  <2> QED BY <1>1, <1>2, <2>1, GrowKeepsMasks DEF IInv
<1>8. NoKeySticks'
  <2>1. \A i \in 1 .. Len(sent) : sent[i].kind # "key" /\ \A k \in Keys : ~Presses(sent[i], k)
    BY DEF Presses
  <2> QED BY <1>1, <2>1, GrowKeepsKeys DEF IInv
<1> QED BY <1>4, <1>5, <1>6, <1>7, <1>8 DEF IInv

LEMMA OnPointerMoveKeeps ==
  ASSUME IInv, OnPointerMove
  PROVE  IInv'
<1>1. /\ MouseEvent(buttonMask) /\ pendingMove' = Now /\ buttonMask \subseteq Buttons
      /\ UNCHANGED <<buttonMask, frames, proto, keys, strokes, hand, linkVars>> /\ lost' = FALSE
  BY DEF OnPointerMove, MouseEvent, IInv, TypeOK
<1>2. /\ log' \in Seq(SUBSET Buttons) /\ Len(log') <= MaxEvents
      /\ Len(log) \in Nat /\ Len(log') = Len(log) + 1 /\ Now = Len(log') /\ Now \in 1 .. MaxEvents
      /\ \A n \in 0 .. Len(log) : HeldIn(log', n) = HeldIn(log, n)
      /\ HeldIn(log', Len(log')) = buttonMask
  BY <1>1, Logged DEF IInv
<1> DEFINE sent == <<>>
<1>3. sent \in Seq(Frames) /\ Len(sent) = 0 /\ frames' = frames \o sent
  BY <1>1 DEF IInv, TypeOK
<1>4. \A i \in 1 .. Len(sent) : FALSE
  BY <1>3
<1> HIDE DEF sent
<1>5. TypeOK'
  <2>1. pendingMove' \in 0 .. Len(log') /\ buttonMask' \subseteq Buttons
    BY <1>1, <1>2
  <2>2. lost' \in BOOLEAN /\ frames' \in Seq(Frames)
    BY <1>1 DEF IInv, TypeOK
  <2> QED BY <1>1, <1>2, <2>1, <2>2, RestTyped DEF IInv
<1>6. Link'
  BY <1>1, GrowKeepsLink DEF IInv
<1>7. Positions'
  <2>1. MoveIsLatest' /\ UNCHANGED <<hand, wire, remote>> /\ Len(log') \in Nat /\ Len(log') >= Len(log)
    BY <1>1, <1>2 DEF MoveIsLatest, linkVars
  <2> QED BY <1>3, <1>4, <2>1, GrowKeepsPositions DEF IInv
<1>8. Masked'
  BY <1>1, <1>2, <1>3, <1>4, GrowKeepsMasks DEF IInv
<1>9. NoKeySticks'
  BY <1>1, <1>3, <1>4, GrowKeepsKeys DEF IInv
<1> QED BY <1>5, <1>6, <1>7, <1>8, <1>9 DEF IInv

LEMMA FlushMoveKeeps ==
  ASSUME IInv, FlushMove
  PROVE  IInv'
<1>1. /\ pendingMove # 0 /\ pendingMove' = 0 /\ log' = log
      /\ UNCHANGED <<buttonMask, proto, keys, strokes, hand, linkVars, lost>>
  BY DEF FlushMove, userVars
<1>2. pendingMove = Len(log) /\ pendingMove \in 1 .. MaxEvents /\ buttonMask \in SUBSET Buttons
      /\ Len(log) \in Nat
  BY <1>1, InputAssumption DEF IInv, TypeOK, Positions, MoveIsLatest
<1> DEFINE f == Pointer(pendingMove, buttonMask)
<1>3. f \in Frames /\ f.kind = "pointer" /\ f.at = pendingMove /\ f.mask = buttonMask
      /\ f.mask \ {Wheel} = buttonMask
  BY <1>2, PointerFrame, ButtonMasks
<1>4. frames' = Append(frames, f)
  BY DEF FlushMove
<1> HIDE DEF f
<1> DEFINE sent == <<f>>
<1>5. sent \in Seq(Frames) /\ Len(sent) = 1 /\ sent[1] = f /\ frames' = frames \o sent
  BY <1>3, <1>4, Added DEF IInv
<1>6. \A i \in 1 .. Len(sent) : sent[i] = f
  BY <1>5
<1> HIDE DEF sent
<1>7. frames' \in Seq(Frames)
  BY <1>5, Grown DEF IInv
<1>8. TypeOK'
  BY <1>1, <1>7 DEF IInv, TypeOK, linkVars
<1>9. Link'
  BY <1>1, GrowKeepsLink DEF IInv
<1>10. Positions'
  <2>1. MoveIsLatest' /\ UNCHANGED <<hand, wire, remote>> /\ Len(log') \in Nat /\ Len(log') >= Len(log)
    BY <1>1, <1>2 DEF MoveIsLatest, linkVars
  <2> QED BY <1>1, <1>2, <1>3, <1>5, <1>6, <2>1, GrowKeepsPositions DEF IInv
<1>11. Masked'
  <2>1. buttonMask = HeldIn(log, Len(log))
    BY DEF IInv, Masked
  <2>2. \A i \in 1 .. Len(sent) : Truthful(log', sent[i])
    BY <1>1, <1>2, <1>3, <1>6, <2>1 DEF Truthful
  <2> QED BY <1>1, <1>5, <2>1, <2>2, GrowKeepsMasks DEF IInv
<1>12. NoKeySticks'
  <2>1. \A i \in 1 .. Len(sent) : sent[i].kind # "key" /\ \A k \in Keys : ~Presses(sent[i], k)
    BY <1>3, <1>6 DEF Presses
  <2> QED BY <1>1, <1>5, <2>1, GrowKeepsKeys DEF IInv
<1> QED BY <1>8, <1>9, <1>10, <1>11, <1>12 DEF IInv

LEMMA StrokeKeeps ==
  ASSUME IInv, NEW k \in Keys, OnKeyDown(k) \/ OnKeyUp(k)
  PROVE  IInv'
<1> DEFINE down == IF OnKeyDown(k) THEN TRUE ELSE FALSE
<1>1. PICK f \in Frames :
         /\ f.kind = "key" /\ (proto = "rdp" => f.sym = k) /\ frames' = Append(frames, f)
         /\ \/ f.down /\ keys' = keys \cup {k}
            \/ ~f.down /\ keys' = keys \ {k}
  <2>1. CASE OnKeyDown(k)
    <3>1. LET f == Key(KeyFor(k), TRUE)
          IN  f \in Frames /\ f.kind = "key" /\ f.down = TRUE /\ (proto = "rdp" => f.sym = k)
      BY KeyFrame
    <3> QED BY <2>1, <3>1 DEF OnKeyDown, Stroke
  <2>2. CASE OnKeyUp(k)
    <3>1. LET f == Key(KeyFor(k), FALSE)
          IN  f \in Frames /\ f.kind = "key" /\ f.down = FALSE /\ (proto = "rdp" => f.sym = k)
      BY KeyFrame
    <3> QED BY <2>2, <3>1 DEF OnKeyUp, Stroke
  <2> QED BY <2>1, <2>2
<1>2. /\ UNCHANGED <<proto, log, viewerVars, hand, linkVars, lost>>
      /\ strokes' \in 0 .. MaxStrokes /\ keys' \subseteq Keys
  <2>1. UNCHANGED <<proto, log, viewerVars, hand, linkVars, lost>>
    BY DEF OnKeyDown, OnKeyUp, Stroke
  <2>2. strokes \in 0 .. MaxStrokes /\ keys \subseteq Keys
    BY DEF IInv, TypeOK
  <2>3. strokes' = strokes \/ (strokes < MaxStrokes /\ strokes' = strokes + 1)
    BY DEF OnKeyDown, OnKeyUp
  <2>4. strokes' \in 0 .. MaxStrokes
    BY <2>2, <2>3, InputAssumption
  <2>5. keys' \subseteq Keys
    BY <1>1, <2>2
  <2> QED BY <2>1, <2>4, <2>5
<1> DEFINE sent == <<f>>
<1>3. sent \in Seq(Frames) /\ Len(sent) = 1 /\ sent[1] = f /\ frames' = frames \o sent
  BY <1>1, Added DEF IInv
<1>4. \A i \in 1 .. Len(sent) : sent[i] = f
  BY <1>3
<1> HIDE DEF sent
<1>5. frames' \in Seq(Frames)
  BY <1>3, Grown DEF IInv
<1>6. TypeOK'
  BY <1>2, <1>5 DEF IInv, TypeOK, linkVars, viewerVars
<1>7. Link'
  BY <1>2, GrowKeepsLink DEF IInv
<1>8. Positions'
  <2>1. MoveIsLatest' /\ UNCHANGED <<hand, wire, remote>> /\ Len(log') \in Nat /\ Len(log') >= Len(log)
    BY <1>2 DEF IInv, TypeOK, Positions, MoveIsLatest, linkVars, viewerVars
  <2>2. ~Moves(f)
    BY <1>1 DEF Moves
  <2> QED BY <1>3, <1>4, <2>1, <2>2, GrowKeepsPositions DEF IInv
<1>9. Masked'
  <2>1. \A i \in 1 .. Len(sent) : Truthful(log', sent[i])
    BY <1>1, <1>4 DEF Truthful
  <2> QED BY <1>2, <1>3, <2>1, GrowKeepsMasks DEF IInv, Masked, viewerVars
<1>10. NoKeySticks'
  <2>1. ASSUME proto = "rdp", NEW j \in Keys \ keys'
        PROVE  \/ j \notin keys /\ \A i \in 1 .. Len(sent) : ~Presses(sent[i], j)
               \/ Len(sent) > 0 /\ Releases(sent[Len(sent)], j)
    <3>1. CASE j = k
      BY <1>1, <1>3, <2>1, <3>1 DEF Releases
    <3>2. CASE j # k
      BY <1>1, <1>4, <2>1, <3>2 DEF Presses
    <3> QED BY <3>1, <3>2
  <2>2. proto = "rdp" => \A i \in 1 .. Len(sent) : sent[i].kind = "key" => sent[i].sym \in Keys
    BY <1>1, <1>4
  <2> QED BY <1>2, <1>3, <2>1, <2>2, GrowKeepsKeys DEF IInv
<1> QED BY <1>6, <1>7, <1>8, <1>9, <1>10 DEF IInv

\* The bridge, the client, the server, and the connection.
LEMMA PipelineKeeps ==
  ASSUME IInv, HandleInput \/ SendEvent \/ ServerReads \/ Drop \/ SetInput
  PROVE  IInv'
<1>1. Positions'
  BY HandleInputKeepsPositions, SendEventKeepsPositions, ServerReadsKeepsPositions, LinkKeepsPositions DEF IInv
<1>2. Masked' /\ NoKeySticks'
  BY PipelineKeepsMasks, PipelineKeepsKeys DEF IInv
<1>3. TypeOK' /\ Link'
  <2>1. CASE HandleInput
    <3>1. /\ hand' \in [frame : Frames, to : 0 .. MaxDrops] /\ hand'.to = input /\ frames' \in Seq(Frames)
          /\ UNCHANGED <<userVars, viewerVars, linkVars, lost>>
      BY <2>1, Taken DEF IInv
    <3> QED BY <3>1 DEF IInv, TypeOK, Link, userVars, viewerVars, linkVars
  <2>2. CASE SendEvent /\ up /\ hand.to = input
    <3>1. /\ hand.frame \in Frames /\ hand' = NoFrame
          /\ wire' \in Seq(Messages) /\ Len(wire) \in Nat /\ Len(wire') = Len(wire) + 1
          /\ \A i \in 1 .. Len(wire) : wire'[i] = wire[i]
          /\ wire'[Len(wire) + 1] = Translate(hand.frame)
          /\ UNCHANGED <<userVars, viewerVars, frames, input, up, remote, lost>>
      BY <2>2, Put DEF IInv
    <3>2. Translate(hand.frame).kind # IF proto = "vnc" THEN "flags" ELSE "pointer"
      BY <3>1, Translated, InputAssumption DEF IInv, TypeOK
    <3>3. TypeOK'
      BY <3>1 DEF IInv, TypeOK, userVars, viewerVars
    <3>4. Link'
      BY <2>2, <3>1, <3>2 DEF IInv, Link, userVars
    <3> QED BY <3>3, <3>4
  <2>3. CASE SendEvent /\ ~(up /\ hand.to = input)
    <3>1. /\ hand' = NoFrame /\ lost' = TRUE
          /\ UNCHANGED <<wire, userVars, viewerVars, frames, input, up, remote>>
      BY <2>3 DEF SendEvent
    <3> QED BY <3>1 DEF IInv, TypeOK, Link, userVars, viewerVars
  <2>4. CASE ServerReads
    <3>1. /\ up /\ wire' \in Seq(Messages) /\ Len(wire) \in Nat \ {0} /\ Len(wire') = Len(wire) - 1
          /\ \A i \in 1 .. Len(wire') : wire'[i] = wire[i + 1]
          /\ remote' \in Desktop /\ (hand # NoFrame => hand.to = input)
          /\ UNCHANGED <<userVars, viewerVars, frames, hand, input, up, lost>>
      BY <2>4, ReadByServer DEF IInv
    <3>2. \A i \in 1 .. Len(wire') : i + 1 \in 1 .. Len(wire)
      BY <3>1
    <3> QED BY <3>1, <3>2 DEF IInv, TypeOK, Link, userVars, viewerVars
  <2>5. CASE Drop
    <3>1. /\ up' = FALSE /\ wire' = <<>> /\ lost' = TRUE /\ input < MaxDrops
          /\ UNCHANGED <<userVars, viewerVars, frames, hand, input, remote>>
      BY <2>5 DEF Drop
    <3>2. wire' \in Seq(Messages) /\ Len(wire') = 0
      BY <3>1
    <3>3. TypeOK'
      BY <3>1, <3>2 DEF IInv, TypeOK, userVars, viewerVars
    <3>4. Link'
      BY <3>1, <3>2 DEF Link
    <3> QED BY <3>3, <3>4
  <2>6. CASE SetInput
    <3>1. /\ up' = TRUE /\ remote' = Untouched /\ lost' = TRUE /\ wire = <<>>
          /\ UNCHANGED <<userVars, viewerVars, frames, hand, wire>>
      BY <2>6 DEF SetInput, IInv, Link
    <3>2. input' \in 0 .. MaxDrops
      BY <2>6, InputAssumption DEF SetInput, IInv, TypeOK, Link
    <3>3. Untouched \in Desktop
      BY InputAssumption DEF Untouched, Desktop, Masks
    <3> QED BY <3>1, <3>2, <3>3 DEF IInv, TypeOK, Link, userVars, viewerVars
  <2> QED BY <2>1, <2>2, <2>3, <2>4, <2>5, <2>6
<1> QED BY <1>1, <1>2, <1>3 DEF IInv

LEMMA NextKeeps == IInv /\ [Next]_vars => IInv'
<1> SUFFICES ASSUME IInv, [Next]_vars PROVE IInv'
  OBVIOUS
<1>1. CASE OnPointerMove
  BY <1>1, OnPointerMoveKeeps
<1>2. CASE FlushMove
  BY <1>2, FlushMoveKeeps
<1>3. buttonMask \in SUBSET Buttons
  BY DEF IInv, TypeOK
<1>4. Len(log) < MaxEvents => Now \in 1 .. MaxEvents
  BY InputAssumption DEF IInv, TypeOK, Now
<1>5. ASSUME NEW mask \in SUBSET Buttons, SendsAtOnce(mask, <<Pointer(Now, mask)>>)
      PROVE  IInv'
  <2>1. Now \in 1 .. MaxEvents
    BY <1>4, <1>5 DEF SendsAtOnce, MouseEvent
  <2>2. mask \in Masks /\ mask \ {Wheel} = mask
    BY ButtonMasks
  <2> DEFINE f == Pointer(Now, mask)
  <2>3. f \in Frames /\ f.kind = "pointer" /\ f.at = Now /\ f.mask = mask
    BY <2>1, <2>2, PointerFrame
  <2>4. SendsAtOnce(mask, <<f>>)
    BY <1>5
  <2> HIDE DEF f
  <2> DEFINE sent == <<f>>
  <2>5. sent \in Seq(Frames) /\ Len(sent) = 1 /\ sent[1] = f
    BY <2>3
  <2>6. SendsAtOnce(mask, sent)
    BY <2>4
  <2> HIDE DEF sent
  <2>7. \A i \in 1 .. Len(sent) :
            sent[i].kind = "pointer" /\ sent[i].at = Now /\ sent[i].mask \ {Wheel} = mask
    BY <2>2, <2>3, <2>5
  <2> QED BY <2>5, <2>6, <2>7, SendsAtOnceKeeps
<1>6. CASE OnWheel
  <2>1. Now \in 1 .. MaxEvents
    BY <1>4, <1>6 DEF OnWheel, SendsAtOnce, MouseEvent
  <2>2. /\ buttonMask \in Masks /\ buttonMask \ {Wheel} = buttonMask
        /\ buttonMask \cup {Wheel} \in Masks /\ (buttonMask \cup {Wheel}) \ {Wheel} = buttonMask
    BY <1>3, ButtonMasks
  <2> DEFINE f == Pointer(Now, buttonMask \cup {Wheel})
             g == Pointer(Now, buttonMask)
  <2>3. f \in Frames /\ f.kind = "pointer" /\ f.at = Now /\ f.mask = buttonMask \cup {Wheel}
    BY <2>1, <2>2, PointerFrame
  <2>4. g \in Frames /\ g.kind = "pointer" /\ g.at = Now /\ g.mask = buttonMask
    BY <2>1, <2>2, PointerFrame
  <2>5. SendsAtOnce(buttonMask, <<f, g>>)
    BY <1>6 DEF OnWheel
  <2> HIDE DEF f, g
  <2> DEFINE sent == <<f, g>>
  <2>6. sent \in Seq(Frames) /\ Len(sent) = 2 /\ sent[1] = f /\ sent[2] = g
    BY <2>3, <2>4
  <2>7. SendsAtOnce(buttonMask, sent)
    BY <2>5
  <2> HIDE DEF sent
  <2>8. \A i \in 1 .. Len(sent) : sent[i] = f \/ sent[i] = g
    BY <2>6
  <2>9. \A i \in 1 .. Len(sent) :
            sent[i].kind = "pointer" /\ sent[i].at = Now /\ sent[i].mask \ {Wheel} = buttonMask
    BY <2>2, <2>3, <2>4, <2>8
  <2> QED BY <1>3, <2>6, <2>7, <2>9, SendsAtOnceKeeps
<1>7. CASE \E b \in Buttons : OnPointerDown(b) \/ OnPointerUp(b)
  <2>1. PICK b \in Buttons : OnPointerDown(b) \/ OnPointerUp(b)
    BY <1>7
  <2>2. CASE OnPointerDown(b)
    <3>1. buttonMask \cup {b} \in SUBSET Buttons
      BY <1>3
    <3> QED BY <1>5, <2>2, <3>1 DEF OnPointerDown
  <2>3. CASE OnPointerUp(b)
    <3>1. buttonMask \ {b} \in SUBSET Buttons
      BY <1>3
    <3> QED BY <1>5, <2>3, <3>1 DEF OnPointerUp
  <2> QED BY <2>1, <2>2, <2>3
<1>8. CASE \E k \in Keys : OnKeyDown(k) \/ OnKeyUp(k)
  BY <1>8, StrokeKeeps
<1>9. CASE HandleInput \/ SendEvent \/ ServerReads \/ Drop \/ SetInput
  BY <1>9, PipelineKeeps
<1>10. CASE UNCHANGED vars
  <2>1. UNCHANGED <<proto, log, keys, strokes, pendingMove, buttonMask, frames, hand,
                    input, up, wire, remote, lost>>
    BY <1>10 DEF vars, userVars, viewerVars, linkVars
  <2>2. TypeOK' /\ Link'
    BY <2>1 DEF IInv, TypeOK, Link
  <2>3. Positions'
    BY <2>1 DEF IInv, Positions, FramesInOrder, HandInOrder, WireInOrder, RemoteInOrder,
                MoveIsLatest, HandMoves
  <2>4. Masked'
    BY <2>1 DEF IInv, Masked
  <2>5. NoKeySticks'
    BY <2>1 DEF IInv, NoKeySticks, LettersOnly, Released, FramesRelease, HandReleases
  <2> QED BY <2>2, <2>3, <2>4, <2>5 DEF IInv
<1> QED BY <1>1, <1>2, <1>6, <1>7, <1>8, <1>9, <1>10 DEF Next

LEMMA InitHolds == Init => IInv
<1> SUFFICES ASSUME Init PROVE IInv
  OBVIOUS
<1>1. /\ log = <<>> /\ frames = <<>> /\ wire = <<>> /\ Len(log) = 0 /\ Len(frames) = 0 /\ Len(wire) = 0
      /\ hand = NoFrame /\ remote = Untouched /\ pendingMove = 0 /\ up
  BY DEF Init
<1>2. Untouched \in Desktop
  BY InputAssumption DEF Untouched, Desktop, Masks
<1>3. log \in Seq(SUBSET Buttons) /\ frames \in Seq(Frames) /\ wire \in Seq(Messages)
  BY <1>1
<1>4. TypeOK
  <2>1. 0 \in 0 .. MaxStrokes /\ 0 \in 0 .. MaxDrops /\ 0 <= MaxEvents /\ 0 \in 0 .. Len(log)
    BY <1>1, InputAssumption
  <2>2. proto \in Protocols /\ keys = {} /\ strokes = 0 /\ buttonMask = {} /\ input = 0 /\ lost = FALSE
    BY DEF Init
  <2>3. hand \in [frame : Frames, to : 0 .. MaxDrops] \cup {NoFrame}
    BY <1>1
  <2> QED BY <1>1, <1>2, <1>3, <2>1, <2>2, <2>3 DEF TypeOK
<1>5. Link
  BY <1>1 DEF Link
<1>6. Positions
  BY <1>1 DEF Positions, FramesInOrder, HandInOrder, WireInOrder, RemoteInOrder, MoveIsLatest,
              HandMoves, Untouched
<1>7. Masked
  BY <1>1 DEF Init, Masked, HeldIn, Untouched
<1>8. NoKeySticks
  BY <1>1 DEF NoKeySticks, LettersOnly, Released, Untouched
<1> QED BY <1>4, <1>5, <1>6, <1>7, <1>8 DEF IInv

-----------------------------------------------------------------------------
(* The theorems.                                                           *)

\* The invariant of the whole path, from the user to the server.
THEOREM InvariantHolds == Spec => []IInv
  BY InitHolds, NextKeeps, PTL DEF Spec

\* Every queue, mask and position stays of its type.
THEOREM TypeCorrect == Spec => []TypeOK
<1>1. IInv => TypeOK
  BY DEF IInv
<1> QED BY <1>1, InvariantHolds, PTL

\* Under RFB the server's buttons are always those that were down where it has
\* the pointer (viewer.js:247, messages.go): no click lands elsewhere.
THEOREM ButtonsAreTrue == Spec => []VncButtonsFollow
<1>1. IInv => VncButtonsFollow
  BY DEF IInv, Masked, VncButtonsFollow, ButtonsFollow, Held, HeldIn
<1> QED BY <1>1, InvariantHolds, PTL

\* Under RDP, which names physical keys, a key that is up is up on the server
\* once all has arrived, whatever a lost connection took (viewer.js, onKeyUp).
THEOREM KeysComeUp == Spec => []RdpKeysFollow
<1>1. IInv => RdpKeysFollow
  <2> SUFFICES ASSUME IInv, proto = "rdp", Quiet,
                      NEW k \in remote.keys
               PROVE  k \in {KeyFor(j) : j \in keys}
    BY DEF RdpKeysFollow, KeysFollow
  <2>1. up /\ Len(frames) = 0 /\ Len(wire) = 0 /\ hand = NoFrame
    BY DEF Quiet
  <2>2. k \in Keys
    BY DEF IInv, NoKeySticks, LettersOnly
  <2>3. CASE k \notin keys
    <3>1. Released(k)
      BY <2>2, <2>3 DEF IInv, NoKeySticks
    <3> QED BY <2>1, <3>1 DEF Released, HandReleases, FramesRelease
  <2>4. CASE k \in keys
    <3>1. KeyFor(k) = k
      BY DEF KeyFor
    <3> QED BY <2>4, <3>1
  <2> QED BY <2>3, <2>4
<1> QED BY <1>1, InvariantHolds, PTL

\* Within a connection the remote pointer never goes back to an earlier
\* position (flushMove, dropPendingMove).
THEOREM PointerNeverBack == Spec => NeverBackwards
<1>1. IInv /\ [Next]_vars => [input' = input => remote'.at >= remote.at]_vars
  <2> SUFFICES ASSUME IInv, Next, input' = input PROVE remote'.at >= remote.at
    OBVIOUS
  <2>1. remote.at \in Nat
    BY InputAssumption DEF IInv, TypeOK, Desktop
  <2>2. CASE ServerReads
    <3>1. /\ wire # <<>> /\ wire \in Seq(Messages) /\ remote' = Reacts(remote, Head(wire))
          /\ remote \in Desktop
      BY <2>2 DEF ServerReads, IInv, TypeOK
    <3>2. Head(wire) = wire[1] /\ 1 \in 1 .. Len(wire) /\ wire[1] \in Messages
      BY <3>1
    <3>3. Moves(wire[1]) => wire[1].at >= remote.at
      BY <3>2, <2>1, MessageKinds, InputAssumption DEF IInv, Positions, RemoteInOrder, Moves
    <3>4. remote'.at = IF Moves(wire[1]) THEN wire[1].at ELSE remote.at
      BY <3>1, <3>2, MessageKinds DEF Reacts, Moves, Desktop
    <3> QED BY <2>1, <3>3, <3>4
  <2>3. CASE SetInput
    BY <2>3 DEF SetInput, IInv, TypeOK
  <2>4. CASE ~ServerReads /\ ~SetInput
    <3>1. remote' = remote
      BY <2>4 DEF Next, OnPointerMove, FlushMove, OnWheel, OnPointerDown, OnPointerUp, SendsAtOnce,
                  MouseEvent, OnKeyDown, OnKeyUp, Stroke, HandleInput, SendEvent, Drop, linkVars
    <3> QED BY <2>1, <3>1
  <2> QED BY <2>2, <2>3, <2>4
<1> QED BY <1>1, InvariantHolds, PTL DEF Spec, NeverBackwards

=============================================================================
