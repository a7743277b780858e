# Lupinus, modelled in TLA+

Lupinus is a desktop VNC and RDP client: a Go program with a webview. This
directory holds TLA+ models of its core, TLC configurations that check them on
small instances, and TLAPS proofs that hold for every instance. References such
as `app.go:446` are to the repository's files.

    tlc -config RfbPipeline.cfg RfbPipeline      # model-check
    tlapm RfbPipeline_proofs.tla                 # check the proofs

## The system

| Component | State | Operations | Interacts through |
| --- | --- | --- | --- |
| Session manager, `app.go` | map of live sessions; per session a goroutine with its delay and context | Connect, QuickConnect, Disconnect, reconnect loop | calls from the webview, status events to it, Dial/Run/Close of a client |
| WebSocket bridge, `internal/wsbridge` | per session: connection, input sink, attached and closed channels, shadow framebuffer | NewSession, attach, SetInput, close; sink methods Init, Update, CopyRect, Resize, Cursor, CutText | called by the client's goroutine; frames to the browser, input from it |
| VNC client, `internal/rfb` | socket, pixel levels in force, sent and wanted, tuner estimates, zlib streams | Dial, Run (update loop), input events | RFB over TCP; sink methods |
| RDP client, `internal/rdp` | socket, MCS channels, order state, caches, clipboard text | Dial (negotiation, CredSSP, MCS, licensing, capabilities), Run, input, clipboard | TPKT and fast-path over TLS; sink methods |
| Store, `internal/store` | list, settings and certificates in memory and in a JSON file; passwords in the OS keyring | Open, Save, Delete, TouchLastUsed, setters, VerifyOrTrustCertificate, ForgetCertificate | called concurrently by the webview's calls and by dials |
| Decoders, `internal/rfb`, `internal/rdp` | zlib histories, delta orders, colours of a run | one per encoding, order or codec | called by the clients' goroutines on what they read |
| Viewer tabs, `frontend/src/main.js` | list of tabs, status of each | connect, close, status events | bound Go methods, events, the WebSocket |
| Canvas, `frontend/src/viewer.js` | canvas, size, cursor, pointer state | frames in, input out | WebSocket |

What makes each hard, and what makes it correct:

* **Update loop.** Both directions of the connection are asynchronous and the
  pixels carry no format tag. Requests are pipelined, formats change on the fly,
  sizes change on the server. Correct: one request in flight, every rectangle
  decoded in the format it was encoded in, no change left undisplayed.
* **Session manager.** The goroutine, the webview's calls and the WebSocket
  interleave; servers vanish, hang and return; the user closes a tab at any
  moment. Correct: a closed tab's session ends, an open one comes back, the tab
  shows the last status.
* **Bridge and canvas.** Pixels believed to be on the canvas are not sent again.
  Correct: the belief is true.
* **Input.** Moves wait for an animation frame, everything else goes out at
  once, the client in use is replaced by a redial, and two protocols say the
  same thing differently. Correct: the pointer never goes back, what is let go of comes up.
* **Handshake and decoders.** Nothing on the wire marks an end: who speaks next,
  and how many bytes something takes, follows from what was read before.
  Correct: whatever way a server writes it, the client reads exactly that and shows what was meant.
* **Store.** Concurrent calls, an unreliable disk and keyring, a process that
  may stop anywhere, two stores with no common transaction. Correct: what was
  acknowledged lasts, pins hold, no path keeps the mutex.
* **RDP.** A fixed-order handshake of some fifteen exchanges with a server that
  may refuse, stop or be somebody else; stateful drawing orders; run-length
  codecs; a clipboard channel two goroutines write to. Correct: trust comes before
  credentials, the two sides never wait for each other, the deadline is there exactly
  while it should be, texts arrive whole and current.

## The modules

**UpdateExchange** is the abstract specification of the VNC update loop: client
and server take strict turns, and an update is in the format announced before it
was asked for.

**RfbPipeline** is the loop itself. `phase`, `level`, `sentLevel`, `wantLevel`,
`lastFast`, `cooldown`, `width` are the fields of `rfb.Client`; `pipelined`,
`rects` and `usedTight` are locals of `handleFramebufferUpdate`, which is split
where its effects become visible to the server: `ReadHeader` (with the
pipelined request), one `DecodeRect` per rectangle, `FinishUpdate` (tuner,
request, switch of level). `StartRun` is Run's first request. The two
directions of the connection are FIFO queues. The server is a conforming one
(external code): it reads messages in order, answers one request with one
update. The tuner's measurements are nondeterministic, its guards, cooldown and
effects are exact.

**SessionLifecycle** is one session. `pc` is the position of the goroutine of
`startSession`; `Call`/`ui` is the ordered queue of calls into the webview
(events and the result of Connect); `attached` and `closed` are the bridge's
channels; `tab`, `known`, `uiStatus`, `ws` belong to the frontend. The dial has
a step the context cancels (`tcp`) and one it does not (`handshake`), which a
deadline bounds for RDP (`HandshakeDeadline`). Sessions are independent, so one
is modelled.

**ShadowCanvas** (instances in **MCShadowCanvas**) is the framebuffer path.
`fb` is the shadow copy of `wsbridge.Session`, `canvas` what the browser shows,
and `screen` a history variable, what it would show if every operation were
forwarded whole. Frames are delivered in order and by one goroutine, so sending
and drawing is one step. The first `Init` frame has been handled in the initial
states, and sizes are at least 1 x 1 (`getImageData` fails on an empty canvas).

**ConnStore** is the store. `mem` is `Store.data`, `disk` and `tmp` the two
files, `lock` the mutex, `call` what each goroutine is in the middle of.
`persistLocked` is two steps, `WriteFile` and `Rename`, each of which may fail;
the keyring follows without the mutex. `Crash` stops the process anywhere and
reads the file again. `promised` and `accepted` are history variables.

**RdpConnect** is `rdp.Dial`. Each action is what the client does from one answer
to the next: read, check, store, write everything up to its next read.
`awaiting` is the answer it is blocked on; `Proceed` is what the handlers
share, `Accepts` their checks, `SentBeforeReply` the order `finalize` sends in.
`nla`, `cliprdr` are `selected` and `cliprdrChannelID`. The server (external) may grant or
refuse wherever the protocol lets it, sends activation replies one for one or
as a burst, and may fall silent or be lost (`link`). `peer` says whether it is the server it
should be: an impostor's certificate fails verification, a relay cannot prove that it
holds the key. UserID and channels are numbers because two of them are mixed up.

**RdpSession** extends it with the clipboard. `runOut` and `inputOut` are the chunks the two
goroutines still have to write, one `Write` per step; `vcBuf`, `clipText` are
fields of the client, `local` what the sink got last. Texts are numbered in the order they
were shared or copied, so that older and newer can be told apart. `greetedAt` is a
history variable, the last text shared when Run wrote its first, empty list: `OfferKept` speaks of
the texts shared since, `rdp_early` of the others. The remote
clipboard (external) answers requests, refuses those for a text it no longer
holds, and asks for the client's text at any time after an offer.

**InputPath** is the way of mouse and keyboard to the remote desktop. `log` and
`keys` are the user's; `pendingMove` and `buttonMask` are the viewer's
(`flushMove`, `dropPendingMove`); `frames` is the WebSocket;
`hand` is the frame inside `handleInput` with the client it read under the
mutex, so that `SetInput` can fall in between; `wire` and `remote` are the connection and the
server (external). A position is the number of the event that reported it. `Translate` is
`SendPointerEvent` of the two clients, `KeyFor` the choice of keysym or scancode.

**RfbHandshake** is the handshake of `rfb.Dial`. `client` and `server` name the
message each reads next; `OnRead` is one read of the client with everything it
then says. The server (external) conforms to the version it was answered with.

**RfbRects** has the rectangles. The server (external) means a picture
(`meant`) and writes it in any way the encoding allows: ZRLE's tile kinds,
Tight's fills, filters, palettes, streams and resets, lengths and compression. The
client (`Decode...`) reads tokens off `stream` and hands `shown` to the sink. `TightRect`, `TightBasic`, `TightFilter`,
`ReadChunk` and `TightImage` are the stretches of `decodeTight`, `DecodeZRLETile` is `decodeZRLETile`.
`comp` and `deco` count what each zlib stream has behind it on either side, and
`readable` says whether the client ever met a token it did not expect.

**RdpRle** decodes interleaved RLE order by order and pixel by pixel: `run` is the
loop of `decodeInterleavedRLE`, `fgPel`, `insertFgPel`, `firstLine` its variables. The
server (external) chooses among all orders and all forms of a length that describe
the next pixels, and keeps what it knows of them in `drawn`.

**RdpOrders** has the six drawing orders. `st` is `orderState`, `sent` the server's
copy of it; the server (external) leaves out any field that has not changed,
writes coordinates absolutely or as differences, and lists of rectangles as
differences of one or two bytes from one to the next. Bounds are read and
ignored, as in the code; the server sends only such as clip nothing.

**ScreenDecoders** puts these four side by side (instance in **MCScreenDecoders**): one
behaviour is one of one of them.

## The runs

| Run | Question | Instance | Result |
| --- | --- | --- | --- |
| `vnc_pipeline` | Is the update loop right, and a refinement of UpdateExchange? | 3 levels, cooldown 3, widths 1-2, 2 resizes | holds |
| `session_rdp` | Does a session with a bounded handshake end, return and report as it should? | delays 1 to 30 | holds |
| `session_orphan` | Does every closed tab's session end? | delays 1 to 2 | violated |
| `shadow_inside` | Is suppressing unchanged pixels invisible? | 2x3 and 3x1, two colours | holds |
| `store_durable` | Do acknowledged changes survive failures and crashes? | 1 connection with 2 contents and 2 passwords, 1 address, 2 fingerprints, 2 callers | holds |
| `store_trust` | Is one fingerprint accepted per address? | as above | violated |
| `rdp_session` | Is the RDP connection and clipboard right? | IDs of a real session, 2 texts each way, 1 chunk out, 2 in | holds |
| `rdp_early` | Is a text the server's to fetch, whenever it was shared? | 1 text each way | violated |
| `rdp_chunks` | Do long texts arrive whole? | 2 chunks out, 1 in | violated |
| `input_path` | Do pointer and keys follow the user? | both protocols, 1 button, 3 mouse events, 2 key presses, 1 lost connection | holds |
| `input_rdp` | Does a released button come up over RDP? | as above, RDP only | violated |
| `screen_decoders` | Is everything a server may write read as it was meant? | 6 versions, all offers and credentials; 2 rectangles; bitmaps of 2x3; 2 orders | holds |

The violations are disagreements with the repository's own comments:

* A tab closed between Connect's answer and the opening of its WebSocket leaves
  its session for ever: the goroutine is inside `Session.write`, which waits for
  an attachment or for the session's own clean-up but not for the context, and
  the watcher of the context starts after the first write.
* A pin whose write failed is still matched, so a certificate is accepted that
  was never persisted, and another one after a restart.
* A text shared after the channel is joined and before Monitor Ready is announced, and
  then withdrawn by the empty list that answers Monitor Ready.
* A text of several chunks is torn apart when another one is shared while it is
  being pasted: the announcement falls between two chunks.
* Over RDP the release of a button is sent as a plain move, so the server keeps it down.

What the models exclude or show beyond that has no run of its own. It is under "hazards" in
PROJECT.json, with a note:

* With `HandshakeDeadline = FALSE`, as in VNC, a redial to a server that accepts the connection
  and says nothing is not ended by Disconnect: `rfb.Dial` puts no deadline on the handshake, and the
  watcher of the context starts in `Run`. `ClosingAttachedTabEnds` is then violated.
* Save and Delete of one connection that overlap can reach the keyring in another order than
  the list, and a password outlives its connection. `AckDurable` speaks of calls that had
  their connection to themselves.
* With `Outside > 0` rectangles over the framebuffer's edge leave `fb` and `canvas`
  different (`session.go:193`). `Outside = 0` is what RFB and RDP oblige a server to.
* With `ResizeAlone = FALSE` the pipelined request can leave an exposed area unsent
  (`encodings.go:140`).
* What a failed write leaves in memory, other than a pin (`store_trust`).
* A fetch that the server refuses, because the user shares a text meanwhile, is written to the local
  clipboard as an empty text: the flags of the response are not looked at. `CopyArrives` leaves it aside
  (`owner` is the client then).
* Over VNC the keysym of a letter depends on Shift, so a capital stays down on a server
  that does not match keys by code when Shift is let go of first; `RdpKeysFollow`
  is about scancodes.

One more shows in `RdpConnect`: `OnAttachUserConfirm` joins the bare user ID (`mcs.go:36`), without the base
of 1001 that `types.go:66` says its channel has.

### Bounds, and why they are enough

* Levels 0-2 are the code's pixel levels up to two kinds of reduced colour; what
  matters is 0 or not 0, and a change between two reduced ones. `AdaptCooldown`
  is the code's constant. Two widths are enough to grow and to shrink,
  two resizes to do both in one behaviour. The queues need no bound, the exchange bounds
  them. The proofs hold for all of these.
* `SessionRdp.cfg` has the code's own delays (1 s to 30 s): five doublings reach the cap.
  `UiQueueBound` 4 is one more than the longest burst between two deliveries
  that matters; a full queue delays the goroutine, as a slow webview
  does not, and hides no order of events.
* Three rows are the least for which the direction of an overlapping copy
  matters; the two sizes differ in both dimensions; two colours tell equal from
  different.
* Two callers interleave at every point of a call. One connection suffices
  since list and keyring are maps by identifier; what one call writes for
  another appears with calls on settings and pins, which write the whole file too.
* Three mouse events are a press, a move and a release, or a move overtaken
  and another one; two strokes are Shift and a letter; one drop is a redial with
  input under way before and after it. `QueueBound` 2 lets a frame wait behind
  another one. It holds the user back, and on the wire it also stands for a full
  socket, on which a Write blocks.
* The decoders' constants are scaled down together with the picture, so that a small one
  meets each boundary of the code: tiles of 2x2 in a rectangle of 3x3 (whole and narrow
  tiles), bytes of 4 bits (rows of packed indices with padding and of more
  than a byte), runs continued after `RunByte` 2, palettes with one colour too many to
  pack, data below and above `MinToCompress`, compact lengths of one, two and three
  bytes, run lengths of RLE in all three forms, differences of one and two bytes of
  either sign. Two rectangles, or orders, are a state and what is read
  against it. 690,000 states.
* Two texts each way: one in force and one newer. Incoming texts of two chunks
  exercise the reassembly; outgoing ones have one chunk in `rdp_session` since
  with two `rdp_chunks` shows what goes wrong. The user may share a text at any moment
  once the channel is joined, before Monitor Ready too.

### Fairness

* `RfbPipeline`: weak fairness of the client's goroutine, of the server reading
  its socket and of the server answering an answerable request. RFB obliges
  the server to answer once there is something to send. Drawing and resizing
  are not fair. `ResizeAlone = TRUE` assumes a server that reports a new size in an
  update of its own; for one that does not, the pipelined request, computed from the
  old size, can leave the exposed area unsent until it changes again.
* `SessionLifecycle`: weak fairness of the dial, the goroutine, the webview's
  event loop, a requested Disconnect and a socket that was asked to open. The
  TCP connect is bounded by its timeout, the backoff by its timer. Nothing is assumed of the user, of
  the server or of the WebSocket staying open.
* `ConnStore`: a goroutine inside a call goes on.
* `InputPath`: animation frames come (`FlushMove`), the bridge handles a frame it
  read (`HandleInput`, `SendEvent`) and the server reads its socket. The user and the
  connection are not fair.
* `RdpSession`: weak fairness of the client reading what has arrived, of each
  goroutine writing what it began, of the deadline's timer, and of a server that is
  up. A server may stop being up at any moment.

Deadlock is checked except where the system really stops: an RDP session that
is closed, a user out of events (`InputPath`), a handshake that is over or a bounded
number of rectangles and orders (`ScreenDecoders`, where `HandshakeAgrees` itself says that the two
sides never wait for each other).

## What is proved

The proofs hold for every value of the constants that the named assumptions of
the modules allow. Almost no property is inductive; what follows says of each
module what its invariant adds. All of these invariants were checked by TLC first.

`RfbPipeline_proofs` proves, for every number of levels, every cooldown, width
and number of resizes (`PipelineAssumption`), all that `vnc_pipeline` checks
except its liveness property: `TypeOK`, `FormatAgreement`, `OneRequestInFlight`,
`NoProtocolError`, `JudgesSettled`, and that the loop implements
`UpdateExchange`. The invariant `IInv` adds where the
single token of the exchange is (a request under way, a request pending, an
update under way, or the client's turn), the shape of the message queue (at most
a format and then a request), which format the server will be in once it has
read the queue, that Tight rectangles exist only in full-colour updates, and that
a cooldown is running while a wanted level is not in force. The refinement maps the token to `turn`, `sentLevel` to
`announced` and the latest update's format to `encoded`; each action of the loop is an
`Ask`, an `Answer` or a stutter.

`SessionLifecycle_proofs`: `TypeOK`, `NoStatusLost` and `BackoffExact`, for either kind of
handshake and any delays. The delay is the reference's doubling by induction on the failures since the
last live session, of which only the one that the reference has just counted can change it. A status reaches the tab because it cannot be sent early: until the tab
attaches, the goroutine is stuck at its first frame with "connected" as its last
word (`Fresh`), Connect's result is delivered once and before anything else of
the session is known (`OneResult`), and the last status in the queue is the last
emitted (`LastWord`).

`ConnStore_proofs`: `TypeOK`, `AckDurable` and `PinDurable`, for any sets of
connections, passwords, addresses and callers. `IInv` says who holds the mutex,
that the temporary file equals the memory when it is renamed, that a call's change is in
memory until it lets go of the mutex, that a call counted as alone really is the only one on its
connection, and that memory, file and keyring all hold what was promised while nobody works on it.

`InputPath_proofs`: `TypeOK`, `VncButtonsFollow`, `RdpKeysFollow` and
`NeverBackwards`, for any numbers of buttons, events, strokes and lost connections.
Positions are ordered along the whole way from `remote` over `wire` and `hand` to `frames`
(`Positions`), a message says what was held where it says (`Masked`), and under RDP a
release follows every press of a key that is up, on the wire, in the hand or
among the frames (`NoKeySticks`); a lost connection takes with it only presses on the server it leaves.

`ShadowCanvas_proofs`: `TypeOK` for any sizes, colours and rectangles; `ShadowCoherent` and `Faithful`
when every rectangle lies inside the framebuffer (`Outside = 0`, as RFB and RDP oblige the server; for one
over the edge both are false, see the hazards). The copy works row by row and in the
direction that reads no row it has overwritten; what it leaves after any number
of rows is an induction over sets of rows (`SetInduction`, from the library's theorems on natural numbers).
With it every operation does the same to `fb`, to `canvas` and to `screen`, so that the three stay equal.

`RdpSession_proofs`, for every channel and user ID, any number of texts and chunks:

* On the connection sequence: `CredentialsAfterTrust` and `LiveNotTimedOut`. Each step of a
  session is a step of the connection sequence or leaves it alone
  (`SessionConnects`), so that an invariant of `ConnectSpec` is one of `Spec`. The
  invariant adds that the answers under way vouch
  for nobody they should not (an impostor's certificate is never accepted, a relay's
  proof never good), that an impostor is never got past the certificate, and that a live session has
  no deadline. One lemma (`ProceedKeeps`) covers what all handlers share.
  `NoMutualWait` and `NoStrayData`: up to the licence the
  two sides take strict turns (`Dialog`); activation is no turn but a count of
  the replies read, under way and sent. The clipboard channel is kept only if
  its join was granted (`Membership`). `ConnectTypeOK` needs the same count, which bounds
  the replies the server still owes.
* On the clipboard: `CutTextIntact` and `PasteIsFresh`. Towards the client
  the chunks form a stream in which each tells the next one, and the buffer holds the chunks
  before the first (`StreamInv`). Towards the server, where two goroutines mix, there is
  at most one request and one answer under way, and what is announced or answered
  is as new as it must be (`PasteInv`), even when the answer arrives garbled.
  `OfferKept`, of every behaviour, those included in which the user shares a text before
  Monitor Ready: that message brings forth one empty list, on its way at most once, and Run's first
  (`Greeting`); until it is written no text counts as shared since (`SharedSince`), and from then on the
  last list on its way, or the offer in force, is of the last text (`Known`).
  `TypeOK` of the whole session, from these and `ConnectTypeOK`.

`ScreenDecoders_proofs`: `TypeOK`, and the properties of all four conversations. Each is left alone by the
steps of the others, so that what holds of it holds of the whole.

* `HandshakeSound`: `HandshakeTypeOK` and `HandshakeAgrees`, for any set of versions, offers and
  credentials. It goes from one point of the conversation to the next: at each one side waits, for a
  message the other has sent or sends next, and each read leads to the next point or ends the handshake
  on both sides. It assumes that no server announces a version before 3.3, the first one published: for such a
  one the client would answer 3.3 and the server could not go on.
* `BitmapsDecoded`: `RleTypeOK` and `RleFaithful`, for any picture, width, pixels and forms of a length. The decoder is idle,
  has read an order's header, or is in the middle of a run (`Idle`, `Described`, `UnderWay`). In each the
  invariant says which of the picture's next pixels the order stands for, relative to the two
  sides' foreground and the row above, and that both sides agree whether the first of them is the inserted
  one after a background run. Three lemmas say that what the encoder writes
  is what the decoder reads: of a length in its three forms, of a header and of a mask.
* `OrdersDecoded`: `OrdersTypeOK` and `OrdersFaithful`, taken over from `OrdersPainted` in
  `RdpOrders_proofs`. It holds for bytes of any width up to the code's eight bits, any drawings and any
  number of orders, if lists are no longer than the code's limit (`OrdersAssumption`) and what is drawn
  fits the protocol's fields of 16 bits (`DrawingsFit`). An order is a flattened sequence of parts; a reader that stands before a
  part stands before the rest after reading it, with the value that was written (`DeltaRead`, `RectRead`,
  `ListRead`, `FieldRead`, `FieldsRead`, `OrderRead`, each from the one before, by induction over
  the rectangles of a list and the fields of an order). What is hard is that each depends on
  what went before: an omitted side on the rectangle before it, a difference on the remembered value, the list on its
  length among the fields, the bytes of flags on the control byte. The invariant says that the two
  sides agree, or that an order is on its way of which the client will make what the server means (`OnItsWay`).
* `RectsDecoded`: `RectsTypeOK` and `RectsFaithful`, for rectangles of any positive size and any number of colours, tile size,
  run byte, pixel size, threshold and chunk sizes; palettes have 2 to 127 entries in a tile and 1 to 256 in Tight, a byte has
  4 or 8 bits, and a chunk's length fits the three bytes of a compact length (`RectsAssumption`). The invariant (`RectsInv`) says
  where a rectangle is: at rest, sent, shown, or, of ZRLE, its chunk sent, between two tiles, or a tile sent. Of what is sent it
  says that the client's reader makes the meant picture of it and leaves nothing over, and that the decompressors then
  stand where the compressors do; between tiles, that the client's loop variables are at the tile the server counts
  (`TiledAt`), from which follows that the loop ends with the last tile. So there is one lemma for
  each way to write something: that reading it gives it back, whatever follows. They build on each other:
  a packed index is found in the bits it was put in (`PackedRead`), a run's length ends at the byte that is not
  full (`LengthRead`), runs fill a tile exactly, by induction on the turns of the loop (`RunsRead`), hence all tiles
  (`TilesRead`); compact lengths (`CompactRead`), the gradient's predictions, by induction on the pixels
  (`GradientRead`), filters and what they leave of the pixels (`FormsRead`), hence fills, images, and basic
  rectangles raw or in a chunk (`FillRead`, `JpegRead`, `SmallRead`, `LargeRead`).

Only model-checked is liveness (`EveryChangeSent`, `ClosingAttachedTabEnds`, `Reconnects`, `LockFreed`, `DialEnds`,
`CopyArrives`, `Settles`), which needs ENABLED.

## Not modelled, and why

* JPEG, inflating (with `chunkFeeder`, which feeds the library's reader) and the bits of
  pixels: library calls and arithmetic without state. A compressed chunk is
  its stream, its place in it and its contents.
* VNC's and ARD's ciphers, NTLM, BER: message construction, a
  linear exchange without shared state. Of CredSSP the order of messages and checks is
  in RdpConnect.
* A server that dictates an unknown security type under RFB 3.3.
* Framing of fast-path PDUs: one loop over a buffer; fragments, which the code
  refuses, are not modelled.
* Raster operations without a constant result and bounds that clip: the client skips
  them, and the modelled server does not use them.
* RDP deactivation and reactivation: the client does not implement them.
* The tuner's arithmetic: any outcome of its comparisons is allowed.
* Rendering, forms, localisation, key tables, tray, build tooling: presentation
  or constants.
* The order of `List`: its comment says most recently used first, the code
  keeps the order of insertion.
* A WebSocket that drops while the session lives: the session goes on and the
  tab is not told. The model has the drop (`WsDrops`) but states nothing of what the tab shows then.

## Plan

Done: update loop, session lifecycle, framebuffer path, store, RDP connection
and clipboard, input path, RFB handshake, decoders of both protocols; proofs of
all safety properties.

Left, in order of worth:

1. The frames between bridge and browser (`server.go`'s tokens, `clipboard` frames) as a module of its own.
2. Fast-path framing and the slow path beside it, feeding RdpOrders and RdpRle.
