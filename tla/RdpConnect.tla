----------------------------- MODULE RdpConnect -----------------------------
(***************************************************************************)
(* The connection sequence of the RDP client (internal/rdp: Dial and what  *)
(* it calls) against a server.                                             *)
(*                                                                         *)
(* Dial sends, then blocks for an answer, about fifteen times over.  Each  *)
(* action of the client is what it does from one answer to the next: it    *)
(* reads, checks and stores the answer and writes everything up to its     *)
(* next read.  `awaiting' names the answer it is blocked on.               *)
(*                                                                         *)
(* Abstractions.  A message is its kind, a join request also its channel;  *)
(* an answer is its kind and whether it grants what was asked.  The TLS    *)
(* handshake is one message and its answer, the certificate.  The server   *)
(* is a conforming one (external code) that may grant or refuse wherever   *)
(* the protocol lets it and may stop answering at any moment.  A cancelled *)
(* context closes the connection only once Run has started; that is part   *)
(* of SessionLifecycle.                                                    *)
(***************************************************************************)
EXTENDS Integers, Sequences

CONSTANTS
    UserChannelBase, \* mcsUserChannelBase
    UserID,          \* the user ID in the server's Attach User Confirm
    IOChannel, ClipChannel   \* the channel IDs the server assigns

ASSUME ConnectAssumption ==
    /\ UserChannelBase \in Nat /\ UserID \in Nat
    /\ IOChannel \in Nat \ {0} /\ ClipChannel \in Nat \ {0}
    /\ IOChannel # ClipChannel

VARIABLES
    \* the client
    awaiting,        \* the answer Dial is blocked on, "live" or "closed"
    nla,             \* selected = negProtocolHybrid
    cliprdr,         \* cliprdrChannelID, 0 for none
    replies,         \* activation replies read so far
    deadline,        \* the connection has a deadline
    \* the two directions of the connection
    toServer, toClient,
    \* the server and the network
    peer,            \* "genuine", "relay" (not the holder of the key it
                     \* shows), "impostor" (not the pinned certificate)
    link,            \* "up", "silent" (the server stopped answering), "lost"
    joined,          \* channels the server let the client join
    answered         \* activation replies sent so far

connectVars == <<awaiting, nla, cliprdr, replies, deadline,
                 toServer, toClient, peer, link, joined, answered>>

-----------------------------------------------------------------------------
Answers == {"confirm", "certificate", "challenge", "pubKeyAuth", "connectResponse",
            "attachConfirm", "joinUser", "joinIO", "joinClip", "licence",
            "demandActive", "activation", "fontMap"}
Messages == {"connectionSSL", "connectionHybrid", "hello", "negotiate",
             "authenticate", "pubKeyAuth", "authInfo", "connectInitial",
             "erectDomain", "attachUser", "join", "clientInfo", "confirmActive",
             "synchronize", "cooperate", "requestControl", "fontList"}
AnswerKinds == (Answers \ {"confirm", "joinUser", "joinIO", "joinClip"})
                    \cup {"ssl", "hybrid", "refused", "joinConfirm"}
Channels == {0, UserID, UserChannelBase + UserID, IOChannel, ClipChannel}

ConnectTypeOK ==
    /\ awaiting \in Answers \cup {"dialed", "live", "closed"}
    /\ nla \in BOOLEAN /\ deadline \in BOOLEAN
    /\ cliprdr \in {0, ClipChannel}
    /\ replies \in 0..3 /\ answered \in 0..3
    /\ toServer \in Seq([kind : Messages, channel : Channels])
    /\ toClient \in Seq([kind : AnswerKinds, ok : BOOLEAN])
    /\ peer \in {"genuine", "relay", "impostor"}
    /\ link \in {"up", "silent", "lost"}
    /\ joined \subseteq Channels

Msg(kind) == [kind |-> kind, channel |-> 0]
Join(c) == [kind |-> "join", channel |-> c]
Answer(kind, ok) == [kind |-> kind, ok |-> ok]

\* TCP is connected and the handshake deadline is set.
ConnectInit ==
    /\ awaiting = "dialed" /\ nla = FALSE /\ cliprdr = 0 /\ replies = 0
    /\ deadline = TRUE
    /\ toServer = <<>> /\ toClient = <<>>
    /\ peer \in {"genuine", "relay", "impostor"}
    /\ link = "up" /\ joined = {} /\ answered = 0

-----------------------------------------------------------------------------
(* The client.                                                             *)

Send(ms) == toServer' = toServer \o ms
ServerSide == <<peer, link, joined, answered>>

\* Mutant of Verified: NLA is taken to authenticate the server by itself.
VerifiedUnlessNla(r) == r.ok \/ nla

\* verifyCertificate accepts the server's certificate.
Verified(r) == r.ok

\* What the read that waits for w checks of answer r.  A refused cliprdr
\* channel is no error, and an activation reply may be any Data PDU.
Accepts(w, r) ==
    CASE w = "confirm" -> r.kind \in {"ssl", "hybrid"}
      [] w = "certificate" -> r.kind = w /\ Verified(r)
      [] w \in {"joinUser", "joinIO"} -> r.kind = "joinConfirm" /\ r.ok
      [] w = "joinClip" -> TRUE
      [] w \in {"connectResponse", "activation"} -> r.kind = w
      [] OTHER -> r.kind = w /\ r.ok

\* Dial reads the answer it waited for, finds it good, sends ms and waits for
\* the answer called next.
Proceed(w, ms, next) ==
    /\ awaiting = w
    /\ toClient # <<>>
    /\ Accepts(w, Head(toClient))
    /\ toClient' = Tail(toClient)
    /\ Send(ms)
    /\ awaiting' = next
    /\ UNCHANGED ServerSide

\* negotiateSecurity offers NLA only when there are credentials for it.
SendConnectionRequest ==
    /\ awaiting = "dialed"
    /\ \E k \in {"connectionSSL", "connectionHybrid"} : Send(<<Msg(k)>>)
    /\ awaiting' = "confirm"
    /\ UNCHANGED <<nla, cliprdr, replies, deadline, toClient, ServerSide>>

OnConfirm ==
    /\ Proceed("confirm", <<Msg("hello")>>, "certificate")
    /\ nla' = (Head(toClient).kind = "hybrid")
    /\ UNCHANGED <<cliprdr, replies, deadline>>

OnCertificate ==
    /\ \/ nla /\ Proceed("certificate", <<Msg("negotiate")>>, "challenge")
       \/ ~nla /\ Proceed("certificate", <<Msg("connectInitial")>>, "connectResponse")
    /\ UNCHANGED <<nla, cliprdr, replies, deadline>>

OnChallenge ==
    /\ Proceed("challenge", <<Msg("authenticate"), Msg("pubKeyAuth")>>, "pubKeyAuth")
    /\ UNCHANGED <<nla, cliprdr, replies, deadline>>

\* The server proved that it holds the key of its certificate; only now are
\* the credentials delegated.
OnPubKeyAuth ==
    /\ Proceed("pubKeyAuth", <<Msg("authInfo"), Msg("connectInitial")>>, "connectResponse")
    /\ UNCHANGED <<nla, cliprdr, replies, deadline>>

\* Mutant of GrantedChannel: the first channel of the response is taken.
GrantedFirst(ok) == IF ok THEN IOChannel ELSE 0

\* The server's ID for the clipboard channel, 0 if it refused one.
GrantedChannel(ok) == IF ok THEN ClipChannel ELSE 0

\* The response names the I/O channel and, if granted, the clipboard's.
OnConnectResponse ==
    /\ Proceed("connectResponse", <<Msg("erectDomain"), Msg("attachUser")>>, "attachConfirm")
    /\ cliprdr' = GrantedChannel(Head(toClient).ok)
    /\ UNCHANGED <<nla, replies, deadline>>

\* The client joins the channel numbered like its user ID.
OnAttachUserConfirm ==
    /\ Proceed("attachConfirm", <<Join(UserID)>>, "joinUser")
    /\ UNCHANGED <<nla, cliprdr, replies, deadline>>

OnUserJoined ==
    /\ Proceed("joinUser", <<Join(IOChannel)>>, "joinIO")
    /\ UNCHANGED <<nla, cliprdr, replies, deadline>>

OnIOJoined ==
    /\ \/ cliprdr # 0 /\ Proceed("joinIO", <<Join(cliprdr)>>, "joinClip")
       \/ cliprdr = 0 /\ Proceed("joinIO", <<Msg("clientInfo")>>, "licence")
    /\ UNCHANGED <<nla, cliprdr, replies, deadline>>

\* Mutant of ChannelAfter: the refused channel is kept.
ChannelKept(ok) == cliprdr

\* A refused clipboard channel is forgotten, the connection goes on.
ChannelAfter(ok) == IF ok THEN cliprdr ELSE 0

OnClipJoined ==
    /\ Proceed("joinClip", <<Msg("clientInfo")>>, "licence")
    /\ cliprdr' = ChannelAfter(Head(toClient).ok)
    /\ UNCHANGED <<nla, replies, deadline>>

OnLicence ==
    /\ Proceed("licence", <<>>, "demandActive")
    /\ UNCHANGED <<nla, cliprdr, replies, deadline>>

\* Mutant of SentBeforeReply: a reply is read after every message.
SentOneByOne(n) ==
    <<Msg(CASE n = 1 -> "synchronize" [] n = 2 -> "cooperate" [] OTHER -> "requestControl")>>

\* What finalize sends before it reads the n-th activation reply: all three
\* messages before the first.
SentBeforeReply(n) ==
    IF n = 1 THEN <<Msg("synchronize"), Msg("cooperate"), Msg("requestControl")>>
             ELSE <<>>

OnDemandActive ==
    /\ Proceed("demandActive", <<Msg("confirmActive")>> \o SentBeforeReply(1), "activation")
    /\ UNCHANGED <<nla, cliprdr, replies, deadline>>

OnActivationReply ==
    /\ \/ replies < 2 /\ Proceed("activation", SentBeforeReply(replies + 2), "activation")
       \/ replies = 2 /\ Proceed("activation", <<Msg("fontList")>>, "fontMap")
    /\ replies' = replies + 1
    /\ UNCHANGED <<nla, cliprdr, deadline>>

\* Mutant of DeadlineWhenLive: the handshake's deadline stays.
DeadlineKept == deadline

\* Dial's deferred SetDeadline clears the deadline.
DeadlineWhenLive == FALSE

OnFontMap ==
    /\ Proceed("fontMap", <<>>, "live")
    /\ deadline' = DeadlineWhenLive
    /\ UNCHANGED <<nla, cliprdr, replies>>

CloseConn ==
    /\ awaiting' = "closed" /\ deadline' = FALSE
    /\ UNCHANGED <<nla, cliprdr, replies, toServer, toClient, ServerSide>>

\* An answer the client does not accept ends the dial.
AnswerRefused ==
    /\ awaiting \in Answers /\ toClient # <<>>
    /\ ~Accepts(awaiting, Head(toClient))
    /\ CloseConn

\* Reads fail once the connection is gone.
ReadFails ==
    /\ awaiting \in Answers \cup {"live"}
    /\ link = "lost" /\ toClient = <<>>
    /\ CloseConn

\* Mutant of DeadlinePasses: only the TCP connect is bounded.
DeadlineNone == FALSE /\ UNCHANGED connectVars

DeadlinePasses ==
    /\ deadline /\ awaiting \in Answers \cup {"live"}
    /\ CloseConn

ConnectClient ==
    \/ SendConnectionRequest \/ OnConfirm \/ OnCertificate \/ OnChallenge
    \/ OnPubKeyAuth \/ OnConnectResponse \/ OnAttachUserConfirm \/ OnUserJoined
    \/ OnIOJoined \/ OnClipJoined \/ OnLicence \/ OnDemandActive
    \/ OnActivationReply \/ OnFontMap \/ AnswerRefused \/ ReadFails

-----------------------------------------------------------------------------
(* The server (external): a conforming RDP server and the network.         *)

Grants(kind, oks) == {<<Answer(kind, ok)>> : ok \in oks}

\* The sequences of answers the server may send on message m.
ServerAnswers(m) ==
    CASE m.kind = "connectionSSL" -> Grants("ssl", {TRUE}) \cup Grants("refused", {FALSE})
      [] m.kind = "connectionHybrid" ->
            Grants("ssl", {TRUE}) \cup Grants("hybrid", {TRUE}) \cup Grants("refused", {FALSE})
      [] m.kind = "hello" ->
            Grants("certificate", IF peer = "impostor" THEN {FALSE} ELSE {TRUE})
      [] m.kind = "negotiate" -> Grants("challenge", BOOLEAN)
      [] m.kind = "pubKeyAuth" ->
            Grants("pubKeyAuth", IF peer = "relay" THEN {FALSE} ELSE BOOLEAN)
      [] m.kind = "connectInitial" -> Grants("connectResponse", BOOLEAN)
      [] m.kind = "attachUser" -> Grants("attachConfirm", BOOLEAN)
      [] m.kind = "join" ->
            Grants("joinConfirm", IF m.channel \in {UserChannelBase + UserID, IOChannel}
                                  THEN {TRUE} ELSE BOOLEAN)
      [] m.kind = "clientInfo" ->
            Grants("licence", {FALSE})
            \cup {<<Answer("licence", TRUE), Answer("demandActive", TRUE)>>}
      [] m.kind \in {"synchronize", "cooperate"} ->
            Grants("activation", {TRUE}) \cup {<<>>}
      [] m.kind = "requestControl" ->
            {[i \in 1..(3 - answered) |-> Answer("activation", TRUE)]}
      [] m.kind = "fontList" -> Grants("fontMap", {TRUE})
      [] OTHER -> {<<>>}

\* The server reads a message and answers.  Activation replies come one for
\* one or as a burst, and are three in all.
ServerHandles ==
    /\ link = "up" /\ toServer # <<>>
    /\ toServer' = Tail(toServer)
    /\ LET m == Head(toServer) IN \E rs \in ServerAnswers(m) :
        /\ toClient' = toClient \o rs
        /\ joined' = IF m.kind = "join" /\ Head(rs).ok THEN joined \cup {m.channel} ELSE joined
        /\ answered' = IF m.kind \in {"synchronize", "cooperate", "requestControl"}
                       THEN answered + Len(rs) ELSE answered
    /\ UNCHANGED <<awaiting, nla, cliprdr, replies, deadline, peer, link>>

ServerStops ==
    /\ link = "up" /\ link' \in {"silent", "lost"}
    /\ UNCHANGED <<awaiting, nla, cliprdr, replies, deadline,
                   toServer, toClient, peer, joined, answered>>

ConnectNext == ConnectClient \/ DeadlinePasses \/ ServerHandles \/ ServerStops

\* The client reads what has arrived, the deadline is a timer, and a server
\* that is up answers.
ConnectFairness ==
    /\ WF_connectVars(ConnectClient)
    /\ WF_connectVars(DeadlinePasses)
    /\ WF_connectVars(ServerHandles)

ConnectSpec == ConnectInit /\ [][ConnectNext]_connectVars

-----------------------------------------------------------------------------
\* Nothing of the RDP session itself is sent to a server whose certificate
\* was not accepted, and the credentials are never delegated to one that
\* could not prove it holds the certificate's key (types.go: "Returning an
\* error aborts Dial before any RDP-level data is sent").
CredentialsAfterTrust ==
    \A i \in DOMAIN toServer :
        /\ peer = "impostor" => toServer[i].kind \in {"connectionSSL", "connectionHybrid", "hello"}
        /\ peer = "relay" => toServer[i].kind # "authInfo"

\* Client and server never both wait for the other: a dial to a server that
\* is up never has to be ended by the deadline (finalize.go: an earlier
\* version "hung forever" waiting for replies that servers never send).
NoMutualWait ==
    link = "up" /\ awaiting \in Answers /\ toClient = <<>> => toServer # <<>>

\* Only the loss of the connection ends a live session: the deadline of the
\* handshake is over (client.go: "Cleared once the session is live").
LiveNotTimedOut ==
    [][awaiting = "live" /\ awaiting' = "closed" => link = "lost"]_connectVars

\* Every dial comes to an end, even when the server falls silent (client.go:
\* "fails fast instead of hanging forever").
DialEnds == <>(awaiting \in {"live", "closed"})
=============================================================================
