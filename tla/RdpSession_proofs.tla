------------------------- MODULE RdpSession_proofs -------------------------
(***************************************************************************)
(* Proofs about RdpSession for every choice of channel and user IDs and    *)
(* every bound: what is sent to which peer, what ends a live session, and  *)
(* the turns that client and server take.                                  *)
(*                                                                         *)
(* Clipboard traffic leaves the connection's state alone, so each step of  *)
(* a session is one of the connection sequence or leaves connectVars       *)
(* unchanged, and what ConnectSpec implies holds of the session.           *)
(*                                                                         *)
(* Up to the licence the two take strict turns: either one answer is on    *)
(* its way or the question is, behind messages nobody answers.  Activation *)
(* is no turn but a count, of the replies read, under way and sent.  So no *)
(* dial hangs with either side waiting for the other, and clipboard data   *)
(* goes only to a channel that was joined.                                 *)
(***************************************************************************)
EXTENDS RdpSession, SequenceTheorems, TLAPS

MessageSet == [kind : Messages, channel : Channels]
AnswerSet == [kind : AnswerKinds, ok : BOOLEAN]
Elems(q) == {q[i] : i \in DOMAIN q}

\* The kinds that may be sent to anybody.
Opening == {"connectionSSL", "connectionHybrid", "hello"}

\* What answer a says of the peer.
Honest(a) ==
    /\ a.kind = "certificate" /\ a.ok => peer # "impostor"
    /\ a.kind = "pubKeyAuth" /\ a.ok => peer # "relay"

Guarded(m) ==
    /\ peer = "impostor" => m.kind \in Opening
    /\ peer = "relay" => m.kind # "authInfo"

\* The queues hold messages, the answers under way vouch for nobody they
\* should not, and the messages under way may go to this peer.
QueueInv ==
    /\ toServer \in Seq(MessageSet)
    /\ toClient \in Seq(AnswerSet)
    /\ answered \in Nat
    /\ \A a \in Elems(toClient) : Honest(a)
    /\ \A m \in Elems(toServer) : Guarded(m)

\* An impostor is not got past, and a live session has no deadline.
IInv ==
    /\ QueueInv
    /\ cliprdr \in {0, ClipChannel}
    /\ peer = "impostor" => awaiting \in {"dialed", "confirm", "certificate", "closed"}
    /\ awaiting = "live" => deadline = FALSE

-----------------------------------------------------------------------------
(* Facts about queues and answers.                                         *)

LEMMA TailElems ==
    ASSUME NEW S, NEW q \in Seq(S), q # <<>>
    PROVE  /\ Tail(q) \in Seq(S) /\ Head(q) \in S
           /\ Head(q) \in Elems(q) /\ Elems(Tail(q)) \subseteq Elems(q)
<1>1. /\ Tail(q) \in Seq(S) /\ Head(q) \in S /\ Head(q) = q[1] /\ 1 \in DOMAIN q
      /\ \A i \in DOMAIN Tail(q) : i + 1 \in DOMAIN q /\ Tail(q)[i] = q[i + 1]
  OBVIOUS
<1>2. QED
  BY <1>1 DEF Elems

LEMMA ConcatElems ==
    ASSUME NEW S, NEW q \in Seq(S), NEW r \in Seq(S)
    PROVE  /\ q \o r \in Seq(S)
           /\ Elems(q \o r) \subseteq Elems(q) \cup Elems(r)
<1>1. /\ q \o r \in Seq(S)
      /\ \A i \in DOMAIN (q \o r) :
            \/ i \in DOMAIN q /\ (q \o r)[i] = q[i]
            \/ i - Len(q) \in DOMAIN r /\ (q \o r)[i] = r[i - Len(q)]
  OBVIOUS
<1>2. QED
  BY <1>1 DEF Elems

LEMMA ShortElems ==
    ASSUME NEW S
    PROVE  /\ <<>> \in Seq(S) /\ Elems(<<>>) = {}
           /\ \A a \in S : <<a>> \in Seq(S) /\ Elems(<<a>>) = {a}
           /\ \A a, b \in S : <<a, b>> \in Seq(S) /\ Elems(<<a, b>>) = {a, b}
           /\ \A a, b, c \in S : <<a, b, c>> \in Seq(S) /\ Elems(<<a, b, c>>) = {a, b, c}
BY DEF Elems

LEMMA MessageTypes ==
    /\ \A k \in Messages : Msg(k) \in MessageSet /\ Msg(k).kind = k
    /\ \A c \in Channels : Join(c) \in MessageSet /\ Join(c).kind = "join"
    /\ \A k \in AnswerKinds, ok \in BOOLEAN :
          Answer(k, ok) \in AnswerSet /\ Answer(k, ok).kind = k /\ Answer(k, ok).ok = ok
    /\ {0, UserID, IOChannel, ClipChannel} \subseteq Channels
BY DEF Msg, Join, Answer, MessageSet, AnswerSet, Messages, Channels

\* What is sent at a time: up to three messages, or a join request.
LEMMA SentTypes ==
    /\ \A j \in Messages : /\ <<Msg(j)>> \in Seq(MessageSet)
                           /\ \A m \in Elems(<<Msg(j)>>) : m.kind = j
    /\ \A j, k \in Messages : /\ <<Msg(j), Msg(k)>> \in Seq(MessageSet)
                              /\ \A m \in Elems(<<Msg(j), Msg(k)>>) : m.kind \in {j, k}
    /\ \A j, k, l \in Messages :
          /\ <<Msg(j), Msg(k), Msg(l)>> \in Seq(MessageSet)
          /\ \A m \in Elems(<<Msg(j), Msg(k), Msg(l)>>) : m.kind \in {j, k, l}
    /\ \A c \in Channels : /\ <<Join(c)>> \in Seq(MessageSet)
                           /\ \A m \in Elems(<<Join(c)>>) : m.kind = "join"
<1>1. /\ \A a \in MessageSet : <<a>> \in Seq(MessageSet) /\ Elems(<<a>>) = {a}
      /\ \A a, b \in MessageSet : <<a, b>> \in Seq(MessageSet) /\ Elems(<<a, b>>) = {a, b}
      /\ \A a, b, c \in MessageSet :
            <<a, b, c>> \in Seq(MessageSet) /\ Elems(<<a, b, c>>) = {a, b, c}
  BY ShortElems
<1>2. /\ \A k \in Messages : Msg(k) \in MessageSet /\ Msg(k).kind = k
      /\ \A c \in Channels : Join(c) \in MessageSet /\ Join(c).kind = "join"
  BY MessageTypes
<1>3. QED
  BY <1>1, <1>2

LEMMA FunctionIsSeq ==
    ASSUME NEW S, NEW k \in Nat, NEW s \in [1..k -> S]
    PROVE  s \in Seq(S)
BY SeqDef

\* The sequence of n activation replies.
LEMMA BurstTypes ==
    ASSUME NEW n \in Int
    PROVE  LET s == [i \in 1..n |-> Answer("activation", TRUE)]
           IN  /\ s \in Seq(AnswerSet)
               /\ \A a \in Elems(s) : a.kind = "activation"
<1> DEFINE s == [i \in 1..n |-> Answer("activation", TRUE)]
<1>1. Answer("activation", TRUE) \in AnswerSet /\ Answer("activation", TRUE).kind = "activation"
  BY MessageTypes DEF AnswerKinds, Answers
<1>2. \A a \in Elems(s) : a.kind = "activation"
  BY <1>1 DEF Elems
<1>3. s \in Seq(AnswerSet)
  <2>1. CASE n \in Nat
    <3>1. s \in [1..n -> AnswerSet]
      BY <1>1
    <3>2. QED
      BY <2>1, <3>1, FunctionIsSeq
  <2>2. CASE n \notin Nat
    <3>1. 1..n = 1..0
      BY <2>2
    <3>2. s \in [1..0 -> AnswerSet]
      BY <1>1, <3>1
    <3>3. QED
      BY <3>2, FunctionIsSeq
  <2>3. QED
    BY <2>1, <2>2
<1>4. QED
  BY <1>2, <1>3

\* One granting answer of kind k, or one refusing it.
LEMMA GrantTypes ==
    ASSUME NEW k \in AnswerKinds, NEW oks \in SUBSET BOOLEAN, NEW rs \in Grants(k, oks)
    PROVE  /\ rs \in Seq(AnswerSet)
           /\ Len(rs) = 1
           /\ \A a \in Elems(rs) : a.kind = k /\ a.ok \in oks
<1>1. PICK ok \in oks : rs = <<Answer(k, ok)>>
  BY DEF Grants
<1>2. Answer(k, ok) \in AnswerSet /\ Answer(k, ok).kind = k /\ Answer(k, ok).ok = ok
  BY MessageTypes
<1>3. rs \in Seq(AnswerSet) /\ Elems(rs) = {Answer(k, ok)}
  BY <1>1, <1>2, ShortElems
<1>4. QED
  BY <1>1, <1>2, <1>3

\* Whatever the server sends is a queue of answers that vouch for nobody
\* they should not.
LEMMA ServerIsHonest ==
    ASSUME NEW m \in MessageSet, NEW rs \in ServerAnswers(m), answered \in Nat
    PROVE  rs \in Seq(AnswerSet) /\ \A a \in Elems(rs) : Honest(a)
<1> USE DEF AnswerKinds, Answers, Honest
<1>1. CASE rs = <<>>
  BY <1>1, ShortElems
<1>2. CASE rs = <<Answer("licence", TRUE), Answer("demandActive", TRUE)>>
  <2> DEFINE a == Answer("licence", TRUE)
             b == Answer("demandActive", TRUE)
  <2>1. /\ a \in AnswerSet /\ a.kind = "licence"
        /\ b \in AnswerSet /\ b.kind = "demandActive"
    BY MessageTypes
  <2>2. rs = <<a, b>>
    BY <1>2
  <2> HIDE DEF a, b
  <2>3. rs \in Seq(AnswerSet) /\ Elems(rs) = {a, b}
    BY <2>1, <2>2, ShortElems
  <2>4. QED
    BY <2>1, <2>3
<1>3. CASE rs = [i \in 1..(3 - answered) |-> Answer("activation", TRUE)]
  <2>1. 3 - answered \in Int
    OBVIOUS
  <2>2. QED
    BY <1>3, <2>1, BurstTypes
<1>4. CASE rs \in Grants("certificate", IF peer = "impostor" THEN {FALSE} ELSE {TRUE})
  <2> DEFINE oks == IF peer = "impostor" THEN {FALSE} ELSE {TRUE}
  <2>1. "certificate" \in AnswerKinds /\ oks \in SUBSET BOOLEAN
    OBVIOUS
  <2>2. /\ rs \in Seq(AnswerSet)
        /\ \A a \in Elems(rs) : a.kind = "certificate" /\ a.ok \in oks
    BY <1>4, <2>1, GrantTypes
  <2>3. QED
    BY <2>2
<1>5. CASE rs \in Grants("pubKeyAuth", IF peer = "relay" THEN {FALSE} ELSE BOOLEAN)
  <2> DEFINE oks == IF peer = "relay" THEN {FALSE} ELSE BOOLEAN
  <2>1. "pubKeyAuth" \in AnswerKinds /\ oks \in SUBSET BOOLEAN
    OBVIOUS
  <2>2. rs \in Grants("pubKeyAuth", oks)
    BY <1>5
  <2>3. /\ rs \in Seq(AnswerSet)
        /\ \A a \in Elems(rs) : a.kind = "pubKeyAuth" /\ a.ok \in oks
    <3> HIDE DEF oks
    <3>1. QED
      BY <2>1, <2>2, GrantTypes
  <2>4. QED
    BY <2>3
<1>6. CASE \E k \in {"ssl", "hybrid", "refused", "challenge", "connectResponse",
                     "attachConfirm", "joinConfirm", "licence", "activation", "fontMap"},
              oks \in SUBSET BOOLEAN : rs \in Grants(k, oks)
  BY <1>6, GrantTypes
<1>7. \/ rs = <<>>
      \/ rs = <<Answer("licence", TRUE), Answer("demandActive", TRUE)>>
      \/ rs = [i \in 1..(3 - answered) |-> Answer("activation", TRUE)]
      \/ rs \in Grants("certificate", IF peer = "impostor" THEN {FALSE} ELSE {TRUE})
      \/ rs \in Grants("pubKeyAuth", IF peer = "relay" THEN {FALSE} ELSE BOOLEAN)
      \/ \E k \in {"ssl", "hybrid", "refused", "challenge", "connectResponse",
                   "attachConfirm", "joinConfirm", "licence", "activation", "fontMap"},
            oks \in SUBSET BOOLEAN : rs \in Grants(k, oks)
  BY DEF ServerAnswers
<1>8. QED
  BY <1>1, <1>2, <1>3, <1>4, <1>5, <1>6, <1>7

-----------------------------------------------------------------------------
(* The invariant.                                                          *)

LEMMA InitIInv == ConnectInit => IInv
BY ShortElems DEF ConnectInit, IInv, QueueInv

\* What every handler of an answer has in common: the answer is as the peer
\* lets it be, and the queues stay right if what is sent may be sent.
LEMMA ProceedKeeps ==
    ASSUME IInv, NEW w, NEW next, NEW ms \in Seq(MessageSet), Proceed(w, ms, next)
    PROVE  /\ Head(toClient) \in AnswerSet /\ Honest(Head(toClient))
           /\ (\A m \in Elems(ms) : Guarded(m)) => QueueInv'
<1>1. /\ Head(toClient) \in AnswerSet /\ Head(toClient) \in Elems(toClient)
      /\ toClient' \in Seq(AnswerSet) /\ Elems(toClient') \subseteq Elems(toClient)
  BY TailElems DEF Proceed, IInv, QueueInv
<1>2. /\ toServer' \in Seq(MessageSet)
      /\ Elems(toServer') \subseteq Elems(toServer) \cup Elems(ms)
  BY ConcatElems DEF Proceed, Send, IInv, QueueInv
<1>3. peer' = peer /\ answered' = answered
  BY DEF Proceed, ServerSide
<1>4. Honest(Head(toClient))
  BY <1>1 DEF IInv, QueueInv
<1>5. ASSUME \A m \in Elems(ms) : Guarded(m)
      PROVE  QueueInv'
  <2>1. \A a \in Elems(toClient') : Honest(a)'
    BY <1>1, <1>3 DEF IInv, QueueInv, Honest
  <2>2. \A m \in Elems(toServer') : Guarded(m)'
    BY <1>2, <1>3, <1>5 DEF IInv, QueueInv, Guarded
  <2>3. answered' \in Nat
    BY <1>3 DEF IInv, QueueInv
  <2>4. QED
    BY <1>1, <1>2, <2>1, <2>2, <2>3 DEF QueueInv, Elems
<1>6. QED
  BY <1>1, <1>4, <1>5

\* Past the certificate everything but authInfo may be sent.
LEMMA PastCertificate ==
    ASSUME IInv, NEW w \in Answers \ {"confirm", "certificate"}, NEW next \in Answers \cup {"live"},
           NEW ms \in Seq(MessageSet), Proceed(w, ms, next),
           \A m \in Elems(ms) : m.kind # "authInfo",
           cliprdr' \in {0, ClipChannel}, next = "live" => deadline' = FALSE
    PROVE  IInv'
<1>1. awaiting = w /\ awaiting' = next /\ peer' = peer
  BY DEF Proceed, ServerSide
<1>2. peer # "impostor"
  BY <1>1 DEF IInv, Answers
<1>3. QueueInv'
  <2>1. \A m \in Elems(ms) : Guarded(m)
    BY <1>2 DEF Guarded
  <2>2. QED
    BY <2>1, ProceedKeeps
<1>4. QED
  BY <1>1, <1>2, <1>3 DEF IInv

\* One step of the connection sequence keeps the invariant.
LEMMA StepIInv == IInv /\ [ConnectNext]_connectVars => IInv'
<1> SUFFICES ASSUME IInv, [ConnectNext]_connectVars PROVE IInv'
  OBVIOUS
<1> USE DEF Answers
<1>0. {"connectionSSL", "connectionHybrid", "hello", "negotiate", "authenticate",
       "pubKeyAuth", "authInfo", "connectInitial", "erectDomain", "attachUser",
       "clientInfo", "confirmActive", "synchronize", "cooperate",
       "requestControl", "fontList"} \subseteq Messages
  BY DEF Messages
<1>1. CASE UNCHANGED connectVars
  BY <1>1 DEF connectVars, IInv, QueueInv, Honest, Guarded, Elems
<1>2. CASE SendConnectionRequest
  <2>1. PICK k \in {"connectionSSL", "connectionHybrid"} : Send(<<Msg(k)>>)
    BY <1>2 DEF SendConnectionRequest
  <2>2. /\ <<Msg(k)>> \in Seq(MessageSet) /\ Elems(<<Msg(k)>>) = {Msg(k)}
        /\ Msg(k).kind \in Opening
    BY <1>0, <2>1, MessageTypes, ShortElems DEF Opening
  <2>3. /\ toServer' \in Seq(MessageSet)
        /\ Elems(toServer') \subseteq Elems(toServer) \cup {Msg(k)}
    BY <2>1, <2>2, ConcatElems DEF Send, IInv, QueueInv
  <2>4. Guarded(Msg(k))
    BY <2>2 DEF Guarded, Opening
  <2>5. QueueInv'
    BY <1>2, <2>3, <2>4 DEF SendConnectionRequest, ServerSide, IInv, QueueInv,
                            Honest, Guarded, Elems
  <2>6. QED
    BY <1>2, <2>5 DEF SendConnectionRequest, ServerSide, IInv
<1>3. CASE OnConfirm
  <2>1. Proceed("confirm", <<Msg("hello")>>, "certificate")
    BY <1>3 DEF OnConfirm
  <2>2. /\ <<Msg("hello")>> \in Seq(MessageSet)
        /\ \A m \in Elems(<<Msg("hello")>>) : Guarded(m)
    BY <1>0, SentTypes DEF Guarded, Opening
  <2>3. QueueInv'
    BY <2>1, <2>2, ProceedKeeps
  <2>4. QED
    BY <1>3, <2>1, <2>3 DEF OnConfirm, Proceed, ServerSide, IInv
<1>4. CASE OnCertificate
  <2>1. PICK k \in {"negotiate", "connectInitial"}, next \in {"challenge", "connectResponse"} :
            Proceed("certificate", <<Msg(k)>>, next)
    BY <1>4 DEF OnCertificate
  <2>2. /\ <<Msg(k)>> \in Seq(MessageSet) /\ Elems(<<Msg(k)>>) = {Msg(k)}
        /\ Msg(k).kind # "authInfo"
    BY <1>0, MessageTypes, ShortElems
  <2>3. Honest(Head(toClient)) /\ Accepts("certificate", Head(toClient))
    BY <2>1, <2>2, ProceedKeeps DEF Proceed
  <2>4. peer # "impostor"
    BY <2>3 DEF Honest, Accepts, Verified
  <2>5. QueueInv'
    BY <2>1, <2>2, <2>4, ProceedKeeps DEF Guarded
  <2>6. QED
    BY <1>4, <2>1, <2>4, <2>5 DEF OnCertificate, Proceed, ServerSide, IInv
<1>5. CASE OnChallenge
  <2>1. /\ <<Msg("authenticate"), Msg("pubKeyAuth")>> \in Seq(MessageSet)
        /\ \A m \in Elems(<<Msg("authenticate"), Msg("pubKeyAuth")>>) : m.kind # "authInfo"
    BY <1>0, SentTypes
  <2>2. QED
    BY <1>5, <2>1, PastCertificate DEF OnChallenge, IInv
<1>6. CASE OnPubKeyAuth
  <2> DEFINE ms == <<Msg("authInfo"), Msg("connectInitial")>>
  <2>1. Proceed("pubKeyAuth", ms, "connectResponse") /\ UNCHANGED <<cliprdr, deadline>>
    BY <1>6 DEF OnPubKeyAuth
  <2>2. ms \in Seq(MessageSet)
    BY <1>0, SentTypes
  <2> HIDE DEF ms
  <2>3. Honest(Head(toClient)) /\ Accepts("pubKeyAuth", Head(toClient))
    BY <2>1, <2>2, ProceedKeeps DEF Proceed
  <2>4. peer # "relay" /\ peer # "impostor"
    BY <2>1, <2>3 DEF Honest, Accepts, Proceed, IInv
  <2>5. QueueInv'
    BY <2>1, <2>2, <2>4, ProceedKeeps DEF Guarded
  <2>6. QED
    BY <2>1, <2>4, <2>5 DEF Proceed, ServerSide, IInv
<1>7. CASE OnConnectResponse
  <2>1. /\ <<Msg("erectDomain"), Msg("attachUser")>> \in Seq(MessageSet)
        /\ \A m \in Elems(<<Msg("erectDomain"), Msg("attachUser")>>) : m.kind # "authInfo"
    BY <1>0, SentTypes
  <2>2. cliprdr' \in {0, ClipChannel}
    BY <1>7 DEF OnConnectResponse, GrantedChannel
  <2>3. QED
    BY <1>7, <2>1, <2>2, PastCertificate DEF OnConnectResponse
<1>8. CASE OnAttachUserConfirm
  <2>1. /\ <<Join(UserID)>> \in Seq(MessageSet)
        /\ \A m \in Elems(<<Join(UserID)>>) : m.kind # "authInfo"
    BY SentTypes, MessageTypes
  <2>2. QED
    BY <1>8, <2>1, PastCertificate DEF OnAttachUserConfirm, IInv
<1>9. CASE OnUserJoined
  <2>1. /\ <<Join(IOChannel)>> \in Seq(MessageSet)
        /\ \A m \in Elems(<<Join(IOChannel)>>) : m.kind # "authInfo"
    BY SentTypes, MessageTypes
  <2>2. QED
    BY <1>9, <2>1, PastCertificate DEF OnUserJoined, IInv
<1>10. CASE OnIOJoined
  <2>1. /\ <<Join(cliprdr)>> \in Seq(MessageSet)
        /\ \A m \in Elems(<<Join(cliprdr)>>) : m.kind # "authInfo"
    BY SentTypes, MessageTypes DEF IInv
  <2>2. /\ <<Msg("clientInfo")>> \in Seq(MessageSet)
        /\ \A m \in Elems(<<Msg("clientInfo")>>) : m.kind # "authInfo"
    BY <1>0, SentTypes
  <2>3. CASE Proceed("joinIO", <<Join(cliprdr)>>, "joinClip")
    BY <1>10, <2>1, <2>3, PastCertificate DEF OnIOJoined, IInv
  <2>4. CASE Proceed("joinIO", <<Msg("clientInfo")>>, "licence")
    BY <1>10, <2>2, <2>4, PastCertificate DEF OnIOJoined, IInv
  <2>5. QED
    BY <1>10, <2>3, <2>4 DEF OnIOJoined
<1>11. CASE OnClipJoined
  <2>1. /\ <<Msg("clientInfo")>> \in Seq(MessageSet)
        /\ \A m \in Elems(<<Msg("clientInfo")>>) : m.kind # "authInfo"
    BY <1>0, SentTypes
  <2>2. cliprdr' \in {0, ClipChannel}
    BY <1>11 DEF OnClipJoined, ChannelAfter, IInv
  <2>3. QED
    BY <1>11, <2>1, <2>2, PastCertificate DEF OnClipJoined
<1>12. CASE OnLicence
  <2>1. <<>> \in Seq(MessageSet) /\ Elems(<<>>) = {}
    BY ShortElems
  <2>2. QED
    BY <1>12, <2>1, PastCertificate DEF OnLicence, IInv
<1>13. CASE OnDemandActive
  <2> DEFINE burst == <<Msg("synchronize"), Msg("cooperate"), Msg("requestControl")>>
             ms == <<Msg("confirmActive")>> \o burst
  <2>1. /\ burst \in Seq(MessageSet)
        /\ \A m \in Elems(burst) : m.kind # "authInfo"
        /\ <<Msg("confirmActive")>> \in Seq(MessageSet)
        /\ \A m \in Elems(<<Msg("confirmActive")>>) : m.kind # "authInfo"
    BY <1>0, SentTypes
  <2>2. Proceed("demandActive", ms, "activation")
    BY <1>13 DEF OnDemandActive, SentBeforeReply
  <2> HIDE DEF burst
  <2>3. /\ ms \in Seq(MessageSet)
        /\ \A m \in Elems(ms) : m.kind # "authInfo"
    BY <2>1, ConcatElems
  <2> HIDE DEF ms
  <2>4. QED
    BY <1>13, <2>2, <2>3, PastCertificate DEF OnDemandActive, IInv
<1>14. CASE OnActivationReply
  <2> DEFINE burst == <<Msg("synchronize"), Msg("cooperate"), Msg("requestControl")>>
             later == SentBeforeReply(replies + 2)
  <2>1. /\ <<Msg("fontList")>> \in Seq(MessageSet)
        /\ \A m \in Elems(<<Msg("fontList")>>) : m.kind # "authInfo"
    BY <1>0, SentTypes
  <2>2. later = burst \/ later = <<>>
    BY DEF SentBeforeReply
  <2>3. /\ burst \in Seq(MessageSet)
        /\ \A m \in Elems(burst) : m.kind # "authInfo"
    BY <1>0, SentTypes
  <2>4. /\ <<>> \in Seq(MessageSet) /\ Elems(<<>>) = {}
    BY ShortElems
  <2> HIDE DEF burst, later
  <2>5. /\ later \in Seq(MessageSet)
        /\ \A m \in Elems(later) : m.kind # "authInfo"
    BY <2>2, <2>3, <2>4
  <2>6. CASE Proceed("activation", later, "activation")
    BY <1>14, <2>5, <2>6, PastCertificate DEF OnActivationReply, IInv
  <2>7. CASE Proceed("activation", <<Msg("fontList")>>, "fontMap")
    BY <1>14, <2>1, <2>7, PastCertificate DEF OnActivationReply, IInv
  <2>8. QED
    BY <1>14, <2>6, <2>7 DEF OnActivationReply, later
<1>15. CASE OnFontMap
  <2>1. <<>> \in Seq(MessageSet) /\ Elems(<<>>) = {}
    BY ShortElems
  <2>2. deadline' = FALSE
    BY <1>15 DEF OnFontMap, DeadlineWhenLive
  <2>3. QED
    BY <1>15, <2>1, <2>2, PastCertificate DEF OnFontMap, IInv
<1>16. CASE CloseConn
  BY <1>16 DEF CloseConn, ServerSide, IInv, QueueInv, Honest, Guarded, Elems
<1>17. CASE ServerHandles
  <2> DEFINE m == Head(toServer)
  <2>1. PICK rs \in ServerAnswers(m) :
            /\ toClient' = toClient \o rs
            /\ answered' = IF m.kind \in {"synchronize", "cooperate", "requestControl"}
                           THEN answered + Len(rs) ELSE answered
    BY <1>17 DEF ServerHandles
  <2>2. /\ toServer # <<>> /\ toServer' = Tail(toServer)
        /\ UNCHANGED <<awaiting, deadline, cliprdr, peer>>
    BY <1>17 DEF ServerHandles
  <2>3. /\ m \in MessageSet
        /\ toServer' \in Seq(MessageSet) /\ Elems(toServer') \subseteq Elems(toServer)
    BY <2>2, TailElems DEF IInv, QueueInv
  <2>4. rs \in Seq(AnswerSet) /\ \A a \in Elems(rs) : Honest(a)
    BY <2>3, ServerIsHonest DEF IInv, QueueInv
  <2>5. /\ toClient' \in Seq(AnswerSet)
        /\ Elems(toClient') \subseteq Elems(toClient) \cup Elems(rs)
    BY <2>1, <2>4, ConcatElems DEF IInv, QueueInv
  <2>6. answered' \in Nat
    <3>1. Len(rs) \in Nat
      BY <2>4
    <3>2. QED
      BY <2>1, <3>1 DEF IInv, QueueInv
  <2>7. \A a \in Elems(toClient') : Honest(a)'
    BY <2>2, <2>4, <2>5 DEF Honest, IInv, QueueInv
  <2>8. \A x \in Elems(toServer') : Guarded(x)'
    BY <2>2, <2>3 DEF Guarded, IInv, QueueInv
  <2>9. QueueInv'
    BY <2>3, <2>5, <2>6, <2>7, <2>8 DEF QueueInv, Elems
  <2>10. QED
    BY <2>2, <2>9 DEF IInv
<1>18. CASE ServerStops
  BY <1>18 DEF ServerStops, IInv, QueueInv, Honest, Guarded, Elems
<1>19. AnswerRefused \/ ReadFails \/ DeadlinePasses => CloseConn
  BY DEF AnswerRefused, ReadFails, DeadlinePasses
<1>20. QED
  BY <1>1, <1>2, <1>3, <1>4, <1>5, <1>6, <1>7, <1>8, <1>9, <1>10, <1>11, <1>12,
     <1>13, <1>14, <1>15, <1>16, <1>17, <1>18, <1>19 DEF ConnectNext, ConnectClient

-----------------------------------------------------------------------------
(* The theorems.                                                           *)

\* A session is a connection sequence with clipboard traffic on the side.
THEOREM SessionConnects == Spec => ConnectSpec
<1>1. Init => ConnectInit
  BY DEF Init
<1>2. [Next]_vars => [ConnectNext]_connectVars
  BY DEF Next, vars
<1>3. QED
  BY <1>1, <1>2, PTL DEF Spec, ConnectSpec

\* The invariant of the connection sequence holds throughout a session.
THEOREM InvariantHolds == Spec => []IInv
BY SessionConnects, InitIInv, StepIInv, PTL DEF ConnectSpec

\* Neither the session's data nor delegated credentials reach a server that
\* was not trusted.
THEOREM TrustPrecedesCredentials == Spec => []CredentialsAfterTrust
<1>1. IInv => CredentialsAfterTrust
  BY DEF IInv, QueueInv, Guarded, Opening, Elems, CredentialsAfterTrust
<1>2. QED
  BY <1>1, InvariantHolds, PTL

\* The deadline of the handshake never ends a live session.
THEOREM LiveSessionsLast == Spec => LiveNotTimedOut
<1>1. IInv /\ [ConnectNext]_connectVars
        => [awaiting = "live" /\ awaiting' = "closed" => link = "lost"]_connectVars
  <2> SUFFICES ASSUME IInv, ConnectNext, awaiting = "live", awaiting' = "closed"
               PROVE  link = "lost"
    OBVIOUS
  <2>1. ~ConnectClient \/ ReadFails
    BY DEF ConnectClient, Proceed, SendConnectionRequest, OnConfirm, OnCertificate,
           OnChallenge, OnPubKeyAuth, OnConnectResponse, OnAttachUserConfirm,
           OnUserJoined, OnIOJoined, OnClipJoined, OnLicence, OnDemandActive,
           OnActivationReply, OnFontMap, AnswerRefused, Answers
  <2>2. ~DeadlinePasses
    BY DEF DeadlinePasses, IInv
  <2>3. ~ServerHandles /\ ~ServerStops
    BY DEF ServerHandles, ServerStops
  <2>4. QED
    BY <2>1, <2>2, <2>3 DEF ConnectNext, ReadFails
<1>2. QED
  BY <1>1, InvariantHolds, SessionConnects, PTL DEF ConnectSpec, LiveNotTimedOut

-----------------------------------------------------------------------------
(* Turns and counts.                                                       *)

\* The answers that come in strict turns, and the messages they answer.
Turns == Answers \ {"demandActive", "activation", "fontMap"}
Question ==
    [confirm |-> {"connectionSSL", "connectionHybrid"}, certificate |-> {"hello"},
     challenge |-> {"negotiate"}, pubKeyAuth |-> {"pubKeyAuth"},
     connectResponse |-> {"connectInitial"}, attachConfirm |-> {"attachUser"},
     joinUser |-> {"join"}, joinIO |-> {"join"}, joinClip |-> {"join"},
     licence |-> {"clientInfo"}]
Questions == {"connectionSSL", "connectionHybrid", "hello", "negotiate", "pubKeyAuth",
              "connectInitial", "attachUser", "join"}
Unanswered == {"authenticate", "authInfo", "erectDomain"}

\* A licence that is granted comes with the next answer.
ClientsTurn(w) ==
    /\ toServer = <<>> /\ toClient # <<>>
    /\ Len(toClient) = IF w = "licence" /\ toClient[1].ok THEN 2 ELSE 1
ServersTurn(w) ==
    /\ toClient = <<>> /\ toServer # <<>>
    /\ toServer[Len(toServer)].kind \in Question[w]
    /\ \A i \in 1 .. Len(toServer) - 1 : toServer[i].kind \in Unanswered

UnderWay(kind) == \E i \in 1 .. Len(toServer) : toServer[i].kind = kind
Dialog ==
    /\ awaiting = "dialed" => toServer = <<>> /\ toClient = <<>>
    /\ awaiting \in Turns => ClientsTurn(awaiting) \/ ServersTurn(awaiting)
    /\ awaiting = "demandActive" => toServer = <<>> /\ Len(toClient) = 1
    /\ awaiting = "activation" =>
           /\ replies \in 0 .. 2 /\ replies + Len(toClient) >= answered
           /\ UnderWay("requestControl") \/ replies + Len(toClient) >= 3
    /\ awaiting = "fontMap" => toClient # <<>> \/ UnderWay("fontList")
    /\ awaiting \in {"dialed", "demandActive"} \cup Turns => replies = 0 /\ answered = 0

\* The clipboard channel is kept only if the server let the client join it.
Past == {"licence", "demandActive", "activation", "fontMap", "live"}
Membership ==
    /\ awaiting = "joinClip" =>
           /\ cliprdr = ClipChannel
           /\ toServer # <<>> => toServer[Len(toServer)].channel = ClipChannel
           /\ toClient # <<>> /\ toClient[1].ok => ClipChannel \in joined
    /\ awaiting \in Past /\ cliprdr # 0 => ClipChannel \in joined

DialogInv == IInv /\ Dialog /\ Membership

\* Nothing of the clipboard happens before the channel is joined.
ClipInv ==
    runOut # <<>> \/ inputOut # <<>> \/ vcToServer # <<>> \/ vcToClient # <<>>
        \/ greeted # "no" \/ offered # 0 => ClipChannel \in joined

-----------------------------------------------------------------------------
(* What the server answers.                                                *)

LEMMA AnswerCount ==
  ASSUME NEW m \in MessageSet, NEW rs \in ServerAnswers(m), answered \in Nat
  PROVE  /\ rs \in Seq(AnswerSet) /\ Len(rs) \in Nat
         /\ m.kind \in Unanswered => rs = <<>>
         /\ m.kind \in Questions \cup {"fontList"} => Len(rs) = 1
         /\ m.kind = "clientInfo" => Len(rs) = IF rs[1].ok THEN 2 ELSE 1
         /\ m.kind = "requestControl" => Len(rs) >= 3 - answered
<1>1. rs \in Seq(AnswerSet) /\ Len(rs) \in Nat
  BY ServerIsHonest
<1>2. ASSUME NEW k, NEW oks, rs \in Grants(k, oks) PROVE Len(rs) = 1 /\ \E ok \in oks : rs[1] = Answer(k, ok)
  BY <1>2 DEF Grants
<1>3. m.kind \in Unanswered => rs = <<>>
  BY DEF ServerAnswers, Unanswered
<1>4. m.kind \in Questions \cup {"fontList"} => \E k, oks : rs \in Grants(k, oks)
  BY DEF ServerAnswers, Questions
<1>5. ASSUME m.kind = "clientInfo" PROVE Len(rs) = IF rs[1].ok THEN 2 ELSE 1
  <2>1. CASE rs \in Grants("licence", {FALSE})
    <3>1. ~Answer("licence", FALSE).ok
      BY DEF Answer
    <3> DEFINE a == Answer("licence", FALSE)
    <3>2. rs = <<a>>
      BY <2>1 DEF Grants
    <3>3. ~a.ok
      BY <3>1
    <3> HIDE DEF a
    <3> QED BY <3>2, <3>3
  <2>2. CASE rs = <<Answer("licence", TRUE), Answer("demandActive", TRUE)>>
    <3>1. Answer("licence", TRUE).ok
      BY DEF Answer
    <3>2. Len(rs) = 2 /\ rs[1] = Answer("licence", TRUE)
      BY <2>2
    <3> QED BY <3>1, <3>2
  <2> QED BY <1>5, <2>1, <2>2 DEF ServerAnswers
<1>6. ASSUME m.kind = "requestControl" PROVE Len(rs) >= 3 - answered
  <2>1. rs = [i \in 1..(3 - answered) |-> Answer("activation", TRUE)]
    BY <1>6 DEF ServerAnswers
  <2>2. DOMAIN rs = 1 .. (3 - answered) /\ DOMAIN rs = 1 .. Len(rs)
    <3>1. DOMAIN rs = 1 .. (3 - answered)
      BY <2>1
    <3>2. DOMAIN rs = 1 .. Len(rs)
      BY <1>1
    <3> QED BY <3>1, <3>2
  <2> QED BY <1>1, <2>2
<1> QED BY <1>1, <1>2, <1>3, <1>4, <1>5, <1>6

\* What the client sends at its turn is what the server answers next.
LEMMA QuestionKinds ==
  ASSUME NEW w \in Turns
  PROVE  /\ w # "licence" => Question[w] \subseteq Questions
         /\ w = "licence" => Question[w] = {"clientInfo"}
  BY DEF Turns, Answers, Question, Questions

\* When the client reads an answer of a turn, what it sends is all there is.
LEMMA TurnRead ==
  ASSUME DialogInv, NEW w \in Turns, NEW next, NEW ms \in Seq(MessageSet), Proceed(w, ms, next)
  PROVE  /\ toServer' = ms /\ awaiting = w /\ awaiting' = next
         /\ toClient # <<>> /\ toClient[1] = Head(toClient) /\ toClient[1] \in AnswerSet
         /\ Len(toClient') = IF w = "licence" /\ toClient[1].ok THEN 1 ELSE 0
         /\ w # "licence" => toClient' = <<>>
         /\ UNCHANGED <<peer, link, joined, answered>>
<1>1. /\ awaiting = w /\ awaiting' = next /\ toClient # <<>> /\ toClient' = Tail(toClient)
      /\ toServer' = toServer \o ms /\ UNCHANGED <<peer, link, joined, answered>>
  BY DEF Proceed, Send, ServerSide
<1>2. ClientsTurn(w)
  BY <1>1 DEF DialogInv, Dialog, ServersTurn
<1>3. toServer = <<>> /\ Len(toClient) = IF w = "licence" /\ toClient[1].ok THEN 2 ELSE 1
  BY <1>2 DEF ClientsTurn
<1>4. toClient \in Seq(AnswerSet)
  BY DEF DialogInv, IInv, QueueInv
<1>5. toServer' = ms
  BY <1>1, <1>3
<1>6. Head(toClient) = toClient[1] /\ toClient[1] \in AnswerSet /\ Tail(toClient) \in Seq(AnswerSet)
      /\ Len(Tail(toClient)) = Len(toClient) - 1
  BY <1>1, <1>4
<1> QED BY <1>1, <1>3, <1>5, <1>6

\* From one turn to the next.
LEMMA NextTurn ==
  ASSUME DialogInv, NEW w \in Turns \ {"licence"}, NEW next \in Turns,
         NEW ms \in Seq(MessageSet), Proceed(w, ms, next),
         ms # <<>>, ms[Len(ms)].kind \in Question[next],
         \A i \in 1 .. Len(ms) - 1 : ms[i].kind \in Unanswered,
         UNCHANGED replies
  PROVE  Dialog'
<1>1. /\ toServer' = ms /\ awaiting' = next /\ awaiting = w /\ toClient' = <<>>
      /\ UNCHANGED answered
  BY TurnRead
<1>2. ServersTurn(next)'
  BY <1>1 DEF ServersTurn
<1>3. replies' = 0 /\ answered' = 0
  BY <1>1 DEF DialogInv, Dialog
<1> QED BY <1>1, <1>2, <1>3 DEF Dialog, Turns, Answers

\* What is sent at a turn, one message or two.
LEMMA SentOnce ==
  /\ \A k \in Messages : LET ms == <<Msg(k)>>
                         IN  ms \in Seq(MessageSet) /\ Len(ms) = 1 /\ ms[1].kind = k
  /\ \A j, k \in Messages : LET ms == <<Msg(j), Msg(k)>>
                            IN  /\ ms \in Seq(MessageSet) /\ Len(ms) = 2
                                /\ ms[1].kind = j /\ ms[2].kind = k
  /\ \A c \in Channels : LET ms == <<Join(c)>>
                         IN  /\ ms \in Seq(MessageSet) /\ Len(ms) = 1
                             /\ ms[1].kind = "join" /\ ms[1].channel = c
<1>1. /\ \A k \in Messages : Msg(k) \in MessageSet /\ Msg(k).kind = k
      /\ \A c \in Channels : Join(c) \in MessageSet /\ Join(c).kind = "join" /\ Join(c).channel = c
  BY DEF Msg, Join, MessageSet, Messages, Channels
<1> QED BY <1>1

LEMMA LastOfFew ==
  ASSUME NEW ms \in Seq(MessageSet)
  PROVE  /\ Len(ms) = 1 => ms # <<>> /\ ms[Len(ms)] = ms[1] /\ \A i \in 1 .. Len(ms) - 1 : FALSE
         /\ Len(ms) = 2 => ms # <<>> /\ ms[Len(ms)] = ms[2] /\ \A i \in 1 .. Len(ms) - 1 : i = 1
<1>1. Len(ms) = 1 => ms # <<>> /\ ms[Len(ms)] = ms[1]
  OBVIOUS
<1>2. Len(ms) = 2 => ms # <<>> /\ ms[Len(ms)] = ms[2]
  OBVIOUS
<1>3. Len(ms) = 1 => \A i \in 1 .. Len(ms) - 1 : FALSE
  OBVIOUS
<1>4. Len(ms) = 2 => \A i \in 1 .. Len(ms) - 1 : i = 1
  OBVIOUS
<1> QED BY <1>1, <1>2, <1>3, <1>4

\* A turn with one question, and one with a question behind a message nobody answers.
LEMMA AskAlone ==
  ASSUME DialogInv, UNCHANGED replies, NEW w \in Turns \ {"licence"}, NEW next \in Turns,
         NEW k \in Messages, Proceed(w, <<Msg(k)>>, next), k \in Question[next]
  PROVE  Dialog'
<1> DEFINE ms == <<Msg(k)>>
<1>1. ms \in Seq(MessageSet) /\ Len(ms) = 1 /\ ms[1].kind = k
  BY SentOnce
<1>2. Proceed(w, ms, next)
  OBVIOUS
<1> HIDE DEF ms
<1>3. ms # <<>> /\ ms[Len(ms)].kind \in Question[next]
      /\ \A i \in 1 .. Len(ms) - 1 : ms[i].kind \in Unanswered
  <2>1. ms # <<>> /\ ms[Len(ms)] = ms[1]
    BY <1>1, LastOfFew
  <2>2. \A i \in 1 .. Len(ms) - 1 : FALSE
    BY <1>1, LastOfFew
  <2> QED BY <1>1, <2>1, <2>2
<1> QED BY <1>1, <1>2, <1>3, NextTurn

LEMMA AskBehind ==
  ASSUME DialogInv, UNCHANGED replies, NEW w \in Turns \ {"licence"}, NEW next \in Turns,
         NEW j \in Messages \cap Unanswered, NEW k \in Messages,
         Proceed(w, <<Msg(j), Msg(k)>>, next), k \in Question[next]
  PROVE  Dialog'
<1> DEFINE ms == <<Msg(j), Msg(k)>>
<1>1. ms \in Seq(MessageSet) /\ Len(ms) = 2 /\ ms[1].kind = j /\ ms[2].kind = k
  BY SentOnce
<1>2. Proceed(w, ms, next)
  OBVIOUS
<1> HIDE DEF ms
<1>3. ms # <<>> /\ ms[Len(ms)].kind \in Question[next]
      /\ \A i \in 1 .. Len(ms) - 1 : ms[i].kind \in Unanswered
  <2>1. ms # <<>> /\ ms[Len(ms)] = ms[2]
    BY <1>1, LastOfFew
  <2>2. \A i \in 1 .. Len(ms) - 1 : i = 1
    BY <1>1, LastOfFew
  <2> QED BY <1>1, <2>1, <2>2
<1> QED BY <1>1, <1>2, <1>3, NextTurn

LEMMA AskToJoin ==
  ASSUME DialogInv, UNCHANGED replies, NEW w \in Turns \ {"licence"}, NEW next \in Turns,
         NEW c \in Channels, Proceed(w, <<Join(c)>>, next), "join" \in Question[next]
  PROVE  Dialog' /\ Len(toServer') = 1 /\ toServer'[1].channel = c /\ toClient' = <<>>
<1> DEFINE ms == <<Join(c)>>
<1>1. ms \in Seq(MessageSet) /\ Len(ms) = 1 /\ ms[1].kind = "join" /\ ms[1].channel = c
  BY SentOnce
<1>2. Proceed(w, ms, next)
  OBVIOUS
<1> HIDE DEF ms
<1>3. ms # <<>> /\ ms[Len(ms)].kind \in Question[next]
      /\ \A i \in 1 .. Len(ms) - 1 : ms[i].kind \in Unanswered
  <2>1. ms # <<>> /\ ms[Len(ms)] = ms[1]
    BY <1>1, LastOfFew
  <2>2. \A i \in 1 .. Len(ms) - 1 : FALSE
    BY <1>1, LastOfFew
  <2> QED BY <1>1, <2>1, <2>2
<1>4. Dialog'
  BY <1>1, <1>2, <1>3, NextTurn
<1>5. toServer' = ms /\ toClient' = <<>>
  BY <1>1, <1>2, TurnRead
<1> QED BY <1>1, <1>4, <1>5

-----------------------------------------------------------------------------
(* The server takes its turn.                                              *)

\* The server reads the first message and appends what it answers.
LEMMA Handled ==
  ASSUME DialogInv, ServerHandles
  PROVE  \E rs \in Seq(AnswerSet) : LET m == toServer[1] IN
           /\ m \in MessageSet /\ rs \in ServerAnswers(m) /\ Len(rs) \in Nat
           /\ Len(toServer) \in Nat \ {0} /\ Len(toServer') = Len(toServer) - 1
           /\ \A i \in 1 .. Len(toServer') : toServer'[i] = toServer[i + 1]
           /\ (Len(toServer) = 1 => toServer' = <<>>)
           /\ toClient' = toClient \o rs /\ Len(toClient) \in Nat
           /\ Len(toClient') = Len(toClient) + Len(rs)
           /\ toClient = <<>> => toClient' = rs
           /\ joined' = IF m.kind = "join" /\ Head(rs).ok THEN joined \cup {m.channel} ELSE joined
           /\ answered' = IF m.kind \in {"synchronize", "cooperate", "requestControl"}
                          THEN answered + Len(rs) ELSE answered
           /\ UNCHANGED <<awaiting, nla, cliprdr, replies, deadline, peer, link>>
<1> DEFINE m == Head(toServer)
<1>1. toServer \in Seq(MessageSet) /\ toClient \in Seq(AnswerSet) /\ answered \in Nat
  BY DEF DialogInv, IInv, QueueInv
<1>2. toServer # <<>> /\ toServer' = Tail(toServer)
      /\ UNCHANGED <<awaiting, nla, cliprdr, replies, deadline, peer, link>>
  BY DEF ServerHandles
<1>3. PICK rs \in ServerAnswers(m) :
        /\ toClient' = toClient \o rs
        /\ joined' = IF m.kind = "join" /\ Head(rs).ok THEN joined \cup {m.channel} ELSE joined
        /\ answered' = IF m.kind \in {"synchronize", "cooperate", "requestControl"}
                       THEN answered + Len(rs) ELSE answered
  BY DEF ServerHandles
<1>4. m = toServer[1] /\ m \in MessageSet
  BY <1>1, <1>2
<1>5. rs \in Seq(AnswerSet) /\ Len(rs) \in Nat
  BY <1>1, <1>4, AnswerCount
<1>6. /\ Len(toServer) \in Nat \ {0} /\ Len(toServer') = Len(toServer) - 1
      /\ \A i \in 1 .. Len(toServer') : toServer'[i] = toServer[i + 1]
  BY <1>1, <1>2
<1>7. Len(toServer) = 1 => toServer' = <<>>
  BY <1>1, <1>2
<1>8. /\ Len(toClient) \in Nat /\ Len(toClient') = Len(toClient) + Len(rs)
      /\ toClient = <<>> => toClient' = rs
  BY <1>1, <1>3, <1>5
<1> HIDE DEF m
<1> QED BY <1>2, <1>3, <1>4, <1>5, <1>6, <1>7, <1>8

\* In a turn the server passes over what needs no answer, or answers and
\* leaves nothing.
LEMMA ServersTurnPasses ==
  ASSUME DialogInv, ServerHandles, awaiting \in Turns
  PROVE  /\ awaiting' = awaiting
         /\ toServer # <<>> /\ Len(toServer) \in Nat
         /\ \/ /\ ServersTurn(awaiting)' /\ Len(toServer') \in Nat \ {0}
               /\ toServer'[Len(toServer')] = toServer[Len(toServer)]
            \/ ClientsTurn(awaiting)' /\ Len(toServer) = 1
<1>1. PICK rs \in Seq(AnswerSet) : LET m == toServer[1] IN
           /\ m \in MessageSet /\ rs \in ServerAnswers(m) /\ Len(rs) \in Nat
           /\ Len(toServer) \in Nat \ {0} /\ Len(toServer') = Len(toServer) - 1
           /\ \A i \in 1 .. Len(toServer') : toServer'[i] = toServer[i + 1]
           /\ (Len(toServer) = 1 => toServer' = <<>>)
           /\ (toClient = <<>> => toClient' = rs)
           /\ awaiting' = awaiting
  BY Handled
<1>2. ServersTurn(awaiting)
  BY <1>1 DEF DialogInv, Dialog, ClientsTurn
<1>3. /\ toServer # <<>> /\ toClient' = rs
      /\ toServer[Len(toServer)].kind \in Question[awaiting]
      /\ \A i \in 1 .. Len(toServer) - 1 : toServer[i].kind \in Unanswered
  BY <1>1, <1>2 DEF ServersTurn
<1>4. answered \in Nat
  BY DEF DialogInv, IInv, QueueInv
<1>5. CASE Len(toServer) = 1
  <2>1. toServer[1].kind \in Question[awaiting] /\ toServer' = <<>>
    BY <1>1, <1>3, <1>5
  <2>2. Len(rs) = IF awaiting = "licence" /\ rs[1].ok THEN 2 ELSE 1
    BY <1>1, <1>4, <2>1, QuestionKinds, AnswerCount
  <2>3. rs # <<>>
    BY <2>2
  <2> QED BY <1>1, <1>3, <1>5, <2>1, <2>2, <2>3 DEF ClientsTurn
<1>6. CASE Len(toServer) # 1
  <2>1. toServer[1].kind \in Unanswered
    BY <1>1, <1>3, <1>6
  <2>2. toClient' = <<>>
    BY <1>1, <1>3, <1>4, <2>1, AnswerCount
  <2>3. Len(toServer') \in Nat \ {0} /\ toServer'[Len(toServer')] = toServer[Len(toServer)]
    BY <1>1, <1>6
  <2>4. \A i \in 1 .. Len(toServer') - 1 : toServer'[i].kind \in Unanswered
    BY <1>1, <1>3, <1>6
  <2>5. toServer' # <<>>
    BY <2>3
  <2> QED BY <1>1, <1>3, <2>2, <2>3, <2>4, <2>5 DEF ServersTurn
<1> QED BY <1>1, <1>3, <1>5, <1>6

\* Past the turns the server's answers only add to those under way.
LEMMA ServerHandlesKeeps ==
  ASSUME DialogInv, ServerHandles
  PROVE  Dialog'
<1>1. PICK rs \in Seq(AnswerSet) : LET m == toServer[1] IN
           /\ m \in MessageSet /\ rs \in ServerAnswers(m) /\ Len(rs) \in Nat
           /\ Len(toServer) \in Nat \ {0} /\ Len(toServer') = Len(toServer) - 1
           /\ \A i \in 1 .. Len(toServer') : toServer'[i] = toServer[i + 1]
           /\ Len(toClient) \in Nat /\ Len(toClient') = Len(toClient) + Len(rs)
           /\ answered' = IF m.kind \in {"synchronize", "cooperate", "requestControl"}
                          THEN answered + Len(rs) ELSE answered
           /\ UNCHANGED <<awaiting, replies>>
  BY Handled
<1>2. answered \in Nat
  BY DEF DialogInv, IInv, QueueInv
<1>3. awaiting \notin {"dialed", "demandActive"}
  BY <1>1 DEF DialogInv, Dialog
<1>4. ASSUME NEW kind, UnderWay(kind), toServer[1].kind # kind PROVE UnderWay(kind)'
  <2>1. PICK i \in 1 .. Len(toServer) : toServer[i].kind = kind
    BY <1>4 DEF UnderWay
  <2>2. i - 1 \in 1 .. Len(toServer') /\ toServer'[i - 1] = toServer[i]
    BY <1>1, <1>4, <2>1
  <2> QED BY <2>1, <2>2 DEF UnderWay
<1>5. CASE awaiting \in Turns
  <2>1. awaiting' = awaiting /\ (ClientsTurn(awaiting)' \/ ServersTurn(awaiting)')
    BY <1>5, ServersTurnPasses
  <2>2. replies = 0 /\ answered = 0 /\ ServersTurn(awaiting)
    BY <1>1, <1>5 DEF DialogInv, Dialog, ClientsTurn
  <2>3. toServer[1].kind \in Unanswered \cup Question[awaiting]
    BY <1>1, <2>2 DEF ServersTurn
  <2>4. toServer[1].kind \notin {"synchronize", "cooperate", "requestControl"}
    BY <1>5, <2>3, QuestionKinds DEF Unanswered, Questions
  <2>5. replies' = 0 /\ answered' = 0
    BY <1>1, <2>2, <2>4
  <2> QED BY <1>5, <2>1, <2>5 DEF Dialog, Turns, Answers
<1>6. CASE awaiting = "activation"
  <2>1. /\ replies \in 0 .. 2 /\ replies + Len(toClient) >= answered
        /\ UnderWay("requestControl") \/ replies + Len(toClient) >= 3
    BY <1>6 DEF DialogInv, Dialog
  <2>2. replies' \in 0 .. 2 /\ replies' + Len(toClient') >= answered'
    BY <1>1, <1>2, <2>1
  <2>3. UnderWay("requestControl")' \/ replies' + Len(toClient') >= 3
    <3>1. CASE toServer[1].kind = "requestControl"
      <4>1. Len(rs) >= 3 - answered
        BY <1>1, <1>2, <3>1, AnswerCount
      <4> QED BY <1>1, <1>2, <2>1, <4>1
    <3>2. CASE toServer[1].kind # "requestControl" /\ UnderWay("requestControl")
      BY <1>4, <3>2
    <3>3. CASE replies + Len(toClient) >= 3
      BY <1>1, <2>1, <3>3
    <3> QED BY <2>1, <3>1, <3>2, <3>3
  <2> QED BY <1>1, <1>6, <2>2, <2>3 DEF Dialog, Turns, Answers
<1>7. CASE awaiting = "fontMap"
  <2>1. toClient # <<>> \/ UnderWay("fontList")
    BY <1>7 DEF DialogInv, Dialog
  <2>2. Len(toClient') > 0 \/ UnderWay("fontList")'
    <3>1. CASE toClient # <<>>
      <4>1. Len(toClient) > 0
        BY <3>1 DEF DialogInv, IInv, QueueInv
      <4> QED BY <1>1, <4>1
    <3>2. CASE toServer[1].kind = "fontList"
      <4>1. Len(rs) = 1
        BY <1>1, <1>2, <3>2, AnswerCount
      <4> QED BY <1>1, <4>1
    <3>3. CASE toServer[1].kind # "fontList" /\ UnderWay("fontList")
      BY <1>4, <3>3
    <3> QED BY <2>1, <3>1, <3>2, <3>3
  <2>3. toClient' # <<>> \/ UnderWay("fontList")'
    BY <2>2
  <2> QED BY <1>1, <1>7, <2>3 DEF Dialog, Turns, Answers
<1>8. CASE awaiting \notin Answers
  BY <1>1, <1>3, <1>8 DEF Dialog, Turns, Answers
<1> QED BY <1>3, <1>5, <1>6, <1>7, <1>8 DEF Turns

-----------------------------------------------------------------------------
(* The client takes its turn.                                              *)

LEMMA Kinds ==
  {"connectionSSL", "connectionHybrid", "hello", "negotiate", "authenticate",
   "pubKeyAuth", "authInfo", "connectInitial", "erectDomain", "attachUser",
   "clientInfo", "confirmActive", "synchronize", "cooperate",
   "requestControl", "fontList"} \subseteq Messages
  BY DEF Messages

LEMMA TurnNames ==
  /\ {"confirm", "certificate", "challenge", "pubKeyAuth", "connectResponse", "attachConfirm",
      "joinUser", "joinIO", "joinClip", "licence"} = Turns
  /\ {"confirm", "certificate", "challenge", "pubKeyAuth", "connectResponse", "attachConfirm",
      "joinUser", "joinIO", "joinClip"} = Turns \ {"licence"}
  BY DEF Turns, Answers

\* The answers of the strict turns.
LEMMA TurnsKeep ==
  ASSUME DialogInv,
         \/ OnConfirm \/ OnCertificate \/ OnChallenge \/ OnPubKeyAuth \/ OnConnectResponse
         \/ OnAttachUserConfirm \/ OnUserJoined \/ OnIOJoined \/ OnClipJoined
  PROVE  Dialog'
<1>1. CASE OnConfirm
  BY <1>1, Kinds, TurnNames, AskAlone DEF OnConfirm, Question
<1>2. CASE OnCertificate
  BY <1>2, Kinds, TurnNames, AskAlone DEF OnCertificate, Question
<1>3. CASE OnChallenge
  BY <1>3, Kinds, TurnNames, AskBehind DEF OnChallenge, Question, Unanswered
<1>4. CASE OnPubKeyAuth
  BY <1>4, Kinds, TurnNames, AskBehind DEF OnPubKeyAuth, Question, Unanswered
<1>5. CASE OnConnectResponse
  BY <1>5, Kinds, TurnNames, AskBehind DEF OnConnectResponse, Question, Unanswered
<1>6. {UserID, IOChannel, ClipChannel} \subseteq Channels /\ cliprdr \in {0, ClipChannel}
  BY MessageTypes DEF DialogInv, IInv
<1>7. CASE OnAttachUserConfirm
  BY <1>6, <1>7, TurnNames, AskToJoin DEF OnAttachUserConfirm, Question
<1>8. CASE OnUserJoined
  BY <1>6, <1>8, TurnNames, AskToJoin DEF OnUserJoined, Question
<1>9. CASE OnIOJoined
  <2>1. CASE cliprdr # 0 /\ Proceed("joinIO", <<Join(cliprdr)>>, "joinClip")
    BY <1>6, <1>9, <2>1, TurnNames, AskToJoin DEF OnIOJoined, Question
  <2>2. CASE Proceed("joinIO", <<Msg("clientInfo")>>, "licence")
    BY <1>9, <2>2, Kinds, TurnNames, AskAlone DEF OnIOJoined, Question
  <2> QED BY <1>9, <2>1, <2>2 DEF OnIOJoined
<1>10. CASE OnClipJoined
  BY <1>10, Kinds, TurnNames, AskAlone DEF OnClipJoined, Question
<1> QED BY <1>1, <1>2, <1>3, <1>4, <1>5, <1>7, <1>8, <1>9, <1>10

LEMMA QueueTypes ==
  ASSUME DialogInv
  PROVE  toServer \in Seq(MessageSet) /\ toClient \in Seq(AnswerSet) /\ answered \in Nat
  BY DEF DialogInv, IInv, QueueInv

LEMMA OnLicenceKeeps ==
  ASSUME DialogInv, OnLicence
  PROVE  Dialog'
<1> DEFINE ms == <<>>
<1>1. Proceed("licence", ms, "demandActive") /\ replies' = replies
  BY DEF OnLicence
<1>2. ms \in Seq(MessageSet) /\ ms = <<>>
  OBVIOUS
<1> HIDE DEF ms
<1>3. /\ toServer' = ms /\ awaiting = "licence" /\ awaiting' = "demandActive"
      /\ toClient[1] = Head(toClient) /\ answered' = answered
      /\ Len(toClient') = IF toClient[1].ok THEN 1 ELSE 0
  BY <1>1, <1>2, TurnNames, TurnRead
<1>4. toClient[1].ok
  BY <1>1, <1>3 DEF Proceed, Accepts
<1>5. replies' = 0 /\ answered' = 0
  BY <1>1, <1>3, TurnNames DEF DialogInv, Dialog
<1> QED BY <1>2, <1>3, <1>4, <1>5 DEF Dialog, Turns

LEMMA FourSent ==
  ASSUME NEW S, NEW a \in S, NEW b \in S, NEW c \in S, NEW d \in S
  PROVE  /\ <<a>> \o <<b, c, d>> \in Seq(S) /\ Len(<<a>> \o <<b, c, d>>) = 4
         /\ (<<a>> \o <<b, c, d>>)[1] = a /\ (<<a>> \o <<b, c, d>>)[2] = b
         /\ (<<a>> \o <<b, c, d>>)[3] = c /\ (<<a>> \o <<b, c, d>>)[4] = d
<1> DEFINE p == <<a>>
           r == <<b, c, d>>
<1>1. p \in Seq(S) /\ r \in Seq(S) /\ Len(p) = 1 /\ Len(r) = 3
      /\ p[1] = a /\ r[1] = b /\ r[2] = c /\ r[3] = d
  OBVIOUS
<1> HIDE DEF p, r
<1>2. p \o r \in Seq(S) /\ Len(p \o r) = Len(p) + Len(r)
      /\ \A i \in 1 .. Len(p) + Len(r) :
             (p \o r)[i] = IF i <= Len(p) THEN p[i] ELSE r[i - Len(p)]
  BY <1>1, ConcatProperties
<1>3. Len(p \o r) = 4 /\ (p \o r)[1] = a /\ (p \o r)[2] = b /\ (p \o r)[3] = c /\ (p \o r)[4] = d
  BY <1>1, <1>2
<1> QED BY <1>1, <1>2, <1>3 DEF p, r

LEMMA OneMore ==
  ASSUME NEW S, NEW q \in Seq(S), NEW r \in Seq(S), Len(r) = 1
  PROVE  /\ Len(q) \in Nat /\ Len(q \o r) = Len(q) + 1
         /\ (q \o r)[Len(q) + 1] = r[1]
<1>1. Len(q) \in Nat /\ Len(q \o r) = Len(q) + Len(r)
      /\ \A i \in 1 .. Len(q) + Len(r) :
             (q \o r)[i] = IF i <= Len(q) THEN q[i] ELSE r[i - Len(q)]
  BY ConcatProperties
<1> QED BY <1>1

LEMMA OnDemandActiveKeeps ==
  ASSUME DialogInv, OnDemandActive
  PROVE  Dialog'
<1> DEFINE ms == <<Msg("confirmActive")>> \o SentBeforeReply(1)
<1>1. /\ toServer = <<>> /\ Len(toClient) = 1 /\ replies = 0 /\ answered = 0
      /\ awaiting' = "activation" /\ toClient' = Tail(toClient) /\ toServer' = toServer \o ms
      /\ UNCHANGED <<replies, answered>>
  BY DEF OnDemandActive, Proceed, Send, ServerSide, DialogInv, Dialog
<1>2. Len(ms) = 4 /\ ms[4] = Msg("requestControl") /\ ms \in Seq(MessageSet)
  <2>1. \A k \in Messages : Msg(k) \in MessageSet
    BY MessageTypes
  <2>2. SentBeforeReply(1) = <<Msg("synchronize"), Msg("cooperate"), Msg("requestControl")>>
    BY DEF SentBeforeReply
  <2>3. {Msg("confirmActive"), Msg("synchronize"), Msg("cooperate"), Msg("requestControl")}
            \subseteq MessageSet
    BY <2>1, Kinds
  <2> DEFINE a == Msg("confirmActive")
             b == Msg("synchronize")
             c == Msg("cooperate")
             d == Msg("requestControl")
  <2>4. a \in MessageSet /\ b \in MessageSet /\ c \in MessageSet /\ d \in MessageSet
    BY <2>3
  <2>5. ms = <<a>> \o <<b, c, d>>
    BY <2>2
  <2> HIDE DEF a, b, c, d, ms
  <2>6. Len(ms) = 4 /\ ms[4] = d /\ ms \in Seq(MessageSet)
    BY <2>4, <2>5, FourSent
  <2> QED BY <2>6 DEF d
<1>3. Msg("requestControl").kind = "requestControl"
  BY DEF Msg
<1> HIDE DEF ms
<1>4. toServer' = ms
  BY <1>1, <1>2
<1>5. UnderWay("requestControl")'
  <2>1. 4 \in 1 .. Len(toServer') /\ toServer'[4].kind = "requestControl"
    BY <1>2, <1>3, <1>4
  <2> QED BY <2>1 DEF UnderWay
<1>6. Len(toClient') = 0
  BY <1>1, QueueTypes
<1> QED BY <1>1, <1>5, <1>6 DEF Dialog, Turns, Answers

LEMMA OnActivationReplyKeeps ==
  ASSUME DialogInv, OnActivationReply
  PROVE  Dialog'
<1>1. /\ awaiting = "activation" /\ toClient # <<>> /\ toClient' = Tail(toClient)
      /\ replies' = replies + 1 /\ answered' = answered
  BY DEF OnActivationReply, Proceed, ServerSide
<1>2. /\ replies \in 0 .. 2 /\ replies + Len(toClient) >= answered
      /\ UnderWay("requestControl") \/ replies + Len(toClient) >= 3
  BY <1>1 DEF DialogInv, Dialog
<1>3. Len(toClient) \in Nat /\ Len(toClient') = Len(toClient) - 1 /\ Len(toClient') \in Nat
  BY <1>1, QueueTypes
<1>4. replies' + Len(toClient') = replies + Len(toClient)
  BY <1>1, <1>2, <1>3
<1>5. CASE replies < 2 /\ Proceed("activation", SentBeforeReply(replies + 2), "activation")
  <2>1. SentBeforeReply(replies + 2) = <<>>
    BY <1>2 DEF SentBeforeReply
  <2>2. toServer' = toServer /\ awaiting' = "activation"
    BY <1>5, <2>1, QueueTypes DEF Proceed, Send
  <2>3. replies' \in 0 .. 2
    BY <1>1, <1>2, <1>5
  <2> QED BY <1>1, <1>2, <1>4, <2>2, <2>3 DEF Dialog, UnderWay, Turns, Answers
<1>6. CASE replies = 2 /\ Proceed("activation", <<Msg("fontList")>>, "fontMap")
  <2> DEFINE ms == <<Msg("fontList")>>
  <2>1. ms \in Seq(MessageSet) /\ Len(ms) = 1 /\ ms[1].kind = "fontList"
    BY Kinds, SentOnce
  <2>2. toServer' = toServer \o ms /\ awaiting' = "fontMap"
    BY <1>6 DEF Proceed, Send
  <2> HIDE DEF ms
  <2>3. Len(toServer') = Len(toServer) + 1 /\ Len(toServer) \in Nat
        /\ toServer'[Len(toServer) + 1] = ms[1]
    BY <2>1, <2>2, QueueTypes, OneMore
  <2>4. UnderWay("fontList")'
    BY <2>1, <2>3 DEF UnderWay
  <2> QED BY <2>2, <2>4 DEF Dialog, Turns, Answers
<1> QED BY <1>5, <1>6 DEF OnActivationReply

LEMMA SendConnectionRequestKeeps ==
  ASSUME DialogInv, SendConnectionRequest
  PROVE  Dialog'
<1>1. PICK k \in {"connectionSSL", "connectionHybrid"} : toServer' = toServer \o <<Msg(k)>>
  BY DEF SendConnectionRequest, Send
<1> DEFINE ms == <<Msg(k)>>
<1>2. ms \in Seq(MessageSet) /\ Len(ms) = 1 /\ ms[1].kind = k
  BY Kinds, SentOnce
<1>3. toServer' = toServer \o ms
  BY <1>1
<1> HIDE DEF ms
<1>4. /\ toServer = <<>> /\ toClient = <<>> /\ replies = 0 /\ answered = 0
      /\ awaiting' = "confirm" /\ UNCHANGED <<toClient, replies, answered>>
  BY DEF SendConnectionRequest, ServerSide, DialogInv, Dialog
<1>5. toServer' = ms
  BY <1>2, <1>3, <1>4
<1>6. ms # <<>> /\ ms[Len(ms)] = ms[1] /\ \A i \in 1 .. Len(ms) - 1 : FALSE
  BY <1>2, LastOfFew
<1>7. ServersTurn("confirm")'
  BY <1>2, <1>4, <1>5, <1>6 DEF ServersTurn, Question
<1> QED BY <1>4, <1>7, TurnNames DEF Dialog

LEMMA DialogSteps == DialogInv /\ [ConnectNext]_connectVars => Dialog'
<1> SUFFICES ASSUME DialogInv, [ConnectNext]_connectVars PROVE Dialog'
  OBVIOUS
<1>1. CASE OnFontMap
  <2>1. awaiting' = "live"
    BY <1>1 DEF OnFontMap, Proceed
  <2> QED BY <2>1 DEF Dialog, Turns, Answers
<1>2. CASE AnswerRefused \/ ReadFails \/ DeadlinePasses
  <2>1. awaiting' = "closed"
    BY <1>2 DEF AnswerRefused, ReadFails, DeadlinePasses, CloseConn
  <2> QED BY <2>1 DEF Dialog, Turns, Answers
<1>3. CASE ServerStops \/ UNCHANGED connectVars
  <2>1. UNCHANGED <<awaiting, replies, toServer, toClient, answered>>
    BY <1>3 DEF ServerStops, connectVars
  <2> QED BY <2>1 DEF DialogInv, Dialog, ClientsTurn, ServersTurn, UnderWay
<1> QED BY <1>1, <1>2, <1>3, TurnsKeep, OnLicenceKeeps, OnDemandActiveKeeps,
           OnActivationReplyKeeps, SendConnectionRequestKeeps, ServerHandlesKeeps
        DEF ConnectNext, ConnectClient

-----------------------------------------------------------------------------
(* The clipboard channel.                                                  *)

LEMMA MembershipSteps == DialogInv /\ [ConnectNext]_connectVars => Membership' /\ joined \subseteq joined'
<1> SUFFICES ASSUME DialogInv, [ConnectNext]_connectVars PROVE Membership' /\ joined \subseteq joined'
  OBVIOUS
<1> USE DEF Past
<1>1. CASE OnConfirm \/ OnCertificate \/ OnChallenge \/ OnPubKeyAuth \/ OnConnectResponse
           \/ OnAttachUserConfirm \/ OnUserJoined \/ SendConnectionRequest
  <2>1. awaiting' \notin Past \cup {"joinClip"} /\ joined' = joined
    BY <1>1 DEF OnConfirm, OnCertificate, OnChallenge, OnPubKeyAuth, OnConnectResponse,
                OnAttachUserConfirm, OnUserJoined, SendConnectionRequest, Proceed, ServerSide
  <2> QED BY <2>1 DEF Membership
<1>2. CASE OnIOJoined
  <2>1. joined' = joined /\ cliprdr' = cliprdr
    BY <1>2 DEF OnIOJoined, Proceed, ServerSide
  <2>2. CASE cliprdr # 0 /\ Proceed("joinIO", <<Join(cliprdr)>>, "joinClip")
    <3>1. cliprdr = ClipChannel /\ cliprdr \in Channels
      BY <2>2, MessageTypes DEF DialogInv, IInv
    <3>2. Len(toServer') = 1 /\ toServer'[1].channel = cliprdr /\ toClient' = <<>>
      BY <1>2, <2>2, <3>1, TurnNames, AskToJoin DEF OnIOJoined, Question
    <3>3. awaiting' = "joinClip"
      BY <2>2 DEF Proceed
    <3> QED BY <2>1, <3>1, <3>2, <3>3 DEF Membership
  <2>3. CASE cliprdr = 0 /\ Proceed("joinIO", <<Msg("clientInfo")>>, "licence")
    <3>1. awaiting' = "licence"
      BY <2>3 DEF Proceed
    <3> QED BY <2>1, <2>3, <3>1 DEF Membership
  <2> QED BY <1>2, <2>2, <2>3 DEF OnIOJoined
<1>3. CASE OnClipJoined
  <2>1. /\ awaiting = "joinClip" /\ awaiting' = "licence" /\ joined' = joined
        /\ toClient # <<>> /\ cliprdr' = IF Head(toClient).ok THEN cliprdr ELSE 0
    BY <1>3 DEF OnClipJoined, Proceed, ServerSide, ChannelAfter
  <2>2. Head(toClient) = toClient[1]
    BY <2>1, QueueTypes
  <2> QED BY <2>1, <2>2 DEF DialogInv, Membership
<1>4. CASE OnLicence \/ OnDemandActive \/ OnActivationReply \/ OnFontMap
  <2>1. awaiting \in Past /\ awaiting' # "joinClip" /\ UNCHANGED <<joined, cliprdr>>
    BY <1>4 DEF OnLicence, OnDemandActive, OnActivationReply, OnFontMap, Proceed, ServerSide
  <2> QED BY <2>1 DEF DialogInv, Membership
<1>5. CASE AnswerRefused \/ ReadFails \/ DeadlinePasses
  <2>1. awaiting' = "closed" /\ joined' = joined
    BY <1>5 DEF AnswerRefused, ReadFails, DeadlinePasses, CloseConn, ServerSide
  <2> QED BY <2>1 DEF Membership
<1>6. CASE ServerStops \/ UNCHANGED connectVars
  <2>1. UNCHANGED <<awaiting, cliprdr, toServer, toClient, joined>>
    BY <1>6 DEF ServerStops, connectVars
  <2> QED BY <2>1 DEF DialogInv, Membership
<1>7. CASE ServerHandles
  <2>1. PICK rs \in Seq(AnswerSet) : LET m == toServer[1] IN
           /\ toClient = <<>> => toClient' = rs
           /\ joined' = IF m.kind = "join" /\ Head(rs).ok THEN joined \cup {m.channel} ELSE joined
           /\ UNCHANGED <<awaiting, cliprdr>>
    BY <1>7, Handled
  <2>2. joined \subseteq joined'
    BY <2>1
  <2>3. CASE awaiting = "joinClip"
    <3>1. /\ cliprdr = ClipChannel
          /\ toServer # <<>> => toServer[Len(toServer)].channel = ClipChannel
      BY <2>3 DEF DialogInv, Membership
    <3>2. ServersTurn("joinClip")
      BY <1>7, <2>3, TurnNames, ServersTurnPasses DEF DialogInv, Dialog, ClientsTurn
    <3>3. /\ toServer # <<>>
          /\ \/ /\ ServersTurn("joinClip")' /\ Len(toServer') \in Nat \ {0}
                /\ toServer'[Len(toServer')] = toServer[Len(toServer)]
             \/ ClientsTurn("joinClip")' /\ Len(toServer) = 1
      BY <1>7, <2>1, <2>3, TurnNames, ServersTurnPasses
    <3>4. CASE ServersTurn("joinClip")' /\ toServer'[Len(toServer')] = toServer[Len(toServer)]
      <4>1. toClient' = <<>>
        BY <3>4 DEF ServersTurn
      <4> QED BY <2>1, <2>2, <2>3, <3>1, <3>3, <3>4, <4>1 DEF Membership
    <3>5. CASE ClientsTurn("joinClip")' /\ Len(toServer) = 1
      <4>1. toServer[1].kind = "join" /\ toServer[1].channel = ClipChannel /\ toClient' = rs
        BY <2>1, <3>1, <3>2, <3>3, <3>5 DEF ServersTurn, Question
      <4>2. toClient' # <<>> /\ toServer' = <<>>
        BY <3>5 DEF ClientsTurn
      <4>3. Head(rs) = rs[1]
        BY <2>1, <4>1, <4>2
      <4>4. toClient'[1].ok => ClipChannel \in joined'
        BY <2>1, <4>1, <4>3
      <4> QED BY <2>1, <2>2, <2>3, <3>1, <4>2, <4>4 DEF Membership
    <3> QED BY <3>3, <3>4, <3>5
  <2>4. CASE awaiting # "joinClip"
    BY <2>1, <2>2, <2>4 DEF DialogInv, Membership
  <2> QED BY <2>3, <2>4
<1> QED BY <1>1, <1>2, <1>3, <1>4, <1>5, <1>6, <1>7 DEF ConnectNext, ConnectClient

LEMMA DialogKept == DialogInv /\ [ConnectNext]_connectVars => DialogInv'
  BY StepIInv, DialogSteps, MembershipSteps DEF DialogInv

LEMMA DialogInit == ConnectInit => DialogInv
<1> SUFFICES ASSUME ConnectInit PROVE DialogInv
  OBVIOUS
<1>1. IInv
  BY InitIInv
<1>2. Dialog /\ Membership
  BY DEF ConnectInit, Dialog, Membership, Turns, Answers, Past
<1> QED BY <1>1, <1>2 DEF DialogInv

\* A step of the clipboard, or of the connection beside it.
LEMMA ClipSteps == DialogInv /\ ClipInv /\ [Next]_vars => ClipInv'
<1> SUFFICES ASSUME DialogInv, ClipInv, [Next]_vars PROVE ClipInv'
  OBVIOUS
<1>1. CASE UNCHANGED clipVars
  <2>1. joined \subseteq joined'
    BY MembershipSteps DEF Next, ClipNext, vars
  <2> QED BY <1>1, <2>1 DEF ClipInv, clipVars
<1>2. CASE ClipNext /\ UNCHANGED connectVars
  <2>1. joined' = joined /\ awaiting = "live"
    BY <1>2 DEF connectVars, ClipNext
  <2>2. CASE SendClientCutText
    <3>1. cliprdr # 0
      BY <2>2 DEF SendClientCutText
    <3>2. ClipChannel \in joined
      BY <2>1, <3>1 DEF DialogInv, Membership, Past
    <3> QED BY <2>1, <3>2 DEF ClipInv
  <2>3. CASE MonitorReady
    BY <2>1, <2>3 DEF MonitorReady, ClipInv
  <2>4. CASE HandleChunk \/ RunWrites \/ InputWrites \/ ServerCopies \/ ServerPastes \/ ServerReadsChunk
    <3>1. ClipChannel \in joined
      BY <2>4 DEF HandleChunk, RunWrites, InputWrites, ServerCopies, ServerPastes, ServerReadsChunk, ClipInv
    <3> QED BY <2>1, <3>1 DEF ClipInv
  <2> QED BY <1>2, <2>2, <2>3, <2>4 DEF ClipNext, ClipClient, ClipServer
<1> QED BY <1>1, <1>2 DEF Next, vars

-----------------------------------------------------------------------------
(* The theorems.                                                           *)

\* Client and server take turns from the first message to the last.
THEOREM DialogHolds == Spec => []DialogInv
  BY SessionConnects, DialogInit, DialogKept, PTL DEF ConnectSpec

\* Whatever the server grants, neither side ever waits for the other while it
\* is waited for: finalize sends its three messages before the first reply.
THEOREM NobodyHangs == Spec => []NoMutualWait
<1>1. DialogInv => NoMutualWait
  <2> SUFFICES ASSUME DialogInv, awaiting \in Answers, toClient = <<>> PROVE toServer # <<>>
    BY DEF NoMutualWait
  <2>1. Len(toClient) = 0
    OBVIOUS
  <2>2. CASE awaiting \in Turns
    BY <2>2 DEF DialogInv, Dialog, ClientsTurn, ServersTurn
  <2>3. CASE awaiting = "demandActive"
    BY <2>1, <2>3 DEF DialogInv, Dialog
  <2>4. ASSUME NEW kind, UnderWay(kind) PROVE toServer # <<>>
    BY <2>4 DEF UnderWay
  <2>5. CASE awaiting = "activation"
    BY <2>1, <2>4, <2>5 DEF DialogInv, Dialog
  <2>6. CASE awaiting = "fontMap"
    BY <2>4, <2>6 DEF DialogInv, Dialog
  <2> QED BY <2>2, <2>3, <2>5, <2>6 DEF Turns
<1> QED BY <1>1, DialogHolds, PTL

\* Clipboard data goes only to a channel the server let the client join.
THEOREM ClipboardOnJoinedChannel == Spec => []NoStrayData
<1>1. Init => ClipInv
  BY DEF Init, ClipInv
<1>2. ClipInv => NoStrayData
  BY DEF ClipInv, NoStrayData
<1> QED BY <1>1, <1>2, DialogHolds, ClipSteps, PTL DEF Spec

-----------------------------------------------------------------------------
(* The types of the connection's state, the counts of replies among them.  *)

\* Which of the three messages before the replies a message is, 0 for others.
Stage(kind) ==
    CASE kind = "synchronize" -> 1 [] kind = "cooperate" -> 2 [] kind = "requestControl" -> 3
      [] OTHER -> 0

\* Each of the three is sent once and in turn, and has had no reply yet.
Staged ==
    /\ \A i \in 1 .. Len(toServer) : Stage(toServer[i].kind) # 0 => answered < Stage(toServer[i].kind)
    /\ \A i, j \in 1 .. Len(toServer) :
           i < j /\ Stage(toServer[i].kind) # 0 /\ Stage(toServer[j].kind) # 0
               => Stage(toServer[i].kind) < Stage(toServer[j].kind)

CountInv == ConnectTypeOK /\ Staged

LEMMA StageRange == \A kind : Stage(kind) \in 0 .. 3
  BY DEF Stage

LEMMA AnswerBound ==
  ASSUME NEW m \in MessageSet, NEW rs \in ServerAnswers(m), answered \in 0 .. 3
  PROVE  /\ Len(rs) \in Nat
         /\ m.kind \in {"synchronize", "cooperate"} => Len(rs) <= 1
         /\ m.kind = "requestControl" => Len(rs) = 3 - answered
<1>1. rs \in Seq(AnswerSet) /\ Len(rs) \in Nat
  BY ServerIsHonest
<1>2. ASSUME m.kind \in {"synchronize", "cooperate"} PROVE Len(rs) <= 1
  <2>1. rs = <<>> \/ rs \in Grants("activation", {TRUE})
    BY <1>2 DEF ServerAnswers
  <2>2. rs \in Grants("activation", {TRUE}) => Len(rs) = 1
    BY DEF Grants
  <2>3. rs = <<>> => Len(rs) = 0
    OBVIOUS
  <2> QED BY <2>1, <2>2, <2>3
<1>3. ASSUME m.kind = "requestControl" PROVE Len(rs) = 3 - answered
  <2>1. DOMAIN rs = 1 .. (3 - answered)
    BY <1>3 DEF ServerAnswers
  <2>2. DOMAIN rs = 1 .. Len(rs)
    BY <1>1
  <2> QED BY <1>1, <2>1, <2>2
<1> QED BY <1>1, <1>2, <1>3

\* Messages of other kinds join the queue.
LEMMA OthersKeepStages ==
  ASSUME DialogInv, Staged, NEW ms \in Seq(MessageSet), \A m \in Elems(ms) : Stage(m.kind) = 0,
         toServer' = toServer \o ms, answered' = answered
  PROVE  Staged'
<1>1. /\ Len(toServer) \in Nat /\ Len(ms) \in Nat /\ Len(toServer') = Len(toServer) + Len(ms)
      /\ \A i \in 1 .. Len(toServer) + Len(ms) :
             toServer'[i] = IF i <= Len(toServer) THEN toServer[i] ELSE ms[i - Len(toServer)]
  BY QueueTypes, ConcatProperties
<1>2. \A j \in 1 .. Len(ms) : Stage(ms[j].kind) = 0
  BY LenProperties DEF Elems
<1>3. ASSUME NEW i \in 1 .. Len(toServer'), Stage(toServer'[i].kind) # 0
      PROVE  i \in 1 .. Len(toServer) /\ toServer'[i] = toServer[i]
  <2>1. CASE i > Len(toServer)
    <3>1. i - Len(toServer) \in 1 .. Len(ms) /\ toServer'[i] = ms[i - Len(toServer)]
      BY <1>1, <2>1
    <3> QED BY <1>2, <1>3, <3>1
  <2> QED BY <1>1, <2>1
<1>4. \A i \in 1 .. Len(toServer') : Stage(toServer'[i].kind) # 0 => answered' < Stage(toServer'[i].kind)
  BY <1>3 DEF Staged
<1>5. \A i, j \in 1 .. Len(toServer') :
           i < j /\ Stage(toServer'[i].kind) # 0 /\ Stage(toServer'[j].kind) # 0
               => Stage(toServer'[i].kind) < Stage(toServer'[j].kind)
  BY <1>3 DEF Staged
<1> QED BY <1>4, <1>5 DEF Staged

\* The three are sent when the server has sent no reply.
LEMMA ThreeAreStaged ==
  ASSUME DialogInv, OnDemandActive
  PROVE  Staged'
<1> DEFINE ms == <<Msg("confirmActive")>> \o SentBeforeReply(1)
           a == Msg("confirmActive")
           b == Msg("synchronize")
           c == Msg("cooperate")
           d == Msg("requestControl")
<1>1. toServer = <<>> /\ answered = 0 /\ toServer' = toServer \o ms /\ answered' = answered
  BY DEF OnDemandActive, Proceed, Send, ServerSide, DialogInv, Dialog
<1>2. a \in MessageSet /\ b \in MessageSet /\ c \in MessageSet /\ d \in MessageSet
  BY MessageTypes, Kinds
<1>3. ms = <<a>> \o <<b, c, d>>
  BY DEF SentBeforeReply
<1>4. Stage(a.kind) = 0 /\ Stage(b.kind) = 1 /\ Stage(c.kind) = 2 /\ Stage(d.kind) = 3
  BY DEF Msg, Stage
<1> HIDE DEF a, b, c, d, ms
<1>5. ms \in Seq(MessageSet) /\ Len(ms) = 4 /\ ms[1] = a /\ ms[2] = b /\ ms[3] = c /\ ms[4] = d
  BY <1>2, <1>3, FourSent
<1>6. toServer' = ms
  BY <1>1, <1>5
<1>7. \A i \in 1 .. Len(ms) : Stage(ms[i].kind) = i - 1
  BY <1>4, <1>5
<1>8. /\ Len(toServer') = 4 /\ answered' = 0
      /\ \A i \in 1 .. Len(toServer') : Stage(toServer'[i].kind) = i - 1
  BY <1>1, <1>5, <1>6, <1>7
<1>9. \A i \in 1 .. Len(toServer') : Stage(toServer'[i].kind) # 0 => answered' < Stage(toServer'[i].kind)
  BY <1>8
<1>10. \A i, j \in 1 .. Len(toServer') :
           i < j /\ Stage(toServer'[i].kind) # 0 /\ Stage(toServer'[j].kind) # 0
               => Stage(toServer'[i].kind) < Stage(toServer'[j].kind)
  BY <1>8
<1> QED BY <1>9, <1>10 DEF Staged

\* The server reads the first of what is under way.
LEMMA ReadingKeepsCount ==
  ASSUME DialogInv, CountInv, ServerHandles
  PROVE  Staged' /\ answered' \in 0 .. 3 /\ joined' \subseteq Channels
<1> DEFINE m == Head(toServer)
<1>1. PICK rs \in ServerAnswers(m) :
         /\ joined' = IF m.kind = "join" /\ Head(rs).ok THEN joined \cup {m.channel} ELSE joined
         /\ answered' = IF m.kind \in {"synchronize", "cooperate", "requestControl"}
                        THEN answered + Len(rs) ELSE answered
  BY DEF ServerHandles
<1>2. /\ m \in MessageSet /\ m = toServer[1] /\ Len(toServer) \in Nat \ {0}
      /\ toServer' = Tail(toServer) /\ Len(toServer') = Len(toServer) - 1
      /\ \A i \in 1 .. Len(toServer') : i + 1 \in 1 .. Len(toServer) /\ toServer'[i] = toServer[i + 1]
  BY QueueTypes DEF ServerHandles
<1>3. answered \in 0 .. 3 /\ joined \subseteq Channels
  BY DEF CountInv, ConnectTypeOK
<1> HIDE DEF m
<1>4. joined' \subseteq Channels
  BY <1>1, <1>2, <1>3 DEF MessageSet
<1>5. /\ m.kind \in {"synchronize", "cooperate"} => Len(rs) \in 0 .. 1
      /\ m.kind = "requestControl" => Len(rs) = 3 - answered
  <2> DEFINE n == Len(rs)
  <2>1. m \in MessageSet /\ rs \in ServerAnswers(m) /\ answered \in 0 .. 3
    BY <1>1, <1>2, <1>3
  <2>2. /\ n \in Nat
        /\ m.kind \in {"synchronize", "cooperate"} => n <= 1
        /\ m.kind = "requestControl" => n = 3 - answered
    BY <2>1, AnswerBound
  <2> HIDE DEF n
  <2>3. n <= 1 => n \in 0 .. 1
    BY <2>2
  <2>4. m.kind \in {"synchronize", "cooperate"} => n \in 0 .. 1
    BY <2>2, <2>3, Zenon
  <2> QED BY <2>2, <2>4, Zenon DEF n
<1>6. Stage(m.kind) # 0 => answered < Stage(m.kind)
  BY <1>2 DEF CountInv, Staged
<1>7. CASE m.kind \in {"synchronize", "cooperate", "requestControl"}
  <2>1. Stage(m.kind) \in 1 .. 3 /\ answered' \in 0 .. 3 /\ answered' <= Stage(m.kind)
    <3>1. CASE m.kind = "synchronize"
      <4>1. Stage(m.kind) = 1
        BY <3>1 DEF Stage
      <4>2. answered' = answered + Len(rs) /\ Len(rs) \in 0 .. 1 /\ answered \in 0 .. 3
        BY <1>1, <1>3, <1>5, <3>1
      <4>3. answered < 1
        BY <1>6, <4>1
      <4> DEFINE n == Len(rs)
      <4>4. answered' = answered + n /\ n \in 0 .. 1
        BY <4>2
      <4> HIDE DEF n
      <4>5. answered' \in 0 .. 1
        BY <4>2, <4>3, <4>4
      <4> QED BY <4>1, <4>5
    <3>2. CASE m.kind = "cooperate"
      <4>1. Stage(m.kind) = 2
        BY <3>2 DEF Stage
      <4>2. answered' = answered + Len(rs) /\ Len(rs) \in 0 .. 1 /\ answered \in 0 .. 3
        BY <1>1, <1>3, <1>5, <3>2
      <4>3. answered < 2
        BY <1>6, <4>1
      <4> DEFINE n == Len(rs)
      <4>4. answered' = answered + n /\ n \in 0 .. 1
        BY <4>2
      <4> HIDE DEF n
      <4>5. answered' \in 0 .. 2
        BY <4>2, <4>3, <4>4
      <4> QED BY <4>1, <4>5
    <3>3. CASE m.kind = "requestControl"
      <4>1. Stage(m.kind) = 3
        BY <3>3 DEF Stage
      <4> QED BY <1>1, <1>3, <1>5, <1>6, <3>3, <4>1
    <3> QED BY <1>7, <3>1, <3>2, <3>3
  <2>2. \A i \in 2 .. Len(toServer) : Stage(toServer[i].kind) # 0 => Stage(m.kind) < Stage(toServer[i].kind)
    BY <1>2, <2>1 DEF CountInv, Staged
  <2>3. \A i \in 1 .. Len(toServer') : Stage(toServer'[i].kind) # 0 => answered' < Stage(toServer'[i].kind)
    <3> TAKE i \in 1 .. Len(toServer')
    <3>1. i + 1 \in 2 .. Len(toServer) /\ toServer'[i] = toServer[i + 1]
      BY <1>2
    <3> QED BY <2>1, <2>2, <3>1, StageRange
  <2> QED BY <1>2, <1>4, <2>1, <2>3 DEF CountInv, Staged
<1>8. CASE m.kind \notin {"synchronize", "cooperate", "requestControl"}
  BY <1>1, <1>2, <1>3, <1>4, <1>8 DEF CountInv, Staged
<1> QED BY <1>7, <1>8

\* The client's other messages.
LEMMA SendingKeepsStages ==
  ASSUME DialogInv, Staged, NEW w, NEW next, NEW ms, Proceed(w, ms, next),
         \/ ms = <<>>
         \/ \E k \in Messages : ms = <<Msg(k)>> /\ Stage(k) = 0
         \/ \E k, l \in Messages : ms = <<Msg(k), Msg(l)>> /\ Stage(k) = 0 /\ Stage(l) = 0
         \/ \E c \in Channels : ms = <<Join(c)>>
  PROVE  Staged'
<1>1. ms \in Seq(MessageSet) /\ \A m \in Elems(ms) : Stage(m.kind) = 0
  <2>1. CASE ms = <<>>
    BY <2>1, ShortElems
  <2>2. ASSUME NEW k \in Messages, ms = <<Msg(k)>>, Stage(k) = 0
        PROVE  ms \in Seq(MessageSet) /\ \A m \in Elems(ms) : Stage(m.kind) = 0
    BY <2>2, SentTypes
  <2>3. ASSUME NEW k \in Messages, NEW l \in Messages, ms = <<Msg(k), Msg(l)>>, Stage(k) = 0, Stage(l) = 0
        PROVE  ms \in Seq(MessageSet) /\ \A m \in Elems(ms) : Stage(m.kind) = 0
    BY <2>3, SentTypes
  <2>4. ASSUME NEW c \in Channels, ms = <<Join(c)>>
        PROVE  ms \in Seq(MessageSet) /\ \A m \in Elems(ms) : Stage(m.kind) = 0
    <3>1. Stage("join") = 0
      BY DEF Stage
    <3> QED BY <2>4, <3>1, SentTypes
  <2> QED BY <2>1, <2>2, <2>3, <2>4
<1>2. toServer' = toServer \o ms /\ answered' = answered
  BY DEF Proceed, Send, ServerSide
<1> QED BY <1>1, <1>2, OthersKeepStages

LEMMA StagesKept ==
  ASSUME DialogInv, CountInv, [ConnectNext]_connectVars
  PROVE  Staged'
<1>0. Staged
  BY DEF CountInv
<1>9. {"connectionSSL", "connectionHybrid", "hello", "negotiate", "authenticate", "pubKeyAuth", "authInfo",
       "connectInitial", "erectDomain", "attachUser", "clientInfo", "fontList"} \subseteq Messages
  BY DEF Messages
<1>1. CASE SendConnectionRequest
  <2>1. PICK k \in {"connectionSSL", "connectionHybrid"} : Send(<<Msg(k)>>)
    BY <1>1 DEF SendConnectionRequest
  <2>2. <<Msg(k)>> \in Seq(MessageSet) /\ \A m \in Elems(<<Msg(k)>>) : m.kind = k
    BY <1>9, SentTypes
  <2>3. Stage(k) = 0
    BY DEF Stage
  <2> DEFINE ms == <<Msg(k)>>
  <2>4. ms \in Seq(MessageSet) /\ (\A m \in Elems(ms) : Stage(m.kind) = 0) /\ toServer' = toServer \o ms
    BY <2>1, <2>2, <2>3 DEF Send
  <2> HIDE DEF ms
  <2> QED BY <1>0, <1>1, <2>4, OthersKeepStages DEF SendConnectionRequest, ServerSide
<1>2. CASE OnConfirm \/ OnCertificate \/ OnChallenge \/ OnPubKeyAuth
  <2>1. \A k \in {"hello", "negotiate", "connectInitial", "authenticate", "pubKeyAuth", "authInfo"} : Stage(k) = 0
    BY DEF Stage
  <2>2. CASE OnConfirm
    BY <1>0, <2>1, <2>2, <1>9, SendingKeepsStages DEF OnConfirm
  <2>3. CASE OnCertificate
    BY <1>0, <2>1, <2>3, <1>9, SendingKeepsStages DEF OnCertificate
  <2>4. CASE OnChallenge
    BY <1>0, <2>1, <2>4, <1>9, SendingKeepsStages DEF OnChallenge
  <2>5. CASE OnPubKeyAuth
    BY <1>0, <2>1, <2>5, <1>9, SendingKeepsStages DEF OnPubKeyAuth
  <2> QED BY <1>2, <2>2, <2>3, <2>4, <2>5
<1>3. CASE OnConnectResponse \/ OnAttachUserConfirm \/ OnUserJoined \/ OnIOJoined \/ OnClipJoined
  <2>1. \A k \in {"erectDomain", "attachUser", "clientInfo"} : Stage(k) = 0
    BY DEF Stage
  <2>2. UserID \in Channels /\ IOChannel \in Channels /\ cliprdr \in Channels
    BY MessageTypes DEF DialogInv, IInv
  <2>3. CASE OnConnectResponse
    BY <1>0, <2>1, <2>3, <1>9, SendingKeepsStages DEF OnConnectResponse
  <2>4. CASE OnAttachUserConfirm
    BY <1>0, <2>2, <2>4, <1>9, SendingKeepsStages DEF OnAttachUserConfirm
  <2>5. CASE OnUserJoined
    BY <1>0, <2>2, <2>5, <1>9, SendingKeepsStages DEF OnUserJoined
  <2>6. CASE OnIOJoined
    BY <1>0, <2>1, <2>2, <2>6, <1>9, SendingKeepsStages DEF OnIOJoined
  <2>7. CASE OnClipJoined
    BY <1>0, <2>1, <2>7, <1>9, SendingKeepsStages DEF OnClipJoined
  <2> QED BY <1>3, <2>3, <2>4, <2>5, <2>6, <2>7
<1>4. CASE OnLicence \/ OnFontMap
  BY <1>0, <1>4, <1>9, SendingKeepsStages DEF OnLicence, OnFontMap
<1>5. CASE OnDemandActive
  BY <1>5, ThreeAreStaged
<1>6. CASE OnActivationReply
  <2>1. Stage("fontList") = 0
    BY DEF Stage
  <2>2. awaiting = "activation" /\ replies \in 0 .. 2
    BY <1>6 DEF OnActivationReply, Proceed, DialogInv, Dialog
  <2>3. SentBeforeReply(replies + 2) = <<>>
    BY <2>2 DEF SentBeforeReply
  <2> QED BY <1>0, <1>6, <2>1, <2>3, <1>9, SendingKeepsStages DEF OnActivationReply
<1>7. CASE ServerHandles
  BY <1>7, ReadingKeepsCount
<1>8. CASE AnswerRefused \/ ReadFails \/ DeadlinePasses \/ ServerStops \/ UNCHANGED connectVars
  <2>1. UNCHANGED <<toServer, answered>>
    BY <1>8 DEF AnswerRefused, ReadFails, DeadlinePasses, CloseConn, ServerSide, ServerStops, connectVars
  <2> QED BY <1>0, <2>1 DEF Staged
<1> QED BY <1>1, <1>2, <1>3, <1>4, <1>5, <1>6, <1>7, <1>8 DEF ConnectNext, ConnectClient

\* Whatever the client does next, the rest of its state keeps its type.
LEMMA ClientTypes ==
  ASSUME DialogInv, ConnectTypeOK, [ConnectNext]_connectVars
  PROVE  /\ awaiting' \in Answers \cup {"dialed", "live", "closed"}
         /\ nla' \in BOOLEAN /\ deadline' \in BOOLEAN /\ replies' \in 0 .. 3
         /\ peer' \in {"genuine", "relay", "impostor"} /\ link' \in {"up", "silent", "lost"}
<1>1. /\ awaiting \in Answers \cup {"dialed", "live", "closed"}
      /\ nla \in BOOLEAN /\ deadline \in BOOLEAN /\ replies \in 0 .. 3
      /\ peer \in {"genuine", "relay", "impostor"} /\ link \in {"up", "silent", "lost"}
  BY DEF ConnectTypeOK
<1>2. CASE \/ SendConnectionRequest \/ OnConfirm \/ OnCertificate \/ OnChallenge \/ OnPubKeyAuth
           \/ OnConnectResponse \/ OnAttachUserConfirm \/ OnUserJoined \/ OnIOJoined \/ OnClipJoined
           \/ OnLicence \/ OnDemandActive
  <2>1. awaiting' \in Answers
    BY <1>2 DEF SendConnectionRequest, OnConfirm, OnCertificate, OnChallenge, OnPubKeyAuth, OnConnectResponse,
                OnAttachUserConfirm, OnUserJoined, OnIOJoined, OnClipJoined, OnLicence, OnDemandActive, Proceed,
                Answers
  <2>2. nla' \in BOOLEAN /\ UNCHANGED <<replies, deadline, peer, link>>
    BY <1>1, <1>2 DEF SendConnectionRequest, OnConfirm, OnCertificate, OnChallenge, OnPubKeyAuth,
                      OnConnectResponse, OnAttachUserConfirm, OnUserJoined, OnIOJoined, OnClipJoined, OnLicence,
                      OnDemandActive, Proceed, ServerSide
  <2> QED BY <1>1, <2>1, <2>2
<1>3. CASE OnActivationReply
  <2>1. awaiting = "activation" /\ replies \in 0 .. 2
    BY <1>3 DEF OnActivationReply, Proceed, DialogInv, Dialog
  <2>2. awaiting' \in Answers
    BY <1>3 DEF OnActivationReply, Proceed, Answers
  <2>3. replies' = replies + 1 /\ UNCHANGED <<nla, deadline, peer, link>>
    BY <1>3 DEF OnActivationReply, Proceed, ServerSide
  <2> QED BY <1>1, <2>1, <2>2, <2>3
<1>4. CASE OnFontMap
  BY <1>1, <1>4 DEF OnFontMap, Proceed, ServerSide, DeadlineWhenLive
<1>5. CASE AnswerRefused \/ ReadFails \/ DeadlinePasses
  BY <1>1, <1>5 DEF AnswerRefused, ReadFails, DeadlinePasses, CloseConn, ServerSide
<1>6. CASE ServerHandles \/ ServerStops \/ UNCHANGED connectVars
  BY <1>1, <1>6 DEF ServerHandles, ServerStops, connectVars
<1> QED BY <1>2, <1>3, <1>4, <1>5, <1>6 DEF ConnectNext, ConnectClient

LEMMA CountSteps == DialogInv /\ CountInv /\ [ConnectNext]_connectVars => CountInv'
<1> SUFFICES ASSUME DialogInv, CountInv, [ConnectNext]_connectVars PROVE CountInv'
  OBVIOUS
<1>1. ConnectTypeOK /\ Staged'
  BY StagesKept DEF CountInv
<1>2. /\ awaiting' \in Answers \cup {"dialed", "live", "closed"}
      /\ nla' \in BOOLEAN /\ deadline' \in BOOLEAN /\ replies' \in 0 .. 3
      /\ peer' \in {"genuine", "relay", "impostor"} /\ link' \in {"up", "silent", "lost"}
  BY <1>1, ClientTypes
<1>3. cliprdr' \in {0, ClipChannel} /\ toServer' \in Seq(MessageSet) /\ toClient' \in Seq(AnswerSet)
  BY StepIInv DEF DialogInv, IInv, QueueInv
<1>4. answered' \in 0 .. 3 /\ joined' \subseteq Channels
  <2>1. CASE ServerHandles
    BY <2>1, ReadingKeepsCount
  <2>2. CASE ~ServerHandles
    <3>1. UNCHANGED <<answered, joined>>
      BY <2>2 DEF ConnectNext, ConnectClient, SendConnectionRequest, OnConfirm, OnCertificate, OnChallenge,
                  OnPubKeyAuth, OnConnectResponse, OnAttachUserConfirm, OnUserJoined, OnIOJoined, OnClipJoined,
                  OnLicence, OnDemandActive, OnActivationReply, OnFontMap, Proceed, AnswerRefused, ReadFails,
                  DeadlinePasses, CloseConn, ServerStops, ServerSide, connectVars
    <3> QED BY <1>1, <3>1 DEF ConnectTypeOK
  <2> QED BY <2>1, <2>2
<1> QED BY <1>1, <1>2, <1>3, <1>4 DEF CountInv, ConnectTypeOK, MessageSet, AnswerSet

LEMMA CountInit == ConnectInit => CountInv
<1> SUFFICES ASSUME ConnectInit PROVE CountInv
  OBVIOUS
<1>1. Len(toServer) = 0 /\ toServer \in Seq(MessageSet) /\ toClient \in Seq(AnswerSet)
  BY DEF ConnectInit
<1>2. ConnectTypeOK
  <2>1. toServer \in Seq([kind : Messages, channel : Channels]) /\ toClient \in Seq([kind : AnswerKinds, ok : BOOLEAN])
    BY <1>1 DEF MessageSet, AnswerSet
  <2>2. /\ awaiting \in Answers \cup {"dialed", "live", "closed"} /\ nla \in BOOLEAN /\ deadline \in BOOLEAN
        /\ cliprdr \in {0, ClipChannel} /\ replies \in 0 .. 3 /\ answered \in 0 .. 3
        /\ peer \in {"genuine", "relay", "impostor"} /\ link \in {"up", "silent", "lost"}
        /\ joined \subseteq Channels
    <3>1. /\ awaiting = "dialed" /\ nla = FALSE /\ deadline = TRUE /\ cliprdr = 0 /\ replies = 0
          /\ answered = 0 /\ link = "up" /\ joined = {} /\ peer \in {"genuine", "relay", "impostor"}
      BY DEF ConnectInit
    <3>2. awaiting \in Answers \cup {"dialed", "live", "closed"}
      BY <3>1
    <3>3. nla \in BOOLEAN /\ deadline \in BOOLEAN
      BY <3>1
    <3>4. cliprdr \in {0, ClipChannel} /\ replies \in 0 .. 3 /\ answered \in 0 .. 3
      BY <3>1
    <3>5. joined \subseteq Channels /\ link \in {"up", "silent", "lost"}
      BY <3>1
    <3> QED BY <3>1, <3>2, <3>3, <3>4, <3>5
  <2> QED BY <2>1, <2>2 DEF ConnectTypeOK
<1> QED BY <1>1, <1>2 DEF CountInv, Staged

\* The state of the connection keeps its type; of the counts of activation
\* replies that says that there are never more than three, which the server
\* owes to the messages finalize sends once each.
THEOREM ConnectTypes == Spec => []ConnectTypeOK
<1>1. Init => CountInv
  BY CountInit DEF Init
<1>2. DialogInv /\ CountInv /\ [Next]_vars => CountInv'
  <2>1. [Next]_vars => [ConnectNext]_connectVars
    BY DEF Next, vars, connectVars
  <2> QED BY <2>1, CountSteps
<1>3. CountInv => ConnectTypeOK
  BY DEF CountInv
<1> QED BY <1>1, <1>2, <1>3, DialogHolds, PTL DEF Spec

-----------------------------------------------------------------------------
(* The clipboard, for texts of any number of chunks: what the client hands *)
(* to the browser is never pieced together wrongly, a paste on the server  *)
(* is never older than its offer, and when all is quiet the server offers  *)
(* the text the user shared last.                                          *)
(*                                                                         *)
(* Towards the client whole messages follow each other, so the chunks form *)
(* a stream in which each tells what the next one is.  Towards the server  *)
(* the chunks of two goroutines mix; there the argument is about the one   *)
(* request for data, or the one answer to it, that is under way at a time, *)
(* and about lists, which are what announces.  The server's Monitor Ready  *)
(* brings forth one empty list, which the user's own lists must not        *)
(* precede; after it, the last list on its way, or else the offer in       *)
(* force, is of the last text.                                             *)

\* The chunks of messages that are not garbled.
Whole == [kind : PduKinds \ {"garbled"}, text : Texts]
Pieces == {c \in [pdu : Whole, part : Nat \ {0}, of : Nat \ {0}] :
              /\ c.part <= c.of
              /\ c.pdu.kind # "formatDataResponse" => c.of = 1}

Piece(c, n) == [c EXCEPT !.part = n]
First(c, n) == [i \in 1 .. n |-> Piece(c, i)]

\* Each chunk tells the next one, and the last message is complete.
Stream(q) ==
    /\ q \in Seq(Pieces)
    /\ \A i \in 1 .. Len(q) - 1 :
           IF q[i].part = q[i].of THEN q[i + 1].part = 1 ELSE q[i + 1] = Piece(q[i], q[i].part + 1)
    /\ Len(q) > 0 => q[Len(q)].part = q[Len(q)].of

\* The buffer holds the chunks before the first of the stream.
Buffered ==
    \/ vcBuf = <<>> /\ (vcToClient # <<>> => vcToClient[1].part = 1)
    \/ /\ vcToClient # <<>> /\ vcToClient[1].part > 1
       /\ vcBuf = First(vcToClient[1], vcToClient[1].part - 1)

StreamInv ==
    /\ srvText \in Texts /\ local \in Texts
    /\ Stream(vcToClient) /\ Buffered

-----------------------------------------------------------------------------
(* Chunks and messages.                                                    *)

LEMMA ChunksFromFunction ==
  ASSUME NEW S, NEW n \in Nat, NEW f \in [1 .. n -> S]
  PROVE  f \in Seq(S) /\ Len(f) = n
  BY SeqDef

LEMMA PieceIs ==
  ASSUME NEW c \in Pieces, NEW n \in Nat
  PROVE  /\ Piece(c, n).pdu = c.pdu /\ Piece(c, n).of = c.of /\ Piece(c, n).part = n
         /\ \A m \in Nat : Piece(Piece(c, n), m) = Piece(c, m)
         /\ c.part = n => Piece(c, n) = c
         /\ n \in 1 .. c.of => Piece(c, n) \in Pieces
<1>1. /\ c = [pdu |-> c.pdu, part |-> c.part, of |-> c.of]
      /\ c.pdu \in Whole /\ c.part \in Nat \ {0} /\ c.of \in Nat \ {0}
      /\ c.pdu.kind # "formatDataResponse" => c.of = 1
  BY DEF Pieces
<1>2. \A m \in Nat : Piece(c, m) = [pdu |-> c.pdu, part |-> m, of |-> c.of]
  BY <1>1 DEF Piece
<1>3. \A m \in Nat : Piece(Piece(c, n), m) = [pdu |-> c.pdu, part |-> m, of |-> c.of]
  BY <1>2 DEF Piece
<1>4. Piece(c, n).pdu = c.pdu /\ Piece(c, n).of = c.of /\ Piece(c, n).part = n
  BY <1>2
<1>5. c.part = n => Piece(c, n) = c
  BY <1>1, <1>2
<1>6. ASSUME n \in 1 .. c.of PROVE Piece(c, n) \in Pieces
  <2>1. n \in Nat \ {0} /\ n <= c.of
    BY <1>1, <1>6
  <2> QED BY <1>1, <1>2, <2>1 DEF Pieces
<1> QED BY <1>2, <1>3, <1>4, <1>5, <1>6

\* The chunks of a message that is sent.
LEMMA SplitStream ==
  ASSUME NEW p \in Whole, NEW n \in Nat \ {0}
  PROVE  LET s == Split(p, n)
         IN  /\ Stream(s) /\ Len(s) \in Nat \ {0} /\ s[1].part = 1
             /\ \A i \in 1 .. Len(s) : s[i].pdu = p /\ s[i].part = i /\ s[i].of = Len(s)
<1> DEFINE k == IF p.kind = "formatDataResponse" THEN n ELSE 1
           s == [i \in 1 .. k |-> [pdu |-> p, part |-> i, of |-> k]]
<1>1. Split(p, n) = s
  BY DEF Split
<1>2. k \in Nat \ {0} /\ (p.kind # "formatDataResponse" => k = 1)
  OBVIOUS
<1> HIDE DEF k
<1>3. \A i \in 1 .. k : s[i] = [pdu |-> p, part |-> i, of |-> k] /\ s[i] \in Pieces
  BY <1>2 DEF Pieces
<1>4. s \in [1 .. k -> Pieces]
  BY <1>3
<1>5. s \in Seq(Pieces) /\ Len(s) = k
  BY <1>2, <1>4, SeqDef
<1>6. \A i \in 1 .. k : s[i].pdu = p /\ s[i].part = i /\ s[i].of = k
  BY <1>3
<1>7. ASSUME NEW i \in 1 .. k - 1 PROVE s[i].part # s[i].of /\ s[i + 1] = Piece(s[i], s[i].part + 1)
  <2>1. i \in 1 .. k /\ i + 1 \in 1 .. k
    BY <1>2
  <2>2. s[i] = [pdu |-> p, part |-> i, of |-> k] /\ s[i + 1] = [pdu |-> p, part |-> i + 1, of |-> k]
    BY <1>3, <2>1
  <2> HIDE DEF s
  <2> QED BY <1>2, <2>1, <2>2 DEF Piece
<1> HIDE DEF s
<1>8. Stream(s)
  <2>1. s[Len(s)].part = s[Len(s)].of
    BY <1>2, <1>5, <1>6
  <2>2. \A i \in 1 .. Len(s) - 1 :
           IF s[i].part = s[i].of THEN s[i + 1].part = 1 ELSE s[i + 1] = Piece(s[i], s[i].part + 1)
    BY <1>5, <1>7
  <2> QED BY <1>5, <2>1, <2>2 DEF Stream
<1> QED BY <1>1, <1>2, <1>5, <1>6, <1>8

\* A message follows those under way.
LEMMA StreamGrows ==
  ASSUME NEW q, NEW s, Stream(q), Stream(s), Len(s) > 0 => s[1].part = 1
  PROVE  /\ Stream(q \o s)
         /\ q # <<>> => q \o s # <<>> /\ (q \o s)[1] = q[1]
         /\ q = <<>> => q \o s = s
<1>1. /\ q \in Seq(Pieces) /\ s \in Seq(Pieces) /\ Len(q) \in Nat /\ Len(s) \in Nat
  BY DEF Stream
<1> DEFINE r == q \o s
<1>2. /\ r \in Seq(Pieces) /\ Len(r) = Len(q) + Len(s)
      /\ \A i \in 1 .. Len(q) + Len(s) : r[i] = IF i <= Len(q) THEN q[i] ELSE s[i - Len(q)]
  BY <1>1, ConcatProperties
<1>3. q = <<>> => r = s
  BY <1>1
<1> HIDE DEF r
<1>4. \A i \in 1 .. Len(q) : r[i] = q[i]
  BY <1>1, <1>2
<1>5. \A i \in 1 .. Len(s) : r[Len(q) + i] = s[i]
  BY <1>1, <1>2
<1>6. ASSUME NEW i \in 1 .. Len(r) - 1
      PROVE  IF r[i].part = r[i].of THEN r[i + 1].part = 1 ELSE r[i + 1] = Piece(r[i], r[i].part + 1)
  <2>1. CASE i < Len(q)
    <3>1. i \in 1 .. Len(q) - 1 /\ r[i] = q[i] /\ r[i + 1] = q[i + 1]
      BY <1>1, <1>2, <1>4, <2>1
    <3> QED BY <3>1 DEF Stream
  <2>2. CASE i = Len(q)
    <3>1. r[i] = q[Len(q)] /\ r[i + 1] = s[1] /\ Len(q) > 0 /\ Len(s) > 0
      BY <1>1, <1>2, <1>4, <1>5, <2>2
    <3>2. q[Len(q)].part = q[Len(q)].of
      BY <3>1 DEF Stream
    <3> QED BY <3>1, <3>2
  <2>3. CASE i > Len(q)
    <3>1. i - Len(q) \in 1 .. Len(s) - 1 /\ r[i] = s[i - Len(q)] /\ r[i + 1] = s[(i - Len(q)) + 1]
      BY <1>1, <1>2, <2>3
    <3> QED BY <3>1 DEF Stream
  <2> QED BY <1>1, <2>1, <2>2, <2>3
<1>7. Len(r) > 0 => r[Len(r)].part = r[Len(r)].of
  <2>1. CASE Len(s) > 0
    <3>1. r[Len(r)] = s[Len(s)]
      BY <1>1, <1>2, <2>1
    <3> QED BY <2>1, <3>1 DEF Stream
  <2>2. CASE Len(s) = 0
    <3>1. Len(r) = Len(q) /\ (Len(r) > 0 => r[Len(r)] = q[Len(q)])
      BY <1>1, <1>2, <2>2
    <3> QED BY <3>1 DEF Stream
  <2> QED BY <1>1, <2>1, <2>2
<1>8. Stream(r)
  BY <1>2, <1>6, <1>7 DEF Stream
<1>9. q # <<>> => r # <<>> /\ r[1] = q[1]
  <2> SUFFICES ASSUME q # <<>> PROVE r # <<>> /\ r[1] = q[1]
    OBVIOUS
  <2>1. Len(q) > 0
    BY <1>1
  <2> QED BY <1>1, <1>2, <1>4, <2>1
<1> QED BY <1>3, <1>8, <1>9 DEF r

\* With the next chunk the buffer holds the chunks up to it, which make up the
\* message when the chunk is the last.
LEMMA Collected ==
  ASSUME StreamInv, vcToClient # <<>>
  PROVE  LET h == Head(vcToClient)
             buf == Collect(vcBuf, h)
         IN  /\ h = vcToClient[1] /\ h \in Pieces
             /\ buf = First(h, h.part)
             /\ IsLast(h) => Message(buf) = h.pdu
<1> DEFINE h == Head(vcToClient)
           buf == Collect(vcBuf, h)
<1>1. h = vcToClient[1] /\ h \in Pieces
  BY DEF StreamInv, Stream
<1>2. h.part \in Nat \ {0} /\ h.of \in Nat \ {0} /\ h.part <= h.of
  BY <1>1 DEF Pieces
<1> HIDE DEF h
<1>3. buf = First(h, h.part)
  <2>1. CASE h.part = 1
    <3>1. Piece(h, 1) = h
      BY <1>1, <2>1, PieceIs
    <3>2. First(h, 1) = <<h>>
      BY <3>1 DEF First
    <3> QED BY <2>1, <3>2 DEF Collect
  <2>2. CASE h.part # 1
    <3>1. vcBuf = First(h, h.part - 1)
      BY <1>1, <2>2 DEF StreamInv, Buffered
    <3> DEFINE n == h.part - 1
    <3>2. n \in Nat /\ h.part = n + 1 /\ n + 1 \in Nat
      BY <1>2
    <3>4. vcBuf = First(h, n)
      BY <3>1
    <3> HIDE DEF n
    <3>3. Append(First(h, n), h) = First(h, n + 1)
      <4> DEFINE q == First(h, n)
                 r == First(h, n + 1)
      <4>0. \A i \in 1 .. n + 1 : Piece(h, i) \in Pieces
        BY <1>1, <1>2, <3>2, PieceIs
      <4>1. /\ q \in [1 .. n -> Pieces] /\ \A i \in 1 .. n : q[i] = Piece(h, i)
            /\ r \in [1 .. n + 1 -> Pieces] /\ \A i \in 1 .. n + 1 : r[i] = Piece(h, i)
        BY <3>2, <4>0 DEF First
      <4>2. q \in Seq(Pieces) /\ Len(q) = n /\ r \in Seq(Pieces) /\ Len(r) = n + 1
        BY <3>2, <4>1, ChunksFromFunction
      <4>3. Piece(h, n + 1) = h
        BY <1>1, <3>2, PieceIs
      <4> HIDE DEF q, r
      <4>4. /\ Append(q, h) \in Seq(Pieces) /\ Len(Append(q, h)) = n + 1
            /\ \A i \in 1 .. n + 1 : Append(q, h)[i] = r[i]
        BY <1>1, <3>2, <4>1, <4>2, <4>3
      <4>5. Append(q, h) = r
        BY <4>2, <4>4
      <4> QED BY <4>5 DEF q, r
    <3> QED BY <2>2, <3>2, <3>3, <3>4 DEF Collect
  <2> QED BY <2>1, <2>2
<1>4. ASSUME IsLast(h) PROVE Message(buf) = h.pdu
  <2>1. h.part = h.of /\ buf = First(h, h.of)
    BY <1>3, <1>4 DEF IsLast
  <2>2. \A i \in 1 .. h.of : Piece(h, i) \in Pieces
    BY <1>1, <1>2, PieceIs
  <2>3. First(h, h.of) \in [1 .. h.of -> Pieces] /\ First(h, h.of)[1] = Piece(h, 1)
    BY <1>2, <2>2 DEF First
  <2>4. Head(First(h, h.of)) = Piece(h, 1)
    <3>1. First(h, h.of) \in Seq(Pieces) /\ Len(First(h, h.of)) = h.of
      BY <1>2, <2>3, SeqDef
    <3> QED BY <1>2, <2>3, <3>1
  <2> DEFINE c == Piece(h, 1)
  <2>5. c.of = h.of /\ c.pdu = h.pdu /\ \A i \in Nat : Piece(c, i) = Piece(h, i)
    BY <1>1, PieceIs
  <2>6. [i \in 1 .. c.of |-> [c EXCEPT !.part = i]] = First(h, h.of)
    BY <2>5 DEF First, Piece
  <2> HIDE DEF c
  <2>7. Head(buf) = c
    BY <2>1, <2>4 DEF c
  <2> QED BY <2>1, <2>5, <2>6, <2>7 DEF Message
<1> QED BY <1>1, <1>3, <1>4 DEF h

-----------------------------------------------------------------------------
(* The stream towards the client.                                          *)

\* The rest of a stream whose first chunk was read.
LEMMA StreamShrinks ==
  ASSUME NEW q, Stream(q), q # <<>>
  PROVE  LET h == Head(q)
         IN  /\ Stream(Tail(q))
             /\ h.part = h.of /\ Tail(q) # <<>> => Tail(q)[1].part = 1
             /\ h.part # h.of => Tail(q) # <<>> /\ Tail(q)[1] = Piece(h, h.part + 1)
<1> DEFINE t == Tail(q)
<1>1. /\ q \in Seq(Pieces) /\ t \in Seq(Pieces) /\ Len(q) \in Nat \ {0} /\ Len(t) = Len(q) - 1
      /\ Head(q) = q[1] /\ \A i \in 1 .. Len(t) : t[i] = q[i + 1]
  BY HeadTailProperties DEF Stream
<1> HIDE DEF t
<1>2. ASSUME NEW i \in 1 .. Len(t) - 1
      PROVE  IF t[i].part = t[i].of THEN t[i + 1].part = 1 ELSE t[i + 1] = Piece(t[i], t[i].part + 1)
  <2>1. i + 1 \in 1 .. Len(q) - 1 /\ t[i] = q[i + 1] /\ t[i + 1] = q[(i + 1) + 1]
    BY <1>1
  <2> QED BY <2>1 DEF Stream
<1>3. Len(t) > 0 => t[Len(t)] = q[Len(q)]
  BY <1>1
<1>4. Stream(t)
  BY <1>1, <1>2, <1>3 DEF Stream
<1>5. t # <<>> => 1 \in 1 .. Len(q) - 1 /\ t[1] = q[1 + 1]
  BY <1>1
<1>6. t = <<>> => Len(q) = 1
  BY <1>1
<1>7. t = <<>> => q[1].part = q[1].of
  <2>1. Len(q) > 0 => q[Len(q)].part = q[Len(q)].of
    BY DEF Stream
  <2>2. t = <<>> => q[Len(q)] = q[1]
    BY <1>6
  <2>3. Len(q) > 0
    BY <1>1
  <2> QED BY <2>1, <2>2, <2>3
<1> QED BY <1>1, <1>4, <1>5, <1>7 DEF Stream, t

LEMMA WholeMessages ==
  /\ \A kind \in PduKinds \ {"garbled"}, text \in Texts : Pdu(kind, text) \in Whole
  /\ 0 \in Texts
  BY SessionAssumption DEF Pdu, Whole, Texts

\* The server appends whole messages.
LEMMA ServerSends ==
  ASSUME StreamInv, NEW p \in Whole,
         vcToClient' = vcToClient \o FromServer(p), vcBuf' = vcBuf,
         srvText' \in Texts, local' = local
  PROVE  StreamInv'
<1> DEFINE s == FromServer(p)
<1>1. Stream(s) /\ Len(s) \in Nat \ {0} /\ s[1].part = 1
  BY SplitStream, SessionAssumption DEF FromServer
<1> HIDE DEF s
<1>2. vcToClient' = vcToClient \o s
  BY DEF s
<1>3. Stream(vcToClient)
  BY DEF StreamInv
<1>4. /\ Stream(vcToClient')
      /\ vcToClient # <<>> => vcToClient' # <<>> /\ vcToClient'[1] = vcToClient[1]
      /\ vcToClient = <<>> => vcToClient' = s
  <2>1. Len(s) > 0 => s[1].part = 1
    BY <1>1
  <2>2. /\ Stream(vcToClient \o s)
        /\ vcToClient # <<>> => vcToClient \o s # <<>> /\ (vcToClient \o s)[1] = vcToClient[1]
        /\ vcToClient = <<>> => vcToClient \o s = s
    BY <1>1, <1>3, <2>1, StreamGrows
  <2> QED BY <1>2, <2>2
<1>5. Buffered'
  <2>1. CASE vcToClient = <<>>
    BY <1>1, <1>4, <2>1 DEF StreamInv, Buffered
  <2>2. CASE vcToClient # <<>>
    BY <1>4, <2>2 DEF StreamInv, Buffered
  <2> QED BY <2>1, <2>2
<1> QED BY <1>4, <1>5 DEF StreamInv

LEMMA HandleChunkKeepsStream ==
  ASSUME StreamInv, HandleChunk
  PROVE  StreamInv'
<1> DEFINE h == Head(vcToClient)
           buf == Collect(vcBuf, h)
<1>1. /\ vcToClient # <<>> /\ vcToClient' = Tail(vcToClient) /\ srvText' = srvText
      /\ IF IsLast(h) THEN vcBuf' = <<>> /\ local' = Cut(Message(buf))
                      ELSE vcBuf' = buf /\ local' = local
  BY DEF HandleChunk, RunUnchanged
<1>2. h \in Pieces /\ buf = First(h, h.part) /\ (IsLast(h) => Message(buf) = h.pdu)
  BY <1>1, Collected
<1>3. /\ Stream(vcToClient')
      /\ h.part = h.of /\ vcToClient' # <<>> => vcToClient'[1].part = 1
      /\ h.part # h.of => vcToClient' # <<>> /\ vcToClient'[1] = Piece(h, h.part + 1)
  BY <1>1, StreamShrinks DEF StreamInv
<1> HIDE DEF h, buf
<1>4. h.part \in Nat \ {0} /\ h.of \in Nat \ {0} /\ h.pdu \in Whole
  BY <1>2 DEF Pieces
<1>5. local' \in Texts
  <2>1. h.pdu.kind # "garbled" /\ h.pdu.text \in Texts
    BY <1>4 DEF Whole
  <2> QED BY <1>1, <1>2, <2>1 DEF StreamInv, Cut
<1>6. Buffered'
  <2>1. CASE IsLast(h)
    BY <1>1, <1>3, <2>1 DEF Buffered, IsLast
  <2>2. CASE ~IsLast(h)
    <3> DEFINE c == vcToClient'[1]
    <3>1. vcToClient' # <<>> /\ c = Piece(h, h.part + 1)
      BY <1>3, <2>2 DEF IsLast
    <3> HIDE DEF c
    <3>2. h.part + 1 \in Nat
      BY <1>4
    <3>3. c.part = h.part + 1 /\ \A i \in Nat : Piece(c, i) = Piece(h, i)
      BY <1>2, <3>1, <3>2, PieceIs
    <3>4. c.part > 1 /\ c.part - 1 = h.part
      BY <1>4, <3>3
    <3>5. First(c, h.part) = First(h, h.part)
      BY <1>4, <3>3 DEF First
    <3>6. vcBuf' = First(c, c.part - 1)
      BY <1>1, <1>2, <2>2, <3>4, <3>5
    <3> QED BY <3>1, <3>4, <3>6 DEF Buffered, c
  <2> QED BY <2>1, <2>2
<1> QED BY <1>1, <1>3, <1>5, <1>6 DEF StreamInv

\* What the server sends in reply is nothing or one message.
LEMMA RepliesWhole ==
  ASSUME srvText \in Texts, NEW p
  PROVE  ServerReply(p) = <<>> \/ \E r \in Whole : ServerReply(p) = FromServer(r)
<1>1. /\ Pdu("formatListResponse", 0) \in Whole
      /\ Pdu("formatDataResponse", IF owner = "server" THEN srvText ELSE 0) \in Whole
  BY WholeMessages DEF PduKinds
<1> QED BY <1>1 DEF ServerReply

LEMMA StreamSteps == StreamInv /\ [Next]_vars => StreamInv'
<1> SUFFICES ASSUME StreamInv, [Next]_vars PROVE StreamInv'
  OBVIOUS
<1>1. CASE UNCHANGED clipVars
  BY <1>1 DEF clipVars, StreamInv, Stream, Buffered
<1>2. CASE HandleChunk
  BY <1>2, HandleChunkKeepsStream
<1>3. CASE RunWrites \/ InputWrites \/ SendClientCutText
  <2>1. UNCHANGED <<vcBuf, local, vcToClient, srvText>>
    BY <1>3 DEF RunWrites, InputWrites, SendClientCutText
  <2> QED BY <2>1 DEF StreamInv, Stream, Buffered
<1>4. CASE MonitorReady
  <2>1. Pdu("monitorReady", 0) \in Whole
    BY WholeMessages DEF PduKinds
  <2> QED BY <1>4, <2>1, ServerSends DEF MonitorReady, ServerKeeps, StreamInv
<1>5. CASE ServerCopies
  <2>1. srvText' = srvText + 1 /\ srvText' \in Texts
    BY <1>5, SessionAssumption DEF ServerCopies, StreamInv, Texts
  <2>2. Pdu("formatList", srvText + 1) \in Whole
    BY <2>1, WholeMessages DEF PduKinds
  <2> QED BY <1>5, <2>1, <2>2, ServerSends DEF ServerCopies, ServerKeeps
<1>6. CASE ServerPastes
  <2>1. Pdu("formatDataRequest", 0) \in Whole
    BY WholeMessages DEF PduKinds
  <2> QED BY <1>6, <2>1, ServerSends DEF ServerPastes, ServerKeeps, StreamInv
<1>7. CASE ServerReadsChunk
  <2>1. UNCHANGED <<vcBuf, local, srvText>> /\ srvText \in Texts
    BY <1>7 DEF ServerReadsChunk, ServerKeeps, StreamInv
  <2>2. vcToClient' = vcToClient \/ \E p : vcToClient' = vcToClient \o ServerReply(p)
    BY <1>7 DEF ServerReadsChunk, ServerHandlesPdu
  <2>3. CASE vcToClient' = vcToClient
    BY <2>1, <2>3 DEF StreamInv, Stream, Buffered
  <2>4. CASE \E p : vcToClient' = vcToClient \o ServerReply(p)
    <3>1. PICK p : vcToClient' = vcToClient \o ServerReply(p)
      BY <2>4
    <3>2. CASE ServerReply(p) = <<>>
      <4>1. vcToClient' = vcToClient
        BY <3>1, <3>2 DEF StreamInv, Stream
      <4> QED BY <2>3, <4>1
    <3>3. CASE \E r \in Whole : ServerReply(p) = FromServer(r)
      BY <2>1, <3>1, <3>3, ServerSends
    <3> QED BY <2>1, <3>2, <3>3, RepliesWhole
  <2> QED BY <2>2, <2>3, <2>4
<1> QED BY <1>1, <1>2, <1>3, <1>4, <1>5, <1>6, <1>7 DEF Next, ClipNext, ClipClient, ClipServer, vars

LEMMA StreamInit == Init => StreamInv
<1> SUFFICES ASSUME Init PROVE StreamInv
  OBVIOUS
<1>1. srvText = 0 /\ local = 0 /\ vcToClient = <<>> /\ vcBuf = <<>>
  BY DEF Init
<1>2. Stream(vcToClient)
  BY <1>1 DEF Stream
<1> QED BY <1>1, <1>2, WholeMessages DEF StreamInv, Buffered

\* The chunks towards the client are whole messages one after the other.
THEOREM StreamHolds == Spec => []StreamInv
  BY StreamInit, StreamSteps, PTL DEF Spec

\* Whatever the number of chunks, the browser is handed only texts of the
\* server (handleVirtualChannelChunk).
THEOREM OnlyWholeTexts == Spec => []CutTextIntact
<1>1. StreamInv => CutTextIntact
  BY SessionAssumption DEF StreamInv, CutTextIntact, Garbled, Texts
<1> QED BY <1>1, StreamHolds, PTL

-----------------------------------------------------------------------------
(* The request for the client's text and its answer.                       *)

Request(c) == c.pdu.kind = "formatDataRequest"
Response(c) == c.pdu.kind = "formatDataResponse"

\* An announcement is of a text the client has, an answer of one that is new enough.
Timely(c) ==
    /\ c.pdu.kind = "formatList" => c.pdu.text <= clipText
    /\ Response(c) => asked # 0 /\ c.pdu.text >= asked

\* Nothing of an answer comes after its last chunk.
InOrder(q) == \A i, j \in 1 .. Len(q) : i < j /\ Response(q[i]) /\ Response(q[j]) => ~IsLast(q[i])

OneRequest ==
    \A i \in 1 .. Len(vcToClient) : Request(vcToClient[i]) =>
        /\ asked # 0
        /\ \A c \in Elems(runOut) \cup Elems(vcToServer) : ~Response(c)
        /\ \A j \in 1 .. Len(vcToClient) : Request(vcToClient[j]) => j = i

OneAnswer ==
    /\ InOrder(vcToServer) /\ InOrder(runOut)
    /\ \A c \in Elems(vcToServer), d \in Elems(runOut) : Response(c) /\ Response(d) => ~IsLast(c)
    /\ \A c \in Elems(inputOut) : ~Response(c)

PasteTypes ==
    /\ runOut \in Seq(Pieces) /\ inputOut \in Seq(Pieces)
    /\ vcToServer \in Seq(Pieces) /\ srvBuf \in Seq(Pieces)
    /\ clipText \in Texts /\ offered \in Texts /\ asked \in Texts

PasteInv ==
    /\ PasteTypes
    /\ offered <= clipText /\ asked <= clipText
    /\ \A c \in Elems(runOut) \cup Elems(inputOut) \cup Elems(vcToServer) : Timely(c)
    /\ OneRequest /\ OneAnswer

LEMMA AppendIs ==
  ASSUME NEW S, NEW q \in Seq(S), NEW e \in S
  PROVE  /\ Append(q, e) \in Seq(S) /\ Len(q) \in Nat /\ Len(Append(q, e)) = Len(q) + 1
         /\ \A i \in 1 .. Len(q) : Append(q, e)[i] = q[i]
         /\ Append(q, e)[Len(q) + 1] = e
         /\ Elems(Append(q, e)) = Elems(q) \cup {e}
<1>1. /\ Append(q, e) \in Seq(S) /\ Len(q) \in Nat /\ Len(Append(q, e)) = Len(q) + 1
      /\ \A i \in 1 .. Len(q) : Append(q, e)[i] = q[i]
      /\ Append(q, e)[Len(q) + 1] = e
  OBVIOUS
<1>2. DOMAIN q = 1 .. Len(q) /\ DOMAIN Append(q, e) = 1 .. Len(q) + 1
  BY <1>1, LenProperties
<1>3. 1 .. Len(q) + 1 = (1 .. Len(q)) \cup {Len(q) + 1}
  BY <1>1
<1> QED BY <1>1, <1>2, <1>3 DEF Elems

LEMMA TailIs ==
  ASSUME NEW S, NEW q \in Seq(S), q # <<>>
  PROVE  /\ Tail(q) \in Seq(S) /\ Head(q) \in S /\ Len(q) \in Nat \ {0} /\ Len(Tail(q)) = Len(q) - 1
         /\ \A i \in 1 .. Len(Tail(q)) : Tail(q)[i] = q[i + 1]
         /\ Head(q) = q[1]
         /\ Elems(Tail(q)) \subseteq Elems(q) /\ Head(q) \in Elems(q)
<1>1. Len(q) \in Nat \ {0} /\ Head(q) = q[1]
  OBVIOUS
<1> QED BY <1>1, HeadTailProperties, TailElems

LEMMA OrderAppend ==
  ASSUME NEW q \in Seq(Pieces), NEW e \in Pieces, InOrder(q),
         \A c \in Elems(q) : Response(c) /\ Response(e) => ~IsLast(c)
  PROVE  InOrder(Append(q, e))
<1> DEFINE r == Append(q, e)
<1>1. /\ Len(q) \in Nat /\ Len(r) = Len(q) + 1 /\ \A i \in 1 .. Len(q) : r[i] = q[i]
      /\ r[Len(q) + 1] = e
  BY AppendIs
<1>2. \A i \in 1 .. Len(q) : q[i] \in Elems(q)
  BY LenProperties DEF Elems
<1> HIDE DEF r
<1>3. ASSUME NEW i \in 1 .. Len(r), NEW j \in 1 .. Len(r), i < j, Response(r[i]), Response(r[j])
      PROVE  ~IsLast(r[i])
  <2>1. i \in 1 .. Len(q) /\ r[i] = q[i]
    BY <1>1, <1>3
  <2>2. CASE j <= Len(q)
    BY <1>1, <1>3, <2>1, <2>2 DEF InOrder
  <2>3. CASE j = Len(q) + 1
    BY <1>1, <1>2, <1>3, <2>1, <2>3
  <2> QED BY <1>1, <2>2, <2>3
<1>4. InOrder(r)
  BY <1>3 DEF InOrder
<1> QED BY <1>4 DEF r

LEMMA OrderTail ==
  ASSUME NEW q \in Seq(Pieces), InOrder(q), q # <<>>
  PROVE  /\ InOrder(Tail(q))
         /\ \A d \in Elems(Tail(q)) : Response(Head(q)) /\ Response(d) => ~IsLast(Head(q))
<1> DEFINE t == Tail(q)
<1>1. /\ Len(q) \in Nat \ {0} /\ Len(t) = Len(q) - 1 /\ Head(q) = q[1] /\ t \in Seq(Pieces)
      /\ \A i \in 1 .. Len(t) : t[i] = q[i + 1]
  BY TailIs
<1> HIDE DEF t
<1>2. \A i \in 1 .. Len(t) : i + 1 \in 1 .. Len(q)
  BY <1>1
<1>3. ASSUME NEW i \in 1 .. Len(t), NEW j \in 1 .. Len(t), i < j, Response(t[i]), Response(t[j])
      PROVE  ~IsLast(t[i])
  BY <1>1, <1>2, <1>3 DEF InOrder
<1>4. InOrder(t)
  BY <1>3 DEF InOrder
<1>5. ASSUME NEW d \in Elems(t), Response(Head(q)), Response(d) PROVE ~IsLast(Head(q))
  <2>1. DOMAIN t = 1 .. Len(t)
    BY <1>1
  <2>2. PICK i \in 1 .. Len(t) : d = t[i]
    BY <2>1 DEF Elems
  <2>3. 1 \in 1 .. Len(q) /\ i + 1 \in 1 .. Len(q) /\ 1 < i + 1 /\ q[i + 1] = d
    BY <1>1, <1>2, <2>2
  <2> QED BY <1>1, <1>5, <2>3 DEF InOrder
<1> QED BY <1>4, <1>5 DEF t

\* What the server takes a last chunk for: the message it belongs to, or, if
\* there were others between, a text that is garbled.
LEMMA ServerMessage ==
  ASSUME NEW b \in Seq(Pieces), NEW c \in Pieces, IsLast(c)
  PROVE  \/ Message(Collect(b, c)) = c.pdu
         \/ Message(Collect(b, c)) = Pdu("garbled", 0) /\ Response(c)
<1>1. c.part = c.of /\ c.of \in Nat \ {0} /\ (~Response(c) => c.of = 1)
  BY DEF IsLast, Pieces, Response
<1>2. CASE c.part = 1
  <2>1. Collect(b, c) = <<c>> /\ Head(<<c>>) = c
    BY <1>2 DEF Collect
  <2>2. Piece(c, 1) = c
    BY <1>2, PieceIs
  <2>3. [i \in 1 .. c.of |-> [c EXCEPT !.part = i]] = <<c>>
    BY <1>1, <1>2, <2>2 DEF Piece
  <2> QED BY <2>1, <2>3 DEF Message
<1>3. CASE c.part # 1
  <2> DEFINE buf == Append(b, c)
             h == Head(buf)
  <2>1. /\ buf \in Seq(Pieces) /\ Len(buf) = Len(b) + 1 /\ Len(b) \in Nat /\ buf[Len(buf)] = c
    BY AppendIs
  <2>2. Collect(b, c) = buf /\ Response(c)
    BY <1>1, <1>3 DEF Collect
  <2> HIDE DEF buf
  <2>3. h \in Pieces
    BY <2>1
  <2> HIDE DEF h
  <2>4. CASE buf = [i \in 1 .. h.of |-> [h EXCEPT !.part = i]]
    <3>1. buf = First(h, h.of)
      BY <2>4 DEF First, Piece
    <3>2. h.of \in Nat /\ \A i \in 1 .. h.of : Piece(h, i) \in Pieces
      BY <2>3, PieceIs DEF Pieces
    <3>3. First(h, h.of) \in [1 .. h.of -> Pieces]
      BY <3>2 DEF First
    <3>4. Len(buf) = h.of
      BY <3>1, <3>2, <3>3, ChunksFromFunction
    <3>5. Len(buf) \in 1 .. h.of /\ Len(buf) \in Nat
      BY <2>1, <3>4
    <3>6. c = Piece(h, Len(buf))
      BY <2>1, <3>1, <3>5 DEF First
    <3>7. c.pdu = h.pdu
      BY <2>3, <3>5, <3>6, PieceIs
    <3>8. Message(buf) = h.pdu
      BY <2>4 DEF Message, h
    <3> QED BY <2>2, <3>7, <3>8
  <2>5. CASE buf # [i \in 1 .. h.of |-> [h EXCEPT !.part = i]]
    BY <2>2, <2>5 DEF Message, h
  <2> QED BY <2>4, <2>5
<1> QED BY <1>2, <1>3

LEMMA SplitElems ==
  ASSUME NEW p \in Whole, NEW n \in Nat \ {0}
  PROVE  /\ Split(p, n) \in Seq(Pieces)
         /\ \A c \in Elems(Split(p, n)) : c.pdu = p
         /\ InOrder(Split(p, n))
         /\ p.kind # "formatDataResponse" => Len(Split(p, n)) = 1
<1> DEFINE s == Split(p, n)
<1>1. /\ s \in Seq(Pieces) /\ Len(s) \in Nat \ {0}
      /\ \A i \in 1 .. Len(s) : s[i].pdu = p /\ s[i].part = i /\ s[i].of = Len(s)
  BY SplitStream DEF Stream
<1> HIDE DEF s
<1>2. \A c \in Elems(s) : c.pdu = p
  BY <1>1, LenProperties DEF Elems
<1>3. InOrder(s)
  BY <1>1 DEF InOrder, IsLast
<1>4. p.kind # "formatDataResponse" => Len(s) = 1
  <2>1. 1 \in 1 .. Len(s) /\ s[1] \in Pieces
    BY <1>1
  <2> QED BY <1>1, <2>1 DEF Pieces
<1> QED BY <1>1, <1>2, <1>3, <1>4 DEF s

\* What Run's goroutine sends, except for the answer to a request.
LEMMA ReplyChunks ==
  ASSUME NEW p \in Whole, p.kind # "formatDataRequest"
  PROVE  /\ Reply(p) \in Seq(Pieces)
         /\ \A c \in Elems(Reply(p)) : ~Response(c) /\ (c.pdu.kind = "formatList" => c.pdu.text = 0)
<1>1. \A kind \in PduKinds \ {"garbled", "formatDataResponse"} :
          /\ FromClient(Pdu(kind, 0)) \in Seq(Pieces)
          /\ \A c \in Elems(FromClient(Pdu(kind, 0))) :
                 ~Response(c) /\ (c.pdu.kind = "formatList" => c.pdu.text = 0)
  <2> TAKE kind \in PduKinds \ {"garbled", "formatDataResponse"}
  <2>1. Pdu(kind, 0) \in Whole
    BY WholeMessages
  <2>2. /\ Split(Pdu(kind, 0), ClientChunks) \in Seq(Pieces)
        /\ \A c \in Elems(Split(Pdu(kind, 0), ClientChunks)) : c.pdu = Pdu(kind, 0)
    BY <2>1, SplitElems, SessionAssumption
  <2> QED BY <2>2 DEF FromClient, Response, Pdu
<1> DEFINE caps == FromClient(Pdu("clipCaps", 0))
           list == FromClient(Pdu("formatList", 0))
           ack  == FromClient(Pdu("formatListResponse", 0))
           req  == FromClient(Pdu("formatDataRequest", 0))
           Plain(q) == /\ q \in Seq(Pieces)
                       /\ \A c \in Elems(q) : ~Response(c) /\ (c.pdu.kind = "formatList" => c.pdu.text = 0)
<1>2. Plain(caps) /\ Plain(list) /\ Plain(ack) /\ Plain(req)
  BY <1>1 DEF PduKinds
<1>3. Plain(<<>>)
  BY ShortElems
<1> HIDE DEF caps, list, ack, req
<1>4. Plain(caps \o list) /\ Plain(ack \o req) /\ Plain(ack \o <<>>)
  BY <1>2, <1>3, ConcatElems
<1> HIDE DEF Plain
<1>5. Plain(ListReply(p.text))
  BY <1>4 DEF ListReply, ack, req
<1>6. CASE p.kind = "monitorReady"
  BY <1>4, <1>6 DEF Reply, caps, list, Plain
<1>7. CASE p.kind = "formatList"
  BY <1>5, <1>7 DEF Reply, Plain
<1>8. CASE p.kind \notin {"monitorReady", "formatList"}
  <2>1. Reply(p) = <<>>
    BY <1>8 DEF Reply
  <2> QED BY <1>3, <2>1 DEF Plain
<1> QED BY <1>6, <1>7, <1>8

\* What a message of the server adds to the chunks towards the client.
LEMMA NewChunks ==
  ASSUME StreamInv, NEW p \in Whole, vcToClient' = vcToClient \o FromServer(p)
  PROVE  /\ Len(vcToClient) \in Nat
         /\ \A i \in 1 .. Len(vcToClient') :
                \/ i \in 1 .. Len(vcToClient) /\ vcToClient'[i] = vcToClient[i]
                \/ /\ vcToClient'[i].pdu = p
                   /\ p.kind # "formatDataResponse" => i = Len(vcToClient) + 1
<1> DEFINE s == FromServer(p)
<1>1. /\ s \in Seq(Pieces) /\ Len(s) \in Nat
      /\ \A i \in 1 .. Len(s) : s[i].pdu = p
      /\ p.kind # "formatDataResponse" => Len(s) = 1
  <2>1. /\ s \in Seq(Pieces) /\ Len(s) \in Nat
        /\ p.kind # "formatDataResponse" => Len(s) = 1
    BY SplitElems, SessionAssumption DEF FromServer
  <2>2. \A i \in 1 .. Len(s) : s[i].pdu = p
    BY SplitStream, SessionAssumption DEF FromServer
  <2> QED BY <2>1, <2>2
<1> HIDE DEF s
<1>2. vcToClient \in Seq(Pieces) /\ vcToClient' = vcToClient \o s
  BY DEF StreamInv, Stream, s
<1>3. /\ Len(vcToClient) \in Nat /\ Len(vcToClient') = Len(vcToClient) + Len(s)
      /\ \A i \in 1 .. Len(vcToClient) + Len(s) :
             vcToClient'[i] = IF i <= Len(vcToClient) THEN vcToClient[i] ELSE s[i - Len(vcToClient)]
  BY <1>1, <1>2, ConcatProperties
<1>4. ASSUME NEW i \in 1 .. Len(vcToClient')
      PROVE  \/ i \in 1 .. Len(vcToClient) /\ vcToClient'[i] = vcToClient[i]
             \/ /\ vcToClient'[i].pdu = p
                /\ p.kind # "formatDataResponse" => i = Len(vcToClient) + 1
  <2>1. CASE i <= Len(vcToClient)
    BY <1>3, <2>1
  <2>2. CASE i > Len(vcToClient)
    <3> DEFINE j == i - Len(vcToClient)
    <3>1. j \in 1 .. Len(s) /\ vcToClient'[i] = s[j] /\ i = Len(vcToClient) + j
      BY <1>1, <1>3, <2>2
    <3> HIDE DEF j
    <3>2. p.kind # "formatDataResponse" => i = Len(vcToClient) + 1
      BY <1>1, <3>1
    <3> QED BY <1>1, <3>1, <3>2
  <2> QED BY <1>3, <2>1, <2>2
<1> QED BY <1>3, <1>4

\* The only new request among them is one just sent.
LEMMA RequestsGrow ==
  ASSUME StreamInv, NEW p \in Whole, vcToClient' = vcToClient \o FromServer(p)
  PROVE  \A i \in 1 .. Len(vcToClient') : Request(vcToClient'[i]) =>
             \/ i \in 1 .. Len(vcToClient) /\ Request(vcToClient[i])
             \/ p.kind = "formatDataRequest" /\ i = Len(vcToClient) + 1
  BY NewChunks DEF Request

-----------------------------------------------------------------------------
(* The steps.                                                              *)

LEMMA HandleChunkKeepsPaste ==
  ASSUME StreamInv, PasteInv, HandleChunk
  PROVE  PasteInv'
<1> DEFINE h == Head(vcToClient)
           buf == Collect(vcBuf, h)
<1>1. /\ runOut = <<>> /\ vcToClient # <<>> /\ vcToClient' = Tail(vcToClient)
      /\ UNCHANGED <<clipText, inputOut, vcToServer, offered, asked, srvBuf>>
      /\ IF IsLast(h) THEN runOut' = Reply(Message(buf)) ELSE runOut' = runOut
  BY DEF HandleChunk, RunUnchanged
<1>2. h = vcToClient[1] /\ h \in Pieces /\ (IsLast(h) => Message(buf) = h.pdu)
  BY <1>1, Collected
<1>3. /\ vcToClient \in Seq(Pieces) /\ Len(vcToClient) \in Nat \ {0}
      /\ Len(vcToClient') = Len(vcToClient) - 1
      /\ \A i \in 1 .. Len(vcToClient') : vcToClient'[i] = vcToClient[i + 1]
  BY <1>1, TailIs DEF StreamInv, Stream
<1> HIDE DEF h, buf
<1>4. h.pdu \in Whole /\ (Request(h) => IsLast(h))
  BY <1>2 DEF Pieces, Request, IsLast
<1>5. CASE Request(h)
  <2>1. asked # 0 /\ \A c \in Elems(vcToServer) : ~Response(c)
    BY <1>2, <1>3, <1>5 DEF PasteInv, OneRequest
  <2>2. \A i \in 1 .. Len(vcToClient') : ~Request(vcToClient'[i])
    <3> SUFFICES ASSUME NEW i \in 1 .. Len(vcToClient'), Request(vcToClient'[i]) PROVE FALSE
      OBVIOUS
    <3>1. 1 \in 1 .. Len(vcToClient) /\ i + 1 \in 1 .. Len(vcToClient) /\ i + 1 # 1
      BY <1>3
    <3>2. Request(vcToClient[1]) /\ Request(vcToClient[i + 1])
      BY <1>2, <1>3, <1>5
    <3> QED BY <3>1, <3>2 DEF PasteInv, OneRequest
  <2> DEFINE p == Pdu("formatDataResponse", clipText)
  <2>3. runOut' = Split(p, ClientChunks)
    <3>1. runOut' = Reply(h.pdu) /\ h.pdu.kind = "formatDataRequest"
      BY <1>1, <1>2, <1>4, <1>5 DEF Request
    <3> QED BY <3>1 DEF Reply, FromClient
  <2>4. p \in Whole /\ p.kind = "formatDataResponse" /\ p.text = clipText
    BY WholeMessages DEF PasteInv, PasteTypes, Pdu, PduKinds
  <2> HIDE DEF p
  <2>5. /\ runOut' \in Seq(Pieces) /\ InOrder(runOut')
        /\ \A c \in Elems(runOut') : c.pdu = p
    BY <2>3, <2>4, SplitElems, SessionAssumption
  <2>6. PasteTypes' /\ offered' <= clipText' /\ asked' <= clipText'
    BY <1>1, <2>5 DEF PasteInv, PasteTypes
  <2>7. \A c \in Elems(runOut') : Timely(c)'
    BY <1>1, <2>1, <2>4, <2>5 DEF PasteInv, PasteTypes, Timely, Response, Texts
  <2>8. \A c \in Elems(inputOut') \cup Elems(vcToServer') : Timely(c)'
    BY <1>1 DEF PasteInv, Timely
  <2>9. OneRequest'
    BY <2>2 DEF OneRequest
  <2>10. OneAnswer'
    BY <1>1, <2>1, <2>5 DEF PasteInv, OneAnswer
  <2> QED BY <2>6, <2>7, <2>8, <2>9, <2>10 DEF PasteInv
<1>6. CASE ~Request(h)
  <2>1. /\ runOut' \in Seq(Pieces)
        /\ \A c \in Elems(runOut') : ~Response(c) /\ (c.pdu.kind = "formatList" => c.pdu.text = 0)
    <3>1. CASE IsLast(h)
      <4>1. runOut' = Reply(h.pdu) /\ h.pdu.kind # "formatDataRequest"
        BY <1>1, <1>2, <1>6, <3>1 DEF Request
      <4> QED BY <1>4, <4>1, ReplyChunks
    <3>2. CASE ~IsLast(h)
      BY <1>1, <3>2, ShortElems
    <3> QED BY <3>1, <3>2
  <2>2. PasteTypes' /\ offered' <= clipText' /\ asked' <= clipText'
    BY <1>1, <2>1 DEF PasteInv, PasteTypes
  <2>3. \A c \in Elems(runOut') : Timely(c)'
    BY <1>1, <2>1 DEF PasteInv, PasteTypes, Timely, Response, Texts
  <2>4. \A c \in Elems(inputOut') \cup Elems(vcToServer') : Timely(c)'
    BY <1>1 DEF PasteInv, Timely
  <2>5. \A i \in 1 .. Len(vcToClient') : Request(vcToClient'[i]) =>
            i + 1 \in 1 .. Len(vcToClient) /\ Request(vcToClient[i + 1])
    BY <1>3
  <2>6. OneRequest'
    <3> SUFFICES ASSUME NEW i \in 1 .. Len(vcToClient'), Request(vcToClient'[i])
                 PROVE  /\ asked' # 0
                        /\ \A c \in Elems(runOut') \cup Elems(vcToServer') : ~Response(c)
                        /\ \A j \in 1 .. Len(vcToClient') : Request(vcToClient'[j]) => j = i
      BY DEF OneRequest
    <3>1. /\ asked # 0 /\ \A c \in Elems(vcToServer) : ~Response(c)
          /\ \A j \in 1 .. Len(vcToClient) : Request(vcToClient[j]) => j = i + 1
      BY <2>5 DEF PasteInv, OneRequest
    <3>2. \A j \in 1 .. Len(vcToClient') : Request(vcToClient'[j]) => j + 1 = i + 1
      BY <2>5, <3>1
    <3> QED BY <1>1, <1>3, <2>1, <3>1, <3>2
  <2>7. OneAnswer'
    <3>1. InOrder(runOut')
      <4>1. \A i \in 1 .. Len(runOut') : runOut'[i] \in Elems(runOut')
        BY <2>1, LenProperties DEF Elems
      <4> QED BY <2>1, <4>1 DEF InOrder
    <3> QED BY <1>1, <2>1, <3>1 DEF PasteInv, OneAnswer
  <2> QED BY <2>2, <2>3, <2>4, <2>6, <2>7 DEF PasteInv
<1> QED BY <1>5, <1>6

LEMMA RunWritesKeepsPaste ==
  ASSUME PasteInv, RunWrites
  PROVE  PasteInv'
<1> DEFINE h == Head(runOut)
<1>1. /\ runOut # <<>> /\ runOut' = Tail(runOut) /\ vcToServer' = Append(vcToServer, h)
      /\ UNCHANGED <<clipText, inputOut, vcToClient, offered, asked, srvBuf>>
  BY DEF RunWrites
<1>2. /\ runOut' \in Seq(Pieces) /\ h \in Pieces
      /\ h \in Elems(runOut) /\ Elems(runOut') \subseteq Elems(runOut)
  BY <1>1, TailIs DEF PasteInv, PasteTypes
<1> HIDE DEF h
<1>3. /\ vcToServer' \in Seq(Pieces) /\ Elems(vcToServer') = Elems(vcToServer) \cup {h}
  BY <1>1, <1>2, AppendIs DEF PasteInv, PasteTypes
<1>4. PasteTypes' /\ offered' <= clipText' /\ asked' <= clipText'
  BY <1>1, <1>2, <1>3 DEF PasteInv, PasteTypes
<1>5. \A c \in Elems(runOut') \cup Elems(inputOut') \cup Elems(vcToServer') : Timely(c)'
  BY <1>1, <1>2, <1>3 DEF PasteInv, Timely
<1>6. OneRequest'
  BY <1>1, <1>2, <1>3 DEF PasteInv, OneRequest
<1>7. InOrder(runOut') /\ \A d \in Elems(runOut') : Response(h) /\ Response(d) => ~IsLast(h)
  BY <1>1, OrderTail DEF PasteInv, PasteTypes, OneAnswer, h
<1>8. InOrder(vcToServer')
  <2>1. \A c \in Elems(vcToServer) : Response(c) /\ Response(h) => ~IsLast(c)
    BY <1>2 DEF PasteInv, OneAnswer
  <2> QED BY <1>1, <1>2, <2>1, OrderAppend DEF PasteInv, PasteTypes, OneAnswer
<1>9. OneAnswer'
  BY <1>1, <1>2, <1>3, <1>7, <1>8 DEF PasteInv, OneAnswer
<1> QED BY <1>4, <1>5, <1>6, <1>9 DEF PasteInv

LEMMA InputWritesKeepsPaste ==
  ASSUME PasteInv, InputWrites
  PROVE  PasteInv'
<1> DEFINE h == Head(inputOut)
<1>1. /\ inputOut # <<>> /\ inputOut' = Tail(inputOut) /\ vcToServer' = Append(vcToServer, h)
      /\ UNCHANGED <<clipText, runOut, vcToClient, offered, asked, srvBuf>>
  BY DEF InputWrites
<1>2. /\ inputOut' \in Seq(Pieces) /\ h \in Pieces
      /\ h \in Elems(inputOut) /\ Elems(inputOut') \subseteq Elems(inputOut)
  BY <1>1, TailIs DEF PasteInv, PasteTypes
<1> HIDE DEF h
<1>3. /\ vcToServer' \in Seq(Pieces) /\ Elems(vcToServer') = Elems(vcToServer) \cup {h}
  BY <1>1, <1>2, AppendIs DEF PasteInv, PasteTypes
<1>4. ~Response(h)
  BY <1>2 DEF PasteInv, OneAnswer
<1>5. PasteTypes' /\ offered' <= clipText' /\ asked' <= clipText'
  BY <1>1, <1>2, <1>3 DEF PasteInv, PasteTypes
<1>6. \A c \in Elems(runOut') \cup Elems(inputOut') \cup Elems(vcToServer') : Timely(c)'
  BY <1>1, <1>2, <1>3 DEF PasteInv, Timely
<1>7. OneRequest'
  BY <1>1, <1>3, <1>4 DEF PasteInv, OneRequest
<1>8. InOrder(vcToServer')
  BY <1>1, <1>2, <1>4, OrderAppend DEF PasteInv, PasteTypes, OneAnswer
<1>9. OneAnswer'
  BY <1>1, <1>2, <1>3, <1>4, <1>8 DEF PasteInv, OneAnswer
<1> QED BY <1>5, <1>6, <1>7, <1>9 DEF PasteInv

LEMMA SharingKeepsPaste ==
  ASSUME PasteInv, SendClientCutText
  PROVE  PasteInv'
<1> DEFINE p == Pdu("formatList", clipText + 1)
<1>1. /\ clipText < MaxTexts /\ clipText' = clipText + 1 /\ inputOut' = Split(p, ClientChunks)
      /\ UNCHANGED <<runOut, vcToServer, vcToClient, offered, asked, srvBuf>>
  BY DEF SendClientCutText, Stored, Announced, FromClient
<1>2. clipText \in Nat /\ asked \in Nat /\ offered \in Nat /\ clipText' \in Texts
  BY <1>1, SessionAssumption DEF PasteInv, PasteTypes, Texts
<1>3. p \in Whole /\ p.kind = "formatList" /\ p.text = clipText'
  BY <1>1, <1>2, WholeMessages DEF Pdu, PduKinds
<1> HIDE DEF p
<1>4. inputOut' \in Seq(Pieces) /\ \A c \in Elems(inputOut') : c.pdu = p
  BY <1>1, <1>3, SplitElems, SessionAssumption
<1>5. PasteTypes' /\ offered' <= clipText' /\ asked' <= clipText'
  BY <1>1, <1>2, <1>4 DEF PasteInv, PasteTypes
<1>6. \A c \in Elems(inputOut') : Timely(c)' /\ ~Response(c)
  BY <1>2, <1>3, <1>4, SessionAssumption DEF Timely, Response, Texts
<1>7. \A c \in Elems(runOut') \cup Elems(vcToServer') : Timely(c)'
  <2> SUFFICES ASSUME NEW c \in Elems(runOut) \cup Elems(vcToServer) PROVE Timely(c)'
    BY <1>1
  <2>1. Timely(c)
    BY DEF PasteInv
  <2>2. c \in Pieces
    <3>1. DOMAIN runOut = 1 .. Len(runOut) /\ DOMAIN vcToServer = 1 .. Len(vcToServer)
      BY DEF PasteInv, PasteTypes
    <3> QED BY <3>1 DEF PasteInv, PasteTypes, Elems
  <2>3. c.pdu.text \in Nat
    BY <2>2, SessionAssumption DEF Pieces, Whole, Texts
  <2> QED BY <1>1, <1>2, <2>1, <2>3 DEF Timely
<1>8. OneRequest'
  BY <1>1 DEF PasteInv, OneRequest
<1>9. OneAnswer'
  BY <1>1, <1>6 DEF PasteInv, OneAnswer
<1> QED BY <1>5, <1>6, <1>7, <1>8, <1>9 DEF PasteInv

\* The server sends something other than a request.
LEMMA ServerSendsKeepsPaste ==
  ASSUME StreamInv, PasteInv, NEW p \in Whole, p.kind # "formatDataRequest",
         vcToClient' = vcToClient \o FromServer(p),
         offered' \in {0, offered},
         UNCHANGED <<clipText, runOut, inputOut, vcToServer, asked, srvBuf>>
  PROVE  PasteInv'
<1>1. \A i \in 1 .. Len(vcToClient') : Request(vcToClient'[i]) =>
          i \in 1 .. Len(vcToClient) /\ Request(vcToClient[i])
  BY RequestsGrow
<1>2. PasteTypes' /\ offered' <= clipText' /\ asked' <= clipText'
  BY SessionAssumption DEF PasteInv, PasteTypes, Texts
<1>3. \A c \in Elems(runOut') \cup Elems(inputOut') \cup Elems(vcToServer') : Timely(c)'
  BY DEF PasteInv, Timely
<1>4. OneRequest'
  BY <1>1 DEF PasteInv, OneRequest
<1>5. OneAnswer'
  BY DEF PasteInv, OneAnswer
<1> QED BY <1>2, <1>3, <1>4, <1>5 DEF PasteInv

LEMMA PastingKeepsPaste ==
  ASSUME StreamInv, PasteInv, ServerPastes
  PROVE  PasteInv'
<1> DEFINE p == Pdu("formatDataRequest", 0)
<1>1. /\ offered # 0 /\ asked = 0 /\ asked' = offered
      /\ vcToClient' = vcToClient \o FromServer(p)
      /\ UNCHANGED <<clipText, runOut, inputOut, vcToServer, offered, srvBuf>>
  BY DEF ServerPastes, ServerKeeps
<1>2. p \in Whole
  BY WholeMessages DEF PduKinds
<1> HIDE DEF p
<1>3. \A i \in 1 .. Len(vcToClient) : ~Request(vcToClient[i])
  BY <1>1 DEF PasteInv, OneRequest
<1>4. \A c \in Elems(runOut) \cup Elems(inputOut) \cup Elems(vcToServer) : ~Response(c)
  BY <1>1 DEF PasteInv, Timely
<1>5. \A i \in 1 .. Len(vcToClient') : Request(vcToClient'[i]) => i = Len(vcToClient) + 1
  BY <1>1, <1>2, <1>3, RequestsGrow
<1>6. PasteTypes' /\ offered' <= clipText' /\ asked' <= clipText'
  BY <1>1 DEF PasteInv, PasteTypes
<1>7. \A c \in Elems(runOut') \cup Elems(inputOut') \cup Elems(vcToServer') : Timely(c)'
  BY <1>1, <1>4 DEF PasteInv, Timely, Response
<1>8. OneRequest'
  BY <1>1, <1>4, <1>5 DEF OneRequest
<1>9. OneAnswer'
  BY <1>1 DEF PasteInv, OneAnswer
<1> QED BY <1>6, <1>7, <1>8, <1>9 DEF PasteInv

LEMMA ReadingKeepsPaste ==
  ASSUME StreamInv, PasteInv, ServerReadsChunk
  PROVE  PasteInv' /\ (asked # 0 /\ asked' = 0 => pasted' >= asked)
<1> DEFINE h == Head(vcToServer)
           buf == Collect(srvBuf, h)
           m == Message(buf)
<1>1. /\ vcToServer # <<>> /\ vcToServer' = Tail(vcToServer)
      /\ UNCHANGED <<clipText, runOut, inputOut, srvText>>
      /\ IF IsLast(h) THEN srvBuf' = <<>> /\ ServerHandlesPdu(m)
                      ELSE srvBuf' = buf /\ UNCHANGED <<vcToClient, offered, asked>>
  BY DEF ServerReadsChunk, ServerKeeps
<1>2. /\ vcToServer' \in Seq(Pieces) /\ h \in Pieces /\ h \in Elems(vcToServer)
      /\ Elems(vcToServer') \subseteq Elems(vcToServer)
  BY <1>1, TailIs DEF PasteInv, PasteTypes
<1>3. IsLast(h) => m = h.pdu \/ (m = Pdu("garbled", 0) /\ Response(h))
  BY <1>2, ServerMessage DEF PasteInv, PasteTypes
<1>4. buf \in Seq(Pieces)
  <2>1. <<h>> \in Seq(Pieces) /\ Append(srvBuf, h) \in Seq(Pieces)
    BY <1>2, ShortElems, AppendIs DEF PasteInv, PasteTypes
  <2> QED BY <2>1 DEF Collect
<1>5. InOrder(vcToServer') /\ \A d \in Elems(vcToServer') : Response(h) /\ Response(d) => ~IsLast(h)
  BY <1>1, OrderTail DEF PasteInv, PasteTypes, OneAnswer
<1> HIDE DEF m, buf, h
<1>6. Timely(h) /\ h.pdu \in Whole
  BY <1>2 DEF PasteInv, Pieces
<1>7. asked \in Nat /\ offered \in Nat /\ clipText \in Nat /\ h.pdu.text \in Texts /\ srvBuf' \in Seq(Pieces)
  <2>1. asked \in Nat /\ offered \in Nat /\ clipText \in Nat
    BY SessionAssumption DEF PasteInv, PasteTypes, Texts
  <2>2. h.pdu.text \in Texts
    BY <1>6 DEF Whole
  <2>3. srvBuf' \in Seq(Pieces)
    BY <1>1, <1>4, ShortElems
  <2> QED BY <2>1, <2>2, <2>3
<1>8. OneAnswer'
  BY <1>1, <1>2, <1>5 DEF PasteInv, OneAnswer
<1>9. CASE ~IsLast(h)
  <2>1. UNCHANGED <<vcToClient, offered, asked>>
    BY <1>1, <1>9
  <2>2. PasteTypes' /\ offered' <= clipText' /\ asked' <= clipText'
    BY <1>1, <1>2, <1>7, <2>1 DEF PasteInv, PasteTypes
  <2>3. \A c \in Elems(runOut') \cup Elems(inputOut') \cup Elems(vcToServer') : Timely(c)'
    BY <1>1, <1>2, <2>1 DEF PasteInv, Timely
  <2>4. OneRequest'
    BY <1>1, <1>2, <2>1 DEF PasteInv, OneRequest
  <2> QED BY <1>8, <2>1, <2>2, <2>3, <2>4 DEF PasteInv
<1>10. CASE IsLast(h) /\ Response(h)
  <2>1. ServerHandlesPdu(m) /\ m.kind \in {"formatDataResponse", "garbled"}
        /\ (m.kind = "formatDataResponse" => m.text = h.pdu.text)
    BY <1>1, <1>3, <1>10 DEF Response, Pdu
  <2>2. /\ vcToClient' = vcToClient \o <<>> /\ offered' = offered /\ asked' = 0
        /\ pasted' = IF m.kind = "garbled" THEN Garbled ELSE m.text
    BY <2>1 DEF ServerHandlesPdu, ServerReply
  <2>3. vcToClient' = vcToClient
    BY <2>2 DEF StreamInv, Stream
  <2>4. \A i \in 1 .. Len(vcToClient) : ~Request(vcToClient[i])
    BY <1>2, <1>10 DEF PasteInv, OneRequest
  <2>5. \A c \in Elems(runOut) \cup Elems(inputOut) \cup Elems(vcToServer') : ~Response(c)
    BY <1>2, <1>5, <1>10 DEF PasteInv, OneAnswer
  <2>6. PasteTypes' /\ offered' <= clipText' /\ asked' <= clipText'
    BY <1>1, <1>2, <1>7, <2>2, WholeMessages DEF PasteInv, PasteTypes
  <2>7. \A c \in Elems(runOut') \cup Elems(inputOut') \cup Elems(vcToServer') : Timely(c)'
    BY <1>1, <1>2, <2>5 DEF PasteInv, Timely, Response
  <2>8. OneRequest'
    BY <2>3, <2>4 DEF OneRequest
  <2>9. pasted' >= asked
    <3>1. h.pdu.text >= asked /\ Garbled >= asked
      BY <1>6, <1>10, SessionAssumption DEF Timely, Garbled, PasteInv, PasteTypes, Texts
    <3> QED BY <2>1, <2>2, <3>1
  <2> QED BY <1>8, <2>6, <2>7, <2>8, <2>9 DEF PasteInv
<1>11. CASE IsLast(h) /\ ~Response(h)
  <2>1. ServerHandlesPdu(m) /\ m = h.pdu /\ m.kind \notin {"formatDataResponse", "garbled"}
    BY <1>1, <1>3, <1>6, <1>11 DEF Response, Whole
  <2>2. /\ vcToClient' = vcToClient \o ServerReply(m) /\ asked' = asked
        /\ offered' = IF m.kind = "formatList" THEN m.text ELSE offered
    BY <2>1 DEF ServerHandlesPdu
  <2>3. offered' \in Texts /\ offered' <= clipText
    BY <1>6, <1>7, <2>1, <2>2 DEF PasteInv, PasteTypes, Timely
  <2>4. PasteTypes' /\ offered' <= clipText' /\ asked' <= clipText'
    BY <1>1, <1>2, <1>7, <2>2, <2>3 DEF PasteInv, PasteTypes
  <2>5. \A c \in Elems(runOut') \cup Elems(inputOut') \cup Elems(vcToServer') : Timely(c)'
    BY <1>1, <1>2, <2>2 DEF PasteInv, Timely
  <2>6. \A i \in 1 .. Len(vcToClient') : Request(vcToClient'[i]) =>
            i \in 1 .. Len(vcToClient) /\ Request(vcToClient[i])
    <3>1. CASE ServerReply(m) = <<>>
      <4>1. vcToClient' = vcToClient
        BY <2>2, <3>1 DEF StreamInv, Stream
      <4> QED BY <4>1
    <3>2. CASE ServerReply(m) # <<>>
      <4>1. /\ Pdu("formatListResponse", 0) \in Whole
            /\ Pdu("formatDataResponse", IF owner = "server" THEN srvText ELSE 0) \in Whole
        BY WholeMessages DEF PduKinds, StreamInv
      <4>2. PICK r \in Whole : ServerReply(m) = FromServer(r) /\ r.kind # "formatDataRequest"
        BY <3>2, <4>1 DEF ServerReply, Pdu
      <4>3. vcToClient' = vcToClient \o FromServer(r)
        BY <2>2, <4>2
      <4> QED BY <4>2, <4>3, RequestsGrow
    <3> QED BY <3>1, <3>2
  <2>7. OneRequest'
    BY <1>1, <1>2, <2>2, <2>6 DEF PasteInv, OneRequest
  <2> QED BY <1>8, <2>2, <2>4, <2>5, <2>7 DEF PasteInv
<1> QED BY <1>9, <1>10, <1>11

LEMMA PasteSteps ==
  StreamInv /\ PasteInv /\ [Next]_vars =>
      PasteInv' /\ (asked # 0 /\ asked' = 0 => pasted' >= asked)
<1> SUFFICES ASSUME StreamInv, PasteInv, [Next]_vars
             PROVE  PasteInv' /\ (asked # 0 /\ asked' = 0 => pasted' >= asked)
  OBVIOUS
<1>1. CASE UNCHANGED clipVars
  <2>1. UNCHANGED <<clipText, runOut, inputOut, vcToServer, vcToClient, offered, asked, srvBuf>>
    BY <1>1 DEF clipVars
  <2> QED BY <2>1 DEF PasteInv, PasteTypes, Timely, OneRequest, OneAnswer
<1>2. CASE HandleChunk
  BY <1>2, HandleChunkKeepsPaste DEF HandleChunk, RunUnchanged
<1>3. CASE RunWrites
  BY <1>3, RunWritesKeepsPaste DEF RunWrites
<1>4. CASE InputWrites
  BY <1>4, InputWritesKeepsPaste DEF InputWrites
<1>5. CASE SendClientCutText
  BY <1>5, SharingKeepsPaste DEF SendClientCutText
<1>6. CASE MonitorReady
  <2>1. Pdu("monitorReady", 0) \in Whole /\ Pdu("monitorReady", 0).kind # "formatDataRequest"
    BY WholeMessages DEF PduKinds, Pdu
  <2> QED BY <1>6, <2>1, ServerSendsKeepsPaste DEF MonitorReady, ServerKeeps
<1>7. CASE ServerCopies
  <2>1. srvText + 1 \in Texts
    BY <1>7, SessionAssumption DEF ServerCopies, StreamInv, Texts
  <2>2. Pdu("formatList", srvText + 1) \in Whole /\ Pdu("formatList", srvText + 1).kind # "formatDataRequest"
    BY <2>1, WholeMessages DEF PduKinds, Pdu
  <2> QED BY <1>7, <2>2, ServerSendsKeepsPaste DEF ServerCopies, ServerKeeps
<1>8. CASE ServerPastes
  BY <1>8, PastingKeepsPaste DEF ServerPastes
<1>9. CASE ServerReadsChunk
  BY <1>9, ReadingKeepsPaste
<1> QED BY <1>1, <1>2, <1>3, <1>4, <1>5, <1>6, <1>7, <1>8, <1>9
        DEF Next, ClipNext, ClipClient, ClipServer, vars

LEMMA PasteInit == Init => PasteInv
<1> SUFFICES ASSUME Init PROVE PasteInv
  OBVIOUS
<1>1. /\ clipText = 0 /\ offered = 0 /\ asked = 0 /\ runOut = <<>> /\ inputOut = <<>>
      /\ vcToServer = <<>> /\ vcToClient = <<>> /\ srvBuf = <<>>
  BY DEF Init
<1>2. <<>> \in Seq(Pieces) /\ Elems(<<>>) = {} /\ Len(<<>>) = 0
  BY ShortElems
<1>3. PasteTypes
  BY <1>1, <1>2, WholeMessages DEF PasteTypes
<1> QED BY <1>1, <1>2, <1>3 DEF PasteInv, OneRequest, OneAnswer, InOrder

\* Announcements and answers on their way are as new as they must be.
THEOREM PasteHolds == Spec => []PasteInv
<1>1. PasteInv /\ StreamInv /\ [Next]_vars => PasteInv'
  BY PasteSteps
<1> QED BY <1>1, PasteInit, StreamHolds, PTL DEF Spec

\* A paste on the server, even one that is garbled, is never of a text older
\* than the one on offer when it was asked for (SendClientCutText).
THEOREM PasteNotOlder == Spec => PasteIsFresh
<1>1. StreamInv /\ PasteInv /\ [Next]_vars => [asked # 0 /\ asked' = 0 => pasted' >= asked]_vars
  BY PasteSteps
<1> QED BY <1>1, StreamHolds, PasteHolds, PTL DEF Spec, PasteIsFresh

-----------------------------------------------------------------------------
(* The offer.                                                              *)

Ready(c) == c.pdu.kind = "monitorReady"
List(c) == c.pdu.kind = "formatList"
NoList(q) == \A c \in Elems(q) : ~List(c)

\* The last list in q announces text.
Latest(q, text) ==
    \A i \in 1 .. Len(q) :
        List(q[i]) /\ (\A j \in 1 .. Len(q) : j > i => ~List(q[j])) => q[i].pdu.text = text

\* The empty list is on its way at most once, in one form or the other, and
\* is the first that Run writes.
Greeting ==
    /\ \A i \in 1 .. Len(vcToClient) : Ready(vcToClient[i]) =>
           /\ greeted # "no" /\ greetedAt = NotYet /\ NoList(runOut)
           /\ \A j \in 1 .. Len(vcToClient) : Ready(vcToClient[j]) => j = i
    /\ \A i \in 1 .. Len(runOut) : List(runOut[i]) =>
           /\ greeted # "no" /\ greetedAt = NotYet
           /\ \A j \in 1 .. Len(runOut) : List(runOut[j]) => j = i
    /\ greeted = "no" => greetedAt = NotYet

\* What the server will offer once it has read what is under way.
Known ==
    IF NoList(vcToServer) THEN owner = "server" \/ offered = clipText
                          ELSE Latest(vcToServer, clipText)

\* The user has shared a text since Run wrote the empty list.
SharedSince == clipText > greetedAt

OfferInv ==
    /\ Greeting
    /\ \A c \in Elems(inputOut) : List(c) /\ c.pdu.text = clipText
    /\ inputOut = <<>> /\ SharedSince => Known

-----------------------------------------------------------------------------
(* Queues with lists.                                                      *)

LEMMA ElemsIndexed ==
  ASSUME NEW S, NEW q \in Seq(S)
  PROVE  /\ Elems(q) = {q[i] : i \in 1 .. Len(q)} /\ Len(q) \in Nat
         /\ q = <<>> => Elems(q) = {}
         /\ Elems(q) = {} => q = <<>>
<1>1. DOMAIN q = 1 .. Len(q) /\ Len(q) \in Nat
  BY LenProperties
<1>2. Elems(q) = {q[i] : i \in 1 .. Len(q)}
  BY <1>1 DEF Elems
<1>3. ASSUME Elems(q) = {} PROVE q = <<>>
  <2>1. Len(q) = 0
    BY <1>1, <1>2, <1>3
  <2> QED BY <2>1
<1> QED BY <1>1, <1>2, <1>3, ShortElems

LEMMA LatestAppend ==
  ASSUME NEW q \in Seq(Pieces), NEW e \in Pieces, NEW text
  PROVE  /\ List(e) /\ e.pdu.text = text => Latest(Append(q, e), text)
         /\ ~List(e) /\ Latest(q, text) => Latest(Append(q, e), text)
<1> DEFINE r == Append(q, e)
<1>1. /\ Len(q) \in Nat /\ Len(r) = Len(q) + 1 /\ \A i \in 1 .. Len(q) : r[i] = q[i]
      /\ r[Len(q) + 1] = e
  BY AppendIs
<1> HIDE DEF r
<1>2. ASSUME List(e), e.pdu.text = text,
             NEW i \in 1 .. Len(r), \A j \in 1 .. Len(r) : j > i => ~List(r[j])
      PROVE  r[i].pdu.text = text
  <2>1. i = Len(q) + 1
    BY <1>1, <1>2
  <2> QED BY <1>1, <1>2, <2>1
<1>3. ASSUME ~List(e), Latest(q, text),
             NEW i \in 1 .. Len(r), List(r[i]), \A j \in 1 .. Len(r) : j > i => ~List(r[j])
      PROVE  r[i].pdu.text = text
  <2>1. i \in 1 .. Len(q) /\ q[i] = r[i]
    BY <1>1, <1>3
  <2>2. \A j \in 1 .. Len(q) : j > i => ~List(q[j])
    BY <1>1, <1>3
  <2> QED BY <1>3, <2>1, <2>2 DEF Latest
<1> QED BY <1>2, <1>3 DEF Latest, r

LEMMA LatestTail ==
  ASSUME NEW q \in Seq(Pieces), q # <<>>, NEW text, Latest(q, text)
  PROVE  /\ Latest(Tail(q), text)
         /\ List(Head(q)) /\ NoList(Tail(q)) => Head(q).pdu.text = text
<1> DEFINE t == Tail(q)
<1>1. /\ Len(q) \in Nat \ {0} /\ Len(t) = Len(q) - 1 /\ Head(q) = q[1] /\ t \in Seq(Pieces)
      /\ \A i \in 1 .. Len(t) : t[i] = q[i + 1]
  BY TailIs
<1> HIDE DEF t
<1>2. \A j \in 1 .. Len(q) : j > 1 => j - 1 \in 1 .. Len(t) /\ q[j] = t[j - 1]
  BY <1>1
<1>3. ASSUME NEW i \in 1 .. Len(t), List(t[i]), \A j \in 1 .. Len(t) : j > i => ~List(t[j])
      PROVE  t[i].pdu.text = text
  <2>1. i + 1 \in 1 .. Len(q) /\ t[i] = q[i + 1]
    BY <1>1
  <2>2. \A j \in 1 .. Len(q) : j > i + 1 => ~List(q[j])
    <3> TAKE j \in 1 .. Len(q)
    <3> HAVE j > i + 1
    <3>1. j - 1 \in 1 .. Len(t) /\ j - 1 > i /\ q[j] = t[j - 1]
      BY <1>2
    <3> QED BY <1>3, <3>1
  <2> QED BY <1>3, <2>1, <2>2 DEF Latest
<1>4. ASSUME List(Head(q)), NoList(t) PROVE Head(q).pdu.text = text
  <2>1. \A j \in 1 .. Len(t) : ~List(t[j])
    BY <1>1, <1>4, ElemsIndexed DEF NoList
  <2>2. 1 \in 1 .. Len(q) /\ \A j \in 1 .. Len(q) : j > 1 => ~List(q[j])
    BY <1>1, <1>2, <2>1
  <2> QED BY <1>1, <1>4, <2>2 DEF Latest
<1> QED BY <1>3, <1>4 DEF Latest, t

\* Which lists and greetings Run's replies bring forth.
LEMMA ReplyLists ==
  ASSUME NEW p \in Whole, clipText \in Texts
  PROVE  /\ p.kind # "monitorReady" => NoList(Reply(p))
         /\ \A i, j \in 1 .. Len(Reply(p)) : List(Reply(p)[i]) /\ List(Reply(p)[j]) => i = j
<1>1. \A kind \in PduKinds \ {"garbled"}, text \in Texts :
          /\ FromClient(Pdu(kind, text)) \in Seq(Pieces)
          /\ \A c \in Elems(FromClient(Pdu(kind, text))) : c.pdu.kind = kind
          /\ kind # "formatDataResponse" => Len(FromClient(Pdu(kind, text))) = 1
  <2> TAKE kind \in PduKinds \ {"garbled"}, text \in Texts
  <2>1. Pdu(kind, text) \in Whole /\ Pdu(kind, text).kind = kind
    BY WholeMessages DEF Pdu
  <2>2. /\ Split(Pdu(kind, text), ClientChunks) \in Seq(Pieces)
        /\ \A c \in Elems(Split(Pdu(kind, text), ClientChunks)) : c.pdu = Pdu(kind, text)
        /\ kind # "formatDataResponse" => Len(Split(Pdu(kind, text), ClientChunks)) = 1
    BY <2>1, SplitElems, SessionAssumption
  <2> QED BY <2>1, <2>2 DEF FromClient
<1>2. 0 \in Texts /\ NoList(<<>>)
  BY WholeMessages, ShortElems DEF NoList
<1>3. CASE p.kind = "monitorReady"
  <2> DEFINE caps == FromClient(Pdu("clipCaps", 0))
             list == FromClient(Pdu("formatList", 0))
  <2>1. /\ caps \in Seq(Pieces) /\ Len(caps) = 1 /\ \A c \in Elems(caps) : c.pdu.kind = "clipCaps"
        /\ list \in Seq(Pieces) /\ Len(list) = 1
    BY <1>1, <1>2 DEF PduKinds
  <2>2. Reply(p) = caps \o list
    BY <1>3 DEF Reply
  <2> HIDE DEF caps, list
  <2>3. ~List(caps[1])
    BY <2>1, ElemsIndexed DEF List
  <2>4. Len(caps \o list) = 2 /\ (caps \o list)[1] = caps[1]
    <3>1. /\ Len(caps \o list) = Len(caps) + Len(list)
          /\ \A i \in 1 .. Len(caps) + Len(list) :
                 (caps \o list)[i] = IF i <= Len(caps) THEN caps[i] ELSE list[i - Len(caps)]
      BY <2>1, ConcatProperties
    <3> QED BY <2>1, <3>1
  <2> QED BY <1>3, <2>2, <2>3, <2>4
<1>4. CASE p.kind # "monitorReady"
  <2> DEFINE ack == FromClient(Pdu("formatListResponse", 0))
             req == FromClient(Pdu("formatDataRequest", 0))
             data == FromClient(Pdu("formatDataResponse", clipText))
  <2>1. NoList(Reply(p)) /\ Reply(p) \in Seq(Pieces)
    <3>1. /\ ack \in Seq(Pieces) /\ \A c \in Elems(ack) : c.pdu.kind = "formatListResponse"
          /\ req \in Seq(Pieces) /\ \A c \in Elems(req) : c.pdu.kind = "formatDataRequest"
      BY <1>1, <1>2 DEF PduKinds
    <3>2. CASE p.kind = "formatList"
      <4>1. Reply(p) = ack \o req \/ Reply(p) = ack \o <<>>
        BY <3>2 DEF Reply, ListReply
      <4>2. <<>> \in Seq(Pieces) /\ Elems(<<>>) = {}
        BY ShortElems
      <4> HIDE DEF ack, req
      <4>3. /\ ack \o req \in Seq(Pieces) /\ Elems(ack \o req) \subseteq Elems(ack) \cup Elems(req)
            /\ ack \o <<>> \in Seq(Pieces) /\ Elems(ack \o <<>>) \subseteq Elems(ack)
        BY <3>1, <4>2, ConcatElems
      <4> QED BY <3>1, <4>1, <4>3 DEF NoList, List
    <3>3. CASE p.kind = "formatDataRequest"
      <4>1. Reply(p) = data
        BY <3>3 DEF Reply
      <4>2. data \in Seq(Pieces) /\ \A c \in Elems(data) : c.pdu.kind = "formatDataResponse"
        BY <1>1 DEF PduKinds
      <4> QED BY <4>1, <4>2 DEF NoList, List
    <3>4. CASE p.kind \notin {"monitorReady", "formatList", "formatDataRequest"}
      <4>1. Reply(p) = <<>>
        BY <3>4 DEF Reply
      <4> QED BY <1>2, <4>1, ShortElems
    <3> QED BY <1>4, <3>2, <3>3, <3>4
  <2>2. \A i \in 1 .. Len(Reply(p)) : ~List(Reply(p)[i])
    BY <2>1, ElemsIndexed DEF NoList
  <2> QED BY <2>1, <2>2
<1> QED BY <1>3, <1>4

-----------------------------------------------------------------------------
(* The steps.                                                              *)

\* What the rest of the proof needs of the queues.
LEMMA Queues ==
  ASSUME StreamInv, PasteInv
  PROVE  /\ runOut \in Seq(Pieces) /\ inputOut \in Seq(Pieces)
         /\ vcToServer \in Seq(Pieces) /\ vcToClient \in Seq(Pieces) /\ srvBuf \in Seq(Pieces)
         /\ clipText \in Texts
  BY DEF StreamInv, Stream, PasteInv, PasteTypes

LEMMA HandleChunkKeepsOffer ==
  ASSUME StreamInv, PasteInv, OfferInv, HandleChunk
  PROVE  OfferInv'
<1> DEFINE h == Head(vcToClient)
           buf == Collect(vcBuf, h)
<1>1. /\ runOut = <<>> /\ vcToClient # <<>> /\ vcToClient' = Tail(vcToClient)
      /\ UNCHANGED <<clipText, inputOut, vcToServer, greeted, owner, offered, greetedAt>>
      /\ IF IsLast(h) THEN runOut' = Reply(Message(buf)) ELSE runOut' = runOut
  BY DEF HandleChunk, RunUnchanged
<1>2. h = vcToClient[1] /\ h \in Pieces /\ (IsLast(h) => Message(buf) = h.pdu)
  BY <1>1, Collected
<1>3. /\ vcToClient \in Seq(Pieces) /\ Len(vcToClient) \in Nat \ {0}
      /\ Len(vcToClient') = Len(vcToClient) - 1
      /\ \A i \in 1 .. Len(vcToClient') : vcToClient'[i] = vcToClient[i + 1]
  BY <1>1, TailIs DEF StreamInv, Stream
<1> HIDE DEF h, buf
<1>4. h.pdu \in Whole /\ clipText \in Texts
  BY <1>2, Queues DEF Pieces
<1>5. \A i \in 1 .. Len(vcToClient') : Ready(vcToClient'[i]) =>
          i + 1 \in 1 .. Len(vcToClient) /\ Ready(vcToClient[i + 1])
  BY <1>3
<1>6. \A i, j \in 1 .. Len(runOut') : List(runOut'[i]) /\ List(runOut'[j]) => i = j
  BY <1>1, <1>2, <1>4, ReplyLists
<1>7. CASE Ready(h)
  <2>1. /\ greeted # "no" /\ greetedAt = NotYet
        /\ \A j \in 1 .. Len(vcToClient) : Ready(vcToClient[j]) => j = 1
    BY <1>2, <1>3, <1>7 DEF OfferInv, Greeting
  <2>2. \A i \in 1 .. Len(vcToClient') : ~Ready(vcToClient'[i])
    BY <1>3, <1>5, <2>1
  <2>3. Greeting'
    BY <1>1, <1>6, <2>1, <2>2 DEF Greeting
  <2> QED BY <1>1, <2>3 DEF OfferInv, Known, SharedSince
<1>8. CASE ~Ready(h)
  <2>1. NoList(runOut')
    <3>1. CASE IsLast(h)
      <4>1. runOut' = Reply(h.pdu) /\ h.pdu.kind # "monitorReady"
        BY <1>1, <1>2, <1>8, <3>1 DEF Ready
      <4> QED BY <1>4, <4>1, ReplyLists
    <3>2. CASE ~IsLast(h)
      BY <1>1, <3>2, ShortElems DEF NoList
    <3> QED BY <3>1, <3>2
  <2>2. \A i \in 1 .. Len(runOut') : ~List(runOut'[i])
    <3>1. runOut' \in Seq(Pieces)
      BY HandleChunkKeepsPaste DEF PasteInv, PasteTypes
    <3> QED BY <2>1, <3>1, ElemsIndexed DEF NoList
  <2>3. ASSUME NEW i \in 1 .. Len(vcToClient'), Ready(vcToClient'[i])
        PROVE  /\ greeted' # "no" /\ greetedAt' = NotYet /\ NoList(runOut')
               /\ \A j \in 1 .. Len(vcToClient') : Ready(vcToClient'[j]) => j = i
    <3>1. /\ greeted # "no" /\ greetedAt = NotYet
          /\ \A j \in 1 .. Len(vcToClient) : Ready(vcToClient[j]) => j = i + 1
      BY <1>5, <2>3 DEF OfferInv, Greeting
    <3>2. \A j \in 1 .. Len(vcToClient') : Ready(vcToClient'[j]) => j + 1 = i + 1
      BY <1>5, <3>1
    <3> QED BY <1>1, <1>3, <2>1, <3>1, <3>2
  <2>4. greeted' = "no" => greetedAt' = NotYet
    BY <1>1 DEF OfferInv, Greeting
  <2>5. Greeting'
    BY <2>2, <2>3, <2>4 DEF Greeting
  <2> QED BY <1>1, <2>5 DEF OfferInv, Known, SharedSince
<1> QED BY <1>7, <1>8

\* A goroutine appends a chunk to those under way.
LEMMA OneMoreUnderWay ==
  ASSUME StreamInv, PasteInv, NEW h \in Pieces, vcToServer' = Append(vcToServer, h),
         UNCHANGED <<clipText, owner, offered>>
  PROVE  /\ ~List(h) /\ NoList(vcToServer) => NoList(vcToServer')
         /\ ~List(h) /\ Known => Known'
         /\ List(h) /\ h.pdu.text = clipText => Known'
<1>1. Elems(vcToServer') = Elems(vcToServer) \cup {h}
  BY Queues, AppendIs
<1>2. NoList(vcToServer') <=> NoList(vcToServer) /\ ~List(h)
  BY <1>1 DEF NoList
<1>3. ASSUME ~List(h), Known PROVE Known'
  <2>1. CASE NoList(vcToServer)
    BY <1>2, <1>3, <2>1 DEF Known
  <2>2. CASE ~NoList(vcToServer)
    <3>1. Latest(vcToServer, clipText)
      BY <1>3, <2>2 DEF Known
    <3>2. Latest(vcToServer', clipText)
      BY <1>3, <3>1, Queues, LatestAppend
    <3>3. Latest(vcToServer, clipText)'
      BY <3>2 DEF Latest
    <3> QED BY <1>2, <2>2, <3>3 DEF Known
  <2> QED BY <2>1, <2>2
<1>4. ASSUME List(h), h.pdu.text = clipText PROVE Known'
  <2>1. Latest(vcToServer', clipText)
    BY <1>4, Queues, LatestAppend
  <2>2. Latest(vcToServer, clipText)'
    BY <2>1 DEF Latest
  <2> QED BY <1>2, <1>4, <2>2 DEF Known
<1> QED BY <1>2, <1>3, <1>4

LEMMA RunWritesKeepsOffer ==
  ASSUME StreamInv, PasteInv, OfferInv, RunWrites
  PROVE  OfferInv'
<1> DEFINE h == Head(runOut)
<1>1. /\ runOut # <<>> /\ runOut' = Tail(runOut) /\ vcToServer' = Append(vcToServer, h)
      /\ greetedAt' = IF List(h) /\ greetedAt = NotYet THEN clipText ELSE greetedAt
      /\ UNCHANGED <<clipText, inputOut, vcToClient, greeted, owner, offered>>
  BY DEF RunWrites, List
<1>2. /\ runOut' \in Seq(Pieces) /\ h \in Pieces /\ h \in Elems(runOut) /\ h = runOut[1]
      /\ Elems(runOut') \subseteq Elems(runOut)
      /\ Len(runOut) \in Nat \ {0} /\ Len(runOut') = Len(runOut) - 1
      /\ \A i \in 1 .. Len(runOut') : runOut'[i] = runOut[i + 1]
  BY <1>1, Queues, TailIs
<1> HIDE DEF h
<1>3. ~List(h) /\ Known => Known'
  BY <1>1, <1>2, OneMoreUnderWay
<1>4. \A i \in 1 .. Len(runOut') : List(runOut'[i]) =>
          i + 1 \in 1 .. Len(runOut) /\ List(runOut[i + 1])
  BY <1>2
<1>5. NoList(runOut) => NoList(runOut')
  BY <1>2 DEF NoList
<1>6. CASE List(h)
  <2>1. /\ greeted # "no" /\ greetedAt = NotYet
        /\ \A j \in 1 .. Len(runOut) : List(runOut[j]) => j = 1
    BY <1>2, <1>6 DEF OfferInv, Greeting
  <2>2. \A i \in 1 .. Len(runOut') : ~List(runOut'[i])
    BY <1>2, <1>4, <2>1
  <2>3. \A i \in 1 .. Len(vcToClient) : ~Ready(vcToClient[i])
    BY <1>2, <1>6 DEF OfferInv, Greeting, NoList
  <2>4. Greeting'
    BY <1>1, <2>1, <2>2, <2>3 DEF Greeting
\* Nothing has been shared since.
  <2>5. ~SharedSince'
    <3>1. clipText \in Nat /\ clipText' = clipText /\ greetedAt' = clipText
      BY <1>1, <1>6, <2>1, Queues DEF Texts
    <3> QED BY <3>1 DEF SharedSince
  <2> QED BY <1>1, <2>4, <2>5 DEF OfferInv
<1>7. CASE ~List(h)
  <2>0. greetedAt' = greetedAt
    BY <1>1, <1>7
  <2>1. ASSUME NEW i \in 1 .. Len(runOut'), List(runOut'[i])
        PROVE  /\ greeted' # "no" /\ greetedAt' = NotYet
               /\ \A j \in 1 .. Len(runOut') : List(runOut'[j]) => j = i
    <3>1. /\ greeted # "no" /\ greetedAt = NotYet
          /\ \A j \in 1 .. Len(runOut) : List(runOut[j]) => j = i + 1
      BY <1>4, <2>1 DEF OfferInv, Greeting
    <3>2. \A j \in 1 .. Len(runOut') : List(runOut'[j]) => j + 1 = i + 1
      BY <1>4, <3>1
    <3> QED BY <1>1, <1>2, <2>0, <3>1, <3>2
  <2>2. ASSUME NEW i \in 1 .. Len(vcToClient'), Ready(vcToClient'[i])
        PROVE  /\ greeted' # "no" /\ greetedAt' = NotYet /\ NoList(runOut')
               /\ \A j \in 1 .. Len(vcToClient') : Ready(vcToClient'[j]) => j = i
    BY <1>1, <1>5, <2>0, <2>2 DEF OfferInv, Greeting
  <2>3. greeted' = "no" => greetedAt' = NotYet
    BY <1>1, <2>0 DEF OfferInv, Greeting
  <2>4. Greeting'
    BY <2>1, <2>2, <2>3 DEF Greeting
  <2> QED BY <1>1, <1>3, <1>7, <2>0, <2>4 DEF OfferInv, SharedSince
<1> QED BY <1>6, <1>7

LEMMA InputWritesKeepsOffer ==
  ASSUME StreamInv, PasteInv, OfferInv, InputWrites
  PROVE  OfferInv'
<1> DEFINE h == Head(inputOut)
<1>1. /\ inputOut # <<>> /\ inputOut' = Tail(inputOut) /\ vcToServer' = Append(vcToServer, h)
      /\ UNCHANGED <<clipText, runOut, vcToClient, greeted, owner, offered, greetedAt>>
  BY DEF InputWrites
<1>2. h \in Pieces /\ h \in Elems(inputOut) /\ Elems(inputOut') \subseteq Elems(inputOut)
  BY <1>1, Queues, TailIs
<1> HIDE DEF h
<1>3. List(h) /\ h.pdu.text = clipText
  BY <1>1, <1>2 DEF OfferInv
<1>4. Known'
  BY <1>1, <1>2, <1>3, OneMoreUnderWay
<1>5. Greeting'
  BY <1>1 DEF OfferInv, Greeting
<1> QED BY <1>1, <1>2, <1>3, <1>4, <1>5 DEF OfferInv

\* Early or late, what is to be written announces the text just shared.
LEMMA SharingKeepsOffer ==
  ASSUME StreamInv, PasteInv, OfferInv, SendClientCutText
  PROVE  OfferInv'
<1> DEFINE p == Pdu("formatList", clipText + 1)
<1>1. /\ clipText < MaxTexts
      /\ clipText' = clipText + 1 /\ inputOut' = Split(p, ClientChunks)
      /\ UNCHANGED <<runOut, vcToServer, vcToClient, greeted, owner, offered, greetedAt>>
  BY DEF SendClientCutText, Stored, Announced, FromClient
<1>2. p \in Whole /\ p.kind = "formatList" /\ p.text = clipText'
  <2>1. clipText + 1 \in Texts
    BY <1>1, Queues, SessionAssumption DEF Texts
  <2> QED BY <1>1, <2>1, WholeMessages DEF Pdu, PduKinds
<1> HIDE DEF p
<1>3. /\ inputOut' \in Seq(Pieces) /\ Len(inputOut') = 1
      /\ \A c \in Elems(inputOut') : c.pdu = p
  BY <1>1, <1>2, SplitElems, SessionAssumption
<1>4. inputOut' # <<>>
  BY <1>3
<1>5. Greeting'
  BY <1>1 DEF OfferInv, Greeting
<1> QED BY <1>1, <1>2, <1>3, <1>4, <1>5 DEF OfferInv, List

\* The only new greeting towards the client is one just sent.
LEMMA ReadyGrows ==
  ASSUME StreamInv, NEW p \in Whole, vcToClient' = vcToClient \o FromServer(p)
  PROVE  \A i \in 1 .. Len(vcToClient') : Ready(vcToClient'[i]) =>
             \/ i \in 1 .. Len(vcToClient) /\ Ready(vcToClient[i])
             \/ p.kind = "monitorReady" /\ i = Len(vcToClient) + 1
  BY NewChunks DEF Ready

LEMMA MonitorReadyKeepsOffer ==
  ASSUME StreamInv, PasteInv, OfferInv, MonitorReady
  PROVE  OfferInv'
<1> DEFINE p == Pdu("monitorReady", 0)
<1>1. /\ greeted = "no" /\ greeted' = "sent" /\ vcToClient' = vcToClient \o FromServer(p)
      /\ UNCHANGED <<clipText, runOut, inputOut, vcToServer, owner, offered, greetedAt>>
  BY DEF MonitorReady, ServerKeeps
<1>2. p \in Whole
  BY WholeMessages DEF PduKinds
<1> HIDE DEF p
<1>3. /\ greetedAt = NotYet /\ \A i \in 1 .. Len(vcToClient) : ~Ready(vcToClient[i])
      /\ \A i \in 1 .. Len(runOut) : ~List(runOut[i])
  BY <1>1 DEF OfferInv, Greeting
<1>4. NoList(runOut)
  BY <1>3, Queues, ElemsIndexed DEF NoList
<1>5. \A i \in 1 .. Len(vcToClient') : Ready(vcToClient'[i]) => i = Len(vcToClient) + 1
  BY <1>1, <1>2, <1>3, ReadyGrows
<1>6. NoList(runOut') /\ greetedAt' = NotYet
  BY <1>1, <1>3, <1>4
<1>7. Greeting'
  BY <1>1, <1>3, <1>5, <1>6 DEF Greeting
<1> QED BY <1>1, <1>7 DEF OfferInv, Known, SharedSince

\* The server sends something that is no greeting.
LEMMA ServerSendsKeepsGreeting ==
  ASSUME StreamInv, OfferInv, NEW p \in Whole, p.kind # "monitorReady",
         vcToClient' = vcToClient \o FromServer(p),
         UNCHANGED <<runOut, greeted, greetedAt>>
  PROVE  Greeting'
<1>1. \A i \in 1 .. Len(vcToClient') : Ready(vcToClient'[i]) =>
          i \in 1 .. Len(vcToClient) /\ Ready(vcToClient[i])
  BY ReadyGrows
<1> QED BY <1>1 DEF OfferInv, Greeting

LEMMA CopyingKeepsOffer ==
  ASSUME StreamInv, PasteInv, OfferInv, ServerCopies
  PROVE  OfferInv'
<1> DEFINE p == Pdu("formatList", srvText + 1)
<1>1. /\ owner' = "server" /\ vcToClient' = vcToClient \o FromServer(p)
      /\ UNCHANGED <<clipText, runOut, inputOut, vcToServer, greeted, greetedAt>>
  BY DEF ServerCopies, ServerKeeps
<1>2. p \in Whole /\ p.kind # "monitorReady"
  <2>1. srvText + 1 \in Texts
    BY SessionAssumption DEF ServerCopies, StreamInv, Texts
  <2> QED BY <2>1, WholeMessages DEF PduKinds, Pdu
<1> HIDE DEF p
<1>3. Greeting'
  BY <1>1, <1>2, ServerSendsKeepsGreeting
<1>4. Known => Known'
  BY <1>1 DEF Known
<1> QED BY <1>1, <1>3, <1>4 DEF OfferInv, SharedSince

LEMMA PastingKeepsOffer ==
  ASSUME StreamInv, PasteInv, OfferInv, ServerPastes
  PROVE  OfferInv'
<1> DEFINE p == Pdu("formatDataRequest", 0)
<1>1. /\ vcToClient' = vcToClient \o FromServer(p)
      /\ UNCHANGED <<clipText, runOut, inputOut, vcToServer, greeted, owner, offered, greetedAt>>
  BY DEF ServerPastes, ServerKeeps
<1>2. p \in Whole /\ p.kind # "monitorReady"
  BY WholeMessages DEF PduKinds, Pdu
<1> HIDE DEF p
<1>3. Greeting'
  BY <1>1, <1>2, ServerSendsKeepsGreeting
<1>4. Known => Known'
  BY <1>1 DEF Known
<1> QED BY <1>1, <1>3, <1>4 DEF OfferInv, SharedSince

LEMMA ReadingKeepsOffer ==
  ASSUME StreamInv, PasteInv, OfferInv, ServerReadsChunk
  PROVE  OfferInv'
<1> DEFINE h == Head(vcToServer)
           m == Message(Collect(srvBuf, h))
<1>1. /\ vcToServer # <<>> /\ vcToServer' = Tail(vcToServer)
      /\ UNCHANGED <<clipText, runOut, inputOut, srvText, greetedAt>>
      /\ IF IsLast(h) THEN ServerHandlesPdu(m)
                      ELSE UNCHANGED <<vcToClient, greeted, owner, offered>>
  BY DEF ServerReadsChunk, ServerKeeps
<1>2. h \in Pieces /\ h \in Elems(vcToServer) /\ Elems(vcToServer') \subseteq Elems(vcToServer)
      /\ vcToServer' \in Seq(Pieces)
  BY <1>1, Queues, TailIs
<1>3. IsLast(h) => m = h.pdu \/ (m = Pdu("garbled", 0) /\ Response(h))
  BY <1>2, Queues, ServerMessage
<1>4. \A text : Latest(vcToServer, text) =>
          /\ Latest(vcToServer', text)
          /\ List(h) /\ NoList(vcToServer') => h.pdu.text = text
  BY <1>1, Queues, LatestTail
<1> HIDE DEF m, h
<1>5. NoList(vcToServer) => NoList(vcToServer') /\ ~List(h)
  BY <1>2 DEF NoList
<1>6. ~List(h) /\ NoList(vcToServer') => NoList(vcToServer)
  <2>1. Elems(vcToServer) \subseteq Elems(vcToServer') \cup {h}
    <3>1. /\ Len(vcToServer') = Len(vcToServer) - 1 /\ Len(vcToServer) \in Nat \ {0}
          /\ h = vcToServer[1] /\ \A i \in 1 .. Len(vcToServer') : vcToServer'[i] = vcToServer[i + 1]
      BY <1>1, Queues, TailIs DEF h
    <3>2. \A i \in 1 .. Len(vcToServer) : i = 1 \/ (i - 1 \in 1 .. Len(vcToServer')
                                                     /\ vcToServer[i] = vcToServer'[i - 1])
      BY <3>1
    <3>3. /\ Elems(vcToServer) = {vcToServer[i] : i \in 1 .. Len(vcToServer)}
          /\ Elems(vcToServer') = {vcToServer'[i] : i \in 1 .. Len(vcToServer')}
      BY <1>2, Queues, ElemsIndexed
    <3> QED BY <3>1, <3>2, <3>3
  <2> QED BY <2>1 DEF NoList
\* What does not depend on the message.
<1>7. ASSUME UNCHANGED <<greeted, owner, offered>>, ~List(h)
      PROVE  Known => Known'
  <2>2. ASSUME Known PROVE Known'
    <3>1. CASE NoList(vcToServer)
      BY <1>1, <1>5, <1>7, <2>2, <3>1 DEF Known
    <3>2. CASE ~NoList(vcToServer)
      <4>1. Latest(vcToServer', clipText) /\ ~NoList(vcToServer')
        BY <1>4, <1>6, <1>7, <2>2, <3>2 DEF Known
      <4>2. Latest(vcToServer, clipText)'
        BY <1>1, <4>1 DEF Latest
      <4> QED BY <4>1, <4>2 DEF Known
    <3> QED BY <3>1, <3>2
  <2> QED BY <2>2
<1>8. CASE ~IsLast(h)
  <2>1. UNCHANGED <<vcToClient, greeted, owner, offered>> /\ ~List(h)
    <3>1. h.pdu.kind # "formatDataResponse" => h.part = 1 /\ h.of = 1
      BY <1>2 DEF Pieces
    <3> QED BY <1>1, <1>8, <3>1 DEF List, IsLast
  <2>2. Greeting'
    BY <1>1, <2>1 DEF OfferInv, Greeting
  <2> QED BY <1>1, <1>7, <2>1, <2>2 DEF OfferInv, SharedSince
<1>9. CASE IsLast(h)
  <2>1. ServerHandlesPdu(m)
    BY <1>1, <1>9
  <2>2. m.kind = "formatList" <=> List(h)
    BY <1>3, <1>9 DEF List, Response, Pdu
  <2>3. \A i \in 1 .. Len(vcToClient') : Ready(vcToClient'[i]) =>
            i \in 1 .. Len(vcToClient) /\ Ready(vcToClient[i])
    <3>1. vcToClient' = vcToClient \o ServerReply(m)
      BY <2>1 DEF ServerHandlesPdu
    <3>2. CASE ServerReply(m) = <<>>
      <4>1. vcToClient' = vcToClient
        BY <3>1, <3>2, Queues
      <4> QED BY <4>1
    <3>3. CASE ServerReply(m) # <<>>
      <4>1. /\ Pdu("formatListResponse", 0) \in Whole
            /\ Pdu("formatDataResponse", IF owner = "server" THEN srvText ELSE 0) \in Whole
        BY WholeMessages DEF PduKinds, StreamInv
      <4>2. PICK r \in Whole : ServerReply(m) = FromServer(r) /\ r.kind # "monitorReady"
        BY <3>3, <4>1 DEF ServerReply, Pdu
      <4>3. vcToClient' = vcToClient \o FromServer(r)
        BY <3>1, <4>2
      <4> QED BY <4>2, <4>3, ReadyGrows
    <3> QED BY <3>2, <3>3
  <2>4. CASE List(h)
    <3>1. /\ owner' = "client" /\ offered' = m.text /\ m = h.pdu
          /\ greeted' = IF greeted = "no" THEN "no" ELSE "done"
      BY <1>3, <1>9, <2>1, <2>2, <2>4 DEF ServerHandlesPdu, Response, List
    <3>2. ~NoList(vcToServer)
      BY <1>2, <2>4 DEF NoList
    <3>3. greeted' = "no" <=> greeted = "no"
      BY <3>1
    <3>5. Greeting'
      BY <1>1, <2>3, <3>3 DEF OfferInv, Greeting
    <3>6. ASSUME Known PROVE Known'
      <4>1. Latest(vcToServer, clipText)
        BY <3>2, <3>6 DEF Known
      <4>2. CASE NoList(vcToServer')
        <5>1. offered' = clipText'
          BY <1>1, <1>4, <2>4, <3>1, <4>1, <4>2
        <5> QED BY <4>2, <5>1 DEF Known
      <4>3. CASE ~NoList(vcToServer')
        <5>1. Latest(vcToServer, clipText)'
          BY <1>1, <1>4, <4>1 DEF Latest
        <5> QED BY <4>3, <5>1 DEF Known
      <4> QED BY <4>2, <4>3
    <3> QED BY <1>1, <3>5, <3>6 DEF OfferInv, SharedSince
  <2>5. CASE ~List(h)
    <3>1. UNCHANGED <<greeted, owner, offered>>
      BY <2>1, <2>2, <2>5 DEF ServerHandlesPdu
    <3>2. Greeting'
      BY <1>1, <2>3, <3>1 DEF OfferInv, Greeting
    <3> QED BY <1>1, <1>7, <2>5, <3>1, <3>2 DEF OfferInv, SharedSince
  <2> QED BY <2>4, <2>5
<1> QED BY <1>8, <1>9

LEMMA OfferSteps == StreamInv /\ PasteInv /\ OfferInv /\ [Next]_vars => OfferInv'
<1> SUFFICES ASSUME StreamInv, PasteInv, OfferInv, [Next]_vars PROVE OfferInv'
  OBVIOUS
<1>1. CASE UNCHANGED clipVars
  <2>1. UNCHANGED <<clipText, runOut, inputOut, vcToServer, vcToClient, greeted, owner, offered,
                    greetedAt>>
    BY <1>1 DEF clipVars
  <2> QED BY <2>1 DEF OfferInv, Greeting, Known, SharedSince
<1> QED BY <1>1, HandleChunkKeepsOffer, RunWritesKeepsOffer, InputWritesKeepsOffer,
           SharingKeepsOffer, MonitorReadyKeepsOffer, CopyingKeepsOffer, PastingKeepsOffer,
           ReadingKeepsOffer
        DEF Next, ClipNext, ClipClient, ClipServer, vars

LEMMA OfferInit == Init => OfferInv
<1> SUFFICES ASSUME Init PROVE OfferInv
  OBVIOUS
<1>1. /\ clipText = 0 /\ runOut = <<>> /\ inputOut = <<>> /\ vcToClient = <<>>
      /\ greetedAt = NotYet
  BY DEF Init
<1>2. Elems(<<>>) = {} /\ Len(<<>>) = 0
  BY ShortElems
<1>3. ~SharedSince
  BY <1>1, SessionAssumption DEF SharedSince, NotYet
<1>4. Greeting
  BY <1>1, <1>2 DEF Greeting
<1> QED BY <1>1, <1>2, <1>3, <1>4 DEF OfferInv

\* A text shared since the client announced its empty list is on offer once
\* all is quiet, unless something was copied on the server (SendClientCutText,
\* handleCliprdrPDU), for any number of texts and of chunks.
THEOREM OfferStands == Spec => []OfferKept
<1>1. OfferInv => OfferKept
  <2> SUFFICES ASSUME OfferInv, Quiet, SharedSince PROVE owner = "server" \/ offered = clipText
    BY DEF OfferKept, SharedSince
  <2>1. inputOut = <<>> /\ vcToServer = <<>>
    BY DEF Quiet
  <2>2. NoList(vcToServer)
    BY <2>1, ShortElems DEF NoList
  <2> QED BY <2>1, <2>2 DEF OfferInv, Known
<1>2. StreamInv /\ PasteInv /\ OfferInv /\ [Next]_vars => OfferInv'
  BY OfferSteps
<1> QED BY <1>1, <1>2, OfferInit, StreamHolds, PasteHolds, PTL DEF Spec


-----------------------------------------------------------------------------
(* The types of the clipboard's state: how long the messages are.          *)

\* The numbers of chunks that messages are cut into.
Sizes == {1, ClientChunks, ServerChunks}
Sized(q) == \A c \in Elems(q) : c.of \in Sizes

SizeInv ==
    /\ Sized(runOut) /\ Sized(inputOut) /\ Sized(vcToServer) /\ Sized(vcToClient) /\ Sized(srvBuf)
    /\ pasted \in 0 .. Garbled
    /\ greetedAt \in Texts \cup {NotYet}
    /\ greeted \in {"no", "sent", "done"}
    /\ owner \in {"client", "server"}

LEMMA SplitSized ==
  ASSUME NEW p, NEW n \in {ClientChunks, ServerChunks}
  PROVE  Sized(Split(p, n))
<1> DEFINE k == IF p.kind = "formatDataResponse" THEN n ELSE 1
           s == [i \in 1 .. k |-> [pdu |-> p, part |-> i, of |-> k]]
<1>1. k \in Sizes /\ Split(p, n) = s
  BY DEF Split, Sizes
<1>2. \A i \in DOMAIN s : s[i].of = k
  OBVIOUS
<1> HIDE DEF k, s
<1> QED BY <1>1, <1>2 DEF Sized, Elems

LEMMA SizedQueues ==
  ASSUME NEW q \in Seq(Pieces), Sized(q)
  PROVE  /\ q # <<>> => Sized(Tail(q)) /\ Head(q) \in Pieces /\ Head(q).of \in Sizes
         /\ \A c \in Pieces : c.of \in Sizes => Sized(Append(q, c)) /\ Sized(<<c>>)
         /\ \A r \in Seq(Pieces) : Sized(r) => Sized(q \o r)
<1>1. ASSUME q # <<>> PROVE Sized(Tail(q)) /\ Head(q) \in Pieces /\ Head(q).of \in Sizes
  BY <1>1, TailIs DEF Sized
<1>2. ASSUME NEW c \in Pieces, c.of \in Sizes PROVE Sized(Append(q, c)) /\ Sized(<<c>>)
  BY <1>2, AppendIs, ShortElems DEF Sized
<1>3. ASSUME NEW r \in Seq(Pieces), Sized(r) PROVE Sized(q \o r)
  BY <1>3, ConcatElems DEF Sized
<1> QED BY <1>1, <1>2, <1>3

LEMMA ReplySized ==
  ASSUME PasteInv, NEW p \in Whole
  PROVE  Sized(Reply(p))
<1>1. \A kind \in PduKinds \ {"garbled"} : /\ FromClient(Pdu(kind, 0)) \in Seq(Pieces)
                                           /\ Sized(FromClient(Pdu(kind, 0)))
  BY WholeMessages, SplitElems, SplitSized, SessionAssumption DEF FromClient
<1> DEFINE caps == FromClient(Pdu("clipCaps", 0))
           list == FromClient(Pdu("formatList", 0))
           ack  == FromClient(Pdu("formatListResponse", 0))
           req  == FromClient(Pdu("formatDataRequest", 0))
           text == FromClient(Pdu("formatDataResponse", clipText))
<1>2. /\ caps \in Seq(Pieces) /\ list \in Seq(Pieces) /\ ack \in Seq(Pieces) /\ req \in Seq(Pieces)
      /\ Sized(caps) /\ Sized(list) /\ Sized(ack) /\ Sized(req)
  BY <1>1 DEF PduKinds
<1>3. <<>> \in Seq(Pieces) /\ Sized(<<>>)
  BY ShortElems DEF Sized
<1>4. Sized(text)
  BY SplitSized DEF FromClient
<1> HIDE DEF caps, list, ack, req, text
<1>5. Sized(caps \o list) /\ Sized(ack \o req) /\ Sized(ack \o <<>>)
  BY <1>2, <1>3, SizedQueues
<1>6. Sized(ListReply(p.text))
  BY <1>5 DEF ListReply, ack, req
<1>7. CASE p.kind = "monitorReady"
  BY <1>5, <1>7 DEF Reply, caps, list
<1>8. CASE p.kind = "formatList"
  BY <1>6, <1>8 DEF Reply
<1>9. CASE p.kind = "formatDataRequest"
  BY <1>4, <1>9 DEF Reply, text
<1>10. CASE p.kind \notin {"monitorReady", "formatList", "formatDataRequest"}
  <2>1. Reply(p) = <<>>
    BY <1>10 DEF Reply
  <2> QED BY <1>3, <2>1
<1> QED BY <1>7, <1>8, <1>9, <1>10

\* A message of the server joins the chunks towards the client.
LEMMA ServerSendsSized ==
  ASSUME StreamInv, SizeInv, NEW p \in Whole, vcToClient' = vcToClient \o FromServer(p)
  PROVE  Sized(vcToClient')
<1>1. FromServer(p) \in Seq(Pieces) /\ Sized(FromServer(p))
  BY SplitElems, SplitSized, SessionAssumption DEF FromServer
<1>2. vcToClient \in Seq(Pieces) /\ Sized(vcToClient)
  BY DEF StreamInv, Stream, SizeInv
<1> QED BY <1>1, <1>2, SizedQueues

LEMMA SizeSteps == StreamInv /\ PasteInv /\ SizeInv /\ [Next]_vars => SizeInv'
<1> SUFFICES ASSUME StreamInv, PasteInv, SizeInv, [Next]_vars PROVE SizeInv'
  OBVIOUS
<1>0. /\ runOut \in Seq(Pieces) /\ inputOut \in Seq(Pieces) /\ vcToServer \in Seq(Pieces)
      /\ srvBuf \in Seq(Pieces) /\ vcToClient \in Seq(Pieces)
      /\ Sized(runOut) /\ Sized(inputOut) /\ Sized(vcToServer) /\ Sized(vcToClient) /\ Sized(srvBuf)
  BY DEF StreamInv, Stream, PasteInv, PasteTypes, SizeInv
<1>1. CASE UNCHANGED clipVars
  BY <1>1 DEF SizeInv, clipVars
<1>2. CASE HandleChunk
  <2> DEFINE h == Head(vcToClient)
             buf == Collect(vcBuf, h)
  <2>1. /\ vcToClient # <<>> /\ vcToClient' = Tail(vcToClient)
        /\ IF IsLast(h) THEN runOut' = Reply(Message(buf)) ELSE runOut' = runOut
        /\ UNCHANGED <<inputOut, vcToServer, srvBuf, pasted, greeted, owner, greetedAt>>
    BY <1>2 DEF HandleChunk, RunUnchanged
  <2>2. h \in Pieces /\ (IsLast(h) => Message(buf) = h.pdu)
    BY <2>1, Collected
  <2> HIDE DEF h, buf
  <2>3. h.pdu \in Whole
    BY <2>2 DEF Pieces
  <2>4. Sized(runOut')
    BY <1>0, <2>1, <2>2, <2>3, ReplySized
  <2>5. Sized(vcToClient')
    BY <1>0, <2>1, SizedQueues
  <2> QED BY <2>1, <2>4, <2>5 DEF SizeInv
<1>3. CASE RunWrites
  <2>1. Sized(runOut') /\ Sized(vcToServer')
    BY <1>0, <1>3, SizedQueues DEF RunWrites
  <2>2. greetedAt' \in Texts \cup {NotYet}
    BY <1>3 DEF RunWrites, SizeInv, PasteInv, PasteTypes
  <2> QED BY <1>3, <2>1, <2>2 DEF RunWrites, SizeInv
<1>4. CASE InputWrites
  <2>1. Sized(inputOut') /\ Sized(vcToServer')
    BY <1>0, <1>4, SizedQueues DEF InputWrites
  <2> QED BY <1>4, <2>1 DEF InputWrites, SizeInv
<1>5. CASE SendClientCutText
  <2>1. Sized(inputOut')
    BY <1>5, SplitSized DEF SendClientCutText, Announced, FromClient
  <2> QED BY <1>5, <2>1 DEF SendClientCutText, SizeInv
<1>6. CASE MonitorReady
  <2>1. Pdu("monitorReady", 0) \in Whole
    BY WholeMessages DEF PduKinds
  <2>2. Sized(vcToClient')
    BY <1>6, <2>1, ServerSendsSized DEF MonitorReady
  <2> QED BY <1>6, <2>2 DEF MonitorReady, ServerKeeps, SizeInv
<1>7. CASE ServerCopies
  <2>1. srvText + 1 \in Texts
    BY <1>7, SessionAssumption DEF ServerCopies, StreamInv, Texts
  <2>2. Pdu("formatList", srvText + 1) \in Whole
    BY <2>1, WholeMessages DEF PduKinds
  <2>3. Sized(vcToClient')
    BY <1>7, <2>2, ServerSendsSized DEF ServerCopies
  <2> QED BY <1>7, <2>3 DEF ServerCopies, ServerKeeps, SizeInv
<1>8. CASE ServerPastes
  <2>1. Pdu("formatDataRequest", 0) \in Whole
    BY WholeMessages DEF PduKinds
  <2>2. Sized(vcToClient')
    BY <1>8, <2>1, ServerSendsSized DEF ServerPastes
  <2> QED BY <1>8, <2>2 DEF ServerPastes, ServerKeeps, SizeInv
<1>9. CASE ServerReadsChunk
  <2> DEFINE h == Head(vcToServer)
             buf == Collect(srvBuf, h)
             m == Message(buf)
  <2>1. /\ vcToServer # <<>> /\ vcToServer' = Tail(vcToServer)
        /\ UNCHANGED <<runOut, inputOut, greetedAt>>
        /\ IF IsLast(h) THEN srvBuf' = <<>> /\ ServerHandlesPdu(m)
                        ELSE srvBuf' = buf /\ UNCHANGED <<vcToClient, greeted, owner, pasted>>
    BY <1>9 DEF ServerReadsChunk, ServerKeeps
  <2>2. Sized(vcToServer') /\ h \in Pieces /\ h.of \in Sizes
    BY <1>0, <2>1, SizedQueues
  <2>3. Sized(buf)
    BY <1>0, <2>2, SizedQueues DEF Collect
  <2>4. IsLast(h) => m = h.pdu \/ m = Pdu("garbled", 0)
    BY <1>0, <2>2, ServerMessage
  <2> HIDE DEF m, buf, h
  <2>5. CASE ~IsLast(h)
    BY <2>1, <2>2, <2>3, <2>5 DEF SizeInv
  <2>6. CASE IsLast(h)
    <3>1. h.pdu \in Whole
      BY <2>2 DEF Pieces
    <3>2. Sized(vcToClient')
      <4>1. CASE ServerReply(m) = <<>>
        BY <1>0, <2>1, <2>6, <4>1 DEF ServerHandlesPdu
      <4>2. CASE ServerReply(m) # <<>>
        <5>1. /\ Pdu("formatListResponse", 0) \in Whole
              /\ Pdu("formatDataResponse", IF owner = "server" THEN srvText ELSE 0) \in Whole
          BY WholeMessages DEF PduKinds, StreamInv
        <5>2. PICK r \in Whole : ServerReply(m) = FromServer(r)
          BY <4>2, <5>1 DEF ServerReply
        <5> QED BY <2>1, <2>6, <5>2, ServerSendsSized DEF ServerHandlesPdu
      <4> QED BY <4>1, <4>2
    <3>3. pasted' \in 0 .. Garbled
      <4>1. Garbled \in 0 .. Garbled /\ Texts \subseteq 0 .. Garbled
        BY SessionAssumption DEF Texts, Garbled
      <4>2. m.kind = "garbled" \/ m.text \in Texts
        BY <2>4, <2>6, <3>1 DEF Whole, Pdu
      <4> QED BY <2>1, <2>6, <4>1, <4>2 DEF ServerHandlesPdu, SizeInv
    <3>4. greeted' \in {"no", "sent", "done"} /\ owner' \in {"client", "server"}
      BY <2>1, <2>6 DEF ServerHandlesPdu, SizeInv
    <3>5. Sized(srvBuf')
      BY <2>1, <2>6, ShortElems DEF Sized
    <3> QED BY <2>1, <2>2, <3>2, <3>3, <3>4, <3>5 DEF SizeInv
  <2> QED BY <2>5, <2>6
<1> QED BY <1>1, <1>2, <1>3, <1>4, <1>5, <1>6, <1>7, <1>8, <1>9
        DEF Next, ClipNext, ClipClient, ClipServer, vars

LEMMA SizeInit == Init => SizeInv
<1> SUFFICES ASSUME Init PROVE SizeInv
  OBVIOUS
<1>1. Elems(<<>>) = {} /\ 0 \in 0 .. Garbled
  BY ShortElems, SessionAssumption DEF Garbled
<1> QED BY <1>1 DEF Init, SizeInv, Sized

\* Pieces of such a size are the model's chunks.
LEMMA PieceFits ==
  ASSUME NEW c \in Pieces, c.of \in Sizes
  PROVE  c \in Chunks
<1> DEFINE most == ClientChunks + ServerChunks
<1>1. /\ c = [pdu |-> c.pdu, part |-> c.part, of |-> c.of]
      /\ c.pdu \in Whole /\ c.part \in Nat \ {0} /\ c.of \in Nat \ {0} /\ c.part <= c.of
  BY DEF Pieces
<1>2. c.part \in 1 .. most /\ c.of \in 1 .. most
  BY <1>1, SessionAssumption DEF Sizes
<1>3. c.pdu \in Pdus
  BY <1>1, SessionAssumption DEF Whole, Pdus, Texts, Garbled
<1> HIDE DEF most
<1>4. c \in [pdu : Pdus, part : 1 .. most, of : 1 .. most]
  BY <1>1, <1>2, <1>3
<1> QED BY <1>4 DEF Chunks, most

LEMMA SizedChunks ==
  ASSUME NEW q \in Seq(Pieces), Sized(q)
  PROVE  q \in Seq(Chunks)
<1>1. \A i \in 1 .. Len(q) : q[i] \in Pieces /\ q[i].of \in Sizes
  BY LenProperties DEF Sized, Elems
<1>2. \A c \in Pieces : c.of \in Sizes => c \in Chunks
  BY PieceFits
<1>3. Len(q) \in Nat /\ q = [i \in 1 .. Len(q) |-> q[i]]
  BY LenProperties
<1>4. \A i \in 1 .. Len(q) : q[i] \in Chunks
  BY <1>1, <1>2
<1> QED BY <1>3, <1>4, SeqDef

LEMMA BufferFits ==
  ASSUME StreamInv, SizeInv
  PROVE  vcBuf \in Seq(Chunks)
<1>1. CASE vcBuf = <<>>
  BY <1>1
<1>2. CASE vcBuf # <<>>
  <2> DEFINE c == vcToClient[1]
             n == c.part - 1
  <2>1. /\ vcToClient # <<>> /\ c.part > 1 /\ vcBuf = First(c, n)
    BY <1>2 DEF StreamInv, Buffered
  <2>2. c \in Pieces /\ c.of \in Sizes
    <3>1. vcToClient \in Seq(Pieces) /\ Sized(vcToClient) /\ Head(vcToClient) = c
      BY <2>1 DEF StreamInv, Stream, SizeInv
    <3> QED BY <2>1, <3>1, SizedQueues
  <2>3. n \in Nat /\ \A i \in 1 .. n : i \in Nat /\ i \in 1 .. c.of
    BY <2>1, <2>2 DEF Pieces
  <2> HIDE DEF c, n
  <2>4. \A i \in 1 .. n : Piece(c, i) \in Pieces /\ Piece(c, i).of = c.of
    BY <2>2, <2>3, PieceIs
  <2>5. \A i \in 1 .. n : Piece(c, i) \in Chunks
    BY <2>2, <2>4, PieceFits
  <2>6. First(c, n) \in [1 .. n -> Chunks]
    BY <2>5 DEF First
  <2> QED BY <2>1, <2>3, <2>6, ChunksFromFunction
<1> QED BY <1>1, <1>2

\* The state of the session keeps its type: what is chunked on either side of
\* the channel are numbered pieces of messages, and a client that collects
\* pieces never holds more of them than the message has.
THEOREM SessionTypes == Spec => []TypeOK
<1>1. ConnectTypeOK /\ StreamInv /\ PasteInv /\ SizeInv => TypeOK
  <2> SUFFICES ASSUME ConnectTypeOK, StreamInv, PasteInv, SizeInv PROVE TypeOK
    OBVIOUS
  <2>1. /\ runOut \in Seq(Chunks) /\ inputOut \in Seq(Chunks) /\ vcToServer \in Seq(Chunks)
        /\ vcToClient \in Seq(Chunks) /\ srvBuf \in Seq(Chunks) /\ vcBuf \in Seq(Chunks)
    BY SizedChunks, BufferFits DEF StreamInv, Stream, PasteInv, PasteTypes, SizeInv
  <2>2. local \in 0 .. Garbled
    BY SessionAssumption DEF StreamInv, Texts, Garbled
  <2> QED BY <2>1, <2>2 DEF TypeOK, StreamInv, PasteInv, PasteTypes, SizeInv
<1> QED BY <1>1, SizeInit, SizeSteps, ConnectTypes, StreamHolds, PasteHolds, PTL DEF Spec
=============================================================================
