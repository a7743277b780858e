----------------------- MODULE ScreenDecoders_proofs -----------------------
(***************************************************************************)
(* Proofs about ScreenDecoders: the RFB handshake never hangs or goes      *)
(* wrong, whatever versions, security types and credentials there are, and *)
(* interleaved RLE is decoded to the picture the server meant, for bitmaps *)
(* of any size and fields of any width.  Rectangles, in every way a server *)
(* may write them, are read as the pictures that were meant.  Drawing      *)
(* orders are the subject of RdpOrders_proofs; what is shown there is      *)
(* taken over here.                                                        *)
(*                                                                         *)
(* The parts share no variables, so each step of a behaviour is one of its *)
(* part or leaves that part's variables alone, and what each part's own    *)
(* specification implies holds of the whole.                               *)
(*                                                                         *)
(* The handshake is a conversation in which one side has something to read *)
(* and the other waits; its invariant lists the points it can be at.  That *)
(* of RLE says what the order under way means, in terms of the picture and *)
(* of what the client has kept of the orders before.  That of rectangles   *)
(* says where one is between being sent and being shown, and that what is  *)
(* under way is read as the picture that was meant: one lemma for each way *)
(* to write one says that reading gives it back.                           *)
(***************************************************************************)
EXTENDS ScreenDecoders, RdpOrders_proofs

-----------------------------------------------------------------------------
(* The parts.                                                              *)

\* What a behaviour does to the variables of the handshake, the handshake does.
THEOREM HandshakeTakesPart == Spec => HandshakeSpec
<1>1. Init => HandshakeInit
  BY DEF Init
<1>2. [Next]_decoderVars => [HandshakeNext]_handshakeVars
  BY Zenon DEF Next, Quiet, decoderVars
<1> QED BY <1>1, <1>2, PTL DEF Spec, HandshakeSpec

\* Likewise for the decoding of bitmaps.
THEOREM BitmapsTakePart == Spec => RleSpec
<1>1. Init => RleInit
  BY DEF Init
<1>2. [Next]_decoderVars => [RleNext]_rleVars
  BY Zenon DEF Next, Quiet, decoderVars
<1> QED BY <1>1, <1>2, PTL DEF Spec, RleSpec

\* For the rectangles.
THEOREM RectsTakePart == Spec => RectsSpec
<1>1. Init => RectsInit
  BY DEF Init
<1>2. [Next]_decoderVars => [RectsNext]_rectsVars
  BY Zenon DEF Next, Quiet, decoderVars
<1> QED BY <1>1, <1>2, PTL DEF Spec, RectsSpec

\* And for the drawing orders.
THEOREM OrdersTakePart == Spec => OrdersSpec
<1>1. Init => OrdersInit
  BY DEF Init
<1>2. [Next]_decoderVars => [OrdersNext]_ordersVars
  BY Zenon DEF Next, Quiet, decoderVars
<1> QED BY <1>1, <1>2, PTL DEF Spec, OrdersSpec

\* So what RdpOrders_proofs shows of drawing orders holds of the whole: the
\* client paints what the server drew and remembers what it remembers.
THEOREM OrdersDecoded == Spec => [](OrdersTypeOK /\ OrdersFaithful)
BY OrdersTakePart, OrdersPainted, PTL

-----------------------------------------------------------------------------
(* The handshake.                                                          *)

Agreed == <<major, minor>>
Listed == {<<3, 7>>, <<3, 8>>}       \* the versions under which the client picks a type
Known == {None, VNCAuth, ARD}

\* The message each side reads next, and those under way.
Stands(c, s, tc, ts) == client = c /\ server = s /\ toClient = tc /\ toServer = ts

\* The points of the conversation.
Announced3 ==
    Stands("version", "version", <<Message("version", announced)>>, <<>>)
Answered ==
    /\ Agreed = Clamped(announced)
    /\ Stands(IF Agreed = <<3, 3>> THEN "secType" ELSE "secTypes", "version",
              <<>>, <<Message("version", Agreed)>>)
Dictated == \E t \in {None, VNCAuth} :
    /\ Agreed = <<3, 3>> /\ agreed = Agreed /\ secured = t
    /\ t = None => granted = "granted"
    /\ Stands("secType", Awaits(t), <<Message("secType", t)>> \o Authenticates(t), <<>>)
Listing ==
    /\ Agreed \in Listed /\ agreed = Agreed /\ offers # {}
    /\ Stands("secTypes", "secType", <<Message("secTypes", offers)>>, <<>>)
Picked == \E t \in Known :
    /\ Agreed \in Listed /\ agreed = Agreed /\ chosen = t
    /\ Stands(ReadsAfterType(t), "secType", <<>>, <<Message("secType", t)>> \o SaysAfterType(t))
Challenged == \E t \in {VNCAuth, ARD} :
    /\ agreed = Agreed /\ chosen = t /\ secured = t
    /\ Stands(ReadsAfterType(t), Awaits(t), Authenticates(t), <<>>)
Responded == \E t \in {VNCAuth, ARD} :
    /\ agreed = Agreed /\ chosen = t /\ secured = t
    /\ Stands("securityResult", Awaits(t), <<>>, <<Message(Awaits(t), "-")>>)
Admitted ==
    /\ granted = "granted" /\ agreed = Agreed /\ secured = chosen
    /\ \/ Stands("securityResult", "clientInit", <<Message("securityResult", "ok")>>, <<>>)
       \/ Stands("serverInit", "clientInit", <<>>, <<Message("clientInit", "shared")>>)
       \/ Stands("serverInit", "setup", <<Message("serverInit", "-")>>, <<>>)
       \/ Stands("live", "setup", <<>>, <<Message("setup", "format"), Message("setup", "encodings")>>)
       \/ Stands("live", "setup", <<>>, <<Message("setup", "encodings")>>)
       \/ Stands("live", "live", <<>>, <<>>)
Refused ==
    \/ Stands("secType", "closed", <<Message("secType", Invalid), Message("reason", "-")>>, <<>>)
    \/ Stands("secTypes", "closed", <<Message("secTypes", {}), Message("reason", "-")>>, <<>>)
    \/ Stands("reason", "closed", <<Message("reason", "-")>>, <<>>)
    \/ /\ agreed = Agreed
       /\ Stands("securityResult", "closed",
                 <<Message("securityResult", "failed")>>
                     \o (IF Agreed = <<3, 8>> THEN <<Message("resultReason", "-")>> ELSE <<>>), <<>>)
    \/ Stands("resultReason", "closed", <<Message("resultReason", "-")>>, <<>>)
    \/ Stands("failed", "closed", <<>>, <<>>)
    \/ Stands("failed", "secType", <<>>, <<>>)      \* no type both know

Conversation ==
    \/ Announced3 \/ Answered \/ Dictated \/ Listing \/ Picked
    \/ Challenged \/ Responded \/ Admitted \/ Refused
HandshakeInv == HandshakeTypeOK /\ Conversation

Versions == {<<3, 3>>, <<3, 7>>, <<3, 8>>}

LEMMA PairIs == \A a, b : <<a>> \o <<b>> = <<a, b>>
<1> TAKE a, b
<1> DEFINE S == {a, b}
           p == <<a>>
           q == <<b>>
           r == p \o q
           s == <<a, b>>
<1>1. p \in Seq(S) /\ q \in Seq(S) /\ Len(p) = 1 /\ Len(q) = 1 /\ p[1] = a /\ q[1] = b
  OBVIOUS
<1>2. s \in Seq(S) /\ Len(s) = 2 /\ s[1] = a /\ s[2] = b
  OBVIOUS
<1> HIDE DEF p, q, s
<1>3. /\ r \in Seq(S) /\ Len(r) = 2
      /\ \A i \in 1 .. 2 : r[i] = IF i <= 1 THEN p[i] ELSE q[i - 1]
  BY <1>1, ConcatProperties
<1> HIDE DEF r
<1>4. \A i \in 1 .. Len(r) : r[i] = s[i]
  BY <1>1, <1>2, <1>3
<1>5. r = s
  BY <1>2, <1>3, <1>4, SeqEqual
<1> QED BY <1>5 DEF r, p, q, s

LEMMA Short ==
  /\ \A a : <<a>> # <<>> /\ Head(<<a>>) = a /\ Tail(<<a>>) = <<>> /\ <<>> \o <<a>> = <<a>> /\ <<a>> \o <<>> = <<a>>
  /\ \A a, b : /\ <<a, b>> # <<>> /\ Head(<<a, b>>) = a /\ Tail(<<a, b>>) = <<b>>
               /\ <<>> \o <<a, b>> = <<a, b>> /\ <<a>> \o <<b>> = <<a, b>>
  /\ <<>> \o <<>> = <<>>
<1>1. \A a : <<a>> # <<>> /\ Head(<<a>>) = a /\ Tail(<<a>>) = <<>>
  OBVIOUS
<1>2. \A a : <<>> \o <<a>> = <<a>> /\ <<a>> \o <<>> = <<a>>
  OBVIOUS
<1>3. \A a, b : <<a, b>> # <<>> /\ Head(<<a, b>>) = a /\ Tail(<<a, b>>) = <<b>>
  OBVIOUS
<1>4. \A a, b : <<>> \o <<a, b>> = <<a, b>>
  OBVIOUS
<1>5. <<>> \o <<>> = <<>>
  OBVIOUS
<1> QED BY <1>1, <1>2, <1>3, <1>4, <1>5, PairIs

LEMMA MessageIs == \A kind, val : Message(kind, val).kind = kind /\ Message(kind, val).val = val
  BY DEF Message

LEMMA VersionsDiffer ==
  /\ <<3, 3>> # <<3, 7>> /\ <<3, 3>> # <<3, 8>> /\ <<3, 7>> # <<3, 8>>
  /\ \A v \in Versions : v # <<0, 0>>
  BY DEF Versions

LEMMA TypesDiffer ==
  /\ None # VNCAuth /\ None # ARD /\ VNCAuth # ARD /\ Invalid \notin Known
  /\ Known \subseteq SecTypes /\ Invalid \notin SecTypes
  BY DEF None, VNCAuth, ARD, Invalid, Known, SecTypes, Other

\* The client moves only if it has something to read, and only by the action
\* for the message it waits for; the server likewise.
LEMMA ClientTurn ==
  ASSUME OnRead
  PROVE  /\ toClient # <<>> /\ client = Head(toClient).kind
         /\ client = "version" => OnVersion
         /\ client = "secType" => OnSecType
         /\ client = "secTypes" => OnSecTypes
         /\ client = "reason" => OnReason
         /\ client \in {"challenge", "dhParams"} => OnChallenge
         /\ client = "securityResult" => OnSecurityResult
         /\ client = "resultReason" => OnResultReason
         /\ client = "serverInit" => OnServerInit
  BY DEF OnRead, OnVersion, OnSecType, OnSecTypes, OnReason, OnChallenge, OnSecurityResult, OnResultReason,
         OnServerInit, Reads, Hears

LEMMA ServerTurn ==
  ASSUME ServerStep
  PROVE  /\ toServer # <<>> /\ server = Head(toServer).kind
         /\ server = "version" => ServerVersion
         /\ server = "secType" => ServerSecType
         /\ server \in {"response", "ardResponse"} => ServerVerdict
         /\ server \in {"clientInit", "setup"} => ServerInitialises
  BY DEF ServerStep, ServerVersion, ServerSecType, ServerVerdict, ServerInitialises, ServerTakes, IsTold

\* What a read, or a step of the server, leaves behind.
LEMMA ClientMoves ==
  ASSUME NEW kind, NEW said, NEW next, Reads(kind, said, next)
  PROVE  /\ toClient' = Tail(toClient) /\ toServer' = toServer \o said /\ client' = next /\ server' = server
         /\ UNCHANGED <<agreed, secured, granted, announced, offers, entered>>
  BY DEF Reads, ServerVars

LEMMA ServerMoves ==
  ASSUME NEW kind, NEW said, NEW next, ServerTakes(kind, said, next)
  PROVE  /\ toServer' = Tail(toServer) /\ toClient' = toClient \o said /\ server' = next /\ client' = client
         /\ UNCHANGED <<major, minor, chosen, announced, offers, entered>>
  BY DEF ServerTakes, ClientVars

\* Messages of an announcement begin the exchange.
LEMMA FromAnnounced ==
  ASSUME HandshakeTypeOK, Announced3, HandshakeNext
  PROVE  HandshakeInv'
<1>1. OnVersion
  BY ClientTurn, ServerTurn DEF Announced3, Stands, HandshakeNext
<1> DEFINE v == Clamped(announced)
<1>2. Read = announced
  BY Short, MessageIs DEF Announced3, Stands, Read
<1>3. /\ Reads("version", <<Message("version", v)>>, IF v = <<3, 3>> THEN "secType" ELSE "secTypes")
      /\ major' = v[1] /\ minor' = v[2] /\ chosen' = chosen
  BY <1>1, <1>2 DEF OnVersion
<1>4. v \in Versions
  BY DEF Clamped, Versions
<1> HIDE DEF v
<1>5. Agreed' = v
  BY <1>3, <1>4 DEF Agreed, Versions
<1>6. /\ toClient' = <<>> /\ toServer' = <<Message("version", v)>> /\ server' = "version"
      /\ client' = IF v = <<3, 3>> THEN "secType" ELSE "secTypes"
      /\ UNCHANGED <<agreed, secured, granted, announced, offers, entered>>
  BY <1>3, Short, ClientMoves DEF Announced3, Stands
<1>7. Answered'
  BY <1>5, <1>6 DEF Answered, Stands, v
<1>8. HandshakeTypeOK'
  BY <1>3, <1>4, <1>5, <1>6 DEF HandshakeTypeOK, Agreed, Versions, ClientReads, ServerReads
<1> QED BY <1>7, <1>8 DEF HandshakeInv, Conversation

\* Nothing before, nothing after a message or two.
LEMMA Opening ==
  \A t \in Known :
     /\ <<>> \o (<<Message("secType", t)>> \o Authenticates(t)) = <<Message("secType", t)>> \o Authenticates(t)
     /\ <<Message("secType", t)>> \o Authenticates(t) # <<>>
     /\ Head(<<Message("secType", t)>> \o Authenticates(t)) = Message("secType", t)
     /\ Tail(<<Message("secType", t)>> \o Authenticates(t)) = Authenticates(t)
     /\ <<>> \o Authenticates(t) = Authenticates(t)
<1> TAKE t \in Known
<1> DEFINE m == Message("secType", t)
<1> HIDE DEF m
<1>1. CASE \E k : Authenticates(t) = <<Message(k, "-")>>
  <2>1. PICK k : Authenticates(t) = <<Message(k, "-")>>
    BY <1>1
  <2> DEFINE n == Message(k, "-")
  <2> HIDE DEF n
  <2>2. Authenticates(t) = <<n>> /\ <<m>> \o Authenticates(t) = <<m, n>>
    BY <2>1, Short DEF n
  <2>3. <<>> \o <<m, n>> = <<m, n>> /\ <<m, n>> # <<>> /\ Head(<<m, n>>) = m /\ Tail(<<m, n>>) = <<n>> /\ <<>> \o <<n>> = <<n>>
    BY Short
  <2> QED BY Zenon, <2>2, <2>3 DEF m
<1>2. CASE Authenticates(t) = <<>>
  BY Zenon, <1>2, Short DEF m
<1> QED BY <1>1, <1>2 DEF Authenticates

LEMMA FromAnswered ==
  ASSUME \A v \in ServerVersions : v[1] > 3 \/ (v[1] = 3 /\ v[2] >= 3),
         HandshakeTypeOK, Answered, HandshakeNext
  PROVE  HandshakeInv'
<1> DEFINE v == Agreed
<1>1. ServerVersion
  BY ClientTurn, ServerTurn DEF Answered, Stands, HandshakeNext
<1>2. v = Clamped(announced) /\ Said = v /\ Tail(toServer) = <<>> /\ toClient = <<>>
  BY Short, MessageIs DEF Answered, Stands, Said
<1>3. v \in Versions /\ announced[1] \in Nat /\ announced[2] \in Nat
  BY <1>2, HandshakeAssumption DEF Clamped, Versions, HandshakeTypeOK
<1>4. Knows(v)
  BY <1>2, <1>3 DEF Knows, Clamped, HandshakeTypeOK, Versions
<1>5. client = IF v = <<3, 3>> THEN "secType" ELSE "secTypes"
  BY DEF Answered, Stands
<1>6. agreed' = v /\ chosen \in SecTypes \cup {Invalid} /\ secured \in SecTypes \cup {Invalid}
      /\ granted \in {"pending", "granted", "denied"} /\ offers \in Offers /\ entered \in Credentials
      /\ announced \in ServerVersions
  BY <1>1, <1>2 DEF ServerVersion, HandshakeTypeOK
<1> HIDE DEF v
<1>7. ASSUME NEW said, NEW next, ServerTakes("version", said, next), <<>> \o said = said,
             next \in ServerReads \cup {"closed"},
             secured' \in SecTypes \cup {Invalid}, granted' \in {"pending", "granted", "denied"}
      PROVE  /\ HandshakeTypeOK' /\ Agreed' = v /\ agreed' = Agreed' /\ offers' = offers
             /\ client' = client /\ server' = next /\ toClient' = said /\ toServer' = <<>>
  <2>1. /\ toServer' = <<>> /\ toClient' = <<>> \o said /\ server' = next /\ client' = client
        /\ UNCHANGED <<major, minor, chosen, announced, offers, entered>>
    BY <1>2, <1>7, ServerMoves
  <2>2. Agreed' = v /\ agreed' = Agreed'
    BY <1>6, <2>1 DEF Agreed, v
  <2>3. toClient' = said
    BY <1>7, <2>1
  <2>4. HandshakeTypeOK'
    BY <1>3, <1>5, <1>6, <1>7, <2>1, <2>2 DEF HandshakeTypeOK, Agreed, Versions, ClientReads, ServerReads
  <2> QED BY <2>1, <2>2, <2>3, <2>4 DEF Stands
<1>8. CASE v = <<3, 3>>
  <2>1. CASE \E type \in offers \cap {None, VNCAuth} :
                  /\ secured' = type
                  /\ granted' = (IF type = None THEN "granted" ELSE "pending")
                  /\ ServerTakes("version", <<Message("secType", type)>> \o Authenticates(type), Awaits(type))
    <3>1. PICK type \in offers \cap {None, VNCAuth} :
                  /\ secured' = type
                  /\ granted' = (IF type = None THEN "granted" ELSE "pending")
                  /\ ServerTakes("version", <<Message("secType", type)>> \o Authenticates(type), Awaits(type))
      BY <2>1
    <3>2. type \in Known /\ Awaits(type) \in ServerReads
      BY DEF Known, Awaits, ServerReads
    <3>3. <<>> \o (<<Message("secType", type)>> \o Authenticates(type)) = <<Message("secType", type)>> \o Authenticates(type)
      BY <3>2, Opening
    <3>4. secured' \in SecTypes \cup {Invalid} /\ granted' \in {"pending", "granted", "denied"}
      BY <3>1, <3>2, TypesDiffer
    <3>5. /\ HandshakeTypeOK' /\ Agreed' = v /\ agreed' = Agreed'
          /\ client' = client /\ server' = Awaits(type) /\ toClient' = <<Message("secType", type)>> \o Authenticates(type) /\ toServer' = <<>>
      BY <1>7, <3>1, <3>2, <3>3, <3>4
    <3>6. client = "secType" /\ (type = None => granted' = "granted")
      BY <1>5, <1>8, <3>1
    <3>7. Dictated'
      BY <1>8, <3>1, <3>5, <3>6 DEF Dictated, Stands
    <3> QED BY <3>5, <3>7 DEF HandshakeInv, Conversation
  <2>2. CASE /\ secured' = Invalid /\ granted' = "denied"
             /\ ServerTakes("version", <<Message("secType", Invalid), Message("reason", "-")>>, "closed")
    <3>1. HandshakeTypeOK' /\ client' = client /\ server' = "closed" /\ toClient' = <<Message("secType", Invalid), Message("reason", "-")>> /\ toServer' = <<>>
      BY <1>7, <2>2, Short
    <3>2. Refused'
      BY <1>5, <1>8, <3>1 DEF Refused, Stands
    <3> QED BY <3>1, <3>2 DEF HandshakeInv, Conversation
  <2> QED BY <1>1, <1>2, <1>4, <1>8, <2>1, <2>2 DEF ServerVersion
<1>9. CASE v # <<3, 3>> /\ offers = {}
  <2>1. /\ secured' = Invalid /\ granted' = "denied"
        /\ ServerTakes("version", <<Message("secTypes", {}), Message("reason", "-")>>, "closed")
    BY <1>1, <1>2, <1>4, <1>9 DEF ServerVersion
  <2>2. HandshakeTypeOK' /\ client' = client /\ server' = "closed" /\ toClient' = <<Message("secTypes", {}), Message("reason", "-")>> /\ toServer' = <<>>
    BY <1>7, <2>1, Short
  <2>3. Refused'
    BY <1>5, <1>9, <2>2 DEF Refused, Stands
  <2> QED BY <2>2, <2>3 DEF HandshakeInv, Conversation
<1>10. CASE v # <<3, 3>> /\ offers # {}
  <2>1. UNCHANGED <<secured, granted>> /\ ServerTakes("version", <<Message("secTypes", offers)>>, "secType")
    BY <1>1, <1>2, <1>4, <1>10 DEF ServerVersion
  <2>2. /\ HandshakeTypeOK' /\ Agreed' = v /\ agreed' = Agreed' /\ offers' = offers
        /\ client' = client /\ server' = "secType" /\ toClient' = <<Message("secTypes", offers)>> /\ toServer' = <<>>
    BY <1>6, <1>7, <2>1, Short DEF ServerReads
  <2>3. Listing'
    BY <1>3, <1>5, <1>10, <2>2 DEF Listing, Listed, Versions, Stands
  <2> QED BY <2>2, <2>3 DEF HandshakeInv, Conversation
<1> QED BY <1>8, <1>9, <1>10

\* A read that leaves the version alone, and a step of the server that leaves
\* its version alone.
LEMMA Hearing ==
  ASSUME HandshakeTypeOK, UNCHANGED <<major, minor>>, chosen' \in SecTypes \cup {Invalid},
         NEW kind, NEW said, NEW next, Reads(kind, said, next), next \in ClientReads \cup {"live", "failed"}
  PROVE  /\ HandshakeTypeOK' /\ Agreed' = Agreed
         /\ toClient' = Tail(toClient) /\ toServer' = toServer \o said /\ client' = next /\ server' = server
         /\ UNCHANGED <<major, minor, agreed, secured, granted, announced, offers, entered>>
  BY ClientMoves DEF HandshakeTypeOK, Agreed

LEMMA Answering ==
  ASSUME HandshakeTypeOK, agreed' = agreed, secured' \in SecTypes \cup {Invalid},
         granted' \in {"pending", "granted", "denied"},
         NEW kind, NEW said, NEW next, ServerTakes(kind, said, next), next \in ServerReads \cup {"live", "closed"}
  PROVE  /\ HandshakeTypeOK' /\ Agreed' = Agreed
         /\ toServer' = Tail(toServer) /\ toClient' = toClient \o said /\ server' = next /\ client' = client
         /\ UNCHANGED <<major, minor, chosen, announced, offers, entered>>
  BY ServerMoves DEF HandshakeTypeOK, Agreed

\* Under 3.3 the client goes by the type the server dictates.
LEMMA FromDictated ==
  ASSUME HandshakeTypeOK, Dictated, HandshakeNext
  PROVE  HandshakeInv'
<1>1. PICK t \in {None, VNCAuth} :
          /\ Agreed = <<3, 3>> /\ agreed = Agreed /\ secured = t
          /\ t = None => granted = "granted"
          /\ Stands("secType", Awaits(t), <<Message("secType", t)>> \o Authenticates(t), <<>>)
  BY DEF Dictated
<1>2. t \in Known /\ t # Invalid /\ t \in SecTypes
  BY <1>1, TypesDiffer DEF Known
<1>3. OnSecType
  BY <1>1, ClientTurn, ServerTurn DEF Stands, HandshakeNext
<1>4. toClient # <<>> /\ Head(toClient) = Message("secType", t) /\ Tail(toClient) = Authenticates(t) /\ toServer = <<>>
  BY <1>1, <1>2, Opening DEF Stands
<1>5. Read = t
  BY <1>4, MessageIs DEF Read
<1>6. /\ Reads("secType", SaysAfterType(t), ReadsAfterType(t))
      /\ chosen' = t /\ UNCHANGED <<major, minor>>
  BY <1>2, <1>3, <1>5 DEF OnSecType
<1>7. ReadsAfterType(t) \in ClientReads
  BY DEF ReadsAfterType, ReadsAfterAuth, ClientReads
<1>8. /\ HandshakeTypeOK' /\ Agreed' = Agreed
      /\ toClient' = Authenticates(t) /\ toServer' = <<>> \o SaysAfterType(t)
      /\ client' = ReadsAfterType(t) /\ server' = Awaits(t)
      /\ UNCHANGED <<major, minor, agreed, secured, granted, announced, offers, entered>>
  BY <1>1, <1>2, <1>4, <1>6, <1>7, Hearing DEF Stands
<1>9. CASE t = None
  <2>1. ~SendResult(t)
    BY <1>1, <1>9, TypesDiffer DEF SendResult, Agreed
  <2>2. /\ SaysAfterType(t) = <<Message("clientInit", "shared")>> /\ ReadsAfterType(t) = "serverInit"
        /\ Authenticates(t) = <<>> /\ Awaits(t) = "clientInit"
    BY <1>9, <2>1, TypesDiffer DEF SaysAfterType, SaysAfterAuth, ReadsAfterType, ReadsAfterAuth, Authenticates, Awaits
  <2>3. toServer' = <<Message("clientInit", "shared")>>
    BY <1>8, <2>2, Short
  <2>4. Admitted'
    BY <1>1, <1>6, <1>8, <1>9, <2>2, <2>3 DEF Admitted, Stands
  <2> QED BY <1>8, <2>4 DEF HandshakeInv, Conversation
<1>10. CASE t = VNCAuth
  <2>1. SaysAfterType(t) = <<>> /\ ReadsAfterType(t)' = ReadsAfterType(t)
    BY <1>10 DEF SaysAfterType, ReadsAfterType
  <2>2. toServer' = <<>>
    BY <1>8, <2>1, Short
  <2>3. Challenged'
    BY <1>1, <1>6, <1>8, <1>10, <2>1, <2>2 DEF Challenged, Stands
  <2> QED BY <1>8, <2>3 DEF HandshakeInv, Conversation
<1> QED BY <1>1, <1>9, <1>10

LEMMA Picking ==
  ASSUME NEW t
  PROVE  /\ <<>> \o (<<Message("secType", t)>> \o SaysAfterType(t)) = <<Message("secType", t)>> \o SaysAfterType(t)
         /\ <<Message("secType", t)>> \o SaysAfterType(t) # <<>>
         /\ Head(<<Message("secType", t)>> \o SaysAfterType(t)) = Message("secType", t)
         /\ Tail(<<Message("secType", t)>> \o SaysAfterType(t)) = SaysAfterType(t)
<1> DEFINE m == Message("secType", t)
           n == Message("clientInit", "shared")
<1>1. SaysAfterType(t) = <<>> \/ SaysAfterType(t) = <<n>>
  BY DEF SaysAfterType, SaysAfterAuth
<1> HIDE DEF m, n
<1>2. CASE SaysAfterType(t) = <<n>>
  <2>1. <<m>> \o SaysAfterType(t) = <<m, n>>
    BY <1>2, PairIs
  <2>2. <<>> \o <<m, n>> = <<m, n>> /\ <<m, n>> # <<>> /\ Head(<<m, n>>) = m /\ Tail(<<m, n>>) = <<n>>
    BY Short
  <2> QED BY Zenon, <1>2, <2>1, <2>2 DEF m
<1>3. CASE SaysAfterType(t) = <<>>
  BY Zenon, <1>3, Short DEF m
<1> QED BY <1>1, <1>2, <1>3

\* Under 3.7 and 3.8 the client picks a type it knows, or gives up.
LEMMA FromListing ==
  ASSUME HandshakeTypeOK, Listing, HandshakeNext
  PROVE  HandshakeInv'
<1>0. PICK t : t = Choice(offers)
  OBVIOUS
<1>1. /\ Agreed \in Listed /\ agreed = Agreed /\ offers # {}
      /\ Stands("secTypes", "secType", <<Message("secTypes", offers)>>, <<>>)
  BY DEF Listing
<1>2. OnSecTypes
  BY <1>1, ClientTurn, ServerTurn DEF Stands, HandshakeNext
<1>3. Read = offers
  BY <1>1, Short, MessageIs DEF Read, Stands
<1>4. t \in Known \cup {Invalid}
  BY <1>0 DEF Choice, Known
<1>5. /\ IF t = Invalid THEN Reads("secTypes", <<>>, "failed")
         ELSE Reads("secTypes", <<Message("secType", t)>> \o SaysAfterType(t), ReadsAfterType(t))
      /\ chosen' = t /\ UNCHANGED <<major, minor>>
  BY <1>0, <1>1, <1>2, <1>3 DEF OnSecTypes
<1>6. chosen' \in SecTypes \cup {Invalid}
  BY <1>4, <1>5, TypesDiffer
<1>7. CASE t = Invalid
  <2>1. /\ HandshakeTypeOK' /\ toClient' = Tail(toClient) /\ toServer' = <<>> \o <<>>
        /\ client' = "failed" /\ server' = "secType"
    BY <1>1, <1>5, <1>6, <1>7, Hearing DEF Stands
  <2>2. Refused'
    BY <1>1, <2>1, Short DEF Refused, Stands
  <2> QED BY <2>1, <2>2 DEF HandshakeInv, Conversation
<1>8. CASE t # Invalid
  <2> DEFINE said == <<Message("secType", t)>> \o SaysAfterType(t)
  <2>1. ReadsAfterType(t) \in ClientReads
    BY DEF ReadsAfterType, ReadsAfterAuth, ClientReads
  <2>2. /\ HandshakeTypeOK' /\ Agreed' = Agreed
        /\ toClient' = Tail(toClient) /\ toServer' = <<>> \o said
        /\ client' = ReadsAfterType(t) /\ server' = "secType"
        /\ UNCHANGED <<major, minor, agreed, secured, granted, announced, offers, entered>>
    BY <1>1, <1>5, <1>6, <1>8, <2>1, Hearing DEF Stands
  <2>3. SaysAfterType(t)' = SaysAfterType(t) /\ ReadsAfterType(t)' = ReadsAfterType(t)
    BY <1>5, <2>2 DEF SaysAfterType, SaysAfterAuth, ReadsAfterType, ReadsAfterAuth, SendResult
  <2>4. <<>> \o said = said
    BY Picking
  <2>5. Picked'
    BY <1>1, <1>4, <1>5, <1>8, <2>2, <2>3, <2>4, Short DEF Picked, Stands
  <2> QED BY <2>2, <2>5 DEF HandshakeInv, Conversation
<1> QED BY <1>7, <1>8

\* The server takes the type picked; under 3.8 it reports a result at once if
\* the type needs no authentication, and the client waits for one then.
LEMMA FromPicked ==
  ASSUME HandshakeTypeOK, Picked, HandshakeNext
  PROVE  HandshakeInv'
<1>1. PICK t \in Known :
          /\ Agreed \in Listed /\ agreed = Agreed /\ chosen = t
          /\ Stands(ReadsAfterType(t), "secType", <<>>, <<Message("secType", t)>> \o SaysAfterType(t))
  BY DEF Picked
<1>2. t # Invalid /\ t \in SecTypes
  BY <1>1, TypesDiffer
<1>3. ServerSecType
  BY <1>1, ClientTurn, ServerTurn DEF Stands, HandshakeNext
<1>4. toServer # <<>> /\ Head(toServer) = Message("secType", t) /\ Tail(toServer) = SaysAfterType(t) /\ toClient = <<>>
  BY <1>1, Picking DEF Stands
<1>5. Said = t
  BY <1>4, MessageIs DEF Said
<1> DEFINE said == IF t = None /\ agreed = <<3, 8>> THEN <<Message("securityResult", "ok")>> ELSE Authenticates(t)
<1>6. /\ secured' = t /\ agreed' = agreed
      /\ granted' = IF t = None THEN "granted" ELSE "pending"
      /\ ServerTakes("secType", said, Awaits(t))
  BY <1>3, <1>5 DEF ServerSecType
<1>7. Awaits(t) \in ServerReads
  BY DEF Awaits, ServerReads
<1>8. /\ HandshakeTypeOK' /\ Agreed' = Agreed
      /\ toServer' = SaysAfterType(t) /\ toClient' = <<>> \o said
      /\ server' = Awaits(t) /\ client' = ReadsAfterType(t)
      /\ UNCHANGED <<major, minor, chosen, announced, offers, entered>>
  BY <1>1, <1>2, <1>4, <1>6, <1>7, Answering DEF Stands
<1>9. CASE t = None
  <2>1. SendResult(t) <=> Agreed = <<3, 8>>
    BY <1>1, <1>9, TypesDiffer DEF SendResult, Agreed, Listed
  <2>2. Authenticates(t) = <<>> /\ Awaits(t) = "clientInit"
    BY <1>9, TypesDiffer DEF Authenticates, Awaits
  <2>3. CASE Agreed = <<3, 8>>
    <3>1. SaysAfterType(t) = <<>> /\ ReadsAfterType(t) = "securityResult"
      BY <1>9, <2>1, <2>3, TypesDiffer DEF SaysAfterType, SaysAfterAuth, ReadsAfterType, ReadsAfterAuth
    <3>2. toClient' = <<Message("securityResult", "ok")>>
      BY <1>1, <1>8, <1>9, <2>3, Short
    <3>3. Admitted'
      BY <1>1, <1>6, <1>8, <1>9, <2>2, <3>1, <3>2 DEF Admitted, Stands
    <3> QED BY <1>8, <3>3 DEF HandshakeInv, Conversation
  <2>4. CASE Agreed # <<3, 8>>
    <3>1. SaysAfterType(t) = <<Message("clientInit", "shared")>> /\ ReadsAfterType(t) = "serverInit"
      BY <1>9, <2>1, <2>4, TypesDiffer DEF SaysAfterType, SaysAfterAuth, ReadsAfterType, ReadsAfterAuth
    <3>2. toClient' = <<>>
      BY <1>1, <1>8, <2>2, <2>4, Short
    <3>3. Admitted'
      BY <1>1, <1>6, <1>8, <1>9, <2>2, <3>1, <3>2 DEF Admitted, Stands
    <3> QED BY <1>8, <3>3 DEF HandshakeInv, Conversation
  <2> QED BY <2>3, <2>4
<1>10. CASE t \in {VNCAuth, ARD}
  <2>1. SaysAfterType(t) = <<>> /\ ReadsAfterType(t)' = ReadsAfterType(t)
    BY <1>10 DEF SaysAfterType, ReadsAfterType
  <2>2. toClient' = Authenticates(t)
    BY <1>1, <1>8, <1>10, TypesDiffer, Opening
  <2>3. Challenged'
    BY <1>1, <1>6, <1>8, <1>10, <2>1, <2>2 DEF Challenged, Stands
  <2> QED BY <1>8, <2>3 DEF HandshakeInv, Conversation
<1> QED BY <1>1, <1>9, <1>10 DEF Known

\* The client answers the challenge of the type it has in mind.
LEMMA FromChallenged ==
  ASSUME HandshakeTypeOK, Challenged, HandshakeNext
  PROVE  HandshakeInv'
<1>1. PICK t \in {VNCAuth, ARD} :
          /\ agreed = Agreed /\ chosen = t /\ secured = t
          /\ Stands(ReadsAfterType(t), Awaits(t), Authenticates(t), <<>>)
  BY DEF Challenged
<1>2. ReadsAfterType(t) = IF t = VNCAuth THEN "challenge" ELSE "dhParams"
  BY DEF ReadsAfterType
<1>3. Awaits(t) = IF t = VNCAuth THEN "response" ELSE "ardResponse"
  BY DEF Awaits
<1>4. PICK k : Authenticates(t) = <<Message(k, "-")>> /\ k = ReadsAfterType(t)
  BY <1>2 DEF Authenticates
<1>5. OnChallenge
  BY <1>1, <1>2, ClientTurn, ServerTurn DEF Stands, HandshakeNext
<1>6. SaysAfterAuth(t) = <<>> /\ ReadsAfterAuth(t) = "securityResult"
  BY DEF SaysAfterAuth, ReadsAfterAuth, SendResult
<1>7. PICK kind \in {"challenge", "dhParams"} :
          /\ Reads(kind, <<Message(IF kind = "challenge" THEN "response" ELSE "ardResponse", "-")>> \o SaysAfterAuth(chosen),
                   ReadsAfterAuth(chosen))
          /\ UNCHANGED <<major, minor, chosen>>
  BY <1>5 DEF OnChallenge
<1>8. kind = ReadsAfterType(t)
  BY <1>1, <1>7 DEF Reads, Hears, Stands
<1> DEFINE m == Message(Awaits(t), "-")
<1>9. m = Message(IF kind = "challenge" THEN "response" ELSE "ardResponse", "-")
  BY <1>1, <1>2, <1>3, <1>8
<1> HIDE DEF m
<1>10. Reads(kind, <<m>> \o <<>>, "securityResult")
  BY <1>1, <1>6, <1>7, <1>9
<1>11. /\ HandshakeTypeOK' /\ Agreed' = Agreed
       /\ toClient' = Tail(toClient) /\ toServer' = toServer \o (<<m>> \o <<>>)
       /\ client' = "securityResult" /\ server' = server
       /\ UNCHANGED <<agreed, secured, granted>>
  BY <1>7, <1>10, Hearing DEF ClientReads, HandshakeTypeOK
<1>12. toClient' = <<>> /\ toServer' = <<m>>
  BY <1>1, <1>4, <1>11, Short DEF Stands
<1>13. Responded'
  BY <1>1, <1>7, <1>11, <1>12 DEF Responded, Stands, m
<1> QED BY <1>11, <1>13 DEF HandshakeInv, Conversation

\* The server grants the session, or refuses it and says why under 3.8 only.
LEMMA FromResponded ==
  ASSUME HandshakeTypeOK, Responded, HandshakeNext
  PROVE  HandshakeInv'
<1>1. PICK t \in {VNCAuth, ARD} :
          /\ agreed = Agreed /\ chosen = t /\ secured = t
          /\ Stands("securityResult", Awaits(t), <<>>, <<Message(Awaits(t), "-")>>)
  BY DEF Responded
<1>2. Awaits(t) \in {"response", "ardResponse"}
  BY DEF Awaits
<1>3. ServerVerdict
  BY <1>1, <1>2, ClientTurn, ServerTurn DEF Stands, HandshakeNext
<1> DEFINE no == <<Message("securityResult", "failed")>>
                     \o (IF agreed = <<3, 8>> THEN <<Message("resultReason", "-")>> ELSE <<>>)
           ok == <<Message("securityResult", "ok")>>
<1>4. PICK kind :
          /\ UNCHANGED <<agreed, secured>>
          /\ \/ granted' = "granted" /\ ServerTakes(kind, ok, "clientInit")
             \/ granted' = "denied" /\ ServerTakes(kind, no, "closed")
  BY <1>3 DEF ServerVerdict
<1>5. secured' \in SecTypes \cup {Invalid}
  BY <1>4 DEF HandshakeTypeOK
<1>6. Tail(toServer) = <<>> /\ toClient = <<>>
  BY <1>1, Short DEF Stands
<1>7. <<>> \o no = no /\ <<>> \o ok = ok
  <2> DEFINE a == Message("securityResult", "failed")
             b == Message("resultReason", "-")
  <2>1. no = <<a>> \/ no = <<a, b>>
    <3> HIDE DEF a, b
    <3>1. <<a>> \o <<b>> = <<a, b>> /\ <<a>> \o <<>> = <<a>>
      BY Short
    <3> QED BY <3>1 DEF a, b
  <2> HIDE DEF no, a, b
  <2>2. <<>> \o <<a>> = <<a>> /\ <<>> \o <<a, b>> = <<a, b>> /\ <<>> \o ok = ok
    BY Short
  <2> QED BY <2>1, <2>2
<1> HIDE DEF no, ok
<1>8. CASE granted' = "granted" /\ ServerTakes(kind, ok, "clientInit")
  <2>1. /\ HandshakeTypeOK' /\ Agreed' = Agreed
        /\ toServer' = <<>> /\ toClient' = ok /\ server' = "clientInit" /\ client' = "securityResult"
        /\ chosen' = chosen
    BY <1>1, <1>4, <1>5, <1>6, <1>7, <1>8, Answering DEF Stands, ServerReads
  <2>2. Admitted'
    BY <1>1, <1>4, <1>8, <2>1 DEF Admitted, Stands, ok
  <2> QED BY <2>1, <2>2 DEF HandshakeInv, Conversation
<1>9. CASE granted' = "denied" /\ ServerTakes(kind, no, "closed")
  <2>1. /\ HandshakeTypeOK' /\ Agreed' = Agreed
        /\ toServer' = <<>> /\ toClient' = no /\ server' = "closed" /\ client' = "securityResult"
    BY <1>1, <1>4, <1>5, <1>6, <1>7, <1>9, Answering DEF Stands
  <2>2. Refused'
    BY <1>1, <1>4, <2>1 DEF Refused, Stands, no
  <2> QED BY <2>1, <2>2 DEF HandshakeInv, Conversation
<1> QED BY <1>4, <1>8, <1>9

\* A session that is granted begins, on both sides.
LEMMA FromAdmitted ==
  ASSUME HandshakeTypeOK, Admitted, HandshakeNext
  PROVE  HandshakeInv'
<1>1. granted = "granted" /\ agreed = Agreed /\ secured = chosen
  BY DEF Admitted
<1>2. chosen \in SecTypes \cup {Invalid} /\ secured \in SecTypes \cup {Invalid}
      /\ granted \in {"pending", "granted", "denied"}
  BY DEF HandshakeTypeOK
<1> DEFINE init == Message("clientInit", "shared")
           screen == Message("serverInit", "-")
           format == Message("setup", "format")
           encodings == Message("setup", "encodings")
<1>3. CASE Stands("securityResult", "clientInit", <<Message("securityResult", "ok")>>, <<>>)
  <2>1. OnSecurityResult /\ Read = "ok" /\ Tail(toClient) = <<>>
    BY <1>3, ClientTurn, ServerTurn, Short, MessageIs DEF Stands, HandshakeNext, Read
  <2>2. Reads("securityResult", <<init>>, "serverInit") /\ UNCHANGED <<major, minor, chosen>>
    BY <2>1 DEF OnSecurityResult
  <2>3. /\ HandshakeTypeOK' /\ Agreed' = Agreed
        /\ toClient' = <<>> /\ toServer' = <<>> \o <<init>> /\ client' = "serverInit" /\ server' = "clientInit"
        /\ UNCHANGED <<agreed, secured, granted>>
    BY <1>2, <1>3, <2>1, <2>2, Hearing DEF Stands, ClientReads
  <2>4. Admitted'
    BY <1>1, <2>2, <2>3, Short DEF Admitted, Stands
  <2> QED BY <2>3, <2>4 DEF HandshakeInv, Conversation
<1>4. CASE Stands("serverInit", "clientInit", <<>>, <<init>>)
  <2>1. ServerInitialises /\ Tail(toServer) = <<>>
    BY <1>4, ClientTurn, ServerTurn, Short DEF Stands, HandshakeNext
  <2>2. ServerTakes("clientInit", <<screen>>, "setup") /\ UNCHANGED <<agreed, secured, granted>>
    BY <1>4, <2>1 DEF ServerInitialises, IsTold, Stands
  <2>3. /\ HandshakeTypeOK' /\ Agreed' = Agreed
        /\ toServer' = <<>> /\ toClient' = <<>> \o <<screen>> /\ server' = "setup" /\ client' = "serverInit"
        /\ chosen' = chosen
    BY <1>2, <1>4, <2>1, <2>2, Answering DEF Stands, ServerReads
  <2>4. Admitted'
    BY <1>1, <2>2, <2>3, Short DEF Admitted, Stands
  <2> QED BY <2>3, <2>4 DEF HandshakeInv, Conversation
<1>5. CASE Stands("serverInit", "setup", <<screen>>, <<>>)
  <2>1. OnServerInit /\ Tail(toClient) = <<>>
    BY <1>5, ClientTurn, ServerTurn, Short, MessageIs DEF Stands, HandshakeNext
  <2>2. Reads("serverInit", <<format, encodings>>, "live") /\ UNCHANGED <<major, minor, chosen>>
    BY <2>1 DEF OnServerInit
  <2>3. /\ HandshakeTypeOK' /\ Agreed' = Agreed
        /\ toClient' = <<>> /\ toServer' = <<>> \o <<format, encodings>> /\ client' = "live" /\ server' = "setup"
        /\ UNCHANGED <<agreed, secured, granted>>
    BY <1>2, <1>5, <2>1, <2>2, Hearing DEF Stands
  <2>4. Admitted'
    BY <1>1, <2>2, <2>3, Short DEF Admitted, Stands
  <2> QED BY <2>3, <2>4 DEF HandshakeInv, Conversation
<1>6. CASE Stands("live", "setup", <<>>, <<format, encodings>>)
  <2>1. ServerInitialises /\ Tail(toServer) = <<encodings>> /\ Said = "format"
    BY <1>6, ClientTurn, ServerTurn, Short, MessageIs DEF Stands, HandshakeNext, Said
  <2>2. ServerTakes("setup", <<>>, "setup") /\ UNCHANGED <<agreed, secured, granted>>
    BY <1>6, <2>1 DEF ServerInitialises, ServerTakes, IsTold, Stands
  <2>3. /\ HandshakeTypeOK' /\ Agreed' = Agreed
        /\ toServer' = <<encodings>> /\ toClient' = <<>> \o <<>> /\ server' = "setup" /\ client' = "live"
        /\ chosen' = chosen
    BY <1>2, <1>6, <2>1, <2>2, Answering DEF Stands, ServerReads
  <2>4. Admitted'
    BY <1>1, <2>2, <2>3, Short DEF Admitted, Stands
  <2> QED BY <2>3, <2>4 DEF HandshakeInv, Conversation
<1>7. CASE Stands("live", "setup", <<>>, <<encodings>>)
  <2>1. ServerInitialises /\ Tail(toServer) = <<>> /\ Said = "encodings"
    BY <1>7, ClientTurn, ServerTurn, Short, MessageIs DEF Stands, HandshakeNext, Said
  <2>2. ServerTakes("setup", <<>>, "live") /\ UNCHANGED <<agreed, secured, granted>>
    BY <1>7, <2>1 DEF ServerInitialises, ServerTakes, IsTold, Stands
  <2>3. /\ HandshakeTypeOK' /\ Agreed' = Agreed
        /\ toServer' = <<>> /\ toClient' = <<>> \o <<>> /\ server' = "live" /\ client' = "live"
        /\ chosen' = chosen
    BY <1>2, <1>7, <2>1, <2>2, Answering DEF Stands
  <2>4. Admitted'
    BY <1>1, <2>2, <2>3, Short DEF Admitted, Stands
  <2> QED BY <2>3, <2>4 DEF HandshakeInv, Conversation
<1>8. CASE Stands("live", "live", <<>>, <<>>)
  BY <1>8, ClientTurn, ServerTurn DEF Stands, HandshakeNext
<1> QED BY <1>3, <1>4, <1>5, <1>6, <1>7, <1>8 DEF Admitted

\* A refused client reads the reason, if one comes, and nothing else.
LEMMA FromRefused ==
  ASSUME HandshakeTypeOK, Refused, HandshakeNext
  PROVE  HandshakeInv'
<1>1. chosen \in SecTypes \cup {Invalid}
  BY DEF HandshakeTypeOK
<1> DEFINE why == Message("reason", "-")
           because == Message("resultReason", "-")
<1>2. ASSUME server = "closed", toServer = <<>>, NEW kind, NEW next,
             chosen' \in SecTypes \cup {Invalid}, UNCHANGED <<major, minor>>,
             Reads(kind, <<>>, next), next \in ClientReads \cup {"live", "failed"}
      PROVE  /\ HandshakeTypeOK' /\ server' = "closed" /\ toServer' = <<>> /\ client' = next
             /\ toClient' = Tail(toClient)
  BY <1>2, Hearing, Short
<1>3. CASE Stands("secType", "closed", <<Message("secType", Invalid), why>>, <<>>)
  <2>1. OnSecType /\ Read = Invalid /\ Tail(toClient) = <<why>>
    BY <1>3, ClientTurn, ServerTurn, Short, MessageIs DEF Stands, HandshakeNext, Read
  <2>2. Reads("secType", <<>>, "reason") /\ chosen' = Invalid /\ UNCHANGED <<major, minor>>
    BY <2>1 DEF OnSecType
  <2>3. HandshakeTypeOK' /\ Refused'
    BY <1>2, <1>3, <2>1, <2>2 DEF Stands, Refused, ClientReads
  <2> QED BY <2>3 DEF HandshakeInv, Conversation
<1>4. CASE Stands("secTypes", "closed", <<Message("secTypes", {}), why>>, <<>>)
  <2>1. OnSecTypes /\ Read = {} /\ Tail(toClient) = <<why>>
    BY <1>4, ClientTurn, ServerTurn, Short, MessageIs DEF Stands, HandshakeNext, Read
  <2>2. Reads("secTypes", <<>>, "reason") /\ chosen' = Choice({}) /\ UNCHANGED <<major, minor>>
    BY <2>1 DEF OnSecTypes
  <2>3. Choice({}) = Invalid
    BY DEF Choice
  <2>4. HandshakeTypeOK' /\ Refused'
    BY <1>2, <1>4, <2>1, <2>2, <2>3 DEF Stands, Refused, ClientReads
  <2> QED BY <2>4 DEF HandshakeInv, Conversation
<1>5. CASE Stands("reason", "closed", <<why>>, <<>>)
  <2>1. OnReason /\ Tail(toClient) = <<>>
    BY <1>5, ClientTurn, ServerTurn, Short DEF Stands, HandshakeNext
  <2>2. HandshakeTypeOK' /\ Refused'
    BY <1>1, <1>2, <1>5, <2>1 DEF Stands, Refused, OnReason
  <2> QED BY <2>2 DEF HandshakeInv, Conversation
<1>6. CASE /\ agreed = Agreed
           /\ Stands("securityResult", "closed",
                     <<Message("securityResult", "failed")>>
                         \o (IF Agreed = <<3, 8>> THEN <<because>> ELSE <<>>), <<>>)
  <2> DEFINE no == Message("securityResult", "failed")
             next == IF Agreed = <<3, 8>> THEN "resultReason" ELSE "failed"
  <2>1. toClient # <<>> /\ Head(toClient) = no /\ Tail(toClient) = IF Agreed = <<3, 8>> THEN <<because>> ELSE <<>>
    <3> HIDE DEF no, because
    <3>1. toClient = <<no>> \o (IF Agreed = <<3, 8>> THEN <<because>> ELSE <<>>)
      BY <1>6 DEF Stands, no
    <3>2. <<no>> \o <<because>> = <<no, because>> /\ <<no>> \o <<>> = <<no>>
      BY Short
    <3>3. /\ <<no, because>> # <<>> /\ Head(<<no, because>>) = no /\ Tail(<<no, because>>) = <<because>>
          /\ <<no>> # <<>> /\ Head(<<no>>) = no /\ Tail(<<no>>) = <<>>
      BY Short
    <3> QED BY <3>1, <3>2, <3>3
  <2>2. OnSecurityResult /\ Read = "failed"
    BY <1>6, <2>1, ClientTurn, ServerTurn, MessageIs DEF Stands, HandshakeNext, Read
  <2>3. Reads("securityResult", <<>>, next) /\ UNCHANGED <<major, minor, chosen>>
    BY <2>2 DEF OnSecurityResult, Agreed
  <2>4. next \in ClientReads \cup {"live", "failed"}
    BY DEF ClientReads
  <2>5. HandshakeTypeOK' /\ Refused'
    BY <1>1, <1>2, <1>6, <2>1, <2>3, <2>4 DEF Stands, Refused
  <2> QED BY <2>5 DEF HandshakeInv, Conversation
<1>7. CASE Stands("resultReason", "closed", <<because>>, <<>>)
  <2>1. OnResultReason /\ Tail(toClient) = <<>>
    BY <1>7, ClientTurn, ServerTurn, Short DEF Stands, HandshakeNext
  <2>2. HandshakeTypeOK' /\ Refused'
    BY <1>1, <1>2, <1>7, <2>1 DEF Stands, Refused, OnResultReason
  <2> QED BY <2>2 DEF HandshakeInv, Conversation
<1>8. CASE \/ Stands("failed", "closed", <<>>, <<>>) \/ Stands("failed", "secType", <<>>, <<>>)
  BY <1>8, ClientTurn, ServerTurn DEF Stands, HandshakeNext
<1> QED BY <1>3, <1>4, <1>5, <1>6, <1>7, <1>8 DEF Refused

\* At every point of the conversation what comes next is what is waited for.
LEMMA ConversationAgrees ==
  ASSUME HandshakeInv
  PROVE  HandshakeAgrees
<1>1. CASE Announced3
  BY <1>1, Short, MessageIs DEF HandshakeAgrees, Waiting, Announced3, Stands
<1>2. CASE Answered
  BY <1>2, Short, MessageIs DEF HandshakeAgrees, Waiting, Answered, Stands
<1>3. CASE Dictated
  <2>1. PICK t \in {None, VNCAuth} :
          Stands("secType", Awaits(t), <<Message("secType", t)>> \o Authenticates(t), <<>>)
    BY <1>3 DEF Dictated
  <2>2. t \in Known /\ Awaits(t) # "closed"
    BY DEF Known, Awaits
  <2> QED BY <2>1, <2>2, Opening, MessageIs DEF HandshakeAgrees, Waiting, Stands
<1>4. CASE Listing
  BY <1>4, Short, MessageIs DEF HandshakeAgrees, Waiting, Listing, Stands
<1>5. CASE Picked
  <2>1. PICK t \in Known : Stands(ReadsAfterType(t), "secType", <<>>, <<Message("secType", t)>> \o SaysAfterType(t))
    BY <1>5 DEF Picked
  <2>2. ReadsAfterType(t) # "live"
    BY DEF ReadsAfterType, ReadsAfterAuth
  <2> QED BY <2>1, <2>2, Picking, MessageIs DEF HandshakeAgrees, Waiting, Stands
<1>6. CASE Challenged
  <2>1. PICK t \in {VNCAuth, ARD} : Stands(ReadsAfterType(t), Awaits(t), Authenticates(t), <<>>)
    BY <1>6 DEF Challenged
  <2>2. PICK k : Authenticates(t) = <<Message(k, "-")>> /\ k = ReadsAfterType(t) /\ k # "live"
    BY DEF Authenticates, ReadsAfterType
  <2>3. Awaits(t) # "closed"
    BY DEF Awaits
  <2> QED BY <2>1, <2>2, <2>3, Short, MessageIs DEF HandshakeAgrees, Waiting, Stands
<1>7. CASE Responded
  <2>1. PICK t \in {VNCAuth, ARD} : Stands("securityResult", Awaits(t), <<>>, <<Message(Awaits(t), "-")>>)
    BY <1>7 DEF Responded
  <2>2. Awaits(t) # "closed"
    BY DEF Awaits
  <2> QED BY <2>1, <2>2, Short, MessageIs DEF HandshakeAgrees, Waiting, Stands
<1>8. CASE Admitted
  <2>1. granted = "granted" /\ agreed = <<major, minor>> /\ secured = chosen
    BY <1>8 DEF Admitted, Agreed
  <2> QED BY <1>8, <2>1, Short, MessageIs DEF HandshakeAgrees, Waiting, Admitted, Stands, ClientReads
<1>9. CASE Refused
  <2> DEFINE no == Message("securityResult", "failed")
             because == Message("resultReason", "-")
  <2>1. CASE Stands("securityResult", "closed", <<no>> \o (IF Agreed = <<3, 8>> THEN <<because>> ELSE <<>>), <<>>)
    <3>1. no.kind = "securityResult"
      BY MessageIs
    <3> HIDE DEF no, because
    <3>2. <<no>> \o <<because>> = <<no, because>> /\ <<no>> \o <<>> = <<no>>
      BY Short
    <3>3. <<no, because>> # <<>> /\ Head(<<no, because>>) = no /\ <<no>> # <<>> /\ Head(<<no>>) = no
      BY Short
    <3>4. toClient # <<>> /\ Head(toClient) = no
      BY <2>1, <3>2, <3>3 DEF Stands
    <3> QED BY <2>1, <3>1, <3>4 DEF HandshakeAgrees, Waiting, Stands, ServerReads
  <2>2. CASE ~Stands("securityResult", "closed", <<no>> \o (IF Agreed = <<3, 8>> THEN <<because>> ELSE <<>>), <<>>)
    <3>1. \/ Stands("secType", "closed", <<Message("secType", Invalid), Message("reason", "-")>>, <<>>)
          \/ Stands("secTypes", "closed", <<Message("secTypes", {}), Message("reason", "-")>>, <<>>)
          \/ Stands("reason", "closed", <<Message("reason", "-")>>, <<>>)
          \/ Stands("resultReason", "closed", <<Message("resultReason", "-")>>, <<>>)
          \/ Stands("failed", "closed", <<>>, <<>>)
          \/ Stands("failed", "secType", <<>>, <<>>)
      BY <1>9, <2>2 DEF Refused
    <3> QED BY <3>1, Short, MessageIs DEF HandshakeAgrees, Waiting, Stands, ServerReads, ClientReads
  <2> QED BY <2>1, <2>2
<1> QED BY <1>1, <1>2, <1>3, <1>4, <1>5, <1>6, <1>7, <1>8, <1>9 DEF HandshakeInv, Conversation

\* Whatever the server announces from version 3.3 on, whatever it offers and
\* whatever the user entered, the two sides read what is sent and a session
\* begins only when both have the same version and type in mind (handshake.go).
THEOREM HandshakeSound ==
  ASSUME \A v \in ServerVersions : v[1] > 3 \/ (v[1] = 3 /\ v[2] >= 3)
  PROVE  Spec => [](HandshakeTypeOK /\ HandshakeAgrees)
<1>1. HandshakeInit => HandshakeInv
  <2> SUFFICES ASSUME HandshakeInit PROVE HandshakeInv
    OBVIOUS
  <2>1. Announced3
    BY DEF HandshakeInit, Announced3, Stands
  <2>2. HandshakeTypeOK
    BY DEF HandshakeInit, HandshakeTypeOK, ClientReads, ServerReads
  <2> QED BY <2>1, <2>2 DEF HandshakeInv, Conversation
<1>2. HandshakeInv /\ [HandshakeNext]_handshakeVars => HandshakeInv'
  <2>1. ASSUME HandshakeInv, HandshakeNext PROVE HandshakeInv'
    BY <2>1, FromAnnounced, FromAnswered, FromDictated, FromListing, FromPicked, FromChallenged, FromResponded,
       FromAdmitted, FromRefused DEF HandshakeInv, Conversation
  <2>2. ASSUME HandshakeInv, UNCHANGED handshakeVars PROVE HandshakeInv'
    BY <2>2 DEF handshakeVars, HandshakeInv, HandshakeTypeOK, Conversation, Stands, Agreed, Announced3, Answered,
       Dictated, Listing, Picked, Challenged, Responded, Admitted, Refused, ReadsAfterType, SaysAfterType,
       ReadsAfterAuth, SaysAfterAuth, SendResult
  <2> QED BY <2>1, <2>2
<1>3. HandshakeInv => HandshakeTypeOK /\ HandshakeAgrees
  BY ConversationAgrees DEF HandshakeInv
<1>4. HandshakeSpec => []HandshakeInv
  BY <1>1, <1>2, PTL DEF HandshakeSpec
<1> QED BY <1>3, <1>4, HandshakeTakesPart, PTL

-----------------------------------------------------------------------------
(* Interleaved RLE.                                                        *)

\* The row above the i-th pixel of an order that begins after `start` pixels,
\* and the foreground there, as the server means them.
Above(start, i) == IF drawn.first THEN Black ELSE picture[start + i - Width]
InForeground(start, i) == Xor(Above(start, i), drawn.fg)

\* The order under way says what the pixels of the picture after `start` are.
Follows(insert, start) == \A i \in 1 .. Len(picture) - start :
    /\ order.code = "BGRun" =>
           picture[start + i] = IF insert /\ i = 1 THEN InForeground(start, i) ELSE Above(start, i)
    /\ order.code \in {"FGRun", "SetFGRun"} => picture[start + i] = InForeground(start, i)
    /\ order.code = "DitheredRun" => picture[start + i] = order.px[IF (i % 2) = 1 THEN 1 ELSE 2]
    /\ order.code = "ColorRun" => picture[start + i] = order.px[1]
    /\ order.code = "ColorImage" => picture[start + i] = order.px[i]
    /\ order.code \in MaskCodes =>
           picture[start + i] = IF MaskBit(i) THEN InForeground(start, i) ELSE Above(start, i)
    /\ order.code = "FGBG1" =>
           picture[start + i] = IF i \in {1, 2} THEN InForeground(start, i) ELSE Above(start, i)
    /\ order.code = "FGBG2" =>
           picture[start + i] = IF i \in {1, 3} THEN InForeground(start, i) ELSE Above(start, i)
    /\ order.code = "White" => picture[start + i] = White
    /\ order.code = "Black" => picture[start + i] = Black

\* Between two orders both sides have read the same; once an order has been
\* written, or its head read, the server is ahead by what the order describes.
Idle ==
    /\ order = NoOrder /\ run = NoRun /\ Len(out) = Len(picture)
    /\ drawn = [fg |-> fgPel, bg |-> insertFgPel, first |-> firstLine]
    /\ firstLine \/ Len(out) >= Width
Described ==
    /\ order \in Orders /\ run = NoRun /\ Len(picture) > Len(out)
    /\ PixelCount(order) = Len(picture) - Len(out)
    /\ drawn.fg = (IF order.code \in SetCodes THEN order.px[1] ELSE fgPel)
    /\ drawn.bg = (order.code = "BGRun") /\ drawn.first = (Len(out) < Width)
    /\ firstLine \/ Len(out) >= Width
    /\ Follows(InsertAtLineEnd, Len(out))
UnderWay ==
    /\ order \in Orders /\ run \in Runs /\ run.left > 0
    /\ Len(picture) = Len(out) + run.left /\ run.done <= Len(out)
    /\ drawn = [fg |-> fgPel, bg |-> insertFgPel, first |-> firstLine]
    /\ firstLine \/ Len(out) - run.done >= Width
    /\ Follows(run.insert, Len(out) - run.done)
RleInv ==
    /\ RleTypeOK
    /\ \A i \in 1 .. Len(out) : out[i] = picture[i]
    /\ Idle \/ Described \/ UnderWay

LEMMA SizeIsNat == Size \in Nat /\ Size > 0 /\ Width \in Nat /\ Width > 0 /\ Height \in Nat /\ Height > 0
<1>1. Width \in Nat /\ Width > 0 /\ Height \in Nat /\ Height > 0
  BY RleAssumption
<1>2. \A a, b \in Nat : a > 0 /\ b > 0 => a * b \in Nat /\ a * b > 0
  OBVIOUS
<1> QED BY <1>1, <1>2 DEF Size

LEMMA NotAnOrder == NoOrder \notin Orders /\ NoRun \notin Runs /\ Rejected \notin Runs /\ NoRun # Rejected
<1>1. NoOrder \notin Orders
  <2>1. "none" \notin Codes
    BY DEF Codes, RunCodes, LiteCodes, SetCodes
  <2>2. NoOrder.code = "none" /\ \A o \in Orders : o.code \in Codes
    BY DEF NoOrder, Orders
  <2> QED BY <2>1, <2>2
<1>2. NoRun \notin Runs /\ Rejected \notin Runs /\ NoRun # Rejected
  BY DEF NoRun, Rejected, Runs
<1> QED BY <1>1, <1>2

\* A head is read as the length it was written for, in each of its forms.
LEMMA LengthIs ==
  ASSUME NEW code \in RunCodes, NEW n \in Nat, NEW h \in HeadsFor(code, n)
  PROVE  RunLength(code, h) = n /\ h \in Heads
<1>1. h \in Heads
  BY DEF HeadsFor
<1>2. Mask(code) \in Nat /\ MaskBits \in Nat /\ ByteMax \in Nat
  BY RleAssumption DEF Mask
<1>3. CASE h.form = "short"
  <2>1. RunLength(code, h) = IF code \in MaskCodes THEN h.n * MaskBits ELSE h.n
    BY Zenon, <1>3 DEF RunLength
  <2>2. n = IF code \in MaskCodes THEN h.n * MaskBits ELSE h.n
    BY <1>3 DEF HeadsFor
  <2> QED BY <1>1, <2>1, <2>2
<1>4. CASE h.form = "long"
  <2>1. RunLength(code, h) = h.n + (IF code \in MaskCodes THEN 1 ELSE Mask(code) + 1)
    BY Zenon, <1>4 DEF RunLength
  <2>2. n = IF code \in MaskCodes THEN h.n + 1 ELSE h.n + Mask(code) + 1
    BY <1>4 DEF HeadsFor
  <2>3. h.n \in Nat
    BY <1>1, <1>4 DEF Heads
  <2> QED BY <1>1, <1>2, <2>1, <2>2, <2>3
<1>5. CASE h.form = "mega"
  <2>1. RunLength(code, h) = h.n + (ByteMax + 1) * h.high
    BY Zenon, <1>5 DEF RunLength
  <2>2. n = (ByteMax + 1) * h.high + h.n
    BY <1>5 DEF HeadsFor
  <2>3. h.n \in Nat /\ h.high \in Nat
    BY <1>1, <1>5 DEF Heads
  <2>4. (ByteMax + 1) * h.high \in Nat
    BY <1>2, <2>3
  <2> QED BY <1>1, <2>1, <2>2, <2>3, <2>4
<1> QED BY <1>1, <1>3, <1>4, <1>5 DEF Heads

LEMMA CountIs ==
  ASSUME NEW o
  PROVE  /\ o.code \in RunCodes \ {"DitheredRun"} => PixelCount(o) = RunLength(o.code, o.head)
         /\ o.code = "DitheredRun" => PixelCount(o) = 2 * RunLength(o.code, o.head)
         /\ o.code \in {"FGBG1", "FGBG2"} => PixelCount(o) = MaskBits
         /\ o.code \in {"White", "Black"} => PixelCount(o) = 1
<1>1. ASSUME o.code \in RunCodes \ {"DitheredRun"} PROVE PixelCount(o) = RunLength(o.code, o.head)
  <2>1. o.code \notin {"FGBG1", "FGBG2"} /\ o.code \notin {"White", "Black"} /\ o.code # "DitheredRun"
    BY <1>1 DEF RunCodes, LiteCodes, SetCodes
  <2> QED BY Zenon, <1>1, <2>1 DEF PixelCount
<1>2. ASSUME o.code = "DitheredRun" PROVE PixelCount(o) = 2 * RunLength(o.code, o.head)
  <2>1. o.code \notin {"FGBG1", "FGBG2"} /\ o.code \notin {"White", "Black"} /\ o.code \notin RunCodes \ {"DitheredRun"}
    BY <1>2
  <2> QED BY Zenon, <1>2, <2>1 DEF PixelCount
<1>3. ASSUME o.code \in {"FGBG1", "FGBG2"} PROVE PixelCount(o) = MaskBits
  <2>1. o.code # "DitheredRun" /\ o.code \notin {"White", "Black"} /\ o.code \notin RunCodes \ {"DitheredRun"}
    BY <1>3 DEF RunCodes, LiteCodes, SetCodes
  <2> QED BY Zenon, <1>3, <2>1 DEF PixelCount
<1>4. ASSUME o.code \in {"White", "Black"} PROVE PixelCount(o) = 1
  <2>1. o.code # "DitheredRun" /\ o.code \notin {"FGBG1", "FGBG2"} /\ o.code \notin RunCodes \ {"DitheredRun"}
    BY <1>4 DEF RunCodes, LiteCodes, SetCodes
  <2> QED BY Zenon, <1>4, <2>1 DEF PixelCount
<1> QED BY Zenon, <1>1, <1>2, <1>3, <1>4

\* What the server goes on with fits the bitmap.
LEMMA ExtensionIs ==
  ASSUME RleTypeOK, NEW px \in Extensions
  PROVE  /\ px \in Seq(Pixels) /\ Len(px) \in Nat /\ Len(px) >= 1 /\ Len(picture) + Len(px) <= Size
         /\ \A i \in 1 .. Len(px) : px[i] \in Pixels
<1>1. PICK n \in 1 .. Size - Len(picture) : px \in [1 .. n -> Pixels]
  BY DEF Extensions
<1>2. Len(picture) \in Nat /\ Size \in Nat
  BY SizeIsNat DEF RleTypeOK
<1>3. n \in Nat /\ n >= 1 /\ Len(picture) + n <= Size
  BY <1>1, <1>2
<1>4. px \in Seq(Pixels) /\ Len(px) = n
  BY <1>1, <1>3
<1> QED BY <1>1, <1>3, <1>4

LEMMA Joined ==
  ASSUME NEW S, NEW p \in Seq(S), NEW q \in Seq(S)
  PROVE  /\ p \o q \in Seq(S) /\ Len(p \o q) = Len(p) + Len(q)
         /\ \A i \in 1 .. Len(p) : (p \o q)[i] = p[i]
         /\ \A i \in 1 .. Len(q) : (p \o q)[Len(p) + i] = q[i]
  OBVIOUS

\* What the server means by an order `o` with the foreground colour `fg`.
Says(o, px, fg) == \A i \in 1 .. Len(px) :
    /\ o.code = "BGRun" => px[i] = IF i = 1 /\ JoinsRun THEN Marked(px, fg, i) ELSE Up(px, i)
    /\ o.code \in {"FGRun", "SetFGRun"} => px[i] = Marked(px, fg, i)
    /\ o.code = "DitheredRun" => px[i] = o.px[IF (i % 2) = 1 THEN 1 ELSE 2]
    /\ o.code = "ColorRun" => px[i] = o.px[1]
    /\ o.code = "ColorImage" => px[i] = o.px[i]
    /\ o.code \in MaskCodes =>
           px[i] = IF o.masks[((i - 1) \div MaskBits) + 1][((i - 1) % MaskBits) + 1]
                   THEN Marked(px, fg, i) ELSE Up(px, i)
    /\ o.code = "FGBG1" => px[i] = IF i \in {1, 2} THEN Marked(px, fg, i) ELSE Up(px, i)
    /\ o.code = "FGBG2" => px[i] = IF i \in {1, 3} THEN Marked(px, fg, i) ELSE Up(px, i)
    /\ o.code = "White" => px[i] = White
    /\ o.code = "Black" => px[i] = Black

\* The client will read in an order what the server means by it: the row
\* above, the colour and the mark of a run that joins another are the same.
LEMMA Written ==
  ASSUME RleTypeOK, Idle, \A i \in 1 .. Len(out) : out[i] = picture[i],
         NEW px \in Extensions, NEW o \in Orders, NEW fg \in Pixels,
         Describe(px, o, fg), PixelCount(o) = Len(px), Says(o, px, fg),
         fg = IF o.code \in SetCodes THEN o.px[1] ELSE drawn.fg
  PROVE  RleInv'
<1>1. PICK start : start = Len(picture)
  OBVIOUS
<1>2. /\ px \in Seq(Pixels) /\ Len(px) \in Nat /\ Len(px) >= 1 /\ start + Len(px) <= Size
      /\ picture \in Seq(Pixels) /\ out \in Seq(Pixels) /\ start \in Nat /\ Len(out) = start
  BY <1>1, ExtensionIs DEF RleTypeOK, Idle
<1>3. /\ picture' = picture \o px /\ drawn' = [fg |-> fg, bg |-> o.code = "BGRun", first |-> First]
      /\ order' = o /\ UNCHANGED <<run, out, fgPel, insertFgPel, firstLine>>
  BY DEF Describe
<1>4. /\ picture' \in Seq(Pixels) /\ Len(picture') = start + Len(px)
      /\ \A i \in 1 .. start : picture'[i] = picture[i]
      /\ \A i \in 1 .. Len(px) : picture'[start + i] = px[i]
  BY <1>1, <1>2, <1>3, Joined
<1>5. First = (start < Width)
  BY <1>1 DEF First
<1> DEFINE up(i) == IF First THEN Black ELSE picture'[start + i - Width]
           marked(i) == Xor(up(i), fg)
<1>6. /\ \A i \in 1 .. Len(px) : Up(px, i) = up(i) /\ Marked(px, fg, i) = marked(i)
      /\ \A i : Above(Len(out), i)' = up(i) /\ InForeground(Len(out), i)' = marked(i)
  <2>1. ASSUME NEW i PROVE Up(px, i) = up(i) /\ Marked(px, fg, i) = marked(i)
    BY <1>1, <1>3 DEF Up, Marked
  <2>2. ASSUME NEW i PROVE Above(Len(out), i)' = up(i) /\ InForeground(Len(out), i)' = marked(i)
    BY <1>2, <1>3 DEF Above, InForeground
  <2> QED BY <2>1, <2>2
<1> HIDE DEF up, marked
<1>7. JoinsRun <=> InsertAtLineEnd'
  <2>1. drawn = [fg |-> fgPel, bg |-> insertFgPel, first |-> firstLine] /\ (firstLine \/ Len(out) >= Width)
        /\ firstLine \in BOOLEAN /\ insertFgPel \in BOOLEAN
    BY DEF Idle, RleTypeOK
  <2>2. drawn.bg = insertFgPel /\ drawn.first = firstLine
    BY <2>1
  <2>3. Len(out) >= Width <=> ~First
    <3>1. Len(picture) \in Nat /\ Len(out) = Len(picture) /\ Width \in Nat
      BY <1>1, <1>2, SizeIsNat
    <3> QED BY <3>1 DEF First
  <2>4. InsertAtLineEnd' <=> InsertAtLineEnd
    BY <1>3 DEF InsertAtLineEnd
  <2>5. InsertAtLineEnd <=> insertFgPel /\ ~(firstLine /\ ~First)
    BY <2>3 DEF InsertAtLineEnd
  <2>6. JoinsRun <=> insertFgPel /\ (firstLine <=> First)
    BY <2>1, <2>2 DEF JoinsRun, First
  <2>7. First \in BOOLEAN
    BY DEF First
  <2> QED BY <2>1, <2>3, <2>4, <2>5, <2>6, <2>7
<1>8. Follows(InsertAtLineEnd, Len(out))'
  <2>1. \A i \in 1 .. Len(px) :
           (MaskBit(i))' = o.masks[((i - 1) \div MaskBits) + 1][((i - 1) % MaskBits) + 1]
    BY <1>3 DEF MaskBit
  <2>2. Len(picture') - start = Len(px)
    BY <1>2, <1>4
  <2>3. order' = o /\ Len(out') = start
    BY <1>2, <1>3
  <2>4. InsertAtLineEnd' \in BOOLEAN /\ JoinsRun \in BOOLEAN /\ InsertAtLineEnd' = JoinsRun
    BY <1>7 DEF InsertAtLineEnd, JoinsRun
  <2> DEFINE insert == InsertAtLineEnd'
             pic == picture'
  <2> HIDE DEF insert, pic
  <2>5. ASSUME \A i \in 1 .. Len(picture') - Len(out') :
                  /\ order'.code = "BGRun" => picture'[Len(out') + i] = IF InsertAtLineEnd' /\ i = 1 THEN InForeground(Len(out), i)' ELSE Above(Len(out), i)'
                  /\ order'.code \in {"FGRun", "SetFGRun"} => picture'[Len(out') + i] = InForeground(Len(out), i)'
                  /\ order'.code = "DitheredRun" => picture'[Len(out') + i] = order'.px[IF (i % 2) = 1 THEN 1 ELSE 2]
                  /\ order'.code = "ColorRun" => picture'[Len(out') + i] = order'.px[1]
                  /\ order'.code = "ColorImage" => picture'[Len(out') + i] = order'.px[i]
                  /\ order'.code \in MaskCodes =>
                         picture'[Len(out') + i] = IF (MaskBit(i))' THEN InForeground(Len(out), i)' ELSE Above(Len(out), i)'
                  /\ order'.code = "FGBG1" => picture'[Len(out') + i] = IF i \in {1, 2} THEN InForeground(Len(out), i)' ELSE Above(Len(out), i)'
                  /\ order'.code = "FGBG2" => picture'[Len(out') + i] = IF i \in {1, 3} THEN InForeground(Len(out), i)' ELSE Above(Len(out), i)'
                  /\ order'.code = "White" => picture'[Len(out') + i] = White
                  /\ order'.code = "Black" => picture'[Len(out') + i] = Black
        PROVE  Follows(InsertAtLineEnd, Len(out))'
    BY <2>5 DEF Follows
  <2>6. SUFFICES ASSUME NEW i \in 1 .. Len(px)
                 PROVE
                         /\ o.code = "BGRun" => pic[start + i] = IF insert /\ i = 1 THEN marked(i) ELSE up(i)
                         /\ o.code \in {"FGRun", "SetFGRun"} => pic[start + i] = marked(i)
                         /\ o.code = "DitheredRun" => pic[start + i] = o.px[IF (i % 2) = 1 THEN 1 ELSE 2]
                         /\ o.code = "ColorRun" => pic[start + i] = o.px[1]
                         /\ o.code = "ColorImage" => pic[start + i] = o.px[i]
                         /\ o.code \in MaskCodes =>
                                pic[start + i] = IF (MaskBit(i))' THEN marked(i) ELSE up(i)
                         /\ o.code = "FGBG1" => pic[start + i] = IF i \in {1, 2} THEN marked(i) ELSE up(i)
                         /\ o.code = "FGBG2" => pic[start + i] = IF i \in {1, 3} THEN marked(i) ELSE up(i)
                         /\ o.code = "White" => pic[start + i] = White
                         /\ o.code = "Black" => pic[start + i] = Black
    BY <1>6, <2>2, <2>3, <2>5 DEF insert, pic
  <2>7. pic[start + i] = px[i] /\ Up(px, i) = up(i) /\ Marked(px, fg, i) = marked(i)
    BY <1>4, <1>6 DEF pic
  <2>8. (insert /\ i = 1) <=> (i = 1 /\ JoinsRun)
    BY <1>7 DEF insert
  <2> QED BY Zenon, <2>1, <2>7, <2>8 DEF Says
<1>9. RleTypeOK'
  <2>1. drawn' \in [fg : Pixels, bg : BOOLEAN, first : BOOLEAN]
    BY <1>3, <1>5
  <2>2. Len(picture') <= Size /\ Len(out') <= Len(picture')
    BY <1>2, <1>3, <1>4
  <2> QED BY <1>2, <1>3, <1>4, <2>1, <2>2 DEF RleTypeOK
<1>10. Described'
  <2>1. order' \in Orders /\ run' = NoRun /\ Len(picture') > Len(out')
    BY <1>2, <1>3, <1>4 DEF Idle
  <2>2. PixelCount(order)' = Len(picture') - Len(out')
    <3>1. PixelCount(order)' = PixelCount(o)
      BY <1>3 DEF PixelCount, RunLength
    <3> QED BY <1>2, <1>3, <1>4, <3>1
  <2>3. /\ drawn'.fg = (IF order'.code \in SetCodes THEN order'.px[1] ELSE fgPel')
        /\ drawn'.bg = (order'.code = "BGRun") /\ drawn'.first = (Len(out') < Width)
        /\ firstLine' \/ Len(out') >= Width
    BY <1>2, <1>3, <1>5 DEF Idle
  <2> QED BY <1>8, <2>1, <2>2, <2>3 DEF Described
<1>11. \A i \in 1 .. Len(out') : out'[i] = picture'[i]
  BY <1>2, <1>3, <1>4
<1> QED BY <1>9, <1>10, <1>11 DEF RleInv

RunOrder(code, head, payload) == [code |-> code, head |-> head, px |-> payload, masks |-> <<>>]

LEMMA RunWritten ==
  ASSUME RleTypeOK, Idle, \A i \in 1 .. Len(out) : out[i] = picture[i],
         NEW px \in Extensions, NEW code \in RunCodes \ {"DitheredRun"}, NEW payload \in Seq(Pixels), NEW fg \in Pixels,
         WriteRun(code, px, payload, fg),
         \A head : Says(RunOrder(code, head, payload), px, fg),
         fg = IF code \in SetCodes THEN payload[1] ELSE drawn.fg
  PROVE  RleInv'
<1>1. Len(px) \in Nat
  BY ExtensionIs
<1>2. PICK h \in HeadsFor(code, Len(px)) : Describe(px, RunOrder(code, h, payload), fg)
  BY DEF WriteRun, RunOrder
<1>3. RunLength(code, h) = Len(px) /\ h \in Heads
  BY <1>1, LengthIs
<1>4. PICK o : o = RunOrder(code, h, payload)
  OBVIOUS
<1>5. o.code = code /\ o.head = h /\ o.px = payload
  BY <1>4 DEF RunOrder
<1>6. o \in Orders
  BY <1>3, <1>4 DEF Orders, RunOrder, Codes
<1>7. PixelCount(o) = Len(px)
  BY <1>3, <1>5, CountIs
<1>8. Says(o, px, fg)
  BY <1>4
<1> QED BY <1>2, <1>4, <1>5, <1>6, <1>7, <1>8, Written

\* Between two orders.
RleBetween == RleTypeOK /\ Idle /\ \A i \in 1 .. Len(out) : out[i] = picture[i]

LEMMA ServersColour == ASSUME RleBetween PROVE drawn.fg \in Pixels
  BY DEF RleBetween, RleTypeOK

LEMMA BGRunWritten ==
  ASSUME RleBetween, ServerBGRun
  PROVE  RleInv'
<1>1. PICK px \in Extensions :
         /\ \A i \in 1 .. Len(px) :
               px[i] = IF i = 1 /\ JoinsRun THEN Marked(px, drawn.fg, i) ELSE Up(px, i)
         /\ WriteRun("BGRun", px, <<>>, drawn.fg)
  BY DEF ServerBGRun
<1>2. ASSUME NEW head PROVE Says(RunOrder("BGRun", head, <<>>), px, drawn.fg)
  BY <1>1 DEF Says, RunOrder, MaskCodes
<1>3. "BGRun" \in RunCodes \ {"DitheredRun"} /\ "BGRun" \notin SetCodes
  BY DEF RunCodes, SetCodes
<1>4. <<>> \in Seq(Pixels)
  OBVIOUS
<1> QED BY <1>1, <1>2, <1>3, <1>4, RunWritten, ServersColour DEF RleBetween

LEMMA FGRunWritten ==
  ASSUME RleBetween, ServerFGRun
  PROVE  RleInv'
<1>1. PICK px \in Extensions, fg \in Pixels :
         /\ \A i \in 1 .. Len(px) : px[i] = Marked(px, fg, i)
         /\ \/ fg = drawn.fg /\ WriteRun("FGRun", px, <<>>, fg)
            \/ WriteRun("SetFGRun", px, <<fg>>, fg)
  BY DEF ServerFGRun
<1>2. ASSUME NEW head, NEW code \in {"FGRun", "SetFGRun"}, NEW payload
      PROVE  Says(RunOrder(code, head, payload), px, fg)
  BY <1>1 DEF Says, RunOrder, MaskCodes
<1>3. /\ "FGRun" \in RunCodes \ {"DitheredRun"} /\ "FGRun" \notin SetCodes
      /\ "SetFGRun" \in RunCodes \ {"DitheredRun"} /\ "SetFGRun" \in SetCodes
  BY DEF RunCodes, LiteCodes, SetCodes
<1>4. <<>> \in Seq(Pixels) /\ <<fg>> \in Seq(Pixels) /\ <<fg>>[1] = fg
  OBVIOUS
<1>5. CASE fg = drawn.fg /\ WriteRun("FGRun", px, <<>>, fg)
  BY <1>2, <1>3, <1>4, <1>5, RunWritten DEF RleBetween
<1>6. CASE WriteRun("SetFGRun", px, <<fg>>, fg)
  BY <1>2, <1>3, <1>4, <1>6, RunWritten DEF RleBetween
<1> QED BY <1>1, <1>5, <1>6

LEMMA ColorRunWritten ==
  ASSUME RleBetween, ServerColorRun
  PROVE  RleInv'
<1>1. PICK px \in Extensions :
         (\A i \in 1 .. Len(px) : px[i] = px[1]) /\ WriteRun("ColorRun", px, <<px[1]>>, drawn.fg)
  BY DEF ServerColorRun
<1>2. ASSUME NEW head PROVE Says(RunOrder("ColorRun", head, <<px[1]>>), px, drawn.fg)
  BY <1>1 DEF Says, RunOrder, MaskCodes
<1>3. "ColorRun" \in RunCodes \ {"DitheredRun"} /\ "ColorRun" \notin SetCodes
  BY DEF RunCodes, SetCodes
<1>4. <<px[1]>> \in Seq(Pixels)
  <2>1. px[1] \in Pixels
    BY ExtensionIs DEF RleBetween
  <2> QED BY <2>1
<1> QED BY <1>1, <1>2, <1>3, <1>4, RunWritten, ServersColour DEF RleBetween

LEMMA ColorImageWritten ==
  ASSUME RleBetween, ServerColorImage
  PROVE  RleInv'
<1>1. PICK px \in Extensions : WriteRun("ColorImage", px, px, drawn.fg)
  BY DEF ServerColorImage
<1>2. ASSUME NEW head PROVE Says(RunOrder("ColorImage", head, px), px, drawn.fg)
  BY DEF Says, RunOrder, MaskCodes
<1>3. "ColorImage" \in RunCodes \ {"DitheredRun"} /\ "ColorImage" \notin SetCodes
  BY DEF RunCodes, SetCodes
<1>4. px \in Seq(Pixels)
  BY ExtensionIs DEF RleBetween
<1> QED BY <1>1, <1>2, <1>3, <1>4, RunWritten, ServersColour DEF RleBetween

LEMMA SpecialWritten ==
  ASSUME RleBetween, ServerSpecial
  PROVE  RleInv'
<1>1. PICK px \in Extensions, code \in Codes \ RunCodes :
         /\ CASE code \in {"FGBG1", "FGBG2"} ->
                   /\ Len(px) = MaskBits
                   /\ \A i \in 1 .. MaskBits :
                         px[i] = IF SpecialMark(code, i) THEN Marked(px, drawn.fg, i) ELSE Up(px, i)
              [] code = "White" -> px = <<White>>
              [] code = "Black" -> px = <<Black>>
         /\ Describe(px, RunOrder(code, NoHead, <<>>), drawn.fg)
  BY Zenon DEF ServerSpecial, RunOrder
<1>2. code \in {"FGBG1", "FGBG2", "White", "Black"} /\ code \notin SetCodes
  BY DEF Codes, RunCodes, LiteCodes
<1>3. PICK o : o = RunOrder(code, NoHead, <<>>)
  OBVIOUS
<1>4. o.code = code /\ o \in Orders
  <2>1. <<>> \in Seq(Pixels) /\ <<>> \in Seq(Masks) /\ NoHead \in Heads \cup {NoHead}
    OBVIOUS
  <2> QED BY <1>3, <2>1 DEF Orders, RunOrder
<1>5. PixelCount(o) = Len(px) /\ Says(o, px, drawn.fg)
  <2>1. CASE code \in {"FGBG1", "FGBG2"}
    <3>1. code # "White" /\ code # "Black"
      BY <2>1
    <3>2. /\ Len(px) = MaskBits
          /\ \A i \in 1 .. MaskBits :
                px[i] = IF SpecialMark(code, i) THEN Marked(px, drawn.fg, i) ELSE Up(px, i)
      BY Zenon, <1>1, <2>1, <3>1
    <3>3. PixelCount(o) = Len(px)
      BY <1>4, <2>1, <3>2, CountIs
    <3> QED BY <1>4, <2>1, <3>2, <3>3 DEF Says, SpecialMark, MaskCodes
  <2>2. CASE code = "White"
    <3>1. code # "FGBG1" /\ code # "FGBG2" /\ code # "Black" /\ code \notin {"FGBG1", "FGBG2"}
      BY <2>2
    <3>2. px = <<White>>
      BY Zenon, <1>1, <2>2, <3>1
    <3>3. Len(px) = 1 /\ px[1] = White
      BY <3>2
    <3>4. PixelCount(o) = Len(px)
      BY <1>4, <2>2, <3>3, CountIs
    <3> QED BY <1>4, <2>2, <3>3, <3>4 DEF Says, MaskCodes
  <2>3. CASE code = "Black"
    <3>1. code # "FGBG1" /\ code # "FGBG2" /\ code # "White" /\ code \notin {"FGBG1", "FGBG2"}
      BY <2>3
    <3>2. px = <<Black>>
      BY Zenon, <1>1, <2>3, <3>1
    <3>3. Len(px) = 1 /\ px[1] = Black
      BY <3>2
    <3>4. PixelCount(o) = Len(px)
      BY <1>4, <2>3, <3>3, CountIs
    <3> QED BY <1>4, <2>3, <3>3, <3>4 DEF Says, MaskCodes
  <2> QED BY <1>2, <2>1, <2>2, <2>3
<1> QED BY <1>1, <1>2, <1>3, <1>4, <1>5, Written, ServersColour DEF RleBetween

\* Two pixels repeated: the odd ones are the first, the even ones the second.
LEMMA Alternate ==
  ASSUME NEW px, NEW n \in Nat, \A i \in 1 .. n - 2 : px[i + 2] = px[i]
  PROVE  \A i \in 1 .. n : px[i] = px[IF (i % 2) = 1 THEN 1 ELSE 2]
<1> DEFINE S == {m \in Nat : \A i \in 1 .. n : i <= m => px[i] = px[IF (i % 2) = 1 THEN 1 ELSE 2]}
<1>1. 0 \in S
  OBVIOUS
<1>2. ASSUME NEW m \in S PROVE m + 1 \in S
  <2>1. m \in Nat /\ \A i \in 1 .. n : i <= m => px[i] = px[IF (i % 2) = 1 THEN 1 ELSE 2]
    OBVIOUS
  <2>2. ASSUME NEW i \in 1 .. n, i <= m + 1 PROVE px[i] = px[IF (i % 2) = 1 THEN 1 ELSE 2]
    <3>1. CASE i <= m
      BY <2>1, <3>1
    <3>2. CASE i = 1 \/ i = 2
      BY <3>2
    <3>3. CASE i = m + 1 /\ i > 2
      <4>1. i - 2 \in 1 .. n - 2 /\ i - 2 <= m /\ i - 2 \in 1 .. n /\ i - 2 + 2 = i
        BY <2>1, <3>3
      <4>2. px[i] = px[i - 2]
        BY <4>1
      <4>3. ((i - 2) % 2) = (i % 2)
        BY <3>3
      <4> QED BY <2>1, <4>1, <4>2, <4>3
    <3> QED BY <2>1, <2>2, <3>1, <3>2, <3>3
  <2> QED BY <2>1, <2>2
<1>3. Nat \subseteq S
  <2> HIDE DEF S
  <2> QED BY <1>1, <1>2, SetInduction
<1> QED BY <1>3

LEMMA DitheredRunWritten ==
  ASSUME RleBetween, ServerDitheredRun
  PROVE  RleInv'
<1>1. PICK px \in Extensions :
         /\ (Len(px) % 2) = 0
         /\ \A i \in 1 .. Len(px) - 2 : px[i + 2] = px[i]
         /\ \E h \in HeadsFor("DitheredRun", Len(px) \div 2) :
               Describe(px, RunOrder("DitheredRun", h, <<px[1], px[2]>>), drawn.fg)
  BY DEF ServerDitheredRun, RunOrder
<1>2. PICK h \in HeadsFor("DitheredRun", Len(px) \div 2) :
         Describe(px, RunOrder("DitheredRun", h, <<px[1], px[2]>>), drawn.fg)
  BY <1>1
<1>3. Len(px) \in Nat /\ Len(px) >= 1 /\ \A i \in 1 .. Len(px) : px[i] \in Pixels
  BY ExtensionIs DEF RleBetween
<1> DEFINE n == Len(px)
           c == <<px[1], px[2]>>
<1>4. n \in Nat /\ n >= 2 /\ 2 * (n \div 2) = n /\ n \div 2 \in Nat
  <2>1. n \in Nat /\ n >= 1 /\ (n % 2) = 0
    BY <1>1, <1>3
  <2> HIDE DEF n
  <2> QED BY <2>1
<1>5. px[1] \in Pixels /\ px[2] \in Pixels
  BY <1>3, <1>4
<1>6. c \in Seq(Pixels) /\ c[1] = px[1] /\ c[2] = px[2]
  BY <1>5
<1>7. "DitheredRun" \in RunCodes /\ "DitheredRun" \notin SetCodes /\ "DitheredRun" \notin MaskCodes
  BY DEF RunCodes, LiteCodes, SetCodes, MaskCodes
<1>8. RunLength("DitheredRun", h) = n \div 2 /\ h \in Heads
  BY <1>4, <1>7, LengthIs
<1> HIDE DEF c
<1>9. PICK o : o = RunOrder("DitheredRun", h, c)
  OBVIOUS
<1>10. o.code = "DitheredRun" /\ o.head = h /\ o.px = c
  BY <1>9 DEF RunOrder
<1>11. o \in Orders
  BY <1>6, <1>7, <1>8, <1>9 DEF Orders, RunOrder, Codes
<1>12. PixelCount(o) = Len(px)
  BY <1>4, <1>8, <1>10, CountIs
<1>13. \A i \in 1 .. Len(px) : px[i] = px[IF (i % 2) = 1 THEN 1 ELSE 2]
  BY <1>1, <1>3, Alternate
<1>14. Says(o, px, drawn.fg)
  BY <1>6, <1>7, <1>10, <1>13 DEF Says
<1> QED BY <1>2, <1>7, <1>9, <1>10, <1>11, <1>12, <1>14, Written, ServersColour DEF RleBetween, c

\* The masks spell the marks, bit by bit.
LEMMA MasksSpell ==
  ASSUME NEW n \in Nat, n >= 1, NEW marks \in [1 .. n -> BOOLEAN]
  PROVE  /\ MasksFor(marks) \in Seq(Masks)
         /\ \A i \in 1 .. n : MasksFor(marks)[((i - 1) \div MaskBits) + 1][((i - 1) % MaskBits) + 1] = marks[i]
<1> DEFINE m == MaskBits
           bytes == (n + m - 1) \div m
<1>1. m \in Nat /\ m >= 1 /\ Len(marks) = n
  BY RleAssumption
<1>2. MasksFor(marks) = [k \in 1 .. bytes |->
                            [b \in 1 .. m |-> (k - 1) * m + b \in 1 .. n /\ marks[(k - 1) * m + b]]]
  BY <1>1 DEF MasksFor
<1> HIDE DEF m
<1>3. bytes \in Nat
  BY <1>1
<1>4. ASSUME NEW i \in 1 .. n
      PROVE  \E k \in 1 .. bytes, b \in 1 .. m :
                k = ((i - 1) \div m) + 1 /\ b = ((i - 1) % m) + 1 /\ (k - 1) * m + b = i
  <2>1. i - 1 \in Nat /\ i - 1 < n
    OBVIOUS
  <2> DEFINE a == i - 1
  <2>2. a = m * (a \div m) + (a % m) /\ a \div m \in Nat /\ (a % m) \in 0 .. m - 1
    BY <1>1, <2>1
  <2>3. (a \div m) + 1 \in 1 .. ((n + m - 1) \div m)
    BY <1>1, <2>1
  <2>4. (a \div m) * m = m * (a \div m)
    BY <1>1, <2>2
  <2>5. (a \div m) * m + ((a % m) + 1) = i
    BY <1>1, <2>2, <2>4
  <2>6. PICK k : k = (a \div m) + 1
    OBVIOUS
  <2>7. PICK b : b = (a % m) + 1
    OBVIOUS
  <2>8. k \in 1 .. bytes /\ b \in 1 .. m
    BY <1>1, <2>2, <2>3, <2>6, <2>7
  <2>9. (k - 1) * m + b = i
    <3>1. k - 1 = a \div m
      BY <2>2, <2>6
    <3> QED BY Zenon, <2>5, <2>7, <3>1
  <2> QED BY Zenon, <2>6, <2>7, <2>8, <2>9
<1> HIDE DEF bytes
<1>5. ASSUME NEW i \in 1 .. n
      PROVE  MasksFor(marks)[((i - 1) \div m) + 1][((i - 1) % m) + 1] = marks[i]
  <2>1. PICK k \in 1 .. bytes, b \in 1 .. m :
           k = ((i - 1) \div m) + 1 /\ b = ((i - 1) % m) + 1 /\ (k - 1) * m + b = i
    BY <1>4
  <2>2. MasksFor(marks)[k][b] = ((k - 1) * m + b \in 1 .. n /\ marks[(k - 1) * m + b])
    BY <1>2, <2>1
  <2>3. MasksFor(marks)[k][b] = (i \in 1 .. n /\ marks[i])
    BY <2>1, <2>2
  <2>4. marks[i] \in BOOLEAN
    OBVIOUS
  <2> QED BY <2>1, <2>3, <2>4
<1>6. MasksFor(marks) \in [1 .. bytes -> Masks]
  <2>1. Masks = [1 .. m -> BOOLEAN]
    BY DEF Masks, m
  <2> QED BY <1>2, <2>1
<1>7. MasksFor(marks) \in Seq(Masks)
  BY <1>3, <1>6
<1> QED BY <1>5, <1>7 DEF m

LEMMA FGBGImageWritten ==
  ASSUME RleBetween, ServerFGBGImage
  PROVE  RleInv'
<1>1. PICK px \in Extensions, fg \in Pixels :
         \E marks \in [1 .. Len(px) -> BOOLEAN], code \in MaskCodes : \E h \in HeadsFor(code, Len(px)) :
            /\ \A i \in 1 .. Len(px) : px[i] = IF marks[i] THEN Marked(px, fg, i) ELSE Up(px, i)
            /\ code = "FGBGImage" => fg = drawn.fg
            /\ Describe(px, [code |-> code, head |-> h, masks |-> MasksFor(marks),
                             px |-> IF code \in SetCodes THEN <<fg>> ELSE <<>>], fg)
  BY DEF ServerFGBGImage
<1>2. PICK marks \in [1 .. Len(px) -> BOOLEAN], code \in MaskCodes : \E h \in HeadsFor(code, Len(px)) :
         /\ \A i \in 1 .. Len(px) : px[i] = IF marks[i] THEN Marked(px, fg, i) ELSE Up(px, i)
         /\ code = "FGBGImage" => fg = drawn.fg
         /\ Describe(px, [code |-> code, head |-> h, masks |-> MasksFor(marks),
                          px |-> IF code \in SetCodes THEN <<fg>> ELSE <<>>], fg)
  BY <1>1
<1>3. PICK h \in HeadsFor(code, Len(px)) :
         /\ \A i \in 1 .. Len(px) : px[i] = IF marks[i] THEN Marked(px, fg, i) ELSE Up(px, i)
         /\ code = "FGBGImage" => fg = drawn.fg
         /\ Describe(px, [code |-> code, head |-> h, masks |-> MasksFor(marks),
                          px |-> IF code \in SetCodes THEN <<fg>> ELSE <<>>], fg)
  BY <1>2
<1>4. Len(px) \in Nat /\ Len(px) >= 1
  BY ExtensionIs DEF RleBetween
<1>5. code \in RunCodes \ {"DitheredRun"} /\ (code \notin SetCodes <=> code = "FGBGImage")
  BY DEF RunCodes, LiteCodes, SetCodes, MaskCodes
<1>6. RunLength(code, h) = Len(px) /\ h \in Heads
  BY <1>4, <1>5, LengthIs
<1>7. PICK colours : colours = IF code \in SetCodes THEN <<fg>> ELSE <<>>
  OBVIOUS
<1>8. colours \in Seq(Pixels) /\ (code \in SetCodes => colours[1] = fg)
  BY <1>7
<1>9. PICK bits : bits = MasksFor(marks)
  OBVIOUS
<1>10. /\ bits \in Seq(Masks)
      /\ \A i \in 1 .. Len(px) : bits[((i - 1) \div MaskBits) + 1][((i - 1) % MaskBits) + 1] = marks[i]
  BY <1>4, <1>9, MasksSpell
<1>11. PICK o : o = [code |-> code, head |-> h, masks |-> bits, px |-> colours]
  OBVIOUS
<1>12. o.code = code /\ o.head = h /\ o.px = colours /\ o.masks = bits
  BY <1>11
<1>13. o \in Orders
  BY <1>5, <1>6, <1>8, <1>10, <1>11 DEF Orders, Codes
<1>14. PixelCount(o) = Len(px)
  BY <1>5, <1>6, <1>12, CountIs
<1>15. Says(o, px, fg)
  <2>1. code \notin {"BGRun", "FGRun", "SetFGRun", "DitheredRun", "ColorRun", "ColorImage", "FGBG1", "FGBG2", "White", "Black"}
    BY DEF MaskCodes
  <2> QED BY <1>3, <1>10, <1>12, <2>1 DEF Says
<1>16. fg = IF o.code \in SetCodes THEN o.px[1] ELSE drawn.fg
  BY <1>3, <1>5, <1>8, <1>12
<1>17. Describe(px, o, fg)
  BY <1>3, <1>7, <1>9, <1>11
<1> QED BY <1>13, <1>14, <1>15, <1>16, <1>17, Written DEF RleBetween

\* What the client takes for the i-th pixel, code by code.
LEMMA ValueIs ==
  ASSUME NEW i
  PROVE  /\ order.code = "BGRun" => Value(i) = IF run.insert /\ i = 1 THEN Foreground ELSE ReadAbove
         /\ order.code \in {"FGRun", "SetFGRun"} => Value(i) = Foreground
         /\ order.code = "DitheredRun" => Value(i) = order.px[IF (i % 2) = 1 THEN 1 ELSE 2]
         /\ order.code = "ColorRun" => Value(i) = order.px[1]
         /\ order.code = "ColorImage" => Value(i) = order.px[i]
         /\ order.code \in MaskCodes => Value(i) = IF MaskBit(i) THEN Foreground ELSE ReadAbove
         /\ order.code = "FGBG1" => Value(i) = IF i \in {1, 2} THEN Foreground ELSE ReadAbove
         /\ order.code = "FGBG2" => Value(i) = IF i \in {1, 3} THEN Foreground ELSE ReadAbove
         /\ order.code = "White" => Value(i) = White
         /\ order.code = "Black" => Value(i) = Black
<1>1. ASSUME order.code = "BGRun" PROVE Value(i) = IF run.insert /\ i = 1 THEN Foreground ELSE ReadAbove
  <2>1. /\ order.code \notin {"FGRun", "SetFGRun"} /\ order.code # "DitheredRun" /\ order.code # "ColorRun" /\ order.code # "ColorImage" /\ order.code \notin MaskCodes
        /\ order.code # "FGBG1" /\ order.code # "FGBG2" /\ order.code # "White" /\ order.code # "Black"
    BY <1>1 DEF MaskCodes
  <2> QED BY Zenon, <1>1, <2>1 DEF Value
<1>2. ASSUME order.code \in {"FGRun", "SetFGRun"} PROVE Value(i) = Foreground
  <2>1. /\ order.code # "BGRun" /\ order.code # "DitheredRun" /\ order.code # "ColorRun" /\ order.code # "ColorImage" /\ order.code \notin MaskCodes
        /\ order.code # "FGBG1" /\ order.code # "FGBG2" /\ order.code # "White" /\ order.code # "Black"
    BY <1>2 DEF MaskCodes
  <2> QED BY Zenon, <1>2, <2>1 DEF Value
<1>3. ASSUME order.code = "DitheredRun" PROVE Value(i) = order.px[IF (i % 2) = 1 THEN 1 ELSE 2]
  <2>1. /\ order.code # "BGRun" /\ order.code \notin {"FGRun", "SetFGRun"} /\ order.code # "ColorRun" /\ order.code # "ColorImage" /\ order.code \notin MaskCodes
        /\ order.code # "FGBG1" /\ order.code # "FGBG2" /\ order.code # "White" /\ order.code # "Black"
    BY <1>3 DEF MaskCodes
  <2> QED BY Zenon, <1>3, <2>1 DEF Value
<1>4. ASSUME order.code = "ColorRun" PROVE Value(i) = order.px[1]
  <2>1. /\ order.code # "BGRun" /\ order.code \notin {"FGRun", "SetFGRun"} /\ order.code # "DitheredRun" /\ order.code # "ColorImage" /\ order.code \notin MaskCodes
        /\ order.code # "FGBG1" /\ order.code # "FGBG2" /\ order.code # "White" /\ order.code # "Black"
    BY <1>4 DEF MaskCodes
  <2> QED BY Zenon, <1>4, <2>1 DEF Value
<1>5. ASSUME order.code = "ColorImage" PROVE Value(i) = order.px[i]
  <2>1. /\ order.code # "BGRun" /\ order.code \notin {"FGRun", "SetFGRun"} /\ order.code # "DitheredRun" /\ order.code # "ColorRun" /\ order.code \notin MaskCodes
        /\ order.code # "FGBG1" /\ order.code # "FGBG2" /\ order.code # "White" /\ order.code # "Black"
    BY <1>5 DEF MaskCodes
  <2> QED BY Zenon, <1>5, <2>1 DEF Value
<1>6. ASSUME order.code \in MaskCodes PROVE Value(i) = IF MaskBit(i) THEN Foreground ELSE ReadAbove
  <2>1. /\ order.code # "BGRun" /\ order.code \notin {"FGRun", "SetFGRun"} /\ order.code # "DitheredRun" /\ order.code # "ColorRun" /\ order.code # "ColorImage"
        /\ order.code # "FGBG1" /\ order.code # "FGBG2" /\ order.code # "White" /\ order.code # "Black"
    BY <1>6 DEF MaskCodes
  <2> QED BY Zenon, <1>6, <2>1 DEF Value
<1>7. ASSUME order.code = "FGBG1" PROVE Value(i) = IF i \in {1, 2} THEN Foreground ELSE ReadAbove
  <2>1. /\ order.code # "BGRun" /\ order.code \notin {"FGRun", "SetFGRun"} /\ order.code # "DitheredRun" /\ order.code # "ColorRun" /\ order.code # "ColorImage"
        /\ order.code \notin MaskCodes /\ order.code # "FGBG2" /\ order.code # "White" /\ order.code # "Black"
    BY <1>7 DEF MaskCodes
  <2> QED BY Zenon, <1>7, <2>1 DEF Value
<1>8. ASSUME order.code = "FGBG2" PROVE Value(i) = IF i \in {1, 3} THEN Foreground ELSE ReadAbove
  <2>1. /\ order.code # "BGRun" /\ order.code \notin {"FGRun", "SetFGRun"} /\ order.code # "DitheredRun" /\ order.code # "ColorRun" /\ order.code # "ColorImage"
        /\ order.code \notin MaskCodes /\ order.code # "FGBG1" /\ order.code # "White" /\ order.code # "Black"
    BY <1>8 DEF MaskCodes
  <2> QED BY Zenon, <1>8, <2>1 DEF Value
<1>9. ASSUME order.code = "White" PROVE Value(i) = White
  <2>1. /\ order.code # "BGRun" /\ order.code \notin {"FGRun", "SetFGRun"} /\ order.code # "DitheredRun" /\ order.code # "ColorRun" /\ order.code # "ColorImage"
        /\ order.code \notin MaskCodes /\ order.code # "FGBG1" /\ order.code # "FGBG2" /\ order.code # "Black"
    BY <1>9 DEF MaskCodes
  <2> QED BY Zenon, <1>9, <2>1 DEF Value
<1>10. ASSUME order.code = "Black" PROVE Value(i) = Black
  <2>1. /\ order.code # "BGRun" /\ order.code \notin {"FGRun", "SetFGRun"} /\ order.code # "DitheredRun" /\ order.code # "ColorRun" /\ order.code # "ColorImage"
        /\ order.code \notin MaskCodes /\ order.code # "FGBG1" /\ order.code # "FGBG2" /\ order.code # "White"
    BY <1>10 DEF MaskCodes
  <2> QED BY Zenon, <1>10, <2>1 DEF Value
<1> QED BY Zenon, <1>1, <1>2, <1>3, <1>4, <1>5, <1>6, <1>7, <1>8, <1>9, <1>10

LEMMA SameMeaning ==
  ASSUME UNCHANGED <<picture, drawn, order>>, NEW insert, NEW start, Follows(insert, start),
         run'.insert = insert, Len(out') - run'.done = start
  PROVE  Follows(run.insert, Len(out) - run.done)'
  BY DEF Follows, Above, InForeground, MaskBit

\* The client reads the head: the order has as many pixels as were described,
\* so it fits, and what the client goes by is what the server went by.
LEMMA HeadRead ==
  ASSUME RleInv, ReadOrder
  PROVE  RleInv'
<1>1. Described
  BY NotAnOrder DEF RleInv, Idle, UnderWay, ReadOrder
<1>2. /\ picture \in Seq(Pixels) /\ Len(picture) <= Size /\ out \in Seq(Pixels)
      /\ Len(picture) \in Nat /\ Len(out) \in Nat /\ Size \in Nat /\ Width \in Nat
      /\ drawn \in [fg : Pixels, bg : BOOLEAN, first : BOOLEAN]
      /\ insertFgPel \in BOOLEAN /\ firstLine \in BOOLEAN
  BY SizeIsNat DEF RleInv, RleTypeOK
<1>3. PICK n : n = PixelCount(order)
  OBVIOUS
<1>4. n = Len(picture) - Len(out) /\ Len(picture) > Len(out)
  BY <1>1, <1>3 DEF Described
<1>5. n \in Nat /\ n > 0 /\ Len(picture) = Len(out) + n
  BY <1>2, <1>4
<1>6. PICK ins \in BOOLEAN : ins = InsertAtLineEnd
  BY DEF InsertAtLineEnd
<1>7. PICK start : start = Len(out)
  OBVIOUS
<1>8. run' = [left |-> n, done |-> 0, insert |-> ins] /\ run' \in Runs /\ run'.left = n /\ run'.done = 0 /\ run'.insert = ins
  <2>1. ~(Len(out) + n > Size)
    BY <1>2, <1>5
  <2>2. run' = [left |-> n, done |-> 0, insert |-> ins]
    BY <1>3, <1>6, <2>1 DEF ReadOrder
  <2> QED BY <1>5, <2>2 DEF Runs
<1>9. UNCHANGED <<picture, drawn, order, out>>
  BY DEF ReadOrder
<1>10. fgPel' = drawn.fg /\ insertFgPel' = drawn.bg /\ firstLine' = drawn.first
  <2>1. fgPel' = drawn.fg /\ insertFgPel' = drawn.bg
    BY <1>1 DEF Described, ReadOrder
  <2>2. firstLine' = (firstLine /\ Len(out) < Width) /\ drawn.first = (Len(out) < Width) /\ (firstLine \/ Len(out) >= Width)
    BY <1>1 DEF Described, ReadOrder
  <2>3. Len(out) >= Width => ~(Len(out) < Width)
    BY <1>2
  <2>4. firstLine' = drawn.first
    BY <1>2, <2>2, <2>3
  <2> QED BY <2>1, <2>4
<1>11. drawn' = [fg |-> fgPel', bg |-> insertFgPel', first |-> firstLine']
  BY <1>2, <1>9, <1>10
<1>12. firstLine' \/ Len(out') - run'.done >= Width
  <2>1. drawn.first = (Len(out) < Width)
    BY <1>1 DEF Described
  <2> QED BY <1>2, <1>8, <1>9, <1>10, <2>1
<1>13. Follows(run.insert, Len(out) - run.done)'
  <2>1. Follows(ins, start)
    BY <1>1, <1>6, <1>7 DEF Described
  <2>2. run'.insert = ins /\ Len(out') - run'.done = start
    BY <1>2, <1>7, <1>8, <1>9
  <2> QED BY <1>9, <2>1, <2>2, SameMeaning
<1>14. UnderWay'
  BY <1>1, <1>2, <1>5, <1>8, <1>9, <1>11, <1>12, <1>13 DEF UnderWay, Described
<1>15. RleTypeOK'
  BY <1>2, <1>8, <1>9, <1>10 DEF RleInv, RleTypeOK
<1> QED BY <1>9, <1>14, <1>15 DEF RleInv

\* The client writes the next pixel the order describes.
LEMMA PixelWritten ==
  ASSUME RleInv, WritePixel
  PROVE  RleInv'
<1>1. UnderWay
  BY NotAnOrder DEF RleInv, Idle, Described, WritePixel
<1>2. /\ picture \in Seq(Pixels) /\ Len(picture) <= Size /\ out \in Seq(Pixels)
      /\ Len(picture) \in Nat /\ Len(out) \in Nat /\ Size \in Nat /\ Width \in Nat /\ Width > 0
      /\ \A i \in 1 .. Len(out) : out[i] = picture[i]
  BY SizeIsNat DEF RleInv, RleTypeOK
<1>3. /\ run \in Runs /\ run.left \in Nat /\ run.done \in Nat /\ run.insert \in BOOLEAN
      /\ run.left > 0 /\ Len(picture) = Len(out) + run.left /\ run.done <= Len(out)
      /\ drawn = [fg |-> fgPel, bg |-> insertFgPel, first |-> firstLine]
      /\ firstLine \/ Len(out) - run.done >= Width
  BY <1>1 DEF UnderWay, Runs
<1>4. PICK start : start = Len(out) - run.done
  OBVIOUS
<1>5. PICK i : i = run.done + 1
  OBVIOUS
<1>6. /\ start \in Nat /\ i \in 1 .. Len(picture) - start /\ start + i = Len(out) + 1
      /\ Len(out) + 1 \in 1 .. Len(picture)
  <2>1. PICK len \in Nat : len = Len(out)
    BY <1>2
  <2>2. PICK all \in Nat : all = Len(picture)
    BY <1>2
  <2>3. PICK left \in Nat : left = run.left
    BY <1>3
  <2>4. PICK done \in Nat : done = run.done
    BY <1>3
  <2>5. left > 0 /\ all = len + left /\ done <= len /\ start = len - done /\ i = done + 1
    BY <1>3, <1>4, <1>5, <2>1, <2>2, <2>3, <2>4
  <2>6. start \in Nat /\ i \in 1 .. all - start /\ start + i = len + 1 /\ len + 1 \in 1 .. all
    BY <2>5
  <2> QED BY <2>1, <2>2, <2>6
<1>7. ReadAbove = Above(start, i) /\ Foreground = InForeground(start, i)
  <2>1. drawn.first = firstLine /\ drawn.fg = fgPel
    BY <1>3
  <2>2. CASE firstLine
    BY <2>1, <2>2 DEF ReadAbove, Above, Foreground, InForeground
  <2>3. CASE ~firstLine
    <3>1. start >= Width
      BY <1>3, <1>4, <2>3
    <3>2. PICK k : k = Len(out) + 1 - Width
      OBVIOUS
    <3>3. k \in 1 .. Len(out) /\ start + i - Width = k
      <4>1. PICK len \in Nat : len = Len(out)
        BY <1>2
      <4>2. start \in Nat /\ i \in Nat /\ i > 0 /\ start + i = len + 1 /\ k = len + 1 - Width
        BY <1>2, <1>6, <3>2, <4>1
      <4>3. k \in 1 .. len /\ start + i - Width = k
        BY <1>2, <3>1, <4>2
      <4> QED BY <4>1, <4>3
    <3>4. out[k] = picture[k]
      BY <1>2, <3>3
    <3> QED BY <2>1, <2>3, <3>2, <3>3, <3>4 DEF ReadAbove, Above, Foreground, InForeground
  <2> QED BY <2>2, <2>3
<1>8. PICK n : n = Len(out) + 1
  OBVIOUS
<1>9. Value(i) = picture[n]
  <2>1. Follows(run.insert, start)
    BY <1>1, <1>4 DEF UnderWay
  <2>2. order.code \in Codes
    BY <1>1 DEF UnderWay, Orders
  <2>3. order.code \in {"BGRun", "FGRun", "SetFGRun", "DitheredRun", "ColorRun", "ColorImage", "FGBG1", "FGBG2",
                        "White", "Black"} \/ order.code \in MaskCodes
    BY <2>2 DEF Codes, RunCodes, LiteCodes, SetCodes, MaskCodes
  <2>4. start + i = n /\ i \in 1 .. Len(picture) - start
    BY <1>6, <1>8
  <2>5. /\ order.code = "BGRun" => picture[n] = IF run.insert /\ i = 1 THEN Foreground ELSE ReadAbove
        /\ order.code \in {"FGRun", "SetFGRun"} => picture[n] = Foreground
        /\ order.code = "DitheredRun" => picture[n] = order.px[IF (i % 2) = 1 THEN 1 ELSE 2]
        /\ order.code = "ColorRun" => picture[n] = order.px[1]
        /\ order.code = "ColorImage" => picture[n] = order.px[i]
        /\ order.code \in MaskCodes => picture[n] = IF MaskBit(i) THEN Foreground ELSE ReadAbove
        /\ order.code = "FGBG1" => picture[n] = IF i \in {1, 2} THEN Foreground ELSE ReadAbove
        /\ order.code = "FGBG2" => picture[n] = IF i \in {1, 3} THEN Foreground ELSE ReadAbove
        /\ order.code = "White" => picture[n] = White
        /\ order.code = "Black" => picture[n] = Black
    BY <1>7, <2>1, <2>4 DEF Follows
  <2> QED BY <2>3, <2>5, ValueIs
<1>10. picture[n] \in Pixels
  BY <1>2, <1>6, <1>8
<1>11. PICK v \in Pixels : v = Value(run.done + 1) /\ v = picture[n]
  BY <1>5, <1>9, <1>10
<1>12. out' = Append(out, v) /\ UNCHANGED <<picture, drawn, fgPel, insertFgPel, firstLine>>
  BY <1>11 DEF WritePixel
<1>13. out' \in Seq(Pixels) /\ Len(out') = n /\ \A k \in 1 .. Len(out') : out'[k] = picture'[k]
  <2>1. Append(out, v) \in Seq(Pixels) /\ Len(Append(out, v)) = Len(out) + 1
    BY <1>2
  <2>2. \A k \in 1 .. Len(out) + 1 : Append(out, v)[k] = IF k = Len(out) + 1 THEN v ELSE out[k]
    BY <1>2
  <2>3. \A k \in 1 .. Len(out) + 1 : k # Len(out) + 1 => k \in 1 .. Len(out)
    BY <1>2
  <2>4. \A k \in 1 .. Len(out) + 1 : Append(out, v)[k] = picture[k]
    BY <1>2, <1>8, <1>11, <2>2, <2>3
  <2> QED BY <1>8, <1>12, <2>1, <2>4
<1>14. CASE run.left = 1
  <2>1. run' = NoRun /\ order' = NoOrder
    BY <1>14 DEF WritePixel
  <2>2. Len(out') = Len(picture') /\ (firstLine' \/ Len(out') >= Width)
    BY <1>2, <1>3, <1>8, <1>12, <1>13, <1>14
  <2>3. Idle'
    BY <1>3, <1>12, <2>1, <2>2 DEF Idle
  <2>4. RleTypeOK'
    BY <1>12, <1>13, <2>1, <2>2 DEF RleInv, RleTypeOK
  <2> QED BY <1>13, <2>3, <2>4 DEF RleInv
<1>15. CASE run.left # 1
  <2>1. run' = [run EXCEPT !.left = @ - 1, !.done = @ + 1] /\ order' = order
    BY <1>15 DEF WritePixel
  <2>2. run' \in Runs /\ run'.left = run.left - 1 /\ run'.done = run.done + 1 /\ run'.insert = run.insert
    <3>1. run.left - 1 \in Nat /\ run.done + 1 \in Nat
      BY <1>3, <1>15
    <3>2. run' = [left |-> run.left - 1, done |-> run.done + 1, insert |-> run.insert]
      BY <1>3, <2>1 DEF Runs
    <3> QED BY <1>3, <3>1, <3>2 DEF Runs
  <2>3. /\ run'.left > 0 /\ Len(picture') = Len(out') + run'.left /\ run'.done <= Len(out')
        /\ Len(out') - run'.done = start /\ Len(out') <= Len(picture')
    <3>1. PICK len \in Nat : len = Len(out)
      BY <1>2
    <3>2. PICK all \in Nat : all = Len(picture)
      BY <1>2
    <3>3. PICK left \in Nat : left = run.left
      BY <1>3
    <3>4. PICK done \in Nat : done = run.done
      BY <1>3
    <3>5. /\ left > 0 /\ left # 1 /\ all = len + left /\ done <= len /\ start = len - done
          /\ Len(picture') = all /\ Len(out') = len + 1 /\ run'.left = left - 1 /\ run'.done = done + 1
      BY <1>3, <1>4, <1>8, <1>12, <1>13, <1>15, <2>2, <3>1, <3>2, <3>3, <3>4
    <3>6. /\ left - 1 > 0 /\ all = (len + 1) + (left - 1) /\ done + 1 <= len + 1
          /\ (len + 1) - (done + 1) = start /\ len + 1 <= all
      BY <3>5
    <3> QED BY <3>5, <3>6
  <2>4. Follows(run.insert, Len(out) - run.done)'
    <3>1. PICK ins : ins = run.insert
      OBVIOUS
    <3>2. Follows(ins, start)
      BY <1>1, <1>4, <3>1 DEF UnderWay
    <3> QED BY <1>12, <2>1, <2>2, <2>3, <3>1, <3>2, SameMeaning
  <2>5. firstLine' \/ Len(out') - run'.done >= Width
    BY <1>3, <1>4, <1>12, <2>3
  <2>6. UnderWay'
    BY <1>1, <1>3, <1>12, <2>1, <2>2, <2>3, <2>4, <2>5 DEF UnderWay
  <2>7. RleTypeOK'
    BY <1>12, <1>13, <2>1, <2>2, <2>3 DEF RleInv, RleTypeOK
  <2> QED BY <1>13, <2>6, <2>7 DEF RleInv
<1> QED BY <1>14, <1>15

\* A bitmap begins with nothing drawn.
LEMMA BitmapBegins ==
  /\ RleInit => RleInv
  /\ RleInv /\ NextBitmap => RleInv'
<1>1. <<>> \in Seq(Pixels) /\ Len(<<>>) = 0 /\ White \in Pixels /\ Size \in Nat
  BY SizeIsNat DEF White, Pixels
<1>2. ASSUME RleInit PROVE RleInv
  <2>1. RleTypeOK
    <3>1. drawn \in [fg : Pixels, bg : BOOLEAN, first : BOOLEAN]
      BY <1>1, <1>2 DEF RleInit
    <3>2. picture \in Seq(Pixels) /\ Len(picture) = 0 /\ out \in Seq(Pixels) /\ Len(out) = 0
      BY <1>1, <1>2 DEF RleInit
    <3>3. order = NoOrder /\ run = NoRun /\ fgPel \in Pixels /\ insertFgPel \in BOOLEAN /\ firstLine \in BOOLEAN
      BY <1>1, <1>2 DEF RleInit
    <3> QED BY <1>1, <3>1, <3>2, <3>3, SizeIsNat DEF RleTypeOK
  <2>2. Idle
    BY <1>2 DEF RleInit, Idle
  <2>3. \A i \in 1 .. Len(out) : out[i] = picture[i]
    BY <1>2 DEF RleInit
  <2> QED BY <2>1, <2>2, <2>3 DEF RleInv
<1>3. ASSUME RleInv, NextBitmap PROVE RleInv'
  <2>1. order = NoOrder /\ run = NoRun
    BY <1>3, NotAnOrder DEF NextBitmap, Complete, RleInv, Idle, Described, UnderWay
  <2>2. RleTypeOK'
    <3>1. drawn' \in [fg : Pixels, bg : BOOLEAN, first : BOOLEAN]
      BY <1>1, <1>3 DEF NextBitmap
    <3>2. picture' \in Seq(Pixels) /\ Len(picture') = 0 /\ out' \in Seq(Pixels) /\ Len(out') = 0
      BY <1>1, <1>3 DEF NextBitmap
    <3>3. /\ order' = NoOrder /\ run' = NoRun
          /\ fgPel' \in Pixels /\ insertFgPel' \in BOOLEAN /\ firstLine' \in BOOLEAN
      BY <1>1, <1>3, <2>1 DEF NextBitmap
    <3> QED BY <1>1, <3>1, <3>2, <3>3, SizeIsNat DEF RleTypeOK
  <2>3. Idle'
    BY <1>3, <2>1 DEF NextBitmap, Idle
  <2>4. \A i \in 1 .. Len(out') : out'[i] = picture'[i]
    BY <1>3 DEF NextBitmap
  <2> QED BY <2>2, <2>3, <2>4 DEF RleInv
<1> QED BY <1>2, <1>3

\* The scan from the bottom row up is shown from the top row down.
LEMMA ScanShown ==
  ASSUME NEW i \in 1 .. Size
  PROVE  Rgba[Height - 1 - ((i - 1) \div Width)][(i - 1) % Width] = out[i]
<1> DEFINE w == Width
           h == Height
           a == i - 1
<1>1. w \in Nat /\ w > 0 /\ h \in Nat /\ Size = w * h /\ Size \in Nat
  BY SizeIsNat DEF Size
<1>2. a \in Nat /\ a < w * h /\ i = a + 1
  BY <1>1
<1> HIDE DEF w, h, a
<1>3. PICK q : q = a \div w
  OBVIOUS
<1>4. PICK x : x = (a % w)
  OBVIOUS
<1>5. q \in Nat /\ x \in 0 .. w - 1 /\ a = w * q + x /\ q < h
  BY <1>1, <1>2, <1>3, <1>4
<1>6. PICK y : y = h - 1 - q
  OBVIOUS
<1>7. y \in 0 .. h - 1 /\ h - 1 - y = q
  BY <1>1, <1>5, <1>6
<1>8. Rgba[y][x] = out[(h - 1 - y) * w + x + 1]
  BY <1>5, <1>7 DEF Rgba, w, h
<1>9. q * w + x + 1 = i
  BY <1>1, <1>2, <1>5
<1>10. (h - 1 - y) * w + x + 1 = i
  BY Zenon, <1>7, <1>9
<1> QED BY Zenon, <1>3, <1>4, <1>6, <1>8, <1>10 DEF a, w, h

\* Whatever the size of the bitmap, the colours, the widths of the fields and
\* the orders the server cuts a picture into: every pixel decoded is the one
\* it meant, no order is refused, and none is left over (rle.go, bitmap.go).
THEOREM BitmapsDecoded == Spec => [](RleTypeOK /\ RleFaithful)
<1>1. RleInv /\ [RleNext]_rleVars => RleInv'
  <2>1. ASSUME RleInv, ServerOrder PROVE RleInv'
    <3>1. RleBetween
      BY <2>1, NotAnOrder DEF RleInv, RleBetween, ServerOrder, Described, UnderWay
    <3> QED BY <2>1, <3>1, BGRunWritten, FGRunWritten, ColorRunWritten, ColorImageWritten, DitheredRunWritten,
               FGBGImageWritten, SpecialWritten DEF ServerOrder
  <2>2. ASSUME RleInv, UNCHANGED rleVars PROVE RleInv'
    <3>1. UNCHANGED <<picture, drawn, order, run, out, fgPel, insertFgPel, firstLine>>
      BY <2>2 DEF rleVars
    <3>2. RleTypeOK' /\ \A i \in 1 .. Len(out') : out'[i] = picture'[i]
      BY <2>2, <3>1 DEF RleInv, RleTypeOK
    <3>3. ASSUME Idle PROVE Idle'
      BY <3>1, <3>3 DEF Idle
    <3>4. ASSUME Described PROVE Described'
      <4>1. PixelCount(order)' = PixelCount(order)
        BY <3>1 DEF PixelCount, RunLength
      <4>2. Follows(InsertAtLineEnd, Len(out))'
        <5>1. PICK insert : insert = InsertAtLineEnd
          OBVIOUS
        <5>2. PICK start : start = Len(out)
          OBVIOUS
        <5>3. insert = InsertAtLineEnd' /\ start = Len(out')
          BY <3>1, <5>1, <5>2 DEF InsertAtLineEnd
        <5>4. Follows(insert, start)
          BY <3>4, <5>1, <5>2 DEF Described
        <5> QED BY <3>1, <5>3, <5>4 DEF Follows, Above, InForeground, MaskBit
      <4> QED BY <3>1, <3>4, <4>1, <4>2 DEF Described
    <3>5. ASSUME UnderWay PROVE UnderWay'
      <4>1. Follows(run.insert, Len(out) - run.done)'
        BY <3>1, <3>5, SameMeaning DEF UnderWay
      <4> QED BY <3>1, <3>5, <4>1 DEF UnderWay
    <3> QED BY <2>2, <3>2, <3>3, <3>4, <3>5 DEF RleInv
  <2> QED BY <2>1, <2>2, HeadRead, PixelWritten, BitmapBegins DEF RleNext
<1>2. RleInv => RleTypeOK /\ RleFaithful
  <2> SUFFICES ASSUME RleInv PROVE RleFaithful
    BY DEF RleInv
  <2>1. run # Rejected
    BY NotAnOrder DEF RleInv, Idle, Described, UnderWay
  <2>2. order = NoOrder => Len(out) = Len(picture)
    BY NotAnOrder DEF RleInv, Idle, Described, UnderWay
  <2>3. \A i \in 1 .. Len(out) : out[i] = picture[i]
    BY DEF RleInv
  <2>4. ASSUME Complete, NEW i \in 1 .. Size
        PROVE  Rgba[Height - 1 - ((i - 1) \div Width)][(i - 1) % Width] = picture[i]
    BY <2>2, <2>3, <2>4, ScanShown DEF Complete
  <2> QED BY <2>1, <2>2, <2>3, <2>4 DEF RleFaithful
<1>3. RleSpec => []RleInv
  BY <1>1, BitmapBegins, PTL DEF RleSpec
<1> QED BY <1>2, <1>3, BitmapsTakePart, PTL

-----------------------------------------------------------------------------
(* Rectangles: types.                                                      *)

\* Pictures, whatever their size and pixels.
Pictured(p) == p = [kind |-> p.kind, w |-> p.w, h |-> p.h, px |-> p.px] /\ p.kind \in Kinds
\* The types, in a form that steps keep.
RectsTyped ==
    /\ Pictured(meant) /\ Pictured(shown)
    /\ tiles \in Nat /\ tx \in Nat /\ ty \in Nat
    /\ comp \in [Streams -> Nat] /\ deco \in [Streams -> Nat]
    /\ updates \in 0 .. MaxUpdates /\ readable \in BOOLEAN

\* A picture is built.
LEMMA PictureIs ==
  ASSUME NEW k \in Kinds, NEW w, NEW h, NEW px
  PROVE  Pictured([kind |-> k, w |-> w, h |-> h, px |-> px])
BY DEF Pictured

\* A picture with other pixels is a picture.
LEMMA Repainted ==
  ASSUME NEW p, Pictured(p), NEW px
  PROVE  Pictured([p EXCEPT !.px = px])
BY DEF Pictured

\* So is none.
LEMMA NothingIs == Pictured(Nothing) /\ Nothing.kind = "none"
BY DEF Nothing, Pictured, Kinds

\* One chunk more on a stream.
LEMMA CountedOn ==
  ASSUME NEW c \in [Streams -> Nat], NEW s
  PROVE  [c EXCEPT ![s] = @ + 1] \in [Streams -> Nat]
<1>1. [c EXCEPT ![s] = @ + 1] = [x \in Streams |-> IF x = s THEN c[s] + 1 ELSE c[x]]
  OBVIOUS
<1>2. \A x \in Streams : c[x] \in Nat
  OBVIOUS
<1>3. ASSUME NEW x \in Streams PROVE (IF x = s THEN c[s] + 1 ELSE c[x]) \in Nat
  BY <1>2
<1> QED BY <1>1, <1>3

\* What a Tight rectangle leaves of the counts.
LEMMA TightCounts ==
  ASSUME NEW zlib \in [Streams -> Nat], NEW r, NEW w, NEW h
  PROVE  TightRect(r, w, h, zlib).zlib \in [Streams -> Nat]
<1>1. ASSUME NEW resets PROVE AfterResets(zlib, resets) \in [Streams -> Nat]
  BY DEF AfterResets
<1>2. ASSUME NEW q, NEW sub, NEW z \in [Streams -> Nat]
      PROVE  TightBasic(q, sub, w, h, z).zlib \in [Streams -> Nat]
  <2>1. PICK after : after = TightBasic(q, sub, w, h, z).zlib
    OBVIOUS
  <2>2. after = z \/ \E s : after = [z EXCEPT ![s] = @ + 1]
    BY <2>1 DEF TightBasic
  <2>3. after \in [Streams -> Nat]
    BY <2>2, CountedOn
  <2> QED BY <2>1, <2>3
<1>3. PICK z, ctl, left :
        /\ z = TightRect(r, w, h, zlib) /\ ctl = TakeOne(r, "u8") /\ left = AfterResets(zlib, ctl.val.resets)
  OBVIOUS
<1>4. PICK sub : sub = ctl.val.sub
  OBVIOUS
<1>5. z = CASE sub < 8 -> TightBasic(ctl, sub, w, h, left)
            [] sub = 8 -> [r |-> Spread(TakeOne(ctl, "px"), w * h), zlib |-> left]
            [] sub = 9 -> [r |-> ReadJpeg(ctl), zlib |-> left]
            [] OTHER -> [r |-> Fail(ctl), zlib |-> left]
  BY <1>3, <1>4, Zenon DEF TightRect
<1>6. left \in [Streams -> Nat]
  BY <1>1, <1>3
<1>7. TightBasic(ctl, sub, w, h, left).zlib \in [Streams -> Nat]
  BY <1>2, <1>6
<1> QED BY <1>3, <1>5, <1>6, <1>7

\* What a decoder's outcome leaves.
LEMMA OutcomeTyped ==
  ASSUME RectsTyped, NEW r, NEW k \in Kinds, Outcome(r, k)
  PROVE  /\ Pictured(meant') /\ Pictured(shown') /\ tiles' \in Nat /\ comp' \in [Streams -> Nat]
         /\ updates' \in 0 .. MaxUpdates /\ readable' \in BOOLEAN
<1>1. meant' = meant /\ tiles' = tiles /\ comp' = comp /\ updates' = updates
  BY DEF Outcome
<1>2. readable' \in BOOLEAN
  BY DEF Outcome
<1>3. Pictured(shown')
  <2>1. shown' = [kind |-> k, w |-> meant.w, h |-> meant.h, px |-> r.val] \/ shown' = Nothing
    BY DEF Outcome
  <2> QED BY <2>1, PictureIs, NothingIs
<1> QED BY <1>1, <1>2, <1>3 DEF RectsTyped

\* What a server sends of a Tight rectangle once the streams are reset.
TightSent(size, resets, fresh, n) ==
    \/ /\ \E c \in Shades :
             Send("Tight", size, [i \in 1 .. n |-> c], <<Control(resets, 8), Px(c)>>)
       /\ comp' = fresh
    \/ /\ \E px \in [1 .. n -> Shades], z \in ChunkSizes :
             Send("Tight", size, px, <<Control(resets, 9)>> \o CompactLength(z)
                                     \o <<[kind |-> "jpeg", val |-> [size |-> z, px |-> px]]>>)
       /\ comp' = fresh
    \/ \E f \in TightForms(size[1], size[2]), s \in {0, 1} :
          LET head == <<Control(resets, s + (IF f.filter = <<>> THEN 0 ELSE 4))>> \o f.filter
          IN  IF f.size < MinToCompress
              THEN Send("Tight", size, f.px, head \o f.data) /\ comp' = fresh
              ELSE \E z \in ChunkSizes :
                     /\ Send("Tight", size, f.px, head \o CompactLength(z) \o
                             <<[Chunk(s, z, f.data) EXCEPT !.val.at = fresh[s]]>>)
                     /\ comp' = [fresh EXCEPT ![s] = @ + 1]
\* It is a picture, with the chunks counted.
LEMMA TightTyped ==
  ASSUME NEW size, NEW resets, NEW fresh \in [Streams -> Nat], NEW n, TightSent(size, resets, fresh, n)
  PROVE  (\E px, b : Send("Tight", size, px, b)) /\ comp' \in [Streams -> Nat]
<1>1. CASE (\E c \in Shades :
             Send("Tight", size, [i \in 1 .. n |-> c], <<Control(resets, 8), Px(c)>>)) /\ comp' = fresh
  BY <1>1
<1>2. CASE (\E px \in [1 .. n -> Shades], z \in ChunkSizes :
             Send("Tight", size, px, <<Control(resets, 9)>> \o CompactLength(z)
                                     \o <<[kind |-> "jpeg", val |-> [size |-> z, px |-> px]]>>)) /\ comp' = fresh
  BY <1>2
<1>3. CASE \E f \in TightForms(size[1], size[2]), s \in {0, 1} :
             LET head == <<Control(resets, s + (IF f.filter = <<>> THEN 0 ELSE 4))>> \o f.filter
             IN  IF f.size < MinToCompress
                 THEN Send("Tight", size, f.px, head \o f.data) /\ comp' = fresh
                 ELSE \E z \in ChunkSizes :
                        /\ Send("Tight", size, f.px, head \o CompactLength(z) \o
                                <<[Chunk(s, z, f.data) EXCEPT !.val.at = fresh[s]]>>)
                        /\ comp' = [fresh EXCEPT ![s] = @ + 1]
  <2>1. PICK f, s : \/ (\E b : Send("Tight", size, f.px, b)) /\ comp' = fresh
                    \/ (\E b : Send("Tight", size, f.px, b)) /\ comp' = [fresh EXCEPT ![s] = @ + 1]
    BY <1>3, Zenon
  <2> QED BY <2>1, CountedOn
<1> QED BY <1>1, <1>2, <1>3, Zenon DEF TightSent

\* That is what it sends.
LEMMA TightIs ==
  ServerTight => \E size \in Sizes, resets \in {{}, {0}, {0, 1}} :
    TightSent(size, resets, [s \in Streams |-> IF s \in resets THEN 0 ELSE comp[s]], size[1] * size[2])
<1>1. ServerTight <=> \E size \in Sizes, resets \in {{}, {0}, {0, 1}} :
    UNCHANGED tiles /\ TightSent(size, resets, [s \in Streams |-> IF s \in resets THEN 0 ELSE comp[s]], size[1] * size[2])
  BY DEF ServerTight, TightSent
<1> QED BY <1>1, Zenon

\* What the server sends is well-typed.
LEMMA ServerRectTyped == ASSUME RectsTyped, ServerRect PROVE RectsTyped'
<1>1. /\ updates < MaxUpdates /\ updates' = updates + 1
      /\ UNCHANGED <<shown, tx, ty, deco, readable>>
  BY DEF ServerRect
<1>2. updates' \in 0 .. MaxUpdates
  BY <1>1, RectsAssumption DEF RectsTyped
<1>3. ASSUME NEW k \in Kinds, NEW size, NEW px, NEW b, Send(k, size, px, b) PROVE Pictured(meant')
  BY <1>3, PictureIs DEF Send
<1>4. Pictured(meant') /\ comp' \in [Streams -> Nat] /\ tiles' \in Nat
  <2>1. CASE ServerRaw
    BY <1>3, <2>1 DEF ServerRaw, Kinds, RectsTyped
  <2>2. CASE ServerCopyRect
    BY <1>3, <2>2 DEF ServerCopyRect, Kinds, RectsTyped
  <2>3. CASE ServerCursor
    BY <1>3, <2>3 DEF ServerCursor, Kinds, RectsTyped
  <2>4. CASE ServerZrle
    <3>1. PICK size \in TiledSizes : Send("ZRLE", size, <<>>, <<Chunk(4, 0, <<>>)>>)
      BY <2>4 DEF ServerZrle
    <3>2. comp' = [comp EXCEPT ![4] = @ + 1] /\ tiles' = 0
      BY <2>4 DEF ServerZrle
    <3>3. comp' \in [Streams -> Nat]
      BY <3>2, CountedOn DEF RectsTyped
    <3> QED BY <1>3, <3>1, <3>2, <3>3 DEF Kinds
  <2>5. CASE ServerTight
    <3>1. tiles' = tiles
      BY <2>5, Zenon DEF ServerTight
    <3>2. PICK size \in Sizes, resets \in {{}, {0}, {0, 1}} :
            TightSent(size, resets, [s \in Streams |-> IF s \in resets THEN 0 ELSE comp[s]], size[1] * size[2])
      BY <2>5, TightIs, Zenon
    <3>3. PICK fresh : fresh = [s \in Streams |-> IF s \in resets THEN 0 ELSE comp[s]]
      OBVIOUS
    <3>4. fresh \in [Streams -> Nat]
      BY <3>3 DEF RectsTyped
    <3>5. TightSent(size, resets, fresh, size[1] * size[2])
      BY <3>2, <3>3
    <3>6. (\E px, b : Send("Tight", size, px, b)) /\ comp' \in [Streams -> Nat]
      BY <3>4, <3>5, TightTyped
    <3> QED BY <1>3, <3>1, <3>6 DEF RectsTyped, Kinds
  <2> QED BY <2>1, <2>2, <2>3, <2>4, <2>5 DEF ServerRect
<1> QED BY <1>1, <1>2, <1>4 DEF RectsTyped

\* Every step keeps the types.
LEMMA RectsStepTyped == ASSUME RectsTyped, RectsNext PROVE RectsTyped'
<1>1. CASE ServerRect
  BY <1>1, ServerRectTyped
<1>2. CASE ServerTile
  <2>1. \E px : meant' = [meant EXCEPT !.px = px]
    BY <1>2, Zenon DEF ServerTile
  <2>2. Pictured(meant')
    BY <2>1, Repainted DEF RectsTyped
  <2>3. tiles' = tiles + 1 /\ UNCHANGED <<shown, tx, ty, comp, deco, updates, readable>>
    BY <1>2 DEF ServerTile
  <2> QED BY <2>2, <2>3 DEF RectsTyped
<1>3. CASE NextRect
  <2>1. /\ meant' = Nothing /\ shown' = Nothing /\ tiles' = 0 /\ tx' = 0 /\ ty' = 0
        /\ UNCHANGED <<stream, comp, deco, updates, readable>>
    BY <1>3 DEF NextRect
  <2> QED BY <2>1, NothingIs DEF RectsTyped
<1>4. CASE DecodeRaw
  <2>1. Outcome(TakeMany(Reader, "px", meant.w * meant.h), "Raw") /\ UNCHANGED <<tx, ty, deco>>
    BY <1>4, Zenon DEF DecodeRaw
  <2>2. PICK r : Outcome(r, "Raw")
    BY <2>1
  <2> QED BY <2>1, <2>2, OutcomeTyped DEF RectsTyped, Kinds
<1>5. CASE DecodeCopyRect
  <2>1. Outcome(TakeMany(Reader, "u16", 2), "CopyRect") /\ UNCHANGED <<tx, ty, deco>>
    BY <1>5, Zenon DEF DecodeCopyRect
  <2>2. PICK r : Outcome(r, "CopyRect")
    BY <2>1
  <2> QED BY <2>1, <2>2, OutcomeTyped DEF RectsTyped, Kinds
<1>6. CASE DecodeCursor
  <2>1. (\E r : Outcome(r, "Cursor")) /\ UNCHANGED <<tx, ty, deco>>
    BY <1>6, Zenon DEF DecodeCursor
  <2>2. PICK r : Outcome(r, "Cursor")
    BY <2>1
  <2> QED BY <2>1, <2>2, OutcomeTyped DEF RectsTyped, Kinds
<1>7. CASE DecodeZRLE
  <2>1. /\ readable' = Inflates(4, Head(stream).val)
        /\ deco' = [deco EXCEPT ![4] = @ + 1]
        /\ tx' = 0 /\ ty' = 0
        /\ shown' = [kind |-> "ZRLE", w |-> meant.w, h |-> meant.h, px |-> <<>>]
        /\ UNCHANGED <<meant, tiles, comp, updates>>
    BY <1>7 DEF DecodeZRLE
  <2>2. readable' \in BOOLEAN
    BY <2>1 DEF Inflates
  <2>3. deco' \in [Streams -> Nat]
    BY <2>1, CountedOn DEF RectsTyped
  <2>4. Pictured(shown')
    BY <2>1, PictureIs DEF Kinds
  <2> QED BY <2>1, <2>2, <2>3, <2>4 DEF RectsTyped
<1>8. CASE DecodeTile
  <2>1. /\ \E r : readable' = (r.ok /\ r.buf = <<>>)
        /\ \E px : shown' = [shown EXCEPT !.px = px] \/ shown' = Nothing
        /\ UNCHANGED <<meant, tiles, comp, deco, updates>>
    BY <1>8, Zenon DEF DecodeTile
  <2>2. tx' \in Nat /\ ty' \in Nat
    BY <1>8, RectsAssumption DEF DecodeTile, RectsTyped
  <2>3. readable' \in BOOLEAN
    BY <2>1
  <2>4. Pictured(shown')
    <3>1. PICK px : shown' = [shown EXCEPT !.px = px] \/ shown' = Nothing
      BY <2>1
    <3>2. Pictured([shown EXCEPT !.px = px]) /\ Pictured(Nothing)
      BY Repainted, NothingIs DEF RectsTyped
    <3> QED BY <3>1, <3>2
  <2> QED BY <2>1, <2>2, <2>3, <2>4 DEF RectsTyped
<1>9. CASE DecodeTight
  <2>1. UNCHANGED <<tx, ty>>
    BY <1>9, Zenon DEF DecodeTight
  <2>2. (\E r : Outcome(r, "Tight")) /\ deco' = TightRect(Reader, meant.w, meant.h, deco).zlib
    BY <1>9, Zenon DEF DecodeTight
  <2>5. deco' \in [Streams -> Nat]
    BY <2>2, TightCounts DEF RectsTyped
  <2>6. PICK r : Outcome(r, "Tight")
    BY <2>2
  <2> QED BY <2>1, <2>5, <2>6, OutcomeTyped DEF RectsTyped, Kinds
<1> QED BY <1>1, <1>2, <1>3, <1>4, <1>5, <1>6, <1>7, <1>8, <1>9 DEF RectsNext

\* Every variable of the rectangles keeps its type, for any sizes and thresholds.
THEOREM RectsTypes == RectsSpec => []RectsTypeOK
<1>1. RectsInit => RectsTyped
  <2>1. RectsInit => [s \in Streams |-> 0] \in [Streams -> Nat]
    OBVIOUS
  <2> QED BY <2>1, NothingIs, RectsAssumption DEF RectsInit, RectsTyped
<1>2. RectsTyped /\ [RectsNext]_rectsVars => RectsTyped'
  <2>1. RectsTyped /\ UNCHANGED rectsVars => RectsTyped'
    BY DEF RectsTyped, rectsVars, Pictured
  <2> QED BY <2>1, RectsStepTyped
<1>3. RectsTyped => RectsTypeOK
  BY DEF RectsTyped, RectsTypeOK, Pictured
<1> QED BY <1>1, <1>2, <1>3, PTL DEF RectsSpec

-----------------------------------------------------------------------------
(* Rectangles: reading tokens.                                             *)

\* What a token carries.
Contents == UNION {Int, [resets : SUBSET Streams, sub : Int],
                   [of : Int, size : Int, at : Int, data : Seq([kind : {"u8", "px"}, val : Int])],
                   [size : Int, px : Seq(Int)]}
Items == [kind : {"u8", "u16", "px", "chunk", "jpeg"}, val : Contents]

\* A reader that has understood everything so far.
Understood(buf, val) == [buf |-> buf, val |-> val, ok |-> TRUE]

\* Its parts.
LEMMA UnderstoodIs == \A buf, val :
    Understood(buf, val).buf = buf /\ Understood(buf, val).val = val /\ Understood(buf, val).ok = TRUE
BY DEF Understood

\* A reader is its three parts.
LEMMA ReaderIs ==
  ASSUME NEW q, NEW buf, NEW val, DOMAIN q = {"buf", "val", "ok"}, q = [x \in DOMAIN q |-> q[x]],
         q.buf = buf, q.val = val, q.ok = TRUE
  PROVE  q = Understood(buf, val)
<1>1. q = [buf |-> buf, val |-> val, ok |-> TRUE]
  OBVIOUS
<1> QED BY <1>1 DEF Understood

\* A reader whose value is set.
LEMMA ValueSet ==
  ASSUME NEW buf, NEW val, NEW r, r = Understood(buf, val), NEW v
  PROVE  [r EXCEPT !.val = v] = Understood(buf, v)
<1>1. PICK q : q = [r EXCEPT !.val = v]
  OBVIOUS
<1>2. DOMAIN r = {"buf", "val", "ok"} /\ r = [x \in DOMAIN r |-> r[x]] /\ r.buf = buf /\ r.ok = TRUE
  BY DEF Understood
<1>3. /\ DOMAIN q = {"buf", "val", "ok"} /\ q = [x \in DOMAIN q |-> q[x]]
      /\ q.buf = buf /\ q.val = v /\ q.ok = TRUE
  BY <1>1, <1>2
<1>4. q = Understood(buf, v)
  BY <1>3, ReaderIs
<1> QED BY <1>1, <1>4

\* A token is read (TakeOne).
LEMMA OneTaken ==
  ASSUME NEW a \in Items, NEW rest \in Seq(Items), NEW x
  PROVE  TakeOne(Understood(<<a>> \o rest, x), a.kind) = Understood(rest, a.val)
<1>1. PICK buf : buf = <<a>> \o rest
  OBVIOUS
<1>2. buf # <<>> /\ Head(buf) = a /\ Tail(buf) = rest
  BY <1>1, Ahead
<1>3. PICK r : r = Understood(buf, x)
  OBVIOUS
<1>4. r.buf = buf /\ r.ok = TRUE
  BY <1>3, UnderstoodIs
<1>5. TakeOne(r, a.kind) = [buf |-> rest, val |-> a.val, ok |-> TRUE]
  BY <1>2, <1>4 DEF TakeOne
<1> QED BY <1>1, <1>3, <1>5 DEF Understood

\* Tokens are read together (TakeMany).
LEMMA ManyTaken ==
  ASSUME NEW n \in Nat, NEW these \in [1 .. n -> Items], NEW k, \A i \in 1 .. n : these[i].kind = k,
         NEW rest \in Seq(Items), NEW x
  PROVE  TakeMany(Understood(these \o rest, x), k, n) = Understood(rest, [i \in 1 .. n |-> these[i].val])
<1>1. these \in Seq(Items) /\ Len(these) = n
  BY FunctionIsSeq
<1>2. PICK buf : buf = these \o rest
  OBVIOUS
<1>3. /\ buf \in Seq(Items) /\ Len(buf) = n + Len(rest) /\ Len(rest) \in Nat
      /\ \A j \in 1 .. Len(buf) : buf[j] = IF j <= n THEN these[j] ELSE rest[j - n]
  <2>1. Len(rest) \in Nat
    OBVIOUS
  <2>2. /\ these \o rest \in Seq(Items) /\ Len(these \o rest) = Len(these) + Len(rest)
        /\ \A j \in 1 .. Len(these) + Len(rest) :
              (these \o rest)[j] = IF j <= Len(these) THEN these[j] ELSE rest[j - Len(these)]
    BY <1>1, ConcatProperties
  <2> QED BY <1>1, <1>2, <2>1, <2>2
<1>4. Len(buf) >= n /\ \A j \in 1 .. n : buf[j] = these[j]
  BY <1>3
<1>5. SubSeq(buf, n + 1, Len(buf)) = rest
  <2>1. \A j \in (n + 1) .. Len(buf) : buf[j] \in Items
    BY <1>3
  <2>2. /\ SubSeq(buf, n + 1, Len(buf)) \in Seq(Items)
        /\ Len(SubSeq(buf, n + 1, Len(buf))) = Len(rest)
        /\ \A j \in 1 .. Len(rest) : SubSeq(buf, n + 1, Len(buf))[j] = buf[n + j]
    BY <1>3, <2>1
  <2>3. \A j \in 1 .. Len(rest) : buf[n + j] = rest[j]
    BY <1>3
  <2>4. PICK some \in Seq(Items) : some = SubSeq(buf, n + 1, Len(buf))
    BY <2>2
  <2>5. Len(some) = Len(rest) /\ \A j \in 1 .. Len(some) : some[j] = rest[j]
    BY <2>2, <2>3, <2>4
  <2> QED BY <2>4, <2>5, SeqEqual
<1>6. SubSeq(buf, 1, n) = these
  <2>1. PICK some : some = SubSeq(buf, 1, n)
    OBVIOUS
  <2>2. /\ some \in Seq(Items) /\ Len(some) = n
        /\ \A j \in 1 .. n : some[j] = buf[j]
    BY <1>3, <2>1
  <2> QED BY <1>1, <1>4, <2>1, <2>2, SeqEqual
<1>7. Map(LAMBDA t : t.val, these) = [i \in 1 .. n |-> these[i].val]
  BY <1>1 DEF Map
<1>8. PICK r : r = Understood(buf, x)
  OBVIOUS
<1>9. r.buf = buf /\ r.ok = TRUE
  BY <1>8, UnderstoodIs
<1>10. TakeMany(r, k, n) = [buf |-> rest, val |-> [i \in 1 .. n |-> these[i].val], ok |-> TRUE]
  BY <1>4, <1>5, <1>6, <1>7, <1>9 DEF TakeMany
<1> QED BY <1>2, <1>8, <1>10 DEF Understood

\* Bytes and pixels.
LEMMA TokenIs == \A v \in Contents :
    /\ U8(v) \in Items /\ U8(v).kind = "u8" /\ U8(v).val = v
    /\ U16(v) \in Items /\ U16(v).kind = "u16" /\ U16(v).val = v
    /\ Px(v) \in Items /\ Px(v).kind = "px" /\ Px(v).val = v
BY DEF U8, U16, Px, Items

\* A token may carry a number.
LEMMA NumbersIn == Int \subseteq Contents
BY DEF Contents

\* A byte at the head of the tokens is taken.
LEMMA ByteTaken ==
  ASSUME NEW v \in Contents, NEW rest \in Seq(Items), NEW x
  PROVE  /\ <<U8(v)>> \o rest \in Seq(Items) /\ <<U8(v)>> \o rest # <<>>
         /\ TakeOne(Understood(<<U8(v)>> \o rest, x), "u8") = Understood(rest, v)
<1>1. PICK a \in Items : a = U8(v) /\ a.kind = "u8" /\ a.val = v
  BY TokenIs
<1>2. TakeOne(Understood(<<a>> \o rest, x), a.kind) = Understood(rest, a.val)
  BY OneTaken
<1> QED BY <1>1, <1>2, Ahead

\* So is a pixel.
LEMMA PixelTaken ==
  ASSUME NEW v \in Contents, NEW rest \in Seq(Items), NEW x
  PROVE  /\ <<Px(v)>> \o rest \in Seq(Items) /\ <<Px(v)>> \o rest # <<>>
         /\ TakeOne(Understood(<<Px(v)>> \o rest, x), "px") = Understood(rest, v)
<1>1. PICK a \in Items : a = Px(v) /\ a.kind = "px" /\ a.val = v
  BY TokenIs
<1>2. TakeOne(Understood(<<a>> \o rest, x), a.kind) = Understood(rest, a.val)
  BY OneTaken
<1> QED BY <1>1, <1>2, Ahead

\* The pixels of a picture, or bytes, are read together.
LEMMA PixelsTaken ==
  ASSUME NEW n \in Nat, NEW px \in [1 .. n -> Contents], NEW rest \in Seq(Items), NEW x
  PROVE  /\ PxTokens(px) \in Seq(Items) /\ Len(PxTokens(px)) = n /\ PxTokens(px) \in [1 .. n -> Items]
         /\ TakeMany(Understood(PxTokens(px) \o rest, x), "px", n) = Understood(rest, px)
<1>1. PxTokens(px) = [i \in 1 .. n |-> Px(px[i])]
  BY DEF PxTokens, Map
<1>2. \A i \in 1 .. n : Px(px[i]) \in Items /\ Px(px[i]).kind = "px" /\ Px(px[i]).val = px[i]
  BY TokenIs
<1>3. PICK these : these = PxTokens(px)
  OBVIOUS
<1>4. these \in [1 .. n -> Items] /\ \A i \in 1 .. n : these[i].kind = "px" /\ these[i].val = px[i]
  BY <1>1, <1>2, <1>3
<1>5. [i \in 1 .. n |-> these[i].val] = px
  BY <1>4
<1>6. TakeMany(Understood(these \o rest, x), "px", n) = Understood(rest, [i \in 1 .. n |-> these[i].val])
  BY <1>4, ManyTaken
<1>7. these \in Seq(Items) /\ Len(these) = n
  BY <1>4, FunctionIsSeq
<1> QED BY <1>3, <1>4, <1>5, <1>6, <1>7

Spell(vals) == [i \in DOMAIN vals |-> U8(vals[i])]

\* The bytes that spell a list of values are taken together.
LEMMA BytesTaken ==
  ASSUME NEW n \in Nat, NEW vals \in [1 .. n -> Contents], NEW rest \in Seq(Items), NEW x
  PROVE  /\ Spell(vals) \in Seq(Items) /\ Len(Spell(vals)) = n /\ Spell(vals) \in [1 .. n -> Items]
         /\ TakeMany(Understood(Spell(vals) \o rest, x), "u8", n) = Understood(rest, vals)
<1>2. \A i \in 1 .. n : U8(vals[i]) \in Items /\ U8(vals[i]).kind = "u8" /\ U8(vals[i]).val = vals[i]
  BY TokenIs
<1>3. PICK bytes : bytes = Spell(vals)
  OBVIOUS
<1>4. bytes \in [1 .. n -> Items] /\ \A i \in 1 .. n : bytes[i].kind = "u8" /\ bytes[i].val = vals[i]
  <2>1. bytes = [i \in 1 .. n |-> U8(vals[i])]
    BY <1>3 DEF Spell
  <2> QED BY <1>2, <2>1
<1>5. [i \in 1 .. n |-> bytes[i].val] = vals
  BY <1>4
<1>6. TakeMany(Understood(bytes \o rest, x), "u8", n) = Understood(rest, [i \in 1 .. n |-> bytes[i].val])
  BY <1>4, ManyTaken
<1>7. bytes \in Seq(Items) /\ Len(bytes) = n
  BY <1>4, FunctionIsSeq
<1> QED BY <1>3, <1>4, <1>5, <1>6, <1>7

-----------------------------------------------------------------------------
(* Rectangles: digits in the bits of a byte.                               *)

\* g lists what the first digits make.
Counted(g, base, digits, n) == g = [j \in 0 .. n |-> IF j = 0 THEN 0 ELSE g[j - 1] * base + digits[j]]

\* There is such a list for any number of digits.
LEMMA CountedExists ==
  ASSUME NEW base, NEW digits
  PROVE  \A n \in Nat : \E g : Counted(g, base, digits, n)
<1> DEFINE D == {n \in Nat : \E g : Counted(g, base, digits, n)}
<1>1. 0 \in D
  <2>1. Counted([j \in 0 .. 0 |-> 0], base, digits, 0)
    BY DEF Counted
  <2> QED BY <2>1
<1>2. ASSUME NEW n \in Nat, n \in D PROVE n + 1 \in D
  <2>1. PICK g : Counted(g, base, digits, n)
    BY <1>2
  <2> DEFINE more == [j \in 0 .. n + 1 |-> IF j <= n THEN g[j] ELSE g[n] * base + digits[j]]
  <2>2. \A j \in 0 .. n : g[j] = IF j = 0 THEN 0 ELSE g[j - 1] * base + digits[j]
    BY <2>1 DEF Counted
  <2>3. ASSUME NEW j \in 0 .. n + 1
        PROVE  more[j] = IF j = 0 THEN 0 ELSE more[j - 1] * base + digits[j]
    <3>1. CASE j <= n
      <4>1. j \in 0 .. n /\ (j # 0 => j - 1 \in 0 .. n + 1 /\ j - 1 <= n)
        BY <3>1
      <4> QED BY <2>2, <4>1
    <3>2. CASE j = n + 1
      <4>1. j # 0 /\ j - 1 \in 0 .. n + 1 /\ j - 1 = n
        BY <3>2
      <4> QED BY <3>2, <4>1
    <3> QED BY <3>1, <3>2
  <2>4. more = [j \in 0 .. n + 1 |-> more[j]]
    OBVIOUS
  <2> HIDE DEF more
  <2>5. more = [j \in 0 .. n + 1 |-> IF j = 0 THEN 0 ELSE more[j - 1] * base + digits[j]]
    BY <2>3, <2>4
  <2>6. Counted(more, base, digits, n + 1)
    BY <2>5 DEF Counted
  <2> QED BY <2>6
<1> HIDE DEF D
<1>3. Nat \subseteq D
  BY <1>1, <1>2, SetInduction
<1> QED BY <1>3 DEF D

\* The digits make v.
Makes(v, base, n, digits) ==
    \E g : v = g[n] /\ g[0] = 0 /\ \A j \in 1 .. n : g[j] = g[j - 1] * base + digits[j]

\* A number is counted up digit by digit.
LEMMA NumberIs ==
  ASSUME NEW base, NEW n \in Nat, NEW digits \in [1 .. n -> Int]
  PROVE  Makes(Number(base, digits), base, n, digits)
<1>0. Len(digits) = n
  OBVIOUS
<1> DEFINE g == CHOOSE f : Counted(f, base, digits, n)
<1>1. Counted(g, base, digits, n)
  BY CountedExists, Zenon
<1>2. Number(base, digits) = g[n]
  BY <1>0 DEF Number, Counted
<1> HIDE DEF g
<1>3. \A j \in 0 .. n : g[j] = IF j = 0 THEN 0 ELSE g[j - 1] * base + digits[j]
  BY <1>1 DEF Counted
<1>4. g[0] = 0 /\ \A j \in 1 .. n : g[j] = g[j - 1] * base + digits[j]
  BY <1>3
<1> QED BY <1>2, <1>4 DEF Makes

\* Where the digits of a byte are.
Each(bits) == ByteBits \div bits
DigitAt(v, bits, c) == (v \div 2 ^ (ByteBits - bits - c * bits)) % 2 ^ bits

\* A byte of eight bits gives each of them back.
LEMMA EightBits ==
  ASSUME ByteBits = 8, NEW d \in [1 .. 8 -> 0 .. 1], NEW c \in 0 .. 7
  PROVE  Number(2, d) \in Int /\ DigitAt(Number(2, d), 1, c) = d[c + 1]
<1>1. PICK g : /\ Number(2, d) = g[8] /\ g[0] = 0
               /\ \A j \in 1 .. 8 : g[j] = g[j - 1] * 2 + d[j]
  <2>1. d \in [1 .. 8 -> Int] /\ 8 \in Nat
    OBVIOUS
  <2>2. Makes(Number(2, d), 2, 8, d)
    BY <2>1, NumberIs
  <2> QED BY <2>2 DEF Makes
<1>2. PICK v : v = Number(2, d)
  OBVIOUS
<1>3. /\ d[1] \in 0 .. 1 /\ d[2] \in 0 .. 1 /\ d[3] \in 0 .. 1 /\ d[4] \in 0 .. 1
      /\ d[5] \in 0 .. 1 /\ d[6] \in 0 .. 1 /\ d[7] \in 0 .. 1 /\ d[8] \in 0 .. 1
  OBVIOUS
<1>4. /\ v = 128 * d[1] + 64 * d[2] + 32 * d[3] + 16 * d[4] + 8 * d[5] + 4 * d[6] + 2 * d[7] + d[8]
      /\ v \in Nat
  <2>1. g[1] = d[1] /\ g[2] = g[1] * 2 + d[2] /\ g[3] = g[2] * 2 + d[3] /\ g[4] = g[3] * 2 + d[4]
        /\ g[5] = g[4] * 2 + d[5] /\ g[6] = g[5] * 2 + d[6] /\ g[7] = g[6] * 2 + d[7] /\ g[8] = g[7] * 2 + d[8]
    BY <1>1, <1>3
  <2> QED BY <1>1, <1>2, <1>3, <2>1
<1>5. 2 ^ 7 = 128 /\ 2 ^ 6 = 64 /\ 2 ^ 5 = 32 /\ 2 ^ 4 = 16 /\ 2 ^ 3 = 8 /\ 2 ^ 2 = 4 /\ 2 ^ 1 = 2 /\ 2 ^ 0 = 1
  OBVIOUS
<1>6. /\ (v \div 128) % 2 = d[1] /\ (v \div 64) % 2 = d[2] /\ (v \div 32) % 2 = d[3] /\ (v \div 16) % 2 = d[4]
      /\ (v \div 8) % 2 = d[5] /\ (v \div 4) % 2 = d[6] /\ (v \div 2) % 2 = d[7] /\ (v \div 1) % 2 = d[8]
  <2>1. (v \div 128) % 2 = d[1]
    BY <1>3, <1>4
  <2>2. (v \div 64) % 2 = d[2]
    BY <1>3, <1>4
  <2>3. (v \div 32) % 2 = d[3]
    BY <1>3, <1>4
  <2>4. (v \div 16) % 2 = d[4]
    BY <1>3, <1>4
  <2>5. (v \div 8) % 2 = d[5]
    BY <1>3, <1>4
  <2>6. (v \div 4) % 2 = d[6]
    BY <1>3, <1>4
  <2>7. (v \div 2) % 2 = d[7]
    BY <1>3, <1>4
  <2>8. (v \div 1) % 2 = d[8]
    BY <1>3, <1>4
  <2> QED BY <2>1, <2>2, <2>3, <2>4, <2>5, <2>6, <2>7, <2>8
<1>7. DigitAt(v, 1, c) = d[c + 1]
  <2>0. DigitAt(v, 1, c) = (v \div 2 ^ (7 - c)) % 2 ^ 1
    <3>1. 8 - 1 - c * 1 = 7 - c
      OBVIOUS
    <3> QED BY <3>1 DEF DigitAt
  <2>1. CASE c = 0
    BY <1>5, <1>6, <2>0, <2>1
  <2>2. CASE c = 1
    BY <1>5, <1>6, <2>0, <2>2
  <2>3. CASE c = 2
    BY <1>5, <1>6, <2>0, <2>3
  <2>4. CASE c = 3
    BY <1>5, <1>6, <2>0, <2>4
  <2>5. CASE c = 4
    BY <1>5, <1>6, <2>0, <2>5
  <2>6. CASE c = 5
    BY <1>5, <1>6, <2>0, <2>6
  <2>7. CASE c = 6
    BY <1>5, <1>6, <2>0, <2>7
  <2>8. CASE c = 7
    BY <1>5, <1>6, <2>0, <2>8
  <2> QED BY <2>1, <2>2, <2>3, <2>4, <2>5, <2>6, <2>7, <2>8
<1> QED BY <1>2, <1>4, <1>7

\* So does one of four.
LEMMA FourBits ==
  ASSUME ByteBits = 4, NEW d \in [1 .. 4 -> 0 .. 1], NEW c \in 0 .. 3
  PROVE  Number(2, d) \in Int /\ DigitAt(Number(2, d), 1, c) = d[c + 1]
<1>1. PICK g : /\ Number(2, d) = g[4] /\ g[0] = 0
               /\ \A j \in 1 .. 4 : g[j] = g[j - 1] * 2 + d[j]
  <2>1. d \in [1 .. 4 -> Int] /\ 4 \in Nat
    OBVIOUS
  <2>2. Makes(Number(2, d), 2, 4, d)
    BY <2>1, NumberIs
  <2> QED BY <2>2 DEF Makes
<1>2. PICK v : v = Number(2, d)
  OBVIOUS
<1>3. d[1] \in 0 .. 1 /\ d[2] \in 0 .. 1 /\ d[3] \in 0 .. 1 /\ d[4] \in 0 .. 1
  OBVIOUS
<1>4. v = 8 * d[1] + 4 * d[2] + 2 * d[3] + d[4] /\ v \in Nat
  <2>1. g[1] = d[1] /\ g[2] = g[1] * 2 + d[2] /\ g[3] = g[2] * 2 + d[3] /\ g[4] = g[3] * 2 + d[4]
    BY <1>1, <1>3
  <2> QED BY <1>1, <1>2, <1>3, <2>1
<1>5. 2 ^ 3 = 8 /\ 2 ^ 2 = 4 /\ 2 ^ 1 = 2 /\ 2 ^ 0 = 1
  OBVIOUS
<1>6. (v \div 8) % 2 = d[1] /\ (v \div 4) % 2 = d[2] /\ (v \div 2) % 2 = d[3] /\ (v \div 1) % 2 = d[4]
  <2>1. (v \div 8) % 2 = d[1]
    BY <1>3, <1>4
  <2>2. (v \div 4) % 2 = d[2]
    BY <1>3, <1>4
  <2>3. (v \div 2) % 2 = d[3]
    BY <1>3, <1>4
  <2>4. (v \div 1) % 2 = d[4]
    BY <1>3, <1>4
  <2> QED BY <2>1, <2>2, <2>3, <2>4
<1>7. DigitAt(v, 1, c) = d[c + 1]
  <2>0. DigitAt(v, 1, c) = (v \div 2 ^ (3 - 1 * c)) % 2 ^ 1
    <3>1. 4 - 1 - c * 1 = 3 - 1 * c
      OBVIOUS
    <3> QED BY <3>1 DEF DigitAt
  <2>1. CASE c = 0
    <3>1. 3 - 1 * c = 3
      BY <2>1
    <3> QED BY <1>5, <1>6, <2>0, <2>1, <3>1
  <2>2. CASE c = 1
    <3>1. 3 - 1 * c = 2
      BY <2>2
    <3> QED BY <1>5, <1>6, <2>0, <2>2, <3>1
  <2>3. CASE c = 2
    <3>1. 3 - 1 * c = 1
      BY <2>3
    <3> QED BY <1>5, <1>6, <2>0, <2>3, <3>1
  <2>4. CASE c = 3
    <3>1. 3 - 1 * c = 0
      BY <2>4
    <3> QED BY <1>5, <1>6, <2>0, <2>4, <3>1
  <2> QED BY <2>1, <2>2, <2>3, <2>4
<1> QED BY <1>2, <1>4, <1>7

\* A byte of eight bits gives back four indices of two bits.
LEMMA FourPairs ==
  ASSUME ByteBits = 8, NEW d \in [1 .. 4 -> 0 .. 3], NEW c \in 0 .. 3
  PROVE  Number(4, d) \in Int /\ DigitAt(Number(4, d), 2, c) = d[c + 1]
<1>1. PICK g : /\ Number(4, d) = g[4] /\ g[0] = 0
               /\ \A j \in 1 .. 4 : g[j] = g[j - 1] * 4 + d[j]
  <2>1. d \in [1 .. 4 -> Int] /\ 4 \in Nat
    OBVIOUS
  <2>2. Makes(Number(4, d), 4, 4, d)
    BY <2>1, NumberIs
  <2> QED BY <2>2 DEF Makes
<1>2. PICK v : v = Number(4, d)
  OBVIOUS
<1>3. d[1] \in 0 .. 3 /\ d[2] \in 0 .. 3 /\ d[3] \in 0 .. 3 /\ d[4] \in 0 .. 3
  OBVIOUS
<1>4. v = 64 * d[1] + 16 * d[2] + 4 * d[3] + d[4] /\ v \in Nat
  <2>1. g[1] = d[1] /\ g[2] = g[1] * 4 + d[2] /\ g[3] = g[2] * 4 + d[3] /\ g[4] = g[3] * 4 + d[4]
    BY <1>1, <1>3
  <2> QED BY <1>1, <1>2, <1>3, <2>1
<1>5. 2 ^ 6 = 64 /\ 2 ^ 4 = 16 /\ 2 ^ 2 = 4 /\ 2 ^ 0 = 1
  OBVIOUS
<1>6. (v \div 64) % 4 = d[1] /\ (v \div 16) % 4 = d[2] /\ (v \div 4) % 4 = d[3] /\ (v \div 1) % 4 = d[4]
  <2>1. (v \div 64) % 4 = d[1]
    BY <1>3, <1>4
  <2>2. (v \div 16) % 4 = d[2]
    BY <1>3, <1>4
  <2>3. (v \div 4) % 4 = d[3]
    BY <1>3, <1>4
  <2>4. (v \div 1) % 4 = d[4]
    BY <1>3, <1>4
  <2> QED BY <2>1, <2>2, <2>3, <2>4
<1>7. DigitAt(v, 2, c) = d[c + 1]
  <2>0. DigitAt(v, 2, c) = (v \div 2 ^ (6 - 2 * c)) % 2 ^ 2
    <3>1. 8 - 2 - c * 2 = 6 - 2 * c
      OBVIOUS
    <3> QED BY <3>1 DEF DigitAt
  <2>1. CASE c = 0
    <3>1. 6 - 2 * c = 6
      BY <2>1
    <3> QED BY <1>5, <1>6, <2>0, <2>1, <3>1
  <2>2. CASE c = 1
    <3>1. 6 - 2 * c = 4
      BY <2>2
    <3> QED BY <1>5, <1>6, <2>0, <2>2, <3>1
  <2>3. CASE c = 2
    <3>1. 6 - 2 * c = 2
      BY <2>3
    <3> QED BY <1>5, <1>6, <2>0, <2>3, <3>1
  <2>4. CASE c = 3
    <3>1. 6 - 2 * c = 0
      BY <2>4
    <3> QED BY <1>5, <1>6, <2>0, <2>4, <3>1
  <2> QED BY <2>1, <2>2, <2>3, <2>4
<1> QED BY <1>2, <1>4, <1>7

\* One of four bits gives back two.
LEMMA TwoPairs ==
  ASSUME ByteBits = 4, NEW d \in [1 .. 2 -> 0 .. 3], NEW c \in 0 .. 1
  PROVE  Number(4, d) \in Int /\ DigitAt(Number(4, d), 2, c) = d[c + 1]
<1>1. PICK g : /\ Number(4, d) = g[2] /\ g[0] = 0
               /\ \A j \in 1 .. 2 : g[j] = g[j - 1] * 4 + d[j]
  <2>1. d \in [1 .. 2 -> Int] /\ 2 \in Nat
    OBVIOUS
  <2>2. Makes(Number(4, d), 4, 2, d)
    BY <2>1, NumberIs
  <2> QED BY <2>2 DEF Makes
<1>2. PICK v : v = Number(4, d)
  OBVIOUS
<1>3. d[1] \in 0 .. 3 /\ d[2] \in 0 .. 3
  OBVIOUS
<1>4. v = 4 * d[1] + d[2] /\ v \in Nat
  <2>1. g[1] = d[1] /\ g[2] = g[1] * 4 + d[2]
    BY <1>1, <1>3
  <2> QED BY <1>1, <1>2, <1>3, <2>1
<1>5. 2 ^ 2 = 4 /\ 2 ^ 0 = 1
  OBVIOUS
<1>6. (v \div 4) % 4 = d[1] /\ (v \div 1) % 4 = d[2]
  <2>1. (v \div 4) % 4 = d[1]
    BY <1>3, <1>4
  <2>2. (v \div 1) % 4 = d[2]
    BY <1>3, <1>4
  <2> QED BY <2>1, <2>2
<1>7. DigitAt(v, 2, c) = d[c + 1]
  <2>0. DigitAt(v, 2, c) = (v \div 2 ^ (2 - 2 * c)) % 2 ^ 2
    <3>1. 4 - 2 - c * 2 = 2 - 2 * c
      OBVIOUS
    <3> QED BY <3>1 DEF DigitAt
  <2>1. CASE c = 0
    <3>1. 2 - 2 * c = 2
      BY <2>1
    <3> QED BY <1>5, <1>6, <2>0, <2>1, <3>1
  <2>2. CASE c = 1
    <3>1. 2 - 2 * c = 0
      BY <2>2
    <3> QED BY <1>5, <1>6, <2>0, <2>2, <3>1
  <2> QED BY <2>1, <2>2
<1> QED BY <1>2, <1>4, <1>7

\* A byte of eight bits gives back two indices of four bits.
LEMMA TwoNibbles ==
  ASSUME ByteBits = 8, NEW d \in [1 .. 2 -> 0 .. 15], NEW c \in 0 .. 1
  PROVE  Number(16, d) \in Int /\ DigitAt(Number(16, d), 4, c) = d[c + 1]
<1>1. PICK g : /\ Number(16, d) = g[2] /\ g[0] = 0
               /\ \A j \in 1 .. 2 : g[j] = g[j - 1] * 16 + d[j]
  <2>1. d \in [1 .. 2 -> Int] /\ 2 \in Nat
    OBVIOUS
  <2>2. Makes(Number(16, d), 16, 2, d)
    BY <2>1, NumberIs
  <2> QED BY <2>2 DEF Makes
<1>2. PICK v : v = Number(16, d)
  OBVIOUS
<1>3. d[1] \in 0 .. 15 /\ d[2] \in 0 .. 15
  OBVIOUS
<1>4. v = 16 * d[1] + d[2] /\ v \in Nat
  <2>1. g[1] = d[1] /\ g[2] = g[1] * 16 + d[2]
    BY <1>1, <1>3
  <2> QED BY <1>1, <1>2, <1>3, <2>1
<1>5. 2 ^ 4 = 16 /\ 2 ^ 0 = 1
  OBVIOUS
<1>6. (v \div 16) % 16 = d[1] /\ (v \div 1) % 16 = d[2]
  <2>1. (v \div 16) % 16 = d[1]
    BY <1>3, <1>4
  <2>2. (v \div 1) % 16 = d[2]
    BY <1>3, <1>4
  <2> QED BY <2>1, <2>2
<1>7. DigitAt(v, 4, c) = d[c + 1]
  <2>0. DigitAt(v, 4, c) = (v \div 2 ^ (4 - 4 * c)) % 2 ^ 4
    <3>1. 8 - 4 - c * 4 = 4 - 4 * c
      OBVIOUS
    <3> QED BY <3>1 DEF DigitAt
  <2>1. CASE c = 0
    <3>1. 4 - 4 * c = 4
      BY <2>1
    <3> QED BY <1>5, <1>6, <2>0, <2>1, <3>1
  <2>2. CASE c = 1
    <3>1. 4 - 4 * c = 0
      BY <2>2
    <3> QED BY <1>5, <1>6, <2>0, <2>2, <3>1
  <2> QED BY <2>1, <2>2
<1> QED BY <1>2, <1>4, <1>7

\* One of four bits gives back one.
LEMMA OneDigit ==
  ASSUME ByteBits = 4, NEW d \in [1 .. 1 -> 0 .. 15], NEW c \in 0 .. 0
  PROVE  Number(16, d) \in Int /\ DigitAt(Number(16, d), 4, c) = d[c + 1]
<1>1. d \in [1 .. 1 -> Int] /\ 1 \in Nat /\ d[1] \in 0 .. 15
  OBVIOUS
<1>2. Makes(Number(16, d), 16, 1, d)
  BY <1>1, NumberIs
<1>3. Number(16, d) = d[1]
  BY <1>1, <1>2 DEF Makes
<1>4. 2 ^ 0 = 1 /\ 2 ^ 4 = 16 /\ ByteBits - 4 - c * 4 = 0 /\ c = 0
  <2>1. c = 0
    OBVIOUS
  <2>3. ByteBits - 4 - c * 4 = 0
    BY <2>1
  <2>2. 2 ^ 0 = 1 /\ 2 ^ 4 = 16
    OBVIOUS
  <2> QED BY <2>1, <2>2, <2>3
<1>5. PICK v \in 0 .. 15 : v = d[1]
  BY <1>1
<1>6. (v \div 1) % 16 = v
  OBVIOUS
<1> QED BY <1>3, <1>4, <1>5, <1>6 DEF DigitAt

\* The digits of a byte are found again.
LEMMA DigitFound ==
  ASSUME NEW bits \in {1, 2, 4}, NEW d \in [1 .. Each(bits) -> 0 .. 2 ^ bits - 1], NEW c \in 0 .. Each(bits) - 1
  PROVE  Number(2 ^ bits, d) \in Int /\ DigitAt(Number(2 ^ bits, d), bits, c) = d[c + 1]
<1>1. ByteBits \in {4, 8}
  BY RectsAssumption
<1>2. 2 ^ 1 = 2 /\ 2 ^ 2 = 4 /\ 2 ^ 4 = 16
  OBVIOUS
<1>3. CASE ByteBits = 8 /\ bits = 1
  <2>1. Each(bits) = 8
    BY <1>3 DEF Each
  <2>2. d \in [1 .. 8 -> 0 .. 1] /\ c \in 0 .. 7
    BY <1>2, <1>3, <2>1
  <2> QED BY <1>2, <1>3, <2>2, EightBits
<1>4. CASE ByteBits = 4 /\ bits = 1
  <2>1. Each(bits) = 4
    BY <1>4 DEF Each
  <2>2. d \in [1 .. 4 -> 0 .. 1] /\ c \in 0 .. 3
    BY <1>2, <1>4, <2>1
  <2> QED BY <1>2, <1>4, <2>2, FourBits
<1>5. CASE ByteBits = 8 /\ bits = 2
  <2>1. Each(bits) = 4
    BY <1>5 DEF Each
  <2>2. d \in [1 .. 4 -> 0 .. 3] /\ c \in 0 .. 3
    BY <1>2, <1>5, <2>1
  <2> QED BY <1>2, <1>5, <2>2, FourPairs
<1>7. CASE ByteBits = 4 /\ bits = 2
  <2>1. Each(bits) = 2
    BY <1>7 DEF Each
  <2>2. d \in [1 .. 2 -> 0 .. 3] /\ c \in 0 .. 1
    BY <1>2, <1>7, <2>1
  <2> QED BY <1>2, <1>7, <2>2, TwoPairs
<1>8. CASE ByteBits = 8 /\ bits = 4
  <2>1. Each(bits) = 2
    BY <1>8 DEF Each
  <2>2. d \in [1 .. 2 -> 0 .. 15] /\ c \in 0 .. 1
    BY <1>2, <1>8, <2>1
  <2> QED BY <1>2, <1>8, <2>2, TwoNibbles
<1>6. CASE ByteBits = 4 /\ bits = 4
  <2>1. Each(bits) = 1
    BY <1>6 DEF Each
  <2>2. d \in [1 .. 1 -> 0 .. 15] /\ c \in 0 .. 0
    BY <1>2, <1>6, <2>1
  <2> QED BY <1>2, <1>6, <2>2, OneDigit
<1> QED BY <1>1, <1>3, <1>4, <1>5, <1>6, <1>7, <1>8

-----------------------------------------------------------------------------
(* Rectangles: packed rows of indices.                                     *)

\* A place in rows of a length, taken apart.
LEMMA DivMod ==
  ASSUME NEW r \in Nat, NEW a \in Nat \ {0}, NEW c \in 0 .. a - 1
  PROVE  (r * a + c) \div a = r /\ (r * a + c) % a = c
OBVIOUS

\* A number is its quotient times the divisor, and the remainder.
LEMMA QuotientIs ==
  ASSUME NEW m \in Nat, NEW a \in Nat \ {0}
  PROVE  m = (m \div a) * a + (m % a) /\ m % a \in 0 .. a - 1 /\ m \div a \in Nat
OBVIOUS

\* Cells of a row before the last are before the end.
LEMMA CellBefore ==
  ASSUME NEW rb \in Nat \ {0}, NEW h \in Nat, NEW y \in 0 .. h - 1, NEW b \in 0 .. rb - 1
  PROVE  y * rb + b \in 0 .. rb * h - 1 /\ y * rb \in Nat /\ rb * h \in Nat /\ y * rb + rb <= rb * h
<1>1. h \in Nat \ {0} /\ y \in Nat /\ b \in Nat /\ b < rb /\ y + 1 <= h
  OBVIOUS
<1>2. (y + 1) * rb <= h * rb
  BY <1>1
<1>3. y * rb + rb <= rb * h
  BY <1>1, <1>2
<1>4. y * rb \in Nat /\ rb * h \in Nat
  BY <1>1
<1> QED BY <1>1, <1>3, <1>4

\* A cell before the end is in one of the rows.
LEMMA RowBefore ==
  ASSUME NEW rb \in Nat \ {0}, NEW h \in Nat, NEW y \in Nat, NEW b \in Nat, y * rb + b < rb * h
  PROVE  y < h
<1>1. SUFFICES ASSUME y >= h PROVE FALSE
  OBVIOUS
<1>2. y * rb >= h * rb
  BY <1>1
<1> QED BY <1>2

\* Where the pixel i of a picture is.
LEMMA CellIs ==
  ASSUME NEW w \in Nat \ {0}, NEW h \in Nat, NEW i \in 1 .. w * h
  PROVE  /\ CellAt(w, i)[1] \in 0 .. w - 1 /\ CellAt(w, i)[2] \in 0 .. h - 1
         /\ CellAt(w, i)[2] * w + CellAt(w, i)[1] + 1 = i
<1>1. PICK m \in Nat : m = i - 1
  OBVIOUS
<1>2. m = (m \div w) * w + (m % w) /\ m % w \in 0 .. w - 1 /\ m \div w \in Nat
  BY QuotientIs
<1>3. m < w * h
  BY <1>1
<1>4. PICK y \in Nat, c \in 0 .. w - 1 : y = m \div w /\ c = m % w
  BY <1>2
<1>5. y < h
  BY <1>2, <1>3, <1>4
<1> QED BY <1>1, <1>2, <1>4, <1>5 DEF CellAt

\* Which byte of a row an index is in, and where in it.
LEMMA ByteOf ==
  ASSUME NEW bits \in {1, 2, 4}, NEW c \in Nat
  PROVE  /\ Each(bits) \in Nat \ {0}
         /\ (c * bits) \div ByteBits = c \div Each(bits)
         /\ (c * bits) % ByteBits = (c % Each(bits)) * bits
<1>1. ByteBits \in {4, 8}
  BY RectsAssumption
<1>2. CASE ByteBits = 4
  <2>1. CASE bits = 1
    BY <1>2, <2>1 DEF Each
  <2>2. CASE bits = 2
    BY <1>2, <2>2 DEF Each
  <2>3. CASE bits = 4
    BY <1>2, <2>3 DEF Each
  <2> QED BY <2>1, <2>2, <2>3
<1>3. CASE ByteBits = 8
  <2>1. CASE bits = 1
    BY <1>3, <2>1 DEF Each
  <2>2. CASE bits = 2
    BY <1>3, <2>2 DEF Each
  <2>3. CASE bits = 4
    BY <1>3, <2>3 DEF Each
  <2> QED BY <2>1, <2>2, <2>3
<1> QED BY <1>1, <1>2, <1>3

RowBytes(w, bits) == CeilDiv(w * bits, ByteBits)

\* A row has a byte or more, and each of its columns is in one of them.
LEMMA RowBytesIs ==
  ASSUME NEW bits \in {1, 2, 4}, NEW w \in Nat \ {0}
  PROVE  /\ RowBytes(w, bits) \in Nat \ {0}
         /\ \A c \in 0 .. w - 1 : c \div Each(bits) \in 0 .. RowBytes(w, bits) - 1
<1>1. ByteBits \in {4, 8}
  BY RectsAssumption
<1>2. CASE ByteBits = 4
  <2>1. CASE bits = 1
    BY <1>2, <2>1 DEF Each, RowBytes, CeilDiv
  <2>2. CASE bits = 2
    BY <1>2, <2>2 DEF Each, RowBytes, CeilDiv
  <2>3. CASE bits = 4
    BY <1>2, <2>3 DEF Each, RowBytes, CeilDiv
  <2> QED BY <2>1, <2>2, <2>3
<1>3. CASE ByteBits = 8
  <2>1. CASE bits = 1
    BY <1>3, <2>1 DEF Each, RowBytes, CeilDiv
  <2>2. CASE bits = 2
    BY <1>3, <2>2 DEF Each, RowBytes, CeilDiv
  <2>3. CASE bits = 4
    BY <1>3, <2>3 DEF Each, RowBytes, CeilDiv
  <2> QED BY <2>1, <2>2, <2>3
<1> QED BY <1>1, <1>2, <1>3

\* The index at a place, and the digits of byte k.
IndexAt(idx, w, y, x) == IF x < w THEN idx[y * w + x + 1] ELSE 0
DigitsOf(idx, w, bits, k) ==
    [j \in 1 .. Each(bits) |-> IndexAt(idx, w, (k - 1) \div RowBytes(w, bits),
                                       ((k - 1) % RowBytes(w, bits)) * Each(bits) + j - 1)]

\* The bytes of packed rows, each a number in the base of its indices.
LEMMA PackRowsIs == \A idx, w, h, bits :
    PackRows(idx, w, h, bits) =
        [k \in 1 .. RowBytes(w, bits) * h |-> U8(Number(2 ^ bits, DigitsOf(idx, w, bits, k)))]
BY DEF PackRows, RowBytes, DigitsOf, IndexAt, Each

\* The digits of such a byte are indices.
LEMMA DigitsAre ==
  ASSUME NEW bits \in {1, 2, 4}, NEW w \in Nat \ {0}, NEW h \in Nat, NEW idx \in [1 .. w * h -> 0 .. 2 ^ bits - 1],
         NEW k \in 1 .. RowBytes(w, bits) * h
  PROVE  DigitsOf(idx, w, bits, k) \in [1 .. Each(bits) -> 0 .. 2 ^ bits - 1]
<1>1. PICK N \in Nat \ {0} : N = 2 ^ bits
  <2>1. 2 ^ 1 = 2 /\ 2 ^ 2 = 4 /\ 2 ^ 4 = 16
    OBVIOUS
  <2>2. 2 ^ bits = 2 \/ 2 ^ bits = 4 \/ 2 ^ bits = 16
    BY <2>1
  <2> QED BY <2>2
<1>2. PICK m \in Nat : m = k - 1
  <2>0. PICK rb \in Nat : rb = RowBytes(w, bits)
    BY RowBytesIs
  <2>1. RowBytes(w, bits) * h \in Nat
    BY <2>0
  <2> QED BY <2>1
<1>3. PICK rb \in Nat \ {0} : rb = RowBytes(w, bits)
  BY RowBytesIs
<1>4. m = (m \div rb) * rb + (m % rb) /\ m % rb \in 0 .. rb - 1 /\ m \div rb \in Nat
  BY QuotientIs
<1>5. m < rb * h
  BY <1>2, <1>3
<1>6. PICK y \in Nat, b \in 0 .. rb - 1 : y = m \div rb /\ b = m % rb
  BY <1>4
<1>7. y < h
  <2>1. y * rb + b < rb * h /\ b \in Nat
    BY <1>4, <1>5, <1>6
  <2> QED BY <2>1, RowBefore
<1>8. PICK e \in Nat \ {0} : e = Each(bits)
  BY ByteOf
<1>9. ASSUME NEW x \in Nat PROVE IndexAt(idx, w, y, x) \in 0 .. N - 1
  <2>1. CASE x < w
    <3>1. y * w + x + 1 \in 1 .. w * h
      <4>1. y \in 0 .. h - 1 /\ x \in 0 .. w - 1
        BY <1>7, <2>1
      <4>2. y * w + x \in 0 .. w * h - 1 /\ w * h \in Nat
        BY <4>1, CellBefore
      <4> QED BY <4>2
    <3> QED BY <1>1, <2>1, <3>1 DEF IndexAt
  <2>2. CASE ~(x < w)
    BY <1>1, <2>2 DEF IndexAt
  <2> QED BY <2>1, <2>2
<1>10. \A j \in 1 .. e : b * e + j - 1 \in Nat
  OBVIOUS
<1>11. \A j \in 1 .. e : IndexAt(idx, w, y, b * e + j - 1) \in 0 .. N - 1
  BY <1>9, <1>10
<1>12. DigitsOf(idx, w, bits, k) = [j \in 1 .. e |-> IndexAt(idx, w, y, b * e + j - 1)]
  BY <1>2, <1>3, <1>6, <1>8 DEF DigitsOf
<1> QED BY <1>1, <1>8, <1>11, <1>12

RowHolds(row, idx, w, bits, y, c) == row[(c \div Each(bits)) + 1] =
    Number(2 ^ bits, DigitsOf(idx, w, bits, y * RowBytes(w, bits) + (c \div Each(bits)) + 1))
FoundAgain(idx, w, bits, y, c) ==
    \A row : RowHolds(row, idx, w, bits, y, c) => PackedIndex(row, c, bits) = idx[y * w + c + 1]
\* An index is found again in the row of bytes it is in.
LEMMA IndexFound ==
  ASSUME NEW bits \in {1, 2, 4}, NEW w \in Nat \ {0}, NEW h \in Nat, NEW idx \in [1 .. w * h -> 0 .. 2 ^ bits - 1],
         NEW y \in 0 .. h - 1, NEW c \in 0 .. w - 1
  PROVE  FoundAgain(idx, w, bits, y, c)
<1> SUFFICES ASSUME NEW row, RowHolds(row, idx, w, bits, y, c) PROVE PackedIndex(row, c, bits) = idx[y * w + c + 1]
  BY DEF FoundAgain
<1>1. PICK e \in Nat \ {0} : e = Each(bits)
  BY ByteOf
<1>2. PICK rb \in Nat \ {0} : rb = RowBytes(w, bits)
  BY RowBytesIs
<1>0. c \in Nat /\ y \in Nat
  OBVIOUS
<1>3. c = (c \div e) * e + (c % e) /\ c % e \in 0 .. e - 1 /\ c \div e \in Nat
  BY <1>0, QuotientIs
<1>4. PICK b \in 0 .. rb - 1, o \in 0 .. e - 1 : b = c \div e /\ o = c % e
  BY <1>1, <1>2, <1>3, RowBytesIs
<1>5. PICK k \in 1 .. rb * h : k = y * rb + b + 1
  <2>1. y * rb + b + 1 \in 1 .. rb * h
    BY <1>0, CellBefore
  <2> QED BY <2>1
<1>6. (k - 1) \div rb = y /\ (k - 1) % rb = b
  <2>1. k - 1 = y * rb + b /\ y \in Nat
    BY <1>5
  <2>2. (y * rb + b) \div rb = y /\ (y * rb + b) % rb = b
    BY <1>0, DivMod
  <2> QED BY <2>1, <2>2
<1>7. PICK d \in [1 .. Each(bits) -> 0 .. 2 ^ bits - 1] : d = DigitsOf(idx, w, bits, k)
  BY <1>2, DigitsAre
<1>8. d[o + 1] = idx[y * w + c + 1]
  <2>1. o + 1 \in 1 .. e
    OBVIOUS
  <2>2. d[o + 1] = IndexAt(idx, w, y, b * e + (o + 1) - 1)
    BY <1>1, <1>2, <1>6, <1>7, <2>1 DEF DigitsOf
  <2>3. b * e + (o + 1) - 1 = c /\ c < w
    BY <1>3, <1>4
  <2> QED BY <2>2, <2>3 DEF IndexAt
<1>9. DigitAt(Number(2 ^ bits, d), bits, o) = d[o + 1]
  <2>1. o \in 0 .. Each(bits) - 1
    BY <1>1
  <2> QED BY <2>1, DigitFound
<1>10. row[b + 1] = Number(2 ^ bits, d)
  BY <1>1, <1>2, <1>4, <1>5, <1>7 DEF RowHolds
<1>11. (c * bits) \div ByteBits = b /\ (c * bits) % ByteBits = o * bits
  BY <1>0, <1>1, <1>4, ByteOf
<1>12. PackedIndex(row, c, bits) = DigitAt(row[b + 1], bits, o)
  BY <1>11 DEF PackedIndex, DigitAt
<1> QED BY <1>8, <1>9, <1>10, <1>12

\* Rows of packed indices are read back.
PackedBack(idx, w, h, bits) ==
    /\ PackRows(idx, w, h, bits) \in Seq(Items) /\ Len(PackRows(idx, w, h, bits)) = RowBytes(w, bits) * h
    /\ \A rest \in Seq(Items) : \A x :
          TakePacked(Understood(PackRows(idx, w, h, bits) \o rest, x), w, h, bits) = Understood(rest, idx)

\* Packed rows are read back: each index from the bits it was put in
\* (extractPackedIndex), each row from the byte it starts with.
LEMMA PackedRead ==
  ASSUME NEW bits \in {1, 2, 4}, NEW w \in Nat \ {0}, NEW h \in Nat, NEW idx \in [1 .. w * h -> 0 .. 2 ^ bits - 1]
  PROVE  PackedBack(idx, w, h, bits)
<1>1. PICK rb \in Nat \ {0} : rb = RowBytes(w, bits)
  BY RowBytesIs
<1>2. PICK n \in Nat : n = rb * h
  OBVIOUS
<1>3. ASSUME NEW k \in 1 .. n PROVE Number(2 ^ bits, DigitsOf(idx, w, bits, k)) \in Contents
  <2>1. PICK d \in [1 .. Each(bits) -> 0 .. 2 ^ bits - 1] : d = DigitsOf(idx, w, bits, k)
    BY <1>1, <1>2, DigitsAre
  <2>2. 0 \in 0 .. Each(bits) - 1
    <3>1. PICK e \in Nat \ {0} : e = Each(bits)
      BY 0 \in Nat, ByteOf
    <3> QED BY <3>1
  <2>3. Number(2 ^ bits, d) \in Int
    BY <2>2, DigitFound
  <2> QED BY <2>1, <2>3, NumbersIn
<1>4. PICK vals \in [1 .. n -> Contents] : \A k \in 1 .. n : vals[k] = Number(2 ^ bits, DigitsOf(idx, w, bits, k))
  <2>1. [k \in 1 .. n |-> Number(2 ^ bits, DigitsOf(idx, w, bits, k))] \in [1 .. n -> Contents]
    BY <1>3
  <2> QED BY <2>1
<1>5. PICK bytes : bytes = PackRows(idx, w, h, bits)
  OBVIOUS
<1>6. bytes = Spell(vals)
  BY <1>1, <1>2, <1>4, <1>5, PackRowsIs DEF Spell
<1>7. bytes \in Seq(Items) /\ Len(bytes) = n
  BY <1>6, <<>> \in Seq(Items), BytesTaken
<1>20. SUFFICES ASSUME NEW rest \in Seq(Items), NEW x
                PROVE  TakePacked(Understood(bytes \o rest, x), w, h, bits) = Understood(rest, idx)
  BY <1>1, <1>2, <1>5, <1>7 DEF PackedBack
<1>21. TakeMany(Understood(bytes \o rest, x), "u8", n) = Understood(rest, vals)
  BY <1>6, BytesTaken
<1> DEFINE row(y) == SubSeq(vals, y * rb + 1, (y + 1) * rb)
<1>8. ASSUME NEW i \in 1 .. w * h
      PROVE  PackedIndex(row(CellAt(w, i)[2]), CellAt(w, i)[1], bits) = idx[i]
  <2>1. PICK c \in 0 .. w - 1, y \in 0 .. h - 1 : c = CellAt(w, i)[1] /\ y = CellAt(w, i)[2] /\ y * w + c + 1 = i
    BY CellIs
  <2>2. PICK b \in 0 .. rb - 1 : b = c \div Each(bits)
    BY <1>1, RowBytesIs
  <2>3. y * rb + 1 \in 1 .. n + 1 /\ (y + 1) * rb \in 0 .. n /\ y * rb + b + 1 \in 1 .. n
        /\ (y + 1) * rb - (y * rb + 1) + 1 = rb
    <3>1. y \in Nat
      OBVIOUS
    <3>2. y * rb + b \in 0 .. rb * h - 1 /\ y * rb \in Nat /\ rb * h \in Nat /\ y * rb + rb <= rb * h
      BY CellBefore
    <3>3. (y + 1) * rb = y * rb + rb
      BY <3>1
    <3> QED BY <1>2, <3>2, <3>3
  <2>4. vals \in Seq(Contents) /\ Len(vals) = n
    BY FunctionIsSeq
  <2>5. row(y)[b + 1] = vals[y * rb + b + 1]
    BY <2>3, <2>4
  <2>6. PICK line : line = row(y)
    OBVIOUS
  <2>7. line[b + 1] = Number(2 ^ bits, DigitsOf(idx, w, bits, y * rb + b + 1))
    BY <1>4, <2>3, <2>5, <2>6
  <2>8. RowHolds(line, idx, w, bits, y, c)
    BY <1>1, <2>2, <2>7 DEF RowHolds
  <2>9. PackedIndex(line, c, bits) = idx[y * w + c + 1]
    <3>1. FoundAgain(idx, w, bits, y, c)
      BY IndexFound
    <3> QED BY <2>8, <3>1 DEF FoundAgain
  <2> QED BY <2>1, <2>6, <2>9
<1>9. PICK q : q = Understood(rest, vals)
  OBVIOUS
<1>10. q.val = vals /\ q.ok = TRUE
  BY <1>9, UnderstoodIs
<1>11. PICK r : r = Understood(bytes \o rest, x)
  OBVIOUS
<1>12. TakePacked(r, w, h, bits) =
          [q EXCEPT !.val = [i \in 1 .. w * h |-> PackedIndex(row(CellAt(w, i)[2]), CellAt(w, i)[1], bits)]]
  BY <1>1, <1>2, <1>21, <1>9, <1>10, <1>11 DEF TakePacked, RowBytes
<1>13. [i \in 1 .. w * h |-> PackedIndex(row(CellAt(w, i)[2]), CellAt(w, i)[1], bits)] = idx
  BY <1>8
<1> HIDE DEF row
<1>14. TakePacked(r, w, h, bits) = [q EXCEPT !.val = idx]
  BY <1>12, <1>13
<1>15. [q EXCEPT !.val = idx] = Understood(rest, idx)
  BY <1>9, ValueSet
<1> QED BY <1>11, <1>14, <1>15

-----------------------------------------------------------------------------
(* ZRLE tiles: raw, solid and packed.                                      *)

\* A token may carry a colour.
LEMMA ShadesIn == Shades \subseteq Contents /\ Nat \subseteq Contents /\ Shades \subseteq Nat
  BY NumbersIn, RectsAssumption DEF Shades

\* Nothing follows.
LEMMA NothingAfter == \A S : \A s \in Seq(S) : s \o <<>> = s /\ <<>> \in Seq(S)
  OBVIOUS

\* A palette is a list of colours, ZRLE's and Tight's.
LEMMA PaletteIs ==
  ASSUME NEW p \in Palettes \cup TightPalettes
  PROVE  /\ p \in Seq(Shades) /\ Len(p) \in Nat \ {0} /\ p \in [1 .. Len(p) -> Contents]
         /\ p \in [1 .. Len(p) -> Shades]
<1>1. p \in Seq(Shades) /\ Len(p) \in Nat \ {0}
  <2>1. p \in Seq(Shades)
    BY RectsAssumption DEF Shades
  <2>2. Len(p) \in 2 .. 127 \/ Len(p) \in 1 .. 256
    BY RectsAssumption
  <2>3. \A n : n \in 2 .. 127 \/ n \in 1 .. 256 => n \in Nat \ {0}
    OBVIOUS
  <2> QED BY <2>1, <2>2, <2>3, Zenon
<1>2. p \in [1 .. Len(p) -> Shades]
  BY <1>1
<1> QED BY <1>1, <1>2, ShadesIn

\* Indices into a palette are looked up.
LEMMA LookedUp ==
  ASSUME NEW p \in Palettes \cup TightPalettes, NEW n \in Nat, NEW idx \in Indices(p, n), NEW rest
  PROVE  LookUp(Understood(rest, idx), p) = Understood(rest, InColours(p, idx))
<1>1. Len(p) \in Nat
  BY PaletteIs
<1>2. idx \in [1 .. n -> 0 .. Len(p) - 1]
  BY DEF Indices
<1>3. PICK r : r = Understood(rest, idx)
  OBVIOUS
<1>4. r.val = idx /\ r.ok = TRUE
  BY <1>3, UnderstoodIs
<1>5. ~(~r.ok \/ \E i \in DOMAIN r.val : r.val[i] >= Len(p))
  BY <1>1, <1>2, <1>4
<1>6. LookUp(r, p) = [r EXCEPT !.val = InColours(p, idx)]
  BY <1>4, <1>5 DEF LookUp, InColours
<1>7. [r EXCEPT !.val = InColours(p, idx)] = Understood(rest, InColours(p, idx))
  BY <1>3, ValueSet
<1> QED BY <1>3, <1>6, <1>7

\* The colours of indices.
LEMMA ColoursIn ==
  ASSUME NEW p \in Palettes \cup TightPalettes, NEW n \in Nat, NEW idx \in Indices(p, n)
  PROVE  /\ InColours(p, idx) \in [1 .. n -> Shades]
         /\ \A i \in 1 .. n : InColours(p, idx)[i] = p[idx[i] + 1]
<1>1. Len(p) \in Nat /\ p \in [1 .. Len(p) -> Shades]
  BY PaletteIs
<1>2. idx \in [1 .. n -> 0 .. Len(p) - 1]
  BY DEF Indices
<1>3. InColours(p, idx) = [i \in 1 .. n |-> p[idx[i] + 1]]
  BY <1>2 DEF InColours, Map
<1>4. \A i \in 1 .. n : idx[i] + 1 \in 1 .. Len(p)
  BY <1>1, <1>2
<1> QED BY <1>1, <1>3, <1>4

\* One colour for n pixels.
LEMMA SpreadIs == \A rest, c, n : Spread(Understood(rest, c), n) = Understood(rest, [i \in 1 .. n |-> c])
<1>1. SUFFICES ASSUME NEW rest, NEW c, NEW n
               PROVE  Spread(Understood(rest, c), n) = Understood(rest, [i \in 1 .. n |-> c])
  OBVIOUS
<1>2. PICK r : r = Understood(rest, c)
  OBVIOUS
<1>3. r.val = c
  BY <1>2, UnderstoodIs
<1>4. PICK v : v = [i \in 1 .. n |-> c]
  OBVIOUS
<1>5. Spread(r, n) = [r EXCEPT !.val = v]
  BY <1>3, <1>4 DEF Spread
<1>6. [r EXCEPT !.val = v] = Understood(rest, v)
  BY <1>2, ValueSet
<1> QED BY <1>2, <1>4, <1>5, <1>6

\* The byte that says how a tile is written has been read.
Begins(r, body, k) == TakeOne(r, "u8") = Understood(body, k)

\* What a tile's first byte says follows it.
LEMMA TileBegins ==
  ASSUME NEW r, NEW body, NEW k \in Nat, Begins(r, body, k), NEW w, NEW h
  PROVE  /\ k = 0 => DecodeZRLETile(r, w, h) = TakeMany(Understood(body, k), "px", w * h)
         /\ k = 1 => DecodeZRLETile(r, w, h) = Spread(TakeOne(Understood(body, k), "px"), w * h)
         /\ k \in 2 .. 16 => DecodeZRLETile(r, w, h) =
                LookUp(TakePacked(TakeMany(Understood(body, k), "px", k), w, h, PaletteIndexBits(k)),
                       TakeMany(Understood(body, k), "px", k).val)
         /\ k = 128 => DecodeZRLETile(r, w, h) = ReadRuns(Understood(body, k), w * h, <<>>)
         /\ k >= 130 /\ TakeMany(Understood(body, k), "px", k - 128).ok =>
                DecodeZRLETile(r, w, h) =
                    ReadRuns(TakeMany(Understood(body, k), "px", k - 128), w * h,
                             TakeMany(Understood(body, k), "px", k - 128).val)
<1>1. PICK sub : sub = Understood(body, k)
  OBVIOUS
<1>2. sub.ok = TRUE /\ sub.val = k /\ TakeOne(r, "u8") = sub
  BY <1>1, UnderstoodIs DEF Begins
<1>3. k = 0 => DecodeZRLETile(r, w, h) = TakeMany(sub, "px", w * h)
  BY <1>2 DEF DecodeZRLETile
<1>4. k = 1 => DecodeZRLETile(r, w, h) = Spread(TakeOne(sub, "px"), w * h)
  BY <1>2 DEF DecodeZRLETile
<1>5. k \in 2 .. 16 => DecodeZRLETile(r, w, h) =
                LookUp(TakePacked(TakeMany(sub, "px", k), w, h, PaletteIndexBits(k)), TakeMany(sub, "px", k).val)
  BY <1>2 DEF DecodeZRLETile
<1>6. k = 128 => DecodeZRLETile(r, w, h) = ReadRuns(sub, w * h, <<>>)
  BY <1>2 DEF DecodeZRLETile
<1>7. k >= 130 /\ TakeMany(sub, "px", k - 128).ok =>
                DecodeZRLETile(r, w, h) =
                    ReadRuns(TakeMany(sub, "px", k - 128), w * h, TakeMany(sub, "px", k - 128).val)
  BY <1>2 DEF DecodeZRLETile
<1> QED BY <1>1, <1>3, <1>4, <1>5, <1>6, <1>7

\* The bytes of a tile are read, all of them, as its pixels.
TileRead(bytes, px, w, h) ==
    /\ bytes \in Seq(Items) /\ bytes # <<>> /\ Head(bytes).kind = "u8"
    /\ \A x : DecodeZRLETile(Understood(bytes, x), w, h) = Understood(<<>>, px)

\* That byte is read, whatever follows.
LEMMA TileFront ==
  ASSUME NEW k \in Nat, NEW body \in Seq(Items)
  PROVE  /\ <<U8(k)>> \o body \in Seq(Items) /\ <<U8(k)>> \o body # <<>> /\ Head(<<U8(k)>> \o body).kind = "u8"
         /\ \A x : Begins(Understood(<<U8(k)>> \o body, x), body, k)
<1>1. k \in Contents
  BY NumbersIn
<1>2. PICK a \in Items : a = U8(k) /\ a.kind = "u8"
  BY <1>1, TokenIs
<1>3. \A x : TakeOne(Understood(<<U8(k)>> \o body, x), "u8") = Understood(body, k)
  <2>1. SUFFICES ASSUME NEW x PROVE TakeOne(Understood(<<U8(k)>> \o body, x), "u8") = Understood(body, k)
    OBVIOUS
  <2> QED BY <1>1, ByteTaken
<1>4. \A x : Begins(Understood(<<U8(k)>> \o body, x), body, k)
  BY <1>3 DEF Begins
<1>5. <<a>> \o body \in Seq(Items) /\ <<a>> \o body # <<>> /\ Head(<<a>> \o body) = a
  BY Ahead
<1> QED BY <1>2, <1>4, <1>5

\* Tiles of plain pixels, and of one colour.
LEMMA RawRead ==
  ASSUME NEW w \in Nat, NEW h \in Nat, NEW px \in [1 .. w * h -> Shades]
  PROVE  TileRead(<<U8(0)>> \o PxTokens(px), px, w, h)
<1>1. w * h \in Nat /\ px \in [1 .. w * h -> Contents]
  <2>1. \A i \in 1 .. w * h : px[i] \in Contents
    BY ShadesIn
  <2> QED BY <2>1
<1>2. PICK n \in Nat : n = w * h
  BY <1>1
<1>3. PICK body \in Seq(Items) : body = PxTokens(px)
  <2>1. <<>> \in Seq(Items)
    OBVIOUS
  <2>2. PxTokens(px) \in Seq(Items)
    BY <1>1, <1>2, <2>1, PixelsTaken
  <2> QED BY <2>2
<1>4. ASSUME NEW x PROVE DecodeZRLETile(Understood(<<U8(0)>> \o body, x), w, h) = Understood(<<>>, px)
  <2>1. PICK r : r = Understood(<<U8(0)>> \o body, x)
    OBVIOUS
  <2>2. Begins(r, body, 0)
    BY <2>1, 0 \in Nat, TileFront
  <2>3. DecodeZRLETile(r, w, h) = TakeMany(Understood(body, 0), "px", w * h)
    BY <2>2, 0 \in Nat, TileBegins
  <2>4. TakeMany(Understood(PxTokens(px) \o <<>>, 0), "px", n) = Understood(<<>>, px)
    <3>1. <<>> \in Seq(Items)
      OBVIOUS
    <3> QED BY <1>1, <1>2, <3>1, PixelsTaken
  <2>5. body \o <<>> = body
    BY NothingAfter
  <2> QED BY <1>2, <1>3, <2>1, <2>3, <2>4, <2>5
<1> QED BY <1>3, <1>4, 0 \in Nat, TileFront DEF TileRead

\* A tile of one colour is read back.
LEMMA SolidRead ==
  ASSUME NEW w \in Nat, NEW h \in Nat, NEW c \in Shades
  PROVE  TileRead(<<U8(1), Px(c)>>, [i \in 1 .. w * h |-> c], w, h)
<1>1. c \in Contents /\ <<>> \in Seq(Items)
  BY ShadesIn
<1>2. PICK body \in Seq(Items) : body = <<Px(c)>> \o <<>> /\ body = <<Px(c)>>
  <2>1. PICK a \in Items : a = Px(c)
    BY <1>1, TokenIs
  <2>2. <<a>> \in Seq(Items) /\ <<a>> \o <<>> = <<a>>
    OBVIOUS
  <2> QED BY <2>1, <2>2
<1>3. <<U8(1)>> \o body = <<U8(1), Px(c)>>
  BY <1>2, PairIs
<1>4. ASSUME NEW x PROVE DecodeZRLETile(Understood(<<U8(1)>> \o body, x), w, h) = Understood(<<>>, [i \in 1 .. w * h |-> c])
  <2>1. PICK r : r = Understood(<<U8(1)>> \o body, x)
    OBVIOUS
  <2>2. Begins(r, body, 1)
    BY <2>1, 1 \in Nat, TileFront
  <2>3. PICK one : one = TakeOne(Understood(body, 1), "px")
    OBVIOUS
  <2>4. DecodeZRLETile(r, w, h) = Spread(one, w * h)
    BY <2>2, <2>3, 1 \in Nat, TileBegins
  <2>5. one = Understood(<<>>, c)
    BY <1>1, <1>2, <2>3, PixelTaken
  <2>6. Spread(one, w * h) = Understood(<<>>, [i \in 1 .. w * h |-> c])
    BY <2>5, SpreadIs
  <2> QED BY <2>1, <2>4, <2>6
<1>5. <<U8(1)>> \o body \in Seq(Items) /\ <<U8(1)>> \o body # <<>> /\ Head(<<U8(1)>> \o body).kind = "u8"
  BY 1 \in Nat, TileFront
<1> QED BY <1>3, <1>4, <1>5 DEF TileRead

\* Tiles of packed indices.
LEMMA BitsAgree == \A n \in Nat : n \in 2 .. 16 =>
    /\ ZrleBits(n) = PaletteIndexBits(n) /\ ZrleBits(n) \in {1, 2, 4} /\ n <= 2 ^ ZrleBits(n) /\ 2 ^ ZrleBits(n) \in Nat
<1>1. 2 ^ 1 = 2 /\ 2 ^ 2 = 4 /\ 2 ^ 4 = 16
  OBVIOUS
<1> QED BY <1>1 DEF ZrleBits, PaletteIndexBits

\* So is one of packed indices into a palette.
LEMMA PackedTileRead ==
  ASSUME NEW w \in Nat \ {0}, NEW h \in Nat, NEW p \in Palettes, Len(p) <= 16, NEW idx \in Indices(p, w * h)
  PROVE  TileRead(<<U8(Len(p))>> \o PxTokens(p) \o PackRows(idx, w, h, ZrleBits(Len(p))), InColours(p, idx), w, h)
<1>1. PICK k \in Nat : k = Len(p) /\ k \in 2 .. 16
  <2>1. Len(p) \in 2 .. 127
    BY RectsAssumption
  <2>2. PICK k \in 2 .. 127 : k = Len(p)
    BY <2>1
  <2>4. k <= 16
    BY <2>2
  <2>3. k \in Nat /\ k \in 2 .. 16
    BY <2>4
  <2> QED BY <2>2, <2>3
<1>2. p \in [1 .. k -> Contents] /\ p \in Palettes \cup TightPalettes
  BY <1>1, PaletteIs
<1>3. PICK bits \in {1, 2, 4} : bits = ZrleBits(k) /\ bits = PaletteIndexBits(k) /\ k <= 2 ^ bits /\ 2 ^ bits \in Nat
  BY <1>1, BitsAgree
<1>4. idx \in [1 .. w * h -> 0 .. 2 ^ bits - 1]
  <2>1. 0 .. k - 1 \subseteq 0 .. 2 ^ bits - 1
    BY <1>3
  <2> QED BY <1>1, <2>1 DEF Indices
<1>5. <<>> \in Seq(Items)
  OBVIOUS
<1>6. PICK rows \in Seq(Items) : rows = PackRows(idx, w, h, bits) /\ rows \o <<>> = rows
  <2>1. PackedBack(idx, w, h, bits)
    BY <1>4, PackedRead
  <2> QED BY <2>1, NothingAfter DEF PackedBack
<1>7. PICK colours \in Seq(Items) : colours = PxTokens(p)
  BY <1>2, <1>5, PixelsTaken
<1>8. PICK body \in Seq(Items) : body = colours \o rows
  BY ConcatProperties
<1>9. <<U8(k)>> \o colours \o rows = <<U8(k)>> \o body
  <2>1. <<U8(k)>> \in Seq(Items)
    BY NumbersIn, TokenIs
  <2> QED BY <1>8, <2>1, Assoc
<1>10. ASSUME NEW x PROVE DecodeZRLETile(Understood(<<U8(k)>> \o body, x), w, h) = Understood(<<>>, InColours(p, idx))
  <2>1. PICK r : r = Understood(<<U8(k)>> \o body, x)
    OBVIOUS
  <2>2. Begins(r, body, k)
    BY <2>1, TileFront
  <2>3. PICK pal : pal = TakeMany(Understood(body, k), "px", k)
    OBVIOUS
  <2>4. DecodeZRLETile(r, w, h) = LookUp(TakePacked(pal, w, h, bits), pal.val)
    <3>1. k \in 2 .. 16 => DecodeZRLETile(r, w, h) =
                LookUp(TakePacked(TakeMany(Understood(body, k), "px", k), w, h, PaletteIndexBits(k)),
                       TakeMany(Understood(body, k), "px", k).val)
      BY <2>2, TileBegins
    <3> QED BY <1>1, <1>3, <2>3, <3>1
  <2>5. pal = Understood(rows, p)
    BY <1>2, <1>7, <1>8, <2>3, PixelsTaken
  <2>6. pal.val = p
    BY <2>5, UnderstoodIs
  <2>7. TakePacked(Understood(rows \o <<>>, p), w, h, bits) = Understood(<<>>, idx)
    <3>1. PackedBack(idx, w, h, bits)
      BY <1>4, PackedRead
    <3>2. TakePacked(Understood(PackRows(idx, w, h, bits) \o <<>>, p), w, h, bits) = Understood(<<>>, idx)
      BY <1>5, <3>1 DEF PackedBack
    <3> QED BY <1>6, <3>2
  <2>8. TakePacked(pal, w, h, bits) = Understood(<<>>, idx)
    BY <1>6, <2>5, <2>7
  <2>9. w * h \in Nat
    OBVIOUS
  <2>10. LookUp(Understood(<<>>, idx), p) = Understood(<<>>, InColours(p, idx))
    BY <1>2, <2>9, LookedUp
  <2> QED BY <2>1, <2>4, <2>6, <2>8, <2>10
<1>11. <<U8(k)>> \o body \in Seq(Items) /\ <<U8(k)>> \o body # <<>> /\ Head(<<U8(k)>> \o body).kind = "u8"
  BY TileFront
<1> QED BY <1>1, <1>3, <1>6, <1>7, <1>9, <1>10, <1>11 DEF TileRead

-----------------------------------------------------------------------------
(* ZRLE run lengths, and the cuts between runs.                            *)

\* The length of a run is read back (readRLELength).
FullBytes(n) == (n - 1) \div RunByte
LengthBytes(n) == [i \in 1 .. FullBytes(n) + 1 |-> IF i <= FullBytes(n) THEN RunByte ELSE (n - 1) % RunByte]

\* The bytes of a length are those that spell it: full ones, then one that is not.
LEMMA RunBytesAre ==
  ASSUME NEW n \in Nat \ {0}
  PROVE  /\ FullBytes(n) \in Nat /\ (n - 1) % RunByte \in 0 .. RunByte - 1
         /\ 1 + FullBytes(n) * RunByte + ((n - 1) % RunByte) = n
         /\ LengthBytes(n) \in [1 .. FullBytes(n) + 1 -> Nat]
         /\ RunBytes(n) = Spell(LengthBytes(n))
<1>1. RunByte \in Nat \ {0}
  BY RectsAssumption
<1>2. PICK m \in Nat : m = n - 1
  OBVIOUS
<1>3. m = (m \div RunByte) * RunByte + (m % RunByte) /\ m % RunByte \in 0 .. RunByte - 1 /\ m \div RunByte \in Nat
  BY <1>1, QuotientIs
<1>4. FullBytes(n) \in Nat /\ (n - 1) % RunByte \in 0 .. RunByte - 1 /\ 1 + FullBytes(n) * RunByte + ((n - 1) % RunByte) = n
  BY <1>1, <1>2, <1>3 DEF FullBytes
<1>5. LengthBytes(n) \in [1 .. FullBytes(n) + 1 -> Nat]
  BY <1>1, <1>4 DEF LengthBytes
<1>6. RunBytes(n) = Spell(LengthBytes(n))
  BY DEF RunBytes, Spell, LengthBytes, FullBytes
<1> QED BY <1>4, <1>5, <1>6

LengthBack(n) ==
    /\ RunBytes(n) \in Seq(Items)
    /\ \A rest \in Seq(Items) : \A x : ReadRLELength(Understood(RunBytes(n) \o rest, x)) = Understood(rest, n)

\* A length is read back: the reader stops at the byte that is not full, and
\* leaves what follows.
LEMMA LengthRead ==
  ASSUME NEW n \in Nat \ {0}
  PROVE  LengthBack(n)
<1>1. RunByte \in Nat \ {0}
  BY RectsAssumption
<1>2. PICK q \in Nat : q = FullBytes(n)
  BY RunBytesAre
<1>3. PICK m \in 0 .. RunByte - 1 : m = (n - 1) % RunByte
  BY RunBytesAre
<1>4. PICK vals \in [1 .. q + 1 -> Nat] : vals = LengthBytes(n)
  BY <1>2, RunBytesAre
<1>5. (\A i \in 1 .. q : vals[i] = RunByte) /\ vals[q + 1] = m /\ 1 + q * RunByte + m = n
  <2>1. q + 1 \in 1 .. q + 1 /\ ~(q + 1 <= q) /\ \A i \in 1 .. q : i \in 1 .. q + 1
    OBVIOUS
  <2> QED BY <1>2, <1>3, <1>4, <2>1, RunBytesAre DEF LengthBytes
<1>6. vals \in [1 .. q + 1 -> Contents] /\ q + 1 \in Nat
  BY ShadesIn
<1>7. PICK bytes \in Seq(Items) : bytes = RunBytes(n) /\ bytes = Spell(vals) /\ Len(bytes) = q + 1
  BY <1>4, <1>6, <<>> \in Seq(Items), RunBytesAre, BytesTaken
<1>8. SUFFICES ASSUME NEW rest \in Seq(Items), NEW x
               PROVE  ReadRLELength(Understood(bytes \o rest, x)) = Understood(rest, n)
  BY <1>7 DEF LengthBack
<1>9. PICK buf \in Seq(Items) : buf = bytes \o rest
  BY ConcatProperties
<1>10. Len(buf) = q + 1 + Len(rest) /\ Len(rest) \in Nat /\ \A i \in 1 .. q + 1 : buf[i] = bytes[i]
  <2>1. Len(rest) \in Nat
    OBVIOUS
  <2>2. /\ Len(bytes \o rest) = Len(bytes) + Len(rest)
        /\ \A i \in 1 .. Len(bytes) + Len(rest) :
              (bytes \o rest)[i] = IF i <= Len(bytes) THEN bytes[i] ELSE rest[i - Len(bytes)]
    BY ConcatProperties
  <2> QED BY <1>7, <1>9, <2>1, <2>2
<1>11. \A i \in 1 .. q + 1 : buf[i].kind = "u8" /\ buf[i].val = vals[i]
  <2>1. \A i \in 1 .. q + 1 : bytes[i] = U8(vals[i])
    BY <1>7 DEF Spell
  <2> QED BY <1>6, <1>10, <2>1, TokenIs
<1>12. PICK r : r = Understood(buf, x)
  OBVIOUS
<1>13. r.buf = buf /\ r.ok = TRUE
  BY <1>12, UnderstoodIs
<1> DEFINE full(i) == r.buf[i].kind = "u8" /\ r.buf[i].val = RunByte
           cand(j) == (\A i \in 1 .. j : full(i)) /\ (j < Len(r.buf) => ~full(j + 1))
<1>14. (\A i \in 1 .. q : full(i)) /\ ~full(q + 1)
  <2>1. \A i \in 1 .. q : i \in 1 .. q + 1
    OBVIOUS
  <2>2. q + 1 \in 1 .. q + 1 /\ m # RunByte
    BY <1>1
  <2> QED BY <1>5, <1>11, <1>13, <2>1, <2>2
<1>15. q \in 0 .. Len(r.buf) /\ q < Len(r.buf)
  BY <1>10, <1>13
<1> DEFINE k == CHOOSE j \in 0 .. Len(r.buf) : cand(j)
<1>16. k = q
  <2>1. cand(q)
    BY <1>14
  <2>2. k \in 0 .. Len(r.buf) /\ cand(k)
    BY <1>15, <2>1
  <2>3. ASSUME NEW j \in 0 .. Len(r.buf), cand(j) PROVE j = q
    <3>1. ~(j > q)
      <4>1. ASSUME j > q PROVE FALSE
        <5>1. q + 1 \in 1 .. j
          BY <4>1
        <5> QED BY <1>14, <2>3, <5>1
      <4> QED BY <4>1
    <3>2. ~(j < q)
      <4>1. ASSUME j < q PROVE FALSE
        <5>1. j + 1 \in 1 .. q /\ j < Len(r.buf)
          BY <1>15, <4>1
        <5> QED BY <1>14, <2>3, <5>1
      <4> QED BY <4>1
    <3> QED BY <3>1, <3>2
  <2> QED BY <2>2, <2>3
<1>17. PICK got : got = TakeMany(r, "u8", q + 1)
  OBVIOUS
<1>18. ReadRLELength(r) = [got EXCEPT !.val = IF got.ok THEN 1 + q * RunByte + Last(got.val) ELSE 0]
  <2>1. ReadRLELength(r) = [TakeMany(r, "u8", k + 1) EXCEPT !.val =
                               IF TakeMany(r, "u8", k + 1).ok THEN 1 + k * RunByte + Last(@) ELSE 0]
    BY DEF ReadRLELength
  <2> HIDE DEF k
  <2> QED BY <1>16, <1>17, <2>1
<1>19. got = Understood(rest, vals)
  BY <1>6, <1>7, <1>9, <1>12, <1>17, BytesTaken
<1>20. got.ok = TRUE /\ got.val = vals
  BY <1>19, UnderstoodIs
<1>21. Last(vals) = m
  BY <1>5 DEF Last
<1>22. ReadRLELength(r) = [got EXCEPT !.val = n]
  BY <1>5, <1>18, <1>20, <1>21
<1>23. [got EXCEPT !.val = n] = Understood(rest, n)
  BY <1>19, ValueSet
<1> QED BY <1>9, <1>12, <1>22, <1>23

\* Where the run that starts at i ends.
EndsAt(cuts, i, n, j) ==
    /\ RunAt(cuts, i, n) \in Nat \ {0} /\ j = i + RunAt(cuts, i, n) /\ RunAt(cuts, i, n) = j - i
    /\ j \in i + 1 .. n + 1 /\ (j = n + 1 \/ j \in cuts)
    /\ \A k \in i + 1 .. j - 1 : k \notin cuts

\* Every run ends.
LEMMA RunEnds ==
  ASSUME NEW n \in Nat, NEW cuts, NEW i \in 1 .. n
  PROVE  \E j \in i + 1 .. n + 1 : EndsAt(cuts, i, n, j)
<1> DEFINE ends(j) == (j = n + 1 \/ j \in cuts) /\ \A k \in i + 1 .. j - 1 : k \notin cuts
<1>1. \E j \in i + 1 .. n + 1 : ends(j)
  <2> DEFINE D == {m \in Nat : (\E j \in i + 1 .. n + 1 : ends(j)) \/ \A k \in i + 1 .. i + m : k \notin cuts}
  <2>1. 0 \in D
    OBVIOUS
  <2>2. ASSUME NEW m \in Nat, m \in D PROVE m + 1 \in D
    <3>1. CASE \E j \in i + 1 .. n + 1 : ends(j)
      BY <3>1
    <3>2. CASE \A k \in i + 1 .. i + m : k \notin cuts
      <4>1. CASE i + m + 1 \in cuts /\ i + m + 1 <= n + 1
        <5>1. i + m + 1 \in i + 1 .. n + 1 /\ (i + m + 1) - 1 = i + m
          BY <4>1
        <5>2. ends(i + m + 1)
          BY <3>2, <4>1, <5>1
        <5>3. \E j \in i + 1 .. n + 1 : ends(j)
          BY <5>1, <5>2
        <5> QED BY <5>3
      <4>2. CASE i + m + 1 \notin cuts
        <5>1. \A k \in i + 1 .. i + (m + 1) : k \notin cuts
          BY <3>2, <4>2
        <5> QED BY <5>1
      <4>3. CASE i + m + 1 > n + 1
        <5>1. n + 1 \in i + 1 .. n + 1 /\ \A k \in i + 1 .. n + 1 - 1 : k \in i + 1 .. i + m
          BY <4>3
        <5>2. ends(n + 1)
          BY <3>2, <5>1
        <5>3. \E j \in i + 1 .. n + 1 : ends(j)
          BY <5>1, <5>2
        <5> QED BY <5>3
      <4> QED BY <4>1, <4>2, <4>3
    <3> QED BY <2>2, <3>1, <3>2
  <2> HIDE DEF D
  <2>3. Nat \subseteq D
    BY <2>1, <2>2, SetInduction
  <2>4. PICK m \in Nat : m = n - i
    OBVIOUS
  <2>5. (\E j \in i + 1 .. n + 1 : ends(j)) \/ \A k \in i + 1 .. i + m : k \notin cuts
    BY <2>3 DEF D
  <2>6. CASE \A k \in i + 1 .. i + m : k \notin cuts
    <3>1. n + 1 \in i + 1 .. n + 1 /\ \A k \in i + 1 .. n + 1 - 1 : k \in i + 1 .. i + m
      BY <2>4
    <3>2. ends(n + 1)
      BY <2>6, <3>1
    <3> QED BY <3>1, <3>2
  <2> QED BY <2>5, <2>6
<1> DEFINE e == CHOOSE j \in i + 1 .. n + 1 : ends(j)
<1>2. e \in i + 1 .. n + 1 /\ ends(e)
  BY <1>1
<1>3. RunAt(cuts, i, n) = e - i
  BY DEF RunAt
<1> HIDE DEF e
<1>4. RunAt(cuts, i, n) \in Nat \ {0} /\ i + RunAt(cuts, i, n) = e
  BY <1>2, <1>3
<1>5. EndsAt(cuts, i, n, e)
  BY <1>2, <1>3, <1>4 DEF EndsAt
<1> QED BY <1>2, <1>5

\* Within a run the pixels do not change.
Plain(px, i, j) == \A k \in i .. j - 1 : px[k] = px[i]

\* A run that ends where the cuts say has one colour.
LEMMA RunIsPlain ==
  ASSUME NEW n \in Nat, NEW px \in [1 .. n -> Int], NEW cuts \in CutSets(px), NEW i \in 1 .. n, NEW j \in i + 1 .. n + 1,
         EndsAt(cuts, i, n, j)
  PROVE  Plain(px, i, j)
<1>0. \A k \in i + 1 .. j - 1 : k \notin cuts
  BY DEF EndsAt
<1>1. Len(px) = n
  BY FunctionIsSeq
<1>2. \A k \in 2 .. n : px[k] # px[k - 1] => k \in cuts
  BY <1>1 DEF CutSets
<1> DEFINE D == {m \in Nat : i + m < j => px[i + m] = px[i]}
<1>3. 0 \in D
  OBVIOUS
<1>4. ASSUME NEW m \in Nat, m \in D PROVE m + 1 \in D
  <2>1. SUFFICES ASSUME i + (m + 1) < j PROVE px[i + (m + 1)] = px[i]
    OBVIOUS
  <2>2. px[i + m] = px[i]
    BY <1>4, <2>1
  <2>3. i + (m + 1) \in i + 1 .. j - 1 /\ i + (m + 1) \in 2 .. n /\ (i + (m + 1)) - 1 = i + m
    BY <2>1
  <2> QED BY <1>0, <1>2, <2>2, <2>3
<1> HIDE DEF D
<1>5. Nat \subseteq D
  BY <1>3, <1>4, SetInduction
<1>6. ASSUME NEW k \in i .. j - 1 PROVE px[k] = px[i]
  <2>1. PICK m \in Nat : m = k - i
    OBVIOUS
  <2>2. m \in D /\ i + m = k /\ i + m < j
    BY <1>5, <2>1
  <2> QED BY <2>2 DEF D
<1> QED BY <1>6 DEF Plain

-----------------------------------------------------------------------------
(* Rectangles: the loop over the runs of a tile.                           *)

\* g lists the accumulators of the first turns.
Turns(g, m, r, total, palette) ==
    g = [k \in 0 .. m |-> IF k = 0 THEN [r |-> r, out |-> <<>>] ELSE ReadRun(g[k - 1], total, palette)]

\* A number of turns of the loop over the runs.
LEMMA TurnsExist ==
  ASSUME NEW r, NEW total, NEW palette
  PROVE  \A m \in Nat : \E g : Turns(g, m, r, total, palette)
<1> DEFINE D == {m \in Nat : \E g : Turns(g, m, r, total, palette)}
           first == [r |-> r, out |-> <<>>]
<1>1. 0 \in D
  <2>1. Turns([k \in 0 .. 0 |-> first], 0, r, total, palette)
    BY DEF Turns
  <2> QED BY <2>1
<1>2. ASSUME NEW m \in Nat, m \in D PROVE m + 1 \in D
  <2>1. PICK g : Turns(g, m, r, total, palette)
    BY <1>2
  <2> DEFINE more == [k \in 0 .. m + 1 |-> IF k <= m THEN g[k] ELSE ReadRun(g[m], total, palette)]
  <2>2. \A k \in 0 .. m : g[k] = IF k = 0 THEN first ELSE ReadRun(g[k - 1], total, palette)
    BY <2>1 DEF Turns
  <2>3. ASSUME NEW k \in 0 .. m + 1
        PROVE  more[k] = IF k = 0 THEN first ELSE ReadRun(more[k - 1], total, palette)
    <3>1. CASE k <= m
      <4>1. k \in 0 .. m /\ (k # 0 => k - 1 \in 0 .. m + 1 /\ k - 1 <= m)
        BY <3>1
      <4> HIDE DEF first
      <4> QED BY <2>2, <4>1
    <3>2. CASE k = m + 1
      <4>1. k # 0 /\ k - 1 \in 0 .. m + 1 /\ k - 1 = m
        BY <3>2
      <4> QED BY <3>2, <4>1
    <3> QED BY <3>1, <3>2
  <2>4. more = [k \in 0 .. m + 1 |-> more[k]]
    OBVIOUS
  <2> HIDE DEF more
  <2>5. more = [k \in 0 .. m + 1 |-> IF k = 0 THEN first ELSE ReadRun(more[k - 1], total, palette)]
    BY <2>3, <2>4
  <2>6. Turns(more, m + 1, r, total, palette)
    BY <2>5 DEF Turns
  <2> QED BY <2>6
<1> HIDE DEF D
<1>3. Nat \subseteq D
  BY <1>1, <1>2, SetInduction
<1> QED BY <1>3 DEF D

\* The runs are read turn by turn.
Turned(g, r, total, palette) ==
    /\ g[0] = [r |-> r, out |-> <<>>]
    /\ \A k \in 1 .. total : g[k] = ReadRun(g[k - 1], total, palette)
    /\ ReadRuns(r, total, palette) = [g[total].r EXCEPT !.val = g[total].out]

\* The turns that ReadRuns takes.
LEMMA RunsTurned ==
  ASSUME NEW total \in Nat, NEW r, NEW palette
  PROVE  \E g : Turned(g, r, total, palette)
<1> DEFINE g == CHOOSE f : Turns(f, total, r, total, palette)
<1>1. Turns(g, total, r, total, palette)
  BY TurnsExist, Zenon
<1>2. ReadRuns(r, total, palette) = [g[total].r EXCEPT !.val = g[total].out]
  BY DEF ReadRuns, Turns
<1> HIDE DEF g
<1>3. \A k \in 0 .. total : g[k] = IF k = 0 THEN [r |-> r, out |-> <<>>] ELSE ReadRun(g[k - 1], total, palette)
  BY <1>1 DEF Turns
<1>4. g[0] = [r |-> r, out |-> <<>>] /\ \A k \in 1 .. total : g[k] = ReadRun(g[k - 1], total, palette)
  BY <1>3
<1> QED BY <1>2, <1>4 DEF Turned

\* The pixels before p.
FirstOf(px, p) == [i \in 1 .. p - 1 |-> px[i]]
\* What has been read: the tokens left, and the pixels so far.
Accumulated(buf, x, px) == [r |-> Understood(buf, x), out |-> px]

\* Its parts.
LEMMA AccumulatedIs == \A buf, x, px :
    Accumulated(buf, x, px).r = Understood(buf, x) /\ Accumulated(buf, x, px).out = px
BY DEF Accumulated

Extends(px, i, j) ==
    /\ FirstOf(px, i) \in Seq(Int) /\ Len(FirstOf(px, i)) = i - 1
    /\ FirstOf(px, i) \o [k \in 1 .. j - i |-> px[i]] = FirstOf(px, j)

\* The pixels read and a run of one colour are the pixels read after it.
LEMMA FirstMore ==
  ASSUME NEW n \in Nat, NEW px \in [1 .. n -> Int], NEW i \in 1 .. n, NEW j \in i + 1 .. n + 1,
         Plain(px, i, j)
  PROVE  Extends(px, i, j)
<1>0. \A k \in i .. j - 1 : px[k] = px[i]
  BY DEF Plain
<1>1. FirstOf(px, i) \in [1 .. i - 1 -> Int] /\ FirstOf(px, j) \in [1 .. j - 1 -> Int]
      /\ i - 1 \in Nat /\ j - 1 \in Nat
  BY DEF FirstOf
<1>2. PICK a \in Seq(Int), c \in Seq(Int) :
         /\ a = FirstOf(px, i) /\ Len(a) = i - 1 /\ \A k \in 1 .. i - 1 : a[k] = px[k]
         /\ c = FirstOf(px, j) /\ Len(c) = j - 1 /\ \A k \in 1 .. j - 1 : c[k] = px[k]
  <2>1. FirstOf(px, i) \in Seq(Int) /\ Len(FirstOf(px, i)) = i - 1
    BY <1>1, FunctionIsSeq
  <2>2. FirstOf(px, j) \in Seq(Int) /\ Len(FirstOf(px, j)) = j - 1
    BY <1>1, FunctionIsSeq
  <2>3. \A k \in 1 .. i - 1 : FirstOf(px, i)[k] = px[k]
    BY DEF FirstOf
  <2>4. \A k \in 1 .. j - 1 : FirstOf(px, j)[k] = px[k]
    BY DEF FirstOf
  <2> QED BY <2>1, <2>2, <2>3, <2>4
<1>3. PICK b \in Seq(Int) : b = [k \in 1 .. j - i |-> px[i]] /\ Len(b) = j - i /\ \A k \in 1 .. j - i : b[k] = px[i]
  <2>1. PICK m \in Nat : m = j - i
    OBVIOUS
  <2>2. [k \in 1 .. m |-> px[i]] \in [1 .. m -> Int]
    OBVIOUS
  <2>3. [k \in 1 .. m |-> px[i]] \in Seq(Int) /\ Len([k \in 1 .. m |-> px[i]]) = m
    BY <2>2, FunctionIsSeq
  <2> QED BY <2>1, <2>3
<1>4. a \o b = c
  <2>1. /\ a \o b \in Seq(Int) /\ Len(a \o b) = Len(a) + Len(b)
        /\ \A k \in 1 .. Len(a) + Len(b) : (a \o b)[k] = IF k <= Len(a) THEN a[k] ELSE b[k - Len(a)]
    BY ConcatProperties
  <2>2. PICK ab \in Seq(Int) : ab = a \o b
    BY <2>1
  <2>3. Len(ab) = Len(c)
    <3>1. Len(ab) = (i - 1) + (j - i)
      BY <1>2, <1>3, <2>1, <2>2
    <3> QED BY <1>2, <3>1
  <2>4. ASSUME NEW k \in 1 .. Len(ab) PROVE ab[k] = c[k]
    <3>1. k \in 1 .. j - 1
      BY <1>2, <2>3
    <3>2. CASE k <= i - 1
      BY <1>2, <1>3, <2>1, <2>2, <3>1, <3>2
    <3>3. CASE ~(k <= i - 1)
      <4>1. k - (i - 1) \in 1 .. j - i /\ k \in i .. j - 1
        BY <3>1, <3>3
      <4> QED BY <1>0, <1>2, <1>3, <2>1, <2>2, <3>1, <3>3, <4>1
    <3> QED BY <3>2, <3>3
  <2> QED BY <2>2, <2>3, <2>4, SeqEqual
<1> QED BY <1>2, <1>3, <1>4 DEF Extends

\* A part of the tokens says the pixels from i to before j.
RunGiven(tokens, px, palette, n, i, j) ==
    \A rest \in Seq(Items) : \A x : \E y :
        ReadRun(Accumulated(tokens \o rest, x, FirstOf(px, i)), n, palette) = Accumulated(rest, y, FirstOf(px, j))

\* Parts that are empty are passed.
Chained(left, parts, n) == \A i \in 1 .. n : left[i] = parts[i] \o left[i + 1]
Skipped(parts, i, j) == \A k \in i .. j - 1 : parts[k] = <<>>

\* What is left to read does not change over them.
LEMMA EmptyPassed ==
  ASSUME NEW n \in Nat, NEW parts, NEW left \in [1 .. n + 1 -> Seq(Items)],
         NEW i \in 1 .. n + 1, NEW j \in i .. n + 1, Chained(left, parts, n), Skipped(parts, i, j)
  PROVE  left[i] = left[j]
<1> DEFINE D == {m \in Nat : i + m <= j => left[i] = left[i + m]}
<1>1. 0 \in D
  OBVIOUS
<1>2. ASSUME NEW m \in Nat, m \in D PROVE m + 1 \in D
  <2>1. SUFFICES ASSUME i + (m + 1) <= j PROVE left[i] = left[i + (m + 1)]
    OBVIOUS
  <2>2. left[i] = left[i + m]
    BY <1>2, <2>1
  <2>3. i + m \in i .. j - 1 /\ i + m \in 1 .. n /\ (i + m) + 1 = i + (m + 1) /\ i + (m + 1) \in 1 .. n + 1
    BY <2>1
  <2>4. left[i + m] = <<>> \o left[i + (m + 1)]
    BY <2>3 DEF Chained, Skipped
  <2>5. PICK s \in Seq(Items) : s = left[i + (m + 1)]
    BY <2>3
  <2>6. <<>> \o s = s
    OBVIOUS
  <2> QED BY <2>2, <2>4, <2>5, <2>6
<1> HIDE DEF D
<1>3. Nat \subseteq D
  BY <1>1, <1>2, SetInduction
<1>4. PICK m \in Nat : m = j - i
  OBVIOUS
<1>5. m \in D /\ i + m = j
  BY <1>3, <1>4
<1> QED BY <1>5 DEF D

\* The runs of a tile, cut where it says, read as its pixels.
RunsSay(parts, px, cuts, palette, n) ==
    /\ parts \in [1 .. n -> Seq(Items)] /\ 1 \in cuts
    /\ \A i \in 1 .. n : IF i \in cuts THEN RunGiven(parts[i], px, palette, n, i, i + RunAt(cuts, i, n))
                                       ELSE parts[i] = <<>>
Reached(acc, left, px, cuts, n, k) ==
    \E p \in 1 .. n + 1 : /\ p = n + 1 \/ p \in cuts
                          /\ p = n + 1 \/ p >= k + 1
                          /\ \E x : acc = Accumulated(left[p], x, FirstOf(px, p))
RunsBack(parts, px, palette, n) ==
    /\ FlattenSeq(parts) \in Seq(Items)
    /\ \A x : ReadRuns(Understood(FlattenSeq(parts), x), n, palette) = Understood(<<>>, px)

\* Runs that say the pixels part by part are read as those pixels: by induction
\* on the turns, what was read ends at a cut and the rest is left.
LEMMA RunsRead ==
  ASSUME NEW n \in Nat \ {0}, NEW px \in [1 .. n -> Int], NEW parts, NEW cuts, NEW palette,
         RunsSay(parts, px, cuts, palette, n)
  PROVE  RunsBack(parts, px, palette, n)
<1>1. parts \in Seq(Seq(Items)) /\ Len(parts) = n
  BY FunctionIsSeq DEF RunsSay
<1>2. PICK whole \in Seq(Items) : whole = FlattenSeq(parts) /\ \E left : Left(left, parts, n, Items, whole, <<>>)
  BY <1>1, <<>> \in Seq(Items), PartsLeft
<1>3. PICK left : Left(left, parts, n, Items, whole, <<>>)
  BY <1>2
<1>4. /\ left \in [1 .. n + 1 -> Seq(Items)] /\ left[n + 1] = <<>> /\ left[1] = whole
      /\ \A i \in 1 .. n : left[i] = parts[i] \o left[i + 1]
  <2>1. whole \o <<>> = whole
    BY NothingAfter
  <2> QED BY <1>3, <2>1 DEF Left
<1>5. SUFFICES ASSUME NEW x PROVE ReadRuns(Understood(whole, x), n, palette) = Understood(<<>>, px)
  BY <1>2 DEF RunsBack
<1>6. PICK r : r = Understood(whole, x)
  OBVIOUS
<1>7. PICK g : Turned(g, r, n, palette)
  BY RunsTurned
<1>8. Reached(g[0], left, px, cuts, n, 0)
  <2>1. FirstOf(px, 1) = <<>>
    BY DEF FirstOf
  <2>2. g[0] = Accumulated(left[1], x, FirstOf(px, 1))
    BY <1>4, <1>6, <1>7, <2>1 DEF Turned, Accumulated
  <2>3. 1 \in 1 .. n + 1 /\ 1 \in cuts
    BY DEF RunsSay
  <2> QED BY <2>2, <2>3 DEF Reached
<1>9. ASSUME NEW k \in Nat, k + 1 \in 1 .. n, Reached(g[k], left, px, cuts, n, k)
      PROVE  Reached(g[k + 1], left, px, cuts, n, k + 1)
  <2>1. PICK p \in 1 .. n + 1 : /\ p = n + 1 \/ p \in cuts
                                /\ p = n + 1 \/ p >= k + 1
                                /\ \E y : g[k] = Accumulated(left[p], y, FirstOf(px, p))
    BY <1>9 DEF Reached
  <2>2. PICK y : g[k] = Accumulated(left[p], y, FirstOf(px, p))
    BY <2>1
  <2>3. g[k + 1] = ReadRun(g[k], n, palette)
    <3>1. (k + 1) - 1 = k
      OBVIOUS
    <3> QED BY <1>7, <1>9, <3>1 DEF Turned
  <2>4. CASE p = n + 1
    <3>1. Len(g[k].out) = n
      <4>1. FirstOf(px, n + 1) \in [1 .. n -> Int]
        BY DEF FirstOf
      <4>2. Len(FirstOf(px, n + 1)) = n
        BY <4>1, FunctionIsSeq
      <4> QED BY <2>2, <2>4, <4>2, AccumulatedIs
    <3>2. g[k + 1] = g[k]
      BY <2>3, <3>1 DEF ReadRun
    <3> QED BY <2>2, <2>4, <3>2 DEF Reached
  <2>5. CASE p # n + 1
    <3>1. p \in 1 .. n /\ p \in cuts /\ p >= k + 1
      BY <2>1, <2>5
    <3>0. PICK j \in p + 1 .. n + 1 : EndsAt(cuts, p, n, j)
      BY <3>1, RunEnds
    <3>2. /\ j = p + RunAt(cuts, p, n) /\ (j = n + 1 \/ j \in cuts)
          /\ \A i \in p + 1 .. j - 1 : i \notin cuts
      BY <3>0 DEF EndsAt
    <3>3. RunGiven(parts[p], px, palette, n, p, j)
      BY <3>1, <3>2 DEF RunsSay
    <3>4. left[p + 1] = left[j]
      <4>1. \A i \in p + 1 .. j - 1 : parts[i] = <<>>
        <5>1. \A i \in p + 1 .. j - 1 : i \in 1 .. n
          BY <3>1
        <5> QED BY <3>2, <5>1 DEF RunsSay
      <4>2. p + 1 \in 1 .. n + 1 /\ j \in (p + 1) .. n + 1
        BY <3>1
      <4>3. Chained(left, parts, n) /\ Skipped(parts, p + 1, j)
        BY <1>4, <4>1 DEF Chained, Skipped
      <4> QED BY <1>4, <4>2, <4>3, EmptyPassed
    <3>5. left[p] = parts[p] \o left[j] /\ left[j] \in Seq(Items)
      <4>0. j \in 1 .. n + 1
        OBVIOUS
      <4>1. left[p] = parts[p] \o left[p + 1]
        BY <1>4, <3>1
      <4> QED BY <1>4, <3>4, <4>0, <4>1
    <3>6. PICK z : ReadRun(Accumulated(parts[p] \o left[j], y, FirstOf(px, p)), n, palette) =
                   Accumulated(left[j], z, FirstOf(px, j))
      BY <3>3, <3>5 DEF RunGiven
    <3>7. g[k + 1] = Accumulated(left[j], z, FirstOf(px, j))
      BY <2>2, <2>3, <3>5, <3>6
    <3>8. j \in 1 .. n + 1 /\ j >= (k + 1) + 1
      BY <3>1
    <3> QED BY <3>2, <3>7, <3>8 DEF Reached
  <2> QED BY <2>4, <2>5
<1> DEFINE D == {k \in Nat : k <= n => Reached(g[k], left, px, cuts, n, k)}
<1>10. 0 \in D
  BY <1>8
<1>11. ASSUME NEW k \in Nat, k \in D PROVE k + 1 \in D
  <2>1. SUFFICES ASSUME k + 1 <= n PROVE Reached(g[k + 1], left, px, cuts, n, k + 1)
    OBVIOUS
  <2>2. k + 1 \in 1 .. n /\ Reached(g[k], left, px, cuts, n, k)
    BY <1>11, <2>1
  <2> QED BY <1>9, <2>2
<1> HIDE DEF D
<1>12. Nat \subseteq D
  BY <1>10, <1>11, SetInduction
<1>13. Reached(g[n], left, px, cuts, n, n)
  <2>1. n \in D
    BY <1>12
  <2> QED BY <2>1 DEF D
<1>14. PICK y : g[n] = Accumulated(<<>>, y, FirstOf(px, n + 1))
  <2>1. PICK p \in 1 .. n + 1 : /\ p = n + 1 \/ p >= n + 1
                                /\ \E y : g[n] = Accumulated(left[p], y, FirstOf(px, p))
    BY <1>13 DEF Reached
  <2>2. p = n + 1
    BY <2>1
  <2> QED BY <1>4, <2>1, <2>2
<1>15. FirstOf(px, n + 1) = px
  BY DEF FirstOf
<1>16. g[n].r = Understood(<<>>, y) /\ g[n].out = px
  BY <1>14, <1>15, AccumulatedIs
<1>17. PICK q : q = g[n].r
  OBVIOUS
<1>18. [q EXCEPT !.val = px] = Understood(<<>>, px)
  BY <1>16, <1>17, ValueSet
<1>19. ReadRuns(r, n, palette) = [q EXCEPT !.val = px]
  BY <1>7, <1>16, <1>17 DEF Turned
<1> QED BY <1>6, <1>18, <1>19

-----------------------------------------------------------------------------
(* ZRLE tiles of runs.                                                     *)

\* Colours are numbers.
LEMMA ShadesAreNumbers ==
  ASSUME NEW n \in Nat, NEW px \in [1 .. n -> Shades]
  PROVE  px \in [1 .. n -> Int]
<1>1. \A i \in 1 .. n : px[i] \in Int
  BY RectsAssumption DEF Shades
<1> QED BY <1>1

PlainPart(px, cuts, i) == IF i \in cuts THEN <<Px(px[i])>> \o RunBytes(RunAt(cuts, i, Len(px))) ELSE <<>>

\* Runs without a palette, part by part.
LEMMA PlainRunsAre ==
  ASSUME NEW n \in Nat, NEW px \in [1 .. n -> Shades], NEW cuts
  PROVE  PlainRuns(px, cuts) = FlattenSeq([i \in 1 .. n |-> PlainPart(px, cuts, i)])
<1>1. Len(px) = n
  BY FunctionIsSeq
<1> QED BY <1>1 DEF PlainRuns, Map, Upto, PlainPart

\* A colour and how often it comes are read (ReadRun).
LEMMA PlainRunRead ==
  ASSUME NEW n \in Nat, NEW px \in [1 .. n -> Shades], NEW cuts \in CutSets(px), NEW i \in 1 .. n, NEW j \in i + 1 .. n + 1,
         EndsAt(cuts, i, n, j)
  PROVE  /\ <<Px(px[i])>> \o RunBytes(j - i) \in Seq(Items)
         /\ RunGiven(<<Px(px[i])>> \o RunBytes(j - i), px, <<>>, n, i, j)
<1>1. PICK m \in Nat \ {0} : m = j - i
  OBVIOUS
<1>2. PICK bytes \in Seq(Items) : bytes = RunBytes(m) /\ LengthBack(m)
  BY LengthRead DEF LengthBack
<1>3. PICK c \in Shades : c = px[i]
  OBVIOUS
<1>4. c \in Contents
  BY ShadesIn
<1>5. <<Px(c)>> \o bytes \in Seq(Items) /\ <<Px(c)>> \in Seq(Items)
  <2>1. PICK a \in Items : a = Px(c)
    BY <1>4, TokenIs
  <2> QED BY <2>1, Ahead
<1>6. SUFFICES ASSUME NEW rest \in Seq(Items), NEW x
               PROVE  ReadRun(Accumulated((<<Px(c)>> \o bytes) \o rest, x, FirstOf(px, i)), n, <<>>)
                        = Accumulated(rest, m, FirstOf(px, j))
  BY <1>1, <1>2, <1>3, <1>5 DEF RunGiven
<1>7. PICK after \in Seq(Items) : after = bytes \o rest
  BY ConcatProperties
<1>8. (<<Px(c)>> \o bytes) \o rest = <<Px(c)>> \o after
  BY <1>5, <1>7, Assoc
<1>9. PICK acc : acc = Accumulated(<<Px(c)>> \o after, x, FirstOf(px, i))
  OBVIOUS
<1>10. acc.r = Understood(<<Px(c)>> \o after, x) /\ acc.out = FirstOf(px, i)
  BY <1>9, AccumulatedIs
<1>11. PICK b : b = TakeOne(acc.r, "px")
  OBVIOUS
<1>12. b = Understood(after, c)
  BY <1>4, <1>10, <1>11, PixelTaken
<1>13. PICK q : q = ReadRLELength(b)
  OBVIOUS
<1>14. q = Understood(rest, m)
  BY <1>2, <1>7, <1>12, <1>13 DEF LengthBack
<1>15. /\ FirstOf(px, i) \in Seq(Int) /\ Len(FirstOf(px, i)) = i - 1
       /\ FirstOf(px, i) \o [k \in 1 .. j - i |-> px[i]] = FirstOf(px, j)
  <2>1. px \in [1 .. n -> Int]
    BY ShadesAreNumbers
  <2>2. Plain(px, i, j)
    BY <2>1, RunIsPlain
  <2>3. Extends(px, i, j)
    BY <2>1, <2>2, FirstMore
  <2> QED BY <2>3 DEF Extends
<1>16. b.ok = TRUE /\ b.val = c /\ q.ok = TRUE /\ q.val = m /\ acc.r.ok = TRUE
  BY <1>10, <1>12, <1>14, UnderstoodIs
<1>17. Len(acc.out) = i - 1 /\ Len(acc.out) # n /\ ~(Len(acc.out) + q.val > n)
  <2>1. Len(acc.out) = i - 1
    BY <1>10, <1>15
  <2>2. (i - 1) + m = j - 1
    BY <1>1
  <2> QED BY <1>16, <2>1, <2>2
<1>18. ReadRun(acc, n, <<>>) = [r |-> q, out |-> acc.out \o [k \in 1 .. m |-> c]]
  BY <1>11, <1>13, <1>16, <1>17 DEF ReadRun
<1>19. acc.out \o [k \in 1 .. m |-> c] = FirstOf(px, j)
  BY <1>1, <1>3, <1>10, <1>15
<1> QED BY <1>8, <1>9, <1>14, <1>18, <1>19 DEF Accumulated

\* Every picture may be cut where CutSets says.
LEMMA CutsAre ==
  ASSUME NEW px, NEW cuts \in CutSets(px)
  PROVE  1 \in cuts
BY DEF CutSets

\* A tile of runs is read back, wherever its runs were cut.
LEMMA PlainTileRead ==
  ASSUME NEW w \in Nat \ {0}, NEW h \in Nat \ {0}, NEW px \in [1 .. w * h -> Shades], NEW cuts \in CutSets(px)
  PROVE  TileRead(<<U8(128)>> \o PlainRuns(px, cuts), px, w, h)
<1>1. PICK n \in Nat \ {0} : n = w * h
  OBVIOUS
<1>2. px \in [1 .. n -> Shades] /\ px \in [1 .. n -> Int] /\ Len(px) = n
  <2>1. px \in [1 .. n -> Shades]
    BY <1>1
  <2> QED BY <2>1, ShadesAreNumbers, FunctionIsSeq
<1>3. PICK parts : parts = [i \in 1 .. n |-> PlainPart(px, cuts, i)]
  OBVIOUS
<1>4. ASSUME NEW i \in 1 .. n
      PROVE  /\ parts[i] \in Seq(Items)
             /\ IF i \in cuts THEN RunGiven(parts[i], px, <<>>, n, i, i + RunAt(cuts, i, n)) ELSE parts[i] = <<>>
  <2>1. CASE i \notin cuts
    BY <1>3, <2>1 DEF PlainPart
  <2>2. CASE i \in cuts
    <3>1. PICK j \in i + 1 .. n + 1 : EndsAt(cuts, i, n, j)
      BY RunEnds
    <3>2. /\ <<Px(px[i])>> \o RunBytes(j - i) \in Seq(Items)
          /\ RunGiven(<<Px(px[i])>> \o RunBytes(j - i), px, <<>>, n, i, j)
      BY <1>2, <3>1, PlainRunRead
    <3>3. j = i + RunAt(cuts, i, n) /\ RunAt(cuts, i, n) = j - i
      BY <3>1 DEF EndsAt
    <3>4. parts[i] = <<Px(px[i])>> \o RunBytes(j - i)
      BY <1>2, <1>3, <2>2, <3>3 DEF PlainPart
    <3> QED BY <2>2, <3>2, <3>3, <3>4
  <2> QED BY <2>1, <2>2
<1>5. RunsSay(parts, px, cuts, <<>>, n)
  <2>1. parts \in [1 .. n -> Seq(Items)]
    BY <1>3, <1>4
  <2> QED BY <1>4, <2>1, CutsAre DEF RunsSay
<1>6. RunsBack(parts, px, <<>>, n)
  BY <1>2, <1>5, RunsRead
<1>7. PICK body \in Seq(Items) : body = PlainRuns(px, cuts) /\ body = FlattenSeq(parts)
  BY <1>2, <1>3, <1>6, PlainRunsAre DEF RunsBack
<1>8. ASSUME NEW x PROVE DecodeZRLETile(Understood(<<U8(128)>> \o body, x), w, h) = Understood(<<>>, px)
  <2>1. PICK r : r = Understood(<<U8(128)>> \o body, x)
    OBVIOUS
  <2>2. Begins(r, body, 128)
    BY <2>1, 128 \in Nat, TileFront
  <2>3. DecodeZRLETile(r, w, h) = ReadRuns(Understood(body, 128), n, <<>>)
    BY <1>1, <2>2, 128 \in Nat, TileBegins
  <2>4. ReadRuns(Understood(body, 128), n, <<>>) = Understood(<<>>, px)
    BY <1>6, <1>7 DEF RunsBack
  <2> QED BY <2>1, <2>3, <2>4
<1> QED BY <1>7, <1>8, 128 \in Nat, TileFront DEF TileRead

PalettePart(idx, cuts, brief, i) ==
    IF i \notin cuts THEN <<>>
    ELSE IF brief /\ RunAt(cuts, i, Len(idx)) = 1 THEN <<U8(idx[i])>>
    ELSE <<U8(128 + idx[i])>> \o RunBytes(RunAt(cuts, i, Len(idx)))

\* Runs of indices, part by part.
LEMMA PaletteRunsAre ==
  ASSUME NEW n \in Nat, NEW idx \in [1 .. n -> Nat], NEW cuts, NEW brief
  PROVE  PaletteRuns(idx, cuts, brief) = FlattenSeq([i \in 1 .. n |-> PalettePart(idx, cuts, brief, i)])
<1>1. Len(idx) = n
  BY FunctionIsSeq
<1> QED BY <1>1 DEF PaletteRuns, Map, Upto, PalettePart

\* The pixels before p, of indices.
LEMMA FirstColours ==
  ASSUME NEW n \in Nat, NEW p \in Palettes, NEW idx \in Indices(p, n), NEW cuts \in CutSets(idx),
         NEW i \in 1 .. n, NEW j \in i + 1 .. n + 1, EndsAt(cuts, i, n, j)
  PROVE  Extends(InColours(p, idx), i, j) /\ InColours(p, idx)[i] = p[idx[i] + 1]
<1>1. p \in Palettes \cup TightPalettes
  OBVIOUS
<1>2. PICK px \in [1 .. n -> Shades] : px = InColours(p, idx) /\ \A k \in 1 .. n : px[k] = p[idx[k] + 1]
  BY <1>1, ColoursIn
<1>3. PICK at \in [1 .. n -> Int] : at = idx
  <2>1. idx \in [1 .. n -> 0 .. Len(p) - 1]
    BY DEF Indices
  <2>2. \A k \in 1 .. n : idx[k] \in Int
    BY <2>1
  <2>3. idx \in [1 .. n -> Int]
    BY <2>1, <2>2
  <2> QED BY <2>3
<1>4. Plain(at, i, j)
  BY <1>3, RunIsPlain
<1>5. Plain(px, i, j)
  <2>1. \A k \in i .. j - 1 : k \in 1 .. n
    OBVIOUS
  <2> QED BY <1>2, <1>3, <1>4, <2>1 DEF Plain
<1>6. px \in [1 .. n -> Int]
  BY ShadesAreNumbers
<1> QED BY <1>2, <1>5, <1>6, FirstMore

\* An index and how often it comes.
LEMMA LongRunRead ==
  ASSUME NEW n \in Nat, NEW p \in Palettes, NEW idx \in Indices(p, n), NEW cuts \in CutSets(idx),
         NEW i \in 1 .. n, NEW j \in i + 1 .. n + 1, EndsAt(cuts, i, n, j)
  PROVE  /\ <<U8(128 + idx[i])>> \o RunBytes(j - i) \in Seq(Items)
         /\ RunGiven(<<U8(128 + idx[i])>> \o RunBytes(j - i), InColours(p, idx), p, n, i, j)
<1>1. PICK m \in Nat \ {0} : m = j - i
  OBVIOUS
<1>2. PICK bytes \in Seq(Items) : bytes = RunBytes(m) /\ LengthBack(m)
  BY LengthRead DEF LengthBack
<1>3. PICK px : px = InColours(p, idx)
  OBVIOUS
<1>4. PICK c \in 0 .. Len(p) - 1 : c = idx[i] /\ Len(p) \in 2 .. 127 /\ p # <<>>
  <2>1. Len(p) \in 2 .. 127
    BY RectsAssumption
  <2> QED BY <2>1 DEF Indices
<1>5. 128 + c \in Contents
  BY <1>4, NumbersIn
<1>6. <<U8(128 + c)>> \o bytes \in Seq(Items) /\ <<U8(128 + c)>> \in Seq(Items)
  <2>1. PICK a \in Items : a = U8(128 + c)
    BY <1>5, TokenIs
  <2> QED BY <2>1, Ahead
<1>7. SUFFICES ASSUME NEW rest \in Seq(Items), NEW x
               PROVE  ReadRun(Accumulated((<<U8(128 + c)>> \o bytes) \o rest, x, FirstOf(px, i)), n, p)
                        = Accumulated(rest, m, FirstOf(px, j))
  BY <1>1, <1>2, <1>3, <1>4, <1>6 DEF RunGiven
<1>8. PICK after \in Seq(Items) : after = bytes \o rest
  BY ConcatProperties
<1>9. (<<U8(128 + c)>> \o bytes) \o rest = <<U8(128 + c)>> \o after
  BY <1>6, <1>8, Assoc
<1>10. PICK acc : acc = Accumulated(<<U8(128 + c)>> \o after, x, FirstOf(px, i))
  OBVIOUS
<1>11. acc.r = Understood(<<U8(128 + c)>> \o after, x) /\ acc.out = FirstOf(px, i)
  BY <1>10, AccumulatedIs
<1>12. PICK b : b = TakeOne(acc.r, "u8")
  OBVIOUS
<1>13. b = Understood(after, 128 + c)
  BY <1>5, <1>11, <1>12, ByteTaken
<1>14. PICK q : q = ReadRLELength(b)
  OBVIOUS
<1>15. q = Understood(rest, m)
  BY <1>2, <1>8, <1>13, <1>14 DEF LengthBack
<1>16. b.ok = TRUE /\ b.val = 128 + c /\ q.ok = TRUE /\ q.val = m /\ acc.r.ok = TRUE
  BY <1>11, <1>13, <1>15, UnderstoodIs
<1>17. /\ Len(FirstOf(px, i)) = i - 1
       /\ FirstOf(px, i) \o [k \in 1 .. m |-> p[c + 1]] = FirstOf(px, j)
  <2>1. Extends(px, i, j) /\ px[i] = p[c + 1]
    BY <1>3, <1>4, FirstColours
  <2> QED BY <1>1, <2>1 DEF Extends
<1>18. Len(acc.out) # n /\ ~(Len(acc.out) + q.val > n)
  <2>1. Len(acc.out) = i - 1
    BY <1>11, <1>17
  <2>2. (i - 1) + m = j - 1
    BY <1>1
  <2> QED BY <1>16, <2>1, <2>2
<1>19. b.val >= 128 /\ b.val - 128 = c /\ ~(c >= Len(p))
  BY <1>4, <1>16
<1>20. ReadRun(acc, n, p) = [r |-> q, out |-> acc.out \o [k \in 1 .. m |-> p[c + 1]]]
  BY <1>4, <1>12, <1>14, <1>16, <1>18, <1>19 DEF ReadRun
<1>21. acc.out \o [k \in 1 .. m |-> p[c + 1]] = FirstOf(px, j)
  BY <1>11, <1>17
<1> QED BY <1>9, <1>10, <1>15, <1>20, <1>21 DEF Accumulated

\* An index that comes once.
LEMMA BriefRunRead ==
  ASSUME NEW n \in Nat, NEW p \in Palettes, NEW idx \in Indices(p, n), NEW cuts \in CutSets(idx),
         NEW i \in 1 .. n, NEW j \in i + 1 .. n + 1, EndsAt(cuts, i, n, j), j = i + 1
  PROVE  /\ <<U8(idx[i])>> \in Seq(Items)
         /\ RunGiven(<<U8(idx[i])>>, InColours(p, idx), p, n, i, j)
<1>3. PICK px : px = InColours(p, idx)
  OBVIOUS
<1>4. PICK c \in 0 .. Len(p) - 1 : c = idx[i] /\ Len(p) \in 2 .. 127 /\ p # <<>>
  <2>1. Len(p) \in 2 .. 127
    BY RectsAssumption
  <2> QED BY <2>1 DEF Indices
<1>5. c \in Contents
  BY <1>4, NumbersIn
<1>6. <<U8(c)>> \in Seq(Items)
  <2>1. PICK a \in Items : a = U8(c)
    BY <1>5, TokenIs
  <2> QED BY <2>1
<1>7. SUFFICES ASSUME NEW rest \in Seq(Items), NEW x
               PROVE  ReadRun(Accumulated(<<U8(c)>> \o rest, x, FirstOf(px, i)), n, p)
                        = Accumulated(rest, 1, FirstOf(px, j))
  BY <1>3, <1>4, <1>6 DEF RunGiven
<1>10. PICK acc : acc = Accumulated(<<U8(c)>> \o rest, x, FirstOf(px, i))
  OBVIOUS
<1>11. acc.r = Understood(<<U8(c)>> \o rest, x) /\ acc.out = FirstOf(px, i)
  BY <1>10, AccumulatedIs
<1>12. PICK b : b = TakeOne(acc.r, "u8")
  OBVIOUS
<1>13. b = Understood(rest, c)
  BY <1>5, <1>11, <1>12, ByteTaken
<1>14. PICK q : q = [b EXCEPT !.val = 1]
  OBVIOUS
<1>15. q = Understood(rest, 1)
  BY <1>13, <1>14, ValueSet
<1>16. b.ok = TRUE /\ b.val = c /\ q.ok = TRUE /\ q.val = 1 /\ acc.r.ok = TRUE
  BY <1>11, <1>13, <1>15, UnderstoodIs
<1>17. /\ Len(FirstOf(px, i)) = i - 1
       /\ FirstOf(px, i) \o [k \in 1 .. 1 |-> p[c + 1]] = FirstOf(px, j)
  <2>1. j - i = 1
    OBVIOUS
  <2>2. Extends(px, i, j) /\ px[i] = p[c + 1]
    BY <1>3, <1>4, FirstColours
  <2> QED BY <2>1, <2>2 DEF Extends
<1>18. Len(acc.out) # n /\ ~(Len(acc.out) + q.val > n)
  <2>1. Len(acc.out) = i - 1
    BY <1>11, <1>17
  <2> QED BY <1>16, <2>1
<1>19. ~(b.val >= 128) /\ ~(c >= Len(p))
  <2>1. PICK l \in 2 .. 127 : l = Len(p)
    BY <1>4
  <2>3. c \in 0 .. l - 1
    BY <2>1
  <2>2. c < l /\ c < 128 /\ c \in Int
    BY <2>3
  <2> QED BY <1>16, <2>1, <2>2
<1>20. ReadRun(acc, n, p) = [r |-> q, out |-> acc.out \o [k \in 1 .. 1 |-> p[c + 1]]]
  BY <1>4, <1>12, <1>14, <1>16, <1>18, <1>19 DEF ReadRun
<1>21. acc.out \o [k \in 1 .. 1 |-> p[c + 1]] = FirstOf(px, j)
  BY <1>11, <1>17
<1> QED BY <1>10, <1>15, <1>20, <1>21 DEF Accumulated

\* A tile of runs of indices is read back.
LEMMA PaletteTileRead ==
  ASSUME NEW w \in Nat \ {0}, NEW h \in Nat \ {0}, NEW p \in Palettes, NEW idx \in Indices(p, w * h),
         NEW cuts \in CutSets(idx), NEW brief \in BOOLEAN
  PROVE  TileRead(<<U8(128 + Len(p))>> \o PxTokens(p) \o PaletteRuns(idx, cuts, brief), InColours(p, idx), w, h)
<1>1. PICK n \in Nat \ {0} : n = w * h
  OBVIOUS
<1>2. PICK l \in 2 .. 127 : l = Len(p)
  BY RectsAssumption
<1>3. p \in Palettes \cup TightPalettes /\ p \in [1 .. l -> Contents]
  BY <1>2, PaletteIs
<1>4. PICK ix \in Indices(p, n) : ix = idx
  BY <1>1
<1>5. ix \in [1 .. n -> Nat] /\ Len(ix) = n
  <2>1. ix \in [1 .. n -> 0 .. l - 1]
    BY <1>2 DEF Indices
  <2>2. \A k \in 1 .. n : ix[k] \in Nat
    BY <2>1
  <2>3. ix \in [1 .. n -> Nat]
    BY <2>1, <2>2
  <2> QED BY <2>3, FunctionIsSeq
<1>6. PICK px \in [1 .. n -> Int] : px = InColours(p, ix)
  <2>1. InColours(p, ix) \in [1 .. n -> Shades]
    BY <1>3, ColoursIn
  <2> QED BY <2>1, ShadesAreNumbers
<1>7. PICK parts : parts = [i \in 1 .. n |-> PalettePart(ix, cuts, brief, i)]
  OBVIOUS
<1>8. ASSUME NEW i \in 1 .. n
      PROVE  /\ parts[i] \in Seq(Items)
             /\ IF i \in cuts THEN RunGiven(parts[i], px, p, n, i, i + RunAt(cuts, i, n)) ELSE parts[i] = <<>>
  <2>1. CASE i \notin cuts
    BY <1>7, <2>1 DEF PalettePart
  <2>2. CASE i \in cuts
    <3>1. PICK j \in i + 1 .. n + 1 : EndsAt(cuts, i, n, j)
      BY RunEnds
    <3>2. j = i + RunAt(cuts, i, n) /\ RunAt(cuts, i, n) = j - i
      BY <3>1 DEF EndsAt
    <3>3. cuts \in CutSets(ix)
      BY <1>4
    <3>4. CASE brief /\ j - i = 1
      <4>1. parts[i] = <<U8(ix[i])>>
        BY <1>5, <1>7, <2>2, <3>2, <3>4 DEF PalettePart
      <4>2. j = i + 1
        BY <3>4
      <4>3. /\ <<U8(ix[i])>> \in Seq(Items)
            /\ RunGiven(<<U8(ix[i])>>, InColours(p, ix), p, n, i, j)
        BY <3>1, <3>3, <4>2, BriefRunRead
      <4> QED BY <1>6, <2>2, <3>2, <4>1, <4>3
    <3>5. CASE ~(brief /\ j - i = 1)
      <4>1. parts[i] = <<U8(128 + ix[i])>> \o RunBytes(j - i)
        BY <1>5, <1>7, <2>2, <3>2, <3>5 DEF PalettePart
      <4>2. /\ <<U8(128 + ix[i])>> \o RunBytes(j - i) \in Seq(Items)
            /\ RunGiven(<<U8(128 + ix[i])>> \o RunBytes(j - i), InColours(p, ix), p, n, i, j)
        BY <3>1, <3>3, LongRunRead
      <4> QED BY <1>6, <2>2, <3>2, <4>1, <4>2
    <3> QED BY <3>4, <3>5
  <2> QED BY <2>1, <2>2
<1>9. RunsSay(parts, px, cuts, p, n)
  <2>1. parts \in [1 .. n -> Seq(Items)]
    BY <1>7, <1>8
  <2> QED BY <1>8, <2>1, CutsAre DEF RunsSay
<1>10. RunsBack(parts, px, p, n)
  BY <1>9, RunsRead
<1>11. PICK runs \in Seq(Items) : runs = PaletteRuns(idx, cuts, brief) /\ runs = FlattenSeq(parts)
  <2>1. PaletteRuns(ix, cuts, brief) = FlattenSeq(parts)
    BY <1>5, <1>7, PaletteRunsAre
  <2> QED BY <1>4, <1>10, <2>1 DEF RunsBack
<1>12. PICK colours \in Seq(Items) : colours = PxTokens(p)
  <2>1. l \in Nat /\ <<>> \in Seq(Items)
    OBVIOUS
  <2>2. PxTokens(p) \in Seq(Items)
    BY <1>3, <2>1, PixelsTaken
  <2> QED BY <2>2
<1>13. PICK body \in Seq(Items) : body = colours \o runs
  BY ConcatProperties
<1>14. PICK k \in Nat : k = 128 + l /\ k >= 130 /\ k - 128 = l
  <2>1. 128 + l \in Nat /\ 128 + l >= 130 /\ (128 + l) - 128 = l
    OBVIOUS
  <2> QED BY <2>1
<1>15. <<U8(k)>> \o colours \o runs = <<U8(k)>> \o body
  <2>1. <<U8(k)>> \in Seq(Items)
    <3>1. PICK a \in Items : a = U8(k)
      BY NumbersIn, TokenIs
    <3> QED BY <3>1
  <2> QED BY <1>13, <2>1, Assoc
<1>16. ASSUME NEW x PROVE DecodeZRLETile(Understood(<<U8(k)>> \o body, x), w, h) = Understood(<<>>, px)
  <2>1. PICK r : r = Understood(<<U8(k)>> \o body, x)
    OBVIOUS
  <2>2. Begins(r, body, k)
    BY <2>1, TileFront
  <2>3. PICK pal : pal = TakeMany(Understood(body, k), "px", l)
    OBVIOUS
  <2>4. pal = Understood(runs, p)
    <3>1. l \in Nat
      OBVIOUS
    <3> QED BY <1>3, <1>12, <1>13, <2>3, <3>1, PixelsTaken
  <2>5. pal.val = p /\ pal.ok = TRUE
    BY <2>4, UnderstoodIs
  <2>6. DecodeZRLETile(r, w, h) = ReadRuns(pal, n, p)
    <3>1. k >= 130 /\ TakeMany(Understood(body, k), "px", k - 128).ok =>
                DecodeZRLETile(r, w, h) =
                    ReadRuns(TakeMany(Understood(body, k), "px", k - 128), w * h,
                             TakeMany(Understood(body, k), "px", k - 128).val)
      BY <2>2, TileBegins
    <3> QED BY <1>1, <1>14, <2>3, <2>5, <3>1
  <2>7. ReadRuns(Understood(runs, p), n, p) = Understood(<<>>, px)
    BY <1>10, <1>11 DEF RunsBack
  <2> QED BY <2>1, <2>4, <2>6, <2>7
<1>17. <<U8(k)>> \o body \in Seq(Items) /\ <<U8(k)>> \o body # <<>> /\ Head(<<U8(k)>> \o body).kind = "u8"
  BY TileFront
<1> QED BY <1>2, <1>4, <1>6, <1>11, <1>12, <1>14, <1>15, <1>16, <1>17 DEF TileRead

\* Whatever way a tile is written, it is read, all of it, as its pixels.
LEMMA TilesRead ==
  ASSUME NEW w \in Nat \ {0}, NEW h \in Nat \ {0}, NEW f \in TileForms(w, h)
  PROVE  TileRead(f.bytes, f.px, w, h)
<1>1. w \in Nat /\ h \in Nat
  OBVIOUS
<1>2. CASE f \in RawTiles(w * h)
  <2>1. PICK px \in [1 .. w * h -> Shades] : f = [px |-> px, bytes |-> <<U8(0)>> \o PxTokens(px)]
    BY <1>2 DEF RawTiles
  <2>2. f.px = px /\ f.bytes = <<U8(0)>> \o PxTokens(px)
    BY <2>1
  <2>3. TileRead(<<U8(0)>> \o PxTokens(px), px, w, h)
    BY <1>1, RawRead
  <2> QED BY <2>2, <2>3
<1>3. CASE f \in SolidTiles(w * h)
  <2>1. PICK c \in Shades : f = [px |-> [i \in 1 .. w * h |-> c], bytes |-> <<U8(1), Px(c)>>]
    BY <1>3 DEF SolidTiles
  <2>2. f.px = [i \in 1 .. w * h |-> c] /\ f.bytes = <<U8(1), Px(c)>>
    BY <2>1
  <2>3. TileRead(<<U8(1), Px(c)>>, [i \in 1 .. w * h |-> c], w, h)
    BY <1>1, SolidRead
  <2> QED BY <2>2, <2>3
<1>4. CASE f \in PackedTiles(w, h)
  <2>0. PICK p \in Palettes : Len(p) <= 16 /\ \E idx \in Indices(p, w * h) :
          f = [px |-> InColours(p, idx),
               bytes |-> <<U8(Len(p))>> \o PxTokens(p) \o PackRows(idx, w, h, ZrleBits(Len(p)))]
    BY <1>4 DEF PackedTiles
  <2>1. PICK idx \in Indices(p, w * h) :
          f = [px |-> InColours(p, idx),
               bytes |-> <<U8(Len(p))>> \o PxTokens(p) \o PackRows(idx, w, h, ZrleBits(Len(p)))]
    BY <2>0
  <2>2. f.px = InColours(p, idx) /\ f.bytes = <<U8(Len(p))>> \o PxTokens(p) \o PackRows(idx, w, h, ZrleBits(Len(p)))
    BY <2>1
  <2>3. TileRead(<<U8(Len(p))>> \o PxTokens(p) \o PackRows(idx, w, h, ZrleBits(Len(p))), InColours(p, idx), w, h)
    BY <1>1, <2>0, PackedTileRead
  <2> QED BY <2>2, <2>3
<1>5. CASE f \in RunTiles(w * h)
  <2>0. PICK px \in [1 .. w * h -> Shades] : \E cuts \in CutSets(px) :
          f = [px |-> px, bytes |-> <<U8(128)>> \o PlainRuns(px, cuts)]
    BY <1>5 DEF RunTiles
  <2>1. PICK cuts \in CutSets(px) : f = [px |-> px, bytes |-> <<U8(128)>> \o PlainRuns(px, cuts)]
    BY <2>0
  <2>2. f.px = px /\ f.bytes = <<U8(128)>> \o PlainRuns(px, cuts)
    BY <2>1
  <2>3. TileRead(<<U8(128)>> \o PlainRuns(px, cuts), px, w, h)
    BY PlainTileRead
  <2> QED BY <2>2, <2>3
<1>6. CASE f \in PaletteRunTiles(w * h)
  <2>0. PICK p \in Palettes : f \in IndexRunTiles(p, w * h)
    BY <1>6 DEF PaletteRunTiles
  <2>3. PICK idx \in Indices(p, w * h) :
          f \in {[px |-> InColours(p, idx),
                    bytes |-> <<U8(128 + Len(p))>> \o PxTokens(p) \o PaletteRuns(idx, cuts, brief)] :
                      cuts \in CutSets(idx), brief \in BOOLEAN}
    BY <2>0 DEF IndexRunTiles
  <2>1. PICK cuts \in CutSets(idx), brief \in BOOLEAN :
          f = [px |-> InColours(p, idx),
               bytes |-> <<U8(128 + Len(p))>> \o PxTokens(p) \o PaletteRuns(idx, cuts, brief)]
    BY <2>3
  <2>2. /\ f.px = InColours(p, idx)
        /\ f.bytes = <<U8(128 + Len(p))>> \o PxTokens(p) \o PaletteRuns(idx, cuts, brief)
    BY <2>1
  <2>4. TileRead(<<U8(128 + Len(p))>> \o PxTokens(p) \o PaletteRuns(idx, cuts, brief), InColours(p, idx), w, h)
    BY PaletteTileRead
  <2> QED BY <2>2, <2>4
<1> QED BY <1>2, <1>3, <1>4, <1>5, <1>6 DEF TileForms

-----------------------------------------------------------------------------
(* Tight: compact lengths.                                                 *)

\* Two bytes, or three, are taken one by one.
LEMMA OneThenTwo ==
  ASSUME NEW a \in Items, NEW b \in Items, NEW rest \in Seq(Items)
  PROVE  /\ <<a, b>> \in Seq(Items)
         /\ <<a, b>> \o rest = <<a>> \o (<<b>> \o rest)
<1>1. <<a>> \in Seq(Items) /\ <<b>> \in Seq(Items) /\ <<a, b>> \in Seq(Items)
  OBVIOUS
<1>2. (<<a>> \o <<b>>) \o rest = <<a>> \o (<<b>> \o rest)
  BY <1>1, Assoc
<1> QED BY <1>1, <1>2, PairIs
OneByOne(a, b, c, rest) ==
    /\ <<a, b, c>> \in Seq(Items)
    /\ <<a, b, c>> \o rest = <<a>> \o (<<b>> \o (<<c>> \o rest))

\* Three tokens are taken one by one.
LEMMA OneThenThree ==
  ASSUME NEW a \in Items, NEW b \in Items, NEW c \in Items, NEW rest \in Seq(Items)
  PROVE  OneByOne(a, b, c, rest)
<1>1. <<a, b>> \in Seq(Items) /\ <<c>> \in Seq(Items) /\ <<c>> \o rest \in Seq(Items)
  OBVIOUS
<1>2. <<a, b, c>> = <<a, b>> \o <<c>>
  <2> DEFINE s == <<a, b>> \o <<c>>
  <2>1. s \in Seq(Items) /\ Len(s) = 3 /\ s[1] = a /\ s[2] = b /\ s[3] = c
    BY <1>1
  <2> HIDE DEF s
  <2> QED BY <2>1
<1>3. (<<a, b>> \o <<c>>) \o rest = <<a, b>> \o (<<c>> \o rest)
  BY <1>1, Assoc
<1>4. <<a, b>> \o (<<c>> \o rest) = <<a>> \o (<<b>> \o (<<c>> \o rest))
  BY <1>1, OneThenTwo
<1>5. <<a, b, c>> \in Seq(Items)
  BY <1>1, <1>2
<1> QED BY <1>2, <1>3, <1>4, <1>5 DEF OneByOne

\* What the first byte of a length leads to.
LEMMA CompactIs ==
  ASSUME NEW r, NEW b0, NEW b1, NEW b2,
         TakeOne(r, "u8") = b0, TakeOne(b0, "u8") = b1, TakeOne(b1, "u8") = b2
  PROVE  ReadTightCompactLength(r) =
            IF ~b0.ok \/ b0.val < LenBits THEN b0
            ELSE IF ~b1.ok \/ b1.val < LenBits
                 THEN [b1 EXCEPT !.val = (b0.val % LenBits) + ((b1.val % LenBits) * LenBits)]
            ELSE [b2 EXCEPT !.val = (b0.val % LenBits) + ((b1.val % LenBits) * LenBits) + (@ * LenBits * LenBits)]
<1>1. ReadTightCompactLength(r) =
            IF ~TakeOne(r, "u8").ok \/ TakeOne(r, "u8").val < LenBits THEN TakeOne(r, "u8")
            ELSE IF ~TakeOne(TakeOne(r, "u8"), "u8").ok \/ TakeOne(TakeOne(r, "u8"), "u8").val < LenBits
                 THEN [TakeOne(TakeOne(r, "u8"), "u8") EXCEPT !.val =
                          (TakeOne(r, "u8").val % LenBits) + ((TakeOne(TakeOne(r, "u8"), "u8").val % LenBits) * LenBits)]
            ELSE [TakeOne(TakeOne(TakeOne(r, "u8"), "u8"), "u8") EXCEPT !.val =
                          (TakeOne(r, "u8").val % LenBits) + ((TakeOne(TakeOne(r, "u8"), "u8").val % LenBits) * LenBits)
                          + (@ * LenBits * LenBits)]
  BY Zenon DEF ReadTightCompactLength
<1> QED BY <1>1

\* How a length is split into bytes.
LEMMA LengthParts ==
  ASSUME NEW n \in ChunkSizes
  PROVE  \E q \in Nat, m \in 0 .. LenBits - 1, k \in 0 .. LenBits - 1 :
            /\ LenBits \in Nat \ {0} /\ n \in Nat
            /\ n % LenBits = m /\ (n \div LenBits) % LenBits = k /\ (n \div LenBits) \div LenBits = q
            /\ n \div LenBits \in Nat
            /\ n = (n \div LenBits) * LenBits + m /\ n \div LenBits = q * LenBits + k
            /\ n = m + k * LenBits + (q * LenBits * LenBits)
            /\ (n < LenBits * LenBits => n \div LenBits < LenBits)
            /\ (LenBits + m) % LenBits = m /\ (LenBits + k) % LenBits = k
            /\ \A v \in 0 .. LenBits - 1 : v % LenBits = v
<1>1. LenBits \in Nat \ {0}
  BY RectsAssumption
<1>2. n \in Nat
  BY RectsAssumption
<1>3. PICK L \in Nat \ {0} : L = LenBits
  BY <1>1
<1>4. PICK d \in Nat, m \in 0 .. L - 1 : d = n \div L /\ m = n % L /\ n = d * L + m
  BY <1>2, QuotientIs
<1>5. PICK q \in Nat, k \in 0 .. L - 1 : q = d \div L /\ k = d % L /\ d = q * L + k
  BY QuotientIs
<1>6. d * L = q * L * L + k * L
  BY <1>5
<1>7. n < L * L => d < L
  <2>1. m \in Nat
    OBVIOUS
  <2> QED BY <1>4, <2>1, RowBefore
<1>8. ASSUME NEW v \in 0 .. L - 1 PROVE v % L = v /\ (L + v) % L = v
  <2>1. (0 * L + v) % L = v /\ (1 * L + v) % L = v
    BY 0 \in Nat, 1 \in Nat, DivMod
  <2> QED BY <2>1
<1>9. n = m + k * L + (q * L * L)
  BY <1>4, <1>6
<1> QED BY <1>2, <1>3, <1>4, <1>5, <1>7, <1>8, <1>9

CompactBack(n) ==
    /\ CompactLength(n) \in Seq(Items)
    /\ \A rest \in Seq(Items) : \A x : ReadTightCompactLength(Understood(CompactLength(n) \o rest, x)) = Understood(rest, n)

\* A compact length of one, two or three bytes is read back
\* (readTightCompactLength).
LEMMA CompactRead == ASSUME NEW n \in ChunkSizes PROVE CompactBack(n)
<1>1. PICK q \in Nat, m \in 0 .. LenBits - 1, k \in 0 .. LenBits - 1 :
            /\ LenBits \in Nat \ {0} /\ n \in Nat
            /\ n % LenBits = m /\ (n \div LenBits) % LenBits = k /\ (n \div LenBits) \div LenBits = q
            /\ n \div LenBits \in Nat
            /\ n = (n \div LenBits) * LenBits + m /\ n \div LenBits = q * LenBits + k
            /\ n = m + k * LenBits + (q * LenBits * LenBits)
            /\ (n < LenBits * LenBits => n \div LenBits < LenBits)
            /\ (LenBits + m) % LenBits = m /\ (LenBits + k) % LenBits = k
            /\ \A v \in 0 .. LenBits - 1 : v % LenBits = v
  BY LengthParts
<1>2. Nat \subseteq Contents /\ LenBits + m \in Nat /\ LenBits + k \in Nat /\ n \div LenBits \in Nat /\ m \in Nat /\ k \in Nat
  BY <1>1, ShadesIn
<1>3. PICK a0 \in Items, a1 \in Items, b1 \in Items, b2 \in Items, c0 \in Items :
         a0 = U8(LenBits + m) /\ a1 = U8(n \div LenBits) /\ b1 = U8(LenBits + k) /\ b2 = U8(q) /\ c0 = U8(n)
  BY <1>1, <1>2, TokenIs
<1>4. CASE n < LenBits
  <2>1. CompactLength(n) = <<U8(n)>>
    BY <1>4 DEF CompactLength
  <2>2. ASSUME NEW rest \in Seq(Items), NEW x
        PROVE  ReadTightCompactLength(Understood(CompactLength(n) \o rest, x)) = Understood(rest, n)
    <3>1. PICK b : b = Understood(rest, n)
      OBVIOUS
    <3>2. TakeOne(Understood(<<U8(n)>> \o rest, x), "u8") = b
      BY <1>1, <1>2, <3>1, ByteTaken
    <3>3. b.ok = TRUE /\ b.val = n
      BY <3>1, UnderstoodIs
    <3> QED BY <1>4, <2>1, <3>1, <3>2, <3>3, CompactIs
  <2>3. <<c0>> \in Seq(Items)
    OBVIOUS
  <2> QED BY <1>3, <2>1, <2>2, <2>3 DEF CompactBack
<1>5. CASE n >= LenBits /\ n < LenBits * LenBits
  <2>1. CompactLength(n) = <<a0, a1>>
    BY <1>1, <1>3, <1>5 DEF CompactLength
  <2>2. ASSUME NEW rest \in Seq(Items), NEW x
        PROVE  ReadTightCompactLength(Understood(CompactLength(n) \o rest, x)) = Understood(rest, n)
    <3>0. <<a0, a1>> \o rest = <<a0>> \o (<<a1>> \o rest) /\ <<a1>> \o rest \in Seq(Items)
      BY OneThenTwo, Ahead
    <3>1. PICK b0, d1 : b0 = Understood(<<a1>> \o rest, LenBits + m) /\ d1 = Understood(rest, n \div LenBits)
      OBVIOUS
    <3>2. TakeOne(Understood(<<a0>> \o (<<a1>> \o rest), x), "u8") = b0
      BY <1>2, <1>3, <3>0, <3>1, ByteTaken
    <3>3. TakeOne(b0, "u8") = d1
      BY <1>2, <1>3, <3>1, ByteTaken
    <3>4. b0.ok = TRUE /\ b0.val = LenBits + m /\ d1.ok = TRUE /\ d1.val = n \div LenBits
      BY <3>1, UnderstoodIs
    <3>5. ~(b0.val < LenBits) /\ d1.val < LenBits
      BY <1>1, <1>5, <3>4
    <3>6. ReadTightCompactLength(Understood(<<a0>> \o (<<a1>> \o rest), x)) =
             [d1 EXCEPT !.val = (b0.val % LenBits) + ((d1.val % LenBits) * LenBits)]
      BY <3>2, <3>3, <3>4, <3>5, CompactIs
    <3>7. (b0.val % LenBits) + ((d1.val % LenBits) * LenBits) = n
      <4>1. b0.val % LenBits = m
        BY <1>1, <3>4
      <4>2. d1.val % LenBits = n \div LenBits
        BY <1>1, <3>4, <3>5
      <4>3. m + ((n \div LenBits) * LenBits) = n
        <5>1. PICK d \in Nat : d = n \div LenBits /\ n = d * LenBits + m
          BY <1>1
        <5> QED BY <1>1, <5>1
      <4> QED BY <4>1, <4>2, <4>3
    <3>8. [d1 EXCEPT !.val = n] = Understood(rest, n)
      BY <3>1, ValueSet
    <3> QED BY <2>1, <3>0, <3>6, <3>7, <3>8
  <2>3. <<a0, a1>> \in Seq(Items)
    OBVIOUS
  <2> QED BY <2>1, <2>2, <2>3 DEF CompactBack
<1>6. CASE n >= LenBits /\ ~(n < LenBits * LenBits)
  <2>1. CompactLength(n) = <<a0, b1, b2>>
    <3>1. ~(n < LenBits)
      BY <1>1, <1>6
    <3> QED BY <1>1, <1>3, <1>6, <3>1 DEF CompactLength
  <2>2. ASSUME NEW rest \in Seq(Items), NEW x
        PROVE  ReadTightCompactLength(Understood(CompactLength(n) \o rest, x)) = Understood(rest, n)
    <3>0. /\ <<a0, b1, b2>> \o rest = <<a0>> \o (<<b1>> \o (<<b2>> \o rest))
          /\ <<b2>> \o rest \in Seq(Items) /\ <<b1>> \o (<<b2>> \o rest) \in Seq(Items)
      <4>1. <<b2>> \o rest \in Seq(Items)
        BY Ahead
      <4>2. <<b1>> \o (<<b2>> \o rest) \in Seq(Items)
        BY <4>1, Ahead
      <4>3. <<a0, b1, b2>> \o rest = <<a0>> \o (<<b1>> \o (<<b2>> \o rest))
        <5>1. OneByOne(a0, b1, b2, rest)
          BY OneThenThree
        <5> QED BY <5>1 DEF OneByOne
      <4> QED BY <4>1, <4>2, <4>3
    <3>1. PICK d0, d1, d2 : /\ d0 = Understood(<<b1>> \o (<<b2>> \o rest), LenBits + m)
                            /\ d1 = Understood(<<b2>> \o rest, LenBits + k) /\ d2 = Understood(rest, q)
      OBVIOUS
    <3>2. TakeOne(Understood(<<a0>> \o (<<b1>> \o (<<b2>> \o rest)), x), "u8") = d0
      BY <1>2, <1>3, <3>0, <3>1, ByteTaken
    <3>3. TakeOne(d0, "u8") = d1
      BY <1>2, <1>3, <3>0, <3>1, ByteTaken
    <3>9. TakeOne(d1, "u8") = d2
      BY <1>2, <1>3, <3>0, <3>1, ByteTaken
    <3>4. d0.ok = TRUE /\ d0.val = LenBits + m /\ d1.ok = TRUE /\ d1.val = LenBits + k /\ d2.val = q
      BY <3>1, UnderstoodIs
    <3>5. ~(d0.val < LenBits) /\ ~(d1.val < LenBits)
      BY <1>1, <1>2, <3>4
    <3>6. ReadTightCompactLength(Understood(<<a0>> \o (<<b1>> \o (<<b2>> \o rest)), x)) =
             [d2 EXCEPT !.val = (d0.val % LenBits) + ((d1.val % LenBits) * LenBits) + (d2.val * LenBits * LenBits)]
      BY <3>2, <3>3, <3>4, <3>5, <3>9, CompactIs
    <3>7. (d0.val % LenBits) + ((d1.val % LenBits) * LenBits) + (d2.val * LenBits * LenBits) = n
      BY <1>1, <3>4
    <3>8. [d2 EXCEPT !.val = n] = Understood(rest, n)
      BY <3>1, ValueSet
    <3> QED BY <2>1, <3>0, <3>6, <3>7, <3>8
  <2>3. <<a0, b1, b2>> \in Seq(Items)
    OBVIOUS
  <2> QED BY <2>1, <2>2, <2>3 DEF CompactBack
<1> QED BY <1>1, <1>4, <1>5, <1>6

-----------------------------------------------------------------------------
(* Tight: the gradient filter.                                             *)

\* The pixel at a place, none above or to the left; what is predicted there;
\* and how far off the prediction is.
PixelAt(px, w, x, y) == IF x < 0 \/ y < 0 THEN 0 ELSE px[y * w + x + 1]
Predicted(px, w, x, y) == Clamp(PixelAt(px, w, x - 1, y) + PixelAt(px, w, x, y - 1) - PixelAt(px, w, x - 1, y - 1))
Residuals(px, w) ==
    [i \in DOMAIN px |-> (px[i] - Predicted(px, w, CellAt(w, i)[1], CellAt(w, i)[2])) % (MaxColour + 1)]

\* What the gradient filter sends is what its predictions leave.
LEMMA GradientIs == \A px, w : GradientOf(px, w) = PxTokens(Residuals(px, w))
<1> TAKE px, w
<1>1. GradientOf(px, w) = [i \in DOMAIN px |->
          Px((px[i] - Predicted(px, w, CellAt(w, i)[1], CellAt(w, i)[2])) % (MaxColour + 1))]
  BY DEF GradientOf, Predicted, PixelAt
<1> QED BY <1>1 DEF PxTokens, Map, Residuals

\* What the client expects of the pixel i, given those before it.
Expected(g, w, i) ==
    LET up == IF i <= w THEN 0 ELSE g[i - w]
        upLeft == IF i <= w THEN 0 ELSE g[i - w - 1]
    IN  IF (i - 1) % w = 0 THEN up ELSE Clamp(up + g[i - 1] - upLeft)
Undone(g, in, w) ==
    g = [i \in 0 .. Len(in) |-> IF i = 0 THEN 0 ELSE (in[i] + Expected(g, w, i)) % (MaxColour + 1)]

\* The client's loop is one that undoes the filter.
LEMMA UndoneIs ==
  ASSUME NEW in, NEW w, NEW f, Undone(f, in, w)
  PROVE  \E g : Undone(g, in, w) /\ DecodeTightGradient(in, w) = [i \in 1 .. Len(in) |-> g[i]]
<1> DEFINE g == CHOOSE e : Undone(e, in, w)
<1>1. Undone(g, in, w)
  BY Zenon
<1>2. DecodeTightGradient(in, w) = [i \in 1 .. Len(in) |-> g[i]]
  BY DEF DecodeTightGradient, Undone, Expected
<1> HIDE DEF g
<1> QED BY <1>1, <1>2

\* A prediction is a colour.
LEMMA WithinShades ==
  ASSUME NEW v \in Int
  PROVE  Clamp(v) \in Shades /\ (v \in Shades => Clamp(v) = v)
<1>1. MaxColour \in Nat
  BY RectsAssumption
<1> QED BY <1>1 DEF Clamp, Shades

\* The difference of two colours, made positive, and back.
LEMMA Wraps ==
  ASSUME NEW a \in Shades, NEW b \in Shades
  PROVE  /\ (a - b) % (MaxColour + 1) \in Shades
         /\ (((a - b) % (MaxColour + 1)) + b) % (MaxColour + 1) = a
<1>1. PICK M \in Nat \ {0} : M = MaxColour + 1 /\ Shades = 0 .. M - 1
  BY RectsAssumption DEF Shades
<1>2. a \in 0 .. M - 1 /\ b \in 0 .. M - 1
  BY <1>1
<1>3. CASE a >= b
  <2>1. a - b \in 0 .. M - 1
    BY <1>2, <1>3
  <2>2. (0 * M + (a - b)) % M = a - b /\ (0 * M + a) % M = a
    BY <1>2, <2>1, 0 \in Nat, DivMod
  <2>3. (a - b) % M = a - b /\ a % M = a
    BY <1>2, <2>1, <2>2
  <2> QED BY <1>1, <1>2, <2>1, <2>3
<1>4. CASE a < b
  <2>1. a - b + M \in 0 .. M - 1 /\ a - b \in Int
    BY <1>2, <1>4
  <2>2. (a - b) % M = a - b + M
    BY <1>2, <1>4
  <2>3. (1 * M + a) % M = a
    BY <1>2, 1 \in Nat, DivMod
  <2>4. (a - b + M) + b = 1 * M + a
    BY <1>2
  <2> QED BY <1>1, <2>1, <2>2, <2>3, <2>4
<1> QED BY <1>2, <1>3, <1>4

\* Once the pixels before it are right, the client expects what was predicted.
Rightly(g, px, i) == \A j \in 1 .. i - 1 : g[j] = px[j]

\* If the pixels before one are right, the client predicts what the server did.
LEMMA ExpectedIs ==
  ASSUME NEW w \in Nat \ {0}, NEW h \in Nat, NEW px \in [1 .. w * h -> Shades], NEW i \in 1 .. w * h,
         NEW g, Rightly(g, px, i)
  PROVE  /\ Expected(g, w, i) = Predicted(px, w, CellAt(w, i)[1], CellAt(w, i)[2])
         /\ Expected(g, w, i) \in Shades
<1>1. PICK x \in 0 .. w - 1, y \in 0 .. h - 1 : x = CellAt(w, i)[1] /\ y = CellAt(w, i)[2] /\ y * w + x + 1 = i
  BY CellIs
<1>2. (i - 1) % w = x
  BY <1>1 DEF CellAt
<1>3. Shades \subseteq Int /\ 0 \in Shades
  BY RectsAssumption DEF Shades
<1>4. \A j \in 1 .. i - 1 : g[j] = px[j] /\ px[j] \in Shades
  BY DEF Rightly
<1>5. i <= w <=> y = 0
  <2>1. CASE y = 0
    BY <1>1, <2>1
  <2>2. CASE y # 0
    <3>1. PICK a \in Nat : a = y - 1
      BY <2>2
    <3>2. y * w = a * w + w /\ a * w \in Nat
      BY <3>1
    <3> QED BY <1>1, <2>2, <3>2
  <2> QED BY <2>1, <2>2
<1>6. (y - 1) * w = y * w - w /\ y * w \in Nat
  OBVIOUS
<1>7. y # 0 => i - w \in 1 .. i - 1 /\ (x # 0 => i - w - 1 \in 1 .. i - 1)
  <2>1. SUFFICES ASSUME y # 0 PROVE i - w \in 1 .. i - 1 /\ (x # 0 => i - w - 1 \in 1 .. i - 1)
    OBVIOUS
  <2>2. PICK a \in Nat : a = y - 1
    BY <2>1
  <2>3. y * w = a * w + w /\ a * w \in Nat
    BY <2>2
  <2>4. PICK m \in Nat : m = a * w /\ m + w + x + 1 = i
    BY <1>1, <2>3
  <2> QED BY <2>4
<1>8. x # 0 => i - 1 \in 1 .. i - 1
  <2>1. PICK m \in Nat : m = y * w /\ m + x + 1 = i
    BY <1>1, <1>6
  <2> QED BY <2>1
<1> DEFINE up == IF y = 0 THEN 0 ELSE px[i - w]
           left == IF x = 0 THEN 0 ELSE px[i - 1]
           upLeft == IF x = 0 \/ y = 0 THEN 0 ELSE px[i - w - 1]
<1>9. up \in Shades /\ left \in Shades /\ upLeft \in Shades
  BY <1>3, <1>4, <1>7, <1>8
<1>10. Expected(g, w, i) = IF x = 0 THEN up ELSE Clamp(up + left - upLeft)
  <2>1. CASE x = 0
    BY <1>2, <1>4, <1>5, <1>7, <2>1 DEF Expected
  <2>2. CASE x # 0
    <3>1. g[i - 1] = left
      BY <1>4, <1>8, <2>2
    <3>2. CASE y = 0
      BY <1>2, <1>5, <2>2, <3>1, <3>2 DEF Expected
    <3>3. CASE y # 0
      <4>1. g[i - w] = up /\ g[i - w - 1] = upLeft
        BY <1>4, <1>7, <2>2, <3>3
      <4> HIDE DEF up, left, upLeft
      <4> QED BY <1>2, <1>5, <2>2, <3>1, <3>3, <4>1 DEF Expected
    <3> QED BY <3>2, <3>3
  <2> QED BY <2>1, <2>2
<1>11. PixelAt(px, w, x, y - 1) = up /\ PixelAt(px, w, x - 1, y) = left /\ PixelAt(px, w, x - 1, y - 1) = upLeft
  <2>1. (y - 1) * w + x + 1 = i - w /\ y * w + (x - 1) + 1 = i - 1 /\ (y - 1) * w + (x - 1) + 1 = i - w - 1
    <3>1. PICK m \in Nat, k \in Int : m = y * w /\ k = (y - 1) * w /\ k = m - w /\ m + x + 1 = i
      BY <1>1, <1>6
    <3>2. k + x + 1 = i - w /\ m + (x - 1) + 1 = i - 1 /\ k + (x - 1) + 1 = i - w - 1
      BY <3>1
    <3> QED BY <3>1, <3>2
  <2>2. (x - 1 < 0 <=> x = 0) /\ (y - 1 < 0 <=> y = 0) /\ ~(x < 0) /\ ~(y < 0)
    OBVIOUS
  <2>3. PixelAt(px, w, x, y - 1) = up
    BY <2>1, <2>2 DEF PixelAt
  <2>4. PixelAt(px, w, x - 1, y) = left
    BY <2>1, <2>2 DEF PixelAt
  <2>5. PixelAt(px, w, x - 1, y - 1) = upLeft
    BY <2>1, <2>2 DEF PixelAt
  <2> QED BY <2>3, <2>4, <2>5
<1>12. Predicted(px, w, x, y) = Clamp(left + up - upLeft)
  BY <1>11 DEF Predicted
<1>13. x = 0 => left = 0 /\ upLeft = 0
  OBVIOUS
<1> HIDE DEF up, left, upLeft
<1>14. left + up - upLeft \in Int /\ left + up - upLeft = up + left - upLeft /\ up \in Int
  BY <1>3, <1>9
<1>15. Clamp(left + up - upLeft) \in Shades /\ (x = 0 => Clamp(left + up - upLeft) = up)
  <2>1. Clamp(left + up - upLeft) \in Shades
    BY <1>14, WithinShades
  <2>2. x = 0 => left + up - upLeft = up
    BY <1>13, <1>14
  <2> QED BY <1>9, <1>14, <2>1, <2>2, WithinShades
<1> QED BY <1>1, <1>10, <1>12, <1>14, <1>15

\* One step of undoing gives one pixel more.
LEMMA OneUndone ==
  ASSUME NEW w \in Nat \ {0}, NEW h \in Nat, NEW px \in [1 .. w * h -> Shades], NEW i \in 1 .. w * h,
         NEW g, Rightly(g, px, i)
  PROVE  /\ Residuals(px, w)[i] \in Shades
         /\ (Residuals(px, w)[i] + Expected(g, w, i)) % (MaxColour + 1) = px[i]
<1>1. PICK b \in Shades : b = Expected(g, w, i) /\ b = Predicted(px, w, CellAt(w, i)[1], CellAt(w, i)[2])
  BY ExpectedIs
<1>2. PICK a \in Shades : a = px[i]
  OBVIOUS
<1>3. Residuals(px, w)[i] = (a - b) % (MaxColour + 1)
  BY <1>1, <1>2 DEF Residuals
<1> QED BY <1>1, <1>2, <1>3, Wraps

\* The gradient filter is undone.
LEMMA GradientRead ==
  ASSUME NEW w \in Nat \ {0}, NEW h \in Nat, NEW px \in [1 .. w * h -> Shades]
  PROVE  Residuals(px, w) \in [1 .. w * h -> Shades] /\ DecodeTightGradient(Residuals(px, w), w) = px
<1>1. PICK n \in Nat : n = w * h
  OBVIOUS
<1>2. PICK in : in = Residuals(px, w)
  OBVIOUS
<1> DEFINE f == [i \in 0 .. n |-> IF i = 0 THEN 0 ELSE px[i]]
<1>3. \A i \in 1 .. n : Rightly(f, px, i)
  BY DEF Rightly
<1>4. \A i \in 1 .. n : in[i] \in Shades /\ (in[i] + Expected(f, w, i)) % (MaxColour + 1) = px[i]
  <2>1. TAKE i \in 1 .. n
  <2>2. PICK g : g = f /\ Rightly(g, px, i)
    BY <1>3
  <2>3. i \in 1 .. w * h
    BY <1>1
  <2> HIDE DEF f
  <2>4. in[i] \in Shades /\ (in[i] + Expected(g, w, i)) % (MaxColour + 1) = px[i]
    BY <1>2, <2>2, <2>3, OneUndone
  <2> QED BY <2>2, <2>4
<1>5. in \in [1 .. n -> Shades] /\ Len(in) = n
  <2>1. in = [i \in 1 .. n |-> in[i]]
    BY <1>1, <1>2 DEF Residuals
  <2>2. in \in [1 .. n -> Shades]
    BY <1>4, <2>1
  <2> QED BY <2>2
<1>6. Undone(f, in, w)
  <2>1. \A i \in 0 .. n : f[i] = IF i = 0 THEN 0 ELSE (in[i] + Expected(f, w, i)) % (MaxColour + 1)
    <3>1. TAKE i \in 0 .. n
    <3>2. f[i] = IF i = 0 THEN 0 ELSE px[i]
      OBVIOUS
    <3> HIDE DEF f
    <3>3. i # 0 => i \in 1 .. n
      OBVIOUS
    <3> QED BY <1>4, <3>2, <3>3
  <2>2. f = [i \in 0 .. n |-> f[i]]
    OBVIOUS
  <2> HIDE DEF f
  <2>3. f = [i \in 0 .. n |-> IF i = 0 THEN 0 ELSE (in[i] + Expected(f, w, i)) % (MaxColour + 1)]
    BY <2>1, <2>2
  <2> QED BY <1>5, <2>3 DEF Undone
<1> HIDE DEF f
<1>7. PICK g : Undone(g, in, w) /\ DecodeTightGradient(in, w) = [i \in 1 .. Len(in) |-> g[i]]
  BY <1>6, UndoneIs
<1>8. \A i \in 1 .. n : g[i] = (in[i] + Expected(g, w, i)) % (MaxColour + 1)
  BY <1>5, <1>7 DEF Undone
<1> DEFINE D == {m \in Nat : m <= n => \A i \in 1 .. m : g[i] = px[i]}
<1>9. 0 \in D
  OBVIOUS
<1>10. ASSUME NEW m \in Nat, m \in D PROVE m + 1 \in D
  <2>1. SUFFICES ASSUME m + 1 <= n PROVE \A i \in 1 .. m + 1 : g[i] = px[i]
    OBVIOUS
  <2>2. \A i \in 1 .. m : g[i] = px[i]
    BY <1>10, <2>1
  <2>3. PICK i \in 1 .. w * h : i = m + 1
    BY <1>1, <2>1
  <2>4. Rightly(g, px, i)
    BY <2>2, <2>3 DEF Rightly
  <2>5. (in[i] + Expected(g, w, i)) % (MaxColour + 1) = px[i]
    BY <1>2, <2>4, OneUndone
  <2>6. g[i] = px[i]
    BY <1>1, <1>8, <2>5
  <2> QED BY <2>2, <2>3, <2>6
<1> HIDE DEF D
<1>11. Nat \subseteq D
  BY <1>9, <1>10, SetInduction
<1>12. \A i \in 1 .. n : g[i] = px[i]
  <2>1. n \in D
    BY <1>11
  <2> QED BY <2>1 DEF D
<1>13. DecodeTightGradient(in, w) = px
  BY <1>1, <1>5, <1>7, <1>12
<1> QED BY <1>1, <1>2, <1>5, <1>13

-----------------------------------------------------------------------------
(* Tight: filters and palettes.                                            *)

\* The tokens that may be compressed.
Deflatable == [kind : {"u8", "px"}, val : Int]

\* Such tokens may be sent as they are.
LEMMA DeflatableIn == Deflatable \subseteq Items /\ \A d \in Seq(Deflatable) : d \in Seq(Items)
<1>1. Int \subseteq Contents
  BY NumbersIn
<1>2. Deflatable \subseteq Items
  BY <1>1 DEF Deflatable, Items
<1> QED BY <1>2

\* Numbers as bytes and as pixels are such tokens.
LEMMA DeflatableIs == \A v \in Int : U8(v) \in Deflatable /\ Px(v) \in Deflatable
  BY DEF Deflatable, U8, Px

\* A palette's length, and one less.
LEMMA TightPaletteLength ==
  ASSUME NEW p \in TightPalettes
  PROVE  Len(p) \in 1 .. 256
  BY RectsAssumption

\* The bytes of a filter are read: which it is, and its palette.
FilterRead(front, k, palette) ==
    /\ front \in Seq(Items)
    /\ \A rest \in Seq(Items) : \A x : \A s \in {0, 1} :
          \E filter : /\ filter = TightFilter(Understood(front \o rest, x), s + (IF front = <<>> THEN 0 ELSE 4))
                      /\ filter.val = k
                      /\ TightPalette(filter) = Understood(rest, palette)

\* A filter without a palette.
LEMMA UnpalettedRead ==
  ASSUME NEW rest, NEW k \in {0, 2}
  PROVE  TightPalette(Understood(rest, k)) = Understood(rest, <<>>)
<1>1. PICK filter : filter = Understood(rest, k)
  OBVIOUS
<1>2. filter.val # 1
  BY <1>1, UnderstoodIs
<1>3. TightPalette(filter) = [filter EXCEPT !.val = <<>>]
  BY <1>2 DEF TightPalette
<1>4. [filter EXCEPT !.val = <<>>] = Understood(rest, <<>>)
  BY <1>1, ValueSet
<1> QED BY <1>1, <1>3, <1>4

\* A rectangle without a filter byte.
LEMMA NoFilterRead == FilterRead(<<>>, 0, <<>>)
<1>1. ASSUME NEW rest \in Seq(Items), NEW x, NEW s \in {0, 1}
      PROVE  TightFilter(Understood(<<>> \o rest, x), s + 0) = Understood(rest, 0)
  <2>1. <<>> \o rest = rest /\ (s + 0) \div 4 = 0
    OBVIOUS
  <2>2. PICK r : r = Understood(rest, x)
    OBVIOUS
  <2>3. TightFilter(r, s + 0) = [r EXCEPT !.val = 0]
    BY <2>1 DEF TightFilter
  <2>4. [r EXCEPT !.val = 0] = Understood(rest, 0)
    BY <2>2, ValueSet
  <2> QED BY <2>1, <2>2, <2>3, <2>4
<1>2. ASSUME NEW rest \in Seq(Items), NEW x, NEW s \in {0, 1}
      PROVE  \E filter : /\ filter = TightFilter(Understood(<<>> \o rest, x), s + (IF <<>> = <<>> THEN 0 ELSE 4))
                         /\ filter.val = 0
                         /\ TightPalette(filter) = Understood(rest, <<>>)
  <2>1. PICK filter : filter = Understood(rest, 0)
    OBVIOUS
  <2>2. filter = TightFilter(Understood(<<>> \o rest, x), s + 0) /\ filter.val = 0
    BY <1>1, <2>1, UnderstoodIs
  <2>3. TightPalette(filter) = Understood(rest, <<>>)
    BY <2>1, UnpalettedRead
  <2> QED BY <2>2, <2>3
<1>3. <<>> \in Seq(Items)
  OBVIOUS
<1> QED BY <1>2, <1>3 DEF FilterRead

\* One whose filter byte says copy or gradient.
LEMMA PlainFilterRead == ASSUME NEW k \in {0, 2} PROVE FilterRead(<<U8(k)>>, k, <<>>)
<1>0. k \in Contents /\ k \in 0 .. 2
  BY NumbersIn
<1>1. <<U8(k)>> # <<>> /\ <<U8(k)>> \in Seq(Items)
  <2>1. U8(k) \in Items
    BY <1>0, TokenIs
  <2> QED BY <2>1
<1>2. ASSUME NEW rest \in Seq(Items), NEW x, NEW s \in {0, 1}
      PROVE  \E filter : /\ filter = TightFilter(Understood(<<U8(k)>> \o rest, x), s + (IF <<U8(k)>> = <<>> THEN 0 ELSE 4))
                         /\ filter.val = k
                         /\ TightPalette(filter) = Understood(rest, <<>>)
  <2>1. PICK filter : filter = Understood(rest, k)
    OBVIOUS
  <2>2. filter.val = k /\ TightPalette(filter) = Understood(rest, <<>>)
    BY <2>1, UnderstoodIs, UnpalettedRead
  <2>3. TakeOne(Understood(<<U8(k)>> \o rest, x), "u8") = filter
    BY <1>0, <2>1, ByteTaken
  <2>4. (s + 4) \div 4 # 0
    OBVIOUS
  <2>5. TightFilter(Understood(<<U8(k)>> \o rest, x), s + 4) = filter
    BY <1>0, <2>2, <2>3, <2>4 DEF TightFilter
  <2> QED BY <1>1, <2>2, <2>5
<1> QED BY <1>1, <1>2 DEF FilterRead

\* One whose filter is a palette, which is read.
LEMMA PaletteFilterRead ==
  ASSUME NEW p \in TightPalettes
  PROVE  FilterRead(<<U8(1), U8(Len(p) - 1)>> \o PxTokens(p), 1, p)
<1>1. PICK l \in 1 .. 256 : l = Len(p)
  BY TightPaletteLength
<1>2. p \in [1 .. l -> Contents] /\ l \in Nat /\ 1 \in Contents /\ l - 1 \in Contents
  <2>1. p \in [1 .. l -> Contents] /\ l \in Nat
    BY <1>1, PaletteIs
  <2> QED BY <2>1, NumbersIn
<1>3. PICK a \in Items, b \in Items : a = U8(1) /\ b = U8(Len(p) - 1)
  BY <1>1, <1>2, TokenIs
<1>4. PICK c \in Seq(Items) : c = PxTokens(p)
  BY <1>2, PixelsTaken, <<>> \in Seq(Items)
<1>5. PICK front \in Seq(Items) : front = <<a, b>> \o c /\ front # <<>>
  <2>1. <<a, b>> \in Seq(Items) /\ Len(<<a, b>>) = 2
    OBVIOUS
  <2>2. <<a, b>> \o c \in Seq(Items)
    BY <2>1, ConcatProperties
  <2>3. <<a, b>> \o c # <<>>
    <3>1. <<a, b>> \o c = <<a>> \o (<<b>> \o c)
      BY OneThenTwo
    <3>2. <<b>> \o c \in Seq(Items)
      BY Ahead
    <3>3. <<a>> \o (<<b>> \o c) # <<>>
      BY <3>2, Ahead
    <3> QED BY <3>1, <3>3
  <2> QED BY <2>2, <2>3
<1>6. ASSUME NEW rest \in Seq(Items), NEW x, NEW s \in {0, 1}
      PROVE  \E filter : /\ filter = TightFilter(Understood(front \o rest, x), s + (IF front = <<>> THEN 0 ELSE 4))
                         /\ filter.val = 1
                         /\ TightPalette(filter) = Understood(rest, p)
  <2>1. PICK cr \in Seq(Items) : cr = c \o rest
    <3>1. c \o rest \in Seq(Items)
      BY ConcatProperties
    <3> QED BY <3>1
  <2>2. front \o rest = <<a>> \o (<<b>> \o cr)
    <3>1. <<a, b>> \in Seq(Items) /\ (<<a, b>> \o c) \o rest = <<a, b>> \o (c \o rest)
      BY Assoc
    <3>2. <<a, b>> \o cr = <<a>> \o (<<b>> \o cr)
      BY OneThenTwo
    <3> QED BY <1>5, <2>1, <3>1, <3>2
  <2>3. <<b>> \o cr \in Seq(Items)
    BY Ahead
  <2>4. PICK filter, count : filter = Understood(<<b>> \o cr, 1) /\ count = Understood(cr, l - 1)
    OBVIOUS
  <2>5. filter.val = 1 /\ count.val + 1 = l
    BY <2>4, UnderstoodIs
  <2>6. TakeOne(Understood(<<a>> \o (<<b>> \o cr), x), "u8") = filter
    BY <1>2, <1>3, <2>3, <2>4, ByteTaken
  <2>7. TakeOne(filter, "u8") = count
    BY <1>1, <1>2, <1>3, <2>4, ByteTaken
  <2>8. TakeMany(count, "px", l) = Understood(rest, p)
    BY <1>2, <1>4, <2>1, <2>4, PixelsTaken
  <2>9. TightPalette(filter) = Understood(rest, p)
    BY <2>5, <2>7, <2>8 DEF TightPalette
  <2>10. (s + 4) \div 4 # 0
    OBVIOUS
  <2>11. TightFilter(Understood(front \o rest, x), s + 4) = filter
    <3>1. TakeOne(Understood(front \o rest, x), "u8") = filter
      BY <2>2, <2>6
    <3>2. filter.val \in 0 .. 2
      BY <2>5
    <3> QED BY <2>10, <3>1, <3>2 DEF TightFilter
  <2> QED BY <1>5, <2>5, <2>9, <2>11
<1>7. FilterRead(front, 1, p)
  BY <1>6 DEF FilterRead
<1> QED BY <1>3, <1>4, <1>5, <1>7

-----------------------------------------------------------------------------
(* Tight: the pixels that filtered bytes stand for.                        *)

\* The filtered bytes stand for the pixels.
ImageRead(data, px, k, palette, w, h) ==
    \A x : TightImage(Understood(data, x), k, palette, w, h) = Understood(<<>>, px)

\* A rectangle's form with its filter and its palette.
Formed(f, k, palette, w, h) ==
    /\ FilterRead(f.filter, k, palette) /\ f.data \in Seq(Deflatable)
    /\ f.size = h * TightRowSize(Len(palette), w)
    /\ ImageRead(f.data, f.px, k, palette, w, h)

\* Packed rows may be deflated.
LEMMA RowsDeflatable ==
  ASSUME NEW bits \in {1, 2, 4}, NEW w \in Nat \ {0}, NEW h \in Nat, NEW idx \in [1 .. w * h -> 0 .. 2 ^ bits - 1]
  PROVE  PackRows(idx, w, h, bits) \in Seq(Deflatable)
<1>1. PICK rb \in Nat \ {0} : rb = RowBytes(w, bits)
  BY RowBytesIs
<1>2. PICK n \in Nat : n = rb * h
  OBVIOUS
<1>3. ASSUME NEW k \in 1 .. n PROVE U8(Number(2 ^ bits, DigitsOf(idx, w, bits, k))) \in Deflatable
  <2>1. PICK d \in [1 .. Each(bits) -> 0 .. 2 ^ bits - 1] : d = DigitsOf(idx, w, bits, k)
    BY <1>1, <1>2, DigitsAre
  <2>2. 0 \in 0 .. Each(bits) - 1
    <3>1. PICK e \in Nat \ {0} : e = Each(bits)
      BY 0 \in Nat, ByteOf
    <3> QED BY <3>1
  <2>3. Number(2 ^ bits, d) \in Int
    BY <2>2, DigitFound
  <2> QED BY <2>1, <2>3, DeflatableIs
<1>4. PackRows(idx, w, h, bits) = [k \in 1 .. n |-> U8(Number(2 ^ bits, DigitsOf(idx, w, bits, k)))]
  BY <1>1, <1>2, PackRowsIs
<1>5. [k \in 1 .. n |-> U8(Number(2 ^ bits, DigitsOf(idx, w, bits, k)))] \in [1 .. n -> Deflatable]
  BY <1>3
<1>6. PICK s \in [1 .. n -> Deflatable] : s = PackRows(idx, w, h, bits)
  BY <1>4, <1>5
<1>7. s \in Seq(Deflatable)
  OBVIOUS
<1> QED BY <1>6, <1>7

\* Pixels are deflatable, and taken when nothing follows.
LEMMA LastPixels ==
  ASSUME NEW n \in Nat, NEW px \in [1 .. n -> Int]
  PROVE  /\ PxTokens(px) \in Seq(Deflatable)
         /\ \A x : TakeMany(Understood(PxTokens(px), x), "px", n) = Understood(<<>>, px)
<1>1. px \in [1 .. n -> Contents]
  BY NumbersIn
<1>2. PICK s : s = PxTokens(px)
  OBVIOUS
<1>3. <<>> \in Seq(Items) /\ s \in Seq(Items) /\ s \o <<>> = s
  <2>1. <<>> \in Seq(Items)
    OBVIOUS
  <2>2. s \in Seq(Items)
    BY <1>1, <1>2, <2>1, PixelsTaken
  <2> QED BY <2>1, <2>2, NothingAfter
<1>4. \A x : TakeMany(Understood(s \o <<>>, x), "px", n) = Understood(<<>>, px)
  BY <1>1, <1>2, <1>3, PixelsTaken
<1>5. s \in [1 .. n -> Deflatable]
  <2>1. s = [i \in 1 .. n |-> Px(px[i])]
    BY <1>2 DEF PxTokens, Map
  <2>2. \A i \in 1 .. n : Px(px[i]) \in Deflatable
    BY DeflatableIs
  <2> QED BY <2>1, <2>2
<1>6. s \in Seq(Deflatable)
  BY <1>5
<1> QED BY <1>2, <1>3, <1>4, <1>6

\* So are bytes.
LEMMA LastBytes ==
  ASSUME NEW n \in Nat, NEW vals \in [1 .. n -> Int]
  PROVE  /\ Map(U8, vals) \in Seq(Deflatable) /\ Len(Map(U8, vals)) = n
         /\ \A x : TakeMany(Understood(Map(U8, vals), x), "u8", n) = Understood(<<>>, vals)
<1>1. vals \in [1 .. n -> Contents]
  BY NumbersIn
<1>2. PICK s : s = Map(U8, vals)
  OBVIOUS
<1>3. s = Spell(vals)
  BY <1>2 DEF Spell, Map
<1>4. <<>> \in Seq(Items) /\ s \in Seq(Items) /\ s \o <<>> = s /\ Len(s) = n
  <2>1. <<>> \in Seq(Items)
    OBVIOUS
  <2>2. s \in Seq(Items) /\ Len(s) = n
    BY <1>1, <1>3, <2>1, BytesTaken
  <2> QED BY <2>1, <2>2, NothingAfter
<1>5. \A x : TakeMany(Understood(s \o <<>>, x), "u8", n) = Understood(<<>>, vals)
  BY <1>1, <1>3, <1>4, BytesTaken
<1>6. s \in [1 .. n -> Deflatable]
  <2>1. s = [i \in 1 .. n |-> U8(vals[i])]
    BY <1>3 DEF Spell
  <2>2. \A i \in 1 .. n : U8(vals[i]) \in Deflatable
    BY DeflatableIs
  <2> QED BY <2>1, <2>2
<1>7. s \in Seq(Deflatable)
  BY <1>6
<1> QED BY <1>2, <1>4, <1>5, <1>7

\* How each kind of rectangle is read.
LEMMA PlainImage ==
  ASSUME NEW data, NEW w, NEW h, NEW k
  PROVE  TightImage(data, k, <<>>, w, h) =
             IF TakeMany(data, "px", w * h).ok /\ k = 2
             THEN [TakeMany(data, "px", w * h) EXCEPT !.val = DecodeTightGradient(@, w)]
             ELSE TakeMany(data, "px", w * h)
<1>1. Len(<<>>) \notin {1, 2}
  OBVIOUS
<1> QED BY <1>1 DEF TightImage

\* How pixels are read with a palette: packed if it has one or two colours.
LEMMA PaletteImage ==
  ASSUME NEW data, NEW w, NEW h, NEW p \in TightPalettes
  PROVE  /\ Len(p) \in {1, 2} => TightImage(data, 1, p, w, h) = LookUp(TakePacked(data, w, h, 1), p)
         /\ Len(p) \notin {1, 2} => TightImage(data, 1, p, w, h) = LookUp(TakeMany(data, "u8", w * h), p)
<1>1. p # <<>>
  <2>1. PICK l \in 1 .. 256 : l = Len(p)
    BY TightPaletteLength
  <2>2. l # 0 /\ Len(<<>>) = 0
    OBVIOUS
  <2> QED BY <2>1, <2>2
<1> QED BY <1>1, Zenon DEF TightImage

\* Pixels as they are, with a filter byte or without.
LEMMA PixelsFormed ==
  ASSUME NEW w \in Nat \ {0}, NEW h \in Nat \ {0}, NEW f \in TightPixels(w, h)
  PROVE  Formed(f, 0, <<>>, w, h)
<1>1. PICK px \in [1 .. w * h -> Shades], front \in {<<>>, <<U8(0)>>} :
        f = [px |-> px, filter |-> front, size |-> w * h * PixelBytes, data |-> PxTokens(px)]
  BY DEF TightPixels
<1>2. f.px = px /\ f.filter = front /\ f.size = w * h * PixelBytes /\ f.data = PxTokens(px)
  BY <1>1
<1>3. FilterRead(front, 0, <<>>)
  BY NoFilterRead, PlainFilterRead
<1>4. PICK n \in Nat : n = w * h
  OBVIOUS
<1>5. px \in [1 .. n -> Int]
  BY <1>4, RectsAssumption DEF Shades
<1>6. PxTokens(px) \in Seq(Deflatable) /\ \A x : TakeMany(Understood(PxTokens(px), x), "px", n) = Understood(<<>>, px)
  BY <1>5, LastPixels
<1>7. ImageRead(PxTokens(px), px, 0, <<>>, w, h)
  BY <1>4, <1>6, PlainImage, 0 # 2 DEF ImageRead
<1>8. w * h * PixelBytes = h * TightRowSize(Len(<<>>), w)
  <2>1. TightRowSize(Len(<<>>), w) = w * PixelBytes
    BY DEF TightRowSize
  <2>2. PixelBytes \in Nat
    BY RectsAssumption
  <2> QED BY <2>1, <2>2
<1> QED BY <1>2, <1>3, <1>6, <1>7, <1>8 DEF Formed

\* Pixels under the gradient filter.
LEMMA GradientsFormed ==
  ASSUME NEW w \in Nat \ {0}, NEW h \in Nat \ {0}, NEW f \in TightGradients(w, h)
  PROVE  Formed(f, 2, <<>>, w, h)
<1>1. PICK px \in [1 .. w * h -> Shades] :
        f = [px |-> px, filter |-> <<U8(2)>>, size |-> w * h * PixelBytes, data |-> GradientOf(px, w)]
  BY DEF TightGradients
<1>2. f.px = px /\ f.filter = <<U8(2)>> /\ f.size = w * h * PixelBytes /\ f.data = GradientOf(px, w)
  BY <1>1
<1>3. FilterRead(<<U8(2)>>, 2, <<>>)
  BY PlainFilterRead
<1>4. PICK n \in Nat : n = w * h
  OBVIOUS
<1>5. PICK res \in [1 .. n -> Int] : res = Residuals(px, w) /\ DecodeTightGradient(res, w) = px
  <2>1. Residuals(px, w) \in [1 .. w * h -> Shades] /\ DecodeTightGradient(Residuals(px, w), w) = px
    BY GradientRead
  <2>2. Shades \subseteq Int
    BY RectsAssumption DEF Shades
  <2> QED BY <1>4, <2>1, <2>2
<1>6. /\ GradientOf(px, w) = PxTokens(res) /\ PxTokens(res) \in Seq(Deflatable)
      /\ \A x : TakeMany(Understood(PxTokens(res), x), "px", n) = Understood(<<>>, res)
  BY <1>5, LastPixels, GradientIs
<1>7. ImageRead(GradientOf(px, w), px, 2, <<>>, w, h)
  <2>1. SUFFICES ASSUME NEW x PROVE TightImage(Understood(PxTokens(res), x), 2, <<>>, w, h) = Understood(<<>>, px)
    BY <1>6 DEF ImageRead
  <2>2. PICK q : q = TakeMany(Understood(PxTokens(res), x), "px", n) /\ q = Understood(<<>>, res)
    BY <1>6
  <2>3. TightImage(Understood(PxTokens(res), x), 2, <<>>, w, h) = [q EXCEPT !.val = DecodeTightGradient(q.val, w)]
    <3>1. q.ok
      BY <2>2, UnderstoodIs
    <3> QED BY <1>4, <2>2, <3>1, PlainImage
  <2>4. DecodeTightGradient(q.val, w) = px
    BY <1>5, <2>2, UnderstoodIs
  <2>5. [q EXCEPT !.val = px] = Understood(<<>>, px)
    BY <2>2, ValueSet
  <2> QED BY <2>3, <2>4, <2>5
<1>8. w * h * PixelBytes = h * TightRowSize(Len(<<>>), w)
  <2>1. TightRowSize(Len(<<>>), w) = w * PixelBytes
    BY DEF TightRowSize
  <2>2. PixelBytes \in Nat
    BY RectsAssumption
  <2> QED BY <2>1, <2>2
<1> QED BY <1>2, <1>3, <1>6, <1>7, <1>8 DEF Formed

\* Pixels as indices into a palette.
LEMMA PaletteFormed ==
  ASSUME NEW w \in Nat \ {0}, NEW h \in Nat \ {0}, NEW p \in TightPalettes, NEW idx \in Indices(p, w * h),
         NEW bytes, bytes = IF Len(p) <= 2 THEN PackRows(idx, w, h, 1) ELSE Map(U8, idx),
         NEW f, f = [px |-> InColours(p, idx), filter |-> <<U8(1), U8(Len(p) - 1)>> \o PxTokens(p),
                     size |-> Len(bytes), data |-> bytes]
  PROVE  Formed(f, 1, p, w, h)
<1>1. /\ f.px = InColours(p, idx) /\ f.filter = <<U8(1), U8(Len(p) - 1)>> \o PxTokens(p)
      /\ f.size = Len(bytes) /\ f.data = bytes
  OBVIOUS
<1>2. FilterRead(f.filter, 1, p)
  BY <1>1, PaletteFilterRead
<1>3. PICK n \in Nat : n = w * h
  OBVIOUS
<1>4. PICK l \in 1 .. 256 : l = Len(p)
  BY TightPaletteLength
<1>5. idx \in [1 .. n -> 0 .. l - 1]
  BY <1>3, <1>4 DEF Indices
<1>6. \A rest : LookUp(Understood(rest, idx), p) = Understood(rest, InColours(p, idx))
  BY <1>3, LookedUp
<1>7. CASE l <= 2
  <2>1. bytes = PackRows(idx, w, h, 1)
    BY <1>4, <1>7
  <2>2. idx \in [1 .. w * h -> 0 .. 2 ^ 1 - 1]
    <3>1. 0 .. l - 1 \subseteq 0 .. 2 ^ 1 - 1
      <4>1. 2 ^ 1 = 2
        OBVIOUS
      <4> QED BY <1>7, <4>1
    <3> QED BY <1>3, <1>5, <3>1
  <2>3. 1 \in {1, 2, 4}
    OBVIOUS
  <2>4. PackedBack(idx, w, h, 1)
    BY <2>2, <2>3, PackedRead
  <2>5. bytes \in Seq(Deflatable)
    BY <2>1, <2>2, <2>3, RowsDeflatable
  <2>6. ASSUME NEW x PROVE TightImage(Understood(bytes, x), 1, p, w, h) = Understood(<<>>, InColours(p, idx))
    <3>1. <<>> \in Seq(Items) /\ bytes \o <<>> = bytes
      BY <2>5, NothingAfter, <<>> \in Seq(Items)
    <3>2. TakePacked(Understood(bytes \o <<>>, x), w, h, 1) = Understood(<<>>, idx)
      BY <2>1, <2>4, <3>1 DEF PackedBack
    <3>3. Len(p) \in {1, 2}
      BY <1>4, <1>7
    <3> QED BY <1>6, <3>1, <3>2, <3>3, PaletteImage
  <2>7. Len(bytes) = h * TightRowSize(Len(p), w)
    <3>1. Len(bytes) = RowBytes(w, 1) * h
      BY <2>1, <2>4 DEF PackedBack
    <3>2. RowBytes(w, 1) = CeilDiv(w, ByteBits)
      BY DEF RowBytes
    <3>3. TightRowSize(Len(p), w) = RowBytes(w, 1)
      BY <1>4, <1>7, <3>2 DEF TightRowSize
    <3>4. RowBytes(w, 1) \in Nat
      BY <2>3, RowBytesIs
    <3> QED BY <3>1, <3>3, <3>4
  <2> QED BY <1>1, <1>2, <2>5, <2>6, <2>7 DEF Formed, ImageRead
<1>8. CASE l > 2
  <2>1. bytes = Map(U8, idx)
    BY <1>4, <1>8
  <2>2. idx \in [1 .. n -> Int]
    BY <1>5
  <2>3. bytes \in Seq(Deflatable) /\ Len(bytes) = n /\ \A x : TakeMany(Understood(bytes, x), "u8", n) = Understood(<<>>, idx)
    BY <2>1, <2>2, LastBytes
  <2>4. Len(p) \notin {1, 2} /\ Len(p) # 0
    <3>1. l \notin {1, 2} /\ l # 0
      BY <1>8
    <3> QED BY <1>4, <3>1
  <2>5. \A x : TightImage(Understood(bytes, x), 1, p, w, h) = Understood(<<>>, InColours(p, idx))
    BY <1>3, <1>6, <2>3, <2>4, PaletteImage
  <2>6. Len(bytes) = h * TightRowSize(Len(p), w)
    <3>1. TightRowSize(Len(p), w) = w
      BY <2>4, Zenon DEF TightRowSize
    <3> QED BY <1>3, <2>3, <3>1
  <2> QED BY <1>1, <1>2, <2>3, <2>5, <2>6 DEF Formed, ImageRead
<1> QED BY <1>7, <1>8

\* Whatever the form, it is read again.
LEMMA FormsRead ==
  ASSUME NEW w \in Nat \ {0}, NEW h \in Nat \ {0}, NEW f \in TightForms(w, h)
  PROVE  \E k, palette : Formed(f, k, palette, w, h)
<1>1. CASE f \in TightPixels(w, h)
  BY <1>1, PixelsFormed
<1>2. CASE f \in TightGradients(w, h)
  BY <1>2, GradientsFormed
<1>3. CASE f \in TightPaletted(w, h)
  <2>1. PICK p \in TightPalettes : \E idx \in Indices(p, w * h) : \E bytes :
            /\ bytes = IF Len(p) <= 2 THEN PackRows(idx, w, h, 1) ELSE Map(U8, idx)
            /\ f = [px |-> InColours(p, idx), filter |-> <<U8(1), U8(Len(p) - 1)>> \o PxTokens(p),
                    size |-> Len(bytes), data |-> bytes]
    BY <1>3 DEF TightPaletted
  <2>2. PICK idx \in Indices(p, w * h) : \E bytes :
            /\ bytes = IF Len(p) <= 2 THEN PackRows(idx, w, h, 1) ELSE Map(U8, idx)
            /\ f = [px |-> InColours(p, idx), filter |-> <<U8(1), U8(Len(p) - 1)>> \o PxTokens(p),
                    size |-> Len(bytes), data |-> bytes]
    BY <2>1
  <2>3. Formed(f, 1, p, w, h)
    BY <2>2, PaletteFormed
  <2> QED BY <2>3
<1> QED BY <1>1, <1>2, <1>3 DEF TightForms

-----------------------------------------------------------------------------
(* Tight: the control byte, fills and JPEG images.                         *)

\* A Tight rectangle's bytes are read as its pixels, and leave the counts z.
TightRead(bytes, px, w, h, d, z) ==
    /\ bytes \in Seq(Items) /\ bytes # <<>>
    /\ \A x : TightRect(Understood(bytes, x), w, h, d) = [r |-> Understood(<<>>, px), zlib |-> z]

\* The control byte is read.
ControlOf(ctl, rest, resets, sub) ==
    ctl = Understood(rest, [resets |-> resets, sub |-> sub]) /\ ctl.val.resets = resets /\ ctl.val.sub = sub

\* It is, whatever was read before.
LEMMA ControlTaken ==
  ASSUME NEW resets \in SUBSET Streams, NEW sub \in Nat, NEW rest \in Seq(Items)
  PROVE  /\ Control(resets, sub) \in Items
         /\ \A x : \E ctl : /\ ctl = TakeOne(Understood(<<Control(resets, sub)>> \o rest, x), "u8")
                            /\ ControlOf(ctl, rest, resets, sub)
<1>1. PICK v \in Contents : v = [resets |-> resets, sub |-> sub]
  <2>1. [resets |-> resets, sub |-> sub] \in [resets : SUBSET Streams, sub : Int]
    OBVIOUS
  <2> QED BY <2>1 DEF Contents
<1>2. Control(resets, sub) = U8(v) /\ U8(v) \in Items
  BY <1>1, TokenIs DEF Control
<1>3. v.resets = resets /\ v.sub = sub
  BY <1>1
<1>4. ASSUME NEW x
      PROVE  \E ctl : /\ ctl = TakeOne(Understood(<<Control(resets, sub)>> \o rest, x), "u8")
                      /\ ControlOf(ctl, rest, resets, sub)
  <2>1. PICK ctl : ctl = TakeOne(Understood(<<U8(v)>> \o rest, x), "u8") /\ ctl = Understood(rest, v)
    BY ByteTaken
  <2>2. ctl.val = v
    BY <2>1, UnderstoodIs
  <2> QED BY <1>1, <1>2, <1>3, <2>1, <2>2 DEF ControlOf
<1> QED BY <1>2, <1>4

\* What follows the control byte.
RectFollows(rect, ctl, sub, w, h, z) ==
    /\ sub < 8 => rect = TightBasic(ctl, sub, w, h, z)
    /\ sub = 8 => rect = [r |-> Spread(TakeOne(ctl, "px"), w * h), zlib |-> z]
    /\ sub = 9 => rect = [r |-> ReadJpeg(ctl), zlib |-> z]

\* The control byte's upper half says what follows.
LEMMA RectIs ==
  ASSUME NEW r, NEW ctl, NEW rest, NEW d, NEW resets, NEW sub \in Nat,
         NEW w, NEW h, ctl = TakeOne(r, "u8"), ControlOf(ctl, rest, resets, sub)
  PROVE  RectFollows(TightRect(r, w, h, d), ctl, sub, w, h, AfterResets(d, resets))
<1>1. ctl.val.sub = sub /\ ctl.val.resets = resets
  BY DEF ControlOf
<1>2. TightRect(r, w, h, d) =
        CASE sub < 8 -> TightBasic(ctl, sub, w, h, AfterResets(d, resets))
          [] sub = 8 -> [r |-> Spread(TakeOne(ctl, "px"), w * h), zlib |-> AfterResets(d, resets)]
          [] sub = 9 -> [r |-> ReadJpeg(ctl), zlib |-> AfterResets(d, resets)]
          [] OTHER -> [r |-> Fail(ctl), zlib |-> AfterResets(d, resets)]
  BY <1>1 DEF TightRect
<1>3. CASE sub < 8
  BY <1>2, <1>3 DEF RectFollows
<1>4. CASE sub = 8
  BY <1>2, <1>4 DEF RectFollows
<1>5. CASE sub = 9
  BY <1>2, <1>5 DEF RectFollows
<1>6. CASE sub > 9
  BY <1>6 DEF RectFollows
<1> QED BY <1>3, <1>4, <1>5, <1>6

\* A fill rectangle is read back: one colour for all pixels.
LEMMA FillRead ==
  ASSUME NEW d, NEW resets \in SUBSET Streams, NEW c \in Shades, NEW w \in Nat, NEW h \in Nat
  PROVE  TightRead(<<Control(resets, 8), Px(c)>>, [i \in 1 .. w * h |-> c], w, h, d, AfterResets(d, resets))
<1>1. c \in Contents /\ <<>> \in Seq(Items)
  BY ShadesIn
<1>2. PICK body \in Seq(Items) : body = <<Px(c)>> \o <<>> /\ body = <<Px(c)>>
  <2>1. PICK a \in Items : a = Px(c)
    BY <1>1, TokenIs
  <2>2. <<a>> \in Seq(Items) /\ <<a>> \o <<>> = <<a>>
    OBVIOUS
  <2> QED BY <2>1, <2>2
<1>3. PICK b \in Items : b = Control(resets, 8)
  BY <1>2, 8 \in Nat, ControlTaken
<1>4. <<b>> \o body = <<Control(resets, 8), Px(c)>> /\ <<b>> \o body \in Seq(Items) /\ <<b>> \o body # <<>>
  BY <1>2, <1>3, PairIs, Ahead
<1>5. ASSUME NEW x
      PROVE  TightRect(Understood(<<b>> \o body, x), w, h, d) =
                [r |-> Understood(<<>>, [i \in 1 .. w * h |-> c]), zlib |-> AfterResets(d, resets)]
  <2>1. PICK r : r = Understood(<<b>> \o body, x)
    OBVIOUS
  <2>2. PICK ctl : ctl = TakeOne(r, "u8") /\ ControlOf(ctl, body, resets, 8)
    BY <1>3, <2>1, 8 \in Nat, ControlTaken
  <2>3. TightRect(r, w, h, d) = [r |-> Spread(TakeOne(ctl, "px"), w * h), zlib |-> AfterResets(d, resets)]
    <3>1. RectFollows(TightRect(r, w, h, d), ctl, 8, w, h, AfterResets(d, resets))
      BY <2>2, 8 \in Nat, RectIs
    <3> QED BY <3>1 DEF RectFollows
  <2>4. TakeOne(ctl, "px") = Understood(<<>>, c)
    <3>1. PICK v : ctl = Understood(body, v)
      BY <2>2 DEF ControlOf
    <3> QED BY <1>1, <1>2, <3>1, PixelTaken
  <2>5. Spread(TakeOne(ctl, "px"), w * h) = Understood(<<>>, [i \in 1 .. w * h |-> c])
    BY <2>4, SpreadIs
  <2> QED BY <2>1, <2>3, <2>5
<1> QED BY <1>4, <1>5 DEF TightRead

\* A length, and what it is the length of.
LengthAhead(r, z, kind, val) ==
    \E length : /\ length = ReadTightCompactLength(r) /\ length.val = z
                /\ TakeOne(length, kind) = Understood(<<>>, val)

\* A length and the token after it are read.
LEMMA LengthThen ==
  ASSUME NEW z \in ChunkSizes, NEW tok \in Items
  PROVE  /\ CompactLength(z) \o <<tok>> \in Seq(Items)
         /\ \A x : LengthAhead(Understood(CompactLength(z) \o <<tok>>, x), z, tok.kind, tok.val)
<1>1. <<tok>> \in Seq(Items) /\ <<>> \in Seq(Items) /\ <<tok>> \o <<>> = <<tok>>
  OBVIOUS
<1>2. CompactBack(z)
  BY CompactRead
<1>3. PICK cl \in Seq(Items) : cl = CompactLength(z)
  BY <1>2 DEF CompactBack
<1>4. cl \o <<tok>> \in Seq(Items)
  BY <1>1, ConcatProperties
<1>5. \A x : ReadTightCompactLength(Understood(cl \o <<tok>>, x)) = Understood(<<tok>>, z)
  BY <1>1, <1>2, <1>3 DEF CompactBack
<1>6. TakeOne(Understood(<<tok>> \o <<>>, z), tok.kind) = Understood(<<>>, tok.val)
  BY <1>1, OneTaken
<1>7. \A x : LengthAhead(Understood(cl \o <<tok>>, x), z, tok.kind, tok.val)
  BY <1>1, <1>5, <1>6, UnderstoodIs DEF LengthAhead
<1> QED BY <1>3, <1>4, <1>7

\* A JPEG rectangle is read back.
LEMMA JpegRead ==
  ASSUME NEW d, NEW resets \in SUBSET Streams, NEW z \in ChunkSizes, NEW n \in Nat, NEW px \in [1 .. n -> Shades],
         NEW w, NEW h
  PROVE  TightRead(<<Control(resets, 9)>> \o CompactLength(z) \o <<[kind |-> "jpeg", val |-> [size |-> z, px |-> px]]>>,
                   px, w, h, d, AfterResets(d, resets))
<1>1. PICK tok \in Items : /\ tok = [kind |-> "jpeg", val |-> [size |-> z, px |-> px]]
                           /\ tok.kind = "jpeg" /\ tok.val.size = z /\ tok.val.px = px
  <2>1. z \in Int /\ px \in Seq(Int)
    <3>1. z \in Int
      BY RectsAssumption
    <3>2. px \in [1 .. n -> Int]
      BY RectsAssumption DEF Shades
    <3>3. px \in Seq(Int)
      BY <3>2
    <3> QED BY <3>1, <3>3
  <2>2. [size |-> z, px |-> px] \in [size : Int, px : Seq(Int)]
    BY <2>1
  <2>3. PICK v \in Contents : v = [size |-> z, px |-> px] /\ v.size = z /\ v.px = px
    <3>1. [size |-> z, px |-> px] \in Contents
      BY <2>2, Zenon DEF Contents
    <3> QED BY <3>1
  <2>4. [kind |-> "jpeg", val |-> v] \in Items
    BY DEF Items
  <2> QED BY <2>3, <2>4
<1>2. PICK body \in Seq(Items) : body = CompactLength(z) \o <<tok>>
  BY LengthThen
<1>3. PICK b \in Items : b = Control(resets, 9)
  BY <1>2, 9 \in Nat, ControlTaken
<1>4. <<b>> \o CompactLength(z) \o <<tok>> = <<b>> \o body /\ <<b>> \o body \in Seq(Items) /\ <<b>> \o body # <<>>
  <2>1. CompactLength(z) \in Seq(Items) /\ <<tok>> \in Seq(Items) /\ <<b>> \in Seq(Items)
    BY CompactRead DEF CompactBack
  <2>2. (<<b>> \o CompactLength(z)) \o <<tok>> = <<b>> \o (CompactLength(z) \o <<tok>>)
    BY <2>1, Assoc
  <2> QED BY <1>2, <2>2, Ahead
<1>5. ASSUME NEW x
      PROVE  TightRect(Understood(<<b>> \o body, x), w, h, d) = [r |-> Understood(<<>>, px), zlib |-> AfterResets(d, resets)]
  <2>1. PICK r : r = Understood(<<b>> \o body, x)
    OBVIOUS
  <2>2. PICK ctl : ctl = TakeOne(r, "u8") /\ ControlOf(ctl, body, resets, 9)
    BY <1>3, <2>1, 9 \in Nat, ControlTaken
  <2>3. TightRect(r, w, h, d) = [r |-> ReadJpeg(ctl), zlib |-> AfterResets(d, resets)]
    <3>1. RectFollows(TightRect(r, w, h, d), ctl, 9, w, h, AfterResets(d, resets))
      BY <2>2, 9 \in Nat, RectIs
    <3> QED BY <3>1 DEF RectFollows
  <2>4. PICK length : /\ length = ReadTightCompactLength(ctl) /\ length.val = z
                      /\ TakeOne(length, "jpeg") = Understood(<<>>, tok.val)
    <3>1. PICK v : ctl = Understood(body, v)
      BY <2>2 DEF ControlOf
    <3>2. LengthAhead(ctl, z, tok.kind, tok.val)
      BY <1>2, <3>1, LengthThen
    <3> QED BY <1>1, <3>2 DEF LengthAhead
  <2>5. PICK jpeg : jpeg = TakeOne(length, "jpeg") /\ jpeg = Understood(<<>>, tok.val)
    BY <2>4
  <2>6. jpeg.ok = TRUE /\ jpeg.val.size = length.val /\ jpeg.val.px = px
    BY <1>1, <2>4, <2>5, UnderstoodIs
  <2>7. ReadJpeg(ctl) = [jpeg EXCEPT !.val = jpeg.val.px]
    BY <2>4, <2>5, <2>6 DEF ReadJpeg
  <2>8. [jpeg EXCEPT !.val = px] = Understood(<<>>, px)
    BY <2>5, ValueSet
  <2> QED BY <2>1, <2>3, <2>6, <2>7, <2>8
<1> QED BY <1>1, <1>3, <1>4, <1>5 DEF TightRead

-----------------------------------------------------------------------------
(* Tight: basic rectangles.                                                *)

\* What follows the filter of a basic rectangle.
LEMMA BasicIs ==
  ASSUME NEW r, NEW sub, NEW filter, NEW k, NEW p, NEW rest, filter = TightFilter(r, sub), filter.val = k,
         TightPalette(filter) = Understood(rest, p), NEW w, NEW h, NEW z
  PROVE  /\ h * TightRowSize(Len(p), w) < MinToCompress =>
              TightBasic(r, sub, w, h, z) = [r |-> TightImage(Understood(rest, p), k, p, w, h), zlib |-> z]
         /\ ~(h * TightRowSize(Len(p), w) < MinToCompress) =>
              TightBasic(r, sub, w, h, z) =
                  [r |-> TightImage(ReadChunk(Understood(rest, p), sub % 4, z), k, p, w, h),
                   zlib |-> [z EXCEPT ![sub % 4] = @ + 1]]
<1>1. PICK palette : palette = TightPalette(filter) /\ palette.val = p /\ palette = Understood(rest, p)
  BY UnderstoodIs
<1>2. PICK small : small = (h * TightRowSize(Len(p), w) < MinToCompress)
  OBVIOUS
<1>3. TightBasic(r, sub, w, h, z) =
        [r |-> TightImage(IF small THEN palette ELSE ReadChunk(palette, sub % 4, z), k, p, w, h),
         zlib |-> IF small THEN z ELSE [z EXCEPT ![sub % 4] = @ + 1]]
  BY <1>1, <1>2 DEF TightBasic
<1> QED BY <1>1, <1>2, <1>3

\* A reader goes on in other tokens.
LEMMA BufferSet ==
  ASSUME NEW buf, NEW val, NEW r, r = Understood(buf, val), NEW b
  PROVE  [r EXCEPT !.buf = b] = Understood(b, val)
<1>1. PICK q : q = [r EXCEPT !.buf = b]
  OBVIOUS
<1>2. DOMAIN r = {"buf", "val", "ok"} /\ r = [x \in DOMAIN r |-> r[x]] /\ r.val = val /\ r.ok = TRUE
  BY DEF Understood
<1>3. /\ DOMAIN q = {"buf", "val", "ok"} /\ q = [x \in DOMAIN q |-> q[x]]
      /\ q.buf = b /\ q.val = val /\ q.ok = TRUE
  BY <1>1, <1>2
<1>4. q = Understood(b, val)
  BY <1>3, ReaderIs
<1> QED BY <1>1, <1>4

\* A chunk is inflated by the decompressor that read the ones before it.
ChunkOf(tok, s, z, at, data) ==
    tok = [kind |-> "chunk", val |-> [of |-> s, size |-> z, at |-> at, data |-> data]]

\* Such a chunk is a token.
LEMMA ChunkIs ==
  ASSUME NEW s \in Streams, NEW z \in Int, NEW at \in Int, NEW data \in Seq(Deflatable), NEW tok, ChunkOf(tok, s, z, at, data)
  PROVE  /\ tok \in Items /\ tok.kind = "chunk"
         /\ tok.val.of = s /\ tok.val.size = z /\ tok.val.at = at /\ tok.val.data = data
<1>1. s \in Int
  BY DEF Streams, Tight
<1>2. [of |-> s, size |-> z, at |-> at, data |-> data]
        \in [of : Int, size : Int, at : Int, data : Seq([kind : {"u8", "px"}, val : Int])]
  BY <1>1 DEF Deflatable
<1>3. PICK v \in Contents : v = [of |-> s, size |-> z, at |-> at, data |-> data]
  <2>1. [of |-> s, size |-> z, at |-> at, data |-> data] \in Contents
    BY <1>2, Zenon DEF Contents
  <2> QED BY <2>1
<1>4. v.of = s /\ v.size = z /\ v.at = at /\ v.data = data
  BY <1>3
<1>5. tok = [kind |-> "chunk", val |-> v]
  BY <1>3 DEF ChunkOf
<1>6. tok \in Items /\ tok.kind = "chunk" /\ tok.val = v
  BY <1>5 DEF Items
<1> QED BY <1>4, <1>6

\* It is read, and what it inflates to comes next.
LEMMA ChunkRead ==
  ASSUME NEW s \in Streams, NEW z \in ChunkSizes, NEW at \in Int, NEW data \in Seq(Deflatable), NEW tok,
         ChunkOf(tok, s, z, at, data), NEW zlib, zlib[s] = at, NEW x
  PROVE  ReadChunk(Understood(CompactLength(z) \o <<tok>>, x), s, zlib) = Understood(data, tok.val)
<1>1. /\ tok \in Items /\ tok.kind = "chunk"
      /\ tok.val.of = s /\ tok.val.size = z /\ tok.val.at = at /\ tok.val.data = data
  <2>1. z \in Int
    BY RectsAssumption
  <2> QED BY <2>1, ChunkIs
<1>2. PICK r : r = Understood(CompactLength(z) \o <<tok>>, x)
  OBVIOUS
<1>3. LengthAhead(r, z, "chunk", tok.val)
  BY <1>1, <1>2, LengthThen
<1>4. PICK length : /\ length = ReadTightCompactLength(r) /\ length.val = z
                    /\ TakeOne(length, "chunk") = Understood(<<>>, tok.val)
  BY <1>3 DEF LengthAhead
<1>5. PICK chunk : chunk = TakeOne(length, "chunk") /\ chunk = Understood(<<>>, tok.val)
  BY <1>4
<1>6. chunk.ok = TRUE /\ chunk.val = tok.val
  BY <1>5, UnderstoodIs
<1>7. ReadChunk(r, s, zlib) = [chunk EXCEPT !.buf = chunk.val.data]
  BY <1>1, <1>4, <1>5, <1>6 DEF ReadChunk
<1>8. [chunk EXCEPT !.buf = data] = Understood(data, tok.val)
  BY <1>5, BufferSet
<1> QED BY <1>1, <1>2, <1>6, <1>7, <1>8

\* The control byte of a basic rectangle says its stream, and whether a filter follows.
SubOf(f, s) == s + (IF f.filter = <<>> THEN 0 ELSE 4)

\* It is below 8 and gives the stream back.
LEMMA SubIs ==
  ASSUME NEW f, NEW s \in {0, 1}
  PROVE  SubOf(f, s) \in Nat /\ SubOf(f, s) < 8 /\ SubOf(f, s) % 4 = s
<1>1. SubOf(f, s) = s \/ SubOf(f, s) = s + 4
  BY DEF SubOf
<1> QED BY <1>1

\* The control byte of a basic rectangle is a token.
LEMMA ControlSeq ==
  ASSUME NEW resets \in SUBSET Streams, NEW f, NEW s \in {0, 1}
  PROVE  <<Control(resets, SubOf(f, s))>> \in Seq(Items)
<1>1. PICK sub \in Nat : sub = SubOf(f, s)
  BY SubIs
<1>2. PICK b \in Items : b = Control(resets, sub)
  BY <<>> \in Seq(Items), ControlTaken
<1>3. <<b>> \in Seq(Items)
  OBVIOUS
<1> QED BY <1>1, <1>2, <1>3

\* A basic rectangle is read when what follows its filter is.
LEMMA BasicRead ==
  ASSUME NEW d, NEW resets \in SUBSET Streams, NEW s \in {0, 1}, NEW f, NEW k, NEW p, NEW w, NEW h, Formed(f, k, p, w, h),
         NEW rest \in Seq(Items), NEW z,
         \A r, x : r = Understood(f.filter \o rest, x) =>
             TightBasic(r, SubOf(f, s), w, h, AfterResets(d, resets)) = [r |-> Understood(<<>>, f.px), zlib |-> z]
  PROVE  TightRead(<<Control(resets, SubOf(f, s))>> \o (f.filter \o rest), f.px, w, h, d, z)
<1>1. PICK body \in Seq(Items) : body = f.filter \o rest
  <2>1. f.filter \in Seq(Items)
    BY DEF Formed, FilterRead
  <2>2. f.filter \o rest \in Seq(Items)
    BY <2>1, ConcatProperties
  <2> QED BY <2>2
<1>2. PICK sub \in Nat : sub = SubOf(f, s) /\ sub < 8
  BY SubIs
<1>3. PICK b \in Items : b = Control(resets, sub)
  BY <1>1, ControlTaken
<1>4. <<b>> \o body \in Seq(Items) /\ <<b>> \o body # <<>>
  BY Ahead
<1>5. ASSUME NEW x
      PROVE  TightRect(Understood(<<b>> \o body, x), w, h, d) = [r |-> Understood(<<>>, f.px), zlib |-> z]
  <2>1. PICK r : r = Understood(<<b>> \o body, x)
    OBVIOUS
  <2>2. PICK ctl : ctl = TakeOne(r, "u8") /\ ControlOf(ctl, body, resets, sub)
    BY <1>3, <2>1, ControlTaken
  <2>3. TightRect(r, w, h, d) = TightBasic(ctl, sub, w, h, AfterResets(d, resets))
    BY <1>2, <2>2, RectIs DEF RectFollows
  <2>4. PICK v : ctl = Understood(body, v)
    BY <2>2 DEF ControlOf
  <2> QED BY <1>1, <1>2, <2>1, <2>3, <2>4
<1> QED BY <1>1, <1>2, <1>3, <1>4, <1>5 DEF TightRead

\* Bytes too few to compress follow as they are.
LEMMA SmallRead ==
  ASSUME NEW d, NEW resets \in SUBSET Streams, NEW s \in {0, 1}, NEW f, NEW k, NEW p, NEW w, NEW h, Formed(f, k, p, w, h),
         f.size < MinToCompress
  PROVE  TightRead(<<Control(resets, SubOf(f, s))>> \o f.filter \o f.data, f.px, w, h, d, AfterResets(d, resets))
<1>1. f.filter \in Seq(Items) /\ FilterRead(f.filter, k, p)
  BY DEF Formed, FilterRead
<1>2. f.data \in Seq(Items) /\ f.size = h * TightRowSize(Len(p), w) /\ ImageRead(f.data, f.px, k, p, w, h)
  BY DeflatableIn DEF Formed
<1>3. ASSUME NEW r, NEW x, r = Understood(f.filter \o f.data, x)
      PROVE  TightBasic(r, SubOf(f, s), w, h, AfterResets(d, resets)) =
                 [r |-> Understood(<<>>, f.px), zlib |-> AfterResets(d, resets)]
  <2>1. PICK filter : /\ filter = TightFilter(r, SubOf(f, s)) /\ filter.val = k
                      /\ TightPalette(filter) = Understood(f.data, p)
    BY <1>1, <1>2, <1>3 DEF FilterRead, SubOf
  <2>2. TightBasic(r, SubOf(f, s), w, h, AfterResets(d, resets)) =
            [r |-> TightImage(Understood(f.data, p), k, p, w, h), zlib |-> AfterResets(d, resets)]
    BY <1>2, <2>1, BasicIs
  <2>3. TightImage(Understood(f.data, p), k, p, w, h) = Understood(<<>>, f.px)
    BY <1>2 DEF ImageRead
  <2> QED BY <2>2, <2>3
<1>4. TightRead(<<Control(resets, SubOf(f, s))>> \o (f.filter \o f.data), f.px, w, h, d, AfterResets(d, resets))
  <2>0. PICK z : z = AfterResets(d, resets)
    OBVIOUS
  <2>1. PICK rest \in Seq(Items) : rest = f.data
    BY <1>2
  <2>2. \A r, x : r = Understood(f.filter \o rest, x) =>
            TightBasic(r, SubOf(f, s), w, h, AfterResets(d, resets)) = [r |-> Understood(<<>>, f.px), zlib |-> z]
    BY <1>3, <2>0, <2>1
  <2> QED BY <2>0, <2>1, <2>2, BasicRead
<1>5. PICK c \in Seq(Items), e \in Seq(Items), b \in Seq(Items) :
        c = <<Control(resets, SubOf(f, s))>> /\ e = f.filter /\ b = f.data
  BY <1>1, <1>2, ControlSeq
<1>6. (c \o e) \o b = c \o (e \o b)
  BY Assoc
<1> QED BY <1>4, <1>5, <1>6

\* Four parts, put together from either end.
FromEitherEnd(a, b, c, e) == ((a \o b) \o c) \o e = a \o (b \o (c \o e))

\* Putting them together is associative.
LEMMA FourParts ==
  ASSUME NEW a \in Seq(Items), NEW b \in Seq(Items), NEW c \in Seq(Items), NEW e \in Seq(Items)
  PROVE  FromEitherEnd(a, b, c, e)
<1>1. PICK ab \in Seq(Items) : ab = a \o b
  BY ConcatProperties
<1>2. PICK ce \in Seq(Items) : ce = c \o e
  BY ConcatProperties
<1>3. (ab \o c) \o e = ab \o (c \o e)
  BY Assoc
<1>4. (a \o b) \o ce = a \o (b \o ce)
  BY Assoc
<1> QED BY <1>1, <1>2, <1>3, <1>4 DEF FromEitherEnd

\* The parts of a basic rectangle with a chunk.
LEMMA ChunkParts ==
  ASSUME NEW resets \in SUBSET Streams, NEW s \in {0, 1}, NEW f, f.filter \in Seq(Items), NEW z \in ChunkSizes,
         NEW tok \in Items
  PROVE  FromEitherEnd(<<Control(resets, SubOf(f, s))>>, f.filter, CompactLength(z), <<tok>>)
<1>1. <<Control(resets, SubOf(f, s))>> \in Seq(Items)
  BY ControlSeq
<1>2. CompactLength(z) \in Seq(Items)
  BY CompactRead DEF CompactBack
<1>3. <<tok>> \in Seq(Items)
  OBVIOUS
<1> QED BY <1>1, <1>2, <1>3, FourParts

\* The others follow in a chunk.
LEMMA LargeRead ==
  ASSUME NEW d, NEW resets \in SUBSET Streams, NEW s \in {0, 1}, NEW f, NEW k, NEW p, NEW w, NEW h, Formed(f, k, p, w, h),
         ~(f.size < MinToCompress), NEW z \in ChunkSizes, NEW at \in Int, AfterResets(d, resets)[s] = at,
         NEW tok, ChunkOf(tok, s, z, at, f.data)
  PROVE  TightRead(<<Control(resets, SubOf(f, s))>> \o f.filter \o CompactLength(z) \o <<tok>>, f.px, w, h, d,
                   [AfterResets(d, resets) EXCEPT ![s] = @ + 1])
<1>1. f.filter \in Seq(Items) /\ FilterRead(f.filter, k, p)
  BY DEF Formed, FilterRead
<1>2. f.data \in Seq(Deflatable) /\ f.size = h * TightRowSize(Len(p), w) /\ ImageRead(f.data, f.px, k, p, w, h)
  BY DEF Formed
<1>3. PICK zlib : zlib = AfterResets(d, resets) /\ zlib[s] = at
  OBVIOUS
<1>4. s \in Streams /\ tok \in Items
  <2>1. s \in Streams
    BY DEF Streams, Tight
  <2>2. z \in Int
    BY RectsAssumption
  <2> QED BY <1>2, <2>1, <2>2, ChunkIs
<1>5. PICK rest \in Seq(Items) : rest = CompactLength(z) \o <<tok>>
  BY <1>4, LengthThen
<1>6. PICK after : after = [zlib EXCEPT ![s] = @ + 1]
  OBVIOUS
<1>7. ASSUME NEW r, NEW x, r = Understood(f.filter \o rest, x)
      PROVE  TightBasic(r, SubOf(f, s), w, h, zlib) = [r |-> Understood(<<>>, f.px), zlib |-> after]
  <2>1. PICK filter : /\ filter = TightFilter(r, SubOf(f, s)) /\ filter.val = k
                      /\ TightPalette(filter) = Understood(rest, p)
    BY <1>1, <1>7 DEF FilterRead, SubOf
  <2>2. TightBasic(r, SubOf(f, s), w, h, zlib) =
            [r |-> TightImage(ReadChunk(Understood(rest, p), SubOf(f, s) % 4, zlib), k, p, w, h),
             zlib |-> [zlib EXCEPT ![SubOf(f, s) % 4] = @ + 1]]
    BY <1>2, <2>1, BasicIs
  <2>3. SubOf(f, s) % 4 = s
    BY SubIs
  <2>4. ReadChunk(Understood(rest, p), s, zlib) = Understood(f.data, tok.val)
    BY <1>2, <1>3, <1>4, <1>5, ChunkRead
  <2>5. TightImage(Understood(f.data, tok.val), k, p, w, h) = Understood(<<>>, f.px)
    BY <1>2 DEF ImageRead
  <2> QED BY <1>6, <2>2, <2>3, <2>4, <2>5
<1>8. TightRead(<<Control(resets, SubOf(f, s))>> \o (f.filter \o rest), f.px, w, h, d, after)
  <2>1. \A r, x : r = Understood(f.filter \o rest, x) =>
            TightBasic(r, SubOf(f, s), w, h, AfterResets(d, resets)) = [r |-> Understood(<<>>, f.px), zlib |-> after]
    BY <1>3, <1>7
  <2> QED BY <2>1, BasicRead
<1>9. <<Control(resets, SubOf(f, s))>> \o f.filter \o CompactLength(z) \o <<tok>> =
          <<Control(resets, SubOf(f, s))>> \o (f.filter \o rest)
  <2>1. FromEitherEnd(<<Control(resets, SubOf(f, s))>>, f.filter, CompactLength(z), <<tok>>)
    BY <1>1, <1>4, ChunkParts
  <2> QED BY <1>5, <2>1 DEF FromEitherEnd
<1> QED BY <1>3, <1>6, <1>8, <1>9

-----------------------------------------------------------------------------
(* Raw, CopyRect and Cursor rectangles.                                    *)

\* Every size is positive.
LEMMA SizeIs ==
  ASSUME NEW size \in Sizes \cup TiledSizes
  PROVE  size[1] \in Nat \ {0} /\ size[2] \in Nat \ {0}
<1>1. size \in (Nat \ {0}) \X (Nat \ {0})
  BY RectsAssumption
<1> QED BY <1>1

\* The bytes of a Raw rectangle, of a CopyRect and of a cursor are read again.
RawRectRead(bytes, px, w, h) ==
    bytes # <<>> /\ TakeMany(Understood(bytes, <<>>), "px", w * h) = Understood(<<>>, px)
CopyRectRead(bytes, px) ==
    bytes # <<>> /\ TakeMany(Understood(bytes, <<>>), "u16", 2) = Understood(<<>>, px)
CursorRead(bytes, px, w, h) ==
    CursorPixels(Understood(bytes, <<>>), w, h) = Understood(<<>>, px)

\* The pixels of a Raw rectangle are read back.
LEMMA RawSentRead ==
  ASSUME NEW w \in Nat \ {0}, NEW h \in Nat \ {0}, NEW px \in [1 .. w * h -> Shades]
  PROVE  RawRectRead(PxTokens(px), px, w, h)
<1>1. PICK n \in Nat : n = w * h /\ n # 0
  BY CellBefore, 0 \in 0 .. w - 1, 0 \in 0 .. h - 1
<1>2. px \in [1 .. n -> Int] /\ px \in [1 .. n -> Contents]
  <2>1. Shades \subseteq Int
    BY RectsAssumption DEF Shades
  <2>2. px \in [1 .. n -> Int]
    BY <1>1, <2>1
  <2> QED BY <2>2, NumbersIn
<1>3. TakeMany(Understood(PxTokens(px), <<>>), "px", n) = Understood(<<>>, px)
  BY <1>2, LastPixels
<1>4. PxTokens(px) # <<>>
  <2>1. Len(PxTokens(px)) = n
    BY <1>2, <<>> \in Seq(Items), PixelsTaken
  <2> QED BY <1>1, <2>1
<1> QED BY <1>1, <1>3, <1>4 DEF RawRectRead

\* The place of a CopyRect is read back.
LEMMA CopySentRead ==
  ASSUME NEW from \in Shades \X Shades
  PROVE  CopyRectRead(<<U16(from[1]), U16(from[2])>>, from)
<1>1. from[1] \in Contents /\ from[2] \in Contents /\ from = <<from[1], from[2]>>
  <2>1. from[1] \in Shades /\ from[2] \in Shades /\ from = <<from[1], from[2]>>
    OBVIOUS
  <2> QED BY <2>1, ShadesIn
<1>2. PICK a \in Items, b \in Items :
         a = U16(from[1]) /\ b = U16(from[2]) /\ a.kind = "u16" /\ b.kind = "u16" /\ a.val = from[1] /\ b.val = from[2]
  BY <1>1, TokenIs
<1>3. PICK these \in [1 .. 2 -> Items] : these[1] = a /\ these[2] = b /\ these = <<a, b>>
  <2>1. <<a, b>> \in [1 .. 2 -> Items]
    OBVIOUS
  <2> QED BY <2>1
<1>4. \A i \in 1 .. 2 : these[i].kind = "u16"
  BY <1>2, <1>3
<1>5. PICK rest \in Seq(Items) : rest = <<>>
  <2>1. <<>> \in Seq(Items)
    OBVIOUS
  <2> QED BY <2>1
<1>6. TakeMany(Understood(these \o rest, <<>>), "u16", 2) = Understood(rest, [i \in 1 .. 2 |-> these[i].val])
  <2>1. PICK n \in Nat : n = 2
    OBVIOUS
  <2>2. PICK all \in [1 .. n -> Items] : all = these
    BY <2>1
  <2>3. \A i \in 1 .. n : all[i].kind = "u16"
    BY <1>4, <2>1, <2>2
  <2>4. TakeMany(Understood(all \o rest, <<>>), "u16", n) = Understood(rest, [i \in 1 .. n |-> all[i].val])
    BY <2>3, ManyTaken
  <2> QED BY <2>1, <2>2, <2>4
<1>7. <<a, b>> \o <<>> = <<a, b>> /\ <<a, b>> # <<>>
  <2>1. <<a, b>> \in Seq(Items)
    OBVIOUS
  <2> QED BY <2>1
<1>8. [i \in 1 .. 2 |-> these[i].val] = <<from[1], from[2]>>
  BY <1>2, <1>3
<1> QED BY <1>1, <1>2, <1>3, <1>5, <1>6, <1>7, <1>8 DEF CopyRectRead

\* A cursor is read back, clear where its mask is.
LEMMA CursorSentRead ==
  ASSUME NEW w \in Nat \ {0}, NEW h \in Nat \ {0}, NEW px \in [1 .. w * h -> {0, MaxColour}],
         NEW opaque \in [1 .. w * h -> {0, 1}]
  PROVE  CursorRead(PxTokens(px) \o PackRows(opaque, w, h, 1),
                    [i \in DOMAIN px |-> IF opaque[i] = 1 THEN px[i] ELSE Clear], w, h)
<1>1. PICK n \in Nat : n = w * h
  OBVIOUS
<1>2. px \in [1 .. n -> Contents]
  <2>1. {0, MaxColour} \subseteq Contents
    BY RectsAssumption, NumbersIn
  <2> QED BY <1>1, <2>1
<1>3. opaque \in [1 .. w * h -> 0 .. 2 ^ 1 - 1]
  <2>1. {0, 1} \subseteq 0 .. 2 ^ 1 - 1
    <3>1. 2 ^ 1 = 2
      OBVIOUS
    <3> QED BY <3>1
  <2> QED BY <2>1
<1>4. PackedBack(opaque, w, h, 1)
  BY <1>3, 1 \in {1, 2, 4}, PackedRead
<1>5. PICK rows \in Seq(Items) : rows = PackRows(opaque, w, h, 1)
  BY <1>4 DEF PackedBack
<1>6. rows \o <<>> = rows /\ <<>> \in Seq(Items)
  OBVIOUS
<1>7. PICK r, pixels, mask :
        /\ r = Understood(PxTokens(px) \o rows, <<>>) /\ pixels = TakeMany(r, "px", w * h)
        /\ mask = TakePacked(pixels, w, h, 1)
  OBVIOUS
<1>8. pixels = Understood(rows, px)
  BY <1>1, <1>2, <1>7, PixelsTaken
<1>9. mask = Understood(<<>>, opaque)
  BY <1>4, <1>5, <1>6, <1>7, <1>8 DEF PackedBack
<1>10. pixels.val = px /\ mask.ok = TRUE /\ mask.val = opaque
  BY <1>8, <1>9, UnderstoodIs
<1>11. CursorPixels(r, w, h) = [mask EXCEPT !.val = [i \in DOMAIN px |-> IF opaque[i] = 0 THEN Clear ELSE px[i]]]
  BY <1>7, <1>10 DEF CursorPixels
<1>12. [i \in DOMAIN px |-> IF opaque[i] = 0 THEN Clear ELSE px[i]] =
           [i \in DOMAIN px |-> IF opaque[i] = 1 THEN px[i] ELSE Clear]
  OBVIOUS
<1>13. CursorPixels(r, w, h) = Understood(<<>>, [i \in DOMAIN px |-> IF opaque[i] = 1 THEN px[i] ELSE Clear])
  BY <1>9, <1>11, <1>12, ValueSet
<1> QED BY <1>5, <1>7, <1>13 DEF CursorRead

\* A cursor of no width has no bytes.
LEMMA EmptyCursorRead ==
  ASSUME NEW h, NEW px, px = <<>>
  PROVE  CursorRead(<<>>, px, 0, h)
BY DEF CursorRead, CursorPixels

-----------------------------------------------------------------------------
(* Rectangles: the places of the tiles.                                    *)

\* Multiples of a tile's size against a length, and against its number of tiles.
LEMMA TilesOf ==
  ASSUME NEW a \in Nat \ {0}, NEW k \in Nat
  PROVE  /\ CeilDiv(a, TileSize) \in Nat \ {0}
         /\ (k * TileSize < a <=> k < CeilDiv(a, TileSize))
<1>1. PICK t \in Nat \ {0} : t = TileSize
  BY RectsAssumption
<1>2. PICK q \in Nat : q = CeilDiv(a, t) /\ q * t + ((a + t - 1) % t) = a + t - 1 /\ (a + t - 1) % t \in 0 .. t - 1
  <2>1. a + t - 1 \in Nat
    OBVIOUS
  <2> QED BY <2>1, QuotientIs DEF CeilDiv
<1>3. PICK m \in Nat : m = q * t /\ a <= m /\ m <= a + t - 1
  BY <1>2
<1>4. q # 0
  <2>1. SUFFICES ASSUME q = 0 PROVE FALSE
    OBVIOUS
  <2>2. m = 0
    BY <1>3, <2>1
  <2> QED BY <1>3, <2>2
<1>5. CASE k < q
  <2>1. PICK e \in Nat : q = k + 1 + e
    <3>1. q - k - 1 \in Nat
      BY <1>5
    <3> QED BY <3>1
  <2>2. m = k * t + t + e * t /\ e * t \in Nat /\ k * t \in Nat
    BY <1>3, <2>1
  <2>3. k * t < a
    BY <1>3, <2>2
  <2> QED BY <1>1, <1>2, <1>4, <1>5, <2>3
<1>6. CASE ~(k < q)
  <2>1. PICK e \in Nat : k = q + e
    <3>1. k - q \in Nat
      BY <1>6
    <3> QED BY <3>1
  <2>2. k * t = m + e * t /\ e * t \in Nat
    BY <1>3, <2>1
  <2>3. ~(k * t < a)
    BY <1>3, <2>2
  <2> QED BY <1>1, <1>2, <1>4, <1>6, <2>3
<1> QED BY <1>5, <1>6

\* The place of the tile n: how far along and how far down.
TiledAt(w, h, n, x, y) ==
    \E row, col \in Nat :
        /\ col < CeilDiv(w, TileSize) /\ row <= CeilDiv(h, TileSize) /\ (row = CeilDiv(h, TileSize) => col = 0)
        /\ n = row * CeilDiv(w, TileSize) + col
        /\ x = col * TileSize /\ y = row * TileSize
TileWide(w, x) == IF TileSize < w - x THEN TileSize ELSE w - x

\* A tile is within the rectangle as long as there are tiles to come; it has a
\* pixel or more.
LEMMA TileWithin ==
  ASSUME NEW w \in Nat \ {0}, NEW h \in Nat \ {0}, NEW n, NEW x, NEW y, TiledAt(w, h, n, x, y)
  PROVE  /\ n \in Nat /\ x \in Nat /\ y \in Nat /\ x < w
         /\ CeilDiv(w, TileSize) * CeilDiv(h, TileSize) \in Nat
         /\ n <= CeilDiv(w, TileSize) * CeilDiv(h, TileSize)
         /\ (n < CeilDiv(w, TileSize) * CeilDiv(h, TileSize) <=> y < h)
<1>1. PICK row, col \in Nat :
        /\ col < CeilDiv(w, TileSize) /\ row <= CeilDiv(h, TileSize) /\ (row = CeilDiv(h, TileSize) => col = 0)
        /\ n = row * CeilDiv(w, TileSize) + col
        /\ x = col * TileSize /\ y = row * TileSize
  BY DEF TiledAt
<1>2. PICK c \in Nat \ {0}, r \in Nat \ {0}, t \in Nat \ {0} :
        c = CeilDiv(w, TileSize) /\ r = CeilDiv(h, TileSize) /\ t = TileSize
  BY 0 \in Nat, TilesOf, RectsAssumption
<1>3. (col * t < w) /\ (row * t < h <=> row < r)
  <2>1. col * TileSize < w <=> col < CeilDiv(w, TileSize)
    BY TilesOf
  <2>2. row * TileSize < h <=> row < CeilDiv(h, TileSize)
    BY TilesOf
  <2> QED BY <1>1, <1>2, <2>1, <2>2
<1>4. c * r = r * c /\ c * r \in Nat /\ row * c \in Nat /\ col * t \in Nat /\ row * t \in Nat
  OBVIOUS
<1>5. CASE row < r
  <2>1. row \in 0 .. r - 1 /\ col \in 0 .. c - 1
    BY <1>1, <1>2, <1>5
  <2>2. row * c + col \in 0 .. c * r - 1
    BY <2>1, CellBefore
  <2>3. n < c * r
    BY <1>1, <1>2, <1>4, <2>2
  <2> QED BY <1>1, <1>2, <1>3, <1>4, <1>5, <2>3
<1>6. CASE row = r
  <2>1. n = r * c
    BY <1>1, <1>2, <1>6
  <2>2. ~(row * t < h)
    BY <1>3, <1>6
  <2> QED BY <1>1, <1>2, <1>3, <1>4, <2>1, <2>2
<1> QED BY <1>1, <1>2, <1>5, <1>6

\* The client's way to measure a tile is the server's.
LEMMA WideIs ==
  ASSUME NEW w \in Nat \ {0}, NEW x \in Nat, x < w
  PROVE  /\ TileWide(w, x) \in Nat \ {0}
         /\ TileWide(w, x) = IF x + TileSize > w THEN w - x ELSE TileSize
<1>1. TileSize \in Nat \ {0}
  BY RectsAssumption
<1> QED BY <1>1 DEF TileWide

\* The server's way to count the tiles is the same.
LEMMA TileCounted ==
  ASSUME NEW w \in Nat \ {0}, NEW h \in Nat \ {0}, NEW n, NEW x, NEW y, TiledAt(w, h, n, x, y)
  PROVE  /\ (n % CeilDiv(w, TileSize)) * TileSize = x
         /\ (n \div CeilDiv(w, TileSize)) * TileSize = y
<1>1. PICK row, col \in Nat :
        /\ col < CeilDiv(w, TileSize)
        /\ n = row * CeilDiv(w, TileSize) + col
        /\ x = col * TileSize /\ y = row * TileSize
  BY DEF TiledAt
<1>2. PICK c \in Nat \ {0} : c = CeilDiv(w, TileSize)
  BY 0 \in Nat, TilesOf
<1>3. col \in 0 .. c - 1
  BY <1>1, <1>2
<1>4. (row * c + col) \div c = row /\ (row * c + col) % c = col
  BY <1>3, DivMod
<1> QED BY <1>1, <1>2, <1>4

\* The first tile, and the one after a tile.
LEMMA FirstTile ==
  ASSUME NEW w \in Nat \ {0}, NEW h \in Nat \ {0}
  PROVE  TiledAt(w, h, 0, 0, 0)
<1>1. PICK c \in Nat \ {0}, r \in Nat \ {0} : c = CeilDiv(w, TileSize) /\ r = CeilDiv(h, TileSize)
  BY 0 \in Nat, TilesOf
<1>2. 0 = 0 * TileSize /\ 0 = 0 * c + 0 /\ 0 < c /\ 0 <= r
  BY RectsAssumption
<1> QED BY <1>1, <1>2, 0 \in Nat DEF TiledAt

\* The tile after one is the next along, or the first of the next row.
LEMMA NextTile ==
  ASSUME NEW w \in Nat \ {0}, NEW h \in Nat \ {0}, NEW n, NEW x, NEW y, TiledAt(w, h, n, x, y), y < h
  PROVE  /\ x + TileSize < w => TiledAt(w, h, n + 1, x + TileSize, y)
         /\ ~(x + TileSize < w) => TiledAt(w, h, n + 1, 0, y + TileSize)
<1>1. PICK row, col \in Nat :
        /\ col < CeilDiv(w, TileSize) /\ row <= CeilDiv(h, TileSize)
        /\ n = row * CeilDiv(w, TileSize) + col
        /\ x = col * TileSize /\ y = row * TileSize
  BY DEF TiledAt
<1>2. PICK c \in Nat \ {0}, r \in Nat \ {0}, t \in Nat \ {0} :
        c = CeilDiv(w, TileSize) /\ r = CeilDiv(h, TileSize) /\ t = TileSize
  BY 0 \in Nat, TilesOf, RectsAssumption
<1>3. row < r
  BY <1>1, <1>2, TilesOf
<1>4. (col + 1) * t = col * t + t /\ (row + 1) * t = row * t + t /\ (row + 1) * c = row * c + c
      /\ row * c \in Nat /\ col * t \in Nat /\ row * t \in Nat
  OBVIOUS
<1>5. (col + 1) * t < w <=> col + 1 < c
  BY <1>2, col + 1 \in Nat, TilesOf
<1>6. ASSUME x + t < w PROVE TiledAt(w, h, n + 1, x + t, y)
  <2>1. col + 1 < c
    BY <1>1, <1>2, <1>4, <1>5, <1>6
  <2>2. n + 1 = row * c + (col + 1) /\ x + t = (col + 1) * t /\ y = row * t
    BY <1>1, <1>2, <1>4
  <2>3. row <= r /\ row # r
    BY <1>3
  <2> QED BY <1>2, <2>1, <2>2, <2>3, col + 1 \in Nat DEF TiledAt
<1>7. ASSUME ~(x + t < w) PROVE TiledAt(w, h, n + 1, 0, y + t)
  <2>1. col + 1 = c
    BY <1>1, <1>2, <1>4, <1>5, <1>7
  <2>2. n + 1 = (row + 1) * c + 0 /\ 0 = 0 * t /\ y + t = (row + 1) * t
    BY <1>1, <1>2, <1>4, <2>1
  <2>3. row + 1 <= r /\ 0 < c /\ row + 1 \in Nat
    BY <1>3
  <2> QED BY <1>2, <2>2, <2>3, 0 \in Nat DEF TiledAt
<1> QED BY <1>2, <1>6, <1>7

-----------------------------------------------------------------------------
(* Rectangles, the invariant: where one may be.                            *)

\* Where a rectangle may be.  Nothing is sent and nothing is read.
AtRest ==
    /\ meant = Nothing /\ shown = Nothing /\ stream = <<>> /\ deco = comp
    /\ tiles = 0 /\ tx = 0 /\ ty = 0
\* It is sent, and its bytes are those of the picture.
Awaited(kind) == meant.kind = kind /\ shown = Nothing
RawSent == Awaited("Raw") /\ deco = comp /\ RawRectRead(stream, meant.px, meant.w, meant.h)
CopySent == Awaited("CopyRect") /\ deco = comp /\ CopyRectRead(stream, meant.px)
CursorSent == Awaited("Cursor") /\ deco = comp /\ CursorRead(stream, meant.px, meant.w, meant.h)
TightUnderWay == Awaited("Tight") /\ TightRead(stream, meant.px, meant.w, meant.h, deco, comp)
\* It is shown.
Painted ==
    /\ meant.kind \in {"Raw", "CopyRect", "Cursor", "Tight"}
    /\ shown = meant /\ stream = <<>> /\ deco = comp
\* The chunk of a ZRLE rectangle is sent; its tiles follow.
Tiled == meant.kind = "ZRLE" /\ meant.w \in Nat \ {0} /\ meant.h \in Nat \ {0}
ChunkSent ==
    /\ Tiled /\ shown = Nothing /\ meant.px = <<>> /\ tiles = 0
    /\ stream # <<>> /\ Head(stream).kind = "chunk" /\ Inflates(4, Head(stream).val)
    /\ comp = [deco EXCEPT ![4] = @ + 1]
\* All that was sent of it is shown, and the client expects the tile that the
\* server is at.
BetweenTiles ==
    /\ Tiled /\ shown = meant /\ stream = <<>> /\ deco = comp
    /\ TiledAt(meant.w, meant.h, tiles, tx, ty)
\* A tile is sent, and it is the one the client expects.
TileAhead(bytes, before, after, x, y) ==
    \E px : /\ after = [before EXCEPT !.px = <<x, y, TileWide(after.w, x), TileWide(after.h, y), px>>]
            /\ TileRead(bytes, px, TileWide(after.w, x), TileWide(after.h, y))
TileSent ==
    /\ Tiled /\ shown.kind = "ZRLE" /\ deco = comp /\ tiles # 0
    /\ TiledAt(meant.w, meant.h, tiles - 1, tx, ty) /\ ty < meant.h
    /\ TileAhead(stream, shown, meant, tx, ty)
RectPhase ==
    \/ AtRest \/ RawSent \/ CopySent \/ CursorSent \/ TightUnderWay \/ Painted
    \/ ChunkSent \/ BetweenTiles \/ TileSent
RectsInv == RectsTyped /\ readable = TRUE /\ RectPhase

\* What is sent is awaited.
LEMMA SentIs ==
  ASSUME NEW kind, NEW size, NEW px, NEW bytes, Send(kind, size, px, bytes)
  PROVE  /\ meant'.kind = kind /\ meant'.w = size[1] /\ meant'.h = size[2] /\ meant'.px = px
         /\ stream' = bytes
BY DEF Send

\* The server sends a Raw rectangle.
LEMMA RawPhase ==
  ASSUME AtRest, ServerRaw, UNCHANGED <<shown, deco>>
  PROVE  RawSent'
<1>0. PICK size \in Sizes : \E px \in [1 .. size[1] * size[2] -> Shades] : Send("Raw", size, px, PxTokens(px))
  BY DEF ServerRaw
<1>1. PICK px \in [1 .. size[1] * size[2] -> Shades] : Send("Raw", size, px, PxTokens(px))
  BY <1>0
<1>2. PICK w \in Nat \ {0}, h \in Nat \ {0} : w = size[1] /\ h = size[2]
  BY SizeIs
<1>3. RawRectRead(PxTokens(px), px, w, h)
  <2>1. PICK all \in [1 .. w * h -> Shades] : all = px
    BY <1>2
  <2> QED BY <2>1, RawSentRead
<1>4. comp' = comp
  BY DEF ServerRaw
<1> QED BY <1>1, <1>2, <1>3, <1>4, SentIs DEF AtRest, RawSent, Awaited

\* It sends a CopyRect.
LEMMA CopyPhase ==
  ASSUME AtRest, ServerCopyRect, UNCHANGED <<shown, deco>>
  PROVE  CopySent'
<1>1. PICK size \in Sizes, from \in Shades \X Shades : Send("CopyRect", size, from, <<U16(from[1]), U16(from[2])>>)
  BY DEF ServerCopyRect
<1>2. CopyRectRead(<<U16(from[1]), U16(from[2])>>, from)
  BY CopySentRead
<1>3. comp' = comp
  BY DEF ServerCopyRect
<1> QED BY <1>1, <1>2, <1>3, SentIs DEF AtRest, CopySent, Awaited

\* It sends a cursor.
LEMMA CursorPhase ==
  ASSUME AtRest, ServerCursor, UNCHANGED <<shown, deco>>
  PROVE  CursorSent'
<1>0. PICK size \in Sizes \cup {<<0, 1>>} :
        \E px \in [1 .. size[1] * size[2] -> {0, MaxColour}], opaque \in [1 .. size[1] * size[2] -> {0, 1}] :
           Send("Cursor", size, [i \in DOMAIN px |-> IF opaque[i] = 1 THEN px[i] ELSE Clear],
                IF size[1] = 0 THEN <<>> ELSE PxTokens(px) \o PackRows(opaque, size[1], size[2], 1))
  BY Zenon DEF ServerCursor
<1>1. PICK px \in [1 .. size[1] * size[2] -> {0, MaxColour}], opaque \in [1 .. size[1] * size[2] -> {0, 1}] :
        Send("Cursor", size, [i \in DOMAIN px |-> IF opaque[i] = 1 THEN px[i] ELSE Clear],
             IF size[1] = 0 THEN <<>> ELSE PxTokens(px) \o PackRows(opaque, size[1], size[2], 1))
  BY <1>0
<1>2. comp' = comp
  BY Zenon DEF ServerCursor
<1>3. CursorRead(stream', meant'.px, meant'.w, meant'.h)
  <2>1. CASE size \in Sizes
    <3>1. PICK w \in Nat \ {0}, h \in Nat \ {0} : w = size[1] /\ h = size[2]
      BY <2>1, SizeIs
    <3>2. PICK all \in [1 .. w * h -> {0, MaxColour}], shape \in [1 .. w * h -> {0, 1}] : all = px /\ shape = opaque
      BY <3>1
    <3>3. CursorRead(PxTokens(all) \o PackRows(shape, w, h, 1),
                     [i \in DOMAIN all |-> IF shape[i] = 1 THEN all[i] ELSE Clear], w, h)
      BY CursorSentRead
    <3>4. /\ meant'.w = w /\ meant'.h = h
          /\ meant'.px = [i \in DOMAIN all |-> IF shape[i] = 1 THEN all[i] ELSE Clear]
          /\ stream' = PxTokens(all) \o PackRows(shape, w, h, 1)
      BY <1>1, <3>1, <3>2 DEF Send
    <3> QED BY <3>3, <3>4
  <2>2. CASE size = <<0, 1>>
    <3>1. /\ meant'.w = 0
          /\ meant'.px = [i \in DOMAIN px |-> IF opaque[i] = 1 THEN px[i] ELSE Clear]
          /\ stream' = <<>>
      BY <1>1, <2>2 DEF Send
    <3>2. DOMAIN px = {}
      BY <2>2
    <3>3. meant'.px = <<>>
      BY <3>1, <3>2
    <3> QED BY <3>1, <3>3, EmptyCursorRead
  <2> QED BY <1>1, <2>1, <2>2
<1> QED BY <1>1, <1>2, <1>3, SentIs DEF AtRest, CursorSent, Awaited

\* It begins a ZRLE rectangle: the chunk has the history its compressor had.
LEMMA ChunkPhase ==
  ASSUME AtRest, ServerZrle, UNCHANGED <<shown, deco>>
  PROVE  ChunkSent'
<1>1. PICK size \in TiledSizes : Send("ZRLE", size, <<>>, <<Chunk(4, 0, <<>>)>>)
  BY DEF ServerZrle
<1>2. comp' = [comp EXCEPT ![4] = @ + 1] /\ tiles' = 0
  BY DEF ServerZrle
<1>3. PICK tok : tok = Chunk(4, 0, <<>>) /\ tok.kind = "chunk" /\ tok.val.of = 4 /\ tok.val.at = comp[4]
  <2>1. PICK tok : tok = Chunk(4, 0, <<>>)
    OBVIOUS
  <2>2. tok = [kind |-> "chunk", val |-> [of |-> 4, size |-> 0, at |-> comp[4], data |-> <<>>]]
    BY <2>1, Zenon DEF Chunk
  <2>3. tok.kind = "chunk" /\ tok.val.of = 4 /\ tok.val.at = comp[4]
    BY <2>2
  <2> QED BY <2>1, <2>3
<1>4. stream' = <<tok>> /\ stream' # <<>> /\ Head(stream') = tok
  BY <1>1, <1>3, SentIs
<1>5. size[1] \in Nat \ {0} /\ size[2] \in Nat \ {0}
  BY SizeIs
<1>6. Tiled' /\ meant'.px = <<>>
  BY <1>1, <1>5, SentIs DEF Tiled
<1>7. Inflates(4, tok.val)'
  BY <1>3 DEF Inflates, AtRest
<1> QED BY <1>2, <1>3, <1>4, <1>6, <1>7 DEF AtRest, ChunkSent

\* Whatever way a Tight rectangle is sent, it is read as what was meant, and
\* leaves the decompressors where the compressors are.
LEMMA TightSentRead ==
  ASSUME NEW size \in Sizes, NEW resets \in SUBSET Streams, NEW d \in [Streams -> Nat], NEW fresh, fresh = AfterResets(d, resets),
         NEW n, n = size[1] * size[2], TightSent(size, resets, fresh, n)
  PROVE  /\ meant'.kind = "Tight"
         /\ TightRead(stream', meant'.px, meant'.w, meant'.h, d, comp')
<1>1. PICK w \in Nat \ {0}, h \in Nat \ {0} : w = size[1] /\ h = size[2]
  BY SizeIs
<1>2. ASSUME NEW px, NEW bytes, Send("Tight", size, px, bytes), TightRead(bytes, px, w, h, d, comp')
      PROVE  meant'.kind = "Tight" /\ TightRead(stream', meant'.px, meant'.w, meant'.h, d, comp')
  BY <1>1, <1>2, SentIs
<1>3. n = w * h
  BY <1>1
<1>4. CASE (\E c \in Shades :
             Send("Tight", size, [i \in 1 .. n |-> c], <<Control(resets, 8), Px(c)>>)) /\ comp' = fresh
  <2>1. PICK c \in Shades : Send("Tight", size, [i \in 1 .. n |-> c], <<Control(resets, 8), Px(c)>>)
    BY <1>4
  <2>2. TightRead(<<Control(resets, 8), Px(c)>>, [i \in 1 .. w * h |-> c], w, h, d, AfterResets(d, resets))
    BY FillRead
  <2> QED BY <1>2, <1>3, <1>4, <2>1, <2>2
<1>5. CASE (\E px \in [1 .. n -> Shades], z \in ChunkSizes :
             Send("Tight", size, px, <<Control(resets, 9)>> \o CompactLength(z)
                                     \o <<[kind |-> "jpeg", val |-> [size |-> z, px |-> px]]>>)) /\ comp' = fresh
  <2>1. PICK px \in [1 .. n -> Shades], z \in ChunkSizes :
             Send("Tight", size, px, <<Control(resets, 9)>> \o CompactLength(z)
                                     \o <<[kind |-> "jpeg", val |-> [size |-> z, px |-> px]]>>)
    BY <1>5
  <2>2. PICK m \in Nat : m = n
    <3>1. n \in Nat
      BY <1>3
    <3> QED BY <3>1
  <2>3. PICK all \in [1 .. m -> Shades] : all = px
    BY <2>2
  <2>4. TightRead(<<Control(resets, 9)>> \o CompactLength(z) \o <<[kind |-> "jpeg", val |-> [size |-> z, px |-> all]]>>,
                  all, w, h, d, AfterResets(d, resets))
    BY JpegRead
  <2> QED BY <1>2, <1>5, <2>1, <2>3, <2>4
<1>6. CASE \E f \in TightForms(size[1], size[2]), s \in {0, 1} :
             LET head == <<Control(resets, s + (IF f.filter = <<>> THEN 0 ELSE 4))>> \o f.filter
             IN  IF f.size < MinToCompress
                 THEN Send("Tight", size, f.px, head \o f.data) /\ comp' = fresh
                 ELSE \E z \in ChunkSizes :
                        /\ Send("Tight", size, f.px, head \o CompactLength(z) \o
                                <<[Chunk(s, z, f.data) EXCEPT !.val.at = fresh[s]]>>)
                        /\ comp' = [fresh EXCEPT ![s] = @ + 1]
  <2>1. PICK f \in TightForms(size[1], size[2]), s \in {0, 1} :
             IF f.size < MinToCompress
             THEN Send("Tight", size, f.px, <<Control(resets, SubOf(f, s))>> \o f.filter \o f.data) /\ comp' = fresh
             ELSE \E z \in ChunkSizes :
                    /\ Send("Tight", size, f.px, <<Control(resets, SubOf(f, s))>> \o f.filter \o CompactLength(z) \o
                            <<[Chunk(s, z, f.data) EXCEPT !.val.at = fresh[s]]>>)
                    /\ comp' = [fresh EXCEPT ![s] = @ + 1]
    BY <1>6, Zenon DEF SubOf
  <2>2. PICK k, p : Formed(f, k, p, w, h)
    BY <1>1, FormsRead
  <2>3. CASE f.size < MinToCompress
    <3>1. TightRead(<<Control(resets, SubOf(f, s))>> \o f.filter \o f.data, f.px, w, h, d, AfterResets(d, resets))
      BY <2>2, <2>3, SmallRead
    <3> QED BY <1>2, <2>1, <2>3, <3>1
  <2>4. CASE ~(f.size < MinToCompress)
    <3>1. PICK z \in ChunkSizes :
             /\ Send("Tight", size, f.px, <<Control(resets, SubOf(f, s))>> \o f.filter \o CompactLength(z) \o
                     <<[Chunk(s, z, f.data) EXCEPT !.val.at = fresh[s]]>>)
             /\ comp' = [fresh EXCEPT ![s] = @ + 1]
      BY <2>1, <2>4
    <3>2. PICK at \in Int : at = fresh[s]
      <4>1. s \in Streams
        BY DEF Streams, Tight
      <4>2. fresh[s] \in Nat
        BY <4>1 DEF AfterResets
      <4> QED BY <4>2
    <3>3. PICK tok : tok = [Chunk(s, z, f.data) EXCEPT !.val.at = fresh[s]]
      OBVIOUS
    <3>4. ChunkOf(tok, s, z, at, f.data)
      <4>1. tok = [[kind |-> "chunk", val |-> [of |-> s, size |-> z, at |-> comp[s], data |-> f.data]] EXCEPT !.val.at = at]
        BY <3>2, <3>3, Zenon DEF Chunk
      <4>2. tok = [kind |-> "chunk", val |-> [of |-> s, size |-> z, at |-> at, data |-> f.data]]
        BY <4>1
      <4> QED BY <4>2 DEF ChunkOf
    <3>5. TightRead(<<Control(resets, SubOf(f, s))>> \o f.filter \o CompactLength(z) \o <<tok>>, f.px, w, h, d,
                    [AfterResets(d, resets) EXCEPT ![s] = @ + 1])
      BY <2>2, <2>4, <3>2, <3>4, LargeRead
    <3> QED BY <1>2, <3>1, <3>3, <3>5
  <2> QED BY <2>3, <2>4
<1> QED BY <1>4, <1>5, <1>6, Zenon DEF TightSent

\* It sends a Tight rectangle.
LEMMA TightPhase ==
  ASSUME RectsTyped, AtRest, ServerTight, UNCHANGED <<shown, deco>>
  PROVE  TightUnderWay'
<1>1. PICK size \in Sizes, resets \in {{}, {0}, {0, 1}} :
        TightSent(size, resets, [s \in Streams |-> IF s \in resets THEN 0 ELSE comp[s]], size[1] * size[2])
  BY TightIs, Zenon
<1>2. PICK fresh : fresh = AfterResets(deco, resets)
  OBVIOUS
<1>3. fresh = [s \in Streams |-> IF s \in resets THEN 0 ELSE comp[s]]
  BY <1>2 DEF AfterResets, AtRest
<1>4. PICK n : n = size[1] * size[2]
  OBVIOUS
<1>5. TightSent(size, resets, fresh, n)
  BY <1>1, <1>3, <1>4
<1>6. PICK all \in SUBSET Streams, d \in [Streams -> Nat] : all = resets /\ d = deco
  BY DEF Streams, Tight, RectsTyped
<1>7. meant'.kind = "Tight" /\ TightRead(stream', meant'.px, meant'.w, meant'.h, d, comp')
  BY <1>2, <1>4, <1>5, <1>6, TightSentRead
<1> QED BY <1>6, <1>7 DEF AtRest, TightUnderWay, Awaited

\* It sends the next tile of a ZRLE rectangle, the one the client expects.
LEMMA TilePhase ==
  ASSUME BetweenTiles, ServerTile
  PROVE  TileSent'
<1>1. PICK W \in Nat \ {0}, H \in Nat \ {0} : W = meant.w /\ H = meant.h
  BY DEF BetweenTiles, Tiled
<1>2. TiledAt(W, H, tiles, tx, ty)
  BY <1>1 DEF BetweenTiles
<1>3. /\ tiles \in Nat /\ tx \in Nat /\ ty \in Nat /\ tx < W
      /\ (tiles < CeilDiv(W, TileSize) * CeilDiv(H, TileSize) <=> ty < H)
  BY <1>2, TileWithin
<1>4. (tiles % CeilDiv(W, TileSize)) * TileSize = tx /\ (tiles \div CeilDiv(W, TileSize)) * TileSize = ty
  BY <1>2, TileCounted
<1>5. /\ tiles < CeilDiv(W, TileSize) * CeilDiv(H, TileSize) /\ tiles' = tiles + 1
      /\ UNCHANGED <<shown, tx, ty, comp, deco, updates, readable>>
  BY <1>1 DEF ServerTile, TileCols, TileRows
<1>6. PICK w \in Nat \ {0}, h \in Nat \ {0} :
        /\ w = TileWide(W, tx) /\ w = (IF tx + TileSize > W THEN W - tx ELSE TileSize)
        /\ h = TileWide(H, ty) /\ h = (IF ty + TileSize > H THEN H - ty ELSE TileSize)
  BY <1>3, <1>5, WideIs
<1>7. PICK f \in TileForms(w, h) : stream' = f.bytes /\ meant' = [meant EXCEPT !.px = <<tx, ty, w, h, f.px>>]
  <2>1. \E x, y, a, b :
          /\ x = (tiles % TileCols) * TileSize /\ y = (tiles \div TileCols) * TileSize
          /\ a = (IF x + TileSize > meant.w THEN meant.w - x ELSE TileSize)
          /\ b = (IF y + TileSize > meant.h THEN meant.h - y ELSE TileSize)
          /\ \E f \in TileForms(a, b) : stream' = f.bytes /\ meant' = [meant EXCEPT !.px = <<x, y, a, b, f.px>>]
    BY Zenon DEF ServerTile
  <2>2. PICK x, y, a, b :
          /\ x = (tiles % TileCols) * TileSize /\ y = (tiles \div TileCols) * TileSize
          /\ a = (IF x + TileSize > meant.w THEN meant.w - x ELSE TileSize)
          /\ b = (IF y + TileSize > meant.h THEN meant.h - y ELSE TileSize)
          /\ \E f \in TileForms(a, b) : stream' = f.bytes /\ meant' = [meant EXCEPT !.px = <<x, y, a, b, f.px>>]
    BY <2>1
  <2>3. x = tx /\ y = ty
    BY <1>1, <1>4, <2>2 DEF TileCols
  <2>4. a = w /\ b = h
    BY <1>1, <1>6, <2>2, <2>3
  <2> QED BY <2>2, <2>3, <2>4
<1>8. TileRead(f.bytes, f.px, w, h)
  BY TilesRead
<1>9. meant'.kind = "ZRLE" /\ meant'.w = W /\ meant'.h = H
  <2>1. meant = shown /\ meant.kind = "ZRLE"
    BY DEF BetweenTiles, Tiled
  <2> QED BY <1>1, <1>7, <2>1
<1>10. TileAhead(stream', shown', meant', tx', ty')
  <2>1. shown' = meant /\ tx' = tx /\ ty' = ty
    BY <1>5 DEF BetweenTiles
  <2>2. meant' = [shown' EXCEPT !.px = <<tx', ty', TileWide(meant'.w, tx'), TileWide(meant'.h, ty'), f.px>>]
    BY <1>6, <1>7, <1>9, <2>1
  <2>3. TileRead(stream', f.px, TileWide(meant'.w, tx'), TileWide(meant'.h, ty'))
    BY <1>6, <1>7, <1>8, <1>9, <2>1
  <2> QED BY <2>2, <2>3 DEF TileAhead
<1>11. tiles' # 0 /\ TiledAt(meant'.w, meant'.h, tiles' - 1, tx', ty') /\ ty' < meant'.h
  BY <1>2, <1>3, <1>5, <1>9
<1>12. deco' = comp' /\ shown'.kind = "ZRLE" /\ Tiled'
  BY <1>1, <1>5, <1>9 DEF BetweenTiles, Tiled
<1> QED BY <1>10, <1>11, <1>12 DEF TileSent

-----------------------------------------------------------------------------
(* Rectangles: steps keep the invariant.                                   *)

\* What the server and the client may do says where the rectangle is.
LEMMA PhaseIs ==
  ASSUME RectsInv
  PROVE  /\ meant = Nothing => AtRest
         /\ meant.kind = "Raw" /\ stream # <<>> => RawSent
         /\ meant.kind = "CopyRect" /\ stream # <<>> => CopySent
         /\ meant.kind = "Cursor" /\ shown = Nothing => CursorSent
         /\ meant.kind = "Tight" /\ stream # <<>> => TightUnderWay
         /\ meant.kind = "ZRLE" /\ stream = <<>> => BetweenTiles
         /\ meant.kind = "ZRLE" /\ stream # <<>> /\ Head(stream).kind = "chunk" => ChunkSent
         /\ meant.kind = "ZRLE" /\ stream # <<>> /\ Head(stream).kind # "chunk" => TileSent
         /\ stream = <<>> /\ shown # Nothing => shown = meant /\ deco = comp
         /\ stream = <<>> => deco = comp
<1>1. RectPhase
  BY DEF RectsInv
<1>2. Nothing.kind = "none"
  BY NothingIs
<1>3. CASE AtRest
  BY <1>2, <1>3 DEF AtRest
<1>4. CASE RawSent
  BY <1>2, <1>4 DEF RawSent, Awaited
<1>5. CASE CopySent
  BY <1>2, <1>5 DEF CopySent, Awaited
<1>6. CASE CursorSent
  BY <1>2, <1>6 DEF CursorSent, Awaited
<1>7. CASE TightUnderWay
  <2>1. stream # <<>> /\ meant.kind = "Tight" /\ shown = Nothing
    BY <1>7 DEF TightUnderWay, Awaited, TightRead
  <2> QED BY <1>2, <1>7, <2>1
<1>8. CASE Painted
  BY <1>2, <1>8 DEF Painted
<1>9. CASE ChunkSent
  <2>1. stream # <<>> /\ meant.kind = "ZRLE" /\ Head(stream).kind = "chunk"
    BY <1>9 DEF ChunkSent, Tiled
  <2> QED BY <1>2, <1>9, <2>1
<1>10. CASE BetweenTiles
  <2>1. stream = <<>> /\ meant.kind = "ZRLE" /\ shown = meant /\ deco = comp
    BY <1>10 DEF BetweenTiles, Tiled
  <2> QED BY <1>2, <1>10, <2>1
<1>11. CASE TileSent
  <2>1. stream # <<>> /\ Head(stream).kind = "u8"
    BY <1>11 DEF TileSent, TileAhead, TileRead
  <2>2. meant.kind = "ZRLE"
    BY <1>11 DEF TileSent, Tiled
  <2> QED BY <1>2, <1>11, <2>1, <2>2
<1> QED BY <1>1, <1>3, <1>4, <1>5, <1>6, <1>7, <1>8, <1>9, <1>10, <1>11 DEF RectPhase

\* A step leaves the rectangle somewhere.
LEMMA ServerRectKeeps == ASSUME RectsInv, ServerRect PROVE readable' = TRUE /\ RectPhase'
<1>1. /\ meant = Nothing /\ UNCHANGED <<shown, deco>> /\ readable' = readable
      /\ ServerRaw \/ ServerCopyRect \/ ServerCursor \/ ServerZrle \/ ServerTight
  BY DEF ServerRect
<1>2. AtRest /\ RectsTyped /\ readable = TRUE
  BY <1>1, PhaseIs DEF RectsInv
<1>3. RawSent' \/ CopySent' \/ CursorSent' \/ ChunkSent' \/ TightUnderWay'
  BY <1>1, <1>2, RawPhase, CopyPhase, CursorPhase, ChunkPhase, TightPhase
<1> QED BY <1>1, <1>2, <1>3 DEF RectPhase

\* So does the server's next tile.
LEMMA ServerTileKeeps == ASSUME RectsInv, ServerTile PROVE readable' = TRUE /\ RectPhase'
<1>1. meant.kind = "ZRLE" /\ stream = <<>> /\ readable' = readable
  BY DEF ServerTile
<1>2. BetweenTiles /\ readable = TRUE
  BY <1>1, PhaseIs DEF RectsInv
<1> QED BY <1>1, <1>2, TilePhase DEF RectPhase

\* What was read as it was meant is shown.
LEMMA OutcomeShown ==
  ASSUME RectsTyped, NEW r, r = Understood(<<>>, meant.px), Outcome(r, meant.kind)
  PROVE  readable' = TRUE /\ shown' = meant /\ meant' = meant /\ stream' = <<>> /\ comp' = comp
<1>1. r.ok = TRUE /\ r.buf = <<>> /\ r.val = meant.px
  BY UnderstoodIs
<1>2. meant = [kind |-> meant.kind, w |-> meant.w, h |-> meant.h, px |-> meant.px]
  BY DEF RectsTyped, Pictured
<1>3. readable' = TRUE
  BY <1>1 DEF Outcome
<1> QED BY <1>1, <1>2, <1>3 DEF Outcome

\* The client begins with all that was sent, understood so far.
LEMMA ReaderUnderstood == Reader = Understood(stream, <<>>)
BY DEF Reader, Understood

\* Decoding a Raw rectangle shows it.
LEMMA DecodeRawKeeps == ASSUME RectsInv, DecodeRaw PROVE readable' = TRUE /\ RectPhase'
<1>1. /\ meant.kind = "Raw" /\ stream # <<>> /\ deco' = deco
      /\ Outcome(TakeMany(Reader, "px", meant.w * meant.h), "Raw")
  BY Zenon DEF DecodeRaw
<1>2. RawSent /\ RectsTyped
  BY <1>1, PhaseIs DEF RectsInv
<1>3. TakeMany(Reader, "px", meant.w * meant.h) = Understood(<<>>, meant.px)
  BY <1>2, ReaderUnderstood DEF RawSent, RawRectRead
<1>4. readable' = TRUE /\ shown' = meant /\ meant' = meant /\ stream' = <<>> /\ comp' = comp
  BY <1>1, <1>2, <1>3, OutcomeShown
<1>5. Painted'
  BY <1>1, <1>2, <1>4 DEF Painted, RawSent
<1> QED BY <1>4, <1>5 DEF RectPhase

\* Decoding a CopyRect shows it.
LEMMA DecodeCopyRectKeeps == ASSUME RectsInv, DecodeCopyRect PROVE readable' = TRUE /\ RectPhase'
<1>1. /\ meant.kind = "CopyRect" /\ stream # <<>> /\ deco' = deco
      /\ Outcome(TakeMany(Reader, "u16", 2), "CopyRect")
  BY Zenon DEF DecodeCopyRect
<1>2. CopySent /\ RectsTyped
  BY <1>1, PhaseIs DEF RectsInv
<1>3. TakeMany(Reader, "u16", 2) = Understood(<<>>, meant.px)
  BY <1>2, ReaderUnderstood DEF CopySent, CopyRectRead
<1>4. readable' = TRUE /\ shown' = meant /\ meant' = meant /\ stream' = <<>> /\ comp' = comp
  BY <1>1, <1>2, <1>3, OutcomeShown
<1>5. Painted'
  BY <1>1, <1>2, <1>4 DEF Painted, CopySent
<1> QED BY <1>4, <1>5 DEF RectPhase

\* Decoding a cursor shows it.
LEMMA DecodeCursorKeeps == ASSUME RectsInv, DecodeCursor PROVE readable' = TRUE /\ RectPhase'
<1>1. /\ meant.kind = "Cursor" /\ shown = Nothing /\ deco' = deco
      /\ Outcome(CursorPixels(Reader, meant.w, meant.h), "Cursor")
  BY Zenon DEF DecodeCursor
<1>2. CursorSent /\ RectsTyped
  BY <1>1, PhaseIs DEF RectsInv
<1>3. CursorPixels(Reader, meant.w, meant.h) = Understood(<<>>, meant.px)
  BY <1>2, ReaderUnderstood DEF CursorSent, CursorRead
<1>4. readable' = TRUE /\ shown' = meant /\ meant' = meant /\ stream' = <<>> /\ comp' = comp
  BY <1>1, <1>2, <1>3, OutcomeShown
<1>5. Painted'
  BY <1>1, <1>2, <1>4 DEF Painted, CursorSent
<1> QED BY <1>4, <1>5 DEF RectPhase

\* Decoding a Tight rectangle shows it, and the streams agree again.
LEMMA DecodeTightKeeps == ASSUME RectsInv, DecodeTight PROVE readable' = TRUE /\ RectPhase'
<1>1. PICK rect : /\ rect = TightRect(Reader, meant.w, meant.h, deco)
                  /\ meant.kind = "Tight" /\ stream # <<>>
                  /\ Outcome(rect.r, "Tight") /\ deco' = rect.zlib
  BY Zenon DEF DecodeTight
<1>2. TightUnderWay /\ RectsTyped
  BY <1>1, PhaseIs DEF RectsInv
<1>3. rect = [r |-> Understood(<<>>, meant.px), zlib |-> comp]
  BY <1>1, <1>2, ReaderUnderstood DEF TightUnderWay, TightRead
<1>4. rect.r = Understood(<<>>, meant.px) /\ rect.zlib = comp
  BY <1>3
<1>5. readable' = TRUE /\ shown' = meant /\ meant' = meant /\ stream' = <<>> /\ comp' = comp
  BY <1>1, <1>2, <1>4, OutcomeShown
<1>6. Painted'
  BY <1>1, <1>4, <1>5 DEF Painted
<1> QED BY <1>5, <1>6 DEF RectPhase

\* Inflating the chunk of a ZRLE rectangle leaves it between tiles.
LEMMA DecodeZRLEKeeps == ASSUME RectsInv, DecodeZRLE PROVE readable' = TRUE /\ RectPhase'
<1>1. /\ meant.kind = "ZRLE" /\ stream # <<>> /\ Head(stream).kind = "chunk"
      /\ readable' = Inflates(4, Head(stream).val)
      /\ deco' = [deco EXCEPT ![4] = @ + 1]
      /\ stream' = <<>> /\ tx' = 0 /\ ty' = 0
      /\ shown' = [kind |-> "ZRLE", w |-> meant.w, h |-> meant.h, px |-> <<>>]
      /\ UNCHANGED <<meant, tiles, comp, updates>>
  BY DEF DecodeZRLE
<1>2. ChunkSent /\ RectsTyped
  BY <1>1, PhaseIs DEF RectsInv
<1>3. readable' = TRUE
  BY <1>1, <1>2 DEF ChunkSent
<1>4. shown' = meant'
  BY <1>1, <1>2 DEF RectsTyped, Pictured, ChunkSent
<1>5. PICK w \in Nat \ {0}, h \in Nat \ {0} : w = meant.w /\ h = meant.h
  BY <1>2 DEF ChunkSent, Tiled
<1>6. TiledAt(w, h, 0, 0, 0)
  BY FirstTile
<1>7. TiledAt(meant'.w, meant'.h, tiles', tx', ty')
  BY <1>1, <1>2, <1>5, <1>6 DEF ChunkSent
<1>8. deco' = comp' /\ stream' = <<>> /\ Tiled'
  BY <1>1, <1>2 DEF ChunkSent, Tiled
<1> QED BY <1>3, <1>4, <1>7, <1>8 DEF BetweenTiles, RectPhase

\* The client's loop variables go on as the server's tiles do.
LEMMA TurnIs ==
  ASSUME RectsTyped, TileSent,
         IF tx + TileSize < meant.w THEN tx' = tx + TileSize /\ UNCHANGED ty
                                    ELSE tx' = 0 /\ ty' = ty + TileSize
  PROVE  TiledAt(meant.w, meant.h, tiles, tx', ty')
<1>1. PICK w \in Nat \ {0}, h \in Nat \ {0} : w = meant.w /\ h = meant.h
  BY DEF TileSent, Tiled
<1>2. PICK n : n = tiles - 1
  OBVIOUS
<1>3. TiledAt(w, h, n, tx, ty) /\ ty < h
  BY <1>1, <1>2 DEF TileSent
<1>4. n + 1 = tiles
  <2>1. n \in Nat
    BY <1>3, TileWithin
  <2> QED BY <1>2, <2>1 DEF RectsTyped
<1>5. /\ tx + TileSize < w => TiledAt(w, h, n + 1, tx + TileSize, ty)
      /\ ~(tx + TileSize < w) => TiledAt(w, h, n + 1, 0, ty + TileSize)
  BY <1>3, NextTile
<1> QED BY <1>1, <1>4, <1>5

\* Decoding a tile shows it.
LEMMA DecodeTileKeeps == ASSUME RectsInv, DecodeTile PROVE readable' = TRUE /\ RectPhase'
<1>1. /\ meant.kind = "ZRLE" /\ stream # <<>> /\ Head(stream).kind # "chunk"
      /\ IF tx + TileSize < meant.w THEN tx' = tx + TileSize /\ UNCHANGED ty
                                    ELSE tx' = 0 /\ ty' = ty + TileSize
      /\ stream' = <<>> /\ UNCHANGED <<meant, tiles, comp, deco, updates>>
  BY DEF DecodeTile
<1>2. PICK tileW, tileH, r :
        /\ tileW = TileWide(meant.w, tx) /\ tileH = TileWide(meant.h, ty)
        /\ r = DecodeZRLETile(Reader, tileW, tileH)
        /\ readable' = (r.ok /\ r.buf = <<>>)
        /\ shown' = IF readable' THEN [shown EXCEPT !.px = <<tx, ty, tileW, tileH, r.val>>] ELSE Nothing
  <2>1. \E tileW, tileH, r :
        /\ tileH = (IF TileSize < meant.h - ty THEN TileSize ELSE meant.h - ty)
        /\ tileW = (IF TileSize < meant.w - tx THEN TileSize ELSE meant.w - tx)
        /\ r = DecodeZRLETile(Reader, tileW, tileH)
        /\ readable' = (r.ok /\ r.buf = <<>>)
        /\ shown' = IF readable' THEN [shown EXCEPT !.px = <<tx, ty, tileW, tileH, r.val>>] ELSE Nothing
    BY Zenon DEF DecodeTile
  <2> QED BY <2>1, Zenon DEF TileWide
<1>3. TileSent /\ RectsTyped
  BY <1>1, PhaseIs DEF RectsInv
<1>4. PICK px : /\ meant = [shown EXCEPT !.px = <<tx, ty, tileW, tileH, px>>]
                /\ TileRead(stream, px, tileW, tileH)
  BY <1>2, <1>3 DEF TileSent, TileAhead
<1>5. r = Understood(<<>>, px)
  <2>1. DecodeZRLETile(Understood(stream, <<>>), tileW, tileH) = Understood(<<>>, px)
    BY <1>4 DEF TileRead
  <2> QED BY <1>2, <2>1, ReaderUnderstood
<1>6. readable' = TRUE
  BY <1>2, <1>5, UnderstoodIs
<1>7. shown' = meant'
  <2>1. shown' = [shown EXCEPT !.px = <<tx, ty, tileW, tileH, r.val>>]
    BY <1>2, <1>6
  <2>2. r.val = px
    BY <1>5, UnderstoodIs
  <2> QED BY <1>1, <1>4, <2>1, <2>2
<1>8. TiledAt(meant.w, meant.h, tiles, tx', ty')
  BY <1>1, <1>3, TurnIs
<1>9. deco' = comp' /\ Tiled' /\ TiledAt(meant'.w, meant'.h, tiles', tx', ty')
  BY <1>1, <1>3, <1>8 DEF TileSent, Tiled
<1> QED BY <1>1, <1>6, <1>7, <1>9 DEF BetweenTiles, RectPhase

\* The next rectangle finds the streams in agreement.
LEMMA NextRectKeeps == ASSUME RectsInv, NextRect PROVE readable' = TRUE /\ RectPhase'
<1>1. /\ stream = <<>> /\ shown # Nothing
      /\ meant' = Nothing /\ shown' = Nothing /\ tiles' = 0 /\ tx' = 0 /\ ty' = 0
      /\ UNCHANGED <<stream, comp, deco, updates, readable>>
  BY DEF NextRect
<1>2. deco = comp /\ readable = TRUE
  BY <1>1, PhaseIs DEF RectsInv
<1>3. AtRest'
  BY <1>1, <1>2 DEF AtRest
<1> QED BY <1>1, <1>2, <1>3 DEF RectPhase

\* Every step keeps the invariant.
LEMMA RectsStepKeeps == ASSUME RectsInv, RectsNext PROVE RectsInv'
<1>1. RectsTyped'
  BY RectsStepTyped DEF RectsInv
<1>2. readable' = TRUE /\ RectPhase'
  BY ServerRectKeeps, ServerTileKeeps, NextRectKeeps, DecodeRawKeeps, DecodeCopyRectKeeps, DecodeCursorKeeps,
     DecodeZRLEKeeps, DecodeTileKeeps, DecodeTightKeeps DEF RectsNext
<1> QED BY <1>1, <1>2 DEF RectsInv

\* So does a step that leaves the rectangles alone.
LEMMA RectsQuiet == ASSUME RectsInv, UNCHANGED rectsVars PROVE RectsInv'
<1>1. RectsTyped'
  BY DEF RectsInv, RectsTyped, rectsVars, Pictured
<1>2. readable' = TRUE
  BY DEF RectsInv, rectsVars
<1>3. RectPhase'
  BY DEF RectsInv, RectPhase, rectsVars, AtRest, Awaited, RawSent, CopySent, CursorSent, TightUnderWay, Painted,
         Tiled, ChunkSent, BetweenTiles, TileSent, Inflates
<1> QED BY <1>1, <1>2, <1>3 DEF RectsInv

\* All tiles are sent exactly when the client's loop is over.
LEMMA LoopEnds ==
  ASSUME BetweenTiles
  PROVE  AllTilesSent <=> ty >= meant.h
<1>1. PICK w \in Nat \ {0}, h \in Nat \ {0} : w = meant.w /\ h = meant.h
  BY DEF BetweenTiles, Tiled
<1>2. TiledAt(w, h, tiles, tx, ty)
  BY <1>1 DEF BetweenTiles
<1>3. PICK n \in Nat, m \in Nat, y \in Nat :
        /\ n = tiles /\ m = CeilDiv(w, TileSize) * CeilDiv(h, TileSize) /\ y = ty
        /\ n <= m /\ (n < m <=> y < h)
  BY <1>2, TileWithin
<1>4. AllTilesSent <=> n = m
  BY <1>1, <1>3 DEF AllTilesSent, TileCols, TileRows, BetweenTiles, Tiled
<1> QED BY <1>1, <1>3, <1>4

\* Whatever way the server writes a rectangle, of any size and with any palettes
\* and thresholds, the client reads exactly its bytes, keeps each zlib stream in
\* step with its compressor, and shows the picture that was meant, tile by tile
\* (encodings.go, tight.go).
THEOREM RectsShown == RectsSpec => []RectsFaithful
<1>1. RectsInit => RectsInv
  <2>1. RectsInit => [s \in Streams |-> 0] \in [Streams -> Nat]
    OBVIOUS
  <2>2. RectsInit => RectsTyped
    BY <2>1, NothingIs, RectsAssumption DEF RectsInit, RectsTyped
  <2>3. RectsInit => AtRest /\ readable = TRUE
    BY DEF RectsInit, AtRest
  <2> QED BY <2>2, <2>3 DEF RectsInv, RectPhase
<1>2. RectsInv /\ [RectsNext]_rectsVars => RectsInv'
  BY RectsStepKeeps, RectsQuiet
<1>3. RectsInv => RectsFaithful
  <2> SUFFICES ASSUME RectsInv PROVE RectsFaithful
    OBVIOUS
  <2>1. readable = TRUE
    BY DEF RectsInv
  <2>2. /\ stream = <<>> /\ shown # Nothing => shown = meant
        /\ stream = <<>> => deco = comp
    BY PhaseIs
  <2>3. stream = <<>> /\ meant.kind = "ZRLE" => (AllTilesSent <=> ty >= meant.h)
    BY PhaseIs, LoopEnds
  <2> QED BY <2>1, <2>2, <2>3 DEF RectsFaithful
<1> QED BY <1>1, <1>2, <1>3, PTL DEF RectsSpec

\* The same of the four decoders together, with the types.
THEOREM RectsDecoded == Spec => [](RectsTypeOK /\ RectsFaithful)
<1>1. Spec => []RectsTypeOK
  BY RectsTakePart, RectsTypes, PTL
<1>2. Spec => []RectsFaithful
  BY RectsTakePart, RectsShown, PTL
<1> QED BY <1>1, <1>2, PTL

-----------------------------------------------------------------------------
(* All parts.                                                              *)

\* Every variable of every part keeps its type, if no server announces a
\* version before 3.3 (see HandshakeSound).
THEOREM TypeCorrect ==
  ASSUME \A v \in ServerVersions : v[1] > 3 \/ (v[1] = 3 /\ v[2] >= 3)
  PROVE  Spec => []TypeOK
<1>1. Init => part \in Parts
  BY DEF Init
<1>2. part \in Parts /\ [Next]_decoderVars => (part \in Parts)'
  BY DEF Next, decoderVars
<1>3. Spec => [](part \in Parts)
  BY <1>1, <1>2, PTL DEF Spec
<1>4. Spec => [](HandshakeTypeOK /\ HandshakeAgrees)
  BY HandshakeSound
<1>5. Spec => []RectsTypeOK
  BY RectsTakePart, RectsTypes, PTL
<1>6. part \in Parts /\ HandshakeTypeOK /\ RectsTypeOK /\ RleTypeOK /\ OrdersTypeOK => TypeOK
  BY DEF TypeOK
<1> QED BY <1>3, <1>4, <1>5, <1>6, BitmapsDecoded, OrdersDecoded, PTL
=============================================================================
