------------------------- MODULE RfbPipeline_proofs -------------------------
(***************************************************************************)
(* Proofs about RfbPipeline for every number of levels, cooldown, screen   *)
(* width and number of resizes: the type invariant, the four safety        *)
(* invariants, and that the update loop implements UpdateExchange.         *)
(*                                                                         *)
(* The inductive invariant describes the messages under way: a format      *)
(* message is always the first of its queue and names sentLevel, a request *)
(* always closes the queue, and of the queue, the server's pending request *)
(* and the update not yet read at most one holds the client's request.     *)
(***************************************************************************)
EXTENDS RfbPipeline, TLAPS

\* The server holds, or will receive, or has answered unread, a request.
Outstanding == RequestsIn(toServer) # {} \/ srvReq # 0 \/ toClient # <<>>

FormatsIn(q) == {i \in DOMAIN q : q[i].type = "format"}

\* Format messages lead their queue, name the level sent last, and are on
\* their way only together with a request or before Run starts.
QueueInv ==
    /\ \A i \in FormatsIn(toServer) :
          i = 1 /\ toServer[i].level = sentLevel /\ toServer[i].tight = (sentLevel = 0)
    /\ FormatsIn(toServer) # {} => RequestsIn(toServer) # {} \/ phase = "dialed"

\* Whose turn it is: a request is outstanding unless Run has not started or
\* an update that was not pipelined is being decoded.
TurnInv == Outstanding <=> (phase = "idle" \/ (phase = "rects" /\ pipelined))

\* With no format message under way the server uses the level sent last.
ServerInv ==
    FormatsIn(toServer) = {} => srvFmt = sentLevel /\ srvTight = (sentLevel = 0)

\* An unread update is in the level sent last, with Tight only at level 0.
UpdateInv ==
    toClient # <<>> =>
        /\ toClient[1].fmt = sentLevel
        /\ \A k \in DOMAIN toClient[1].rects :
              toClient[1].rects[k].kind = "tight" => sentLevel = 0

\* The client decodes at the level sent last, except while it decodes an
\* update after which it has already announced another one.
ClientInv ==
    /\ phase # "failed"
    /\ phase \in {"dialed", "idle"} => level = sentLevel
    /\ phase = "rects" =>
          /\ curFmt = level
          /\ IF pipelined THEN sentLevel = wantLevel ELSE sentLevel = level
          /\ \A k \in DOMAIN rects : rects[k].kind = "tight" => level = 0
    /\ cooldown = 0 => wantLevel = level

IInv == /\ TypeOK /\ OneRequestInFlight /\ QueueInv /\ TurnInv /\ ServerInv
        /\ UpdateInv /\ ClientInv

-----------------------------------------------------------------------------
(* Facts about the message sets and the queues.                            *)

LEMMA MessageTypes ==
    /\ \A l \in Levels : FormatMsg(l) \in ClientMessages
    /\ \A inc \in BOOLEAN, w \in Widths : RequestMsg(inc, w) \in ClientMessages
    /\ \A w \in Widths : [kind |-> "size", width |-> w] \in Rects
    /\ [kind |-> "pixels"] \in Rects /\ [kind |-> "tight"] \in Rects
BY DEF FormatMsg, RequestMsg, ClientMessages, Rects

\* Reading the head of a queue shifts what is left by one.
LEMMA TailIndex ==
    ASSUME NEW S, NEW q \in Seq(S), q # <<>>
    PROVE  /\ Tail(q) \in Seq(S) /\ Head(q) = q[1] /\ Head(q) \in S
           /\ 1 \in DOMAIN q
           /\ \A i \in DOMAIN Tail(q) : i + 1 \in DOMAIN q /\ Tail(q)[i] = q[i + 1]
           /\ \A i \in DOMAIN q : i = 1 \/ (i - 1 \in DOMAIN Tail(q) /\ Tail(q)[i - 1] = q[i])
OBVIOUS

\* A message at the end of a queue leaves the others where they are.
LEMMA AppendIndex ==
    ASSUME NEW S, NEW q \in Seq(S), NEW m \in S
    PROVE  /\ Append(q, m) \in Seq(S)
           /\ DOMAIN Append(q, m) = DOMAIN q \cup {Len(q) + 1}
           /\ Len(q) + 1 \notin DOMAIN q
           /\ Append(q, m)[Len(q) + 1] = m
           /\ \A i \in DOMAIN q : Append(q, m)[i] = q[i]
OBVIOUS

LEMMA ShortSequences ==
    ASSUME NEW S, NEW a \in S, NEW b \in S
    PROVE  <<a>> \in Seq(S) /\ <<a, b>> \in Seq(S)
OBVIOUS

LEMMA EmptyConcat == ASSUME NEW S, NEW q \in Seq(S) PROVE <<>> \o q = q
OBVIOUS

-----------------------------------------------------------------------------
LEMMA InitIInv == Init => IInv
<1> SUFFICES ASSUME Init PROVE IInv
  OBVIOUS
<1> USE PipelineAssumption
<1>1. TypeOK
  <2>1. level \in Levels
    BY DEF Init, Levels
  <2>2. toServer \in Seq(ClientMessages)
    BY <2>1, MessageTypes DEF Init
  <2>3. rects \in Seq(Rects) /\ toClient \in Seq(Updates)
    BY DEF Init
  <2>4. /\ srvFmt \in Levels /\ srvReq \in 0..MaxWidth /\ resizes \in 0..MaxResizes
        /\ cooldown \in 0..AdaptCooldown
    BY DEF Init, Levels
  <2>5. QED
    BY <2>1, <2>2, <2>3, <2>4 DEF Init, TypeOK
<1>2. /\ RequestsIn(toServer) = {}
      /\ FormatsIn(toServer) = {1}
      /\ toServer[1] = FormatMsg(level)
  BY DEF Init, RequestsIn, FormatsIn, FormatMsg
<1>3. OneRequestInFlight /\ QueueInv
  BY <1>2 DEF Init, OneRequestInFlight, QueueInv, FormatMsg
<1>4. TurnInv /\ ServerInv /\ UpdateInv /\ ClientInv
  BY <1>2 DEF Init, TurnInv, Outstanding, ServerInv, UpdateInv, ClientInv
<1>5. QED
  BY <1>1, <1>3, <1>4 DEF IInv

-----------------------------------------------------------------------------
(* The client's steps.                                                     *)

\* A queue without requests and formats is empty.
LEMMA EmptyQueue ==
    ASSUME toServer \in Seq(ClientMessages),
           RequestsIn(toServer) = {}, FormatsIn(toServer) = {}
    PROVE  toServer = <<>>
<1>1. \A i \in DOMAIN toServer : toServer[i].type \in {"format", "request"}
  BY DEF ClientMessages
<1>2. DOMAIN toServer = {}
  BY <1>1 DEF RequestsIn, FormatsIn
<1>3. QED
  BY <1>2

\* What sendNextRequest leaves in an empty queue: one request, preceded by
\* the new format if that differs from the one sent last.
LEMMA SendNextFacts ==
    ASSUME toServer = <<>>, NEW want \in Levels, NEW w \in Widths,
           SendNextRequest(want, w)
    PROVE  /\ toServer' \in Seq(ClientMessages)
           /\ sentLevel' = want
           /\ RequestsIn(toServer') # {}
           /\ \A i, j \in RequestsIn(toServer') : i = j
           /\ \A i \in FormatsIn(toServer') :
                 /\ i = 1
                 /\ toServer'[i].level = want
                 /\ toServer'[i].tight = (want = 0)
           /\ FormatsIn(toServer') = {} => want = sentLevel
<1>1. FormatMsg(want) \in ClientMessages /\ RequestMsg(TRUE, w) \in ClientMessages
  BY MessageTypes
<1>2. sentLevel' = want
  BY DEF SendNextRequest
<1>3. CASE want = sentLevel
  <2>1. toServer' = <<RequestMsg(TRUE, w)>>
    BY <1>3 DEF SendNextRequest
  <2>2. RequestsIn(toServer') = {1} /\ FormatsIn(toServer') = {}
    BY <2>1 DEF RequestsIn, FormatsIn, RequestMsg
  <2>3. toServer' \in Seq(ClientMessages)
    BY <1>1, <2>1, ShortSequences
  <2>4. QED
    BY <1>2, <1>3, <2>2, <2>3
<1>4. CASE want # sentLevel
  <2> DEFINE two == <<FormatMsg(want), RequestMsg(TRUE, w)>>
  <2>0. two \in Seq(ClientMessages) /\ toServer' = <<>> \o two
    BY <1>1, <1>4, ShortSequences DEF SendNextRequest
  <2>1. toServer' = two
    <3> HIDE DEF two
    <3> QED BY <2>0, EmptyConcat
  <2>2. RequestsIn(toServer') = {2} /\ FormatsIn(toServer') = {1}
    BY <2>1 DEF RequestsIn, FormatsIn, RequestMsg, FormatMsg
  <2>3. toServer'[1].level = want /\ toServer'[1].tight = (want = 0)
    BY <2>1 DEF FormatMsg
  <2>4. toServer' \in Seq(ClientMessages)
    BY <2>0, <2>1
  <2>5. QED
    BY <1>2, <2>2, <2>3, <2>4
<1>5. QED
  BY <1>3, <1>4

LEMMA StartRunStep == IInv /\ StartRun => IInv'
<1> SUFFICES ASSUME IInv, StartRun PROVE IInv'
  OBVIOUS
<1> USE DEF IInv
<1>1. RequestsIn(toServer) = {} /\ srvReq = 0 /\ toClient = <<>>
  BY DEF StartRun, TurnInv, Outstanding
<1> DEFINE m == RequestMsg(FALSE, width)
<1>2. m \in ClientMessages /\ m.type = "request"
  BY MessageTypes DEF TypeOK, RequestMsg
<1>3. toServer \in Seq(ClientMessages) /\ toServer' = Append(toServer, m)
  BY DEF StartRun, TypeOK
<1> HIDE DEF m
<1>4. /\ RequestsIn(toServer') = {Len(toServer) + 1}
      /\ FormatsIn(toServer') = FormatsIn(toServer)
      /\ \A i \in FormatsIn(toServer) : toServer'[i] = toServer[i]
      /\ toServer' \in Seq(ClientMessages)
  BY <1>1, <1>2, <1>3, AppendIndex DEF RequestsIn, FormatsIn
<1>5. TypeOK'
  BY <1>4 DEF TypeOK, StartRun, serverVars
<1>6. OneRequestInFlight'
  BY <1>1, <1>4 DEF OneRequestInFlight, StartRun, serverVars
<1>7. QueueInv' /\ TurnInv'
  BY <1>4 DEF QueueInv, TurnInv, Outstanding, StartRun
<1>8. ServerInv' /\ UpdateInv' /\ ClientInv'
  BY <1>1, <1>4 DEF ServerInv, UpdateInv, ClientInv, StartRun, serverVars
<1>9. QED
  BY <1>5, <1>6, <1>7, <1>8

LEMMA ReadHeaderStep == IInv /\ ReadHeader => IInv'
<1> SUFFICES ASSUME IInv, ReadHeader PROVE IInv'
  OBVIOUS
<1> USE DEF IInv
<1>1. /\ toClient \in Seq(Updates) /\ toClient # <<>> /\ phase = "idle"
      /\ RequestsIn(toServer) = {} /\ srvReq = 0 /\ Len(toClient) <= 1
  BY DEF ReadHeader, OneRequestInFlight, TypeOK
<1>2. toServer = <<>> /\ FormatsIn(toServer) = {}
  BY <1>1, EmptyQueue DEF QueueInv, TypeOK
<1>3. /\ Head(toClient) = toClient[1] /\ Head(toClient) \in Updates /\ Tail(toClient) = <<>>
  BY <1>1, TailIndex
<1>4. /\ toClient' = <<>> /\ phase' = "rects"
      /\ rects' = toClient[1].rects /\ rects' \in Seq(Rects)
      /\ curFmt' = sentLevel /\ curFmt' \in Levels
      /\ level' = level /\ level = sentLevel
      /\ \A k \in DOMAIN rects' : rects'[k].kind = "tight" => level' = 0
  BY <1>1, <1>3 DEF ReadHeader, UpdateInv, ClientInv, Updates
<1>5. /\ srvFmt = sentLevel /\ srvTight = (sentLevel = 0)
  BY <1>2 DEF ServerInv
<1>6. CASE lastFast
  <2>1. SendNextRequest(wantLevel, width) /\ wantLevel \in Levels /\ width \in Widths
    BY <1>6 DEF ReadHeader, TypeOK
  <2>2. /\ toServer' \in Seq(ClientMessages)
        /\ sentLevel' = wantLevel
        /\ RequestsIn(toServer') # {}
        /\ \A i, j \in RequestsIn(toServer') : i = j
        /\ \A i \in FormatsIn(toServer') :
              /\ i = 1
              /\ toServer'[i].level = wantLevel
              /\ toServer'[i].tight = (wantLevel = 0)
        /\ FormatsIn(toServer') = {} => wantLevel = sentLevel
    BY <1>2, <2>1, SendNextFacts
  <2>3. TypeOK'
    <3>1. /\ phase' \in {"dialed", "idle", "rects", "failed"}
          /\ level' \in Levels /\ sentLevel' \in Levels /\ wantLevel' \in Levels
          /\ cooldown' \in 0..AdaptCooldown /\ width' \in Widths
          /\ toClient' \in Seq(Updates)
      BY <1>4, <2>1, <2>2 DEF TypeOK, ReadHeader
    <3>2. lastFast' \in BOOLEAN /\ pipelined' \in BOOLEAN /\ usedTight' \in BOOLEAN
      BY DEF TypeOK, ReadHeader
    <3>3. QED
      BY <1>4, <2>2, <3>1, <3>2 DEF TypeOK, ReadHeader, serverVars
  <2>4. OneRequestInFlight'
    BY <1>1, <1>4, <2>2 DEF OneRequestInFlight, ReadHeader, serverVars
  <2>5. QueueInv' /\ TurnInv'
    BY <1>4, <1>6, <2>2 DEF QueueInv, TurnInv, Outstanding, ReadHeader
  <2>6. ServerInv' /\ UpdateInv'
    BY <1>4, <1>5, <2>2 DEF ServerInv, UpdateInv, ReadHeader, serverVars
  <2>7. ClientInv'
    BY <1>4, <1>6, <2>2 DEF ClientInv, ReadHeader
  <2>8. QED
    BY <2>3, <2>4, <2>5, <2>6, <2>7
<1>7. CASE ~lastFast
  <2>1. toServer' = toServer /\ sentLevel' = sentLevel /\ pipelined' = FALSE
    BY <1>7 DEF ReadHeader, TypeOK
  <2>2. TypeOK'
    <3>1. lastFast' \in BOOLEAN /\ pipelined' \in BOOLEAN /\ usedTight' \in BOOLEAN
      BY DEF TypeOK, ReadHeader
    <3>2. toClient' \in Seq(Updates) /\ toServer' \in Seq(ClientMessages)
      BY <1>4, <2>1 DEF TypeOK
    <3>3. QED
      BY <1>4, <2>1, <3>1, <3>2 DEF TypeOK, ReadHeader, serverVars
  <2>3. OneRequestInFlight' /\ QueueInv' /\ TurnInv'
    BY <1>1, <1>2, <1>4, <2>1 DEF OneRequestInFlight, QueueInv, TurnInv, Outstanding,
                                  ReadHeader, serverVars
  <2>4. ServerInv' /\ UpdateInv' /\ ClientInv'
    BY <1>4, <1>5, <2>1 DEF ServerInv, UpdateInv, ClientInv, ReadHeader, serverVars
  <2>5. QED
    BY <2>2, <2>3, <2>4
<1>8. QED
  BY <1>6, <1>7

LEMMA DecodeRectStep == IInv /\ DecodeRect => IInv'
<1> SUFFICES ASSUME IInv, DecodeRect PROVE IInv'
  OBVIOUS
<1> USE DEF IInv
<1> DEFINE r == Head(rects)
<1>1. /\ rects \in Seq(Rects) /\ rects # <<>>
      /\ rects[1] = r /\ r \in Rects /\ 1 \in DOMAIN rects
      /\ rects' = Tail(rects) /\ rects' \in Seq(Rects)
      /\ \A i \in DOMAIN rects' : i + 1 \in DOMAIN rects /\ rects'[i] = rects[i + 1]
  BY TailIndex DEF DecodeRect, TypeOK
<1> HIDE DEF r
<1>2. /\ phase = "rects"
      /\ r.kind = "tight" => level = 0
      /\ \A k \in DOMAIN rects' : rects'[k].kind = "tight" => level = 0
  BY <1>1 DEF DecodeRect, ClientInv
<1>3. /\ phase' = "rects"
      /\ usedTight' = (usedTight \/ r.kind = "tight")
      /\ width' = WidthAfter(r)
  BY <1>2 DEF DecodeRect, r
<1>4. width' \in Widths
  BY <1>1, <1>3 DEF WidthAfter, Rects, TypeOK
<1>5. TypeOK'
  <2>1. usedTight' \in BOOLEAN
    BY <1>3
  <2>2. QED
    BY <1>1, <1>3, <1>4, <2>1 DEF TypeOK, DecodeRect, serverVars
<1>6. OneRequestInFlight' /\ QueueInv' /\ TurnInv' /\ ServerInv' /\ UpdateInv'
  BY <1>2, <1>3 DEF OneRequestInFlight, QueueInv, TurnInv, Outstanding, ServerInv, UpdateInv,
                    DecodeRect, serverVars
<1>7. ClientInv'
  BY <1>2, <1>3 DEF ClientInv, DecodeRect
<1>8. QED
  BY <1>5, <1>6, <1>7

LEMMA FinishUpdateStep == IInv /\ FinishUpdate => IInv'
<1> SUFFICES ASSUME IInv, FinishUpdate PROVE IInv'
  OBVIOUS
<1> USE PipelineAssumption DEF IInv
<1>1. /\ phase = "rects" /\ phase' = "idle" /\ rects' = rects /\ rects = <<>>
      /\ pipelined' = pipelined /\ toClient' = toClient /\ level' = sentLevel'
  BY DEF FinishUpdate, LevelInForce
<1>2. /\ wantLevel' \in Levels /\ cooldown' \in 0..AdaptCooldown
      /\ cooldown' = 0 => wantLevel' = wantLevel
  BY DEF FinishUpdate, NoteUpdate, Pause, TypeOK
<1>3. lastFast' \in BOOLEAN
  BY DEF FinishUpdate
<1>4. CASE pipelined
  <2>1. toServer' = toServer /\ sentLevel' = sentLevel
    BY <1>4 DEF FinishUpdate, AskAtEnd
  <2>2. TypeOK'
    BY <1>1, <1>2, <1>3, <2>1 DEF TypeOK, FinishUpdate, serverVars
  <2>3. OneRequestInFlight' /\ QueueInv' /\ TurnInv' /\ ServerInv' /\ UpdateInv'
    BY <1>1, <1>4, <2>1 DEF OneRequestInFlight, QueueInv, TurnInv, Outstanding, ServerInv,
                            UpdateInv, FinishUpdate, serverVars
  <2>4. ClientInv'
    BY <1>1, <1>2, <1>4, <2>1 DEF ClientInv
  <2>5. QED
    BY <2>2, <2>3, <2>4
<1>5. CASE ~pipelined
  <2>1. RequestsIn(toServer) = {} /\ srvReq = 0 /\ toClient = <<>>
    BY <1>1, <1>5 DEF TurnInv, Outstanding
  <2>2. toServer = <<>> /\ FormatsIn(toServer) = {}
    BY <1>1, <2>1, EmptyQueue DEF QueueInv, TypeOK
  <2>3. SendNextRequest(wantLevel', width) /\ width \in Widths
    BY <1>5 DEF FinishUpdate, AskAtEnd, TypeOK
  <2>4. /\ toServer' \in Seq(ClientMessages)
        /\ sentLevel' = wantLevel'
        /\ RequestsIn(toServer') # {}
        /\ \A i, j \in RequestsIn(toServer') : i = j
        /\ \A i \in FormatsIn(toServer') :
              /\ i = 1
              /\ toServer'[i].level = wantLevel'
              /\ toServer'[i].tight = (wantLevel' = 0)
        /\ FormatsIn(toServer') = {} => wantLevel' = sentLevel
    BY <1>2, <2>2, <2>3, SendNextFacts
  <2>5. TypeOK'
    BY <1>1, <1>2, <1>3, <2>4 DEF TypeOK, FinishUpdate, serverVars
  <2>6. OneRequestInFlight' /\ QueueInv' /\ TurnInv'
    BY <1>1, <2>1, <2>4 DEF OneRequestInFlight, QueueInv, TurnInv, Outstanding, FinishUpdate,
                            serverVars
  <2>7. ServerInv' /\ UpdateInv' /\ ClientInv'
    BY <1>1, <2>1, <2>2, <2>4 DEF ServerInv, UpdateInv, ClientInv, FinishUpdate, serverVars
  <2>8. QED
    BY <2>5, <2>6, <2>7
<1>6. QED
  BY <1>4, <1>5

-----------------------------------------------------------------------------
(* The server's steps.                                                     *)

LEMMA ServerReadStep == IInv /\ ServerRead => IInv'
<1> SUFFICES ASSUME IInv, ServerRead PROVE IInv'
  OBVIOUS
<1> USE DEF IInv
<1> DEFINE m == Head(toServer)
<1>1. /\ toServer \in Seq(ClientMessages) /\ toServer # <<>>
      /\ toServer[1] = m /\ m \in ClientMessages /\ 1 \in DOMAIN toServer
      /\ toServer' = Tail(toServer) /\ toServer' \in Seq(ClientMessages)
      /\ \A i \in DOMAIN toServer' :
            i + 1 \in DOMAIN toServer /\ toServer'[i] = toServer[i + 1] /\ i + 1 # 1
      /\ \A i \in DOMAIN toServer :
            i = 1 \/ (i - 1 \in DOMAIN toServer' /\ toServer'[i - 1] = toServer[i])
  BY TailIndex DEF ServerRead, TypeOK
<1>2. FormatsIn(toServer') = {}
  BY <1>1 DEF FormatsIn, QueueInv
<1>3. UNCHANGED clientVars /\ UNCHANGED <<toClient, srvWidth, resized, resizes>>
  BY DEF ServerRead
<1>4. CASE m.type = "format"
  <2>1. /\ srvFmt' = m.level /\ srvTight' = m.tight /\ srvReq' = srvReq /\ dirty' = dirty
    BY <1>4 DEF ServerRead
  <2>2. m.level = sentLevel /\ m.tight = (sentLevel = 0)
    BY <1>1, <1>4 DEF QueueInv, FormatsIn
  <2>3. m.level \in Levels /\ m.tight \in BOOLEAN
    BY <2>2 DEF TypeOK
  <2>4. RequestsIn(toServer) # {} <=> RequestsIn(toServer') # {}
    BY <1>1, <1>4 DEF RequestsIn
  <2>5. \A i, j \in RequestsIn(toServer') : i = j
    <3>1. SUFFICES ASSUME NEW i \in RequestsIn(toServer'), NEW j \in RequestsIn(toServer')
                   PROVE  i = j
      OBVIOUS
    <3>2. i + 1 \in RequestsIn(toServer) /\ j + 1 \in RequestsIn(toServer) /\ i \in Nat /\ j \in Nat
      BY <1>1 DEF RequestsIn
    <3>3. i + 1 = j + 1
      BY <3>2 DEF OneRequestInFlight
    <3>4. QED
      BY <3>2, <3>3
  <2>6. TypeOK'
    BY <1>1, <1>3, <2>1, <2>3 DEF TypeOK, clientVars
  <2>7. OneRequestInFlight' /\ TurnInv'
    BY <1>3, <2>1, <2>4, <2>5 DEF OneRequestInFlight, TurnInv, Outstanding, clientVars
  <2>8. QueueInv' /\ ServerInv' /\ UpdateInv' /\ ClientInv'
    BY <1>2, <1>3, <2>1, <2>2 DEF QueueInv, ServerInv, UpdateInv, ClientInv, clientVars
  <2>9. QED
    BY <2>6, <2>7, <2>8
<1>5. CASE m.type = "request"
  <2>1. /\ srvReq' = m.width /\ UNCHANGED <<srvFmt, srvTight>>
        /\ dirty' = IF m.incremental THEN dirty ELSE 1..srvWidth
    BY <1>5 DEF ServerRead
  <2>2. m.width \in Widths /\ m.incremental \in BOOLEAN
    BY <1>1, <1>5 DEF ClientMessages
  <2>3. 1 \in RequestsIn(toServer)
    BY <1>1, <1>5 DEF RequestsIn
  <2>4. RequestsIn(toServer') = {}
    <3>1. SUFFICES ASSUME NEW i \in RequestsIn(toServer') PROVE FALSE
      OBVIOUS
    <3>2. i + 1 \in RequestsIn(toServer) /\ i + 1 # 1
      BY <1>1 DEF RequestsIn
    <3>3. QED
      BY <2>3, <3>2 DEF OneRequestInFlight
  <2>5. toClient = <<>> /\ srvReq = 0 /\ srvReq' # 0
    BY <2>1, <2>2, <2>3 DEF OneRequestInFlight, Widths
  <2>6. FormatsIn(toServer) = {}
    <3>1. SUFFICES ASSUME NEW i \in FormatsIn(toServer) PROVE FALSE
      OBVIOUS
    <3>2. i = 1 /\ toServer[i].type = "format"
      BY DEF QueueInv, FormatsIn
    <3>3. QED
      BY <1>1, <1>5, <3>2
  <2>7. TypeOK'
    <3>1. srvReq' \in 0..MaxWidth
      BY <2>1, <2>2 DEF Widths
    <3>2. dirty' \in SUBSET Widths
      BY <2>1, PipelineAssumption DEF Widths, TypeOK
    <3>3. QED
      BY <1>1, <1>3, <2>1, <3>1, <3>2 DEF TypeOK, clientVars
  <2>8. OneRequestInFlight' /\ TurnInv'
    BY <1>3, <2>3, <2>4, <2>5 DEF OneRequestInFlight, TurnInv, Outstanding, clientVars
  <2>9. QueueInv' /\ ServerInv' /\ UpdateInv' /\ ClientInv'
    BY <1>2, <1>3, <2>1, <2>5, <2>6 DEF QueueInv, ServerInv, UpdateInv, ClientInv, clientVars
  <2>10. QED
    BY <2>7, <2>8, <2>9
<1>6. QED
  BY <1>1, <1>4, <1>5 DEF ClientMessages

LEMMA ServerDrawStep == IInv /\ ServerDraw => IInv'
<1> SUFFICES ASSUME IInv, ServerDraw PROVE IInv'
  OBVIOUS
<1> USE PipelineAssumption DEF IInv, ServerDraw, clientVars
<1>1. dirty' \in SUBSET Widths
  BY DEF TypeOK, Widths
<1>2. TypeOK'
  BY <1>1 DEF TypeOK
<1>3. QED
  BY <1>2 DEF OneRequestInFlight, QueueInv, TurnInv, Outstanding, ServerInv, UpdateInv, ClientInv

LEMMA ServerResizeStep == IInv /\ ServerResize => IInv'
<1> SUFFICES ASSUME IInv, ServerResize PROVE IInv'
  OBVIOUS
<1> USE PipelineAssumption DEF IInv, ServerResize, clientVars
<1>1. dirty' \in SUBSET Widths /\ resizes' \in 0..MaxResizes
  BY DEF TypeOK, Widths
<1>2. TypeOK'
  BY <1>1 DEF TypeOK
<1>3. QED
  BY <1>2 DEF OneRequestInFlight, QueueInv, TurnInv, Outstanding, ServerInv, UpdateInv, ClientInv

LEMMA ServerUpdateStep == IInv /\ ServerUpdate => IInv'
<1> SUFFICES ASSUME IInv, ServerUpdate PROVE IInv'
  OBVIOUS
<1> USE DEF IInv
<1>1. /\ srvReq # 0 /\ srvReq' = 0 /\ resized' = FALSE
      /\ UNCHANGED <<clientVars, toServer, srvFmt, srvTight, srvWidth, resizes>>
  BY DEF ServerUpdate
<1>2. toClient = <<>> /\ RequestsIn(toServer) = {}
  BY <1>1 DEF OneRequestInFlight
<1>3. Outstanding /\ (phase = "idle" \/ (phase = "rects" /\ pipelined))
  BY <1>1 DEF Outstanding, TurnInv
<1>4. FormatsIn(toServer) = {} /\ srvFmt = sentLevel /\ srvTight = (sentLevel = 0)
  BY <1>2, <1>3 DEF QueueInv, ServerInv
<1> DEFINE sizeRect == IF resized THEN <<[kind |-> "size", width |-> srvWidth]>> ELSE <<>>
<1>5. PICK p \in {<<>>, <<[kind |-> "pixels"]>>, <<[kind |-> "tight"]>>} :
        /\ toClient' = Append(toClient, [fmt |-> srvFmt, rects |-> sizeRect \o p])
        /\ p = <<[kind |-> "tight"]>> => srvTight
  BY DEF ServerUpdate
<1>6. dirty' \in SUBSET Widths
  BY DEF ServerUpdate, TypeOK
<1> DEFINE rs == sizeRect \o p
           u == [fmt |-> srvFmt, rects |-> rs]
<1>7. sizeRect \in Seq(Rects) /\ p \in Seq(Rects)
  <2>1. \A r \in Rects : <<r>> \in Seq(Rects)
    BY ShortSequences
  <2>2. srvWidth \in Widths
    BY DEF TypeOK
  <2>3. sizeRect \in Seq(Rects)
    BY <2>1, <2>2, MessageTypes
  <2>4. p \in Seq(Rects)
    <3>1. /\ <<>> \in Seq(Rects)
          /\ <<[kind |-> "pixels"]>> \in Seq(Rects)
          /\ <<[kind |-> "tight"]>> \in Seq(Rects)
      BY <2>1, MessageTypes
    <3>2. p = <<>> \/ p = <<[kind |-> "pixels"]>> \/ p = <<[kind |-> "tight"]>>
      BY <1>5
    <3>3. QED
      BY <3>1, <3>2, Zenon
  <2>5. QED
    BY <2>3, <2>4
<1>8. \A k \in DOMAIN sizeRect : sizeRect[k].kind # "tight"
  OBVIOUS
<1>9. \A k \in DOMAIN p : p[k].kind = "tight" => srvTight
  BY <1>5
<1>10. /\ rs \in Seq(Rects)
       /\ \A k \in DOMAIN rs : rs[k].kind = "tight" => srvTight
  <2> HIDE DEF sizeRect
  <2>1. QED
    BY <1>7, <1>8, <1>9
<1> HIDE DEF rs
<1>11. u \in Updates /\ u.fmt = sentLevel /\ u.rects = rs
  BY <1>4, <1>10 DEF TypeOK, Updates
<1> HIDE DEF u
<1>12. toClient' = <<u>> /\ toClient' \in Seq(Updates) /\ Len(toClient') = 1
  BY <1>2, <1>5, <1>11, AppendIndex DEF u, rs
<1>13. TypeOK'
  <2>1. srvReq' \in 0..MaxWidth
    BY <1>1, PipelineAssumption
  <2>2. QED
    BY <1>1, <1>6, <1>12, <2>1 DEF TypeOK, clientVars
<1>14. OneRequestInFlight' /\ QueueInv' /\ TurnInv'
  BY <1>1, <1>2, <1>3, <1>12 DEF OneRequestInFlight, QueueInv, TurnInv, Outstanding, clientVars
<1>15. ServerInv' /\ UpdateInv' /\ ClientInv'
  BY <1>1, <1>4, <1>10, <1>11, <1>12 DEF ServerInv, UpdateInv, ClientInv, clientVars
<1>16. QED
  BY <1>13, <1>14, <1>15

-----------------------------------------------------------------------------
(* The theorems.                                                           *)

LEMMA NextIInv == IInv /\ [Next]_vars => IInv'
<1>1. IInv /\ UNCHANGED vars => IInv'
  <2> SUFFICES ASSUME IInv, UNCHANGED vars PROVE IInv'
    OBVIOUS
  <2> USE DEF IInv, vars, clientVars, serverVars
  <2>1. TypeOK'
    BY DEF TypeOK
  <2>2. QED
    BY <2>1 DEF OneRequestInFlight, QueueInv, TurnInv, Outstanding, ServerInv, UpdateInv, ClientInv
<1>2. QED
  BY <1>1, StartRunStep, ReadHeaderStep, DecodeRectStep, FinishUpdateStep, ServerReadStep,
     ServerDrawStep, ServerResizeStep, ServerUpdateStep DEF Next, Client, Server

\* The shape of the messages under way is kept by every step of the update
\* loop and of a conforming server.
THEOREM InvariantHolds == Spec => []IInv
BY InitIInv, NextIInv, PTL DEF Spec

\* Every variable keeps its type.
THEOREM TypeCorrect == Spec => []TypeOK
BY InvariantHolds, PTL DEF IInv

\* Rectangles are always decoded in the format they were encoded in, for
\* every number of pixel levels and every interleaving of the two sides.
THEOREM FormatsAgree == Spec => []FormatAgreement
<1>1. IInv => FormatAgreement
  BY DEF IInv, ClientInv, FormatAgreement
<1>2. QED
  BY <1>1, InvariantHolds, PTL

\* sendNextRequest's own claim: never more than one request in flight.
THEOREM RequestsDoNotOverlap == Spec => []OneRequestInFlight
BY InvariantHolds, PTL DEF IInv

\* A conforming server never triggers the Tight protocol error.
THEOREM TightOnlyAtFullColour == Spec => []NoProtocolError
<1>1. IInv => NoProtocolError
  BY DEF IInv, ClientInv, NoProtocolError
<1>2. QED
  BY <1>1, InvariantHolds, PTL

\* The tuner's cooldown outlasts every format change, whatever its length.
THEOREM CooldownCoversChange == Spec => []JudgesSettled
<1>1. IInv => JudgesSettled
  BY DEF IInv, ClientInv, JudgesSettled
<1>2. QED
  BY <1>1, InvariantHolds, PTL

-----------------------------------------------------------------------------
(* The update loop implements UpdateExchange.                              *)

\* In terms of the client: the server moves while a request is outstanding
\* and its answer is not there yet.
LEMMA TurnByPhase ==
    IInv => ((RequestsIn(toServer) # {} \/ srvReq # 0) <=>
                /\ phase = "idle" \/ (phase = "rects" /\ pipelined)
                /\ toClient = <<>>)
BY DEF IInv, TurnInv, Outstanding, OneRequestInFlight

\* Every step of the loop is a step of the exchange or leaves it unchanged.
LEMMA StepRefines ==
    IInv /\ IInv' /\ [Next]_vars => [Exchange!Ask \/ Exchange!Answer]_(Exchange!vars)
<1> SUFFICES ASSUME IInv, IInv', [Next]_vars
             PROVE  [Exchange!Ask \/ Exchange!Answer]_(Exchange!vars)
  OBVIOUS
<1> DEFINE busy == RequestsIn(toServer) # {} \/ srvReq # 0
           turn == IF busy THEN "server" ELSE "client"
           encoded == IF toClient # <<>> THEN toClient[1].fmt ELSE curFmt
           waits == phase = "idle" \/ (phase = "rects" /\ pipelined)
<1>1. /\ busy <=> (waits /\ toClient = <<>>)
      /\ busy' <=> (waits' /\ toClient' = <<>>)
  <2>1. IInv' => (busy' <=> (waits' /\ toClient' = <<>>))
    BY DEF IInv, TurnInv, Outstanding, OneRequestInFlight
  <2>2. QED
    BY <2>1, TurnByPhase
<1>2. toClient \in Seq(Updates) /\ Len(toClient) <= 1 /\ sentLevel' \in Levels
  BY DEF IInv, TypeOK, OneRequestInFlight
<1> HIDE DEF busy
<1>3. ASSUME ~busy, busy', encoded' = encoded PROVE Exchange!Ask
  BY <1>2, <1>3 DEF Exchange!Ask, busy
<1>4. ASSUME busy' <=> busy, encoded' = encoded, sentLevel' = sentLevel
      PROVE  UNCHANGED Exchange!vars
  BY <1>4 DEF Exchange!vars, busy
<1>5. CASE StartRun
  <2>1. toClient = <<>> /\ ~waits
    BY <1>5 DEF StartRun, IInv, TurnInv, Outstanding
  <2>2. waits' /\ toClient' = <<>> /\ encoded' = encoded
    BY <1>5, <2>1 DEF StartRun
  <2>3. QED
    BY <1>1, <1>3, <2>1, <2>2
<1>6. CASE ReadHeader
  <2>1. toClient # <<>> /\ toClient' = <<>> /\ curFmt' = toClient[1].fmt
    BY <1>2, <1>6, TailIndex DEF ReadHeader
  <2>2. encoded' = encoded /\ ~busy /\ (waits' <=> lastFast)
    BY <1>1, <1>6, <2>1 DEF ReadHeader, IInv, TypeOK
  <2>3. lastFast \/ sentLevel' = sentLevel
    BY <1>6 DEF ReadHeader
  <2>4. QED
    BY <1>1, <1>3, <1>4, <2>1, <2>2, <2>3
<1>7. CASE DecodeRect
  <2>1. phase = "rects" /\ phase' = "rects"
    BY <1>7 DEF DecodeRect, IInv, ClientInv
  <2>2. QED
    BY <1>1, <1>4, <1>7, <2>1 DEF DecodeRect
<1>8. CASE FinishUpdate
  <2>1. /\ phase = "rects" /\ phase' = "idle" /\ toClient' = toClient /\ curFmt' = curFmt
        /\ pipelined => sentLevel' = sentLevel
        /\ ~pipelined => toClient = <<>>
    BY <1>8 DEF FinishUpdate, AskAtEnd, IInv, TurnInv, Outstanding
  <2>2. QED
    BY <1>1, <1>3, <1>4, <2>1
<1>9. CASE ServerRead \/ ServerDraw \/ ServerResize \/ UNCHANGED vars
  <2>1. UNCHANGED clientVars /\ toClient' = toClient
    BY <1>9 DEF ServerRead, ServerDraw, ServerResize, vars
  <2>2. QED
    BY <1>1, <1>4, <2>1 DEF clientVars
<1>10. CASE ServerUpdate
  <2>1. busy /\ UNCHANGED clientVars /\ toClient' # <<>>
    <3>1. srvReq # 0 /\ UNCHANGED clientVars
      BY <1>10 DEF ServerUpdate
    <3>2. \E u : toClient' = Append(toClient, u)
      BY <1>10 DEF ServerUpdate
    <3>3. QED
      BY <1>2, <3>1, <3>2 DEF busy
  <2>2. ~busy' /\ encoded' = sentLevel /\ sentLevel' = sentLevel
    BY <1>1, <2>1 DEF IInv, UpdateInv, clientVars
  <2>3. QED
    BY <2>1, <2>2 DEF Exchange!Answer, busy
<1>11. QED
  BY <1>5, <1>6, <1>7, <1>8, <1>9, <1>10 DEF Next, Client, Server

\* Requests and updates strictly alternate, and every update is in the format
\* announced before its request.
THEOREM ImplementsExchange == Spec => ExchangeSpec
<1>1. Init => Exchange!Init
  <2>1. ASSUME Init PROVE RequestsIn(toServer) = {} /\ level \in Levels
    BY <2>1, PipelineAssumption DEF Init, RequestsIn, FormatMsg, Levels
  <2>2. QED
    BY <2>1 DEF Init, Exchange!Init
<1>2. QED
  BY <1>1, InvariantHolds, StepRefines, PTL DEF Spec, ExchangeSpec, Exchange!Spec
=============================================================================
