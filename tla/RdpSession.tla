----------------------------- MODULE RdpSession -----------------------------
(***************************************************************************)
(* An RDP session: the connection sequence, and then the clipboard channel *)
(* (internal/rdp/cliprdr.go, input.go: SendClientCutText) on the channel   *)
(* the sequence negotiated.                                                *)
(*                                                                         *)
(* Two goroutines of the client write to the channel.  The one of Run      *)
(* answers clipboard messages; the one of the WebSocket shares text the    *)
(* user sends.  A message is written in chunks, each by one Write, with    *)
(* nothing held from one chunk to the next.                                *)
(*                                                                         *)
(* Abstractions.  The n-th text shared by the user is the number n, and so *)
(* is the n-th text copied on the server; 0 is no text.  A format list     *)
(* carries as `text' which text it announces, which the real one does not  *)
(* say.  A text is cut into a constant number of chunks.  Graphics and     *)
(* input travel on other channels and touch none of this.                  *)
(***************************************************************************)
EXTENDS RdpConnect

CONSTANTS
    MaxTexts,        \* bound: texts shared by the user, and copied on the server
    ClientChunks,    \* chunks of a text sent by the client
    ServerChunks     \* chunks of a text sent by the server

ASSUME SessionAssumption ==
    /\ MaxTexts \in Nat \ {0}
    /\ ClientChunks \in Nat \ {0} /\ ServerChunks \in Nat \ {0}

VARIABLES
    \* the client
    clipText,        \* the text the user shared last
    runOut, inputOut,\* chunks Run's and the WebSocket's goroutine have yet to write
    vcBuf,           \* chunks of an unfinished message
    local,           \* the text last handed to sink.CutText
    \* the channel
    vcToServer, vcToClient,
    \* the server
    greeted,         \* "no", "sent" (Monitor Ready) or "done" (list received since)
    owner,           \* whose text the server's clipboard holds
    srvText,         \* the text last copied on the server
    offered,         \* the client's text announced last, 0 for none
    asked,           \* the offer in force when the outstanding request was sent
    srvBuf,
    pasted,          \* the client's text pasted last on the server
    \* history, read by OfferKept alone
    greetedAt        \* the text the user had shared last when Run first wrote a
                     \* format list, the empty one; NotYet before that

clipVars == <<clipText, runOut, inputOut, vcBuf, local, vcToServer, vcToClient,
              greeted, owner, srvText, offered, asked, srvBuf, pasted, greetedAt>>
vars == <<connectVars, clipVars>>

-----------------------------------------------------------------------------
Texts == 0..MaxTexts
Garbled == MaxTexts + 1   \* what a wrongly reassembled message yields
NotYet == MaxTexts + 1    \* newer than every text: no text counts as shared since
Pdu(kind, text) == [kind |-> kind, text |-> text]
PduKinds == {"monitorReady", "clipCaps", "formatList", "formatListResponse",
             "formatDataRequest", "formatDataResponse", "garbled"}
Pdus == [kind : PduKinds, text : 0..Garbled]
Chunks == [pdu : Pdus, part : 1..(ClientChunks + ServerChunks),
           of : 1..(ClientChunks + ServerChunks)]

TypeOK ==
    /\ ConnectTypeOK
    /\ clipText \in Texts /\ srvText \in Texts
    /\ offered \in Texts /\ asked \in Texts
    /\ local \in 0..Garbled /\ pasted \in 0..Garbled
    /\ \A q \in {runOut, inputOut, vcBuf, vcToServer, vcToClient, srvBuf} : q \in Seq(Chunks)
    /\ greetedAt \in Texts \cup {NotYet}
    /\ greeted \in {"no", "sent", "done"}
    /\ owner \in {"client", "server"}

Init ==
    /\ ConnectInit
    /\ clipText = 0 /\ runOut = <<>> /\ inputOut = <<>> /\ vcBuf = <<>> /\ local = 0
    /\ vcToServer = <<>> /\ vcToClient = <<>>
    /\ greeted = "no" /\ owner = "server" /\ srvText = 0
    /\ offered = 0 /\ asked = 0 /\ srvBuf = <<>> /\ pasted = 0
    /\ greetedAt = NotYet

-----------------------------------------------------------------------------
(* Chunks.                                                                 *)

\* The chunks of a message: only texts need more than one.
Split(p, n) ==
    LET k == IF p.kind = "formatDataResponse" THEN n ELSE 1
    IN  [i \in 1..k |-> [pdu |-> p, part |-> i, of |-> k]]
FromClient(p) == Split(p, ClientChunks)
FromServer(p) == Split(p, ServerChunks)

\* Mutant of Collect: every chunk is taken for a whole message.
CollectNone(buf, c) == <<c>>

\* The first chunk of a message starts the buffer afresh.
Collect(buf, c) == IF c.part = 1 THEN <<c>> ELSE Append(buf, c)

IsLast(c) == c.part = c.of

\* The message that the collected chunks make up.
Message(buf) ==
    LET c == Head(buf)
    IN  IF buf = [i \in 1..c.of |-> [c EXCEPT !.part = i]] THEN c.pdu ELSE Pdu("garbled", 0)

-----------------------------------------------------------------------------
(* The client.                                                             *)

RunUnchanged == UNCHANGED <<clipText, inputOut, vcToServer, greeted, owner, srvText,
                            offered, asked, srvBuf, pasted, greetedAt>>

\* Mutant of ListReply: the list is acknowledged but its text not fetched.
ListAcknowledged(text) == FromClient(Pdu("formatListResponse", 0))

\* The server's format list is acknowledged, and its text, if any, fetched.
ListReply(text) ==
    FromClient(Pdu("formatListResponse", 0))
        \o (IF text # 0 THEN FromClient(Pdu("formatDataRequest", 0)) ELSE <<>>)

\* What handleCliprdrPDU sends in reply to p.
Reply(p) ==
    CASE p.kind = "monitorReady" ->
            FromClient(Pdu("clipCaps", 0)) \o FromClient(Pdu("formatList", 0))
      [] p.kind = "formatList" -> ListReply(p.text)
      [] p.kind = "formatDataRequest" -> FromClient(Pdu("formatDataResponse", clipText))
      [] OTHER -> <<>>

\* The text handed to sink.CutText: that of a response, whether or not the
\* response's flags say that it failed.
Cut(p) ==
    CASE p.kind = "formatDataResponse" -> p.text
      [] p.kind = "garbled" -> Garbled
      [] OTHER -> local

\* handleVirtualChannelChunk: collect, and handle a message that is complete.
HandleChunk ==
    /\ runOut = <<>> /\ vcToClient # <<>>
    /\ vcToClient' = Tail(vcToClient)
    /\ LET buf == Collect(vcBuf, Head(vcToClient)) IN
        IF IsLast(Head(vcToClient))
        THEN /\ vcBuf' = <<>>
             /\ runOut' = Reply(Message(buf))
             /\ local' = Cut(Message(buf))
        ELSE vcBuf' = buf /\ UNCHANGED <<runOut, local>>
    /\ RunUnchanged

\* One Write of Run's goroutine, one of the WebSocket's.
RunWrites ==
    /\ runOut # <<>>
    /\ vcToServer' = Append(vcToServer, Head(runOut))
    /\ runOut' = Tail(runOut)
    /\ greetedAt' = IF Head(runOut).pdu.kind = "formatList" /\ greetedAt = NotYet
                    THEN clipText ELSE greetedAt
    /\ UNCHANGED <<clipText, inputOut, vcBuf, local, vcToClient, greeted, owner,
                   srvText, offered, asked, srvBuf, pasted>>

InputWrites ==
    /\ inputOut # <<>>
    /\ vcToServer' = Append(vcToServer, Head(inputOut))
    /\ inputOut' = Tail(inputOut)
    /\ UNCHANGED <<clipText, runOut, vcBuf, local, vcToClient, greeted, owner,
                   srvText, offered, asked, srvBuf, pasted, greetedAt>>

\* Mutants of Stored and Announced: the text is stored only if the mutex is
\* free, and only the first text is announced.
StoredIfFree(text) == IF runOut = <<>> THEN text ELSE clipText
AnnouncedOnce(text) == IF clipText = 0 THEN FromClient(Pdu("formatList", text)) ELSE <<>>

\* SendClientCutText stores the text, then announces that there is one.
Stored(text) == text

Announced(text) == FromClient(Pdu("formatList", text))

\* The user shares the next text: nothing happens without the channel, and
\* nothing waits for Monitor Ready.
SendClientCutText ==
    /\ cliprdr # 0 /\ inputOut = <<>> /\ clipText < MaxTexts
    /\ clipText' = Stored(clipText + 1)
    /\ inputOut' = Announced(clipText + 1)
    /\ UNCHANGED <<runOut, vcBuf, local, vcToServer, vcToClient, greeted, owner,
                   srvText, offered, asked, srvBuf, pasted, greetedAt>>

-----------------------------------------------------------------------------
(* The server's clipboard (external).                                      *)

ServerKeeps == UNCHANGED <<clipText, runOut, inputOut, vcBuf, local, greetedAt>>

MonitorReady ==
    /\ greeted = "no" /\ ClipChannel \in joined
    /\ greeted' = "sent"
    /\ vcToClient' = vcToClient \o FromServer(Pdu("monitorReady", 0))
    /\ ServerKeeps
    /\ UNCHANGED <<vcToServer, owner, srvText, offered, asked, srvBuf, pasted>>

\* Somebody copies a text on the server.
ServerCopies ==
    /\ greeted = "done" /\ srvText < MaxTexts
    /\ srvText' = srvText + 1 /\ owner' = "server" /\ offered' = 0
    /\ vcToClient' = vcToClient \o FromServer(Pdu("formatList", srvText + 1))
    /\ ServerKeeps
    /\ UNCHANGED <<vcToServer, greeted, asked, srvBuf, pasted>>

\* Somebody pastes what the client offers.
ServerPastes ==
    /\ offered # 0 /\ asked = 0
    /\ asked' = offered
    /\ vcToClient' = vcToClient \o FromServer(Pdu("formatDataRequest", 0))
    /\ ServerKeeps
    /\ UNCHANGED <<vcToServer, greeted, owner, srvText, offered, srvBuf, pasted>>

\* What the server sends back: a text it no longer holds is refused, which
\* the client reads as an empty one.
ServerReply(p) ==
    CASE p.kind = "formatList" -> FromServer(Pdu("formatListResponse", 0))
      [] p.kind = "formatDataRequest" ->
            FromServer(Pdu("formatDataResponse", IF owner = "server" THEN srvText ELSE 0))
      [] OTHER -> <<>>

ServerHandlesPdu(p) ==
    /\ vcToClient' = vcToClient \o ServerReply(p)
    /\ IF p.kind = "formatList"
       THEN /\ greeted' = IF greeted = "no" THEN "no" ELSE "done"
            /\ owner' = "client" /\ offered' = p.text
       ELSE UNCHANGED <<greeted, owner, offered>>
    /\ IF p.kind \in {"formatDataResponse", "garbled"}
       THEN /\ asked' = 0
            /\ pasted' = IF p.kind = "garbled" THEN Garbled ELSE p.text
       ELSE UNCHANGED <<asked, pasted>>

ServerReadsChunk ==
    /\ vcToServer # <<>>
    /\ vcToServer' = Tail(vcToServer)
    /\ LET buf == Collect(srvBuf, Head(vcToServer)) IN
        IF IsLast(Head(vcToServer))
        THEN srvBuf' = <<>> /\ ServerHandlesPdu(Message(buf))
        ELSE srvBuf' = buf /\ UNCHANGED <<vcToClient, greeted, owner, offered, asked, pasted>>
    /\ ServerKeeps /\ UNCHANGED srvText

-----------------------------------------------------------------------------
ClipClient == HandleChunk \/ RunWrites \/ InputWrites
ClipServer == MonitorReady \/ ServerReadsChunk
ClipNext ==
    /\ awaiting = "live"
    /\ \/ ClipClient \/ SendClientCutText
       \/ link = "up" /\ (ClipServer \/ ServerCopies \/ ServerPastes)

Next ==
    \/ ConnectNext /\ UNCHANGED clipVars
    \/ ClipNext /\ UNCHANGED connectVars

Spec == Init /\ [][Next]_vars

\* Both goroutines of the client write what they have begun, Run reads what
\* has arrived, and a server that is up serves the channel.
FairSpec ==
    /\ Spec
    /\ ConnectFairness
    /\ WF_vars(awaiting = "live" /\ HandleChunk /\ UNCHANGED connectVars)
    /\ WF_vars(awaiting = "live" /\ RunWrites /\ UNCHANGED connectVars)
    /\ WF_vars(awaiting = "live" /\ InputWrites /\ UNCHANGED connectVars)
    /\ WF_vars(awaiting = "live" /\ link = "up" /\ ClipServer /\ UNCHANGED connectVars)

-----------------------------------------------------------------------------
\* Clipboard data goes only to a channel the server let the client join
\* (mcs.go: "fall back to no clipboard sync").
NoStrayData == vcToServer # <<>> => ClipChannel \in joined

\* The sink is handed only whole messages of the server, never pieces
\* (handleVirtualChannelChunk).
CutTextIntact == local # Garbled

\* A paste on the server yields a text that is at least as new as the offer
\* it was made on: SendClientCutText stores a text before it announces it.
PasteIsFresh == [][asked # 0 /\ asked' = 0 => pasted' >= asked]_vars

\* A text shared since the client announced its empty list, in reply to
\* Monitor Ready, is kept: once all is quiet the server offers the last one,
\* unless something was copied there (input.go: SendClientCutText).  So no
\* other list of Run's goroutine ever withdraws what the other one announced.
Quiet == {runOut, inputOut, vcToServer, vcToClient} = {<<>>}
OfferKept == Quiet /\ clipText > greetedAt => owner = "server" \/ offered = clipText

\* Once the channel is set up and all is quiet, the server offers the text
\* shared last, whenever it was shared (input.go: SendClientCutText "shares
\* local clipboard text with the server", "A no-op if the server refused the
\* clipboard channel").  Violated by a text shared before the client has
\* replied to Monitor Ready: the empty list withdraws it.
EveryOfferKept ==
    greeted = "done" /\ Quiet /\ clipText # 0 => owner = "server" \/ offered = clipText

\* A text copied on the server reaches the local clipboard, unless the user
\* shares another one or the connection ends (cliprdr.go: "proactively
\* fetch it").
CopyArrives ==
    \A n \in 1..MaxTexts :
        srvText = n ~> local \in n..MaxTexts \/ owner = "client" \/ link # "up" \/ awaiting = "closed"

\* A paste on the server yields one of the user's texts whole (cliprdr.go:
\* "sync plain text both directions").  Chunks of the two goroutines
\* interleave: violated for a text of more than one chunk.
PasteIntact == pasted # Garbled
=============================================================================
