--------------------------- MODULE ScreenDecoders ---------------------------
(***************************************************************************)
(* What a server says and how the client reads it: the RFB handshake, the  *)
(* RFB rectangles, RDP's interleaved RLE and RDP's drawing orders.  The    *)
(* four share neither state nor a connection's time, so a behaviour is one *)
(* of one of them; `part` says of which, and the rest stays as it began.   *)
(***************************************************************************)
EXTENDS RfbHandshake, RfbRects, RdpRle, RdpOrders

VARIABLE part

decoderVars == <<part, handshakeVars, rectsVars, rleVars, ordersVars>>

Parts == {"handshake", "rects", "bitmaps", "orders"}

Quiet(p) ==
    /\ p # "handshake" => UNCHANGED handshakeVars
    /\ p # "rects" => UNCHANGED rectsVars
    /\ p # "bitmaps" => UNCHANGED rleVars
    /\ p # "orders" => UNCHANGED ordersVars

\* Only the handshake has a choice of initial states.
Init ==
    /\ part \in Parts
    /\ RectsInit /\ RleInit /\ OrdersInit
    /\ HandshakeInit
    /\ part # "handshake" => /\ toClient = <<Message("version", <<3, 8>>)>>
                             /\ offers = SecTypes /\ entered = {"user", "password"}

Next ==
    /\ UNCHANGED part
    /\ \/ part = "handshake" /\ HandshakeNext /\ Quiet("handshake")
       \/ part = "rects" /\ RectsNext /\ Quiet("rects")
       \/ part = "bitmaps" /\ RleNext /\ Quiet("bitmaps")
       \/ part = "orders" /\ OrdersNext /\ Quiet("orders")

Spec == Init /\ [][Next]_decoderVars
-----------------------------------------------------------------------------
\* Every variable of every part keeps its type.
TypeOK ==
    /\ part \in Parts
    /\ HandshakeTypeOK /\ RectsTypeOK /\ RleTypeOK /\ OrdersTypeOK
=============================================================================
