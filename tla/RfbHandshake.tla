---------------------------- MODULE RfbHandshake ----------------------------
(***************************************************************************)
(* The RFB handshake: internal/rfb/handshake.go, auth.go, ard.go.          *)
(*                                                                         *)
(* Who speaks next, and what, depends on the version the two agree on, on  *)
(* the security type and on who chose it; nothing on the wire says so, and *)
(* a side that reads what the other does not send waits for ever, as the   *)
(* handshake has no deadline.  The server (external) conforms to the       *)
(* version the client answered with.  Messages are the units the two sides *)
(* read; what they carry is a field where the rest depends on it.          *)
(***************************************************************************)
EXTENDS Naturals, Sequences

CONSTANTS
    ServerVersions,   \* the versions servers announce, as <<major, minor>>
    Offers,           \* the sets of security types servers offer
    Credentials       \* what the user entered: a subset of {"user", "password"}

ASSUME HandshakeAssumption ==
    /\ ServerVersions \subseteq Nat \X Nat
    /\ Credentials \subseteq SUBSET {"user", "password"}

VARIABLES
    client,      \* the message the client reads next, or "live", "failed"
    server,      \* the message the server reads next, or "live", "closed"
    major, minor, chosen,     \* the client's variables
    offers, entered,          \* the server's security types; the credentials
    announced,                \* the version the server announced
    agreed, secured, granted, \* the version, type and verdict it goes by
    toClient, toServer        \* messages under way

handshakeVars == <<client, server, major, minor, chosen, offers, entered,
                   announced, agreed, secured, granted, toClient, toServer>>

-----------------------------------------------------------------------------
None == "None"
VNCAuth == "VNCAuth"
ARD == "ARD"
Other == "Other"        \* a type the client does not know
Invalid == "Invalid"    \* the server refuses, for a reason it gives
SecTypes == {None, VNCAuth, ARD, Other}

Message(kind, val) == [kind |-> kind, val |-> val]
ClientReads == {"version", "secType", "secTypes", "reason", "challenge", "dhParams",
                "securityResult", "resultReason", "serverInit"}
ServerReads == {"version", "secType", "response", "ardResponse", "clientInit", "setup"}

HandshakeTypeOK ==
    /\ client \in ClientReads \cup {"live", "failed"}
    /\ server \in ServerReads \cup {"live", "closed"}
    /\ <<major, minor>> \in {<<0, 0>>, <<3, 3>>, <<3, 7>>, <<3, 8>>}
    /\ chosen \in SecTypes \cup {Invalid} /\ secured \in SecTypes \cup {Invalid}
    /\ offers \in Offers /\ entered \in Credentials /\ announced \in ServerVersions
    /\ granted \in {"pending", "granted", "denied"}
    /\ agreed \in {<<0, 0>>, <<3, 3>>, <<3, 7>>, <<3, 8>>}

\* The server has announced its version.
HandshakeInit ==
    /\ client = "version" /\ server = "version"
    /\ major = 0 /\ minor = 0 /\ chosen = Invalid
    /\ offers \in Offers /\ entered \in Credentials
    /\ agreed = <<0, 0>> /\ secured = Invalid /\ granted = "pending"
    /\ announced \in ServerVersions /\ toClient = <<Message("version", announced)>>
    /\ toServer = <<>>

ClientVars == <<client, major, minor, chosen>>
ServerVars == <<server, agreed, secured, granted>>

-----------------------------------------------------------------------------
(* The client.                                                             *)

\* The client reads a message of the kind it waits for, says `out`, and goes
\* on to read `next`.
Hears(kind) == client = kind /\ toClient # <<>> /\ Head(toClient).kind = kind
Reads(kind, out, next) ==
    /\ Hears(kind)
    /\ toClient' = Tail(toClient)
    /\ toServer' = toServer \o out
    /\ client' = next
    /\ UNCHANGED <<ServerVars, announced, offers, entered>>

Read == Head(toClient).val

\* readProtocolVersion and the version it is clamped to.
\* (The mutants take every version before 3.8 for 3.7, or clamp nothing.)
ClampedNot(v) == v
ClampedNever33(v) == IF v = <<3, 8>> \/ v[1] > 3 \/ v[2] > 7 THEN <<3, 8>> ELSE <<3, 7>>
Clamped(v) ==
    IF v[1] < 3 \/ (v[1] = 3 /\ v[2] < 7) THEN <<3, 3>>
    ELSE IF v[1] = 3 /\ v[2] = 7 THEN <<3, 7>> ELSE <<3, 8>>
OnVersion ==
    /\ Hears("version")
    /\ LET v == Clamped(Read)
       IN  /\ Reads("version", <<Message("version", v)>>, IF v = <<3, 3>> THEN "secType" ELSE "secTypes")
           /\ major' = v[1] /\ minor' = v[2]
           /\ UNCHANGED chosen

\* SecurityResult is read after an authentication, and always under 3.8.
\* (The mutant reads it after an authentication only.)
SendResultIfAuthenticated(type) == type \in {VNCAuth, ARD}
SendResult(type) == type \in {VNCAuth, ARD} \/ (major = 3 /\ minor = 8)

\* performVNCAuth, performARDAuth or neither, and what follows.
ReadsAfterAuth(type) == IF SendResult(type) THEN "securityResult" ELSE "serverInit"
SaysAfterAuth(type) == IF SendResult(type) THEN <<>> ELSE <<Message("clientInit", "shared")>>
ReadsAfterType(type) ==
    IF type = VNCAuth THEN "challenge" ELSE IF type = ARD THEN "dhParams" ELSE ReadsAfterAuth(type)
SaysAfterType(type) == IF type \in {VNCAuth, ARD} THEN <<>> ELSE SaysAfterAuth(type)

\* Under 3.3 the server dictates the type.
OnSecType ==
    /\ Hears("secType")
    /\ IF Read = Invalid THEN Reads("secType", <<>>, "reason")
                         ELSE Reads("secType", SaysAfterType(Read), ReadsAfterType(Read))
    /\ chosen' = Read
    /\ UNCHANGED <<major, minor>>

\* A VNC password first, then a user's account, then no authentication at all;
\* VNC authentication with an empty password as a last resort.
Choice(types) ==
    IF VNCAuth \in types /\ "password" \in entered THEN VNCAuth
    ELSE IF ARD \in types /\ entered # {} THEN ARD
    ELSE IF None \in types THEN None
    ELSE IF VNCAuth \in types THEN VNCAuth ELSE Invalid
\* The client picks a type from the server's list; an empty list is a refusal
\* and a reason follows, and a list of unknown types ends the handshake.
OnSecTypes ==
    /\ Hears("secTypes")
    /\ LET type == Choice(Read)
       IN  /\ IF Read = {} THEN Reads("secTypes", <<>>, "reason")
              ELSE IF type = Invalid THEN Reads("secTypes", <<>>, "failed")
              ELSE Reads("secTypes", <<Message("secType", type)>> \o SaysAfterType(type), ReadsAfterType(type))
           /\ chosen' = type
           /\ UNCHANGED <<major, minor>>

OnReason == Reads("reason", <<>>, "failed") /\ UNCHANGED <<major, minor, chosen>>

OnChallenge ==
    /\ \/ Reads("challenge", <<Message("response", "-")>> \o SaysAfterAuth(chosen), ReadsAfterAuth(chosen))
       \/ Reads("dhParams", <<Message("ardResponse", "-")>> \o SaysAfterAuth(chosen), ReadsAfterAuth(chosen))
    /\ UNCHANGED <<major, minor, chosen>>

OnSecurityResult ==
    /\ Hears("securityResult")
    /\ IF Read = "ok" THEN Reads("securityResult", <<Message("clientInit", "shared")>>, "serverInit")
                      ELSE Reads("securityResult", <<>>, IF <<major, minor>> = <<3, 8>> THEN "resultReason" ELSE "failed")
    /\ UNCHANGED <<major, minor, chosen>>

OnResultReason == Reads("resultReason", <<>>, "failed") /\ UNCHANGED <<major, minor, chosen>>

\* readServerInit, then SetPixelFormat and SetEncodings.
OnServerInit ==
    Reads("serverInit", <<Message("setup", "format"), Message("setup", "encodings")>>, "live")
    /\ UNCHANGED <<major, minor, chosen>>

-----------------------------------------------------------------------------
(* The server.                                                             *)

IsTold(kind) == server = kind /\ toServer # <<>> /\ Head(toServer).kind = kind
ServerTakes(kind, out, next) ==
    /\ IsTold(kind)
    /\ toServer' = Tail(toServer)
    /\ toClient' = toClient \o out
    /\ server' = next
    /\ UNCHANGED <<ClientVars, announced, offers, entered>>

Said == Head(toServer).val
Authenticates(type) ==
    IF type = VNCAuth THEN <<Message("challenge", "-")>>
    ELSE IF type = ARD THEN <<Message("dhParams", "-")>> ELSE <<>>
Awaits(type) == IF type = VNCAuth THEN "response" ELSE IF type = ARD THEN "ardResponse" ELSE "clientInit"

\* A version later than the one it announced ends the handshake.  Under 3.3
\* the server decides the type itself; later it offers the types it has.
Knows(v) == v[1] < announced[1] \/ (v[1] = announced[1] /\ v[2] <= announced[2])
ServerVersion ==
    /\ IsTold("version")
    /\ agreed' = Said
    /\ IF ~Knows(Said)
       THEN /\ secured' = Invalid /\ granted' = "denied"
            /\ ServerTakes("version", <<>>, "closed")
       ELSE IF Said = <<3, 3>>
       THEN \/ \E type \in offers \cap {None, VNCAuth} :
                  /\ secured' = type
                  /\ granted' = (IF type = None THEN "granted" ELSE "pending")
                  /\ ServerTakes("version", <<Message("secType", type)>> \o Authenticates(type), Awaits(type))
            \/ /\ secured' = Invalid /\ granted' = "denied"
               /\ ServerTakes("version", <<Message("secType", Invalid), Message("reason", "-")>>, "closed")
       ELSE IF offers = {}
       THEN /\ secured' = Invalid /\ granted' = "denied"
            /\ ServerTakes("version", <<Message("secTypes", {}), Message("reason", "-")>>, "closed")
       ELSE /\ UNCHANGED <<secured, granted>>
            /\ ServerTakes("version", <<Message("secTypes", offers)>>, "secType")

\* Version 3.8 reports a result even without an authentication.
ServerSecType ==
    /\ IsTold("secType")
    /\ secured' = Said /\ UNCHANGED agreed
    /\ granted' = (IF Said = None THEN "granted" ELSE "pending")
    /\ ServerTakes("secType",
           IF Said = None /\ agreed = <<3, 8>> THEN <<Message("securityResult", "ok")>> ELSE Authenticates(Said),
           Awaits(Said))

ServerVerdict == \E kind \in {"response", "ardResponse"} :
    /\ UNCHANGED <<agreed, secured>>
    /\ \/ /\ granted' = "granted"
          /\ ServerTakes(kind, <<Message("securityResult", "ok")>>, "clientInit")
       \/ /\ granted' = "denied"
          /\ ServerTakes(kind, <<Message("securityResult", "failed")>>
                 \o (IF agreed = <<3, 8>> THEN <<Message("resultReason", "-")>> ELSE <<>>), "closed")

ServerInitialises ==
    /\ UNCHANGED <<agreed, secured, granted>>
    /\ \/ ServerTakes("clientInit", <<Message("serverInit", "-")>>, "setup")
       \/ IsTold("setup") /\ ServerTakes("setup", <<>>, IF Said = "encodings" THEN "live" ELSE "setup")

OnRead == \/ OnVersion \/ OnSecType \/ OnSecTypes \/ OnReason \/ OnChallenge
          \/ OnSecurityResult \/ OnResultReason \/ OnServerInit
ServerStep == ServerVersion \/ ServerSecType \/ ServerVerdict \/ ServerInitialises
HandshakeNext == OnRead \/ ServerStep
HandshakeSpec == HandshakeInit /\ [][HandshakeNext]_handshakeVars
-----------------------------------------------------------------------------
\* The next message for either side is the one it waits for; the two never
\* wait for each other; and a session begins only when the server has granted
\* it, under the version and the type both have in mind (handshake.go).
Waiting == client \in ClientReads /\ toClient = <<>> /\ server \in ServerReads /\ toServer = <<>>
HandshakeAgrees ==
    /\ client \in ClientReads /\ toClient # <<>> => Head(toClient).kind = client
    /\ server \in ServerReads /\ toServer # <<>> => Head(toServer).kind = server
    /\ ~Waiting
    /\ client = "live" => granted = "granted" /\ agreed = <<major, minor>> /\ secured = chosen
    /\ server = "closed" /\ toClient = <<>> => client = "failed"
=============================================================================
