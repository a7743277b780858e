--------------------------- MODULE UpdateExchange ---------------------------
(***************************************************************************)
(* What the RFB client's update loop promises, with the network and the    *)
(* decoder abstracted away: the client and the server take strict turns.   *)
(* The client asks for one update and may announce a new pixel format with *)
(* the request; the server answers with one update, encoded in the format  *)
(* announced before it was asked.  Nothing else changes the format, so a   *)
(* decoder that follows the announcements never misreads an update.        *)
(***************************************************************************)

CONSTANT Formats     \* the pixel formats the client can ask for

VARIABLES
    turn,            \* who moves next, "client" or "server"
    announced,       \* the format the client announced last
    encoded          \* the format of the latest update

vars == <<turn, announced, encoded>>

Init ==
    /\ turn = "client"
    /\ announced \in Formats
    /\ encoded = announced

\* The client asks for the next update, in a format of its choice.
Ask ==
    /\ turn = "client"
    /\ turn' = "server"
    /\ announced' \in Formats
    /\ UNCHANGED encoded

\* The server answers, in the announced format.
Answer ==
    /\ turn = "server"
    /\ turn' = "client"
    /\ encoded' = announced
    /\ UNCHANGED announced

Spec == Init /\ [][Ask \/ Answer]_vars
=============================================================================
