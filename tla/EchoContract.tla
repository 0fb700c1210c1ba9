---------------------------- MODULE EchoContract ----------------------------
(***************************************************************************)
(* What every server of the repository promises to a TCP client, whatever  *)
(* its language: each connection carries two byte streams, and the stream  *)
(* the server sends back is, at every moment, a prefix of the stream the   *)
(* client sent: no byte is dropped, repeated, altered, reordered or leaked *)
(* to another connection.                                                  *)
(***************************************************************************)
EXTENDS Naturals, Sequences

CONSTANTS Conn,  \* the connections
          Byte   \* the bytes a client may send

VARIABLES sent,   \* sent[c]:   the stream of client c
          echoed  \* echoed[c]: the stream the server sent back to c

vars == <<sent, echoed>>

Init == /\ sent = [c \in Conn |-> << >>]
        /\ echoed = [c \in Conn |-> << >>]

\* The client adds a byte to its stream.
Send(c, b) == /\ sent' = [sent EXCEPT ![c] = Append(@, b)]
              /\ UNCHANGED echoed

\* The server returns the first byte it has not returned yet.
Echo(c) == /\ Len(echoed[c]) < Len(sent[c])
           /\ echoed' = [echoed EXCEPT ![c] = Append(@, sent[c][Len(@) + 1])]
           /\ UNCHANGED sent

Next == \E c \in Conn : Echo(c) \/ \E b \in Byte : Send(c, b)

Spec == Init /\ [][Next]_vars
=============================================================================
