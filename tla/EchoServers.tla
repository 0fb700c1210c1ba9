---------------------------- MODULE EchoServers -----------------------------
(***************************************************************************)
(* The echo servers in Go and Python: both implement the contract that the *)
(* load clients rely on.                                                   *)
(***************************************************************************)
EXTENDS EchoHandler

CONSTANT HighWater

ASSUME HighWaterAssumption == HighWater \in Nat

VARIABLE lang \* go or py

Go == INSTANCE ServerGo
Py == INSTANCE ServerPy

AllInit == lang \in {"go", "py"} /\ Init

Accept(c) == /\ \/ lang = "go" /\ Go!Accept(c)
                \/ lang = "py" /\ Py!Accept(c)
             /\ UNCHANGED lang

Handler(c) == /\ \/ lang = "go" /\ Go!Handler(c)
                 \/ lang = "py" /\ Py!Handler(c)
              /\ UNCHANGED lang

Next == \/ Clients /\ UNCHANGED lang
        \/ \E c \in Conn : Accept(c) \/ Handler(c)

Spec == AllInit /\ [][Next]_<<vars, lang>>

\* Connections are accepted and every handler runs; clients may stop at any time.
FairSpec ==
    /\ Spec
    /\ \A c \in Conn : WF_<<vars, lang>>(Accept(c)) /\ WF_<<vars, lang>>(Handler(c))

-----------------------------------------------------------------------------
(* Properties *)

\* A slow client never makes the server hold more than its buffer (server.go l. 24)
\* or, in Python, than the limit and the chunk that passed it (server.py l. 19).
TypeOK ==
    /\ lang \in {"go", "py"}
    /\ peer \in [Conn -> {"absent", "open", "closed", "reset"}]
    /\ wrote \in [Conn -> Seq(Byte)]
    /\ taken \in [Conn -> 0 .. MaxStream]
    /\ echoed \in [Conn -> Seq(Byte)]
    /\ pc \in [Conn -> {"none", "serve", "closing", "closed"}]
    /\ held \in [Conn -> Seq(Byte)]
    /\ \A c \in Conn :
          Len(held[c]) <= MaxLength + (IF lang = "py" THEN HighWater ELSE 0)

\* The stream returned is always a prefix of the stream sent: Go never reads into a
\* buffer that is still being written (server.go l. 26-40), and what Python leaves
\* in the transport goes out in order (server.py l. 13-19).
Contract == INSTANCE EchoContract WITH Conn <- Conn, Byte <- Byte, sent <- wrote
ImplementsContract == Contract!Spec

\* The server in Python has read a chunk that ends inside a character.
CutCharacter(c) == lang = "py" /\ taken[c] > 0 /\ wrote[c][taken[c]] = "lead"

\* A server drops a connection only after its client left, and after a clean close
\* only when every byte has been echoed (server.go l. 27-33; server.py l. 14-15,
\* 24-27); except that the server in Python also drops it when a read happens to end
\* inside a character, because decode raises (server.py l. 16).
NoEarlyDrop ==
    \A c \in Conn : pc[c] = "closed" =>
        \/ peer[c] = "reset"
        \/ peer[c] = "closed" /\ echoed[c] = wrote[c]
        \/ CutCharacter(c)

\* Every byte a client sends comes back, unless the connection breaks or, in Python,
\* is dropped in the middle of a character.
EveryByteEchoed ==
    \A c \in Conn : \A k \in 1 .. MaxStream :
        Len(wrote[c]) >= k ~> \/ Len(echoed[c]) >= k
                              \/ peer[c] = "reset"
                              \/ CutCharacter(c)

\* A connection whose client left is closed, with what its handler held: neither a
\* Write (server.go l. 40) nor a drain or wait_closed (server.py l. 19, 27) waits for
\* ever for a client that is gone.
Released == \A c \in Conn : peer[c] \in {"closed", "reset"} ~> pc[c] = "closed"
=============================================================================
