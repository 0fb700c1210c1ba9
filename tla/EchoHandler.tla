---------------------------- MODULE EchoHandler -----------------------------
(***************************************************************************)
(* What the echo servers in Go and Python have in common: one handler per  *)
(* accepted connection, a goroutine or a coroutine, that reads a chunk,    *)
(* writes it back, and reads again.  TCP is two append-only streams per    *)
(* connection with a cursor each.                                          *)
(***************************************************************************)
EXTENDS Integers, Sequences

CONSTANTS Conn,      \* connections the clients may open
          MaxLength, \* the most one read returns (1024)
          MaxStream  \* bound: bytes a client sends on one connection

ASSUME BufferAssumption == MaxLength \in Nat \ {0} /\ MaxStream \in Nat

\* Of a byte only its part in UTF-8 matters: alone, first or second of a character.
Byte == {"ascii", "lead", "trail"}

VARIABLES
    peer,   \* peer[c]: what the client did: absent, open, closed (FIN), reset
    wrote,  \* wrote[c]: the bytes client c sent
    taken,  \* taken[c]: how many of them the server has read
    echoed, \* echoed[c]: the bytes the server passed to the kernel
    pc,     \* pc[c]: none, serve, closing (to flush what is held), closed
    held    \* held[c]: bytes to be written back that the kernel has not taken yet

vars == <<peer, wrote, taken, echoed, pc, held>>

Init ==
    /\ peer = [c \in Conn |-> "absent"]
    /\ wrote = [c \in Conn |-> << >>]
    /\ taken = [c \in Conn |-> 0]
    /\ echoed = [c \in Conn |-> << >>]
    /\ pc = [c \in Conn |-> "none"]
    /\ held = [c \in Conn |-> << >>]

-----------------------------------------------------------------------------
(* The clients and the network *)

Connect(c) ==
    /\ peer[c] = "absent"
    /\ peer' = [peer EXCEPT ![c] = "open"]
    /\ UNCHANGED <<wrote, taken, echoed, pc, held>>

\* Clients send UTF-8.
ClientWrite(c, b) ==
    /\ peer[c] = "open"
    /\ Len(wrote[c]) < MaxStream
    /\ b = "trail" <=> wrote[c] # << >> /\ wrote[c][Len(wrote[c])] = "lead"
    /\ wrote' = [wrote EXCEPT ![c] = Append(@, b)]
    /\ UNCHANGED <<peer, taken, echoed, pc, held>>

\* The client closes its side, or the connection breaks: also after a close, when
\* the server still sends to a socket that is gone.
ClientLeave(c, how) ==
    /\ <<peer[c], how>> \in {<<"open", "closed">>, <<"open", "reset">>,
                             <<"closed", "reset">>}
    /\ peer' = [peer EXCEPT ![c] = how]
    /\ UNCHANGED <<wrote, taken, echoed, pc, held>>

Clients == \E c \in Conn :
              \/ Connect(c)
              \/ \E b \in Byte : ClientWrite(c, b)
              \/ \E how \in {"closed", "reset"} : ClientLeave(c, how)

-----------------------------------------------------------------------------
(* The steps of a server *)

\* A failed accept changes nothing and the server accepts again.
Accepts(c) ==
    /\ peer[c] # "absent"
    /\ pc[c] = "none"
    /\ pc' = [pc EXCEPT ![c] = "serve"]
    /\ UNCHANGED <<peer, wrote, taken, echoed, held>>

\* What a read may return: the next bytes, as many as have arrived or fit.
Chunks(c) == {SubSeq(wrote[c], taken[c] + 1, taken[c] + n) :
                n \in 1 .. IF Len(wrote[c]) - taken[c] < MaxLength
                           THEN Len(wrote[c]) - taken[c] ELSE MaxLength}

Reads(c, chunk) ==
    /\ pc[c] = "serve"
    /\ peer[c] # "reset"
    /\ taken' = [taken EXCEPT ![c] = @ + Len(chunk)]

EOF(c) == peer[c] = "closed" /\ taken[c] = Len(wrote[c])

\* The kernel takes a byte; one per step stands for every way to split a write.
SendsByte(c) ==
    /\ pc[c] \in {"serve", "closing"}
    /\ peer[c] # "reset"
    /\ held[c] # << >>
    /\ echoed' = [echoed EXCEPT ![c] = Append(@, Head(held[c]))]
    /\ held' = [held EXCEPT ![c] = Tail(@)]
    /\ UNCHANGED <<peer, wrote, taken, pc>>

Closes(c) ==
    /\ pc' = [pc EXCEPT ![c] = "closed"]
    /\ held' = [held EXCEPT ![c] = << >>]
    /\ UNCHANGED <<peer, wrote, taken, echoed>>
=============================================================================
