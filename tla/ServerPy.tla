------------------------------ MODULE ServerPy ------------------------------
(***************************************************************************)
(* v4/server.py, which is v3/server.py: a coroutine per connection on one  *)
(* event loop.  write puts a chunk in the buffer of the transport, drain   *)
(* waits only while that holds more than HighWater bytes, and every chunk  *)
(* is decoded for the log before it is echoed.                             *)
(***************************************************************************)
EXTENDS EchoHandler

CONSTANT HighWater \* asyncio's limit of the write buffer (64 KiB)

\* A chunk is text of its own: no character is cut at either end.
Decodes(chunk) == Head(chunk) # "trail" /\ chunk[Len(chunk)] # "lead"

\* start_server (l. 30-31) starts a coroutine for each connection.
Accept(c) == Accepts(c)

\* Mutant: write without drain.
ReadNoDrain(c) ==
    /\ \E chunk \in Chunks(c) :
        /\ Reads(c, chunk)
        /\ IF Decodes(chunk)
           THEN held' = [held EXCEPT ![c] = @ \o chunk] /\ UNCHANGED pc
           ELSE pc' = [pc EXCEPT ![c] = "closing"] /\ UNCHANGED held
    /\ UNCHANGED <<peer, wrote, echoed>>

\* read, decode, write and drain (l. 13-19).  If decode raises, the connection is
\* closed and the chunk is not echoed (l. 22-27).
Read(c) ==
    /\ Len(held[c]) <= HighWater
    /\ \E chunk \in Chunks(c) :
        /\ Reads(c, chunk)
        /\ IF Decodes(chunk)
           THEN held' = [held EXCEPT ![c] = @ \o chunk] /\ UNCHANGED pc
           ELSE pc' = [pc EXCEPT ![c] = "closing"] /\ UNCHANGED held
    /\ UNCHANGED <<peer, wrote, echoed>>

\* Mutant: the transport is aborted instead of closed.
ReadEofAborts(c) == pc[c] = "serve" /\ Len(held[c]) <= HighWater /\ EOF(c) /\ Closes(c)

\* No data: the client is done (l. 14-15).  close (l. 26) lets the buffer drain.
ReadEOF(c) ==
    /\ pc[c] = "serve"
    /\ Len(held[c]) <= HighWater
    /\ EOF(c)
    /\ pc' = [pc EXCEPT ![c] = "closing"]
    /\ UNCHANGED <<peer, wrote, taken, echoed, held>>

\* The transport sends what it holds.
Flush(c) == SendsByte(c)

\* wait_closed (l. 27) returns.
Close(c) == pc[c] = "closing" /\ held[c] = << >> /\ Closes(c)

\* Mutant: a reset is only noticed by a read.
LostWhileServing(c) == pc[c] = "serve" /\ peer[c] = "reset" /\ Closes(c)

\* A reset makes the transport drop its buffer and every call raise (l. 20-27).
Lost(c) == pc[c] \in {"serve", "closing"} /\ peer[c] = "reset" /\ Closes(c)

Handler(c) == Read(c) \/ ReadEOF(c) \/ Flush(c) \/ Close(c) \/ Lost(c)

Next == Clients \/ \E c \in Conn : Accept(c) \/ Handler(c)

Spec == Init /\ [][Next]_vars
=============================================================================
