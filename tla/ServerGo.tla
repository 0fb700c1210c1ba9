------------------------------ MODULE ServerGo ------------------------------
(***************************************************************************)
(* v4/server.go, and v3/server.go, which differs in what it logs only: a   *)
(* goroutine per connection with a buffer of its own.  Write returns when  *)
(* the whole slice is sent, so the buffer is free for the next Read.       *)
(***************************************************************************)
EXTENDS EchoHandler

\* l. 70-77, 24
Accept(c) == Accepts(c)

\* Mutant: the next Read does not wait for the end of Write.
ReadIntoBuffer(c) ==
    /\ \E chunk \in Chunks(c) : /\ Reads(c, chunk)
                                /\ held' = [held EXCEPT ![c] = chunk]
    /\ UNCHANGED <<peer, wrote, echoed, pc>>

\* l. 26
Read(c) ==
    /\ held[c] = << >>
    /\ \E chunk \in Chunks(c) : /\ Reads(c, chunk)
                                /\ held' = [held EXCEPT ![c] = chunk]
    /\ UNCHANGED <<peer, wrote, echoed, pc>>

\* io.EOF or an error ends the loop, and the deferred Close runs (l. 18, 27-33).
ReadFails(c) ==
    /\ pc[c] = "serve"
    /\ held[c] = << >>
    /\ peer[c] = "reset" \/ EOF(c)
    /\ Closes(c)

\* l. 40
Write(c) == SendsByte(c)

\* l. 41-44
WriteFails(c) == pc[c] = "serve" /\ held[c] # << >> /\ peer[c] = "reset" /\ Closes(c)

Handler(c) == Read(c) \/ ReadFails(c) \/ Write(c) \/ WriteFails(c)

Next == Clients \/ \E c \in Conn : Accept(c) \/ Handler(c)

Spec == Init /\ [][Next]_vars
=============================================================================
