------------------------------ MODULE ClientPy ------------------------------
(***************************************************************************)
(* v4/client.py, which is v3/client.py: a coroutine per client on one      *)
(* event loop, without timeouts.  A read that returns nothing, at the end  *)
(* of the stream, counts as a reply.                                       *)
(***************************************************************************)
EXTENDS LoadClient

vars == <<main, pc, conn, sent, echoed, got, msg, log, out>>

-----------------------------------------------------------------------------
(* main (l. 74-100).  Every exception of connect_and_send becomes an error of  *)
(* its report, so asyncio.run never raises and the retries of l. 90-97 end     *)
(* with the first attempt.                                                     *)

\* gather (l. 81) makes a task of every coroutine before any of them runs.
Gather ==
    /\ main = "spawn"
    /\ main' = "join"
    /\ pc' = [c \in Client |-> "connect"]
    /\ UNCHANGED <<net, client, out>>

Main == Gather \/ Joins

-----------------------------------------------------------------------------
(* A coroutine: connect_and_send (l. 14-72) *)

\* l. 28-29
OpenConnection(c) == Connects(c)

\* l. 48-58
Raises(c) == Errs(c)

ConnectRaises(c) == At(c, "connect") /\ Raises(c)

\* write and drain (l. 36-38)
Write(c) == SendsByte(c)

DrainRaises(c) == At(c, "write") /\ Broken(c) /\ Raises(c)

\* read(1024) (l. 40-44): at least a byte, or none at the end of the stream.
Read(c) ==
    /\ At(c, "read")
    /\ TakesArrived(c) \/ (AtEOF(c) /\ UNCHANGED got)
    /\ Counts(c)
    /\ UNCHANGED <<net, out>>

ReadRaises(c) == At(c, "read") /\ Broken(c) /\ Raises(c)

\* finally (l. 60-72).  The messages are shorter than a socket's buffer: nothing
\* is left to flush, so wait_closed does not raise.
Finally(c) == Prints(c)

-----------------------------------------------------------------------------
Thread(c) == \/ OpenConnection(c) \/ ConnectRaises(c)
             \/ Write(c) \/ DrainRaises(c)
             \/ Read(c) \/ ReadRaises(c)
             \/ Finally(c)

Next == Main \/ \E c \in Client : Thread(c) \/ Network(c)

Spec == Init /\ [][Next]_vars
=============================================================================
