------------------------------ MODULE ClientGo ------------------------------
(***************************************************************************)
(* v4/client.go and v3/client.go: a goroutine per client.  One Read counts *)
(* as a reply whatever it returns, and one deadline of 60 seconds covers   *)
(* the whole conversation.  Lines are of v4/client.go.                     *)
(***************************************************************************)
EXTENDS LoadClient

CONSTANT EofRecorded \* is the end of the stream added to errors?  (v3 yes, v4 no)

vars == <<main, pc, conn, sent, echoed, got, msg, log, out>>

-----------------------------------------------------------------------------
(* main (l. 118-123); the retries of v3 (l. 188-199) end after the first attempt *)

Main == (\E c \in Client : Starts(c)) \/ AllStarted \/ Joins

-----------------------------------------------------------------------------
(* A goroutine: connectAndSend (l. 35-86) *)

\* l. 46-53
Dial(c) == Connects(c)

\* There is no answer within 10 seconds, or a refusal (l. 46-51).
DialFails(c) == At(c, "connect") /\ Errs(c)

\* After the deadline set once, when the connection is made (l. 55), each call fails.
DeadlinePasses(c) ==
    /\ pc[c] \in {"write", "read"}
    /\ ~Broken(c)
    /\ conn' = [conn EXCEPT ![c] = "late"]
    /\ UNCHANGED <<main, pc, sent, echoed, client, out>>

\* l. 60-66
Write(c) == SendsByte(c)

\* l. 62-65
WriteFails(c) == At(c, "write") /\ Broken(c) /\ Errs(c)

\* Mutant: a Read that returns nothing counts too, as in Python.
ReadAnything(c) ==
    /\ At(c, "read")
    /\ TakesArrived(c) \/ (~Broken(c) /\ UNCHANGED got)
    /\ Counts(c)
    /\ UNCHANGED <<net, out>>

\* One Read, which returns at least a byte, is a reply (l. 68-79).
Read(c) ==
    /\ At(c, "read")
    /\ TakesArrived(c)
    /\ Counts(c)
    /\ UNCHANGED <<net, out>>

\* Mutant: the deadline does not reach the read.
ReadFailsOnReset(c) == At(c, "read") /\ conn[c] = "reset" /\ Errs(c)

\* l. 70-75
ReadFails(c) == At(c, "read") /\ Broken(c) /\ Errs(c)

\* io.EOF ends the loop; v4 leaves no trace of it (l. 71).
ReadEOF(c) ==
    /\ At(c, "read")
    /\ AtEOF(c)
    /\ IF EofRecorded
       THEN Errs(c)
       ELSE pc' = [pc EXCEPT ![c] = "report"] /\ UNCHANGED <<net, client, out>>

\* Println writes the text and its newline at once (l. 89-97).
OutputLogData(c) == Prints(c)

-----------------------------------------------------------------------------
Thread(c) == \/ Dial(c) \/ DialFails(c)
             \/ Write(c) \/ WriteFails(c)
             \/ Read(c) \/ ReadFails(c) \/ ReadEOF(c)
             \/ OutputLogData(c)

Next == Main \/ \E c \in Client : Thread(c) \/ DeadlinePasses(c) \/ Network(c)

Spec == Init /\ [][Next]_vars
=============================================================================
