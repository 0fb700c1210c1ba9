------------------------------ MODULE ClientCpp -----------------------------
(***************************************************************************)
(* v4/client.cpp: a thread per client, exact reads, and the reports under  *)
(* a mutex.                                                                *)
(***************************************************************************)
EXTENDS LoadClient

VARIABLES left,      \* left[c]: bytes of the current reply not read yet
          cout_mutex \* the client that holds it, if any

own  == <<left, cout_mutex>>
vars == <<main, pc, conn, sent, echoed, got, msg, log, out, own>>

CppTypeOK == /\ left \in [Client -> 0 .. Size]
             /\ cout_mutex \in {{}} \cup {{c} : c \in Client}

CppInit == Init /\ left = [c \in Client |-> Size] /\ cout_mutex = {}

-----------------------------------------------------------------------------
(* main (l. 112-136) *)

\* The system refuses a thread: emplace_back throws.  Unwinding destroys the
\* vector; a joinable thread in it ends the process with std::terminate.
SpawnFails ==
    /\ main = "spawn"
    /\ \E c \in Client : pc[c] = "none"
    /\ main' = IF \A c \in Client : pc[c] = "none" THEN "failed" ELSE "terminated"
    /\ UNCHANGED <<pc, net, client, out>>

Main == /\ (\E c \in Client : Starts(c)) \/ AllStarted \/ SpawnFails \/ Joins
        /\ UNCHANGED own

-----------------------------------------------------------------------------
(* A thread: connectAndSend (l. 49-105) *)

ConnectFails(c) == At(c, "connect") /\ Errs(c)

WriteFails(c) == At(c, "write") /\ Broken(c) /\ Errs(c)

\* asio::read (l. 79) of as many bytes as the message has, in any pieces.
Read(c) ==
    /\ At(c, "read")
    /\ \E n \in 1 .. left[c] :
        /\ Arrived(c, n)
        /\ got' = [got EXCEPT ![c] = @ + n]
        /\ IF n < left[c]
           THEN /\ left' = [left EXCEPT ![c] = @ - n]
                /\ UNCHANGED <<pc, msg, log>>
           ELSE /\ left' = [left EXCEPT ![c] = Size]
                /\ Counts(c)
    /\ UNCHANGED <<net, out>>

\* Mutant: the end of the stream is not an error.
ReadEofSilent(c) ==
    /\ At(c, "read")
    /\ \/ Broken(c) /\ Errs(c)
       \/ /\ AtEOF(c)
          /\ pc' = [pc EXCEPT ![c] = "report"]
          /\ UNCHANGED <<net, client, out>>

\* l. 81-83, 91-93
ReadFails(c) == At(c, "read") /\ (Broken(c) \/ AtEOF(c)) /\ Errs(c)

-----------------------------------------------------------------------------
(* The report: outputLogData (l. 43-47), after the socket is closed (l. 96) *)

\* Mutant: there is no lock.
LockForgotten(c) ==
    /\ At(c, "report")
    /\ cout_mutex' = {c}
    /\ pc' = [pc EXCEPT ![c] = "line"]
    /\ UNCHANGED <<net, client, left, out>>

Lock(c) ==
    /\ At(c, "report")
    /\ cout_mutex = {}
    /\ cout_mutex' = {c}
    /\ pc' = [pc EXCEPT ![c] = "line"]
    /\ UNCHANGED <<net, client, left, out>>

\* The two insertions of l. 46 are two writes to the stream.
Line(c) ==
    /\ At(c, "line")
    /\ out' = Append(out, <<c, "json">>)
    /\ pc' = [pc EXCEPT ![c] = "newline"]
    /\ UNCHANGED <<net, client, own>>

Endl(c) ==
    /\ At(c, "newline")
    /\ out' = Append(out, <<c, "endl">>)
    /\ cout_mutex' = {}
    /\ pc' = [pc EXCEPT ![c] = "exited"]
    /\ UNCHANGED <<net, client, left>>

-----------------------------------------------------------------------------
Thread(c) ==
    \/ /\ Connects(c) \/ ConnectFails(c) \/ SendsByte(c) \/ WriteFails(c) \/ ReadFails(c)
       /\ UNCHANGED own
    \/ /\ Read(c)
       /\ UNCHANGED cout_mutex
    \/ Lock(c) \/ Line(c) \/ Endl(c)

Next == Main \/ \E c \in Client : Thread(c) \/ (Network(c) /\ UNCHANGED own)

Spec == CppInit /\ [][Next]_vars
=============================================================================
