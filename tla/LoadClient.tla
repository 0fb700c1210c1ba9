----------------------------- MODULE LoadClient -----------------------------
(***************************************************************************)
(* What the load clients of all languages have in common.  One process     *)
(* runs many clients at once; each connects, sends its messages one after  *)
(* the other, reads a reply to each, and prints one line of JSON, its      *)
(* report, which process_logs.py reads.                                    *)
(*                                                                         *)
(* The server is whatever keeps EchoContract; it may also close or reset   *)
(* a connection, or fall silent, at any time.  Lines are of v4/client.cpp. *)
(***************************************************************************)
EXTENDS Integers, Sequences

CONSTANTS Client,   \* the clients of the process (NUM_CONCURRENT_CLIENTS)
          Messages, \* messages of each (NUM_MESSAGES_PER_CLIENT)
          Size      \* bytes of a message

ASSUME ParametersAssumption ==
    /\ Messages \in Nat
    /\ Size \in Nat \ {0}

Byte == (1 .. Messages) \X (1 .. Size) \* <<i, k>>: byte k of message i

VARIABLES
    main,      \* the main program: spawn, join, done, failed, terminated
    pc,        \* pc[c]: none, connect, write, read, report, line, newline, exited
    conn,      \* conn[c]: none, up, fin, reset, silent; late: past a deadline
    sent,      \* sent[c]: the bytes client c passed to the kernel
    echoed,    \* echoed[c]: the bytes the server sent back
    got,       \* got[c]: how many of them the client has read
    msg,       \* msg[c]: i + 1 of its loop over the messages
    log,       \* log[c]: the counters of its LogData
    out        \* the reports on stdout: JSON texts and line ends

net    == <<conn, sent, echoed>>
client == <<got, msg, log>>

Server == INSTANCE EchoContract WITH Conn <- Client

Reporting == {"report", "line", "newline", "exited"}
Ended     == {"done", "failed", "terminated"}

LogData == [connection_success : BOOLEAN, messages_sent : 0 .. Messages,
            messages_received : 0 .. Messages, errors : 0 .. 1]

TypeOK ==
    /\ main \in {"spawn", "join"} \cup Ended
    /\ pc \in [Client -> {"none", "connect", "write", "read"} \cup Reporting]
    /\ conn \in [Client -> {"none", "up", "fin", "reset", "silent", "late"}]
    /\ sent \in [Client -> Seq(Byte)]
    /\ echoed \in [Client -> Seq(Byte)]
    /\ got \in [Client -> Nat]
    /\ msg \in [Client -> 1 .. Messages + 1]
    /\ log \in [Client -> LogData]
    /\ out \in Seq(Client \X {"json", "endl"})

Init ==
    /\ main = "spawn"
    /\ pc = [c \in Client |-> "none"]
    /\ conn = [c \in Client |-> "none"]
    /\ Server!Init
    /\ got = [c \in Client |-> 0]
    /\ msg = [c \in Client |-> 1]
    /\ log = [c \in Client |-> [connection_success |-> FALSE, messages_sent |-> 0,
                                messages_received |-> 0, errors |-> 0]]
    /\ out = << >>

-----------------------------------------------------------------------------
(* The main program *)

\* It starts client c.
Starts(c) ==
    /\ main = "spawn"
    /\ pc[c] = "none"
    /\ pc' = [pc EXCEPT ![c] = "connect"]
    /\ UNCHANGED <<main, net, client, out>>

AllStarted ==
    /\ main = "spawn"
    /\ \A c \in Client : pc[c] # "none"
    /\ main' = "join"
    /\ UNCHANGED <<pc, net, client, out>>

\* It waits for every client and returns 0.
Joins ==
    /\ main = "join"
    /\ \A c \in Client : pc[c] = "exited"
    /\ main' = "done"
    /\ UNCHANGED <<pc, net, client, out>>

-----------------------------------------------------------------------------
(* The steps of a client *)

\* Client c runs from one step to another while the process lives.
At(c, step) == pc[c] = step /\ main \notin Ended /\ UNCHANGED main

\* Mutant: one message too many.
LoopOneMore(c, i) ==
    /\ pc' = [pc EXCEPT ![c] = IF i <= Messages THEN "write" ELSE "report"]
    /\ msg' = [msg EXCEPT ![c] = i + 1]

\* The head of the loop over the messages, with i of them answered (l. 66).
Loop(c, i) ==
    /\ pc' = [pc EXCEPT ![c] = IF i < Messages THEN "write" ELSE "report"]
    /\ msg' = [msg EXCEPT ![c] = i + 1]

\* Mutant: the success of the connection is not recorded.
ConnectsUnrecorded(c) ==
    /\ At(c, "connect")
    /\ conn' = [conn EXCEPT ![c] = "up"]
    /\ Loop(c, 0)
    /\ UNCHANGED <<sent, echoed, got, log, out>>

\* The connection is made (l. 58-64).
Connects(c) ==
    /\ At(c, "connect")
    /\ conn' = [conn EXCEPT ![c] = "up"]
    /\ log' = [log EXCEPT ![c].connection_success = TRUE]
    /\ Loop(c, 0)
    /\ UNCHANGED <<sent, echoed, got, out>>

\* An error ends the conversation: it is added to errors and the client goes on
\* to its report (l. 91-98).
Errs(c) ==
    /\ pc' = [pc EXCEPT ![c] = "report"]
    /\ log' = [log EXCEPT ![c].errors = @ + 1]
    /\ UNCHANGED <<net, got, msg, out>>

\* Every call on the connection fails.
Broken(c) == conn[c] \in {"reset", "late"}

\* Writing a message passes it to the kernel in as many pieces as the kernel takes;
\* one byte per step stands for every split.  It does not notice a FIN (l. 72-73).
SendsByte(c) ==
    LET k == Len(sent[c]) - (msg[c] - 1) * Size + 1 IN
    /\ At(c, "write")
    /\ ~Broken(c)
    /\ Server!Send(c, <<msg[c], k>>)
    /\ pc' = [pc EXCEPT ![c] = IF k < Size THEN "write" ELSE "read"]
    /\ log' = [log EXCEPT ![c].messages_sent = IF k < Size THEN @ ELSE @ + 1]
    /\ UNCHANGED <<conn, got, msg, out>>

\* Bytes that arrived before a FIN are still read; a reset loses them.
AtEOF(c) == conn[c] = "fin" /\ got[c] = Len(echoed[c])

\* Client c may read n bytes: they have arrived.
Arrived(c, n) == ~Broken(c) /\ n \in 1 .. Len(echoed[c]) - got[c]

\* One call that reads whatever has arrived; the buffer of 1024 bytes has room for
\* it.  Where the stream is cut depends on when the server's bytes come.
TakesArrived(c) ==
    /\ Arrived(c, Len(echoed[c]) - got[c])
    /\ got' = [got EXCEPT ![c] = Len(echoed[c])]

\* What was read last counts as the reply.
Counts(c) ==
    /\ log' = [log EXCEPT ![c].messages_received = @ + 1]
    /\ Loop(c, msg[c])

\* The report is printed in one piece.
Prints(c) ==
    /\ At(c, "report")
    /\ out' = out \o <<<<c, "json">>, <<c, "endl">>>>
    /\ pc' = [pc EXCEPT ![c] = "exited"]
    /\ UNCHANGED <<net, client>>

-----------------------------------------------------------------------------
(* The server and the network *)

\* The server echoes what it can while the connection is up.
Echo(c) ==
    /\ conn[c] = "up"
    /\ Server!Echo(c)
    /\ UNCHANGED <<main, pc, conn, client, out>>

\* The server closes or loses the connection, or stops answering.
Breaks(c, how) ==
    /\ <<conn[c], how>> \in {<<"up", "fin">>, <<"up", "reset">>, <<"up", "silent">>,
                             <<"fin", "reset">>}
    /\ pc[c] \in {"write", "read"}
    /\ conn' = [conn EXCEPT ![c] = how]
    /\ UNCHANGED <<main, pc, sent, echoed, client, out>>

Network(c) == Echo(c) \/ \E how \in {"fin", "reset", "silent"} : Breaks(c, how)
=============================================================================
