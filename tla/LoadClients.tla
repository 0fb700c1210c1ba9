---------------------------- MODULE LoadClients -----------------------------
(***************************************************************************)
(* The load client in each of its languages, side by side: which of the    *)
(* promises its reports are read for does each of them keep?               *)
(***************************************************************************)
EXTENDS LoadClient

VARIABLES lang,             \* cpp (v4), go (v4), go3 (v3), py (v3 and v4)
          left, cout_mutex  \* of the client in C++

own  == <<left, cout_mutex>>
vars == <<main, pc, conn, sent, echoed, got, msg, log, out, lang, own>>

Cpp == INSTANCE ClientCpp
Go  == INSTANCE ClientGo WITH EofRecorded <- FALSE
Go3 == INSTANCE ClientGo WITH EofRecorded <- TRUE
Py  == INSTANCE ClientPy

Report == INSTANCE ClientReport

AllInit == lang \in {"cpp", "go", "go3", "py"} /\ Cpp!CppInit

Main == /\ \/ lang = "cpp" /\ Cpp!Main
           \/ lang \in {"go", "go3"} /\ Go!Main /\ UNCHANGED own
           \/ lang = "py" /\ Py!Main /\ UNCHANGED own
        /\ UNCHANGED lang

Thread(c) == /\ \/ lang = "cpp" /\ Cpp!Thread(c)
                \/ lang = "go" /\ Go!Thread(c) /\ UNCHANGED own
                \/ lang = "go3" /\ Go3!Thread(c) /\ UNCHANGED own
                \/ lang = "py" /\ Py!Thread(c) /\ UNCHANGED own
             /\ UNCHANGED lang

Deadline(c) == lang \in {"go", "go3"} /\ Go!DeadlinePasses(c) /\ UNCHANGED <<own, lang>>

Echoes(c) == Echo(c) /\ UNCHANGED <<own, lang>>

BreaksDown(c) ==
    /\ \E how \in {"fin", "reset", "silent"} : Breaks(c, how)
    /\ UNCHANGED <<own, lang>>

Next == \/ Main
        \/ \E c \in Client : Thread(c) \/ Deadline(c) \/ Echoes(c) \/ BreaksDown(c)

Spec == AllInit /\ [][Next]_vars

\* Every client runs, time passes, and the server echoes on a connection that stays
\* up, which is what the servers are checked to do.
FairSpec ==
    /\ Spec
    /\ WF_vars(Main)
    /\ \A c \in Client : WF_vars(Thread(c)) /\ WF_vars(Deadline(c)) /\ WF_vars(Echoes(c))

-----------------------------------------------------------------------------
(* Properties *)

AllTypeOK ==
    /\ TypeOK
    /\ Cpp!CppTypeOK
    /\ lang \in {"cpp", "go", "go3", "py"}

\* How much client c has read for the replies it counted.
HeardBy(c) == IF got[c] >= log[c].messages_received * Size THEN "whole"
              ELSE IF got[c] >= log[c].messages_received THEN "part" ELSE "less"

\* When a reply is counted, and its latency measured, the client in C++ has just
\* read the whole echo of the message it sent, however the stream was cut
\* (client.cpp l. 79-89).  The others have read some new bytes (client.go l. 69,
\* client.py l. 40), except that Python counts nothing at all as a reply once the
\* server has closed.
CountedReplyIsOwn ==
    [][\A c \in Client :
         log'[c].messages_received > log[c].messages_received =>
            IF lang = "cpp"
            THEN /\ got'[c] >= Size
                 /\ \A k \in 1 .. Size : echoed[c][got'[c] - Size + k] = <<msg[c], k>>
            ELSE got'[c] > got[c] \/ (lang = "py" /\ AtEOF(c))]_vars

\* What a client reports.  At most one message was sent in vain and every message
\* counted as sent is in the hands of the kernel.  A failed connection is always an
\* error.  An error means that not every message was answered, if there was any; the
\* converse holds except for the client of v4 in Go, which leaves no trace of a server
\* that closed early (client.go l. 71), and the one in Python, which takes it for
\* replies (client.py l. 40-44).
ReportTruthful ==
    \A c \in Client : pc[c] \in Reporting =>
        LET answered == log[c].messages_received = Messages IN
        /\ log[c].messages_sent - log[c].messages_received \in 0 .. 1
        /\ Size * log[c].messages_sent <= Len(sent[c])
        /\ log[c].errors = 0 => log[c].connection_success
        /\ log[c].errors = 1 => ~answered \/ Messages = 0
        /\ log[c].errors = 0 /\ ~answered => lang = "go" /\ AtEOF(c)
        /\ answered => \/ got[c] = Messages * Size
                       \/ lang \in {"go", "go3"} /\ got[c] >= Messages
                       \/ lang = "py" /\ (got[c] >= Messages \/ conn[c] = "fin")

\* Every report is one that process_logs.py can make sense of, and what stands behind
\* its replies is what its language lets pass for one: Results computes its rows from
\* all reports of this kind (client.cpp l. 66-98; client.go l. 60-79; client.py
\* l. 36-58; process_logs.py l. 68-83).
ReportsFitResults ==
    \A c \in Client : pc[c] \in Reporting => Report!Fits(log[c], HeardBy(c), lang)

\* Every report is a line of its own, and the only one of its client: nothing is
\* written between the JSON and the newline of another, whichever clients end
\* together; and when main returns, so that the Job is complete, no report is
\* missing or cut (client.cpp l. 43-47, 126-130; client.go l. 96, 123; client.py
\* l. 72, 81).
LinesAreWhole ==
    /\ \A k \in 1 .. Len(out) :
          IF k % 2 = 1
          THEN out[k][2] = "json" /\ \A j \in 1 .. k - 1 : out[j][1] # out[k][1]
          ELSE out[k] = <<out[k - 1][1], "endl">>
    /\ main = "done" => \A c \in Client : \E k \in 1 .. Len(out) : out[k] = <<c, "endl">>

\* The process ends.  In C++ and Python a connection that falls silent prevents it,
\* since they have no timeout (client.cpp l. 79, client.py l. 40), only the Job has;
\* in Go the deadline (client.go l. 55) ends it all the same.
Ends ==
    <>(\/ main \in Ended
       \/ lang \in {"cpp", "py"} /\ \E c \in Client : conn[c] = "silent")
=============================================================================
