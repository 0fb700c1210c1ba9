---------------------------- MODULE ClientReport ----------------------------
(***************************************************************************)
(* What the processing of the logs may take for granted of a client's      *)
(* report: LoadClients is shown to guarantee it, and Results builds on it. *)
(***************************************************************************)
EXTENDS Naturals

CONSTANT Messages \* NUM_MESSAGES_PER_CLIENT

Languages == {"cpp", "go", "go3", "py"} \* those of v4, C++ and Go, and of v3

\* How much a client had read for the replies it counted: as many bytes as these have, or
\* a part of them but a byte for each, or less.
Heard == {"whole", "part", "less"}

\* The client in C++ counts a reply when it has all its bytes, those in Go when they have
\* some, and the one in Python also when the server has closed and there is nothing.
HeardIn(l) ==
    {h \in Heard : (h = "part" => l # "cpp") /\ (h = "less" => l = "py")}

\* At most the last message sent has no reply, and nothing is sent without a
\* connection.  An error ends the conversation; without one each message was answered,
\* or the server closed the connection to a Go client of version 4, which takes no
\* note of it.
Consistent(r, l) ==
    /\ r.messages_received <= r.messages_sent
    /\ r.messages_sent <= r.messages_received + 1
    /\ ~r.connection_success => r.messages_sent = 0 /\ r.errors = 1
    /\ r.errors = 0 => \/ r.messages_received = Messages
                       \/ l = "go" /\ r.messages_sent = r.messages_received + 1
    /\ r.errors = 1 => r.messages_received < Messages \/ Messages = 0

\* A report r of a client that had read so much.
Fits(r, heard, l) ==
    /\ Consistent(r, l)
    /\ heard \in HeardIn(l)
    /\ r.messages_received = 0 => heard = "whole"
=============================================================================
