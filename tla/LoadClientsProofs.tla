------------------------- MODULE LoadClientsProofs --------------------------
(***************************************************************************)
(* Safety of the load client in each language for any number of clients,   *)
(* of messages and of bytes of a message, whatever the server, the network *)
(* and the deadlines do.                                                   *)
(***************************************************************************)
EXTENDS LoadClients, SequenceTheorems, TLAPS

-----------------------------------------------------------------------------
(* The inductive invariant, in parts *)

\* Where byte j of message i is in the stream.
Place(i, j) == (i - 1) * Size + j

\* The client sends message after message.
Placed(c) ==
    \A i \in 1 .. Messages, j \in 1 .. Size :
        Place(i, j) <= Len(sent[c]) => sent[c][Place(i, j)] = <<i, j>>

\* The server echoes a prefix of that, of which the client has read a part.
Streams(c) ==
    /\ Len(echoed[c]) <= Len(sent[c]) /\ got[c] <= Len(echoed[c])
    /\ \A k \in 1 .. Len(echoed[c]) : echoed[c][k] = sent[c][k]

\* Where in its loop a client is, and what it has counted by then.
Counted(c) ==
    /\ pc[c] \in {"none", "connect"} =>
          /\ Len(sent[c]) = 0 /\ msg[c] = 1 /\ log[c].errors = 0
          /\ log[c].messages_sent = 0 /\ log[c].messages_received = 0
    /\ pc[c] \in {"write", "read"} =>
          /\ msg[c] <= Messages /\ log[c].errors = 0 /\ log[c].connection_success
          /\ log[c].messages_received = msg[c] - 1
    /\ pc[c] = "write" =>
          /\ log[c].messages_sent = msg[c] - 1
          /\ Len(sent[c]) \in (msg[c] - 1) * Size .. msg[c] * Size - 1
    /\ pc[c] = "read" =>
          /\ log[c].messages_sent = msg[c]
          /\ Len(sent[c]) = msg[c] * Size

\* How much a client has read for the replies it counted.
Replies(c) ==
    /\ left[c] >= 1
    /\ pc[c] \in {"none", "connect", "write"} => left[c] = Size
    /\ lang # "cpp" => left[c] = Size
    /\ lang = "cpp" => got[c] = log[c].messages_received * Size + (Size - left[c])
    /\ lang \in {"go", "go3"} => got[c] >= log[c].messages_received
    /\ lang = "py" => \/ got[c] >= log[c].messages_received
                      \/ conn[c] = "fin"
                      \/ conn[c] = "reset" /\ log[c].messages_received < Messages

\* What a client reports.
Reported(c) ==
    pc[c] \in Reporting =>
        LET answered == log[c].messages_received = Messages IN
        /\ log[c].messages_sent - log[c].messages_received \in 0 .. 1
        /\ Size * log[c].messages_sent <= Len(sent[c])
        /\ log[c].errors = 0 => log[c].connection_success
        /\ log[c].errors = 1 => ~answered \/ Messages = 0
        /\ log[c].errors = 0 /\ ~answered =>
              lang = "go" /\ AtEOF(c) /\ log[c].messages_sent = log[c].messages_received + 1
        /\ ~log[c].connection_success => log[c].messages_sent = 0
        /\ answered => left[c] = Size

ClientInv(c) == Placed(c) /\ Streams(c) /\ Counted(c) /\ Replies(c) /\ Reported(c)

\* The reports come one after the other, each whole; the last may lack its newline.
Alternate ==
    \A k \in 1 .. Len(out) :
        IF k % 2 = 1
        THEN out[k][2] = "json" /\ \A j \in 1 .. k - 1 : out[j][1] # out[k][1]
        ELSE out[k] = <<out[k - 1][1], "endl">>

\* Whose report is begun, whose is complete, and whose lacks its newline.
Written ==
    /\ \A k \in 1 .. Len(out) : pc[out[k][1]] \in {"newline", "exited"}
    /\ \A c \in Client :
          /\ pc[c] = "newline" => Len(out) % 2 = 1 /\ out[Len(out)] = <<c, "json">>
          /\ pc[c] = "exited" => \E k \in 1 .. Len(out) : out[k] = <<c, "endl">>
    /\ Len(out) % 2 = 1 => \E c \in Client : pc[c] = "newline"

\* In C++ the client that writes its report holds the mutex, and nobody else.
Mutex ==
    /\ \A c \in Client : c \in cout_mutex <=> pc[c] \in {"line", "newline"}
    /\ lang # "cpp" => cout_mutex = {}

\* Main waits for all clients; in Python none runs before all are there.
Waits ==
    /\ main = "spawn" /\ lang = "py" => \A c \in Client : pc[c] = "none"
    /\ main = "done" => \A c \in Client : pc[c] = "exited"

IInv == /\ AllTypeOK
        /\ \A c \in Client : ClientInv(c)
        /\ Alternate /\ Written /\ Mutex /\ Waits

-----------------------------------------------------------------------------
(* Arithmetic and types *)

\* Multiples of a number are at least that number apart.
LEMMA Multiples ==
  ASSUME NEW a \in Nat, NEW b \in Nat, NEW n \in Nat, a < b
  PROVE  a * n + n <= b * n /\ a * n \in Nat /\ b * n \in Nat
  <1>1. PICK e \in Nat : b = a + 1 + e
    <2>1. b - a - 1 \in Nat
      OBVIOUS
    <2> QED
      BY <2>1
  <1>2. e * n \in Nat /\ a * n \in Nat /\ b * n \in Nat
    OBVIOUS
  <1>3. b * n = a * n + n + e * n
    BY <1>1
  <1> QED
    BY <1>2, <1>3

\* Products of natural numbers.
LEMMA Commutes ==
  ASSUME NEW a \in Nat, NEW b \in Nat
  PROVE  a * b = b * a /\ a * b \in Nat /\ 0 * b = 0 /\ (1 - 1) * b = 0 /\ 1 * b = b
  OBVIOUS

\* The type of one client.
LEMMA TypeOf ==
  ASSUME AllTypeOK, NEW c \in Client
  PROVE  /\ pc[c] \in {"none", "connect", "write", "read"} \cup Reporting
         /\ conn[c] \in {"none", "up", "fin", "reset", "silent", "late"}
         /\ sent[c] \in Seq(Byte) /\ Len(sent[c]) \in Nat
         /\ echoed[c] \in Seq(Byte) /\ Len(echoed[c]) \in Nat
         /\ got[c] \in Nat
         /\ msg[c] \in 1 .. Messages + 1 /\ msg[c] \in Nat /\ msg[c] >= 1
         /\ log[c] \in LogData
         /\ left[c] \in 0 .. Size /\ left[c] \in Nat
         /\ Messages \in Nat /\ Size \in Nat /\ Size > 0
  BY ParametersAssumption DEF AllTypeOK, TypeOK, Cpp!CppTypeOK

\* The counters of one client.
LEMMA CountersOf ==
  ASSUME AllTypeOK, NEW c \in Client
  PROVE  /\ log[c].connection_success \in BOOLEAN
         /\ log[c].messages_sent \in 0 .. Messages /\ log[c].messages_sent \in Nat
         /\ log[c].messages_received \in 0 .. Messages /\ log[c].messages_received \in Nat
         /\ log[c].errors \in {0, 1}
         /\ log[c] = [connection_success |-> log[c].connection_success,
                      messages_sent |-> log[c].messages_sent,
                      messages_received |-> log[c].messages_received,
                      errors |-> log[c].errors]
  <1>1. log[c] \in LogData /\ Messages \in Nat
    BY TypeOf
  <1> QED
    BY <1>1 DEF LogData

\* A position of the stream is one of one message only.
LEMMA OneMessage ==
  ASSUME NEW i \in Nat \ {0}, NEW h \in Nat \ {0}, NEW j \in 1 .. Size,
         NEW k \in 1 .. Size, Place(i, j) = Place(h, k)
  PROVE  i = h /\ j = k
  <1> DEFINE a == (i - 1) * Size
             b == (h - 1) * Size
  <1>1. Size \in Nat /\ i - 1 \in Nat /\ h - 1 \in Nat
    BY ParametersAssumption
  <1>2. /\ a \in Nat /\ b \in Nat
        /\ i - 1 < h - 1 => a + Size <= b
        /\ h - 1 < i - 1 => b + Size <= a
    BY <1>1, Multiples, Commutes
  <1>3. a + j = b + k
    BY DEF Place
  <1>4. i = h => a = b
    OBVIOUS
  <1> HIDE DEF a, b
  <1> QED
    BY <1>1, <1>2, <1>3, <1>4

\* What becomes of the counters.
LEMMA Updates ==
  ASSUME NEW r \in LogData, NEW l
  PROVE  /\ l = [r EXCEPT !.connection_success = TRUE] =>
            /\ l.connection_success = TRUE /\ l.messages_sent = r.messages_sent
            /\ l.messages_received = r.messages_received /\ l.errors = r.errors
            /\ l \in LogData
         /\ l = [r EXCEPT !.errors = @ + 1] =>
            /\ l.connection_success = r.connection_success
            /\ l.messages_sent = r.messages_sent
            /\ l.messages_received = r.messages_received /\ l.errors = r.errors + 1
            /\ r.errors = 0 => l \in LogData
         /\ l = [r EXCEPT !.messages_received = @ + 1] =>
            /\ l.connection_success = r.connection_success
            /\ l.messages_sent = r.messages_sent
            /\ l.messages_received = r.messages_received + 1 /\ l.errors = r.errors
            /\ r.messages_received < Messages => l \in LogData
         /\ l = [r EXCEPT !.messages_sent = @ + 1] =>
            /\ l.connection_success = r.connection_success
            /\ l.messages_sent = r.messages_sent + 1
            /\ l.messages_received = r.messages_received /\ l.errors = r.errors
            /\ r.messages_sent < Messages => l \in LogData
  <1>0. /\ r.connection_success \in BOOLEAN /\ r.messages_sent \in 0 .. Messages
        /\ r.messages_received \in 0 .. Messages /\ r.errors \in 0 .. 1
        /\ Messages \in Nat
    BY ParametersAssumption DEF LogData
  <1>1. ASSUME l = [r EXCEPT !.connection_success = TRUE]
        PROVE  /\ l.connection_success = TRUE /\ l.messages_sent = r.messages_sent
               /\ l.messages_received = r.messages_received /\ l.errors = r.errors
               /\ l \in LogData
    BY <1>1 DEF LogData
  <1>2. ASSUME l = [r EXCEPT !.errors = @ + 1]
        PROVE  /\ l.connection_success = r.connection_success
               /\ l.messages_sent = r.messages_sent
               /\ l.messages_received = r.messages_received /\ l.errors = r.errors + 1
               /\ r.errors = 0 => l \in LogData
    BY <1>2 DEF LogData
  <1>3. ASSUME l = [r EXCEPT !.messages_received = @ + 1]
        PROVE  /\ l.connection_success = r.connection_success
               /\ l.messages_sent = r.messages_sent
               /\ l.messages_received = r.messages_received + 1 /\ l.errors = r.errors
               /\ r.messages_received < Messages => l \in LogData
    BY <1>0, <1>3 DEF LogData
  <1>4. ASSUME l = [r EXCEPT !.messages_sent = @ + 1]
        PROVE  /\ l.connection_success = r.connection_success
               /\ l.messages_sent = r.messages_sent + 1
               /\ l.messages_received = r.messages_received /\ l.errors = r.errors
               /\ r.messages_sent < Messages => l \in LogData
    BY <1>0, <1>4 DEF LogData
  <1> QED
    BY <1>1, <1>2, <1>3, <1>4

-----------------------------------------------------------------------------
(* The steps of a client in any language *)

\* A call fails.
Fails(c) ==
    /\ pc[c] \in {"connect", "write", "read"}
    /\ Errs(c)
    /\ UNCHANGED <<main, own>>

\* v4 in Go takes the end of the stream for the end of its work.
GivesUp(c) ==
    /\ lang = "go" /\ pc[c] = "read" /\ AtEOF(c)
    /\ pc' = [pc EXCEPT ![c] = "report"]
    /\ UNCHANGED <<main, net, client, out, own>>

\* C++ reads a part of a reply.
PartRead(c) ==
    /\ lang = "cpp" /\ pc[c] = "read"
    /\ \E n \in 1 .. left[c] - 1 :
          /\ Arrived(c, n)
          /\ got' = [got EXCEPT ![c] = @ + n]
          /\ left' = [left EXCEPT ![c] = @ - n]
    /\ UNCHANGED <<main, pc, net, msg, log, out, cout_mutex>>

\* A reply is counted.
Reply(c) ==
    /\ pc[c] = "read"
    /\ Counts(c)
    /\ \/ /\ lang = "cpp"
          /\ Arrived(c, left[c])
          /\ got' = [got EXCEPT ![c] = @ + left[c]]
          /\ left' = [left EXCEPT ![c] = Size]
       \/ lang # "cpp" /\ TakesArrived(c) /\ UNCHANGED left
       \/ lang = "py" /\ AtEOF(c) /\ UNCHANGED <<got, left>>
    /\ UNCHANGED <<main, net, out, cout_mutex>>

\* The names the clients take from LoadClient mean the same in all of them.
LEMMA SameNames ==
  ASSUME NEW c
  PROVE  /\ (Cpp!Connects(c) <=> Connects(c)) /\ (Go!Connects(c) <=> Connects(c))
         /\ (Go3!Connects(c) <=> Connects(c)) /\ (Py!Connects(c) <=> Connects(c))
         /\ (Cpp!SendsByte(c) <=> SendsByte(c)) /\ (Go!SendsByte(c) <=> SendsByte(c))
         /\ (Go3!SendsByte(c) <=> SendsByte(c)) /\ (Py!SendsByte(c) <=> SendsByte(c))
         /\ (Cpp!Errs(c) <=> Errs(c)) /\ (Go!Errs(c) <=> Errs(c))
         /\ (Go3!Errs(c) <=> Errs(c)) /\ (Py!Errs(c) <=> Errs(c))
         /\ (Cpp!Counts(c) <=> Counts(c)) /\ (Go!Counts(c) <=> Counts(c))
         /\ (Go3!Counts(c) <=> Counts(c)) /\ (Py!Counts(c) <=> Counts(c))
  <1>1. /\ (Cpp!Connects(c) <=> Connects(c)) /\ (Go!Connects(c) <=> Connects(c))
        /\ (Go3!Connects(c) <=> Connects(c)) /\ (Py!Connects(c) <=> Connects(c))
    BY Zenon DEF Connects, At, Loop, Ended, Cpp!Connects, Cpp!At, Cpp!Loop,
       Cpp!Ended, Go!Connects, Go!At,
       Go!Loop, Go!Ended, Go3!Connects, Go3!At, Go3!Loop, Go3!Ended, Py!Connects,
       Py!At, Py!Loop, Py!Ended
  <1>2. /\ (Cpp!SendsByte(c) <=> SendsByte(c)) /\ (Go!SendsByte(c) <=> SendsByte(c))
        /\ (Go3!SendsByte(c) <=> SendsByte(c)) /\ (Py!SendsByte(c) <=> SendsByte(c))
    BY Zenon DEF SendsByte, At, Ended, Broken, Server!Send, Cpp!SendsByte, Cpp!At,
       Cpp!Ended, Cpp!Broken,
       Cpp!Server!Send, Go!SendsByte, Go!At, Go!Ended, Go!Broken, Go!Server!Send,
       Go3!SendsByte,
       Go3!At, Go3!Ended, Go3!Broken, Go3!Server!Send, Py!SendsByte, Py!At,
       Py!Ended, Py!Broken,
       Py!Server!Send
  <1>3. /\ (Cpp!Errs(c) <=> Errs(c)) /\ (Go!Errs(c) <=> Errs(c))
        /\ (Go3!Errs(c) <=> Errs(c)) /\ (Py!Errs(c) <=> Errs(c))
    BY Zenon DEF Errs, net, Cpp!Errs, Cpp!net, Go!Errs, Go!net, Go3!Errs, Go3!net,
       Py!Errs, Py!net
  <1>4. /\ (Cpp!Counts(c) <=> Counts(c)) /\ (Go!Counts(c) <=> Counts(c))
        /\ (Go3!Counts(c) <=> Counts(c)) /\ (Py!Counts(c) <=> Counts(c))
    BY Zenon DEF Counts, Loop, Cpp!Counts, Cpp!Loop, Go!Counts, Go!Loop,
       Go3!Counts, Go3!Loop,
       Py!Counts, Py!Loop
  <1> QED
    BY <1>1, <1>2, <1>3, <1>4

\* What a client of the process does, in whichever language.
LEMMA ThreadSteps ==
  ASSUME AllTypeOK, NEW c \in Client, Thread(c)
  PROVE  /\ lang' = lang
         /\ \/ Connects(c) /\ UNCHANGED own
            \/ Fails(c)
            \/ SendsByte(c) /\ UNCHANGED own
            \/ PartRead(c)
            \/ Reply(c)
            \/ GivesUp(c)
            \/ lang # "cpp" /\ Prints(c) /\ UNCHANGED own
            \/ lang = "cpp" /\ (Cpp!Lock(c) \/ Cpp!Line(c) \/ Cpp!Endl(c))
  <1> USE SameNames
  <1>1. CASE lang = "cpp"
    <2>1. Cpp!Thread(c) /\ lang' = lang
      BY <1>1 DEF Thread
    <2>2. CASE /\ Cpp!Connects(c) \/ Cpp!ConnectFails(c) \/ Cpp!SendsByte(c)
                  \/ Cpp!WriteFails(c) \/ Cpp!ReadFails(c)
               /\ UNCHANGED own
      BY <2>1, <2>2 DEF Cpp!ConnectFails, Cpp!WriteFails, Cpp!ReadFails, Cpp!At,
         Fails
    <2>3. CASE Cpp!Read(c) /\ UNCHANGED cout_mutex
      <3>1. PICK n \in 1 .. left[c] :
               /\ Cpp!Arrived(c, n)
               /\ got' = [got EXCEPT ![c] = @ + n]
               /\ IF n < left[c]
                  THEN /\ left' = [left EXCEPT ![c] = @ - n]
                       /\ UNCHANGED <<pc, msg, log>>
                  ELSE /\ left' = [left EXCEPT ![c] = Size]
                       /\ Cpp!Counts(c)
        BY <2>3 DEF Cpp!Read
      <3>2. /\ Arrived(c, n) /\ pc[c] = "read" /\ UNCHANGED <<main, net, out, cout_mutex>>
        BY <2>3, <3>1 DEF Cpp!Read, Cpp!At, Cpp!net, net, Cpp!Arrived, Arrived,
           Cpp!Broken,
           Broken
      <3>3. left[c] \in Nat
        BY TypeOf
      <3>4. CASE n < left[c]
        <4>1. n \in 1 .. left[c] - 1
          BY <3>3, <3>4
        <4> QED
          BY <1>1, <2>1, <3>1, <3>2, <3>4, <4>1 DEF PartRead
      <3>5. CASE n = left[c]
        <4>1. left' = [left EXCEPT ![c] = Size] /\ Counts(c)
          BY <3>1, <3>3, <3>5
        <4> QED
          BY <1>1, <2>1, <3>1, <3>2, <3>5, <4>1 DEF Reply
      <3> QED
        BY <3>3, <3>4, <3>5
    <2> QED
      BY <1>1, <2>1, <2>2, <2>3 DEF Cpp!Thread, Cpp!own, own
  <1>2. CASE lang = "go"
    <2>1. Go!Thread(c) /\ lang' = lang /\ UNCHANGED own
      BY <1>2 DEF Thread
    <2>2. CASE Go!Dial(c) \/ Go!DialFails(c) \/ Go!Write(c) \/ Go!WriteFails(c)
               \/ Go!ReadFails(c)
      BY <2>1, <2>2 DEF Go!Dial, Go!DialFails, Go!Write, Go!WriteFails,
         Go!ReadFails,
         Go!At, Fails
    <2>3. CASE Go!Read(c)
      BY <1>2, <2>1, <2>3 DEF Go!Read, Go!At, Go!net, net, Go!TakesArrived,
         TakesArrived,
         Go!Arrived, Arrived, Go!Broken, Broken, Reply, own
    <2>4. CASE Go!ReadEOF(c)
      BY <1>2, <2>1, <2>4 DEF Go!ReadEOF, Go!At, Go!net, net, Go!client, client,
         Go!AtEOF,
         AtEOF, GivesUp, Fails
    <2>5. CASE Go!OutputLogData(c)
      BY <1>2, <2>1, <2>5 DEF Go!OutputLogData, Go!Prints, Prints, Go!At, At,
         Go!net, net,
         Go!client, client, Go!Ended, Ended
    <2> QED
      BY <2>1, <2>2, <2>3, <2>4, <2>5 DEF Go!Thread
  <1>3. CASE lang = "go3"
    <2>1. Go3!Thread(c) /\ lang' = lang /\ UNCHANGED own
      BY <1>3 DEF Thread
    <2>2. CASE Go3!Dial(c) \/ Go3!DialFails(c) \/ Go3!Write(c) \/ Go3!WriteFails(c)
               \/ Go3!ReadFails(c) \/ Go3!ReadEOF(c)
      BY <2>1, <2>2 DEF Go3!Dial, Go3!DialFails, Go3!Write, Go3!WriteFails,
         Go3!ReadFails,
         Go3!ReadEOF, Go3!At, Fails
    <2>3. CASE Go3!Read(c)
      BY <1>3, <2>1, <2>3 DEF Go3!Read, Go3!At, Go3!net, net, Go3!TakesArrived,
         TakesArrived, Go3!Arrived, Arrived, Go3!Broken, Broken, Reply, own
    <2>4. CASE Go3!OutputLogData(c)
      BY <1>3, <2>1, <2>4 DEF Go3!OutputLogData, Go3!Prints, Prints, Go3!At, At,
         Go3!net,
         net, Go3!client, client, Go3!Ended, Ended
    <2> QED
      BY <2>1, <2>2, <2>3, <2>4 DEF Go3!Thread
  <1>4. CASE lang = "py"
    <2>1. Py!Thread(c) /\ lang' = lang /\ UNCHANGED own
      BY <1>4 DEF Thread
    <2>2. CASE Py!OpenConnection(c) \/ Py!ConnectRaises(c) \/ Py!Write(c)
               \/ Py!DrainRaises(c) \/ Py!ReadRaises(c)
      BY <2>1, <2>2 DEF Py!OpenConnection, Py!ConnectRaises, Py!Raises, Py!Write,
         Py!DrainRaises, Py!ReadRaises, Py!At, Fails
    <2>3. CASE Py!Read(c)
      BY <1>4, <2>1, <2>3 DEF Py!Read, Py!At, Py!net, net, Py!TakesArrived,
         TakesArrived,
         Py!Arrived, Arrived, Py!Broken, Broken, Py!AtEOF, AtEOF, Reply, own
    <2>4. CASE Py!Finally(c)
      BY <1>4, <2>1, <2>4 DEF Py!Finally, Py!Prints, Prints, Py!At, At, Py!net, net,
         Py!client, client, Py!Ended, Ended
    <2> QED
      BY <2>1, <2>2, <2>3, <2>4 DEF Py!Thread
  <1> QED
    BY <1>1, <1>2, <1>3, <1>4 DEF AllTypeOK

\* What main does, in whichever language.
LEMMA MainSteps ==
  ASSUME AllTypeOK, Main
  PROVE  /\ UNCHANGED <<lang, own, net, client, out>>
         /\ \/ \E c \in Client : main = "spawn" /\ lang # "py" /\ Starts(c)
            \/ /\ main = "spawn" /\ lang = "py"
               /\ main' = "join"
               /\ pc' = [c \in Client |-> "connect"]
            \/ pc' = pc /\ main' \in {"join", "failed", "terminated"}
            \/ /\ pc' = pc /\ main' = "done"
               /\ \A c \in Client : pc[c] = "exited"
  <1>1. CASE lang = "cpp"
    BY <1>1 DEF Main, Cpp!Main, Cpp!Starts, Starts, Cpp!AllStarted, Cpp!SpawnFails,
       Cpp!Joins,
       Cpp!net, net, Cpp!client, client, Cpp!own, own
  <1>2. CASE lang \in {"go", "go3"}
    BY <1>2 DEF Main, Go!Main, Go!Starts, Starts, Go!AllStarted, Go!Joins, Go!net,
       net,
       Go!client, client
  <1>3. CASE lang = "py"
    BY <1>3 DEF Main, Py!Main, Py!Gather, Py!Joins, Py!net, net, Py!client, client
  <1> QED
    BY <1>1, <1>2, <1>3 DEF AllTypeOK

-----------------------------------------------------------------------------
(* One client at a time *)

\* Nothing of client d changes.
Same(d) ==
    /\ pc'[d] = pc[d] /\ conn'[d] = conn[d]
    /\ sent'[d] = sent[d] /\ echoed'[d] = echoed[d]
    /\ got'[d] = got[d] /\ msg'[d] = msg[d] /\ log'[d] = log[d] /\ left'[d] = left[d]

\* What holds of a client still holds when another one moves.
LEMMA SameClient ==
  ASSUME lang' = lang, NEW d \in Client, ClientInv(d), Same(d)
  PROVE  ClientInv(d)'
  <1> USE DEF Same
  <1>0. Placed(d)'
    BY DEF ClientInv, Placed
  <1>1. Streams(d)'
    BY DEF ClientInv, Streams
  <1>2. Counted(d)'
    BY DEF ClientInv, Counted
  <1>3. Replies(d)'
    BY DEF ClientInv, Replies
  <1>4. Reported(d)'
    BY DEF ClientInv, Reported, AtEOF
  <1> QED
    BY <1>0, <1>1, <1>2, <1>3, <1>4 DEF ClientInv

\* A client that connects has its messages before it.
LEMMA ConnectStep ==
  ASSUME AllTypeOK, lang' = lang, NEW c \in Client, ClientInv(c),
         Connects(c), UNCHANGED own
  PROVE  /\ TypeOK' /\ ClientInv(c)'
         /\ \A d \in Client \ {c} : Same(d)
  <1>1. /\ pc[c] = "connect" /\ pc'[c] = (IF 0 < Messages THEN "write" ELSE "report")
        /\ msg'[c] = 1 /\ conn'[c] = "up"
        /\ log'[c] = [log[c] EXCEPT !.connection_success = TRUE]
        /\ UNCHANGED <<sent, echoed, got, left, out, main>>
    BY DEF Connects, At, Loop, AllTypeOK, TypeOK, own
  <1>2. /\ log'[c].connection_success = TRUE
        /\ log'[c].messages_sent = log[c].messages_sent
        /\ log'[c].messages_received = log[c].messages_received
        /\ log'[c].errors = log[c].errors
        /\ log'[c] \in LogData
    <2>1. log[c] \in LogData
      BY TypeOf
    <2>2. log'[c] = [log[c] EXCEPT !.connection_success = TRUE]
      BY <1>1
    <2> QED
      BY <2>1, <2>2, Updates
  <1>3. TypeOK'
    <2>1. /\ pc' \in [Client -> {"none", "connect", "write", "read"} \cup Reporting]
          /\ conn' \in [Client -> {"none", "up", "fin", "reset", "silent", "late"}]
      BY DEF Connects, Loop, AllTypeOK, TypeOK, Reporting
    <2>2. msg' \in [Client -> 1 .. Messages + 1]
      <3>1. 0 + 1 \in 1 .. Messages + 1
        BY TypeOf
      <3> QED
        BY <3>1 DEF Connects, Loop, AllTypeOK, TypeOK
    <2>3. log' \in [Client -> LogData]
      BY <1>2 DEF Connects, AllTypeOK, TypeOK
    <2> QED
      BY <1>1, <2>1, <2>2, <2>3 DEF AllTypeOK, TypeOK
  <1>4. \A d \in Client \ {c} : Same(d)
    BY <1>1 DEF Same, Connects, Loop, AllTypeOK, TypeOK
  <1>5. /\ msg[c] = 1 /\ log[c].errors = 0 /\ log[c].messages_sent = 0
        /\ log[c].messages_received = 0 /\ left[c] = Size /\ Len(sent[c]) = 0
    BY <1>1 DEF ClientInv, Counted, Replies
  <1>6. Placed(c)' /\ Streams(c)'
    BY <1>1 DEF ClientInv, Placed, Streams
  <1>7. Counted(c)'
    <2>1. (msg'[c] - 1) * Size = 0 /\ msg'[c] * Size = Size /\ Size > 0 /\ Size \in Nat
      BY <1>1, TypeOf, Commutes
    <2> QED
      BY <1>1, <1>2, <1>5, <2>1, TypeOf DEF Counted
  <1>8. Replies(c)'
    BY <1>1, <1>2, <1>5, TypeOf DEF ClientInv, Replies
  <1>9. Reported(c)'
    <2>1. Size * log'[c].messages_sent = 0
      BY <1>2, <1>5, TypeOf, Commutes
    <2> QED
      BY <1>1, <1>2, <1>5, <2>1, TypeOf DEF Reported, Reporting
  <1> QED
    BY <1>3, <1>4, <1>6, <1>7, <1>8, <1>9 DEF ClientInv

\* A call that fails is the error of the report, and the message in vain, if any,
\* the last one.
LEMMA FailStep ==
  ASSUME AllTypeOK, lang' = lang, NEW c \in Client, ClientInv(c), Fails(c)
  PROVE  /\ TypeOK' /\ ClientInv(c)'
         /\ \A d \in Client \ {c} : Same(d)
  <1>1. /\ pc[c] \in {"connect", "write", "read"} /\ pc'[c] = "report"
        /\ log'[c] = [log[c] EXCEPT !.errors = @ + 1]
        /\ UNCHANGED <<conn, sent, echoed, got, msg, left, out, main>>
    BY DEF Fails, Errs, AllTypeOK, TypeOK, own, net
  <1>2. log[c].errors = 0
    BY <1>1 DEF ClientInv, Counted
  <1>3. /\ log'[c].connection_success = log[c].connection_success
        /\ log'[c].messages_sent = log[c].messages_sent
        /\ log'[c].messages_received = log[c].messages_received
        /\ log'[c].errors = 1
        /\ log'[c] \in LogData
    <2>1. log[c] \in LogData /\ log[c].errors + 1 = 1
      BY <1>2, TypeOf
    <2> QED
      BY <1>1, <1>2, <2>1, Updates
  <1>4. TypeOK'
    <2>1. pc' \in [Client -> {"none", "connect", "write", "read"} \cup Reporting]
      BY DEF Fails, Errs, AllTypeOK, TypeOK, Reporting
    <2>2. log' \in [Client -> LogData]
      BY <1>3 DEF Fails, Errs, AllTypeOK, TypeOK
    <2> QED
      BY <1>1, <2>1, <2>2 DEF AllTypeOK, TypeOK
  <1>5. \A d \in Client \ {c} : Same(d)
    BY <1>1 DEF Same, Fails, Errs, AllTypeOK, TypeOK
  <1>6. Placed(c)' /\ Streams(c)'
    BY <1>1 DEF ClientInv, Placed, Streams
  <1>7. Counted(c)'
    BY <1>1 DEF Counted
  <1>8. Replies(c)'
    BY <1>1, <1>3 DEF ClientInv, Replies
  <1>9. Reported(c)'
    <2>1. CASE pc[c] = "connect"
      BY <1>1, <1>3, <2>1, TypeOf DEF ClientInv, Counted, Replies, Reported
    <2>2. CASE pc[c] \in {"write", "read"}
      <3>1. /\ log[c].connection_success /\ log[c].messages_received = msg[c] - 1
            /\ log[c].messages_received < Messages
            /\ log[c].messages_sent \in {msg[c] - 1, msg[c]}
        BY <2>2, TypeOf DEF ClientInv, Counted
      <3>2. log[c].messages_sent * Size <= Len(sent[c])
        BY <2>2, TypeOf DEF ClientInv, Counted
      <3>3. log[c].messages_sent * Size = Size * log[c].messages_sent
        BY TypeOf, CountersOf, Commutes
      <3> QED
        BY <1>1, <1>3, <3>1, <3>2, <3>3, TypeOf DEF Reported
    <2> QED
      BY <1>1, <2>1, <2>2
  <1> QED
    BY <1>4, <1>5, <1>6, <1>7, <1>8, <1>9 DEF ClientInv

\* A byte goes to its place in its message, and the last one ends the message.
LEMMA SendStep ==
  ASSUME AllTypeOK, lang' = lang, NEW c \in Client, ClientInv(c),
         SendsByte(c), UNCHANGED own
  PROVE  /\ TypeOK' /\ ClientInv(c)'
         /\ \A d \in Client \ {c} : Same(d)
  <1> DEFINE m == msg[c]
             a == (m - 1) * Size
             n == Len(sent[c])
             k == n - a + 1
             done == ~(k < Size)
  <1>1. /\ pc[c] = "write" /\ pc' = [pc EXCEPT ![c] = IF k < Size THEN "write" ELSE "read"]
        /\ sent' = [sent EXCEPT ![c] = Append(@, <<m, k>>)]
        /\ log' = [log EXCEPT ![c].messages_sent = IF k < Size THEN @ ELSE @ + 1]
        /\ UNCHANGED <<conn, echoed, got, msg, left, out, main>>
    BY DEF SendsByte, At, Server!Send, own
  <1>2. /\ m \in 1 .. Messages /\ log[c].errors = 0 /\ log[c].connection_success
        /\ log[c].messages_received = m - 1 /\ log[c].messages_sent = m - 1
        /\ n \in a .. m * Size - 1 /\ left[c] = Size
    BY <1>1, TypeOf DEF ClientInv, Counted, Replies
  <1>3. /\ a \in Nat /\ m * Size = a + Size /\ n \in Nat /\ m \in Nat /\ Size \in Nat
        /\ Size > 0
    <2>1. m - 1 \in Nat /\ Size \in Nat /\ Size > 0 /\ n \in Nat
      BY <1>2, TypeOf
    <2>2. m * Size = (m - 1) * Size + Size
      BY <1>2, <2>1
    <2> QED
      BY <1>2, <2>1, <2>2, Commutes
  <1> HIDE DEF a
  <1>4. k \in 1 .. Size /\ n + 1 = a + k
    BY <1>2, <1>3
  <1>5. <<m, k>> \in Byte
    BY <1>2, <1>4 DEF Byte
  <1> HIDE DEF k
  <1>6. /\ sent'[c] = Append(sent[c], <<m, k>>) /\ sent[c] \in Seq(Byte)
        /\ Len(sent'[c]) = n + 1 /\ sent'[c] \in Seq(Byte)
        /\ \A i \in 1 .. n : sent'[c][i] = sent[c][i]
        /\ sent'[c][n + 1] = <<m, k>>
    <2>1. sent'[c] = Append(sent[c], <<m, k>>) /\ sent[c] \in Seq(Byte)
      BY <1>1, TypeOf DEF AllTypeOK, TypeOK
    <2> QED
      BY <1>5, <2>1
  <1>7. /\ log'[c].connection_success = log[c].connection_success
        /\ log'[c].messages_sent = IF done THEN m ELSE m - 1
        /\ log'[c].messages_received = log[c].messages_received
        /\ log'[c].errors = log[c].errors
        /\ log'[c] \in LogData
    <2>1. log[c] \in LogData /\ log \in [Client -> LogData]
      BY TypeOf DEF AllTypeOK, TypeOK
    <2>2. CASE k < Size
      <3>1. log' = [log EXCEPT ![c].messages_sent = @]
        BY <1>1, <2>2
      <3>2. log'[c] = log[c]
        BY <2>1, <3>1 DEF LogData
      <3> QED
        BY <1>2, <2>1, <2>2, <3>2
    <2>3. CASE done
      <3>1. log'[c] = [log[c] EXCEPT !.messages_sent = @ + 1]
        BY <1>1, <2>1, <2>3
      <3>2. log[c].messages_sent < Messages /\ log[c].messages_sent + 1 = m
        BY <1>2, <1>3, TypeOf
      <3> QED
        BY <2>1, <2>3, <3>1, <3>2, Updates
    <2> QED
      BY <2>2, <2>3
  <1>8. TypeOK'
    <2>1. pc' \in [Client -> {"none", "connect", "write", "read"} \cup Reporting]
      BY <1>1 DEF AllTypeOK, TypeOK, Reporting
    <2>2. sent' \in [Client -> Seq(Byte)]
      BY <1>1, <1>6 DEF AllTypeOK, TypeOK
    <2>3. log' \in [Client -> LogData]
      BY <1>1, <1>7 DEF AllTypeOK, TypeOK
    <2> QED
      BY <1>1, <2>1, <2>2, <2>3 DEF AllTypeOK, TypeOK
  <1>9. \A d \in Client \ {c} : Same(d)
    BY <1>1 DEF Same, AllTypeOK, TypeOK
  <1>10. /\ pc'[c] = (IF k < Size THEN "write" ELSE "read")
         /\ conn'[c] = conn[c] /\ echoed'[c] = echoed[c] /\ got'[c] = got[c]
         /\ msg'[c] = m /\ left'[c] = Size
    BY <1>1, <1>2 DEF AllTypeOK, TypeOK
  <1>11. Streams(c)'
    <2>1. /\ Len(echoed[c]) <= n /\ got[c] <= Len(echoed[c]) /\ Len(echoed[c]) \in Nat
          /\ got[c] \in Nat
          /\ \A i \in 1 .. Len(echoed[c]) : echoed[c][i] = sent[c][i]
      BY TypeOf DEF ClientInv, Streams
    <2>2. \A i \in 1 .. Len(echoed[c]) : i \in 1 .. n
      BY <1>3, <2>1
    <2> QED
      BY <1>3, <1>6, <1>10, <2>1, <2>2 DEF Streams
  <1>12. Placed(c)'
    <2>1. ASSUME NEW i \in 1 .. Messages, NEW j \in 1 .. Size, Place(i, j) <= n + 1
          PROVE  sent'[c][Place(i, j)] = <<i, j>>
      <3> DEFINE b == (i - 1) * Size
                 q == Place(i, j)
      <3>1. i - 1 \in Nat /\ i \in Nat
        BY TypeOf
      <3>2. b \in Nat
        BY <1>3, <3>1, Commutes
      <3>3. q = b + j
        BY DEF Place
      <3> HIDE DEF b, q
      <3>4. q \in Nat /\ q >= 1 /\ (q <= n \/ q = n + 1)
        BY <1>3, <2>1, <3>2, <3>3 DEF q
      <3>5. CASE q <= n
        <4>1. sent[c][q] = <<i, j>>
          BY <3>5 DEF ClientInv, Placed, q
        <4> QED
          BY <1>3, <1>6, <3>4, <3>5, <4>1 DEF q
      <3>6. CASE q = n + 1
        <4>1. b + j = a + k
          BY <1>4, <3>3, <3>6
        <4>2. i = m /\ j = k
          <5>1. i \in Nat \ {0} /\ m \in Nat \ {0}
            BY <1>2, <1>3, <3>1
          <5>2. Place(i, j) = Place(m, k)
            BY <4>1 DEF a, b, Place
          <5> QED
            BY <1>4, <5>1, <5>2, OneMessage
        <4> QED
          BY <1>6, <3>6, <4>2 DEF q
      <3> QED
        BY <3>4, <3>5, <3>6
    <2> QED
      BY <1>6, <2>1 DEF Placed, Place
  <1>15. Counted(c)'
    <2>1. (msg'[c] - 1) * Size = a /\ msg'[c] * Size = a + Size /\ msg'[c] = m
      BY <1>3, <1>10 DEF a
    <2>2. CASE k < Size
      <3>1. Len(sent'[c]) \in a .. a + Size - 1
        BY <1>2, <1>3, <1>4, <1>6, <2>2
      <3>2. Len(sent'[c]) \in (msg'[c] - 1) * Size .. msg'[c] * Size - 1
        BY <1>3, <2>1, <3>1
      <3> QED
        BY <1>2, <1>3, <1>7, <1>10, <2>2, <3>2 DEF Counted
    <2>3. CASE done
      <3>1. Len(sent'[c]) = a + Size
        BY <1>3, <1>4, <1>6, <2>3
      <3> QED
        BY <1>2, <1>7, <1>10, <2>1, <2>3, <3>1 DEF Counted
    <2> QED
      BY <2>2, <2>3
  <1>13. Replies(c)'
    BY <1>1, <1>2, <1>3, <1>7, <1>10 DEF ClientInv, Replies
  <1>14. Reported(c)'
    BY <1>10 DEF Reported, Reporting
  <1> QED
    BY <1>8, <1>9, <1>11, <1>12, <1>13, <1>14, <1>15 DEF ClientInv

\* C++ reads part of a reply: so much less is left.
LEMMA PartReadStep ==
  ASSUME AllTypeOK, lang' = lang, NEW c \in Client, ClientInv(c), PartRead(c)
  PROVE  /\ TypeOK' /\ left' \in [Client -> 0 .. Size] /\ ClientInv(c)'
         /\ \A d \in Client \ {c} : Same(d)
  <1>1. PICK n \in 1 .. left[c] - 1 :
               /\ Arrived(c, n)
               /\ got' = [got EXCEPT ![c] = @ + n]
               /\ left' = [left EXCEPT ![c] = @ - n]
    BY DEF PartRead
  <1>2. /\ lang = "cpp" /\ pc[c] = "read"
        /\ UNCHANGED <<main, pc, conn, sent, echoed, msg, log, out>>
    BY DEF PartRead, net
  <1>3. /\ n \in Nat /\ n >= 1 /\ n < left[c] /\ left[c] \in Nat /\ left[c] <= Size
        /\ got[c] \in Nat /\ n <= Len(echoed[c]) - got[c] /\ Len(echoed[c]) \in Nat
        /\ Size \in Nat
    BY <1>1, TypeOf DEF Arrived
  <1>4. /\ got'[c] = got[c] + n /\ left'[c] = left[c] - n
        /\ got' \in [Client -> Nat] /\ left' \in [Client -> 0 .. Size]
    <2>1. got \in [Client -> Nat] /\ left \in [Client -> 0 .. Size]
      BY DEF AllTypeOK, TypeOK, Cpp!CppTypeOK
    <2>2. got[c] + n \in Nat /\ left[c] - n \in 0 .. Size
      BY <1>3
    <2> QED
      BY <1>1, <2>1, <2>2
  <1>5. TypeOK'
    BY <1>2, <1>4 DEF AllTypeOK, TypeOK
  <1>6. \A d \in Client \ {c} : Same(d)
    BY <1>1, <1>2 DEF Same, AllTypeOK, TypeOK, Cpp!CppTypeOK
  <1>7. Placed(c)' /\ Streams(c)'
    <2>1. Placed(c) /\ Streams(c)
      BY DEF ClientInv
    <2>2. Placed(c)'
      BY <1>2, <2>1 DEF Placed, Place
    <2>3. got'[c] <= Len(echoed[c])
      BY <1>3, <1>4
    <2>4. Streams(c)'
      BY <1>2, <2>1, <2>3 DEF Streams
    <2> QED
      BY <2>2, <2>4
  <1>8. Counted(c)'
    BY <1>2 DEF ClientInv, Counted
  <1>9. Replies(c)'
    <2> DEFINE q == log[c].messages_received * Size
    <2>1. q \in Nat
      BY <1>3, CountersOf, Commutes
    <2>2. got[c] = q + (Size - left[c])
      BY <1>2 DEF ClientInv, Replies
    <2>3. q' = q
      BY <1>2
    <2> HIDE DEF q
    <2>4. left[c] - n \in Nat /\ left[c] - n >= 1
      BY <1>3
    <2>5. got[c] + n = q + (Size - (left[c] - n))
      BY <1>3, <2>1, <2>2
    <2>6. got'[c] = q + (Size - left'[c]) /\ left'[c] >= 1
      BY <1>4, <2>4, <2>5
    <2> QED
      BY <1>2, <2>6 DEF Replies, q
  <1>10. Reported(c)'
    BY <1>2 DEF Reported, Reporting
  <1> QED
    BY <1>4, <1>5, <1>6, <1>7, <1>8, <1>9, <1>10 DEF ClientInv

\* A reply that is counted answers the message just sent: what C++ has read by then
\* ends with the echo of it.
LEMMA ReplyStep ==
  ASSUME AllTypeOK, lang' = lang, NEW c \in Client, ClientInv(c), Reply(c)
  PROVE  /\ TypeOK' /\ left' \in [Client -> 0 .. Size] /\ ClientInv(c)'
         /\ \A d \in Client \ {c} : Same(d)
         /\ IF lang = "cpp"
            THEN /\ got'[c] >= Size
                 /\ \A k \in 1 .. Size : echoed[c][got'[c] - Size + k] = <<msg[c], k>>
            ELSE got'[c] > got[c] \/ (lang = "py" /\ AtEOF(c))
  <1> DEFINE m == msg[c]
             a == (m - 1) * Size
             e == Len(echoed[c])
  <1>1. /\ pc[c] = "read"
        /\ pc' = [pc EXCEPT ![c] = IF m < Messages THEN "write" ELSE "report"]
        /\ msg' = [msg EXCEPT ![c] = m + 1]
        /\ log' = [log EXCEPT ![c].messages_received = @ + 1]
        /\ UNCHANGED <<main, conn, sent, echoed, out>>
    BY DEF Reply, Counts, Loop, net
  <1>2. /\ m \in 1 .. Messages /\ m \in Nat /\ Messages \in Nat
        /\ log[c].errors = 0 /\ log[c].connection_success
        /\ log[c].messages_received = m - 1 /\ log[c].messages_sent = m
        /\ Len(sent[c]) = m * Size
    BY <1>1, TypeOf DEF ClientInv, Counted
  <1>3. /\ a \in Nat /\ m * Size = a + Size /\ Size \in Nat /\ Size > 0
    <2>1. m - 1 \in Nat /\ Size \in Nat /\ Size > 0
      BY <1>2, TypeOf
    <2>2. m * Size = (m - 1) * Size + Size
      BY <1>2, <2>1
    <2> QED
      BY <2>1, <2>2, Commutes
  <1>4. a = log[c].messages_received * Size
    BY <1>2
  <1>5. /\ e \in Nat /\ got[c] \in Nat /\ left[c] \in 1 .. Size /\ got[c] <= e
        /\ e <= a + Size /\ (lang # "cpp" => left[c] = Size)
        /\ lang = "cpp" => got[c] = a + (Size - left[c])
        /\ lang \in {"go", "go3"} => got[c] >= m - 1
        /\ lang = "py" => \/ got[c] >= m - 1 \/ conn[c] = "fin"
                          \/ conn[c] = "reset"
    BY <1>1, <1>2, <1>3, <1>4, TypeOf DEF ClientInv, Replies, Streams
  <1> HIDE DEF a
  <1>6. /\ got' \in [Client -> Nat] /\ left' \in [Client -> 0 .. Size]
        /\ got'[c] <= e /\ left'[c] = (IF lang = "cpp" THEN Size ELSE left[c])
        /\ lang = "cpp" => got'[c] = a + Size
        /\ lang # "cpp" => \/ got'[c] > got[c] /\ ~Broken(c)
                           \/ lang = "py" /\ AtEOF(c) /\ got'[c] = got[c]
        /\ \A d \in Client \ {c} : got'[d] = got[d] /\ left'[d] = left[d]
    <2>0. got \in [Client -> Nat] /\ left \in [Client -> 0 .. Size] /\ Size \in 0 .. Size
      BY <1>3 DEF AllTypeOK, TypeOK, Cpp!CppTypeOK
    <2>1. CASE /\ lang = "cpp"
               /\ Arrived(c, left[c])
               /\ got' = [got EXCEPT ![c] = @ + left[c]]
               /\ left' = [left EXCEPT ![c] = Size]
      <3>1. left[c] \in 1 .. e - got[c]
        BY <2>1 DEF Arrived
      <3>2. got[c] + left[c] = a + Size /\ got[c] + left[c] \in Nat /\ got[c] + left[c] <= e
        BY <1>3, <1>5, <2>1, <3>1
      <3> QED
        BY <2>0, <2>1, <3>2
    <2>2. CASE lang # "cpp" /\ TakesArrived(c) /\ UNCHANGED left
      <3>1. /\ e - got[c] \in 1 .. e - got[c] /\ ~Broken(c)
            /\ got' = [got EXCEPT ![c] = e]
        BY <2>2 DEF TakesArrived, Arrived
      <3>2. e > got[c]
        BY <1>5, <3>1
      <3> QED
        BY <1>5, <2>0, <2>2, <3>1, <3>2
    <2>3. CASE lang = "py" /\ AtEOF(c) /\ UNCHANGED <<got, left>>
      BY <1>5, <2>0, <2>3
    <2> QED
      BY <2>1, <2>2, <2>3 DEF Reply
  <1>7. /\ log'[c].connection_success = log[c].connection_success
        /\ log'[c].messages_sent = m
        /\ log'[c].messages_received = m
        /\ log'[c].errors = 0
        /\ log'[c] \in LogData
    <2>1. log[c] \in LogData /\ log \in [Client -> LogData]
      BY TypeOf DEF AllTypeOK, TypeOK
    <2>2. log'[c] = [log[c] EXCEPT !.messages_received = @ + 1]
      BY <1>1, <2>1
    <2>3. /\ log[c].messages_received < Messages /\ log[c].messages_received + 1 = m
          /\ log[c].messages_sent = m /\ log[c].errors = 0
      BY <1>2
    <2>4. /\ log'[c].connection_success = log[c].connection_success
          /\ log'[c].messages_sent = log[c].messages_sent
          /\ log'[c].messages_received = log[c].messages_received + 1
          /\ log'[c].errors = log[c].errors /\ log'[c] \in LogData
      <3> DEFINE r == log[c]
                 l == log'[c]
      <3>1. r \in LogData /\ r.messages_received < Messages
        BY <2>1, <2>3
      <3>2. l = [r EXCEPT !.messages_received = @ + 1]
        BY <2>2
      <3> HIDE DEF r, l
      <3>3. /\ l.connection_success = r.connection_success
            /\ l.messages_sent = r.messages_sent
            /\ l.messages_received = r.messages_received + 1
            /\ l.errors = r.errors /\ l \in LogData
        <4>1. /\ r.messages_received \in 0 .. Messages
              /\ r.messages_received + 1 \in 0 .. Messages
          BY <3>1, ParametersAssumption DEF LogData
        <4> QED
          BY <3>1, <3>2, <4>1 DEF LogData
      <3> QED
        BY <3>3 DEF r, l
    <2> QED
      BY <2>3, <2>4
  <1>8. TypeOK'
    <2>1. pc' \in [Client -> {"none", "connect", "write", "read"} \cup Reporting]
      BY <1>1 DEF AllTypeOK, TypeOK, Reporting
    <2>2. msg' \in [Client -> 1 .. Messages + 1]
      <3>1. m + 1 \in 1 .. Messages + 1
        BY <1>2
      <3> QED
        BY <1>1, <3>1 DEF AllTypeOK, TypeOK
    <2>3. log' \in [Client -> LogData]
      BY <1>1, <1>7 DEF AllTypeOK, TypeOK
    <2> QED
      BY <1>1, <1>6, <2>1, <2>2, <2>3 DEF AllTypeOK, TypeOK
  <1>9. \A d \in Client \ {c} : Same(d)
    BY <1>1, <1>6 DEF Same, AllTypeOK, TypeOK
  <1>10. /\ pc'[c] = (IF m < Messages THEN "write" ELSE "report")
         /\ msg'[c] = m + 1
    BY <1>1 DEF AllTypeOK, TypeOK
  <1>11. Placed(c)' /\ Streams(c)'
    <2>1. Placed(c)'
      BY <1>1 DEF ClientInv, Placed
    <2>2. Streams(c)'
      BY <1>1, <1>6 DEF ClientInv, Streams
    <2> QED
      BY <2>1, <2>2
  <1>12. Counted(c)'
    <2>1. /\ (msg'[c] - 1) * Size = a + Size /\ msg'[c] * Size = a + Size + Size
          /\ msg'[c] - 1 = m
      <3>1. (m + 1) * Size = m * Size + Size
        BY <1>2, <1>3
      <3> QED
        BY <1>2, <1>3, <1>10, <3>1
    <2>2. Len(sent'[c]) = a + Size
      BY <1>1, <1>2, <1>3
    <2>3. Len(sent'[c]) \in (msg'[c] - 1) * Size .. msg'[c] * Size - 1
      BY <1>3, <2>1, <2>2
    <2>4. pc'[c] = "write" => msg'[c] <= Messages
      BY <1>2, <1>10
    <2> QED
      BY <1>2, <1>7, <1>10, <2>1, <2>3, <2>4 DEF Counted
  <1>13. Replies(c)'
    <2>1. log'[c].messages_received * Size = a + Size
      BY <1>3, <1>7
    <2>2. left'[c] = Size /\ Size >= 1
      BY <1>1, <1>3, <1>5, <1>6
    <2>3. lang = "cpp" => got'[c] = log'[c].messages_received * Size + (Size - left'[c])
      BY <1>3, <1>6, <2>1
    <2>4. lang \in {"go", "go3"} => got'[c] >= m
      BY <1>2, <1>5, <1>6
    <2>5. lang = "py" => got'[c] >= m \/ conn[c] = "fin"
      BY <1>2, <1>5, <1>6 DEF AtEOF, Broken
    <2> QED
      BY <1>1, <1>7, <1>10, <2>2, <2>3, <2>4, <2>5 DEF Replies
  <1>14. Reported(c)'
    <2>1. pc'[c] = "report" => m = Messages
      BY <1>2, <1>10
    <2>2. Size * m <= Len(sent'[c])
      BY <1>1, <1>2, <1>3, Commutes
    <2>3. m - m \in 0 .. 1
      BY <1>2
    <2>4. left'[c] = Size
      BY <1>5, <1>6
    <2> QED
      BY <1>2, <1>7, <2>1, <2>2, <2>3, <2>4, <1>10 DEF Reported, Reporting
  <1>15. IF lang = "cpp"
         THEN /\ got'[c] >= Size
              /\ \A k \in 1 .. Size : echoed[c][got'[c] - Size + k] = <<m, k>>
         ELSE got'[c] > got[c] \/ (lang = "py" /\ AtEOF(c))
    <2>1. ASSUME lang = "cpp"
          PROVE  /\ got'[c] >= Size
                 /\ \A k \in 1 .. Size : echoed[c][got'[c] - Size + k] = <<m, k>>
      <3>1. got'[c] = a + Size /\ e = a + Size
        BY <1>3, <1>5, <1>6, <2>1
      <3>2. ASSUME NEW k \in 1 .. Size
            PROVE  echoed[c][got'[c] - Size + k] = <<m, k>>
        <4>1. /\ got'[c] - Size + k = a + k /\ a + k \in 1 .. e /\ k <= Size
              /\ a + k <= Len(sent[c])
          BY <1>2, <1>3, <3>1
        <4>2. echoed[c][a + k] = sent[c][a + k]
          BY <4>1 DEF ClientInv, Streams
        <4>3. Place(m, k) = a + k
          BY DEF Place, a
        <4>4. sent[c][Place(m, k)] = <<m, k>>
          BY <1>2, <4>1, <4>3 DEF ClientInv, Placed
        <4> QED
          BY <4>1, <4>2, <4>3, <4>4
      <3>3. got'[c] >= Size
        BY <1>3, <3>1
      <3> QED
        BY <3>2, <3>3
    <2> QED
      BY <1>6, <2>1
  <1> QED
    BY <1>6, <1>8, <1>9, <1>11, <1>12, <1>13, <1>14, <1>15 DEF ClientInv

\* v4 in Go stops at the end of the stream with a message unanswered.
LEMMA GiveUpStep ==
  ASSUME AllTypeOK, lang' = lang, NEW c \in Client, ClientInv(c), GivesUp(c)
  PROVE  /\ TypeOK' /\ ClientInv(c)'
         /\ \A d \in Client \ {c} : Same(d)
  <1>1. /\ lang = "go" /\ pc[c] = "read" /\ AtEOF(c) /\ pc'[c] = "report"
        /\ UNCHANGED <<main, conn, sent, echoed, got, msg, log, left, out>>
    BY DEF GivesUp, net, client, own, AllTypeOK, TypeOK
  <1>2. pc' \in [Client -> {"none", "connect", "write", "read"} \cup Reporting]
    BY DEF GivesUp, AllTypeOK, TypeOK, Reporting
  <1>3. TypeOK'
    BY <1>1, <1>2 DEF AllTypeOK, TypeOK
  <1>4. \A d \in Client \ {c} : Same(d)
    BY <1>1 DEF Same, GivesUp, AllTypeOK, TypeOK
  <1>5. Placed(c)' /\ Streams(c)'
    BY <1>1 DEF ClientInv, Placed, Streams
  <1>6. Counted(c)'
    BY <1>1 DEF Counted
  <1>7. Replies(c)'
    BY <1>1 DEF ClientInv, Replies
  <1>8. Reported(c)'
    <2>1. /\ msg[c] \in 1 .. Messages /\ msg[c] \in Nat /\ Messages \in Nat /\ Size \in Nat
          /\ log[c].errors = 0 /\ log[c].connection_success
          /\ log[c].messages_received = msg[c] - 1 /\ log[c].messages_sent = msg[c]
          /\ Len(sent[c]) = msg[c] * Size /\ Len(sent[c]) \in Nat
      BY <1>1, TypeOf DEF ClientInv, Counted
    <2>2. Size * msg[c] <= Len(sent[c])
      BY <2>1, Commutes
    <2>3. msg[c] - (msg[c] - 1) \in 0 .. 1 /\ msg[c] - 1 # Messages
      BY <2>1
    <2> QED
      BY <1>1, <2>1, <2>2, <2>3 DEF Reported, Reporting, AtEOF
  <1> QED
    BY <1>3, <1>4, <1>5, <1>6, <1>7, <1>8 DEF ClientInv

\* What a client reports does not change while it is written.
LEMMA ReportStep ==
  ASSUME AllTypeOK, lang' = lang, NEW c \in Client, ClientInv(c),
         pc[c] \in Reporting, pc'[c] \in Reporting,
         UNCHANGED <<net, client, left>>
  PROVE  ClientInv(c)'
  <1>1. UNCHANGED <<conn, sent, echoed, got, msg, log, left>>
    BY DEF net, client
  <1>2. Placed(c)' /\ Streams(c)'
    BY <1>1 DEF ClientInv, Placed, Streams
  <1>3. Counted(c)'
    BY DEF Counted, Reporting
  <1>4. Replies(c)'
    BY <1>1 DEF ClientInv, Replies, Reporting
  <1>5. Reported(c)'
    BY <1>1 DEF ClientInv, Reported, AtEOF
  <1> QED
    BY <1>2, <1>3, <1>4, <1>5 DEF ClientInv

\* A client that starts has done nothing yet.
LEMMA StartStep ==
  ASSUME AllTypeOK, lang' = lang, NEW c \in Client, ClientInv(c),
         pc[c] = "none", pc'[c] = "connect", UNCHANGED <<net, client, left>>
  PROVE  ClientInv(c)'
  <1>1. UNCHANGED <<conn, sent, echoed, got, msg, log, left>>
    BY DEF net, client
  <1>2. Placed(c)' /\ Streams(c)'
    BY <1>1 DEF ClientInv, Placed, Streams
  <1>3. Counted(c)'
    BY <1>1 DEF ClientInv, Counted
  <1>4. Replies(c)'
    BY <1>1 DEF ClientInv, Replies
  <1>5. Reported(c)'
    BY DEF Reported, Reporting
  <1> QED
    BY <1>2, <1>3, <1>4, <1>5 DEF ClientInv

\* The server echoes the next byte.
LEMMA EchoStep ==
  ASSUME AllTypeOK, NEW c \in Client, ClientInv(c), Echoes(c)
  PROVE  /\ lang' = lang /\ TypeOK' /\ ClientInv(c)'
         /\ UNCHANGED <<main, pc, own, out>>
         /\ \A d \in Client \ {c} : Same(d)
  <1> DEFINE e == Len(echoed[c])
  <1>1. /\ conn[c] = "up" /\ e < Len(sent[c])
        /\ echoed' = [echoed EXCEPT ![c] = Append(@, sent[c][Len(@) + 1])]
        /\ UNCHANGED <<main, pc, conn, sent, got, msg, log, left, cout_mutex, out, lang>>
    BY DEF Echoes, Echo, Server!Echo, client, own
  <1>2. /\ e \in Nat /\ e + 1 \in 1 .. Len(sent[c]) /\ sent[c] \in Seq(Byte)
        /\ echoed[c] \in Seq(Byte) /\ sent[c][e + 1] \in Byte
    BY <1>1, TypeOf
  <1>3. /\ echoed'[c] = Append(echoed[c], sent[c][e + 1])
        /\ echoed'[c] \in Seq(Byte) /\ Len(echoed'[c]) = e + 1
        /\ \A k \in 1 .. e : echoed'[c][k] = echoed[c][k]
        /\ echoed'[c][e + 1] = sent[c][e + 1]
    <2>1. echoed'[c] = Append(echoed[c], sent[c][e + 1])
      BY <1>1 DEF AllTypeOK, TypeOK
    <2> QED
      BY <1>2, <2>1
  <1>4. TypeOK'
    <2>1. echoed' \in [Client -> Seq(Byte)]
      BY <1>1, <1>3 DEF AllTypeOK, TypeOK
    <2> QED
      BY <1>1, <2>1 DEF AllTypeOK, TypeOK
  <1>5. \A d \in Client \ {c} : Same(d)
    BY <1>1 DEF Same, AllTypeOK, TypeOK
  <1>6. Placed(c)'
    BY <1>1 DEF ClientInv, Placed
  <1>7. Streams(c)'
    <2>1. /\ got[c] <= e /\ got[c] \in Nat
          /\ \A k \in 1 .. e : echoed[c][k] = sent[c][k]
      BY TypeOf DEF ClientInv, Streams
    <2>2. \A k \in 1 .. e + 1 : k \in 1 .. e \/ k = e + 1
      BY <1>2
    <2> QED
      BY <1>1, <1>2, <1>3, <2>1, <2>2 DEF Streams
  <1>8. Counted(c)'
    BY <1>1 DEF ClientInv, Counted
  <1>9. Replies(c)'
    BY <1>1 DEF ClientInv, Replies
  <1>10. Reported(c)'
    BY <1>1 DEF ClientInv, Reported, AtEOF
  <1> QED
    BY <1>1, <1>4, <1>5, <1>6, <1>7, <1>8, <1>9, <1>10 DEF ClientInv, own

\* The connection changes under a client that is at work, or its deadline passes.
LEMMA BreakStep ==
  ASSUME AllTypeOK, NEW c \in Client, ClientInv(c), BreaksDown(c) \/ Deadline(c)
  PROVE  /\ lang' = lang /\ TypeOK' /\ ClientInv(c)'
         /\ UNCHANGED <<main, pc, own, out>>
         /\ \A d \in Client \ {c} : Same(d)
  <1>1. /\ pc[c] \in {"write", "read"}
        /\ \E how \in {"fin", "reset", "silent", "late"} :
              /\ conn' = [conn EXCEPT ![c] = how]
              /\ conn[c] = "fin" => how = "reset" \/ lang \in {"go", "go3"}
              /\ conn[c] = "reset" => how = "reset"
        /\ UNCHANGED <<main, pc, sent, echoed, got, msg, log, left, cout_mutex, out, lang>>
    BY DEF BreaksDown, Breaks, Deadline, Go!DeadlinePasses, Go!Broken, Go!client,
       client,
       own
  <1>2. /\ conn' \in [Client -> {"none", "up", "fin", "reset", "silent", "late"}]
        /\ conn[c] = "fin" => conn'[c] = "reset" \/ lang \in {"go", "go3"}
        /\ conn[c] = "reset" => conn'[c] = "reset"
        /\ \A d \in Client \ {c} : conn'[d] = conn[d]
    BY <1>1 DEF AllTypeOK, TypeOK
  <1>3. TypeOK'
    BY <1>1, <1>2 DEF AllTypeOK, TypeOK
  <1>4. \A d \in Client \ {c} : Same(d)
    BY <1>1, <1>2 DEF Same
  <1>5. Placed(c)' /\ Streams(c)'
    BY <1>1 DEF ClientInv, Placed, Streams
  <1>6. Counted(c)'
    BY <1>1 DEF ClientInv, Counted
  <1>7. Replies(c)'
    <2>1. log[c].messages_received < Messages
      BY <1>1, TypeOf DEF ClientInv, Counted
    <2> QED
      BY <1>1, <1>2, <2>1 DEF ClientInv, Replies
  <1>8. Reported(c)'
    BY <1>1 DEF Reported, Reporting
  <1> QED
    BY <1>1, <1>3, <1>4, <1>5, <1>6, <1>7, <1>8 DEF ClientInv, own

-----------------------------------------------------------------------------
(* The reports *)

\* What stands in the stream of reports.
LEMMA TypeOfOut ==
  ASSUME AllTypeOK
  PROVE  /\ out \in Seq(Client \X {"json", "endl"}) /\ Len(out) \in Nat
         /\ \A k \in 1 .. Len(out) : out[k][1] \in Client
  BY DEF AllTypeOK, TypeOK

\* The next number has the other parity.
LEMMA Parity ==
  ASSUME NEW n \in Nat
  PROVE  /\ n % 2 \in {0, 1}
         /\ (n + 1) % 2 = 1 - (n % 2)
         /\ (n + 2) % 2 = n % 2
  OBVIOUS

\* Nothing is reported.
LEMMA NoReport ==
  ASSUME AllTypeOK, Alternate, Written, out' = out,
         \A c \in Client : pc'[c] = pc[c] \/ {pc[c], pc'[c]} \cap {"newline", "exited"} = {}
  PROVE  Alternate' /\ Written'
  <1>1. Alternate'
    BY DEF Alternate
  <1>2. \A k \in 1 .. Len(out) : pc'[out[k][1]] \in {"newline", "exited"}
    BY TypeOfOut DEF Written
  <1>3. \A c \in Client :
          /\ pc'[c] = "newline" => pc[c] = "newline"
          /\ pc[c] = "newline" => pc'[c] = "newline"
          /\ pc'[c] = "exited" => pc[c] = "exited"
    OBVIOUS
  <1> QED
    BY <1>1, <1>2, <1>3 DEF Written

\* No newline is missing while the mutex is free or held by one that has not begun.
LEMMA WholeSoFar ==
  ASSUME AllTypeOK, Written, Mutex, \A d \in cout_mutex : pc[d] # "newline"
  PROVE  /\ Len(out) % 2 = 0 /\ Len(out) \in Nat
         /\ \A d \in Client : pc[d] # "newline"
  <1>1. \A d \in Client : pc[d] # "newline"
    BY DEF Mutex
  <1> QED
    BY <1>1, TypeOfOut, Parity DEF Written

\* C++ writes the text of a report, with the mutex.
LEMMA LineStep ==
  ASSUME AllTypeOK, Alternate, Written, Mutex, NEW c \in Client, Cpp!Line(c)
  PROVE  Alternate' /\ Written'
  <1> DEFINE n == Len(out)
  <1>1. /\ pc[c] = "line" /\ pc' = [pc EXCEPT ![c] = "newline"]
        /\ out' = Append(out, <<c, "json">>)
    BY DEF Cpp!Line, Cpp!At
  <1>2. c \in cout_mutex /\ \A d \in cout_mutex : d = c
    BY <1>1 DEF Mutex, AllTypeOK, Cpp!CppTypeOK
  <1>3. n % 2 = 0 /\ n \in Nat /\ \A d \in Client : pc[d] # "newline"
    BY <1>1, <1>2, WholeSoFar
  <1>4. /\ Len(out') = n + 1 /\ out'[n + 1] = <<c, "json">>
        /\ \A k \in 1 .. n : out'[k] = out[k]
        /\ (n + 1) % 2 = 1
    <2>1. (n + 1) % 2 = 1 - (n % 2)
      BY <1>3, Parity
    <2>2. /\ Len(out') = n + 1 /\ out'[n + 1] = <<c, "json">>
          /\ \A k \in 1 .. n : out'[k] = out[k]
      <3>1. <<c, "json">> \in Client \X {"json", "endl"}
        OBVIOUS
      <3> QED
        BY <1>1, <3>1, TypeOfOut
    <2> QED
      BY <1>3, <2>1, <2>2
  <1>5. /\ pc'[c] = "newline"
        /\ \A d \in Client \ {c} : pc'[d] = pc[d]
    BY <1>1 DEF AllTypeOK, TypeOK
  <1>6. \A k \in 1 .. n : out[k][1] # c
    BY <1>1 DEF Written
  <1>7. \A k \in 1 .. n + 1 : k \in 1 .. n \/ k = n + 1
    BY <1>3
  <1>8. Alternate'
    <2>1. ASSUME NEW k \in 1 .. n
          PROVE  IF k % 2 = 1
                 THEN out'[k][2] = "json" /\ \A j \in 1 .. k - 1 : out'[j][1] # out'[k][1]
                 ELSE out'[k] = <<out'[k - 1][1], "endl">>
      <3>1. /\ out'[k] = out[k]
            /\ \A j \in 1 .. k - 1 : out'[j] = out[j]
            /\ k % 2 # 1 => out'[k - 1] = out[k - 1]
        BY <1>3, <1>4
      <3> QED
        BY <3>1 DEF Alternate
    <2>2. out'[n + 1][2] = "json" /\ \A j \in 1 .. (n + 1) - 1 : out'[j][1] # out'[n + 1][1]
      BY <1>3, <1>4, <1>6
    <2> QED
      BY <1>4, <1>7, <2>1, <2>2 DEF Alternate
  <1>9. Written'
    <2>1. \A k \in 1 .. n + 1 : pc'[out'[k][1]] \in {"newline", "exited"}
      BY <1>4, <1>5, <1>6, <1>7, TypeOfOut DEF Written
    <2>2. ASSUME NEW d \in Client, pc'[d] = "exited"
          PROVE  \E k \in 1 .. n + 1 : out'[k] = <<d, "endl">>
      <3>1. PICK k \in 1 .. n : out[k] = <<d, "endl">>
        BY <1>5, <2>2 DEF Written
      <3> QED
        BY <1>3, <1>4, <3>1
    <2>3. \A d \in Client : pc'[d] = "newline" => d = c
      BY <1>3, <1>5
    <2> QED
      BY <1>4, <1>5, <2>1, <2>2, <2>3 DEF Written
  <1> QED
    BY <1>8, <1>9

\* C++ writes the newline, and nothing came between.
LEMMA EndlStep ==
  ASSUME AllTypeOK, Alternate, Written, Mutex, NEW c \in Client, Cpp!Endl(c)
  PROVE  Alternate' /\ Written'
  <1> DEFINE n == Len(out)
  <1>1. /\ pc[c] = "newline" /\ pc' = [pc EXCEPT ![c] = "exited"]
        /\ out' = Append(out, <<c, "endl">>)
    BY DEF Cpp!Endl, Cpp!At
  <1>2. n % 2 = 1 /\ n \in Nat /\ n >= 1 /\ out[n] = <<c, "json">>
    BY <1>1, TypeOfOut DEF Written
  <1>3. \A d \in Client \ {c} : pc[d] # "newline"
    BY <1>1 DEF Mutex, AllTypeOK, Cpp!CppTypeOK
  <1>4. /\ Len(out') = n + 1 /\ out'[n + 1] = <<c, "endl">>
        /\ \A k \in 1 .. n : out'[k] = out[k]
        /\ (n + 1) % 2 = 0
    <2>1. (n + 1) % 2 = 1 - (n % 2)
      BY <1>2, Parity
    <2>2. /\ Len(out') = n + 1 /\ out'[n + 1] = <<c, "endl">>
          /\ \A k \in 1 .. n : out'[k] = out[k]
      <3>1. <<c, "endl">> \in Client \X {"json", "endl"}
        OBVIOUS
      <3> QED
        BY <1>1, <3>1, TypeOfOut
    <2> QED
      BY <1>2, <2>1, <2>2
  <1>5. /\ pc'[c] = "exited"
        /\ \A d \in Client \ {c} : pc'[d] = pc[d]
    BY <1>1 DEF AllTypeOK, TypeOK
  <1>7. \A k \in 1 .. n + 1 : k \in 1 .. n \/ k = n + 1
    BY <1>2
  <1>8. Alternate'
    <2>1. ASSUME NEW k \in 1 .. n
          PROVE  IF k % 2 = 1
                 THEN out'[k][2] = "json" /\ \A j \in 1 .. k - 1 : out'[j][1] # out'[k][1]
                 ELSE out'[k] = <<out'[k - 1][1], "endl">>
      <3>1. /\ out'[k] = out[k]
            /\ \A j \in 1 .. k - 1 : out'[j] = out[j]
            /\ k % 2 # 1 => out'[k - 1] = out[k - 1]
        BY <1>2, <1>4
      <3> QED
        BY <3>1 DEF Alternate
    <2>2. out'[n + 1] = <<out'[(n + 1) - 1][1], "endl">>
      <3>1. out'[n] = <<c, "json">> /\ (n + 1) - 1 = n
        BY <1>2, <1>4
      <3> QED
        BY <1>4, <3>1
    <2> QED
      BY <1>4, <1>7, <2>1, <2>2 DEF Alternate
  <1>9. Written'
    <2>1. \A k \in 1 .. n + 1 : pc'[out'[k][1]] \in {"newline", "exited"}
      BY <1>4, <1>5, <1>7, TypeOfOut DEF Written
    <2>2. ASSUME NEW d \in Client, pc'[d] = "exited"
          PROVE  \E k \in 1 .. n + 1 : out'[k] = <<d, "endl">>
      <3>1. CASE d = c
        BY <1>2, <1>4, <3>1
      <3>2. CASE d # c
        <4>1. PICK k \in 1 .. n : out[k] = <<d, "endl">>
          BY <1>5, <2>2, <3>2 DEF Written
        <4> QED
          BY <1>2, <1>4, <4>1
      <3> QED
        BY <3>1, <3>2
    <2>3. \A d \in Client : pc'[d] # "newline"
      BY <1>3, <1>5
    <2>4. Len(out') = n + 1 /\ Len(out') % 2 # 1
      BY <1>4
    <2> HIDE DEF n
    <2> QED
      BY <2>1, <2>2, <2>3, <2>4 DEF Written
  <1> QED
    BY <1>8, <1>9

\* The other languages write both at once.
LEMMA PrintStep ==
  ASSUME AllTypeOK, Alternate, Written, Mutex, NEW c \in Client, Prints(c), lang # "cpp"
  PROVE  Alternate' /\ Written' /\ out' \in Seq(Client \X {"json", "endl"})
  <1> DEFINE n == Len(out)
  <1>1. /\ pc[c] = "report" /\ pc' = [pc EXCEPT ![c] = "exited"]
        /\ out' = out \o <<<<c, "json">>, <<c, "endl">>>>
    BY DEF Prints, At
  <1>2. n % 2 = 0 /\ n \in Nat /\ \A d \in Client : pc[d] # "newline"
    BY WholeSoFar DEF Mutex
  <1>3. (n + 1) % 2 = 1 /\ (n + 2) % 2 = 0
    BY <1>2, Parity
  <1>4. /\ Len(out') = n + 2
        /\ out'[n + 1] = <<c, "json">> /\ out'[n + 2] = <<c, "endl">>
        /\ \A k \in 1 .. n : out'[k] = out[k]
        /\ out' \in Seq(Client \X {"json", "endl"})
    <2> DEFINE both == <<<<c, "json">>, <<c, "endl">>>>
    <2>1. /\ both \in Seq(Client \X {"json", "endl"}) /\ Len(both) = 2
          /\ both[1] = <<c, "json">> /\ both[2] = <<c, "endl">>
      OBVIOUS
    <2>2. out' = out \o both
      BY <1>1
    <2> HIDE DEF both
    <2>3. /\ out' \in Seq(Client \X {"json", "endl"}) /\ Len(out') = n + 2
          /\ \A k \in 1 .. n + 2 : out'[k] = IF k <= n THEN out[k] ELSE both[k - n]
      <3>1. out \in Seq(Client \X {"json", "endl"})
        BY TypeOfOut
      <3>2. /\ out \o both \in Seq(Client \X {"json", "endl"})
            /\ Len(out \o both) = n + Len(both)
            /\ \A k \in 1 .. n + Len(both) :
                  (out \o both)[k] = IF k <= n THEN out[k] ELSE both[k - n]
        BY <2>1, <3>1, ConcatProperties
      <3> QED
        BY <2>1, <2>2, <3>2
    <2>4. /\ \A k \in 1 .. n : k \in 1 .. n + 2 /\ k <= n
          /\ n + 1 \in 1 .. n + 2 /\ ~(n + 1 <= n) /\ (n + 1) - n = 1
          /\ n + 2 \in 1 .. n + 2 /\ ~(n + 2 <= n) /\ (n + 2) - n = 2
      BY <1>2
    <2> HIDE DEF n
    <2> QED
      BY <2>1, <2>3, <2>4
  <1>5. /\ pc'[c] = "exited"
        /\ \A d \in Client \ {c} : pc'[d] = pc[d]
    BY <1>1 DEF AllTypeOK, TypeOK
  <1>6. \A k \in 1 .. n : out[k][1] # c
    BY <1>1 DEF Written
  <1>7. \A k \in 1 .. n + 2 : k \in 1 .. n \/ k = n + 1 \/ k = n + 2
    BY <1>2
  <1>8. Alternate'
    <2>1. ASSUME NEW k \in 1 .. n
          PROVE  IF k % 2 = 1
                 THEN out'[k][2] = "json" /\ \A j \in 1 .. k - 1 : out'[j][1] # out'[k][1]
                 ELSE out'[k] = <<out'[k - 1][1], "endl">>
      <3>1. out'[k] = out[k]
        BY <1>4
      <3>2. \A j \in 1 .. k - 1 : j \in 1 .. n /\ out'[j] = out[j]
        BY <1>2, <1>4
      <3>3. k % 2 # 1 => k - 1 \in 1 .. n
        BY <1>2
      <3>4. k % 2 # 1 => out'[k - 1] = out[k - 1]
        BY <1>4, <3>3
      <3> QED
        BY <3>1, <3>2, <3>4 DEF Alternate
    <2>2. out'[n + 1][2] = "json" /\ \A j \in 1 .. (n + 1) - 1 : out'[j][1] # out'[n + 1][1]
      BY <1>2, <1>4, <1>6
    <2>3. out'[n + 2] = <<out'[(n + 2) - 1][1], "endl">>
      <3>1. (n + 2) - 1 = n + 1
        BY <1>2
      <3> QED
        BY <1>4, <3>1
    <2>4. Len(out') = n + 2
      BY <1>4
    <2> HIDE DEF n
    <2> QED
      BY <1>3, <1>7, <2>1, <2>2, <2>3, <2>4 DEF Alternate
  <1>9. Written'
    <2>1. ASSUME NEW k \in 1 .. n + 2
          PROVE  pc'[out'[k][1]] \in {"newline", "exited"}
      <3>1. CASE k \in 1 .. n
        <4>1. pc[out[k][1]] \in {"newline", "exited"} /\ out[k][1] \in Client
          BY <3>1, TypeOfOut DEF Written
        <4> QED
          BY <1>4, <1>5, <3>1, <4>1
      <3>2. CASE k = n + 1 \/ k = n + 2
        BY <1>4, <1>5, <3>2
      <3> QED
        BY <1>7, <3>1, <3>2
    <2>2. ASSUME NEW d \in Client, pc'[d] = "exited"
          PROVE  \E k \in 1 .. n + 2 : out'[k] = <<d, "endl">>
      <3>1. CASE d = c
        BY <1>2, <1>4, <3>1
      <3>2. CASE d # c
        <4>1. PICK k \in 1 .. n : out[k] = <<d, "endl">>
          BY <1>5, <2>2, <3>2 DEF Written
        <4> QED
          BY <1>2, <1>4, <4>1
      <3> QED
        BY <3>1, <3>2
    <2>3. \A d \in Client : pc'[d] # "newline"
      BY <1>2, <1>5
    <2>4. Len(out') = n + 2 /\ Len(out') % 2 # 1
      BY <1>3, <1>4
    <2> HIDE DEF n
    <2> QED
      BY <2>1, <2>2, <2>3, <2>4 DEF Written
  <1> QED
    BY <1>4, <1>8, <1>9

-----------------------------------------------------------------------------
(* The invariant *)

\* A step of client c at work on its connection.
LEMMA WorkStep ==
  ASSUME IInv, NEW c \in Client, lang' = lang,
         TypeOK', left' \in [Client -> 0 .. Size], cout_mutex' = cout_mutex,
         ClientInv(c)', \A d \in Client \ {c} : Same(d),
         main' = main, out' = out,
         pc'[c] = pc[c] \/ (/\ pc[c] \in {"connect", "write", "read"}
                            /\ pc'[c] \in {"write", "read", "report"})
  PROVE  IInv'
  <1>1. AllTypeOK'
    BY DEF IInv, AllTypeOK, Cpp!CppTypeOK
  <1>2. \A d \in Client : ClientInv(d)'
    BY SameClient DEF IInv
  <1>3. \A d \in Client :
           pc'[d] = pc[d] \/ {pc[d], pc'[d]} \cap {"line", "newline", "exited", "none"} = {}
    BY DEF Same
  <1>4. Alternate' /\ Written'
    BY <1>3, NoReport DEF IInv
  <1>5. Mutex'
    BY <1>3 DEF IInv, Mutex
  <1>6. Waits'
    BY <1>3 DEF IInv, Waits
  <1> QED
    BY <1>1, <1>2, <1>4, <1>5, <1>6 DEF IInv

\* Every step of a client keeps the invariant.
LEMMA ThreadStep ==
  ASSUME IInv, NEW c \in Client, Thread(c)
  PROVE  IInv'
  <1>0. AllTypeOK /\ ClientInv(c) /\ lang' = lang
    BY ThreadSteps DEF IInv
  <1>1. left \in [Client -> 0 .. Size] /\ pc \in [Client -> {"none", "connect", "write", "read"} \cup Reporting]
    BY <1>0 DEF AllTypeOK, TypeOK, Cpp!CppTypeOK
  <1>2. CASE Connects(c) /\ UNCHANGED own
    BY <1>0, <1>1, <1>2, ConnectStep, WorkStep DEF Connects, At, Loop, own
  <1>3. CASE Fails(c)
    BY <1>0, <1>1, <1>3, FailStep, WorkStep DEF Fails, Errs, own
  <1>4. CASE SendsByte(c) /\ UNCHANGED own
    BY <1>0, <1>1, <1>4, SendStep, WorkStep DEF SendsByte, At, own
  <1>5. CASE PartRead(c)
    BY <1>0, <1>1, <1>5, PartReadStep, WorkStep DEF PartRead
  <1>6. CASE Reply(c)
    BY <1>0, <1>1, <1>6, ReplyStep, WorkStep DEF Reply, Counts, Loop
  <1>7. CASE GivesUp(c)
    BY <1>0, <1>1, <1>7, GiveUpStep, WorkStep DEF GivesUp, own
  <1>8. CASE \/ lang # "cpp" /\ Prints(c) /\ UNCHANGED own
             \/ lang = "cpp" /\ (Cpp!Lock(c) \/ Cpp!Line(c) \/ Cpp!Endl(c))
    <2>1. /\ pc[c] \in Reporting /\ pc[c] # "exited" /\ main' = main /\ main \notin Ended
          /\ UNCHANGED <<net, client, left>>
          /\ \E to \in Reporting : pc' = [pc EXCEPT ![c] = to]
      BY <1>8 DEF Prints, At, Cpp!Lock, Cpp!Line, Cpp!Endl, Cpp!At, Cpp!Ended,
         Ended,
         Reporting, net, client, own, Cpp!net, Cpp!client, Cpp!own
    <2>2. /\ pc'[c] \in Reporting /\ \A d \in Client \ {c} : pc'[d] = pc[d]
          /\ pc' \in [Client -> {"none", "connect", "write", "read"} \cup Reporting]
      BY <1>1, <2>1
    <2>3. \A d \in Client \ {c} : Same(d)
      BY <2>1, <2>2 DEF Same, net, client
    <2>4. \A d \in Client : ClientInv(d)'
      BY <1>0, <2>1, <2>2, <2>3, ReportStep, SameClient DEF IInv
    <2>5. Waits'
      BY <1>0, <2>1, <2>2 DEF IInv, Waits, Ended, Reporting
    <2>6. Alternate' /\ Written' /\ out' \in Seq(Client \X {"json", "endl"})
      <3>1. CASE lang # "cpp" /\ Prints(c)
        BY <1>0, <3>1, PrintStep DEF IInv
      <3>2. CASE Cpp!Lock(c)
        <4>1. out' = out /\ pc[c] = "report" /\ pc'[c] = "line"
          BY <1>1, <3>2 DEF Cpp!Lock, Cpp!At
        <4> QED
          BY <1>0, <2>2, <4>1, NoReport, TypeOfOut DEF IInv
      <3>3. CASE Cpp!Line(c)
        <4>1. out' = Append(out, <<c, "json">>) /\ <<c, "json">> \in Client \X {"json", "endl"}
          BY <3>3 DEF Cpp!Line
        <4> QED
          BY <1>0, <3>3, <4>1, LineStep, TypeOfOut DEF IInv
      <3>4. CASE Cpp!Endl(c)
        <4>1. out' = Append(out, <<c, "endl">>) /\ <<c, "endl">> \in Client \X {"json", "endl"}
          BY <3>4 DEF Cpp!Endl
        <4> QED
          BY <1>0, <3>4, <4>1, EndlStep, TypeOfOut DEF IInv
      <3> QED
        BY <1>8, <3>1, <3>2, <3>3, <3>4
    <2>7. Mutex' /\ cout_mutex' \in {{}} \cup {{d} : d \in Client}
      <3>1. CASE lang # "cpp" /\ Prints(c) /\ UNCHANGED own
        <4>1. pc[c] = "report" /\ pc'[c] = "exited" /\ cout_mutex' = cout_mutex
          BY <1>1, <3>1 DEF Prints, At, own
        <4> QED
          BY <1>0, <2>2, <4>1 DEF IInv, Mutex, AllTypeOK, Cpp!CppTypeOK
      <3>2. CASE lang = "cpp" /\ Cpp!Lock(c)
        <4>1. pc'[c] = "line" /\ cout_mutex = {} /\ cout_mutex' = {c}
          BY <1>1, <3>2 DEF Cpp!Lock
        <4> QED
          BY <1>0, <2>2, <3>2, <4>1 DEF IInv, Mutex
      <3>3. CASE lang = "cpp" /\ Cpp!Line(c)
        <4>1. pc[c] = "line" /\ pc'[c] = "newline" /\ cout_mutex' = cout_mutex
          BY <1>1, <3>3 DEF Cpp!Line, Cpp!At, Cpp!own
        <4> QED
          BY <1>0, <2>2, <3>3, <4>1 DEF IInv, Mutex, AllTypeOK, Cpp!CppTypeOK
      <3>4. CASE lang = "cpp" /\ Cpp!Endl(c)
        <4>1. pc[c] = "newline" /\ pc'[c] = "exited" /\ cout_mutex' = {}
          BY <1>1, <3>4 DEF Cpp!Endl, Cpp!At
        <4>2. cout_mutex = {c}
          BY <1>0, <4>1 DEF IInv, Mutex, AllTypeOK, Cpp!CppTypeOK
        <4> QED
          BY <1>0, <2>2, <3>4, <4>1, <4>2 DEF IInv, Mutex
      <3> QED
        BY <1>8, <3>1, <3>2, <3>3, <3>4
    <2>8. AllTypeOK'
      BY <1>0, <2>1, <2>2, <2>6, <2>7 DEF AllTypeOK, TypeOK, Cpp!CppTypeOK, net,
         client
    <2> QED
      BY <2>4, <2>5, <2>6, <2>7, <2>8 DEF IInv
  <1> QED
    BY <1>0, <1>2, <1>3, <1>4, <1>5, <1>6, <1>7, <1>8, ThreadSteps

\* Every step of main keeps the invariant.
LEMMA MainStep ==
  ASSUME IInv, Main
  PROVE  IInv'
  <1>0. /\ AllTypeOK /\ UNCHANGED <<lang, own, net, client, out>>
        /\ pc \in [Client -> {"none", "connect", "write", "read"} \cup Reporting]
    BY MainSteps DEF IInv, AllTypeOK, TypeOK
  <1>1. UNCHANGED <<left, cout_mutex, conn, sent, echoed, got, msg, log>>
    BY <1>0 DEF own, net, client
  <1>2. /\ pc' \in [Client -> {"none", "connect", "write", "read"} \cup Reporting]
        /\ main' \in {"spawn", "join"} \cup Ended
        /\ \A c \in Client : pc'[c] = pc[c] \/ (pc[c] = "none" /\ pc'[c] = "connect")
        /\ main' = "done" => \A c \in Client : pc'[c] = "exited"
        /\ main' = "spawn" => main = "spawn" /\ lang # "py"
    <2>1. CASE \E c \in Client : main = "spawn" /\ lang # "py" /\ Starts(c)
      BY <1>0, <2>1 DEF Starts, Ended
    <2>2. CASE /\ main = "spawn" /\ lang = "py" /\ main' = "join"
               /\ pc' = [c \in Client |-> "connect"]
      BY <1>0, <2>2 DEF IInv, Waits
    <2>3. CASE pc' = pc /\ main' \in {"join", "failed", "terminated"}
      BY <1>0, <2>3 DEF Ended
    <2>4. CASE pc' = pc /\ main' = "done" /\ \A c \in Client : pc[c] = "exited"
      BY <1>0, <2>4 DEF Ended
    <2> QED
      BY <1>0, <2>1, <2>2, <2>3, <2>4, MainSteps
  <1>3. AllTypeOK'
    BY <1>0, <1>1, <1>2 DEF AllTypeOK, TypeOK, Cpp!CppTypeOK
  <1>4. \A c \in Client : ClientInv(c)'
    <2>1. ASSUME NEW c \in Client
          PROVE  ClientInv(c)'
      <3>1. CASE pc'[c] = pc[c]
        BY <1>0, <1>1, <3>1, SameClient DEF IInv, Same
      <3>2. CASE pc[c] = "none" /\ pc'[c] = "connect"
        BY <1>0, <1>1, <3>2, StartStep DEF IInv
      <3> QED
        BY <1>2, <3>1, <3>2
    <2> QED
      BY <2>1
  <1>5. Alternate' /\ Written'
    BY <1>0, <1>2, NoReport DEF IInv
  <1>6. Mutex'
    BY <1>0, <1>1, <1>2 DEF IInv, Mutex
  <1>7. Waits'
    BY <1>0, <1>2 DEF Waits
  <1> QED
    BY <1>3, <1>4, <1>5, <1>6, <1>7 DEF IInv

\* The invariant holds when the process starts.
LEMMA InitIInv == AllInit => IInv
  <1> SUFFICES ASSUME AllInit
               PROVE  IInv
    OBVIOUS
  <1>1. /\ lang \in {"cpp", "go", "go3", "py"} /\ main = "spawn"
        /\ pc = [c \in Client |-> "none"] /\ conn = [c \in Client |-> "none"]
        /\ sent = [c \in Client |-> << >>] /\ echoed = [c \in Client |-> << >>]
        /\ got = [c \in Client |-> 0] /\ msg = [c \in Client |-> 1]
        /\ log = [c \in Client |-> [connection_success |-> FALSE, messages_sent |-> 0,
                                    messages_received |-> 0, errors |-> 0]]
        /\ out = << >> /\ left = [c \in Client |-> Size] /\ cout_mutex = {}
    BY DEF AllInit, Cpp!CppInit, Cpp!Init, Cpp!Server!Init
  <1>2. Messages \in Nat /\ Size \in Nat /\ Size > 0 /\ 0 * Size = 0
    BY ParametersAssumption, Commutes
  <1>3. AllTypeOK
    <2>1. 1 \in 1 .. Messages + 1 /\ 0 \in 0 .. Messages /\ Size \in 0 .. Size
      BY <1>2
    <2>2. log \in [Client -> LogData]
      BY <1>1, <2>1 DEF LogData
    <2> QED
      BY <1>1, <2>1, <2>2 DEF AllTypeOK, TypeOK, Cpp!CppTypeOK
  <1>4. ASSUME NEW c \in Client
        PROVE  ClientInv(c)
    <2>1. /\ pc[c] = "none" /\ sent[c] = << >> /\ echoed[c] = << >> /\ got[c] = 0
          /\ msg[c] = 1 /\ left[c] = Size /\ log[c].errors = 0
          /\ log[c].messages_sent = 0 /\ log[c].messages_received = 0
      BY <1>1
    <2>2. Placed(c)
      <3>1. ASSUME NEW i \in 1 .. Messages, NEW j \in 1 .. Size
            PROVE  ~(Place(i, j) <= 0)
        <4>1. i - 1 \in Nat
          BY <1>2
        <4>2. (i - 1) * Size \in Nat
          BY <1>2, <4>1, Commutes
        <4> QED
          BY <1>2, <4>2 DEF Place
      <3> QED
        BY <2>1, <3>1 DEF Placed
    <2>3. Streams(c) /\ Counted(c) /\ Reported(c)
      BY <2>1 DEF Streams, Counted, Reported, Reporting
    <2>4. Replies(c)
      BY <1>2, <2>1 DEF Replies
    <2> QED
      BY <2>2, <2>3, <2>4 DEF ClientInv
  <1>5. Alternate /\ Written
    BY <1>1 DEF Alternate, Written
  <1>6. Mutex /\ Waits
    BY <1>1 DEF Mutex, Waits
  <1> QED
    BY <1>3, <1>4, <1>5, <1>6 DEF IInv

\* Every step of the process, its server and the network keeps the invariant.
LEMMA NextIInv == IInv /\ [Next]_vars => IInv'
  <1> SUFFICES ASSUME IInv, [Next]_vars
               PROVE  IInv'
    OBVIOUS
  <1>1. CASE Main
    BY <1>1, MainStep
  <1>2. ASSUME NEW c \in Client, Thread(c)
        PROVE  IInv'
    BY <1>2, ThreadStep
  <1>3. ASSUME NEW c \in Client, Echoes(c) \/ BreaksDown(c) \/ Deadline(c)
        PROVE  IInv'
    <2>1. /\ lang' = lang /\ TypeOK' /\ ClientInv(c)'
          /\ UNCHANGED <<main, pc, own, out>>
          /\ \A d \in Client \ {c} : Same(d)
      BY <1>3, EchoStep, BreakStep DEF IInv
    <2>2. left \in [Client -> 0 .. Size]
      BY DEF IInv, AllTypeOK, Cpp!CppTypeOK
    <2> QED
      BY <2>1, <2>2, WorkStep DEF own
  <1>4. CASE UNCHANGED vars
    <2>1. UNCHANGED <<main, pc, conn, sent, echoed, got, msg, log, out, lang, left, cout_mutex>>
      BY <1>4 DEF vars, own
    <2>2. AllTypeOK'
      BY <2>1 DEF IInv, AllTypeOK, TypeOK, Cpp!CppTypeOK
    <2>3. \A c \in Client : ClientInv(c)'
      BY <2>1, SameClient DEF IInv, Same
    <2>4. Alternate' /\ Written' /\ Mutex' /\ Waits'
      BY <2>1 DEF IInv, Alternate, Written, Mutex, Waits
    <2> QED
      BY <2>2, <2>3, <2>4 DEF IInv
  <1> QED
    BY <1>1, <1>2, <1>3, <1>4 DEF Next

\* What the process reaches: the invariant holds in every state.
THEOREM ClientsInvariance == Spec => []IInv
  <1> QED
    BY InitIInv, NextIInv, PTL DEF Spec

\* The variables of the clients keep their types: no counter passes the number of
\* messages, and errors is 0 or 1.
THEOREM ClientsTypeCorrect == Spec => []AllTypeOK
  <1>1. IInv => AllTypeOK
    BY DEF IInv
  <1> QED
    BY <1>1, ClientsInvariance, PTL

-----------------------------------------------------------------------------
(* What the reports say *)

\* What a client reports is true of its conversation, up to what the clients in Go and
\* Python do not notice (client.cpp l. 66-98, client.go l. 60-79, client.py l. 36-58).
THEOREM ReportsAreTruthful == Spec => []ReportTruthful
  <1>1. IInv => ReportTruthful
    <2> SUFFICES ASSUME IInv, NEW c \in Client, pc[c] \in Reporting
                 PROVE  LET answered == log[c].messages_received = Messages IN
                        /\ log[c].messages_sent - log[c].messages_received \in 0 .. 1
                        /\ Size * log[c].messages_sent <= Len(sent[c])
                        /\ log[c].errors = 0 => log[c].connection_success
                        /\ log[c].errors = 1 => ~answered \/ Messages = 0
                        /\ log[c].errors = 0 /\ ~answered => lang = "go" /\ AtEOF(c)
                        /\ answered => \/ got[c] = Messages * Size
                                       \/ lang \in {"go", "go3"} /\ got[c] >= Messages
                                       \/ lang = "py" /\ (got[c] >= Messages \/ conn[c] = "fin")
      BY DEF ReportTruthful
    <2>1. ClientInv(c) /\ AllTypeOK
      BY DEF IInv
    <2>2. /\ log[c].messages_sent - log[c].messages_received \in 0 .. 1
          /\ Size * log[c].messages_sent <= Len(sent[c])
          /\ log[c].errors = 0 => log[c].connection_success
          /\ log[c].errors = 1 => log[c].messages_received # Messages \/ Messages = 0
          /\ log[c].errors = 0 /\ log[c].messages_received # Messages
                => lang = "go" /\ AtEOF(c)
          /\ log[c].messages_received = Messages => left[c] = Size
      BY <2>1 DEF ClientInv, Reported
    <2>3. ASSUME log[c].messages_received = Messages
          PROVE  \/ got[c] = Messages * Size
                 \/ lang \in {"go", "go3"} /\ got[c] >= Messages
                 \/ lang = "py" /\ (got[c] >= Messages \/ conn[c] = "fin")
      <3>1. CASE lang = "cpp"
        <4>1. got[c] = Messages * Size + (Size - Size)
          BY <2>1, <2>2, <2>3, <3>1 DEF ClientInv, Replies
        <4>2. Messages * Size \in Nat /\ Size \in Nat
          BY ParametersAssumption, Commutes
        <4> QED
          BY <4>1, <4>2
      <3>2. CASE lang \in {"go", "go3"}
        BY <2>1, <2>3, <3>2 DEF ClientInv, Replies
      <3>3. CASE lang = "py"
        BY <2>1, <2>3, <3>3, ParametersAssumption DEF ClientInv, Replies
      <3> QED
        BY <2>1, <3>1, <3>2, <3>3 DEF AllTypeOK
    <2> QED
      BY <2>2, <2>3
  <1> QED
    BY <1>1, ClientsInvariance, PTL

\* What a client reports is what Results takes a report to be, in every language
\* (client.cpp l. 66-98, client.go l. 60-79, client.py l. 36-58).
THEOREM ReportsAreConsistent == Spec => []ReportsFitResults
  <1>1. IInv => ReportsFitResults
    <2> SUFFICES ASSUME IInv, NEW c \in Client, pc[c] \in Reporting
                 PROVE  Report!Fits(log[c], HeardBy(c), lang)
      BY DEF ReportsFitResults
    <2>1. Reported(c) /\ Replies(c) /\ AllTypeOK
      BY DEF IInv, ClientInv
    <2>2. /\ log[c].messages_sent \in Nat /\ log[c].messages_received \in 0 .. Messages
          /\ Messages \in Nat /\ log[c].errors \in {0, 1}
      BY <2>1, TypeOf, CountersOf
    <2>3. Report!Consistent(log[c], lang)
      BY <2>1, <2>2 DEF Reported, Report!Consistent
    <2> DEFINE received == log[c].messages_received
    <2>4. /\ got[c] \in Nat /\ received \in Nat /\ received * Size \in Nat
          /\ received = 0 => received * Size = 0
          /\ left[c] \in 0 .. Size /\ Size \in Nat
      BY <2>1, <2>2, TypeOf, CountersOf, Commutes
    <2>5. lang = "cpp" => got[c] >= received * Size
      <3>1. lang = "cpp" => got[c] = received * Size + (Size - left[c])
        BY <2>1 DEF Replies
      <3> QED
        BY <2>4, <3>1
    <2>6. lang \in {"go", "go3"} => got[c] >= received
      BY <2>1 DEF Replies
    <2>7. lang \in {"cpp", "go", "go3", "py"}
      BY <2>1 DEF AllTypeOK
    <2> HIDE DEF received
    <2>8. HeardBy(c) = IF got[c] >= received * Size THEN "whole"
                       ELSE IF got[c] >= received THEN "part" ELSE "less"
      BY DEF HeardBy, received
    <2>9. HeardBy(c) \in Report!HeardIn(lang) /\ (received = 0 => HeardBy(c) = "whole")
      BY <2>4, <2>5, <2>6, <2>7, <2>8 DEF Report!HeardIn, Report!Heard
    <2> QED
      BY <2>3, <2>9 DEF received, Report!Fits
  <1> QED
    BY <1>1, ClientsInvariance, PTL

\* Every report is a line of its own and the only one of its client, and none is
\* missing when main returns (client.cpp l. 43-47, 126-130).
THEOREM LinesStayWhole == Spec => []LinesAreWhole
  <1>1. IInv => LinesAreWhole
    <2> SUFFICES ASSUME IInv
                 PROVE  LinesAreWhole
      OBVIOUS
    <2>1. main = "done" => \A c \in Client : \E k \in 1 .. Len(out) : out[k] = <<c, "endl">>
      BY DEF IInv, Waits, Written
    <2> QED
      BY <2>1 DEF IInv, Alternate, LinesAreWhole
  <1> QED
    BY <1>1, ClientsInvariance, PTL

\* Only a reply changes how many are counted.
LEMMA CountStep ==
  ASSUME AllTypeOK, NEW c \in Client, NEW d \in Client, Thread(c),
         log'[d].messages_received # log[d].messages_received
  PROVE  Reply(c) /\ c = d
  <1>1. log \in [Client -> LogData]
    BY DEF AllTypeOK, TypeOK
  <1>2. CASE Connects(c) \/ SendsByte(c)
    BY <1>1, <1>2 DEF Connects, SendsByte, LogData
  <1>3. CASE Fails(c)
    BY <1>1, <1>3 DEF Fails, Errs, LogData
  <1>4. CASE Reply(c)
    BY <1>1, <1>4 DEF Reply, Counts
  <1>5. CASE PartRead(c) \/ GivesUp(c) \/ Prints(c) \/ Cpp!Lock(c) \/ Cpp!Line(c) \/ Cpp!Endl(c)
    BY <1>5 DEF PartRead, GivesUp, Prints, Cpp!Lock, Cpp!Line, Cpp!Endl, client,
       Cpp!client
  <1> QED
    BY <1>2, <1>3, <1>4, <1>5, ThreadSteps

\* What is counted as a reply is, in C++, the whole echo of the message just sent
\* (client.cpp l. 79-89).
THEOREM CountedRepliesAreOwn == Spec => CountedReplyIsOwn
  <1>1. IInv /\ [Next]_vars
          => [\A c \in Client :
                 log'[c].messages_received > log[c].messages_received =>
                    IF lang = "cpp"
                    THEN /\ got'[c] >= Size
                         /\ \A k \in 1 .. Size :
                               echoed[c][got'[c] - Size + k] = <<msg[c], k>>
                    ELSE got'[c] > got[c] \/ (lang = "py" /\ AtEOF(c))]_vars
    <2> SUFFICES ASSUME IInv, Next, NEW c \in Client,
                        log'[c].messages_received > log[c].messages_received
                 PROVE  IF lang = "cpp"
                        THEN /\ got'[c] >= Size
                             /\ \A k \in 1 .. Size :
                                   echoed[c][got'[c] - Size + k] = <<msg[c], k>>
                        ELSE got'[c] > got[c] \/ (lang = "py" /\ AtEOF(c))
      OBVIOUS
    <2>0. AllTypeOK /\ ClientInv(c)
      BY DEF IInv
    <2>1. log'[c].messages_received # log[c].messages_received
      <3>1. log[c].messages_received \in Nat
        BY <2>0, CountersOf
      <3>2. ~(log[c].messages_received > log[c].messages_received)
        BY <3>1
      <3> QED
        BY <3>2
    <2>2. log' # log
      BY <2>1
    <2>3. \E d \in Client : Thread(d)
      BY <2>0, <2>2, MainSteps, EchoStep, BreakStep
         DEF Next, client, Echoes, Echo, BreaksDown, Breaks, Deadline, Go!DeadlinePasses,
         Go!client
    <2>4. Thread(c) /\ Reply(c) /\ lang' = lang
      BY <2>0, <2>1, <2>3, CountStep, ThreadSteps
    <2> QED
      BY <2>0, <2>4, ReplyStep
  <1> QED
    BY <1>1, ClientsInvariance, PTL DEF Spec, CountedReplyIsOwn

=============================================================================
