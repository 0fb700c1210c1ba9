-------------------------- MODULE EchoServerProofs --------------------------
(***************************************************************************)
(* Safety of v4/server.cpp for any number of connections and threads, any  *)
(* buffer size and streams of any length.                                  *)
(***************************************************************************)
EXTENDS EchoServer, SequenceTheorems, TLAPS

-----------------------------------------------------------------------------
(* The inductive invariant, in parts *)

\* A queued or running completion is one the kernel can produce.
CompletionOK(r) ==
    /\ r \in Completion
    /\ r.kind = "accept" => (r.ok <=> r.conn # None)
    /\ r.kind # "accept" => r.conn \in Conn

CompletionsOK ==
    /\ \A r \in ready : CompletionOK(r)
    /\ \A t \in Thread : stage[t] # "idle" => CompletionOK(job[t])

\* r belongs to the session of c; thread t is about to run a handler of c.
Of(r, c) == r.kind # "accept" /\ r.conn = c
Handling(t, c) == stage[t] = "call" /\ Of(job[t], c)

\* SessionSerial, without the tags of Actors.
Serial(c) ==
    /\ \A k, l \in pending[c] : k = l
    /\ \A r, q \in ready : Of(r, c) /\ Of(q, c) => r = q
    /\ \A t, u \in Thread : Handling(t, c) /\ Handling(u, c) => t = u
    /\ \A k \in pending[c] : /\ \A r \in ready : ~Of(r, c)
                             /\ \A t \in Thread : ~Handling(t, c)
    /\ \A r \in ready : \A t \in Thread : ~(Of(r, c) /\ Handling(t, c))

\* Who holds a copy of self, and that the session lives while somebody does.
Ownership(c) ==
    /\ pending[c] \subseteq opRef[c]
    /\ \A r \in ready : Of(r, c) => r.kind \in opRef[c]
    /\ \A t \in Thread : Handling(t, c) => t \in runRef[c]
    /\ opRef[c] # {} \/ runRef[c] # {} => sess[c] = "live"

\* At most one accept in flight, of a connection that has no session yet.
Accepting(t) == stage[t] # "idle" /\ job[t].kind = "accept"
AcceptUnique ==
    /\ accepting => /\ \A r \in ready : r.kind # "accept"
                    /\ \A t \in Thread : ~Accepting(t)
    /\ \A r, q \in ready : r.kind = "accept" /\ q.kind = "accept" => r = q
    /\ \A t, u \in Thread : Accepting(t) /\ Accepting(u) => t = u
    /\ \A r \in ready : \A t \in Thread : ~(r.kind = "accept" /\ Accepting(t))

AcceptAlive ==
    \/ accepting
    \/ \E r \in ready : r.kind = "accept"
    \/ \E t \in Thread : Accepting(t)

\* Connection c waits for its session: in the backlog, or being accepted.
InBacklog(c) == \E i \in 1 .. Len(backlog) : backlog[i] = c
BeingAccepted(c) ==
    \/ \E r \in ready : r.kind = "accept" /\ r.conn = c
    \/ \E t \in Thread : stage[t] = "call" /\ job[t].kind = "accept" /\ job[t].conn = c

Arrival(c) ==
    /\ peer[c] = "absent" => ~InBacklog(c) /\ ~BeingAccepted(c) /\ sess[c] = "none"
    /\ InBacklog(c) => ~BeingAccepted(c) /\ sess[c] = "none"
    /\ BeingAccepted(c) => sess[c] = "none"
    /\ sess[c] = "none" => taken[c] = 0 /\ echoed[c] = << >>

BacklogDistinct ==
    \A i, j \in 1 .. Len(backlog) : backlog[i] = backlog[j] => i = j

\* data_ holds, from position p, the n bytes that were taken and not yet echoed.
Owed(c, p, n) ==
    /\ taken[c] = Len(echoed[c]) + n
    /\ p + n <= MaxLength
    /\ \A i \in 1 .. n : data[c][p + i] = wrote[c][Len(echoed[c]) + i]

\* What completion r of c, queued or being handled, says of the streams.
Bytes(r, c) ==
    /\ r.kind = "read" /\ r.ok => Owed(c, 0, r.n)
    /\ r.kind = "write" /\ r.ok => taken[c] = Len(echoed[c])

Streams(c) ==
    /\ taken[c] <= Len(wrote[c])
    /\ Len(echoed[c]) <= taken[c]
    /\ \A k \in 1 .. Len(echoed[c]) : echoed[c][k] = wrote[c][k]
    /\ "read" \in pending[c] => taken[c] = Len(echoed[c])
    /\ "write" \in pending[c] =>
          wpos[c] <= wlen[c] /\ Owed(c, wpos[c], wlen[c] - wpos[c])
    /\ \A r \in ready : Of(r, c) => Bytes(r, c)
    /\ \A t \in Thread : Handling(t, c) => Bytes(job[t], c)

\* The client left, and got everything back unless the connection broke.
Ended(c) ==
    \/ peer[c] = "reset"
    \/ peer[c] = "closed" /\ Len(echoed[c]) = Len(wrote[c])

Idle(c) == /\ pending[c] = {}
           /\ \A r \in ready : ~Of(r, c)
           /\ \A t \in Thread : ~Handling(t, c)

Ending(c) ==
    /\ \A r \in ready : Of(r, c) /\ ~r.ok => Ended(c)
    /\ \A t \in Thread : Handling(t, c) /\ ~job[t].ok => Ended(c)
    /\ sess[c] # "none" /\ Idle(c) => Ended(c)

Structure ==
    /\ TypeOK
    /\ CompletionsOK
    /\ \A c \in Conn : Serial(c) /\ Ownership(c) /\ Arrival(c)
    /\ AcceptUnique
    /\ AcceptAlive
    /\ BacklogDistinct

IInv ==
    /\ Structure
    /\ \A c \in Conn : Streams(c) /\ Ending(c)

-----------------------------------------------------------------------------
(* The steps of the pool and the kernel keep each part of the invariant *)

\* Head and Tail of the backlog.
LEMMA BacklogHead ==
    ASSUME TypeOK, backlog # << >>
    PROVE  /\ Head(backlog) \in Conn /\ Head(backlog) = backlog[1]
           /\ Len(backlog) \in Nat /\ Len(backlog) > 0
           /\ Tail(backlog) \in Seq(Conn)
           /\ Len(Tail(backlog)) = Len(backlog) - 1
           /\ \A i \in 1 .. Len(Tail(backlog)) : Tail(backlog)[i] = backlog[i + 1]
  BY DEF TypeOK

\* The completions of the kernel's actions are among those CompletionOK allows.
LEMMA RecordOK ==
    /\ \A c \in Conn : CompletionOK([kind |-> "accept", conn |-> c, ok |-> TRUE, n |-> 0])
    /\ CompletionOK([kind |-> "accept", conn |-> None, ok |-> FALSE, n |-> 0])
    /\ \A c \in Conn, ok \in BOOLEAN, n \in 0 .. MaxLength, kind \in {"read", "write"} :
          CompletionOK([kind |-> kind, conn |-> c, ok |-> ok, n |-> n])
  BY ConstantsAssumption DEF CompletionOK, Completion

\* Queueing a good completion keeps all of them good.
LEMMA QueueOK ==
    ASSUME TypeOK, CompletionsOK, NEW r, CompletionOK(r),
           ready' = ready \cup {r}, job' = job, stage' = stage
    PROVE  ready' \in SUBSET Completion /\ CompletionsOK'
  <1>1. ready' \in SUBSET Completion
    BY DEF TypeOK, CompletionOK
  <1>2. CompletionsOK'
    BY DEF CompletionsOK, CompletionOK
  <1> QED
    BY <1>1, <1>2

\* Every action keeps the types.
LEMMA TypeStep ==
    ASSUME TypeOK, CompletionsOK, [Next]_vars
    PROVE  TypeOK'
  <1>1. ASSUME NEW c \in Conn, Connect(c) PROVE TypeOK'
    BY <1>1, ConstantsAssumption DEF Connect, refVars, bufVars, poolVars,
       TypeOK
  <1>2. ASSUME NEW c \in Conn, NEW b \in Byte, ClientWrite(c, b) PROVE TypeOK'
    BY <1>2, ConstantsAssumption DEF ClientWrite, refVars, bufVars, poolVars,
       TypeOK
  <1>3. ASSUME NEW c \in Conn, NEW how \in {"closed", "reset"}, ClientLeave(c, how) PROVE TypeOK'
    BY <1>3, ConstantsAssumption DEF ClientLeave, refVars, bufVars, poolVars,
       TypeOK
  <1>4. ASSUME AcceptOk PROVE TypeOK'
    <2>1. ready' \in SUBSET Completion /\ CompletionsOK'
      BY <1>4, RecordOK, QueueOK, BacklogHead DEF AcceptOk, Done
    <2> QED
      BY <1>4, <2>1, BacklogHead DEF AcceptOk, Done, refVars, bufVars, TypeOK
  <1>5. ASSUME AcceptError PROVE TypeOK'
    <2>1. ready' \in SUBSET Completion /\ CompletionsOK'
      BY <1>5, RecordOK, QueueOK DEF AcceptError, Done
    <2> QED
      BY <1>5, <2>1 DEF AcceptError, Done, netVars, refVars, bufVars, TypeOK
  <1>6. ASSUME NEW c \in Conn, ReadSome(c) PROVE TypeOK'
    <2>1. PICK n \in 1 .. MaxLength :
             /\ n <= Len(wrote[c]) - taken[c]
             /\ data' = [data EXCEPT ![c] = [i \in 1 .. MaxLength |->
                           IF i <= n THEN wrote[c][taken[c] + i] ELSE data[c][i]]]
             /\ taken' = [taken EXCEPT ![c] = @ + n]
             /\ Done("read", c, TRUE, n)
      BY <1>6 DEF ReadSome
    <2>2. n \in 0 .. MaxLength
      BY ConstantsAssumption
    <2>3. ready' \in SUBSET Completion /\ CompletionsOK'
      BY <2>1, <2>2, RecordOK, QueueOK DEF Done
    <2>4. ASSUME NEW i \in 1 .. MaxLength, i <= n
          PROVE  wrote[c][taken[c] + i] \in Byte \cup {Junk}
      <3>1. wrote[c] \in Seq(Byte) /\ taken[c] \in Nat
        BY DEF TypeOK
      <3>2. taken[c] + i \in 1 .. Len(wrote[c])
        BY <2>1, <2>4, <3>1, ConstantsAssumption
      <3> QED
        BY <3>1, <3>2
    <2>5. data' \in [Conn -> [1 .. MaxLength -> Byte \cup {Junk}]]
      BY <2>1, <2>4 DEF TypeOK
    <2>6. taken' \in [Conn -> Nat]
      BY <2>1, <2>2 DEF TypeOK
    <2> QED
      BY <1>6, <2>1, <2>3, <2>5, <2>6 DEF ReadSome, Done, netVars, refVars, TypeOK
  <1>7. ASSUME NEW c \in Conn, ReadEnd(c) PROVE TypeOK'
    <2>1. 0 \in 0 .. MaxLength
      BY ConstantsAssumption
    <2>2. ready' \in SUBSET Completion /\ CompletionsOK'
      BY <1>7, <2>1, RecordOK, QueueOK DEF ReadEnd, Done
    <2> QED
      BY <1>7, <2>2 DEF ReadEnd, Done, netVars, refVars, bufVars, TypeOK
  <1>8. ASSUME NEW c \in Conn, WriteSome(c) PROVE TypeOK'
    <2>1. wpos[c] \in 0 .. MaxLength /\ wlen[c] \in 0 .. MaxLength
      BY DEF TypeOK
    <2>2. wpos[c] + 1 \in 1 .. MaxLength
      BY <1>8, <2>1, ConstantsAssumption DEF WriteSome
    <2>3. data[c][wpos[c] + 1] \in Byte \cup {Junk}
      <3>1. data \in [Conn -> [1 .. MaxLength -> Byte \cup {Junk}]]
        BY DEF TypeOK
      <3> QED
        BY <2>2, <3>1
    <2>4. wpos' \in [Conn -> 0 .. MaxLength]
      BY <1>8, <2>2, ConstantsAssumption DEF WriteSome, TypeOK
    <2>5. echoed' \in [Conn -> Seq(Byte \cup {Junk})]
      BY <1>8, <2>3 DEF WriteSome, TypeOK
    <2> QED
      BY <1>8, <2>4, <2>5 DEF WriteSome, netVars, refVars, poolVars, TypeOK
  <1>9. ASSUME NEW c \in Conn, WriteEnd(c) PROVE TypeOK'
    <2>1. wlen[c] \in 0 .. MaxLength /\ wpos[c] \in 0 .. MaxLength
      BY DEF TypeOK
    <2>2. ready' \in SUBSET Completion /\ CompletionsOK'
      BY <1>9, <2>1, RecordOK, QueueOK DEF WriteEnd, Done
    <2> QED
      BY <1>9, <2>2 DEF WriteEnd, Done, netVars, refVars, bufVars, TypeOK
  <1>10. ASSUME NEW t \in Thread, NEW r \in ready, Take(t, r) PROVE TypeOK'
    <2>1. r \in Completion
      BY DEF TypeOK
    <2>2. opRef \in [Conn -> SUBSET {"read", "write"}] /\ runRef \in [Conn -> SUBSET Thread]
      BY DEF TypeOK
    <2>3. opRef' \in [Conn -> SUBSET {"read", "write"}] /\ runRef' \in [Conn -> SUBSET Thread]
      <3>1. CASE r.conn \in Conn /\ r.kind \in opRef[r.conn]
        <4>1. /\ opRef' = [opRef EXCEPT ![r.conn] = @ \ {r.kind}]
              /\ runRef' = [runRef EXCEPT ![r.conn] = @ \cup {t}]
          BY <1>10, <3>1 DEF Take
        <4>2. opRef[r.conn] \ {r.kind} \in SUBSET {"read", "write"}
          BY <2>2, <3>1
        <4> QED
          BY <2>2, <3>1, <4>1, <4>2
      <3>2. CASE ~(r.conn \in Conn /\ r.kind \in opRef[r.conn])
        BY <1>10, <2>2, <3>2 DEF Take
      <3> QED
        BY <3>1, <3>2
    <2> QED
      BY <1>10, <2>1, <2>3 DEF Take, netVars, bufVars, TypeOK
  <1>11. ASSUME NEW t \in Thread, HandleAccept(t) PROVE TypeOK'
    BY <1>11, ConstantsAssumption DEF HandleAccept, InHandler, DoRead,
       netVars, TypeOK
  <1>12. ASSUME NEW t \in Thread, HandleRead(t) PROVE TypeOK'
    <2>1. CompletionOK(job[t]) /\ job[t].kind = "read"
      BY <1>12 DEF HandleRead, InHandler, CompletionsOK
    <2>2. job[t].n \in 0 .. MaxLength /\ job[t].conn \in Conn
      BY <2>1 DEF CompletionOK, Completion
    <2>3. 0 \in 0 .. MaxLength
      BY ConstantsAssumption
    <2> QED
      BY <1>12, <2>2, <2>3 DEF HandleRead, InHandler, DoWrite, netVars, TypeOK
  <1>13. ASSUME NEW t \in Thread, HandleWrite(t) PROVE TypeOK'
    BY <1>13, ConstantsAssumption DEF HandleWrite, InHandler, DoRead, netVars,
       TypeOK
  <1>14. ASSUME NEW t \in Thread, HandleError(t) PROVE TypeOK'
    BY <1>14, ConstantsAssumption DEF HandleError, InHandler, netVars,
       refVars, TypeOK
  <1>15. ASSUME NEW t \in Thread, Return(t) PROVE TypeOK'
    BY <1>15, ConstantsAssumption DEF Return, netVars, bufVars, TypeOK
  <1>16. CASE UNCHANGED vars
    BY <1>16, ConstantsAssumption DEF vars, TypeOK
  <1> QED
    BY <1>1, <1>2, <1>3, <1>4, <1>5, <1>6, <1>7, <1>8, <1>9, <1>10, <1>11,
       <1>12, <1>13, <1>14, <1>15, <1>16 DEF Next, Clients, Kernel, Pool, Run

\* Every action queues and handles completions the kernel can produce only.
LEMMA CompletionsStep ==
    ASSUME TypeOK, CompletionsOK, [Next]_vars
    PROVE  CompletionsOK'
  <1>1. ASSUME NEW c \in Conn, Connect(c) PROVE CompletionsOK'
    BY <1>1 DEF Connect, refVars, bufVars, poolVars, TypeOK, CompletionsOK
  <1>2. ASSUME NEW c \in Conn, NEW b \in Byte, ClientWrite(c, b) PROVE CompletionsOK'
    BY <1>2 DEF ClientWrite, refVars, bufVars, poolVars, TypeOK, CompletionsOK
  <1>3. ASSUME NEW c \in Conn, NEW how \in {"closed", "reset"}, ClientLeave(c, how) PROVE CompletionsOK'
    BY <1>3 DEF ClientLeave, refVars, bufVars, poolVars, TypeOK, CompletionsOK
  <1>4. ASSUME AcceptOk PROVE CompletionsOK'
    BY <1>4, BacklogHead, RecordOK, QueueOK DEF AcceptOk, Done
  <1>5. ASSUME AcceptError PROVE CompletionsOK'
    BY <1>5, RecordOK, QueueOK DEF AcceptError, Done
  <1>6. ASSUME NEW c \in Conn, ReadSome(c) PROVE CompletionsOK'
    <2>1. PICK n \in 1 .. MaxLength : Done("read", c, TRUE, n)
      BY <1>6 DEF ReadSome
    <2>2. n \in 0 .. MaxLength
      BY ConstantsAssumption
    <2> QED
      BY <2>1, <2>2, RecordOK, QueueOK DEF Done
  <1>7. ASSUME NEW c \in Conn, ReadEnd(c) PROVE CompletionsOK'
    <2>1. 0 \in 0 .. MaxLength
      BY ConstantsAssumption
    <2> QED
      BY <1>7, <2>1, RecordOK, QueueOK DEF ReadEnd, Done
  <1>8. ASSUME NEW c \in Conn, WriteSome(c) PROVE CompletionsOK'
    BY <1>8 DEF WriteSome, netVars, refVars, poolVars, TypeOK, CompletionsOK
  <1>9. ASSUME NEW c \in Conn, WriteEnd(c) PROVE CompletionsOK'
    <2>1. wlen[c] \in 0 .. MaxLength /\ wpos[c] \in 0 .. MaxLength
      BY DEF TypeOK
    <2> QED
      BY <1>9, <2>1, RecordOK, QueueOK DEF WriteEnd, Done
  <1>10. ASSUME NEW t \in Thread, NEW r \in ready, Take(t, r) PROVE CompletionsOK'
    <2>1. job \in [Thread -> Completion \cup {None}]
      BY DEF TypeOK
    <2>2. stage \in [Thread -> {"idle", "call", "return"}]
      BY DEF TypeOK
    <2> QED
      BY <1>10, <2>1, <2>2 DEF Take, CompletionsOK
  <1>11. ASSUME NEW t \in Thread, HandleAccept(t) PROVE CompletionsOK'
    BY <1>11 DEF HandleAccept, InHandler, DoRead, netVars, TypeOK,
       CompletionsOK
  <1>12. ASSUME NEW t \in Thread, HandleRead(t) PROVE CompletionsOK'
    BY <1>12 DEF HandleRead, InHandler, DoWrite, netVars, TypeOK,
       CompletionsOK
  <1>13. ASSUME NEW t \in Thread, HandleWrite(t) PROVE CompletionsOK'
    BY <1>13 DEF HandleWrite, InHandler, DoRead, netVars, TypeOK,
       CompletionsOK
  <1>14. ASSUME NEW t \in Thread, HandleError(t) PROVE CompletionsOK'
    BY <1>14 DEF HandleError, InHandler, netVars, refVars, TypeOK,
       CompletionsOK
  <1>15. ASSUME NEW t \in Thread, Return(t) PROVE CompletionsOK'
    BY <1>15 DEF Return, netVars, bufVars, TypeOK, CompletionsOK
  <1>16. CASE UNCHANGED vars
    BY <1>16 DEF vars, TypeOK, CompletionsOK
  <1> QED
    BY <1>1, <1>2, <1>3, <1>4, <1>5, <1>6, <1>7, <1>8, <1>9, <1>10, <1>11,
       <1>12, <1>13, <1>14, <1>15, <1>16 DEF Next, Clients, Kernel, Pool, Run

\* A connection without a session has no actor.
LEMMA NoSessionIdle ==
    ASSUME NEW c \in Conn, Ownership(c), sess[c] = "none"
    PROVE  Idle(c) /\ opRef[c] = {} /\ runRef[c] = {}
  BY DEF Ownership, Idle
\* No step lets a second actor touch the buffer of session d.
LEMMA SerialStep ==
    ASSUME Structure, NEW d \in Conn, [Next]_vars
    PROVE  Serial(d)'
  <1>1. ASSUME NEW c \in Conn, Connect(c) PROVE Serial(d)'
    BY <1>1 DEF Connect, refVars, bufVars, poolVars, Structure, Serial,
       TypeOK, CompletionsOK, CompletionOK, Of, Handling
  <1>2. ASSUME NEW c \in Conn, NEW b \in Byte, ClientWrite(c, b) PROVE Serial(d)'
    BY <1>2 DEF ClientWrite, refVars, bufVars, poolVars, Structure, Serial,
       TypeOK, CompletionsOK, CompletionOK, Of, Handling
  <1>3. ASSUME NEW c \in Conn, NEW how \in {"closed", "reset"}, ClientLeave(c, how) PROVE Serial(d)'
    BY <1>3 DEF ClientLeave, refVars, bufVars, poolVars, Structure, Serial,
       TypeOK, CompletionsOK, CompletionOK, Of, Handling
  <1>4. ASSUME AcceptOk PROVE Serial(d)'
    <2>1. PICK q : q.kind = "accept" /\ ready' = ready \cup {q}
      BY <1>4 DEF AcceptOk, Done
    <2>2. pending' = pending /\ job' = job /\ stage' = stage
      BY <1>4 DEF AcceptOk, Done
    <2>3. Serial(d)
      BY DEF Structure
    <2> QED
      BY <2>1, <2>2, <2>3 DEF Serial, Of, Handling
  <1>5. ASSUME AcceptError PROVE Serial(d)'
    BY <1>5 DEF AcceptError, Done, netVars, refVars, bufVars, Structure,
       Serial, TypeOK, CompletionsOK, CompletionOK, Of, Handling
  <1>6. ASSUME NEW c \in Conn, ReadSome(c) PROVE Serial(d)'
    <2>1. PICK q : q.kind = "read" /\ q.conn = c /\ ready' = ready \cup {q}
      BY <1>6 DEF ReadSome, Done
    <2>2. /\ "read" \in pending[c] /\ pending' = [pending EXCEPT ![c] = @ \ {"read"}]
          /\ job' = job /\ stage' = stage
      BY <1>6 DEF ReadSome, Done
    <2>3. Serial(c) /\ Serial(d) /\ pending \in [Conn -> SUBSET {"read", "write"}]
      BY DEF Structure, TypeOK
    <2> QED
      BY <2>1, <2>2, <2>3 DEF Serial, Of, Handling
  <1>7. ASSUME NEW c \in Conn, ReadEnd(c) PROVE Serial(d)'
    <2>1. PICK q : q.kind = "read" /\ q.conn = c /\ ready' = ready \cup {q}
      BY <1>7 DEF ReadEnd, Done
    <2>2. /\ "read" \in pending[c] /\ pending' = [pending EXCEPT ![c] = @ \ {"read"}]
          /\ job' = job /\ stage' = stage
      BY <1>7 DEF ReadEnd, Done
    <2>3. Serial(c) /\ Serial(d) /\ pending \in [Conn -> SUBSET {"read", "write"}]
      BY DEF Structure, TypeOK
    <2> QED
      BY <2>1, <2>2, <2>3 DEF Serial, Of, Handling
  <1>8. ASSUME NEW c \in Conn, WriteSome(c) PROVE Serial(d)'
    BY <1>8 DEF WriteSome, netVars, refVars, poolVars, Structure, Serial,
       TypeOK, CompletionsOK, CompletionOK, Of, Handling
  <1>9. ASSUME NEW c \in Conn, WriteEnd(c) PROVE Serial(d)'
    <2>1. PICK q : q.kind = "write" /\ q.conn = c /\ ready' = ready \cup {q}
      BY <1>9 DEF WriteEnd, Done
    <2>2. /\ "write" \in pending[c] /\ pending' = [pending EXCEPT ![c] = @ \ {"write"}]
          /\ job' = job /\ stage' = stage
      BY <1>9 DEF WriteEnd, Done
    <2>3. Serial(c) /\ Serial(d) /\ pending \in [Conn -> SUBSET {"read", "write"}]
      BY DEF Structure, TypeOK
    <2> QED
      BY <2>1, <2>2, <2>3 DEF Serial, Of, Handling
  <1>10. ASSUME NEW t \in Thread, NEW r \in ready, Take(t, r) PROVE Serial(d)'
    <2>1. /\ stage[t] = "idle" /\ ready' = ready \ {r} /\ pending' = pending
          /\ job' = [job EXCEPT ![t] = r] /\ stage' = [stage EXCEPT ![t] = "call"]
      BY <1>10 DEF Take
    <2>2. DOMAIN job = Thread /\ DOMAIN stage = Thread
      BY DEF Structure, TypeOK
    <2>3. \A u \in Thread : Handling(u, d)' => (u = t /\ Of(r, d)) \/ (u # t /\ Handling(u, d))
      BY <2>1, <2>2 DEF Handling, Of
    <2>4. Serial(d)
      BY DEF Structure
    <2> QED
      BY <2>1, <2>3, <2>4 DEF Serial
  <1>11. ASSUME NEW t \in Thread, HandleAccept(t) PROVE Serial(d)'
    <2>1. PICK c \in Conn : c = job[t].conn
      BY <1>11 DEF HandleAccept, InHandler, Structure, CompletionsOK, CompletionOK, Completion
    <2>2. sess[c] = "none"
      BY <1>11, <2>1 DEF HandleAccept, InHandler, Structure, Arrival, BeingAccepted
    <2>3. Idle(c)
      BY <2>2, NoSessionIdle DEF Structure
    <2>4. /\ ready' = ready /\ job' = job /\ stage' = [stage EXCEPT ![t] = "return"]
          /\ pending' = [pending EXCEPT ![c] = @ \cup {"read"}]
      BY <1>11, <2>1 DEF HandleAccept, InHandler, DoRead
    <2>5. Serial(d) /\ TypeOK
      BY DEF Structure
    <2>6. pending'[c] = {"read"} /\ (d # c => pending'[d] = pending[d])
      BY <2>3, <2>4, <2>5 DEF Idle, TypeOK
    <2>7. \A u \in Thread : Handling(u, d)' => Handling(u, d)
      BY <2>4, <2>5 DEF TypeOK, Handling
    <2>8. CASE d = c
      BY <2>3, <2>4, <2>6, <2>7, <2>8 DEF Serial, Idle
    <2>9. CASE d # c
      BY <2>4, <2>5, <2>6, <2>7, <2>9 DEF Serial
    <2> QED
      BY <2>8, <2>9
  <1>12. ASSUME NEW t \in Thread, HandleRead(t) PROVE Serial(d)'
    BY <1>12 DEF HandleRead, InHandler, DoWrite, netVars, Structure, Serial,
       TypeOK, CompletionsOK, CompletionOK, Of, Handling
  <1>13. ASSUME NEW t \in Thread, HandleWrite(t) PROVE Serial(d)'
    BY <1>13 DEF HandleWrite, InHandler, DoRead, netVars, Structure, Serial,
       TypeOK, CompletionsOK, CompletionOK, Of, Handling
  <1>14. ASSUME NEW t \in Thread, HandleError(t) PROVE Serial(d)'
    BY <1>14 DEF HandleError, InHandler, netVars, refVars, Structure, Serial,
       TypeOK, CompletionsOK, CompletionOK, Of, Handling
  <1>15. ASSUME NEW t \in Thread, Return(t) PROVE Serial(d)'
    BY <1>15 DEF Return, netVars, bufVars, Structure, Serial, TypeOK,
       CompletionsOK, CompletionOK, Of, Handling
  <1>16. CASE UNCHANGED vars
    BY <1>16 DEF vars, Structure, Serial, TypeOK, CompletionsOK, CompletionOK,
       Of, Handling
  <1> QED
    BY <1>1, <1>2, <1>3, <1>4, <1>5, <1>6, <1>7, <1>8, <1>9, <1>10, <1>11,
       <1>12, <1>13, <1>14, <1>15, <1>16 DEF Next, Clients, Kernel, Pool, Run
\* Copies of self move from an operation to the thread that runs its handler, and
\* the session is destroyed with the last one only.
LEMMA OwnershipStep ==
    ASSUME Structure, NEW d \in Conn, [Next]_vars
    PROVE  Ownership(d)'
  <1>1. ASSUME NEW c \in Conn, Connect(c) PROVE Ownership(d)'
    BY <1>1 DEF Connect, refVars, bufVars, poolVars, Structure, Ownership,
       TypeOK, CompletionsOK, CompletionOK, Of, Handling
  <1>2. ASSUME NEW c \in Conn, NEW b \in Byte, ClientWrite(c, b) PROVE Ownership(d)'
    BY <1>2 DEF ClientWrite, refVars, bufVars, poolVars, Structure, Ownership,
       TypeOK, CompletionsOK, CompletionOK, Of, Handling
  <1>3. ASSUME NEW c \in Conn, NEW how \in {"closed", "reset"}, ClientLeave(c, how) PROVE Ownership(d)'
    BY <1>3 DEF ClientLeave, refVars, bufVars, poolVars, Structure, Ownership,
       TypeOK, CompletionsOK, CompletionOK, Of, Handling
  <1>4. ASSUME AcceptOk PROVE Ownership(d)'
    <2>1. PICK q : q.kind = "accept" /\ ready' = ready \cup {q}
      BY <1>4 DEF AcceptOk, Done
    <2>2. /\ pending' = pending /\ job' = job /\ stage' = stage
          /\ sess' = sess /\ opRef' = opRef /\ runRef' = runRef
      BY <1>4 DEF AcceptOk, Done, refVars
    <2>3. Ownership(d)
      BY DEF Structure
    <2> QED
      BY <2>1, <2>2, <2>3 DEF Ownership, Of, Handling
  <1>5. ASSUME AcceptError PROVE Ownership(d)'
    BY <1>5 DEF AcceptError, Done, netVars, refVars, bufVars, Structure,
       Ownership, TypeOK, CompletionsOK, CompletionOK, Of, Handling
  <1>6. ASSUME NEW c \in Conn, ReadSome(c) PROVE Ownership(d)'
    BY <1>6 DEF ReadSome, Done, netVars, refVars, Structure, Ownership,
       TypeOK, CompletionsOK, CompletionOK, Of, Handling
  <1>7. ASSUME NEW c \in Conn, ReadEnd(c) PROVE Ownership(d)'
    BY <1>7 DEF ReadEnd, Done, netVars, refVars, bufVars, Structure,
       Ownership, TypeOK, CompletionsOK, CompletionOK, Of, Handling
  <1>8. ASSUME NEW c \in Conn, WriteSome(c) PROVE Ownership(d)'
    BY <1>8 DEF WriteSome, netVars, refVars, poolVars, Structure, Ownership,
       TypeOK, CompletionsOK, CompletionOK, Of, Handling
  <1>9. ASSUME NEW c \in Conn, WriteEnd(c) PROVE Ownership(d)'
    BY <1>9 DEF WriteEnd, Done, netVars, refVars, bufVars, Structure,
       Ownership, TypeOK, CompletionsOK, CompletionOK, Of, Handling
  <1>10. ASSUME NEW t \in Thread, NEW r \in ready, Take(t, r) PROVE Ownership(d)'
    <2>1. /\ stage[t] = "idle" /\ ready' = ready \ {r} /\ pending' = pending /\ sess' = sess
          /\ job' = [job EXCEPT ![t] = r] /\ stage' = [stage EXCEPT ![t] = "call"]
      BY <1>10 DEF Take
    <2>2. TypeOK /\ Ownership(d) /\ Serial(d)
      BY DEF Structure
    <2>3. \A u \in Thread : Handling(u, d)' => (u = t /\ Of(r, d)) \/ (u # t /\ Handling(u, d))
      BY <2>1, <2>2 DEF Handling, Of, TypeOK
    <2>4. CASE Of(r, d)
      <3>1. r.kind \in opRef[d]
        BY <2>2, <2>4 DEF Ownership
      <3>2. opRef'[d] = opRef[d] \ {r.kind} /\ runRef'[d] = runRef[d] \cup {t}
        BY <1>10, <2>2, <2>4, <3>1 DEF Take, Of, TypeOK
      <3>3. pending[d] = {} /\ \A q \in ready : Of(q, d) => q = r
        BY <2>2, <2>4 DEF Serial
      <3> QED
        BY <2>1, <2>2, <2>3, <3>1, <3>2, <3>3 DEF Ownership
    <2>5. CASE ~Of(r, d)
      <3>1. opRef'[d] = opRef[d] /\ runRef'[d] = runRef[d]
        <4>1. r.conn = d => r.kind \notin opRef[d]
          BY <2>2, <2>5 DEF Of, TypeOK
        <4>2. DOMAIN opRef = Conn /\ DOMAIN runRef = Conn
          BY <2>2 DEF TypeOK
        <4> QED
          BY <1>10, <4>1, <4>2 DEF Take
      <3> QED
        BY <2>1, <2>2, <2>3, <2>5, <3>1 DEF Ownership
    <2> QED
      BY <2>4, <2>5
  <1>11. ASSUME NEW t \in Thread, HandleAccept(t) PROVE Ownership(d)'
    BY <1>11 DEF HandleAccept, InHandler, DoRead, netVars, Structure,
       Ownership, TypeOK, CompletionsOK, CompletionOK, Of, Handling
  <1>12. ASSUME NEW t \in Thread, HandleRead(t) PROVE Ownership(d)'
    <2>1. TypeOK /\ Ownership(d)
      BY DEF Structure
    <2>2. PICK c \in Conn : c = job[t].conn /\ Handling(t, c)
      BY <1>12 DEF HandleRead, InHandler, Structure, CompletionsOK, CompletionOK, Completion, Handling, Of
    <2>3. sess[c] = "live"
      BY <2>2 DEF Structure, Ownership
    <2>4. /\ ready' = ready /\ job' = job /\ stage' = [stage EXCEPT ![t] = "return"]
          /\ sess' = sess /\ runRef' = runRef
          /\ opRef' = [opRef EXCEPT ![c] = @ \cup {"write"}]
          /\ pending' = [pending EXCEPT ![c] = @ \cup {"write"}]
      BY <1>12, <2>2 DEF HandleRead, InHandler, DoWrite, netVars
    <2>5. \A u \in Thread : Handling(u, d)' => Handling(u, d)
      BY <2>1, <2>4 DEF Handling, TypeOK
    <2>6. opRef[d] \subseteq opRef'[d] /\ pending'[d] \subseteq opRef'[d]
      BY <2>1, <2>4 DEF Ownership, TypeOK
    <2>7. opRef'[d] # opRef[d] => d = c
      BY <2>1, <2>4 DEF TypeOK
    <2> QED
      BY <2>1, <2>3, <2>4, <2>5, <2>6, <2>7 DEF Ownership
  <1>13. ASSUME NEW t \in Thread, HandleWrite(t) PROVE Ownership(d)'
    <2>1. TypeOK /\ Ownership(d)
      BY DEF Structure
    <2>2. PICK c \in Conn : c = job[t].conn /\ Handling(t, c)
      BY <1>13 DEF HandleWrite, InHandler, Structure, CompletionsOK, CompletionOK, Completion, Handling, Of
    <2>3. sess[c] = "live"
      BY <2>2 DEF Structure, Ownership
    <2>4. /\ ready' = ready /\ job' = job /\ stage' = [stage EXCEPT ![t] = "return"]
          /\ sess' = sess /\ runRef' = runRef
          /\ opRef' = [opRef EXCEPT ![c] = @ \cup {"read"}]
          /\ pending' = [pending EXCEPT ![c] = @ \cup {"read"}]
      BY <1>13, <2>2 DEF HandleWrite, InHandler, DoRead, netVars
    <2>5. \A u \in Thread : Handling(u, d)' => Handling(u, d)
      BY <2>1, <2>4 DEF Handling, TypeOK
    <2>6. opRef[d] \subseteq opRef'[d] /\ pending'[d] \subseteq opRef'[d]
      BY <2>1, <2>4 DEF Ownership, TypeOK
    <2>7. opRef'[d] # opRef[d] => d = c
      BY <2>1, <2>4 DEF TypeOK
    <2> QED
      BY <2>1, <2>3, <2>4, <2>5, <2>6, <2>7 DEF Ownership
  <1>14. ASSUME NEW t \in Thread, HandleError(t) PROVE Ownership(d)'
    BY <1>14 DEF HandleError, InHandler, netVars, refVars, Structure,
       Ownership, TypeOK, CompletionsOK, CompletionOK, Of, Handling
  <1>15. ASSUME NEW t \in Thread, Return(t) PROVE Ownership(d)'
    BY <1>15 DEF Return, netVars, bufVars, Structure, Ownership, TypeOK,
       CompletionsOK, CompletionOK, Of, Handling
  <1>16. CASE UNCHANGED vars
    BY <1>16 DEF vars, Structure, Ownership, TypeOK, CompletionsOK,
       CompletionOK, Of, Handling
  <1> QED
    BY <1>1, <1>2, <1>3, <1>4, <1>5, <1>6, <1>7, <1>8, <1>9, <1>10, <1>11,
       <1>12, <1>13, <1>14, <1>15, <1>16 DEF Next, Clients, Kernel, Pool, Run
\* No step starts a second accept.
LEMMA AcceptUniqueStep ==
    ASSUME Structure, [Next]_vars
    PROVE  AcceptUnique'
  <1>1. ASSUME NEW c \in Conn, Connect(c) PROVE AcceptUnique'
    BY <1>1 DEF Connect, refVars, bufVars, poolVars, Structure, AcceptUnique,
       TypeOK, CompletionsOK, CompletionOK, Accepting
  <1>2. ASSUME NEW c \in Conn, NEW b \in Byte, ClientWrite(c, b) PROVE AcceptUnique'
    BY <1>2 DEF ClientWrite, refVars, bufVars, poolVars, Structure,
       AcceptUnique, TypeOK, CompletionsOK, CompletionOK, Accepting
  <1>3. ASSUME NEW c \in Conn, NEW how \in {"closed", "reset"}, ClientLeave(c, how) PROVE AcceptUnique'
    BY <1>3 DEF ClientLeave, refVars, bufVars, poolVars, Structure,
       AcceptUnique, TypeOK, CompletionsOK, CompletionOK, Accepting
  <1>4. ASSUME AcceptOk PROVE AcceptUnique'
    BY <1>4 DEF AcceptOk, Done, refVars, bufVars, Structure, AcceptUnique,
       TypeOK, CompletionsOK, CompletionOK, Accepting
  <1>5. ASSUME AcceptError PROVE AcceptUnique'
    BY <1>5 DEF AcceptError, Done, netVars, refVars, bufVars, Structure,
       AcceptUnique, TypeOK, CompletionsOK, CompletionOK, Accepting
  <1>6. ASSUME NEW c \in Conn, ReadSome(c) PROVE AcceptUnique'
    BY <1>6 DEF ReadSome, Done, netVars, refVars, Structure, AcceptUnique,
       TypeOK, CompletionsOK, CompletionOK, Accepting
  <1>7. ASSUME NEW c \in Conn, ReadEnd(c) PROVE AcceptUnique'
    BY <1>7 DEF ReadEnd, Done, netVars, refVars, bufVars, Structure,
       AcceptUnique, TypeOK, CompletionsOK, CompletionOK, Accepting
  <1>8. ASSUME NEW c \in Conn, WriteSome(c) PROVE AcceptUnique'
    BY <1>8 DEF WriteSome, netVars, refVars, poolVars, Structure,
       AcceptUnique, TypeOK, CompletionsOK, CompletionOK, Accepting
  <1>9. ASSUME NEW c \in Conn, WriteEnd(c) PROVE AcceptUnique'
    <2>1. PICK q : q.kind = "write" /\ ready' = ready \cup {q}
      BY <1>9 DEF WriteEnd, Done
    <2> QED
      BY <1>9, <2>1 DEF WriteEnd, Done, Structure, AcceptUnique, Accepting
  <1>10. ASSUME NEW t \in Thread, NEW r \in ready, Take(t, r) PROVE AcceptUnique'
    <2>1. TypeOK /\ AcceptUnique
      BY DEF Structure
    <2>2. /\ stage[t] = "idle" /\ ready' = ready \ {r} /\ accepting' = accepting
          /\ job' = [job EXCEPT ![t] = r] /\ stage' = [stage EXCEPT ![t] = "call"]
      BY <1>10 DEF Take
    <2>3. \A u \in Thread : Accepting(u)' => (u = t /\ r.kind = "accept") \/ (u # t /\ Accepting(u))
      BY <2>1, <2>2 DEF Accepting, TypeOK
    <2> QED
      BY <2>1, <2>2, <2>3 DEF AcceptUnique
  <1>11. ASSUME NEW t \in Thread, HandleAccept(t) PROVE AcceptUnique'
    BY <1>11 DEF HandleAccept, InHandler, DoRead, netVars, Structure,
       AcceptUnique, TypeOK, CompletionsOK, CompletionOK, Accepting
  <1>12. ASSUME NEW t \in Thread, HandleRead(t) PROVE AcceptUnique'
    BY <1>12 DEF HandleRead, InHandler, DoWrite, netVars, Structure,
       AcceptUnique, TypeOK, CompletionsOK, CompletionOK, Accepting
  <1>13. ASSUME NEW t \in Thread, HandleWrite(t) PROVE AcceptUnique'
    BY <1>13 DEF HandleWrite, InHandler, DoRead, netVars, Structure,
       AcceptUnique, TypeOK, CompletionsOK, CompletionOK, Accepting
  <1>14. ASSUME NEW t \in Thread, HandleError(t) PROVE AcceptUnique'
    BY <1>14 DEF HandleError, InHandler, netVars, refVars, Structure,
       AcceptUnique, TypeOK, CompletionsOK, CompletionOK, Accepting
  <1>15. ASSUME NEW t \in Thread, Return(t) PROVE AcceptUnique'
    BY <1>15 DEF Return, netVars, bufVars, Structure, AcceptUnique, TypeOK,
       CompletionsOK, CompletionOK, Accepting
  <1>16. CASE UNCHANGED vars
    BY <1>16 DEF vars, Structure, AcceptUnique, TypeOK, CompletionsOK,
       CompletionOK, Accepting
  <1> QED
    BY <1>1, <1>2, <1>3, <1>4, <1>5, <1>6, <1>7, <1>8, <1>9, <1>10, <1>11,
       <1>12, <1>13, <1>14, <1>15, <1>16 DEF Next, Clients, Kernel, Pool, Run
\* No step ends the accept loop.
LEMMA AcceptAliveStep ==
    ASSUME Structure, [Next]_vars
    PROVE  AcceptAlive'
  <1>1. ASSUME NEW c \in Conn, Connect(c) PROVE AcceptAlive'
    BY <1>1 DEF Connect, refVars, bufVars, poolVars, Structure, AcceptAlive,
       TypeOK, Accepting
  <1>2. ASSUME NEW c \in Conn, NEW b \in Byte, ClientWrite(c, b) PROVE AcceptAlive'
    BY <1>2 DEF ClientWrite, refVars, bufVars, poolVars, Structure,
       AcceptAlive, TypeOK, Accepting
  <1>3. ASSUME NEW c \in Conn, NEW how \in {"closed", "reset"}, ClientLeave(c, how) PROVE AcceptAlive'
    BY <1>3 DEF ClientLeave, refVars, bufVars, poolVars, Structure,
       AcceptAlive, TypeOK, Accepting
  <1>4. ASSUME AcceptOk PROVE AcceptAlive'
    <2>1. [kind |-> "accept", conn |-> Head(backlog), ok |-> TRUE, n |-> 0] \in ready'
      BY <1>4 DEF AcceptOk, Done
    <2> QED
      BY <2>1 DEF AcceptAlive
  <1>5. ASSUME AcceptError PROVE AcceptAlive'
    <2>1. [kind |-> "accept", conn |-> None, ok |-> FALSE, n |-> 0] \in ready'
      BY <1>5 DEF AcceptError, Done
    <2> QED
      BY <2>1 DEF AcceptAlive
  <1>6. ASSUME NEW c \in Conn, ReadSome(c) PROVE AcceptAlive'
    BY <1>6 DEF ReadSome, Done, netVars, refVars, Structure, AcceptAlive,
       TypeOK, Accepting
  <1>7. ASSUME NEW c \in Conn, ReadEnd(c) PROVE AcceptAlive'
    BY <1>7 DEF ReadEnd, Done, netVars, refVars, bufVars, Structure,
       AcceptAlive, TypeOK, Accepting
  <1>8. ASSUME NEW c \in Conn, WriteSome(c) PROVE AcceptAlive'
    BY <1>8 DEF WriteSome, netVars, refVars, poolVars, Structure, AcceptAlive,
       TypeOK, Accepting
  <1>9. ASSUME NEW c \in Conn, WriteEnd(c) PROVE AcceptAlive'
    BY <1>9 DEF WriteEnd, Done, netVars, refVars, bufVars, Structure,
       AcceptAlive, TypeOK, Accepting
  <1>10. ASSUME NEW t \in Thread, NEW r \in ready, Take(t, r) PROVE AcceptAlive'
    BY <1>10 DEF Take, netVars, bufVars, Structure, AcceptAlive, TypeOK,
       Accepting
  <1>11. ASSUME NEW t \in Thread, HandleAccept(t) PROVE AcceptAlive'
    BY <1>11 DEF HandleAccept, InHandler, DoRead, netVars, Structure,
       AcceptAlive, TypeOK, Accepting
  <1>12. ASSUME NEW t \in Thread, HandleRead(t) PROVE AcceptAlive'
    BY <1>12 DEF HandleRead, InHandler, DoWrite, netVars, Structure,
       AcceptAlive, TypeOK, Accepting
  <1>13. ASSUME NEW t \in Thread, HandleWrite(t) PROVE AcceptAlive'
    BY <1>13 DEF HandleWrite, InHandler, DoRead, netVars, Structure,
       AcceptAlive, TypeOK, Accepting
  <1>14. ASSUME NEW t \in Thread, HandleError(t) PROVE AcceptAlive'
    BY <1>14 DEF HandleError, InHandler, netVars, refVars, Structure,
       AcceptAlive, TypeOK, Accepting
  <1>15. ASSUME NEW t \in Thread, Return(t) PROVE AcceptAlive'
    BY <1>15 DEF Return, netVars, bufVars, Structure, AcceptAlive, TypeOK,
       Accepting
  <1>16. CASE UNCHANGED vars
    BY <1>16 DEF vars, Structure, AcceptAlive, TypeOK, Accepting
  <1> QED
    BY <1>1, <1>2, <1>3, <1>4, <1>5, <1>6, <1>7, <1>8, <1>9, <1>10, <1>11,
       <1>12, <1>13, <1>14, <1>15, <1>16 DEF Next, Clients, Kernel, Pool, Run
\* A connection enters the backlog once.
LEMMA BacklogDistinctStep ==
    ASSUME Structure, [Next]_vars
    PROVE  BacklogDistinct'
  <1>1. ASSUME NEW c \in Conn, Connect(c) PROVE BacklogDistinct'
    <2>1. ~InBacklog(c)
      BY <1>1 DEF Connect, Structure, Arrival
    <2>2. backlog \in Seq(Conn) /\ backlog' = Append(backlog, c)
      BY <1>1 DEF Connect, Structure, TypeOK
    <2> QED
      BY <2>1, <2>2 DEF Structure, BacklogDistinct, InBacklog
  <1>2. ASSUME NEW c \in Conn, NEW b \in Byte, ClientWrite(c, b) PROVE BacklogDistinct'
    BY <1>2 DEF ClientWrite, refVars, bufVars, poolVars, Structure,
       BacklogDistinct, TypeOK
  <1>3. ASSUME NEW c \in Conn, NEW how \in {"closed", "reset"}, ClientLeave(c, how) PROVE BacklogDistinct'
    BY <1>3 DEF ClientLeave, refVars, bufVars, poolVars, Structure,
       BacklogDistinct, TypeOK
  <1>4. ASSUME AcceptOk PROVE BacklogDistinct'
    BY <1>4 DEF AcceptOk, Done, refVars, bufVars, Structure, BacklogDistinct,
       TypeOK
  <1>5. ASSUME AcceptError PROVE BacklogDistinct'
    BY <1>5 DEF AcceptError, Done, netVars, refVars, bufVars, Structure,
       BacklogDistinct, TypeOK
  <1>6. ASSUME NEW c \in Conn, ReadSome(c) PROVE BacklogDistinct'
    BY <1>6 DEF ReadSome, Done, netVars, refVars, Structure, BacklogDistinct,
       TypeOK
  <1>7. ASSUME NEW c \in Conn, ReadEnd(c) PROVE BacklogDistinct'
    BY <1>7 DEF ReadEnd, Done, netVars, refVars, bufVars, Structure,
       BacklogDistinct, TypeOK
  <1>8. ASSUME NEW c \in Conn, WriteSome(c) PROVE BacklogDistinct'
    BY <1>8 DEF WriteSome, netVars, refVars, poolVars, Structure,
       BacklogDistinct, TypeOK
  <1>9. ASSUME NEW c \in Conn, WriteEnd(c) PROVE BacklogDistinct'
    BY <1>9 DEF WriteEnd, Done, netVars, refVars, bufVars, Structure,
       BacklogDistinct, TypeOK
  <1>10. ASSUME NEW t \in Thread, NEW r \in ready, Take(t, r) PROVE BacklogDistinct'
    BY <1>10 DEF Take, netVars, bufVars, Structure, BacklogDistinct, TypeOK
  <1>11. ASSUME NEW t \in Thread, HandleAccept(t) PROVE BacklogDistinct'
    BY <1>11 DEF HandleAccept, InHandler, DoRead, netVars, Structure,
       BacklogDistinct, TypeOK
  <1>12. ASSUME NEW t \in Thread, HandleRead(t) PROVE BacklogDistinct'
    BY <1>12 DEF HandleRead, InHandler, DoWrite, netVars, Structure,
       BacklogDistinct, TypeOK
  <1>13. ASSUME NEW t \in Thread, HandleWrite(t) PROVE BacklogDistinct'
    BY <1>13 DEF HandleWrite, InHandler, DoRead, netVars, Structure,
       BacklogDistinct, TypeOK
  <1>14. ASSUME NEW t \in Thread, HandleError(t) PROVE BacklogDistinct'
    BY <1>14 DEF HandleError, InHandler, netVars, refVars, Structure,
       BacklogDistinct, TypeOK
  <1>15. ASSUME NEW t \in Thread, Return(t) PROVE BacklogDistinct'
    BY <1>15 DEF Return, netVars, bufVars, Structure, BacklogDistinct, TypeOK
  <1>16. CASE UNCHANGED vars
    BY <1>16 DEF vars, Structure, BacklogDistinct, TypeOK
  <1> QED
    BY <1>1, <1>2, <1>3, <1>4, <1>5, <1>6, <1>7, <1>8, <1>9, <1>10, <1>11,
       <1>12, <1>13, <1>14, <1>15, <1>16 DEF Next, Clients, Kernel, Pool, Run

\* A connection moves from the backlog through the accept to its session.
LEMMA ArrivalStep ==
    ASSUME Structure, NEW d \in Conn, [Next]_vars
    PROVE  Arrival(d)'
  <1>1. ASSUME NEW c \in Conn, Connect(c) PROVE Arrival(d)'
    <2>1. TypeOK /\ Arrival(d)
      BY DEF Structure
    <2>2. /\ peer[c] = "absent" /\ peer' = [peer EXCEPT ![c] = "open"]
          /\ backlog' = Append(backlog, c)
          /\ UNCHANGED <<taken, echoed, sess, ready, job, stage>>
      BY <1>1 DEF Connect, refVars, poolVars
    <2>3. InBacklog(d)' => InBacklog(d) \/ d = c
      BY <2>1, <2>2 DEF InBacklog, TypeOK
    <2>4. BeingAccepted(d)' = BeingAccepted(d)
      BY <2>2 DEF BeingAccepted
    <2> QED
      BY <2>1, <2>2, <2>3, <2>4 DEF Arrival, TypeOK
  <1>2. ASSUME NEW c \in Conn, NEW b \in Byte, ClientWrite(c, b) PROVE Arrival(d)'
    BY <1>2 DEF ClientWrite, refVars, bufVars, poolVars, Structure, Arrival,
       TypeOK, InBacklog, BeingAccepted
  <1>3. ASSUME NEW c \in Conn, NEW how \in {"closed", "reset"}, ClientLeave(c, how) PROVE Arrival(d)'
    BY <1>3 DEF ClientLeave, refVars, bufVars, poolVars, Structure, Arrival,
       TypeOK, InBacklog, BeingAccepted
  <1>4. ASSUME AcceptOk PROVE Arrival(d)'
    <2> DEFINE q == [kind |-> "accept", conn |-> Head(backlog), ok |-> TRUE, n |-> 0]
    <2>1. TypeOK /\ Arrival(d) /\ BacklogDistinct
      BY DEF Structure
    <2>2. /\ backlog # << >> /\ backlog' = Tail(backlog) /\ ready' = ready \cup {q}
          /\ UNCHANGED <<peer, taken, echoed, sess, job, stage>>
      BY <1>4 DEF AcceptOk, Done, refVars
    <2>3. q.kind = "accept" /\ q.conn = backlog[1] /\ 1 \in 1 .. Len(backlog)
      BY <2>1, <2>2, BacklogHead
    <2> HIDE DEF q
    <2>4. BeingAccepted(d)' <=> (BeingAccepted(d) \/ d = backlog[1])
      BY <2>2, <2>3 DEF BeingAccepted
    <2>5. \A i \in 1 .. Len(backlog') : i + 1 \in 1 .. Len(backlog) /\ backlog'[i] = backlog[i + 1]
      BY <2>1, <2>2, BacklogHead
    <2>6. InBacklog(d)' => InBacklog(d) /\ d # backlog[1]
      BY <2>1, <2>3, <2>5 DEF InBacklog, BacklogDistinct
    <2>7. d = backlog[1] => InBacklog(d)
      BY <2>3 DEF InBacklog
    <2> QED
      BY <2>1, <2>2, <2>4, <2>6, <2>7 DEF Arrival
  <1>5. ASSUME AcceptError PROVE Arrival(d)'
    <2>1. PICK q : q.conn = None /\ ready' = ready \cup {q}
      BY <1>5 DEF AcceptError, Done
    <2>2. BeingAccepted(d)' = BeingAccepted(d) /\ InBacklog(d)' = InBacklog(d)
      BY <1>5, <2>1, ConstantsAssumption DEF AcceptError, Done, netVars, BeingAccepted, InBacklog
    <2> QED
      BY <1>5, <2>2 DEF AcceptError, netVars, refVars, Structure, Arrival
  <1>6. ASSUME NEW c \in Conn, ReadSome(c) PROVE Arrival(d)'
    <2>1. PICK q : q.kind = "read" /\ ready' = ready \cup {q}
      BY <1>6 DEF ReadSome, Done
    <2>2. BeingAccepted(d)' = BeingAccepted(d) /\ InBacklog(d)' = InBacklog(d)
      BY <1>6, <2>1 DEF ReadSome, Done, netVars, BeingAccepted, InBacklog
    <2>3. sess[c] # "none"
      BY <1>6 DEF ReadSome, Structure, Ownership
    <2>4. TypeOK /\ Arrival(d)
      BY DEF Structure
    <2>5. /\ peer' = peer /\ sess' = sess
          /\ d # c => taken'[d] = taken[d] /\ echoed'[d] = echoed[d]
      BY <1>6, <2>4 DEF ReadSome, netVars, refVars, TypeOK
    <2> QED
      BY <2>2, <2>3, <2>4, <2>5 DEF Arrival
  <1>7. ASSUME NEW c \in Conn, ReadEnd(c) PROVE Arrival(d)'
    <2>1. PICK q : q.kind = "read" /\ ready' = ready \cup {q}
      BY <1>7 DEF ReadEnd, Done
    <2>2. BeingAccepted(d)' = BeingAccepted(d) /\ InBacklog(d)' = InBacklog(d)
      BY <1>7, <2>1 DEF ReadEnd, Done, netVars, BeingAccepted, InBacklog
    <2>3. sess[c] # "none"
      BY <1>7 DEF ReadEnd, Structure, Ownership
    <2>4. TypeOK /\ Arrival(d)
      BY DEF Structure
    <2>5. /\ peer' = peer /\ sess' = sess
          /\ d # c => taken'[d] = taken[d] /\ echoed'[d] = echoed[d]
      BY <1>7, <2>4 DEF ReadEnd, netVars, refVars, TypeOK
    <2> QED
      BY <2>2, <2>3, <2>4, <2>5 DEF Arrival
  <1>8. ASSUME NEW c \in Conn, WriteSome(c) PROVE Arrival(d)'
    <2>1. sess[c] # "none"
      BY <1>8 DEF WriteSome, Structure, Ownership
    <2>2. BeingAccepted(d)' = BeingAccepted(d) /\ InBacklog(d)' = InBacklog(d)
      BY <1>8 DEF WriteSome, netVars, poolVars, BeingAccepted, InBacklog
    <2>3. TypeOK /\ Arrival(d)
      BY DEF Structure
    <2> QED
      BY <1>8, <2>1, <2>2, <2>3 DEF WriteSome, netVars, refVars, Arrival, TypeOK
  <1>9. ASSUME NEW c \in Conn, WriteEnd(c) PROVE Arrival(d)'
    <2>1. PICK q : q.kind = "write" /\ ready' = ready \cup {q}
      BY <1>9 DEF WriteEnd, Done
    <2>2. BeingAccepted(d)' = BeingAccepted(d) /\ InBacklog(d)' = InBacklog(d)
      BY <1>9, <2>1 DEF WriteEnd, Done, netVars, BeingAccepted, InBacklog
    <2>3. sess[c] # "none"
      BY <1>9 DEF WriteEnd, Structure, Ownership
    <2>4. TypeOK /\ Arrival(d)
      BY DEF Structure
    <2>5. /\ peer' = peer /\ sess' = sess
          /\ d # c => taken'[d] = taken[d] /\ echoed'[d] = echoed[d]
      BY <1>9, <2>4 DEF WriteEnd, netVars, refVars, TypeOK
    <2> QED
      BY <2>2, <2>3, <2>4, <2>5 DEF Arrival
  <1>10. ASSUME NEW t \in Thread, NEW r \in ready, Take(t, r) PROVE Arrival(d)'
    <2>1. TypeOK /\ Arrival(d)
      BY DEF Structure
    <2>2. /\ stage[t] = "idle" /\ ready' = ready \ {r} /\ backlog' = backlog /\ peer' = peer
          /\ job' = [job EXCEPT ![t] = r] /\ stage' = [stage EXCEPT ![t] = "call"]
          /\ sess' = sess /\ taken' = taken /\ echoed' = echoed
      BY <1>10 DEF Take, netVars
    <2>3. BeingAccepted(d)' => BeingAccepted(d)
      BY <2>1, <2>2 DEF BeingAccepted, TypeOK
    <2> QED
      BY <2>1, <2>2, <2>3 DEF Arrival, InBacklog
  <1>11. ASSUME NEW t \in Thread, HandleAccept(t) PROVE Arrival(d)'
    <2>1. TypeOK /\ Arrival(d) /\ AcceptUnique
      BY DEF Structure
    <2>2. PICK c \in Conn : c = job[t].conn
      BY <1>11 DEF HandleAccept, InHandler, Structure, CompletionsOK, CompletionOK, Completion
    <2>3. /\ stage[t] = "call" /\ job[t].kind = "accept"
          /\ stage' = [stage EXCEPT ![t] = "return"]
          /\ sess' = [sess EXCEPT ![c] = "live"]
          /\ UNCHANGED <<peer, backlog, taken, echoed, ready, job>>
      BY <1>11, <2>2 DEF HandleAccept, InHandler, netVars
    <2>4. InBacklog(d)' = InBacklog(d)
      BY <2>3 DEF InBacklog
    <2>5. BeingAccepted(d)' => BeingAccepted(d)
      BY <2>1, <2>3 DEF BeingAccepted, TypeOK
    <2>6. d # c => sess'[d] = sess[d]
      BY <2>1, <2>3 DEF TypeOK
    <2>7. BeingAccepted(c) /\ ~BeingAccepted(c)' /\ sess'[c] = "live"
      BY <2>1, <2>2, <2>3 DEF BeingAccepted, AcceptUnique, Accepting, TypeOK
    <2> QED
      BY <2>1, <2>3, <2>4, <2>5, <2>6, <2>7 DEF Arrival
  <1>12. ASSUME NEW t \in Thread, HandleRead(t) PROVE Arrival(d)'
    <2>1. TypeOK /\ Arrival(d)
      BY DEF Structure
    <2>2. BeingAccepted(d)' => BeingAccepted(d)
      BY <1>12, <2>1 DEF HandleRead, InHandler, BeingAccepted, TypeOK
    <2>3. InBacklog(d)' = InBacklog(d)
      BY <1>12 DEF HandleRead, InHandler, netVars, InBacklog
    <2> QED
      BY <1>12, <2>1, <2>2, <2>3 DEF HandleRead, InHandler, netVars, Arrival, TypeOK
  <1>13. ASSUME NEW t \in Thread, HandleWrite(t) PROVE Arrival(d)'
    <2>1. TypeOK /\ Arrival(d)
      BY DEF Structure
    <2>2. BeingAccepted(d)' => BeingAccepted(d)
      BY <1>13, <2>1 DEF HandleWrite, InHandler, BeingAccepted, TypeOK
    <2>3. InBacklog(d)' = InBacklog(d)
      BY <1>13 DEF HandleWrite, InHandler, netVars, InBacklog
    <2> QED
      BY <1>13, <2>1, <2>2, <2>3 DEF HandleWrite, InHandler, netVars, Arrival, TypeOK
  <1>14. ASSUME NEW t \in Thread, HandleError(t) PROVE Arrival(d)'
    <2>1. TypeOK /\ Arrival(d)
      BY DEF Structure
    <2>2. BeingAccepted(d)' => BeingAccepted(d)
      BY <1>14, <2>1 DEF HandleError, InHandler, BeingAccepted, TypeOK
    <2>3. InBacklog(d)' = InBacklog(d)
      BY <1>14 DEF HandleError, InHandler, netVars, InBacklog
    <2> QED
      BY <1>14, <2>1, <2>2, <2>3 DEF HandleError, InHandler, netVars, refVars, Arrival, TypeOK
  <1>15. ASSUME NEW t \in Thread, Return(t) PROVE Arrival(d)'
    <2>1. TypeOK /\ Arrival(d) /\ Ownership(d)
      BY DEF Structure
    <2>2. BeingAccepted(d)' => BeingAccepted(d)
      BY <1>15, <2>1 DEF Return, BeingAccepted, TypeOK
    <2>3. InBacklog(d)' = InBacklog(d)
      BY <1>15 DEF Return, netVars, InBacklog
    <2>4. (sess'[d] = "none") = (sess[d] = "none")
      BY <1>15, <2>1 DEF Return, Ownership, TypeOK
    <2>5. peer' = peer /\ taken' = taken /\ echoed' = echoed
      BY <1>15 DEF Return, netVars
    <2>6. (sess[d] = "none") => sess'[d] = "none"
      BY <2>4
    <2> QED
      BY <2>1, <2>2, <2>3, <2>4, <2>5, <2>6 DEF Arrival
  <1>16. CASE UNCHANGED vars
    BY <1>16 DEF vars, Structure, Arrival, TypeOK, InBacklog, BeingAccepted
  <1> QED
    BY <1>1, <1>2, <1>3, <1>4, <1>5, <1>6, <1>7, <1>8, <1>9, <1>10, <1>11,
       <1>12, <1>13, <1>14, <1>15, <1>16 DEF Next, Clients, Kernel, Pool, Run

\* Steps that leave the streams of d and its buffer alone.
LEMMA StreamsFrame ==
    ASSUME NEW d \in Conn, Streams(d),
           wrote'[d] = wrote[d], taken'[d] = taken[d], echoed'[d] = echoed[d],
           data'[d] = data[d], wpos'[d] = wpos[d], wlen'[d] = wlen[d],
           pending'[d] \subseteq pending[d],
           \A r \in ready' : Of(r, d) => Bytes(r, d),
           \A t \in Thread : Handling(t, d)' => Bytes(job'[t], d)
    PROVE  Streams(d)'
  BY DEF Streams, Bytes, Owed
\* Bytes move from the client's stream through data_ to the echoed stream in order.
LEMMA StreamsStep ==
    ASSUME NEW d \in Conn, Structure, \A c \in Conn : Streams(c), [Next]_vars
    PROVE  Streams(d)'
  <1>1. ASSUME NEW c \in Conn, Connect(c) PROVE Streams(d)'
    <2>1. TypeOK /\ Streams(d)
      BY DEF Structure
    <2>2. /\ wrote'[d] = wrote[d] /\ taken'[d] = taken[d] /\ echoed'[d] = echoed[d]
          /\ data'[d] = data[d] /\ wpos'[d] = wpos[d] /\ wlen'[d] = wlen[d]
          /\ pending'[d] \subseteq pending[d]
      BY <1>1, <2>1 DEF Connect, refVars, bufVars, poolVars, TypeOK
    <2>3. \A r \in ready' : Of(r, d) => Bytes(r, d)
      BY <1>1, <2>1 DEF Connect, refVars, bufVars, poolVars, Streams
    <2>4. \A t \in Thread : Handling(t, d)' => Bytes(job'[t], d)
      BY <1>1, <2>1 DEF Connect, refVars, bufVars, poolVars, Streams, Handling, TypeOK
    <2> QED
      BY <2>1, <2>2, <2>3, <2>4, StreamsFrame
  <1>2. ASSUME NEW c \in Conn, NEW b \in Byte, ClientWrite(c, b) PROVE Streams(d)'
    <2>1. TypeOK /\ Streams(d)
      BY DEF Structure
    <2>2. /\ UNCHANGED <<taken, echoed, data, wpos, wlen, pending, ready, job, stage>>
          /\ wrote' = [wrote EXCEPT ![c] = Append(@, b)]
      BY <1>2 DEF ClientWrite, bufVars, poolVars
    <2>3. /\ Len(wrote'[d]) >= Len(wrote[d]) /\ Len(wrote'[d]) \in Nat /\ Len(wrote[d]) \in Nat
          /\ \A k \in 1 .. Len(wrote[d]) : wrote'[d][k] = wrote[d][k]
      BY <2>1, <2>2 DEF TypeOK
    <2>4. taken[d] \in Nat /\ Len(echoed[d]) \in Nat /\ taken[d] <= Len(wrote[d])
      BY <2>1 DEF TypeOK, Streams
    <2>5. ASSUME NEW p, NEW n, Owed(d, p, n), n \in Int
          PROVE  Owed(d, p, n)'
      BY <2>2, <2>3, <2>4, <2>5 DEF Owed
    <2>6. ASSUME NEW r, CompletionOK(r), Bytes(r, d) PROVE Bytes(r, d)'
      BY <2>2, <2>5, <2>6, ConstantsAssumption DEF Bytes, CompletionOK, Completion
    <2>7. wpos[d] \in Int /\ wlen[d] \in Int
      BY <2>1, ConstantsAssumption DEF TypeOK
    <2>8. "write" \in pending'[d] => wpos'[d] <= wlen'[d] /\ Owed(d, wpos[d], wlen[d] - wpos[d])'
      BY <2>1, <2>2, <2>5, <2>7 DEF Streams
    <2>9. \A r \in ready' : Of(r, d) => Bytes(r, d)'
      BY <2>1, <2>2, <2>6 DEF Streams, Structure, CompletionsOK
    <2>10. \A t \in Thread : Handling(t, d)' => Bytes(job[t], d)'
      BY <2>1, <2>2, <2>6 DEF Streams, Structure, CompletionsOK, Handling
    <2> QED
      BY <2>1, <2>2, <2>3, <2>4, <2>8, <2>9, <2>10 DEF Streams
  <1>3. ASSUME NEW c \in Conn, NEW how \in {"closed", "reset"}, ClientLeave(c, how) PROVE Streams(d)'
    <2>1. TypeOK /\ Streams(d)
      BY DEF Structure
    <2>2. /\ wrote'[d] = wrote[d] /\ taken'[d] = taken[d] /\ echoed'[d] = echoed[d]
          /\ data'[d] = data[d] /\ wpos'[d] = wpos[d] /\ wlen'[d] = wlen[d]
          /\ pending'[d] \subseteq pending[d]
      BY <1>3, <2>1 DEF ClientLeave, refVars, bufVars, poolVars, TypeOK
    <2>3. \A r \in ready' : Of(r, d) => Bytes(r, d)
      BY <1>3, <2>1 DEF ClientLeave, refVars, bufVars, poolVars, Streams
    <2>4. \A t \in Thread : Handling(t, d)' => Bytes(job'[t], d)
      BY <1>3, <2>1 DEF ClientLeave, refVars, bufVars, poolVars, Streams, Handling, TypeOK
    <2> QED
      BY <2>1, <2>2, <2>3, <2>4, StreamsFrame
  <1>4. ASSUME AcceptOk PROVE Streams(d)'
    <2>1. TypeOK /\ Streams(d)
      BY DEF Structure
    <2>2. PICK q : q.kind = "accept" /\ ready' = ready \cup {q} /\ job' = job /\ stage' = stage
      BY <1>4 DEF AcceptOk, Done
    <2>3. /\ wrote'[d] = wrote[d] /\ taken'[d] = taken[d] /\ echoed'[d] = echoed[d]
          /\ data'[d] = data[d] /\ wpos'[d] = wpos[d] /\ wlen'[d] = wlen[d]
          /\ pending'[d] \subseteq pending[d]
      BY <1>4 DEF AcceptOk, refVars, bufVars
    <2>4. \A r \in ready' : Of(r, d) => Bytes(r, d)
      BY <2>1, <2>2 DEF Of, Streams
    <2>5. \A t \in Thread : Handling(t, d)' => Bytes(job'[t], d)
      BY <2>1, <2>2 DEF Streams, Handling
    <2> QED
      BY <2>1, <2>3, <2>4, <2>5, StreamsFrame
  <1>5. ASSUME AcceptError PROVE Streams(d)'
    <2>1. TypeOK /\ Streams(d)
      BY DEF Structure
    <2>2. PICK q : q.kind = "accept" /\ ready' = ready \cup {q} /\ job' = job /\ stage' = stage
      BY <1>5 DEF AcceptError, Done
    <2>3. /\ wrote'[d] = wrote[d] /\ taken'[d] = taken[d] /\ echoed'[d] = echoed[d]
          /\ data'[d] = data[d] /\ wpos'[d] = wpos[d] /\ wlen'[d] = wlen[d]
          /\ pending'[d] \subseteq pending[d]
      BY <1>5 DEF AcceptError, netVars, refVars, bufVars
    <2>4. \A r \in ready' : Of(r, d) => Bytes(r, d)
      BY <2>1, <2>2 DEF Of, Streams
    <2>5. \A t \in Thread : Handling(t, d)' => Bytes(job'[t], d)
      BY <2>1, <2>2 DEF Streams, Handling
    <2> QED
      BY <2>1, <2>3, <2>4, <2>5, StreamsFrame
  <1>6. ASSUME NEW c \in Conn, ReadSome(c) PROVE Streams(d)'
    <2>1. TypeOK /\ Streams(d) /\ Serial(c)
      BY DEF Structure
    <2>2. PICK n, q :
             /\ n \in 1 .. MaxLength
             /\ n <= Len(wrote[c]) - taken[c]
             /\ data' = [data EXCEPT ![c] = [i \in 1 .. MaxLength |->
                           IF i <= n THEN wrote[c][taken[c] + i] ELSE data[c][i]]]
             /\ taken' = [taken EXCEPT ![c] = @ + n]
             /\ q.kind = "read" /\ q.conn = c /\ q.n = n
             /\ ready' = ready \cup {q} /\ job' = job /\ stage' = stage
      BY <1>6 DEF ReadSome, Done
    <2>3. CASE d # c
      <3>1. /\ wrote'[d] = wrote[d] /\ taken'[d] = taken[d] /\ echoed'[d] = echoed[d]
            /\ data'[d] = data[d] /\ wpos'[d] = wpos[d] /\ wlen'[d] = wlen[d]
            /\ pending'[d] \subseteq pending[d]
        BY <1>6, <2>1, <2>3 DEF ReadSome, Done, netVars, refVars, TypeOK
      <3>2. \A r \in ready' : Of(r, d) => Bytes(r, d)
        BY <2>1, <2>2, <2>3 DEF Of, Streams
      <3>3. \A t \in Thread : Handling(t, d)' => Bytes(job'[t], d)
        BY <2>1, <2>2 DEF Streams, Handling
      <3> QED
        BY <2>1, <3>1, <3>2, <3>3, StreamsFrame
    <2>4. CASE d = c
      <3>1. /\ "read" \in pending[c] /\ wrote' = wrote /\ echoed' = echoed
            /\ pending' = [pending EXCEPT ![c] = @ \ {"read"}]
        BY <1>6 DEF ReadSome, netVars
      <3>2. /\ taken[c] = Len(echoed[c]) /\ taken[c] \in Nat /\ Len(wrote[c]) \in Nat
            /\ n \in Nat /\ n <= MaxLength /\ MaxLength \in Nat
        BY <2>1, <2>2, <2>4, <3>1, ConstantsAssumption DEF Streams, TypeOK
      <3>3. taken'[c] = taken[c] + n
        BY <2>1, <2>2 DEF TypeOK
      <3>4. \A i \in 1 .. n : data'[c][i] = wrote[c][taken[c] + i]
        BY <2>1, <2>2, <3>2 DEF TypeOK
      <3>5. Owed(c, 0, n)'
        BY <3>1, <3>2, <3>3, <3>4 DEF Owed
      <3>6. pending'[c] = {} /\ (\A r \in ready : ~Of(r, c)) /\ \A t \in Thread : ~Handling(t, c)
        BY <2>1, <3>1 DEF Serial, TypeOK
      <3>7. \A r \in ready' : Of(r, c) => Bytes(r, c)'
        BY <2>2, <3>5, <3>6 DEF Bytes
      <3>8. \A t \in Thread : ~Handling(t, c)'
        BY <2>2, <3>6 DEF Handling
      <3>9. taken'[c] <= Len(wrote'[c]) /\ Len(echoed'[c]) <= taken'[c]
        BY <2>2, <3>1, <3>2, <3>3
      <3> QED
        BY <2>1, <2>4, <3>1, <3>6, <3>7, <3>8, <3>9 DEF Streams
    <2> QED
      BY <2>3, <2>4
  <1>7. ASSUME NEW c \in Conn, ReadEnd(c) PROVE Streams(d)'
    <2>1. TypeOK /\ Streams(d)
      BY DEF Structure
    <2> DEFINE q == [kind |-> "read", conn |-> c, ok |-> FALSE, n |-> 0]
    <2>2. ready' = ready \cup {q} /\ job' = job /\ stage' = stage
      BY <1>7 DEF ReadEnd, Done
    <2>3. /\ wrote' = wrote /\ taken' = taken /\ echoed' = echoed /\ data' = data
          /\ wpos' = wpos /\ wlen' = wlen /\ pending'[d] \subseteq pending[d]
      BY <1>7, <2>1 DEF ReadEnd, netVars, bufVars, TypeOK
    <2>4. \A r \in ready' : Of(r, d) => Bytes(r, d)
      BY <2>1, <2>2 DEF Of, Streams, Bytes
    <2>5. \A t \in Thread : Handling(t, d)' => Bytes(job'[t], d)
      BY <2>1, <2>2 DEF Streams, Handling
    <2> QED
      BY <2>1, <2>3, <2>4, <2>5, StreamsFrame
  <1>8. ASSUME NEW c \in Conn, WriteSome(c) PROVE Streams(d)'
    <2>1. TypeOK /\ Streams(d) /\ Serial(c)
      BY DEF Structure
    <2>2. ready' = ready /\ job' = job /\ stage' = stage
      BY <1>8 DEF WriteSome, poolVars
    <2>3. CASE d # c
      <3>1. /\ wrote'[d] = wrote[d] /\ taken'[d] = taken[d] /\ echoed'[d] = echoed[d]
            /\ data'[d] = data[d] /\ wpos'[d] = wpos[d] /\ wlen'[d] = wlen[d]
            /\ pending'[d] \subseteq pending[d]
        BY <1>8, <2>1, <2>3 DEF WriteSome, netVars, refVars, TypeOK
      <3>2. \A r \in ready' : Of(r, d) => Bytes(r, d)
        BY <2>1, <2>2, <2>3 DEF Of, Streams
      <3>3. \A t \in Thread : Handling(t, d)' => Bytes(job'[t], d)
        BY <2>1, <2>2 DEF Streams, Handling
      <3> QED
        BY <2>1, <3>1, <3>2, <3>3, StreamsFrame
    <2>4. CASE d = c
      <3>1. /\ "write" \in pending[c] /\ wpos[c] < wlen[c]
            /\ wrote' = wrote /\ taken' = taken /\ data' = data /\ wlen' = wlen /\ pending' = pending
        BY <1>8 DEF WriteSome, netVars
      <3>2. wpos[c] \in Nat /\ wlen[c] \in Nat /\ taken[c] \in Nat /\ Len(echoed[c]) \in Nat
            /\ Len(wrote[c]) \in Nat /\ MaxLength \in Nat
        BY <2>1, ConstantsAssumption DEF TypeOK
      <3>3. PICK p \in Nat, m \in Nat : p = wpos[c] /\ m + p = wlen[c] /\ m > 0
        <4>1. wlen[c] - wpos[c] \in Nat /\ (wlen[c] - wpos[c]) + wpos[c] = wlen[c]
          BY <3>1, <3>2
        <4> QED
          BY <3>1, <3>2, <4>1
      <3>4. Owed(c, p, m)
        BY <2>1, <2>4, <3>1, <3>2, <3>3 DEF Streams
      <3>5. /\ wpos'[c] = p + 1 /\ Len(echoed'[c]) = Len(echoed[c]) + 1
            /\ \A k \in 1 .. Len(echoed[c]) : echoed'[c][k] = echoed[c][k]
            /\ echoed'[c][Len(echoed[c]) + 1] = wrote[c][Len(echoed[c]) + 1]
        <4>1. data[c][p + 1] = wrote[c][Len(echoed[c]) + 1]
          BY <3>3, <3>4 DEF Owed
        <4> QED
          BY <1>8, <2>1, <3>3, <4>1 DEF WriteSome, TypeOK
      <3>6. Owed(c, p + 1, m - 1)'
        <4>1. taken[c] = Len(echoed[c]) + m /\ p + m <= MaxLength
          BY <3>4 DEF Owed
        <4>2. ASSUME NEW i \in 1 .. m - 1
              PROVE  data[c][(p + 1) + i] = wrote[c][(Len(echoed[c]) + 1) + i]
          <5>1. i + 1 \in 1 .. m /\ (p + 1) + i = p + (i + 1)
                /\ (Len(echoed[c]) + 1) + i = Len(echoed[c]) + (i + 1)
            <6>1. i \in Nat /\ i + 1 \in 1 .. m
              BY <3>3
            <6>2. \A x \in Nat : (x + 1) + i = x + (i + 1)
              BY <6>1
            <6> QED
              BY <3>2, <6>1, <6>2
          <5>2. data[c][p + (i + 1)] = wrote[c][Len(echoed[c]) + (i + 1)]
            BY <3>4, <5>1 DEF Owed
          <5> QED
            BY <5>1, <5>2
        <4>3. taken[c] = (Len(echoed[c]) + 1) + (m - 1) /\ (p + 1) + (m - 1) <= MaxLength
          BY <3>2, <3>3, <4>1
        <4> QED
          BY <3>1, <3>5, <4>2, <4>3 DEF Owed
      <3>7. Owed(c, wpos[c], wlen[c] - wpos[c])'
        <4>1. wlen'[c] - wpos'[c] = m - 1
          BY <3>1, <3>2, <3>3, <3>5
        <4> QED
          BY <3>5, <3>6, <4>1 DEF Owed
      <3>8. \A k \in 1 .. Len(echoed'[c]) : echoed'[c][k] = wrote'[c][k]
        <4>1. TAKE k \in 1 .. Len(echoed'[c])
        <4>2. CASE k = Len(echoed[c]) + 1
          BY <3>1, <3>5, <4>2
        <4>3. CASE k # Len(echoed[c]) + 1
          <5>1. k \in 1 .. Len(echoed[c])
            BY <3>2, <3>5, <4>3
          <5> QED
            BY <2>1, <2>4, <3>1, <3>5, <5>1 DEF Streams
        <4> QED
          BY <4>2, <4>3
      <3>9. /\ "read" \notin pending[c] /\ (\A r \in ready : ~Of(r, c))
            /\ \A t \in Thread : ~Handling(t, c)
        BY <2>1, <3>1 DEF Serial
      <3>10. taken'[c] <= Len(wrote'[c]) /\ Len(echoed'[c]) <= taken'[c] /\ wpos'[c] <= wlen'[c]
        BY <2>1, <2>4, <3>1, <3>2, <3>3, <3>4, <3>5 DEF Streams, Owed
      <3> QED
        BY <2>2, <2>4, <3>1, <3>7, <3>8, <3>9, <3>10 DEF Streams, Handling
    <2> QED
      BY <2>3, <2>4
  <1>9. ASSUME NEW c \in Conn, WriteEnd(c) PROVE Streams(d)'
    <2>1. TypeOK /\ Streams(d) /\ Streams(c)
      BY DEF Structure
    <2>2. PICK q : /\ q.kind = "write" /\ q.conn = c /\ (q.ok => wpos[c] = wlen[c])
                   /\ ready' = ready \cup {q} /\ job' = job /\ stage' = stage
      BY <1>9 DEF WriteEnd, Done
    <2>3. /\ wrote' = wrote /\ taken' = taken /\ echoed' = echoed /\ data' = data
          /\ wpos' = wpos /\ wlen' = wlen /\ pending'[d] \subseteq pending[d]
      BY <1>9, <2>1 DEF WriteEnd, netVars, bufVars, TypeOK
    <2>4. Bytes(q, c)
      <3>1. taken[c] = Len(echoed[c]) + (wlen[c] - wpos[c])
        BY <1>9, <2>1 DEF WriteEnd, Streams, Owed
      <3>2. wpos[c] \in Int /\ Len(echoed[c]) \in Nat
        BY <2>1, ConstantsAssumption DEF TypeOK
      <3> QED
        BY <2>2, <3>1, <3>2 DEF Bytes
    <2>5. \A r \in ready' : Of(r, d) => Bytes(r, d)
      BY <2>1, <2>2, <2>4 DEF Of, Streams
    <2>6. \A t \in Thread : Handling(t, d)' => Bytes(job'[t], d)
      BY <2>1, <2>2 DEF Streams, Handling
    <2> QED
      BY <2>1, <2>3, <2>5, <2>6, StreamsFrame
  <1>10. ASSUME NEW t \in Thread, NEW r \in ready, Take(t, r) PROVE Streams(d)'
    <2>1. TypeOK /\ Streams(d)
      BY DEF Structure
    <2>2. /\ ready' = ready \ {r} /\ job' = [job EXCEPT ![t] = r]
          /\ stage' = [stage EXCEPT ![t] = "call"]
      BY <1>10 DEF Take
    <2>3. \A u \in Thread : Handling(u, d)' => Bytes(job'[u], d)
      <3>1. TAKE u \in Thread
      <3>2. CASE u = t
        BY <2>1, <2>2, <3>2 DEF Handling, Of, Streams, TypeOK
      <3>3. CASE u # t
        BY <2>1, <2>2, <3>3 DEF Handling, Of, Streams, TypeOK
      <3> QED
        BY <3>2, <3>3
    <2>4. \A q \in ready' : Of(q, d) => Bytes(q, d)
      BY <2>1, <2>2 DEF Streams
    <2>5. /\ wrote' = wrote /\ taken' = taken /\ echoed' = echoed /\ data' = data
          /\ wpos' = wpos /\ wlen' = wlen /\ pending' = pending
      BY <1>10 DEF Take, netVars, bufVars
    <2> QED
      BY <2>1, <2>3, <2>4, <2>5, StreamsFrame
  <1>11. ASSUME NEW t \in Thread, HandleAccept(t) PROVE Streams(d)'
    <2>1. TypeOK /\ Streams(d)
      BY DEF Structure
    <2>2. PICK c \in Conn : c = job[t].conn
      BY <1>11 DEF HandleAccept, InHandler, Structure, CompletionsOK, CompletionOK, Completion
    <2>3. /\ wrote' = wrote /\ taken' = taken /\ echoed' = echoed /\ data' = data
          /\ wpos' = wpos /\ wlen' = wlen /\ ready' = ready /\ job' = job
          /\ stage' = [stage EXCEPT ![t] = "return"]
          /\ pending' = [pending EXCEPT ![c] = @ \cup {"read"}]
      BY <1>11, <2>2 DEF HandleAccept, InHandler, DoRead, netVars
    <2>4. taken[c] = Len(echoed[c])
      <3>1. sess[c] = "none"
        BY <1>11, <2>2 DEF HandleAccept, InHandler, Structure, Arrival, BeingAccepted
      <3> QED
        BY <3>1 DEF Structure, Arrival
    <2>5. \A u \in Thread : Handling(u, d)' => Handling(u, d)
      BY <2>1, <2>3 DEF Handling, TypeOK
    <2>6. "write" \in pending'[d] => "write" \in pending[d]
      BY <2>1, <2>3 DEF TypeOK
    <2>7. "read" \in pending'[d] => "read" \in pending[d] \/ d = c
      BY <2>1, <2>3 DEF TypeOK
    <2> QED
      BY <2>1, <2>3, <2>4, <2>5, <2>6, <2>7 DEF Streams, Bytes, Owed
  <1>12. ASSUME NEW t \in Thread, HandleRead(t) PROVE Streams(d)'
    <2>1. TypeOK /\ Streams(d)
      BY DEF Structure
    <2>2. PICK c \in Conn : c = job[t].conn /\ Handling(t, c) /\ job[t].kind = "read" /\ job[t].ok
      BY <1>12 DEF HandleRead, InHandler, Structure, CompletionsOK, CompletionOK, Completion, Handling, Of
    <2>3. /\ wrote' = wrote /\ taken' = taken /\ echoed' = echoed /\ data' = data
          /\ wpos' = [wpos EXCEPT ![c] = 0] /\ wlen' = [wlen EXCEPT ![c] = job[t].n]
          /\ ready' = ready /\ job' = job /\ stage' = [stage EXCEPT ![t] = "return"]
          /\ pending' = [pending EXCEPT ![c] = @ \cup {"write"}]
      BY <1>12, <2>2 DEF HandleRead, InHandler, DoWrite, netVars
    <2>4. \A u \in Thread : Handling(u, d)' => Handling(u, d) /\ u # t
      BY <2>1, <2>3 DEF Handling, TypeOK
    <2>5. CASE d # c
      <3>1. wpos'[d] = wpos[d] /\ wlen'[d] = wlen[d] /\ pending'[d] = pending[d]
        BY <2>1, <2>3, <2>5 DEF TypeOK
      <3> QED
        BY <2>1, <2>3, <2>4, <3>1 DEF Streams, Bytes, Owed
    <2>6. CASE d = c
      <3>1. Serial(c)
        BY DEF Structure
      <3>2. /\ pending[c] = {} /\ (\A r \in ready : ~Of(r, c))
            /\ \A u \in Thread : u # t => ~Handling(u, c)
        BY <2>2, <3>1 DEF Serial
      <3>3. pending'[c] = {"write"} /\ wpos'[c] = 0 /\ wlen'[c] = job[t].n
        BY <2>1, <2>3, <3>2 DEF TypeOK
      <3>4. job[t].n \in Nat
        BY <2>2, ConstantsAssumption DEF Structure, CompletionsOK, CompletionOK, Completion, Handling
      <3>5. Owed(c, 0, job[t].n)
        BY <2>1, <2>2, <2>6 DEF Streams, Bytes
      <3>6. wlen'[c] - wpos'[c] = job[t].n /\ wpos'[c] <= wlen'[c]
        BY <3>3, <3>4
      <3>7. Owed(c, wpos[c], wlen[c] - wpos[c])'
        BY <2>3, <3>3, <3>5, <3>6 DEF Owed
      <3> QED
        BY <2>1, <2>3, <2>4, <2>6, <3>2, <3>3, <3>6, <3>7 DEF Streams
    <2> QED
      BY <2>5, <2>6
  <1>13. ASSUME NEW t \in Thread, HandleWrite(t) PROVE Streams(d)'
    <2>1. TypeOK /\ Streams(d)
      BY DEF Structure
    <2>2. PICK c \in Conn : c = job[t].conn /\ Handling(t, c) /\ job[t].kind = "write" /\ job[t].ok
      BY <1>13 DEF HandleWrite, InHandler, Structure, CompletionsOK, CompletionOK, Completion, Handling, Of
    <2>3. /\ wrote' = wrote /\ taken' = taken /\ echoed' = echoed /\ data' = data
          /\ wpos' = wpos /\ wlen' = wlen /\ ready' = ready /\ job' = job
          /\ stage' = [stage EXCEPT ![t] = "return"]
          /\ pending' = [pending EXCEPT ![c] = @ \cup {"read"}]
      BY <1>13, <2>2 DEF HandleWrite, InHandler, DoRead, netVars
    <2>4. d = c => taken[c] = Len(echoed[c])
      BY <2>1, <2>2 DEF Streams, Bytes
    <2>5. \A u \in Thread : Handling(u, d)' => Handling(u, d)
      BY <2>1, <2>3 DEF Handling, TypeOK
    <2>6. "write" \in pending'[d] => "write" \in pending[d]
      BY <2>1, <2>3 DEF TypeOK
    <2>7. "read" \in pending'[d] => "read" \in pending[d] \/ d = c
      BY <2>1, <2>3 DEF TypeOK
    <2> QED
      BY <2>1, <2>3, <2>4, <2>5, <2>6, <2>7 DEF Streams, Bytes, Owed
  <1>14. ASSUME NEW t \in Thread, HandleError(t) PROVE Streams(d)'
    <2>1. TypeOK /\ Streams(d)
      BY DEF Structure
    <2>2. /\ wrote'[d] = wrote[d] /\ taken'[d] = taken[d] /\ echoed'[d] = echoed[d]
          /\ data'[d] = data[d] /\ wpos'[d] = wpos[d] /\ wlen'[d] = wlen[d]
          /\ pending'[d] \subseteq pending[d]
      BY <1>14, <2>1 DEF HandleError, InHandler, netVars, refVars, TypeOK
    <2>3. \A r \in ready' : Of(r, d) => Bytes(r, d)
      BY <1>14, <2>1 DEF HandleError, InHandler, netVars, refVars, Streams
    <2>4. \A u \in Thread : Handling(u, d)' => Bytes(job'[u], d)
      BY <1>14, <2>1 DEF HandleError, InHandler, netVars, refVars, Streams, Handling, TypeOK
    <2> QED
      BY <2>1, <2>2, <2>3, <2>4, StreamsFrame
  <1>15. ASSUME NEW t \in Thread, Return(t) PROVE Streams(d)'
    <2>1. TypeOK /\ Streams(d)
      BY DEF Structure
    <2>2. /\ wrote'[d] = wrote[d] /\ taken'[d] = taken[d] /\ echoed'[d] = echoed[d]
          /\ data'[d] = data[d] /\ wpos'[d] = wpos[d] /\ wlen'[d] = wlen[d]
          /\ pending'[d] \subseteq pending[d]
      BY <1>15, <2>1 DEF Return, netVars, bufVars, TypeOK
    <2>3. \A r \in ready' : Of(r, d) => Bytes(r, d)
      BY <1>15, <2>1 DEF Return, netVars, bufVars, Streams
    <2>4. \A u \in Thread : Handling(u, d)' => Bytes(job'[u], d)
      BY <1>15, <2>1 DEF Return, netVars, bufVars, Streams, Handling, TypeOK
    <2> QED
      BY <2>1, <2>2, <2>3, <2>4, StreamsFrame
  <1>16. CASE UNCHANGED vars
    BY <1>16 DEF vars, Structure, Streams, Bytes, Owed, Handling
  <1> QED
    BY <1>1, <1>2, <1>3, <1>4, <1>5, <1>6, <1>7, <1>8, <1>9, <1>10, <1>11,
       <1>12, <1>13, <1>14, <1>15, <1>16 DEF Next, Clients, Kernel, Pool, Run

\* Steps that leave the client and the streams of d alone.
LEMMA EndingFrame ==
    ASSUME NEW d \in Conn, Ending(d),
           peer'[d] = peer[d], wrote'[d] = wrote[d], echoed'[d] = echoed[d],
           sess'[d] # "none" => sess[d] # "none",
           \A r \in ready' : Of(r, d) /\ ~r.ok => Ended(d),
           \A t \in Thread : Handling(t, d)' /\ ~job'[t].ok => Ended(d),
           Idle(d)' => Idle(d) \/ Ended(d)
    PROVE  Ending(d)'
  <1>1. Ended(d)' = Ended(d)
    BY DEF Ended
  <1> QED
    BY <1>1 DEF Ending
\* A session runs out of work only when its client is gone.
LEMMA EndingStep ==
    ASSUME NEW d \in Conn, Structure, \A c \in Conn : Streams(c) /\ Ending(c), [Next]_vars
    PROVE  Ending(d)'
  <1>1. ASSUME NEW c \in Conn, Connect(c) PROVE Ending(d)'
    <2>1. TypeOK /\ Ending(d) /\ Arrival(d)
      BY DEF Structure
    <2>2. /\ peer[c] = "absent" /\ peer' = [peer EXCEPT ![c] = "open"]
          /\ wrote' = wrote /\ echoed' = echoed /\ sess' = sess /\ pending' = pending
          /\ ready' = ready /\ job' = job /\ stage' = stage
      BY <1>1 DEF Connect, refVars, poolVars
    <2>3. peer'[d] # peer[d] => peer[d] = "absent"
      BY <2>1, <2>2 DEF TypeOK
    <2>4. Ended(d) => Ended(d)'
      BY <2>2, <2>3 DEF Ended
    <2> QED
      BY <2>1, <2>2, <2>4 DEF Ending, Idle, Handling
  <1>2. ASSUME NEW c \in Conn, NEW b \in Byte, ClientWrite(c, b) PROVE Ending(d)'
    <2>1. TypeOK /\ Ending(d)
      BY DEF Structure
    <2>2. /\ peer[c] = "open" /\ wrote' = [wrote EXCEPT ![c] = Append(@, b)]
          /\ peer' = peer /\ echoed' = echoed /\ sess' = sess /\ pending' = pending
          /\ ready' = ready /\ job' = job /\ stage' = stage
      BY <1>2 DEF ClientWrite, refVars, poolVars
    <2>3. d # c => wrote'[d] = wrote[d]
      BY <2>1, <2>2 DEF TypeOK
    <2>4. Ended(d) => Ended(d)'
      BY <2>2, <2>3 DEF Ended
    <2> QED
      BY <2>1, <2>2, <2>4 DEF Ending, Idle, Handling
  <1>3. ASSUME NEW c \in Conn, NEW how \in {"closed", "reset"}, ClientLeave(c, how) PROVE Ending(d)'
    BY <1>3 DEF ClientLeave, refVars, bufVars, poolVars, Structure, Streams,
       Ending, Ended, Idle, Of, Handling, TypeOK
  <1>4. ASSUME AcceptOk PROVE Ending(d)'
    <2>1. TypeOK /\ Ending(d)
      BY DEF Structure
    <2>2. PICK q : /\ q.kind = "accept"
                   /\ ready' = ready \cup {q} /\ job' = job /\ stage' = stage
      BY <1>4 DEF AcceptOk, Done
    <2>3. /\ peer' = peer /\ wrote' = wrote /\ echoed' = echoed /\ sess' = sess
          /\ pending' = pending
      BY <1>4 DEF AcceptOk, refVars
    <2>4. \A r \in ready' : Of(r, d) /\ ~r.ok => Ended(d)
      BY <2>1, <2>2 DEF Of, Ending
    <2>5. \A t \in Thread : Handling(t, d)' /\ ~job'[t].ok => Ended(d)
      BY <2>1, <2>2 DEF Ending, Handling
    <2>6. Idle(d)' => Idle(d)
      BY <2>2, <2>3 DEF Idle, Of, Handling
    <2> QED
      BY <2>1, <2>3, <2>4, <2>5, <2>6, EndingFrame
  <1>5. ASSUME AcceptError PROVE Ending(d)'
    <2>1. TypeOK /\ Ending(d)
      BY DEF Structure
    <2>2. PICK q : /\ q.kind = "accept"
                   /\ ready' = ready \cup {q} /\ job' = job /\ stage' = stage
      BY <1>5 DEF AcceptError, Done
    <2>3. /\ peer' = peer /\ wrote' = wrote /\ echoed' = echoed /\ sess' = sess
          /\ pending' = pending
      BY <1>5 DEF AcceptError, netVars, refVars
    <2>4. \A r \in ready' : Of(r, d) /\ ~r.ok => Ended(d)
      BY <2>1, <2>2 DEF Of, Ending
    <2>5. \A t \in Thread : Handling(t, d)' /\ ~job'[t].ok => Ended(d)
      BY <2>1, <2>2 DEF Ending, Handling
    <2>6. Idle(d)' => Idle(d)
      BY <2>2, <2>3 DEF Idle, Of, Handling
    <2> QED
      BY <2>1, <2>3, <2>4, <2>5, <2>6, EndingFrame
  <1>6. ASSUME NEW c \in Conn, ReadSome(c) PROVE Ending(d)'
    <2>1. TypeOK /\ Ending(d)
      BY DEF Structure
    <2>2. PICK q : /\ q.kind = "read" /\ q.conn = c /\ q.ok = TRUE
                   /\ ready' = ready \cup {q} /\ job' = job /\ stage' = stage
      BY <1>6 DEF ReadSome, Done
    <2>3. /\ peer' = peer /\ wrote' = wrote /\ echoed' = echoed /\ sess' = sess
          /\ (d # c => pending'[d] = pending[d])
      BY <1>6, <2>1 DEF ReadSome, netVars, refVars, TypeOK
    <2>5. \A r \in ready' : Of(r, d) /\ ~r.ok => Ended(d)
      BY <2>1, <2>2 DEF Of, Ending
    <2>6. \A t \in Thread : Handling(t, d)' /\ ~job'[t].ok => Ended(d)
      BY <2>1, <2>2 DEF Ending, Handling
    <2>7. Idle(d)' => Idle(d)
      BY <2>2, <2>3 DEF Idle, Of, Handling
    <2> QED
      BY <2>1, <2>3, <2>5, <2>6, <2>7, EndingFrame
  <1>7. ASSUME NEW c \in Conn, ReadEnd(c) PROVE Ending(d)'
    <2>1. TypeOK /\ Ending(d)
      BY DEF Structure
    <2>2. PICK q : /\ q.kind = "read" /\ q.conn = c
                   /\ ready' = ready \cup {q} /\ job' = job /\ stage' = stage
      BY <1>7 DEF ReadEnd, Done
    <2>3. /\ peer' = peer /\ wrote' = wrote /\ echoed' = echoed /\ sess' = sess
          /\ (d # c => pending'[d] = pending[d])
      BY <1>7, <2>1 DEF ReadEnd, netVars, refVars, TypeOK
    <2>4. ~q.ok => Ended(c)
      BY <1>7 DEF ReadEnd, Streams, Ended
    <2>5. \A r \in ready' : Of(r, d) /\ ~r.ok => Ended(d)
      BY <2>1, <2>2, <2>4 DEF Of, Ending
    <2>6. \A t \in Thread : Handling(t, d)' /\ ~job'[t].ok => Ended(d)
      BY <2>1, <2>2 DEF Ending, Handling
    <2>7. Idle(d)' => Idle(d)
      BY <2>2, <2>3 DEF Idle, Of, Handling
    <2> QED
      BY <2>1, <2>3, <2>5, <2>6, <2>7, EndingFrame
  <1>8. ASSUME NEW c \in Conn, WriteSome(c) PROVE Ending(d)'
    <2>1. TypeOK /\ Ending(d) /\ Serial(c)
      BY DEF Structure
    <2>2. /\ ready' = ready /\ job' = job /\ stage' = stage /\ pending' = pending
          /\ peer' = peer /\ wrote' = wrote /\ sess' = sess /\ "write" \in pending[c]
          /\ (d # c => echoed'[d] = echoed[d])
      BY <1>8, <2>1 DEF WriteSome, netVars, refVars, poolVars, TypeOK
    <2>3. CASE d = c
      BY <2>1, <2>2, <2>3 DEF Serial, Ending, Idle, Handling
    <2>4. CASE d # c
      BY <2>1, <2>2, <2>4, EndingFrame DEF Ending, Idle, Handling
    <2> QED
      BY <2>3, <2>4
  <1>9. ASSUME NEW c \in Conn, WriteEnd(c) PROVE Ending(d)'
    <2>1. TypeOK /\ Ending(d)
      BY DEF Structure
    <2>2. PICK q : /\ q.kind = "write" /\ q.conn = c /\ (q.ok \/ peer[c] = "reset")
                   /\ ready' = ready \cup {q} /\ job' = job /\ stage' = stage
      BY <1>9 DEF WriteEnd, Done
    <2>3. /\ peer' = peer /\ wrote' = wrote /\ echoed' = echoed /\ sess' = sess
          /\ (d # c => pending'[d] = pending[d])
      BY <1>9, <2>1 DEF WriteEnd, netVars, refVars, TypeOK
    <2>4. ~q.ok => Ended(c)
      BY <2>2 DEF Ended
    <2>5. \A r \in ready' : Of(r, d) /\ ~r.ok => Ended(d)
      BY <2>1, <2>2, <2>4 DEF Of, Ending
    <2>6. \A t \in Thread : Handling(t, d)' /\ ~job'[t].ok => Ended(d)
      BY <2>1, <2>2 DEF Ending, Handling
    <2>7. Idle(d)' => Idle(d)
      BY <2>2, <2>3 DEF Idle, Of, Handling
    <2> QED
      BY <2>1, <2>3, <2>5, <2>6, <2>7, EndingFrame
  <1>10. ASSUME NEW t \in Thread, NEW r \in ready, Take(t, r) PROVE Ending(d)'
    <2>1. TypeOK /\ Ending(d)
      BY DEF Structure
    <2>2. /\ ready' = ready \ {r} /\ job' = [job EXCEPT ![t] = r] /\ stage[t] = "idle"
          /\ stage' = [stage EXCEPT ![t] = "call"] /\ pending' = pending
          /\ peer' = peer /\ wrote' = wrote /\ echoed' = echoed /\ sess' = sess
      BY <1>10 DEF Take, netVars
    <2>3. /\ Handling(t, d)' <=> Of(r, d)
          /\ job'[t] = r
          /\ \A u \in Thread : u # t => (Handling(u, d)' <=> Handling(u, d)) /\ job'[u] = job[u]
      BY <2>1, <2>2 DEF Handling, Of, TypeOK
    <2>4. \A q \in ready' : Of(q, d) /\ ~q.ok => Ended(d)
      BY <2>1, <2>2 DEF Ending
    <2>5. \A u \in Thread : Handling(u, d)' /\ ~job'[u].ok => Ended(d)
      BY <2>1, <2>3 DEF Ending
    <2>6. Idle(d)' => Idle(d)
      <3>1. ~Handling(t, d)
        BY <2>2 DEF Handling
      <3>2. Idle(d)' => ~Of(r, d)
        BY <2>3 DEF Idle
      <3> QED
        BY <2>2, <2>3, <3>1, <3>2 DEF Idle
    <2> QED
      BY <2>1, <2>2, <2>4, <2>5, <2>6, EndingFrame
  <1>11. ASSUME NEW t \in Thread, HandleAccept(t) PROVE Ending(d)'
    <2>1. TypeOK /\ Ending(d)
      BY DEF Structure
    <2>2. PICK c \in Conn : c = job[t].conn
      BY <1>11 DEF HandleAccept, InHandler, Structure, CompletionsOK, CompletionOK, Completion
    <2>3. /\ ready' = ready /\ job' = job /\ stage' = [stage EXCEPT ![t] = "return"]
          /\ pending' = [pending EXCEPT ![c] = @ \cup {"read"}]
          /\ sess' = [sess EXCEPT ![c] = "live"]
          /\ peer' = peer /\ wrote' = wrote /\ echoed' = echoed
      BY <1>11, <2>2 DEF HandleAccept, InHandler, DoRead, netVars
    <2>4. \A u \in Thread : Handling(u, d)' <=> Handling(u, d)
      BY <1>11, <2>1, <2>3 DEF HandleAccept, InHandler, Handling, Of, TypeOK
    <2>5. \A u \in Thread : Handling(u, d)' /\ ~job'[u].ok => Ended(d)
      BY <2>1, <2>3, <2>4 DEF Ending
    <2>6. CASE d = c
      <3>1. pending'[d] # {}
        BY <2>1, <2>3, <2>6 DEF TypeOK
      <3> QED
        BY <2>1, <2>3, <2>5, <3>1 DEF Ending, Ended, Idle
    <2>7. CASE d # c
      <3>1. pending'[d] = pending[d] /\ sess'[d] = sess[d]
        BY <2>1, <2>3, <2>7 DEF TypeOK
      <3>2. Idle(d)' => Idle(d)
        BY <2>3, <2>4, <3>1 DEF Idle
      <3> QED
        BY <2>1, <2>3, <2>5, <3>1, <3>2, EndingFrame DEF Ending
    <2> QED
      BY <2>6, <2>7
  <1>12. ASSUME NEW t \in Thread, HandleRead(t) PROVE Ending(d)'
    <2>1. TypeOK /\ Ending(d)
      BY DEF Structure
    <2>2. PICK c \in Conn : c = job[t].conn /\ Handling(t, c)
      BY <1>12 DEF HandleRead, InHandler, Structure, CompletionsOK, CompletionOK, Completion, Handling, Of
    <2>3. /\ ready' = ready /\ job' = job /\ stage' = [stage EXCEPT ![t] = "return"]
          /\ pending' = [pending EXCEPT ![c] = @ \cup {"write"}]
          /\ peer' = peer /\ wrote' = wrote /\ echoed' = echoed /\ sess' = sess
      BY <1>12, <2>2 DEF HandleRead, InHandler, DoWrite, netVars
    <2>4. \A u \in Thread : Handling(u, d)' <=> Handling(u, d) /\ u # t
      BY <2>1, <2>3 DEF Handling, TypeOK
    <2>5. Idle(d)' => Idle(d)
      <3>1. CASE d = c
        BY <2>1, <2>3, <3>1 DEF Idle, TypeOK
      <3>2. CASE d # c
        <4>1. pending'[d] = pending[d]
          BY <2>1, <2>3, <3>2 DEF TypeOK
        <4>2. ~Handling(t, d)
          BY <2>2, <3>2 DEF Handling, Of
        <4> QED
          BY <2>3, <2>4, <4>1, <4>2 DEF Idle
      <3> QED
        BY <3>1, <3>2
    <2>6. \A u \in Thread : Handling(u, d)' /\ ~job'[u].ok => Ended(d)
      BY <2>1, <2>3, <2>4 DEF Ending
    <2> QED
      BY <2>1, <2>3, <2>5, <2>6, EndingFrame DEF Ending
  <1>13. ASSUME NEW t \in Thread, HandleWrite(t) PROVE Ending(d)'
    <2>1. TypeOK /\ Ending(d)
      BY DEF Structure
    <2>2. PICK c \in Conn : c = job[t].conn /\ Handling(t, c)
      BY <1>13 DEF HandleWrite, InHandler, Structure, CompletionsOK, CompletionOK, Completion, Handling, Of
    <2>3. /\ ready' = ready /\ job' = job /\ stage' = [stage EXCEPT ![t] = "return"]
          /\ pending' = [pending EXCEPT ![c] = @ \cup {"read"}]
          /\ peer' = peer /\ wrote' = wrote /\ echoed' = echoed /\ sess' = sess
      BY <1>13, <2>2 DEF HandleWrite, InHandler, DoRead, netVars
    <2>4. \A u \in Thread : Handling(u, d)' <=> Handling(u, d) /\ u # t
      BY <2>1, <2>3 DEF Handling, TypeOK
    <2>5. Idle(d)' => Idle(d)
      <3>1. CASE d = c
        BY <2>1, <2>3, <3>1 DEF Idle, TypeOK
      <3>2. CASE d # c
        <4>1. pending'[d] = pending[d]
          BY <2>1, <2>3, <3>2 DEF TypeOK
        <4>2. ~Handling(t, d)
          BY <2>2, <3>2 DEF Handling, Of
        <4> QED
          BY <2>3, <2>4, <4>1, <4>2 DEF Idle
      <3> QED
        BY <3>1, <3>2
    <2>6. \A u \in Thread : Handling(u, d)' /\ ~job'[u].ok => Ended(d)
      BY <2>1, <2>3, <2>4 DEF Ending
    <2> QED
      BY <2>1, <2>3, <2>5, <2>6, EndingFrame DEF Ending
  <1>14. ASSUME NEW t \in Thread, HandleError(t) PROVE Ending(d)'
    <2>1. TypeOK /\ Ending(d)
      BY DEF Structure
    <2>2. /\ ready' = ready /\ job' = job /\ stage' = [stage EXCEPT ![t] = "return"]
          /\ pending' = pending /\ peer' = peer /\ wrote' = wrote /\ echoed' = echoed /\ sess' = sess
      BY <1>14 DEF HandleError, InHandler, netVars, refVars
    <2>3. job[t].ok = FALSE
      BY <1>14 DEF HandleError, InHandler
    <2>4. \A u \in Thread : Handling(u, d)' <=> Handling(u, d) /\ u # t
      BY <2>1, <2>2 DEF Handling, TypeOK
    <2>5. Handling(t, d) => Ended(d)
      BY <2>1, <2>3 DEF Ending
    <2>6. Idle(d)' => Idle(d) \/ Ended(d)
      BY <2>2, <2>4, <2>5 DEF Idle
    <2>7. \A u \in Thread : Handling(u, d)' /\ ~job'[u].ok => Ended(d)
      BY <2>1, <2>2, <2>4 DEF Ending
    <2> QED
      BY <2>1, <2>2, <2>6, <2>7, EndingFrame DEF Ending
  <1>15. ASSUME NEW t \in Thread, Return(t) PROVE Ending(d)'
    <2>1. TypeOK /\ Ending(d) /\ Ownership(d)
      BY DEF Structure
    <2>2. /\ ready' = ready /\ job' = [job EXCEPT ![t] = None] /\ stage[t] = "return"
          /\ stage' = [stage EXCEPT ![t] = "idle"]
          /\ pending' = pending /\ peer' = peer /\ wrote' = wrote /\ echoed' = echoed
      BY <1>15 DEF Return, netVars
    <2>3. \A u \in Thread : Handling(u, d)' <=> Handling(u, d)
      BY <2>1, <2>2 DEF Handling, TypeOK
    <2>4. Idle(d)' => Idle(d)
      BY <2>2, <2>3 DEF Idle
    <2>5. \A u \in Thread : Handling(u, d)' => job'[u] = job[u]
      BY <2>1, <2>2 DEF Handling, TypeOK
    <2>6. \A u \in Thread : Handling(u, d)' /\ ~job'[u].ok => Ended(d)
      BY <2>1, <2>3, <2>5 DEF Ending
    <2>7. sess'[d] # "none" => sess[d] # "none"
      BY <1>15, <2>1 DEF Return, Ownership
    <2> QED
      BY <2>1, <2>2, <2>4, <2>6, <2>7, EndingFrame DEF Ending
  <1>16. CASE UNCHANGED vars
    BY <1>16 DEF vars, Structure, Streams, Ending, Ended, Idle, Of, Handling,
       TypeOK
  <1> QED
    BY <1>1, <1>2, <1>3, <1>4, <1>5, <1>6, <1>7, <1>8, <1>9, <1>10, <1>11,
       <1>12, <1>13, <1>14, <1>15, <1>16 DEF Next, Clients, Kernel, Pool, Run

-----------------------------------------------------------------------------
(* The invariant *)

\* The constructor of the server establishes the invariant (l. 53-56).
LEMMA InitIInv == Init => IInv
  <1> SUFFICES ASSUME Init PROVE IInv
    OBVIOUS
  <1>1. TypeOK
    BY ConstantsAssumption DEF Init, TypeOK
  <1>2. CompletionsOK /\ AcceptUnique /\ AcceptAlive /\ BacklogDistinct
    BY DEF Init, CompletionsOK, AcceptUnique, AcceptAlive, BacklogDistinct, Accepting
  <1>3. ASSUME NEW c \in Conn PROVE Serial(c) /\ Ownership(c) /\ Arrival(c)
    BY DEF Init, Serial, Ownership, Arrival, Of, Handling, InBacklog, BeingAccepted
  <1>4. ASSUME NEW c \in Conn PROVE Streams(c) /\ Ending(c)
    BY DEF Init, Streams, Ending, Of, Handling
  <1> QED
    BY <1>1, <1>2, <1>3, <1>4 DEF IInv, Structure

\* Every step of clients, kernel and pool keeps it.
LEMMA NextIInv == IInv /\ [Next]_vars => IInv'
  <1> SUFFICES ASSUME IInv, [Next]_vars PROVE IInv'
    OBVIOUS
  <1>1. Structure /\ \A c \in Conn : Streams(c) /\ Ending(c)
    BY DEF IInv
  <1>2. TypeOK' /\ CompletionsOK'
    BY <1>1, TypeStep, CompletionsStep DEF Structure
  <1>3. AcceptUnique' /\ AcceptAlive' /\ BacklogDistinct'
    BY <1>1, AcceptUniqueStep, AcceptAliveStep, BacklogDistinctStep
  <1>4. ASSUME NEW c \in Conn PROVE Serial(c)' /\ Ownership(c)' /\ Arrival(c)'
    BY <1>1, SerialStep, OwnershipStep, ArrivalStep
  <1>5. ASSUME NEW c \in Conn PROVE Streams(c)' /\ Ending(c)'
    BY <1>1, StreamsStep, EndingStep
  <1> QED
    BY <1>2, <1>3, <1>4, <1>5 DEF IInv, Structure

\* Every reachable state satisfies the inductive invariant.
THEOREM Invariance == Spec => []IInv
  BY InitIInv, NextIInv, PTL DEF Spec

-----------------------------------------------------------------------------
(* What follows from it *)

\* The state of the model is always well typed: in particular a write never asks
\* for more bytes than data_ holds.
THEOREM TypeCorrect == Spec => []TypeOK
  <1>1. IInv => TypeOK
    BY DEF IInv, Structure
  <1> QED
    BY <1>1, Invariance, PTL

\* No client ever receives anything but a prefix of what it sent (do_read and
\* do_write), for any number of connections, threads and bytes.
THEOREM Faithful == Spec => []EchoFaithful
  <1>1. IInv => EchoFaithful
    <2> SUFFICES ASSUME IInv, NEW c \in Conn, NEW k \in 1 .. Len(echoed[c])
                 PROVE  k <= Len(wrote[c]) /\ echoed[c][k] = wrote[c][k]
      BY DEF EchoFaithful
    <2>1. Streams(c) /\ TypeOK
      BY DEF IInv, Structure
    <2>2. taken[c] \in Nat /\ Len(echoed[c]) \in Nat /\ Len(wrote[c]) \in Nat
      BY <2>1 DEF TypeOK
    <2> QED
      BY <2>1, <2>2 DEF Streams
  <1> QED
    BY <1>1, Invariance, PTL

\* No two threads, and no thread and the kernel, ever use the buffer of one
\* session at the same time, although there is no strand (l. 24-43, 94-96).
THEOREM SessionsAreSerial == Spec => []SessionSerial
  <1>1. IInv => SessionSerial
    <2> SUFFICES ASSUME IInv, NEW c \in Conn, NEW a \in Actors(c), NEW b \in Actors(c)
                 PROVE  a = b
      BY DEF SessionSerial
    <2>1. Serial(c)
      BY DEF IInv, Structure
    <2> QED
      BY <2>1 DEF Actors, Serial, Handling, Of
  <1> QED
    BY <1>1, Invariance, PTL

\* The session exists whenever an operation, a queued completion or a handler
\* about to run refers to it: capturing self is enough (l. 21, 35).
THEOREM SessionsOutliveTheirUse == Spec => []NoUseAfterFree
  <1>1. IInv => NoUseAfterFree
    <2> SUFFICES ASSUME IInv, NEW c \in Conn, NEW a \in Actors(c)
                 PROVE  sess[c] = "live"
      BY DEF NoUseAfterFree
    <2>1. Ownership(c)
      BY DEF IInv, Structure
    <2> QED
      BY <2>1 DEF Actors, Ownership, Handling, Of
  <1> QED
    BY <1>1, Invariance, PTL

\* The server ends a session only after the client left and, if the client closed
\* cleanly, only when it has echoed every byte (l. 24-31, 38-42).
THEOREM NoSessionIsDropped == Spec => []NoEarlyDrop
  <1>1. IInv => NoEarlyDrop
    <2> SUFFICES ASSUME IInv, NEW c \in Conn, sess[c] = "freed"
                 PROVE  peer[c] = "reset" \/ (peer[c] = "closed" /\ echoed[c] = wrote[c])
      BY DEF NoEarlyDrop
    <2>1. TypeOK /\ Ownership(c) /\ Streams(c) /\ Ending(c)
      BY DEF IInv, Structure
    <2>2. Idle(c)
      BY <2>1 DEF Ownership, Idle
    <2>3. Ended(c)
      BY <2>1, <2>2 DEF Ending
    <2>4. echoed[c] \in Seq(Byte \cup {Junk}) /\ wrote[c] \in Seq(Byte \cup {Junk})
      BY <2>1 DEF TypeOK
    <2>5. Len(echoed[c]) = Len(wrote[c]) => echoed[c] = wrote[c]
      BY <2>1, <2>4, SeqEqual DEF Streams
    <2> QED
      BY <2>3, <2>5 DEF Ended
  <1> QED
    BY <1>1, Invariance, PTL

\* Exactly one accept is in flight at any time, whatever accept returns: the
\* server never stops accepting and never accepts twice at once (l. 59-69).
THEOREM AcceptLoopRuns == Spec => []AcceptLoop
  <1>1. IInv => AcceptLoop
    <2> SUFFICES ASSUME IInv PROVE AcceptLoop
      OBVIOUS
    <2>1. AcceptUnique /\ AcceptAlive
      BY DEF IInv, Structure
    <2>2. \E x : x \in AcceptTokens
      BY <2>1 DEF AcceptAlive, AcceptTokens, Accepting
    <2>3. \A x, y \in AcceptTokens : x = y
      BY <2>1 DEF AcceptUnique, AcceptTokens, Accepting
    <2> QED
      BY <2>2, <2>3 DEF AcceptLoop
  <1> QED
    BY <1>1, Invariance, PTL

\* The asynchronous server implements the abstract echo server: a client's send
\* is its Send, a send of the server its Echo, everything else changes neither
\* stream.
THEOREM Refinement == Spec => ImplementsContract
  <1>1. Init => Contract!Init
    BY DEF Init, Contract!Init
  <1>2. IInv /\ [Next]_vars => [Contract!Next]_(Contract!vars)
    <2> SUFFICES ASSUME IInv, [Next]_vars PROVE [Contract!Next]_(Contract!vars)
      OBVIOUS
    <2>1. TypeOK /\ \A c \in Conn : Streams(c)
      BY DEF IInv, Structure
    <2>2. ASSUME NEW c \in Conn, NEW b \in Byte, ClientWrite(c, b)
          PROVE  Contract!Send(c, b)
      BY <2>2 DEF ClientWrite, Contract!Send
    <2>3. ASSUME NEW c \in Conn, WriteSome(c)
          PROVE  Contract!Echo(c)
      <3>1. PICK p \in Nat, m \in Nat : p = wpos[c] /\ m + p = wlen[c] /\ m > 0
        <4>1. wpos[c] \in Nat /\ wlen[c] \in Nat /\ wpos[c] < wlen[c]
          BY <2>1, <2>3, ConstantsAssumption DEF TypeOK, WriteSome
        <4>2. wlen[c] - wpos[c] \in Nat /\ (wlen[c] - wpos[c]) + wpos[c] = wlen[c]
          BY <4>1
        <4> QED
          BY <4>1, <4>2
      <3>2. wlen[c] - wpos[c] = m
        BY <3>1, <2>1, ConstantsAssumption DEF TypeOK
      <3>3. Owed(c, p, m)
        BY <2>1, <2>3, <3>1, <3>2 DEF Streams, WriteSome
      <3>4. taken[c] \in Nat /\ Len(echoed[c]) \in Nat /\ Len(wrote[c]) \in Nat
            /\ taken[c] <= Len(wrote[c])
        BY <2>1 DEF TypeOK, Streams
      <3>5. Len(echoed[c]) < Len(wrote[c])
        BY <3>1, <3>3, <3>4 DEF Owed
      <3>6. data[c][p + 1] = wrote[c][Len(echoed[c]) + 1]
        BY <3>1, <3>3 DEF Owed
      <3> QED
        BY <2>1, <2>3, <3>1, <3>5, <3>6 DEF WriteSome, Contract!Echo, netVars, TypeOK
    <2>4. ASSUME Next, ~(\E c \in Conn, b \in Byte : ClientWrite(c, b)),
                 ~(\E c \in Conn : WriteSome(c))
          PROVE  UNCHANGED <<wrote, echoed>>
      BY <2>4 DEF Next, Clients, Kernel, Pool, Run, Connect, ClientLeave, AcceptOk,
         AcceptError, ReadSome, ReadEnd, WriteEnd, Take, HandleAccept, HandleRead,
         HandleWrite, HandleError, InHandler, Return, netVars
    <2>5. CASE Next
      BY <2>2, <2>3, <2>4, <2>5 DEF Contract!Next, Contract!vars
    <2>6. CASE UNCHANGED vars
      BY <2>6 DEF vars, Contract!vars
    <2> QED
      BY <2>5, <2>6
  <1> QED
    BY <1>1, <1>2, Invariance, PTL DEF Spec, ImplementsContract, Contract!Spec
=============================================================================
