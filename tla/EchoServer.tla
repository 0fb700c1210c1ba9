----------------------------- MODULE EchoServer -----------------------------
(***************************************************************************)
(* v4/server.cpp: the asynchronous C++ echo server.  A pool of threads all *)
(* runs one io_context.  An asynchronous operation is pending until the    *)
(* kernel completes it; its completion then waits in the queue of the      *)
(* io_context until some thread takes it and calls its handler.            *)
(*                                                                         *)
(* Handlers of one session may run on any thread: nothing but the chain    *)
(* read -> write -> read keeps two of them from touching data_ together,   *)
(* and nothing but the shared_ptr copy "self" that each handler captures   *)
(* keeps the session alive.  Both are modelled, not assumed.               *)
(*                                                                         *)
(* TCP is two append-only streams per connection with a cursor each.       *)
(***************************************************************************)
EXTENDS Integers, Sequences

CONSTANTS Conn,       \* connections the clients may open
          Byte,       \* bytes the clients may send
          Thread,     \* the threads of the pool (l. 94-96)
          MaxLength,  \* capacity of data_ (l. 47)
          MaxStream,  \* bound: bytes a client sends on one connection
          Junk,       \* content of a byte of data_ that was never written
          None        \* no connection / no completion

ASSUME ConstantsAssumption ==
    /\ MaxLength \in Nat \ {0}
    /\ MaxStream \in Nat
    /\ Junk \notin Byte
    /\ None \notin Conn

VARIABLES
    peer,      \* peer[c]: what the client did: absent, open, closed (FIN), reset
    backlog,   \* connections the kernel established, not yet accepted
    wrote,     \* wrote[c]: the bytes client c sent
    taken,     \* taken[c]: how many of them the server's recv returned
    echoed,    \* echoed[c]: the bytes the server's send passed to the kernel
    sess,      \* sess[c]: the session object: none, live, freed
    opRef,     \* opRef[c]: the operations whose handler holds a copy of self
    runRef,    \* runRef[c]: the threads whose current handler holds one
    data,      \* data[c]: the array data_
    pending,   \* pending[c]: the operations of the session the kernel has
    wpos,      \* wpos[c]: bytes of the current async_write already sent
    wlen,      \* wlen[c]: its length
    accepting, \* is an async_accept pending?
    ready,     \* completions queued in the io_context
    job,       \* job[t]: the completion thread t is handling
    stage      \* stage[t]: idle, call (handler to run), return (to be destroyed)

netVars  == <<peer, backlog, wrote>>
bufVars  == <<data, wpos, wlen>>
refVars  == <<sess, opRef, runRef>>
poolVars == <<ready, job, stage>>
vars     == <<peer, backlog, wrote, taken, echoed, sess, opRef, runRef, data,
              pending, wpos, wlen, accepting, ready, job, stage>>

Completion == [kind : {"accept", "read", "write"}, conn : Conn \cup {None},
               ok : BOOLEAN, n : 0 .. MaxLength]

TypeOK ==
    /\ peer \in [Conn -> {"absent", "open", "closed", "reset"}]
    /\ backlog \in Seq(Conn)
    /\ wrote \in [Conn -> Seq(Byte)]
    /\ taken \in [Conn -> Nat]
    /\ echoed \in [Conn -> Seq(Byte \cup {Junk})]
    /\ sess \in [Conn -> {"none", "live", "freed"}]
    /\ opRef \in [Conn -> SUBSET {"read", "write"}]
    /\ runRef \in [Conn -> SUBSET Thread]
    /\ data \in [Conn -> [1 .. MaxLength -> Byte \cup {Junk}]]
    /\ pending \in [Conn -> SUBSET {"read", "write"}]
    /\ wpos \in [Conn -> 0 .. MaxLength]
    /\ wlen \in [Conn -> 0 .. MaxLength]
    /\ accepting \in BOOLEAN
    /\ ready \in SUBSET Completion
    /\ job \in [Thread -> Completion \cup {None}]
    /\ stage \in [Thread -> {"idle", "call", "return"}]

Init ==
    /\ peer = [c \in Conn |-> "absent"]
    /\ backlog = << >>
    /\ wrote = [c \in Conn |-> << >>]
    /\ taken = [c \in Conn |-> 0]
    /\ echoed = [c \in Conn |-> << >>]
    /\ sess = [c \in Conn |-> "none"]
    /\ opRef = [c \in Conn |-> {}]
    /\ runRef = [c \in Conn |-> {}]
    /\ data = [c \in Conn |-> [i \in 1 .. MaxLength |-> Junk]]
    /\ pending = [c \in Conn |-> {}]
    /\ wpos = [c \in Conn |-> 0]
    /\ wlen = [c \in Conn |-> 0]
    /\ accepting = TRUE            \* the constructor calls do_accept (l. 55)
    /\ ready = {}
    /\ job = [t \in Thread |-> None]
    /\ stage = [t \in Thread |-> "idle"]

-----------------------------------------------------------------------------
(* The clients and the network *)

Connect(c) ==
    /\ peer[c] = "absent"
    /\ peer' = [peer EXCEPT ![c] = "open"]
    /\ backlog' = Append(backlog, c)
    /\ UNCHANGED <<wrote, taken, echoed, refVars, bufVars, pending, accepting,
                   poolVars>>

ClientWrite(c, b) ==
    /\ peer[c] = "open"
    /\ Len(wrote[c]) < MaxStream
    /\ wrote' = [wrote EXCEPT ![c] = Append(@, b)]
    /\ UNCHANGED <<peer, backlog, taken, echoed, refVars, bufVars, pending,
                   accepting, poolVars>>

\* The client closes its side (FIN), or the connection breaks (RST): also after
\* a close, when the server still sends to a socket that is gone.
ClientLeave(c, how) ==
    /\ <<peer[c], how>> \in {<<"open", "closed">>, <<"open", "reset">>,
                             <<"closed", "reset">>}
    /\ peer' = [peer EXCEPT ![c] = how]
    /\ UNCHANGED <<backlog, wrote, taken, echoed, refVars, bufVars, pending,
                   accepting, poolVars>>

-----------------------------------------------------------------------------
(* The kernel completes an operation: its completion is queued *)

Done(kind, c, ok, n) ==
    /\ ready' = ready \cup {[kind |-> kind, conn |-> c, ok |-> ok, n |-> n]}
    /\ UNCHANGED <<job, stage>>

AcceptOk ==
    /\ accepting
    /\ backlog # << >>
    /\ accepting' = FALSE
    /\ backlog' = Tail(backlog)
    /\ Done("accept", Head(backlog), TRUE, 0)
    /\ UNCHANGED <<peer, wrote, taken, echoed, refVars, bufVars, pending>>

\* accept fails, for instance because the process is out of descriptors.
AcceptError ==
    /\ accepting
    /\ accepting' = FALSE
    /\ Done("accept", None, FALSE, 0)
    /\ UNCHANGED <<netVars, taken, echoed, refVars, bufVars, pending>>

\* recv returns any number of the available bytes, as the segments arrived, and
\* overwrites the beginning of data_ only.
ReadSome(c) ==
    /\ "read" \in pending[c]
    /\ peer[c] # "reset"
    /\ \E n \in 1 .. MaxLength :
        /\ n <= Len(wrote[c]) - taken[c]
        /\ data' = [data EXCEPT ![c] = [i \in 1 .. MaxLength |->
                      IF i <= n THEN wrote[c][taken[c] + i] ELSE data[c][i]]]
        /\ taken' = [taken EXCEPT ![c] = @ + n]
        /\ Done("read", c, TRUE, n)
    /\ pending' = [pending EXCEPT ![c] = @ \ {"read"}]
    /\ UNCHANGED <<netVars, echoed, refVars, wpos, wlen, accepting>>

\* recv returns 0 (asio::error::eof) or fails.
ReadEnd(c) ==
    /\ "read" \in pending[c]
    /\ \/ peer[c] = "reset"
       \/ peer[c] = "closed" /\ taken[c] = Len(wrote[c])
    /\ Done("read", c, FALSE, 0)
    /\ pending' = [pending EXCEPT ![c] = @ \ {"read"}]
    /\ UNCHANGED <<netVars, taken, echoed, refVars, bufVars, accepting>>

\* async_write sends what is left of the buffer in as many sends as the kernel
\* needs; one byte per step stands for every way to split it.  data_ is read at
\* the moment of the send.
WriteSome(c) ==
    /\ "write" \in pending[c]
    /\ peer[c] # "reset"
    /\ wpos[c] < wlen[c]
    /\ echoed' = [echoed EXCEPT ![c] = Append(@, data[c][wpos[c] + 1])]
    /\ wpos' = [wpos EXCEPT ![c] = @ + 1]
    /\ UNCHANGED <<netVars, taken, refVars, data, wlen, pending, accepting,
                   poolVars>>

WriteEnd(c) ==
    /\ "write" \in pending[c]
    /\ \/ /\ wpos[c] = wlen[c]
          /\ Done("write", c, TRUE, wlen[c])
       \/ /\ peer[c] = "reset"
          /\ wpos[c] < wlen[c]
          /\ Done("write", c, FALSE, wpos[c])
    /\ pending' = [pending EXCEPT ![c] = @ \ {"write"}]
    /\ UNCHANGED <<netVars, taken, echoed, refVars, bufVars, accepting>>

-----------------------------------------------------------------------------
(* The session *)

\* do_read (l. 20-32): async_read_some with a handler that captures self.
DoRead(c) ==
    /\ opRef' = [opRef EXCEPT ![c] = @ \cup {"read"}]
    /\ pending' = [pending EXCEPT ![c] = @ \cup {"read"}]

\* Mutants of DoWrite: a buffer of max_length instead of length; one byte too
\* many; a handler that captures this but not self.
DoWriteWholeBuffer(c, n) ==
    /\ opRef' = [opRef EXCEPT ![c] = @ \cup {"write"}]
    /\ pending' = [pending EXCEPT ![c] = @ \cup {"write"}]
    /\ wpos' = [wpos EXCEPT ![c] = 0]
    /\ wlen' = [wlen EXCEPT ![c] = MaxLength]

DoWriteOneMore(c, n) ==
    /\ opRef' = [opRef EXCEPT ![c] = @ \cup {"write"}]
    /\ pending' = [pending EXCEPT ![c] = @ \cup {"write"}]
    /\ wpos' = [wpos EXCEPT ![c] = 0]
    /\ wlen' = [wlen EXCEPT ![c] = n + 1]

DoWriteWithoutSelf(c, n) ==
    /\ pending' = [pending EXCEPT ![c] = @ \cup {"write"}]
    /\ wpos' = [wpos EXCEPT ![c] = 0]
    /\ wlen' = [wlen EXCEPT ![c] = n]
    /\ UNCHANGED opRef

\* do_write (l. 34-44): async_write of the first n bytes of data_.
DoWrite(c, n) ==
    /\ opRef' = [opRef EXCEPT ![c] = @ \cup {"write"}]
    /\ pending' = [pending EXCEPT ![c] = @ \cup {"write"}]
    /\ wpos' = [wpos EXCEPT ![c] = 0]
    /\ wlen' = [wlen EXCEPT ![c] = n]

-----------------------------------------------------------------------------
(* The threads of the pool *)

\* An idle thread takes a completion.  The captured self moves with the handler.
Take(t, r) ==
    /\ stage[t] = "idle"
    /\ r \in ready
    /\ ready' = ready \ {r}
    /\ job' = [job EXCEPT ![t] = r]
    /\ stage' = [stage EXCEPT ![t] = "call"]
    /\ IF r.conn \in Conn /\ r.kind \in opRef[r.conn]
       THEN /\ opRef' = [opRef EXCEPT ![r.conn] = @ \ {r.kind}]
            /\ runRef' = [runRef EXCEPT ![r.conn] = @ \cup {t}]
       ELSE UNCHANGED <<opRef, runRef>>
    /\ UNCHANGED <<netVars, taken, echoed, sess, bufVars, pending, accepting>>

InHandler(t, kind, ok) ==
    /\ stage[t] = "call"
    /\ job[t].kind = kind
    /\ job[t].ok = ok
    /\ stage' = [stage EXCEPT ![t] = "return"]
    /\ UNCHANGED <<netVars, taken, echoed, data, accepting, ready, job>>

\* Mutant: the accepted socket is dropped without a session.
HandleAcceptLost(t) ==
    /\ InHandler(t, "accept", TRUE)
    /\ UNCHANGED <<refVars, pending, wpos, wlen>>

\* The accept handler (l. 61-63): make_shared<session>(...)->start().
HandleAccept(t) ==
    /\ InHandler(t, "accept", TRUE)
    /\ LET c == job[t].conn IN
        /\ sess' = [sess EXCEPT ![c] = "live"]
        /\ runRef' = [runRef EXCEPT ![c] = @ \cup {t}]
        /\ DoRead(c)
    /\ UNCHANGED <<wpos, wlen>>

\* Mutant: the read handler starts the next read without waiting for the write.
HandleReadAhead(t) ==
    /\ InHandler(t, "read", TRUE)
    /\ LET c == job[t].conn IN
        /\ opRef' = [opRef EXCEPT ![c] = @ \cup {"read", "write"}]
        /\ pending' = [pending EXCEPT ![c] = @ \cup {"read", "write"}]
        /\ wpos' = [wpos EXCEPT ![c] = 0]
        /\ wlen' = [wlen EXCEPT ![c] = job[t].n]
    /\ UNCHANGED <<sess, runRef>>

\* The read handler echoes what it read (l. 24-27).
HandleRead(t) ==
    /\ InHandler(t, "read", TRUE)
    /\ DoWrite(job[t].conn, job[t].n)
    /\ UNCHANGED <<sess, runRef>>

\* Mutant: the write handler does not read again.
HandleWriteStops(t) ==
    /\ InHandler(t, "write", TRUE)
    /\ UNCHANGED <<refVars, pending, wpos, wlen>>

\* The write handler reads again (l. 38-39).
HandleWrite(t) ==
    /\ InHandler(t, "write", TRUE)
    /\ DoRead(job[t].conn)
    /\ UNCHANGED <<sess, runRef, wpos, wlen>>

\* Mutant: a failed read is retried.
HandleErrorRetries(t) ==
    /\ \E kind \in {"accept", "read", "write"} : InHandler(t, kind, FALSE)
    /\ IF job[t].kind = "read" THEN DoRead(job[t].conn) ELSE UNCHANGED <<opRef, pending>>
    /\ UNCHANGED <<sess, runRef, wpos, wlen>>

\* On an error every handler only logs (l. 28, 40, 64).
HandleError(t) ==
    /\ \E kind \in {"accept", "read", "write"} : InHandler(t, kind, FALSE)
    /\ UNCHANGED <<refVars, pending, wpos, wlen>>

\* Mutant: do_accept is called in the branch without error only.
ReturnWithoutReaccept(t) ==
    /\ stage[t] = "return"
    /\ stage' = [stage EXCEPT ![t] = "idle"]
    /\ job' = [job EXCEPT ![t] = None]
    /\ accepting' = (accepting \/ (job[t].kind = "accept" /\ job[t].ok))
    /\ runRef' = [c \in Conn |-> runRef[c] \ {t}]
    /\ sess' = [c \in Conn |->
                  IF runRef[c] = {t} /\ opRef[c] = {}
                  THEN "freed" ELSE sess[c]]
    /\ UNCHANGED <<netVars, taken, echoed, opRef, bufVars, pending, ready>>

\* The handler ends: an accept handler has dropped its temporary shared_ptr and
\* calls do_accept again (l. 67), a session's handler is destroyed with its self.
\* The last copy to go destroys the session and closes its socket.
Return(t) ==
    /\ stage[t] = "return"
    /\ stage' = [stage EXCEPT ![t] = "idle"]
    /\ job' = [job EXCEPT ![t] = None]
    /\ accepting' = (accepting \/ job[t].kind = "accept")
    /\ runRef' = [c \in Conn |-> runRef[c] \ {t}]
    /\ sess' = [c \in Conn |->
                  IF runRef[c] = {t} /\ opRef[c] = {}
                  THEN "freed" ELSE sess[c]]
    /\ UNCHANGED <<netVars, taken, echoed, opRef, bufVars, pending, ready>>

-----------------------------------------------------------------------------
Kernel == \/ AcceptOk
          \/ AcceptError
          \/ \E c \in Conn : ReadSome(c) \/ ReadEnd(c) \/ WriteSome(c) \/ WriteEnd(c)

Clients == \E c \in Conn :
              \/ Connect(c)
              \/ \E b \in Byte : ClientWrite(c, b)
              \/ \E how \in {"closed", "reset"} : ClientLeave(c, how)

Run(t) == \/ HandleAccept(t)
          \/ HandleRead(t)
          \/ HandleWrite(t)
          \/ HandleError(t)
          \/ Return(t)

Pool == \E t \in Thread : Run(t) \/ \E r \in ready : Take(t, r)

Next == Clients \/ Kernel \/ Pool

Spec == Init /\ [][Next]_vars

\* The kernel completes what it can; accept cannot fail for ever while a
\* connection waits; the operating system runs every thread; and the queue of
\* the io_context is FIFO, so a queued completion is not overtaken for ever.
Fairness ==
    /\ SF_vars(AcceptOk)
    /\ \A c \in Conn : /\ WF_vars(ReadSome(c) \/ ReadEnd(c))
                       /\ WF_vars(WriteSome(c) \/ WriteEnd(c))
                       /\ SF_vars(\E t \in Thread, r \in ready :
                                    r.conn = c /\ Take(t, r))
    /\ SF_vars(\E t \in Thread, r \in ready : r.conn = None /\ Take(t, r))
    /\ \A t \in Thread : WF_vars(Run(t))

FairSpec == Spec /\ Fairness

-----------------------------------------------------------------------------
(* Properties *)

\* What may touch data_ and the socket of session c now: an operation the kernel
\* has, a completion about to be handled, a handler about to run.
Actors(c) ==
    {<<"op", k>> : k \in pending[c]}
    \cup {<<"queued", r>> : r \in {q \in ready : q.conn = c /\ q.kind # "accept"}}
    \cup {<<"handler", t>> : t \in {u \in Thread : /\ stage[u] = "call"
                                                   /\ job[u].conn = c
                                                   /\ job[u].kind # "accept"}}

\* Everything that will lead to another do_accept.
AcceptTokens ==
    {<<"op", k>> : k \in IF accepting THEN {"accept"} ELSE {}}
    \cup {<<"queued", r>> : r \in {q \in ready : q.kind = "accept"}}
    \cup {<<"handler", t>> : t \in {u \in Thread : /\ stage[u] # "idle"
                                                   /\ job[u].kind = "accept"}}

\* What the server sends back is a prefix of what the client sent: a read that
\* fills part of data_, or sends split anywhere, never echo a stale byte of the
\* buffer, and no byte is lost, repeated or swapped (l. 20-44).
EchoFaithful ==
    \A c \in Conn : \A k \in 1 .. Len(echoed[c]) :
        k <= Len(wrote[c]) /\ echoed[c][k] = wrote[c][k]

\* With every thread running the same io_context and no strand, at most one
\* actor at a time may use a session's buffer and socket (l. 24-43, 94-96).
SessionSerial == \A c \in Conn : \A a, b \in Actors(c) : a = b

\* A session exists as long as anything will use it: the captured self outlives
\* every operation (l. 21, 35), on whatever thread its handler is destroyed.
NoUseAfterFree == \A c \in Conn : Actors(c) # {} => sess[c] = "live"

\* The server drops a connection only after its client left, and after a clean
\* close only when every byte of the client has been echoed (l. 24-31, 38-42).
NoEarlyDrop ==
    \A c \in Conn : sess[c] = "freed" =>
        \/ peer[c] = "reset"
        \/ peer[c] = "closed" /\ echoed[c] = wrote[c]

\* There is always exactly one accept in flight: failed accepts do not end the
\* loop and accepted connections do not fork it (l. 59-69); so the io_context
\* never runs out of work and its threads never leave run().
AcceptLoop == \E x \in AcceptTokens : AcceptTokens = {x}

\* The server implements the contract of an echo server.
Contract == INSTANCE EchoContract WITH sent <- wrote
ImplementsContract == Contract!Spec

\* Every established connection gets a session.
Accepted == \A c \in Conn : peer[c] # "absent" ~> sess[c] # "none"

\* Every byte a client sends comes back, unless the connection breaks.
EveryByteEchoed ==
    \A c \in Conn : \A k \in 1 .. MaxStream :
        Len(wrote[c]) >= k ~> (Len(echoed[c]) >= k \/ peer[c] = "reset")

\* A session whose client left is destroyed: no copy of self is kept by a cycle
\* or by an operation that never ends.
Released == \A c \in Conn : peer[c] \in {"closed", "reset"} ~> sess[c] = "freed"
=============================================================================
