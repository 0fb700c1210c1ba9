-------------------------- MODULE EchoServersProofs --------------------------
(***************************************************************************)
(* Safety of the servers in Go and Python for any number of connections,   *)
(* any length of reads and streams, and any limit of asyncio's buffer.     *)
(***************************************************************************)
EXTENDS EchoServers, SequenceTheorems, TLAPS

-----------------------------------------------------------------------------
(* The inductive invariant, in parts *)

\* What is echoed and then what is held are the first bytes of what was taken.
Streams(c) ==
    /\ Len(wrote[c]) <= MaxStream
    /\ taken[c] <= Len(wrote[c])
    /\ Len(echoed[c]) + Len(held[c]) <= taken[c]
    /\ \A k \in 1 .. Len(echoed[c]) : echoed[c][k] = wrote[c][k]
    /\ \A k \in 1 .. Len(held[c]) : held[c][k] = wrote[c][Len(echoed[c]) + k]

\* The second byte of a character follows the first, and nothing else does.
Characters(c) ==
    \A k \in 1 .. Len(wrote[c]) :
        wrote[c][k] = "trail" <=> k > 1 /\ wrote[c][k - 1] = "lead"

\* Every byte the server took is echoed or held.
Whole(c) == Len(echoed[c]) + Len(held[c]) = taken[c]

\* The client left, and what it is owed is echoed or held unless the connection broke.
Gone(c) ==
    \/ peer[c] = "reset"
    \/ peer[c] = "closed" /\ taken[c] = Len(wrote[c]) /\ Whole(c)

\* What the state of the handler says of the streams.
Handled(c) ==
    /\ pc[c] = "none" => taken[c] = 0
    /\ pc[c] = "serve" => Whole(c) /\ ~CutCharacter(c)
    /\ pc[c] = "closing" => lang = "py" /\ (Gone(c) \/ CutCharacter(c))
    /\ pc[c] = "closed" => held[c] = << >> /\ (Gone(c) \/ CutCharacter(c))

ConnInv(c) == Streams(c) /\ Characters(c) /\ Handled(c)

IInv == TypeOK /\ \A c \in Conn : ConnInv(c)

-----------------------------------------------------------------------------
(* Lemmas *)

\* The type of one connection.
LEMMA TypeOf ==
  ASSUME TypeOK, NEW c \in Conn
  PROVE  /\ lang \in {"go", "py"}
         /\ peer[c] \in {"absent", "open", "closed", "reset"}
         /\ wrote[c] \in Seq(Byte) /\ Len(wrote[c]) \in Nat
         /\ taken[c] \in 0 .. MaxStream /\ taken[c] \in Nat
         /\ echoed[c] \in Seq(Byte) /\ Len(echoed[c]) \in Nat
         /\ pc[c] \in {"none", "serve", "closing", "closed"}
         /\ held[c] \in Seq(Byte) /\ Len(held[c]) \in Nat
         /\ Len(held[c]) <= MaxLength + (IF lang = "py" THEN HighWater ELSE 0)
  BY BufferAssumption DEF TypeOK

\* A step of connection d leaves the other connections alone.
Same(d) ==
    /\ peer'[d] = peer[d] /\ wrote'[d] = wrote[d] /\ taken'[d] = taken[d]
    /\ echoed'[d] = echoed[d] /\ pc'[d] = pc[d] /\ held'[d] = held[d]

\* The invariant holds of every connection if it holds of the one that moved.
LEMMA Frame ==
  ASSUME IInv, NEW c \in Conn, lang' = lang, TypeOK', ConnInv(c)',
         \A d \in Conn \ {c} : Same(d)
  PROVE  IInv'
  <1>1. ASSUME NEW d \in Conn, Same(d)
        PROVE  ConnInv(d)'
    <2>1. ConnInv(d)
      BY DEF IInv
    <2>2. Streams(d)'
      BY <1>1, <2>1 DEF Same, ConnInv, Streams
    <2>3. Characters(d)'
      BY <1>1, <2>1 DEF Same, ConnInv, Characters
    <2>4. Handled(d)'
      <3>1. /\ (Whole(d) <=> Whole(d)') /\ (Gone(d) <=> Gone(d)')
            /\ (CutCharacter(d) <=> CutCharacter(d)')
        BY <1>1 DEF Same, Whole, Gone, CutCharacter
      <3> QED
        BY <1>1, <2>1, <3>1 DEF Same, ConnInv, Handled
    <2> QED
      BY <2>2, <2>3, <2>4 DEF ConnInv
  <1> QED
    BY <1>1 DEF IInv

\* Positions of what is echoed and held, in what was written.
LEMMA Bounds ==
  ASSUME NEW e \in Nat, NEW h \in Nat, NEW t \in Nat, NEW n \in Nat, e + h <= t, t <= n
  PROVE  /\ \A k \in 1 .. e : k \in 1 .. n
         /\ \A k \in 1 .. h : e + k \in 1 .. n
  OBVIOUS

\* Sums of lengths, before and after m more bytes are taken.
LEMMA Sums ==
  ASSUME NEW e \in Nat, NEW h \in Nat, NEW t \in Nat, NEW m \in Nat, e + h <= t
  PROVE  /\ e + h <= t + m
         /\ e + h = t => /\ e + (h + m) = t + m
                        /\ e + (h + m) <= t + m
                        /\ \A i \in Nat : t + i = e + (h + i)
         /\ t = 0 => e = 0 /\ h = 0 /\ e + h = t
  OBVIOUS

\* The elements of a concatenation.
LEMMA Concatenated ==
  ASSUME NEW S, NEW a \in Seq(S), NEW b \in Seq(S)
  PROVE  /\ a \o b \in Seq(S)
         /\ Len(a \o b) = Len(a) + Len(b)
         /\ \A k \in 1 .. Len(a) : (a \o b)[k] = a[k]
         /\ \A k \in 1 .. Len(b) : (a \o b)[Len(a) + k] = b[k]
  OBVIOUS

\* What a read returns: the bytes that follow those taken, at most MaxLength.
LEMMA Chunk ==
  ASSUME TypeOK, NEW c \in Conn, taken[c] <= Len(wrote[c]), NEW chunk \in Chunks(c)
  PROVE  /\ chunk \in Seq(Byte)
         /\ Len(chunk) \in 1 .. MaxLength
         /\ taken[c] + Len(chunk) <= Len(wrote[c])
         /\ \A i \in 1 .. Len(chunk) : chunk[i] = wrote[c][taken[c] + i]
  <1> DEFINE t == taken[c]
             w == wrote[c]
  <1>1. t \in Nat /\ w \in Seq(Byte) /\ Len(w) \in Nat /\ MaxLength \in Nat
    BY TypeOf, BufferAssumption
  <1>2. PICK n \in 1 .. IF Len(w) - t < MaxLength THEN Len(w) - t ELSE MaxLength :
           chunk = SubSeq(w, t + 1, t + n)
    BY DEF Chunks
  <1>3. n \in 1 .. MaxLength /\ t + n <= Len(w)
    BY <1>1, <1>2
  <1> HIDE DEF t, w
  <1>4. /\ SubSeq(w, t + 1, t + n) \in Seq(Byte)
        /\ Len(SubSeq(w, t + 1, t + n)) = n
        /\ \A i \in 1 .. n : SubSeq(w, t + 1, t + n)[i] = w[t + i]
    BY <1>1, <1>3
  <1> QED
    BY <1>2, <1>3, <1>4 DEF t, w

-----------------------------------------------------------------------------
(* The clients *)

\* A connection is opened: the server has not seen it yet.
LEMMA ConnectStep ==
  ASSUME IInv, NEW c \in Conn, Connect(c), lang' = lang
  PROVE  IInv'
  <1> USE DEF Connect
  <1>1. TypeOK /\ ConnInv(c)
    BY DEF IInv
  <1>2. TypeOK'
    BY <1>1 DEF TypeOK
  <1>3. Streams(c)' /\ Characters(c)'
    BY <1>1 DEF ConnInv, Streams, Characters
  <1>4. Handled(c)'
    BY <1>1 DEF ConnInv, Handled, Whole, Gone, CutCharacter
  <1>5. \A d \in Conn \ {c} : Same(d)
    BY <1>1 DEF Same, TypeOK
  <1> QED
    BY <1>2, <1>3, <1>4, <1>5, Frame DEF ConnInv

\* A client that leaves keeps what is owed to it as it was.
LEMMA ClientLeaveStep ==
  ASSUME IInv, NEW c \in Conn, NEW how, ClientLeave(c, how), lang' = lang,
         how \in {"closed", "reset"}
  PROVE  IInv'
  <1> USE DEF ClientLeave
  <1>1. TypeOK /\ ConnInv(c)
    BY DEF IInv
  <1>2. TypeOK' /\ peer'[c] = how
    BY <1>1 DEF TypeOK
  <1>3. Streams(c)' /\ Characters(c)'
    BY <1>1 DEF ConnInv, Streams, Characters
  <1>4. Gone(c) => Gone(c)'
    BY <1>1, <1>2 DEF Gone, Whole
  <1>5. Handled(c)'
    BY <1>1, <1>4 DEF ConnInv, Handled, Whole, CutCharacter
  <1>6. \A d \in Conn \ {c} : Same(d)
    BY <1>1 DEF Same, TypeOK
  <1> QED
    BY <1>2, <1>3, <1>5, <1>6, Frame DEF ConnInv

\* A byte is sent behind the others; whole characters stay whole.
LEMMA ClientWriteStep ==
  ASSUME IInv, NEW c \in Conn, NEW b \in Byte, ClientWrite(c, b), lang' = lang
  PROVE  IInv'
  <1> DEFINE w == wrote[c]
             n == Len(wrote[c])
  <1>1. TypeOK /\ ConnInv(c)
    BY DEF IInv
  <1>2. w \in Seq(Byte) /\ n \in Nat /\ MaxStream \in Nat /\ taken[c] \in Nat
        /\ Len(echoed[c]) \in Nat /\ Len(held[c]) \in Nat
    BY <1>1, TypeOf, BufferAssumption
  <1>3. /\ wrote'[c] = Append(w, b)
        /\ wrote' = [wrote EXCEPT ![c] = Append(w, b)]
        /\ \A d \in Conn \ {c} : wrote'[d] = wrote[d]
    BY <1>1 DEF ClientWrite, TypeOK
  <1>4. /\ Append(w, b) \in Seq(Byte)
        /\ Len(Append(w, b)) = n + 1
        /\ Append(w, b)[n + 1] = b
        /\ \A k \in 1 .. n : Append(w, b)[k] = w[k]
    BY <1>2
  <1>5. TypeOK'
    BY <1>1, <1>3, <1>4 DEF ClientWrite, TypeOK
  <1>6. Streams(c)'
    <2>1. n < MaxStream
      BY DEF ClientWrite
    <2>2. taken[c] <= n /\ Len(echoed[c]) + Len(held[c]) <= taken[c]
      BY <1>1 DEF ConnInv, Streams
    <2>3. /\ \A k \in 1 .. Len(echoed[c]) : k \in 1 .. n
          /\ \A k \in 1 .. Len(held[c]) : Len(echoed[c]) + k \in 1 .. n
      BY <1>2, <2>2, Bounds
    <2>4. n + 1 <= MaxStream /\ taken[c] <= n + 1
      BY <1>2, <2>1, <2>2
    <2> QED
      BY <1>1, <1>3, <1>4, <2>2, <2>3, <2>4 DEF ConnInv, Streams, ClientWrite
  <1>7. Characters(c)'
    <2> SUFFICES ASSUME NEW k \in 1 .. n + 1
                 PROVE  Append(w, b)[k] = "trail" <=> k > 1 /\ Append(w, b)[k - 1] = "lead"
      BY <1>3, <1>4 DEF Characters
    <2>1. CASE k \in 1 .. n
      <3>1. k > 1 => k - 1 \in 1 .. n
        BY <1>2, <2>1
      <3> QED
        BY <1>1, <1>4, <2>1, <3>1 DEF ConnInv, Characters
    <2>2. CASE k = n + 1
      <3>1. b = "trail" <=> w # << >> /\ w[n] = "lead"
        BY DEF ClientWrite
      <3>2. /\ w # << >> <=> k > 1
            /\ k - 1 = n
            /\ k > 1 => n \in 1 .. n
        BY <1>2, <2>2, EmptySeq
      <3> QED
        BY <1>4, <2>2, <3>1, <3>2
    <2> QED
      BY <1>2, <2>1, <2>2
  <1>8. Handled(c)'
    <2>1. taken[c] <= n
      BY <1>1 DEF ConnInv, Streams
    <2>2. CutCharacter(c) <=> CutCharacter(c)'
      <3>1. taken[c] > 0 => taken[c] \in 1 .. n
        BY <1>2, <2>1
      <3> QED
        BY <1>3, <1>4, <3>1 DEF CutCharacter, ClientWrite
    <2>3. peer[c] = "open" /\ ~Gone(c)
      BY DEF ClientWrite, Gone
    <2>4. Whole(c) <=> Whole(c)'
      BY DEF Whole, ClientWrite
    <2> QED
      BY <1>1, <2>2, <2>3, <2>4 DEF ConnInv, Handled, ClientWrite
  <1>9. \A d \in Conn \ {c} : Same(d)
    BY <1>3 DEF Same, ClientWrite
  <1> QED
    BY <1>5, <1>6, <1>7, <1>8, <1>9, Frame DEF ConnInv

-----------------------------------------------------------------------------
(* The steps of the handlers *)

\* Nothing of a stream is read before its connection is accepted.
LEMMA AcceptStep ==
  ASSUME IInv, NEW c \in Conn, Accepts(c), lang' = lang
  PROVE  IInv'
  <1> USE DEF Accepts
  <1>1. TypeOK /\ ConnInv(c)
    BY DEF IInv
  <1>2. TypeOK' /\ pc'[c] = "serve"
    BY <1>1 DEF TypeOK
  <1>3. Streams(c)' /\ Characters(c)'
    BY <1>1 DEF ConnInv, Streams, Characters
  <1>4. Handled(c)'
    <2>1. taken[c] = 0 /\ Len(echoed[c]) + Len(held[c]) <= 0
      BY <1>1 DEF ConnInv, Handled, Streams
    <2>2. Len(echoed[c]) \in Nat /\ Len(held[c]) \in Nat
      BY <1>1, TypeOf
    <2>3. Len(echoed[c]) + Len(held[c]) = 0
      <3> DEFINE e == Len(echoed[c])
                 h == Len(held[c])
      <3>1. e \in Nat /\ h \in Nat /\ e + h <= 0
        BY <2>1, <2>2
      <3> HIDE DEF e, h
      <3>2. e + h = 0
        BY <3>1
      <3> QED
        BY <3>2 DEF e, h
    <2>4. Whole(c)'
      BY <2>1, <2>3 DEF Whole
    <2>5. ~CutCharacter(c)'
      BY <2>1 DEF CutCharacter
    <2> QED
      BY <1>2, <2>4, <2>5 DEF Handled
  <1>5. \A d \in Conn \ {c} : Same(d)
    BY <1>1 DEF Same, TypeOK
  <1> QED
    BY <1>2, <1>3, <1>4, <1>5, Frame DEF ConnInv

\* A chunk is read and held behind what is held already.
LEMMA ReadStep ==
  ASSUME IInv, NEW c \in Conn, NEW chunk \in Chunks(c), lang' = lang,
         pc[c] = "serve", Reads(c, chunk),
         held' = [held EXCEPT ![c] = @ \o chunk],
         UNCHANGED <<peer, wrote, echoed, pc>>,
         Len(held[c]) <= IF lang = "py" THEN HighWater ELSE 0,
         lang = "py" => chunk[Len(chunk)] # "lead"
  PROVE  IInv'
  <1> DEFINE m == Len(chunk)
             e == Len(echoed[c])
             h == Len(held[c])
             t == taken[c]
             n == Len(wrote[c])
  <1>1. TypeOK /\ ConnInv(c)
    BY DEF IInv
  <1>2. t <= n /\ n <= MaxStream /\ e + h <= t /\ e + h = t
    BY <1>1 DEF ConnInv, Streams, Handled, Whole
  <1>3. /\ chunk \in Seq(Byte) /\ m \in 1 .. MaxLength
        /\ t + m <= n
        /\ \A i \in 1 .. m : chunk[i] = wrote[c][t + i]
    BY <1>1, <1>2, Chunk
  <1>4. e \in Nat /\ h \in Nat /\ t \in Nat /\ n \in Nat /\ m \in Nat
        /\ held[c] \in Seq(Byte) /\ MaxStream \in Nat /\ MaxLength \in Nat
    BY <1>1, <1>3, TypeOf, BufferAssumption
  <1>sum. /\ e + (h + m) <= t + m /\ e + (h + m) = t + m
          /\ \A i \in Nat : t + i = e + (h + i)
    <2> HIDE DEF m, e, h, t, n
    <2> QED
      BY <1>2, <1>4
  <1>5. /\ held[c] \o chunk \in Seq(Byte)
        /\ Len(held[c] \o chunk) = h + m
        /\ \A k \in 1 .. h : (held[c] \o chunk)[k] = held[c][k]
        /\ \A k \in 1 .. m : (held[c] \o chunk)[h + k] = chunk[k]
    BY <1>3, <1>4, Concatenated
  <1>6. /\ held'[c] = held[c] \o chunk
        /\ taken'[c] = t + m
        /\ \A d \in Conn \ {c} : held'[d] = held[d] /\ taken'[d] = taken[d]
    BY <1>1 DEF Reads, TypeOK
  <1>7. TypeOK'
    <2>1. t + m \in 0 .. MaxStream
      BY <1>2, <1>3, <1>4
    <2>2. taken' \in [Conn -> 0 .. MaxStream]
      BY <1>1, <2>1 DEF TypeOK, Reads
    <2>3. held' \in [Conn -> Seq(Byte)]
      BY <1>1, <1>5 DEF TypeOK
    <2>4. h + m <= MaxLength + (IF lang = "py" THEN HighWater ELSE 0)
      BY <1>3, <1>4, HighWaterAssumption
    <2>5. \A d \in Conn :
             Len(held'[d]) <= MaxLength + (IF lang = "py" THEN HighWater ELSE 0)
      BY <1>1, <1>5, <1>6, <2>4 DEF TypeOK
    <2> QED
      BY <1>1, <2>2, <2>3, <2>5 DEF TypeOK
  <1>8. Streams(c)'
    <2>1. \A k \in 1 .. h + m : (held[c] \o chunk)[k] = wrote[c][e + k]
      <3> TAKE k \in 1 .. h + m
      <3>1. CASE k \in 1 .. h
        BY <1>1, <1>5, <3>1 DEF ConnInv, Streams
      <3>2. CASE k \notin 1 .. h
        <4>1. PICK i \in 1 .. m : k = h + i
          <5>1. k - h \in 1 .. m /\ k = h + (k - h)
            BY <1>4, <3>2
          <5> QED
            BY <5>1
        <4>2. t + i = e + k
          <5>1. i \in Nat
            BY <4>1
          <5> QED
            BY <1>sum, <4>1, <5>1
        <4> QED
          BY <1>3, <1>5, <4>1, <4>2
      <3> QED
        BY <3>1, <3>2
    <2> QED
      BY <1>sum, <1>1, <1>2, <1>3, <1>5, <1>6, <2>1 DEF ConnInv, Streams
  <1>9. Characters(c)'
    BY <1>1 DEF ConnInv, Characters
  <1>10. Handled(c)'
    <2>1. Whole(c)'
      BY <1>sum, <1>5, <1>6 DEF Whole
    <2>2. ~CutCharacter(c)'
      <3>1. m \in 1 .. m
        BY <1>3
      <3> QED
        BY <1>3, <1>6, <3>1 DEF CutCharacter
    <2> QED
      BY <2>1, <2>2 DEF Handled
  <1>11. \A d \in Conn \ {c} : Same(d)
    BY <1>6 DEF Same
  <1> QED
    BY <1>7, <1>8, <1>9, <1>10, <1>11, Frame DEF ConnInv

\* A chunk that does not decode ends inside a character, and is not held.
LEMMA CutStep ==
  ASSUME IInv, NEW c \in Conn, NEW chunk \in Chunks(c), lang' = lang, lang = "py",
         pc[c] = "serve", Reads(c, chunk), ~Py!Decodes(chunk),
         pc' = [pc EXCEPT ![c] = "closing"],
         UNCHANGED <<peer, wrote, echoed, held>>
  PROVE  IInv'
  <1> DEFINE m == Len(chunk)
             t == taken[c]
             n == Len(wrote[c])
  <1>1. TypeOK /\ ConnInv(c)
    BY DEF IInv
  <1>2. t <= n /\ n <= MaxStream
    BY <1>1 DEF ConnInv, Streams
  <1>3. /\ chunk \in Seq(Byte) /\ m \in 1 .. MaxLength
        /\ t + m <= n
        /\ \A i \in 1 .. m : chunk[i] = wrote[c][t + i]
    BY <1>1, <1>2, Chunk
  <1>4. t \in Nat /\ n \in Nat /\ m \in Nat /\ MaxStream \in Nat /\ MaxLength \in Nat
        /\ Len(echoed[c]) \in Nat /\ Len(held[c]) \in Nat
    BY <1>1, <1>3, TypeOf, BufferAssumption
  <1>5. /\ taken'[c] = t + m
        /\ pc'[c] = "closing"
        /\ \A d \in Conn \ {c} : taken'[d] = taken[d] /\ pc'[d] = pc[d]
    BY <1>1 DEF Reads, TypeOK
  <1>6. TypeOK'
    <2>1. t + m \in 0 .. MaxStream
      BY <1>2, <1>3, <1>4
    <2> QED
      BY <1>1, <2>1 DEF TypeOK, Reads
  <1>7. Streams(c)'
    <2>1. Len(echoed[c]) + Len(held[c]) <= t
      BY <1>1 DEF ConnInv, Streams
    <2>2. Len(echoed[c]) + Len(held[c]) <= t + m
      BY <1>4, <2>1, Sums
    <2> QED
      BY <1>1, <1>3, <1>5, <2>2 DEF ConnInv, Streams
  <1>8. Characters(c)'
    BY <1>1 DEF ConnInv, Characters
  <1>9. wrote[c][t + m] = "lead"
    <2>1. 1 \in 1 .. m /\ m \in 1 .. m /\ t + 1 \in 1 .. n
      BY <1>3, <1>4
    <2>2. chunk[1] # "trail"
      <3> SUFFICES ASSUME chunk[1] = "trail"
                   PROVE  FALSE
        OBVIOUS
      <3>1. t + 1 > 1 /\ wrote[c][(t + 1) - 1] = "lead"
        BY <1>1, <1>3, <2>1 DEF ConnInv, Characters
      <3>2. t > 0 /\ wrote[c][t] = "lead"
        BY <1>4, <3>1
      <3> QED
        BY <1>1, <3>2 DEF ConnInv, Handled, CutCharacter
    <2>3. chunk[m] = "lead"
      BY <1>3, <2>2 DEF Py!Decodes
    <2> QED
      BY <1>3, <2>1, <2>3
  <1>10. Handled(c)'
    <2>1. CutCharacter(c)'
      BY <1>3, <1>4, <1>5, <1>9 DEF CutCharacter
    <2> QED
      BY <1>5, <2>1 DEF Handled
  <1>11. \A d \in Conn \ {c} : Same(d)
    BY <1>5 DEF Same
  <1> QED
    BY <1>6, <1>7, <1>8, <1>10, <1>11, Frame DEF ConnInv

\* The kernel takes the first byte held: it is the next byte to echo.
LEMMA SendsStep ==
  ASSUME IInv, NEW c \in Conn, SendsByte(c), lang' = lang
  PROVE  IInv'
  <1> DEFINE e == Len(echoed[c])
             h == Len(held[c])
             b == Head(held[c])
             t == taken[c]
  <1>1. TypeOK /\ ConnInv(c)
    BY DEF IInv
  <1>2. /\ held[c] \in Seq(Byte) /\ held[c] # << >> /\ echoed[c] \in Seq(Byte)
        /\ e \in Nat /\ h \in Nat /\ t \in Nat
    BY <1>1, TypeOf DEF SendsByte
  <1>3. /\ h > 0 /\ b = held[c][1] /\ b \in Byte
        /\ Tail(held[c]) \in Seq(Byte) /\ Len(Tail(held[c])) = h - 1
        /\ \A k \in 1 .. h - 1 : Tail(held[c])[k] = held[c][k + 1]
    BY <1>2, EmptySeq, HeadTailProperties
  <1>4. /\ Append(echoed[c], b) \in Seq(Byte)
        /\ Len(Append(echoed[c], b)) = e + 1
        /\ Append(echoed[c], b)[e + 1] = b
        /\ \A k \in 1 .. e : Append(echoed[c], b)[k] = echoed[c][k]
    BY <1>2, <1>3
  <1>5. /\ echoed'[c] = Append(echoed[c], b)
        /\ held'[c] = Tail(held[c])
        /\ \A d \in Conn \ {c} : echoed'[d] = echoed[d] /\ held'[d] = held[d]
    BY <1>1 DEF SendsByte, TypeOK
  <1>sum. /\ (e + 1) + (h - 1) = e + h
          /\ \A k \in 1 .. h - 1 : k + 1 \in 1 .. h /\ (e + 1) + k = e + (k + 1)
          /\ 1 \in 1 .. h
          /\ \A k \in 1 .. e + 1 : k \in 1 .. e \/ k = e + 1
    <2>1. e \in Nat /\ h \in Nat /\ h > 0
      BY <1>2, <1>3
    <2> HIDE DEF e, h
    <2> QED
      BY <2>1
  <1>6. TypeOK'
    <2>1. echoed' \in [Conn -> Seq(Byte)] /\ held' \in [Conn -> Seq(Byte)]
      BY <1>1, <1>3, <1>4 DEF TypeOK, SendsByte
    <2>2. Len(Tail(held[c])) <= h
      BY <1>2, <1>3
    <2>3. Len(Tail(held[c])) <= MaxLength + (IF lang = "py" THEN HighWater ELSE 0)
      <3> DEFINE r == Len(Tail(held[c]))
                 m == MaxLength + (IF lang = "py" THEN HighWater ELSE 0)
      <3>1. r \in Nat /\ h \in Nat /\ m \in Nat /\ r <= h /\ h <= m
        BY <1>1, <1>2, <1>3, <2>2, TypeOf, BufferAssumption, HighWaterAssumption
      <3> HIDE DEF r, m, h
      <3>2. r <= m
        BY <3>1
      <3> QED
        BY <3>2 DEF r, m
    <2>4. \A d \in Conn :
             Len(held'[d]) <= MaxLength + (IF lang = "py" THEN HighWater ELSE 0)
      BY <1>1, <1>5, <2>3 DEF TypeOK
    <2> QED
      BY <1>1, <2>1, <2>4 DEF TypeOK, SendsByte
  <1>7. Streams(c)'
    <2>1. e + h <= t /\ wrote[c][e + 1] = b
      BY <1>1, <1>3, <1>sum DEF ConnInv, Streams
    <2>2. \A k \in 1 .. e + 1 : Append(echoed[c], b)[k] = wrote[c][k]
      BY <1>1, <1>4, <1>sum, <2>1 DEF ConnInv, Streams
    <2>3. \A k \in 1 .. h - 1 : Tail(held[c])[k] = wrote[c][(e + 1) + k]
      <3> TAKE k \in 1 .. h - 1
      <3>1. k + 1 \in 1 .. h /\ (e + 1) + k = e + (k + 1)
        BY <1>sum
      <3>2. held[c][k + 1] = wrote[c][e + (k + 1)]
        BY <1>1, <3>1 DEF ConnInv, Streams
      <3> QED
        BY <1>3, <3>1, <3>2
    <2>4. (e + 1) + (h - 1) <= t
      BY <1>sum, <2>1
    <2>5. /\ Len(echoed'[c]) = e + 1 /\ Len(held'[c]) = h - 1
          /\ wrote'[c] = wrote[c] /\ taken'[c] = t
      BY <1>3, <1>4, <1>5 DEF SendsByte
    <2>6. Len(wrote[c]) <= MaxStream /\ t <= Len(wrote[c])
      BY <1>1 DEF ConnInv, Streams
    <2>7. \A k \in 1 .. Len(echoed'[c]) : echoed'[c][k] = wrote'[c][k]
      BY <1>5, <2>2, <2>5
    <2>8. \A k \in 1 .. Len(held'[c]) : held'[c][k] = wrote'[c][Len(echoed'[c]) + k]
      BY <1>5, <2>3, <2>5
    <2> QED
      BY <2>4, <2>5, <2>6, <2>7, <2>8 DEF Streams
  <1>8. Characters(c)'
    BY <1>1 DEF ConnInv, Characters, SendsByte
  <1>9. Handled(c)'
    <2>1. Whole(c) => Whole(c)'
      BY <1>3, <1>4, <1>5, <1>sum DEF Whole, SendsByte
    <2>2. /\ Gone(c) => Gone(c)'
          /\ CutCharacter(c) <=> CutCharacter(c)'
      BY <2>1 DEF Gone, CutCharacter, SendsByte
    <2> QED
      BY <1>1, <2>1, <2>2 DEF ConnInv, Handled, SendsByte
  <1>10. \A d \in Conn \ {c} : Same(d)
    BY <1>5 DEF Same, SendsByte
  <1> QED
    BY <1>6, <1>7, <1>8, <1>9, <1>10, Frame DEF ConnInv

\* A connection is dropped with what is held, and nothing more is taken from it.
LEMMA ClosesStep ==
  ASSUME IInv, NEW c \in Conn, Closes(c), lang' = lang,
         \/ peer[c] = "reset"
         \/ held[c] = << >> /\ (Gone(c) \/ CutCharacter(c))
  PROVE  IInv'
  <1> DEFINE e == Len(echoed[c])
             h == Len(held[c])
             t == taken[c]
  <1>1. TypeOK /\ ConnInv(c)
    BY DEF IInv
  <1>2. /\ pc'[c] = "closed" /\ held'[c] = << >>
        /\ \A d \in Conn \ {c} : pc'[d] = pc[d] /\ held'[d] = held[d]
    BY <1>1 DEF Closes, TypeOK
  <1>3. << >> \in Seq(Byte) /\ Len(<< >>) = 0
    OBVIOUS
  <1>4. TypeOK'
    <2>1. pc' \in [Conn -> {"none", "serve", "closing", "closed"}]
          /\ held' \in [Conn -> Seq(Byte)]
      BY <1>1, <1>3 DEF TypeOK, Closes
    <2>2. 0 <= MaxLength + (IF lang = "py" THEN HighWater ELSE 0)
      BY BufferAssumption, HighWaterAssumption
    <2>3. \A d \in Conn :
             Len(held'[d]) <= MaxLength + (IF lang = "py" THEN HighWater ELSE 0)
      BY <1>1, <1>2, <1>3, <2>2 DEF TypeOK
    <2> QED
      BY <1>1, <2>1, <2>3 DEF TypeOK, Closes
  <1>5. Streams(c)'
    <2>1. e \in Nat /\ h \in Nat /\ t \in Nat /\ e + h <= t
      BY <1>1, TypeOf DEF ConnInv, Streams
    <2>2. e + 0 <= t
      <3> HIDE DEF e, h, t
      <3> QED
        BY <2>1
    <2>3. \A k \in 1 .. 0 : << >>[k] = wrote[c][e + k]
      OBVIOUS
    <2> QED
      BY <1>1, <1>2, <1>3, <2>2, <2>3 DEF ConnInv, Streams, Closes
  <1>6. Characters(c)'
    BY <1>1 DEF ConnInv, Characters, Closes
  <1>7. Handled(c)'
    <2>1. CASE peer[c] = "reset"
      BY <1>2, <2>1 DEF Handled, Gone, Closes
    <2>2. CASE held[c] = << >> /\ (Gone(c) \/ CutCharacter(c))
      <3>1. held'[c] = held[c]
        BY <1>2, <2>2
      <3>2. Gone(c) => Gone(c)'
        BY <3>1 DEF Gone, Whole, Closes
      <3>3. CutCharacter(c) => CutCharacter(c)'
        BY DEF CutCharacter, Closes
      <3> QED
        BY <1>2, <2>2, <3>2, <3>3 DEF Handled
    <2> QED
      BY <2>1, <2>2
  <1>8. \A d \in Conn \ {c} : Same(d)
    BY <1>2 DEF Same, Closes
  <1> QED
    BY <1>4, <1>5, <1>6, <1>7, <1>8, Frame DEF ConnInv

-----------------------------------------------------------------------------
(* The steps of each server *)

\* Go holds one chunk at most, so it reads behind nothing.
LEMMA GoStep ==
  ASSUME IInv, NEW c \in Conn, Go!Handler(c), lang = "go", lang' = lang
  PROVE  IInv'
  <1>1. TypeOK /\ ConnInv(c)
    BY DEF IInv
  <1>2. pc[c] = "serve" /\ held[c] = << >> => Whole(c) /\ Len(held[c]) = 0
    BY <1>1 DEF ConnInv, Handled
  <1>3. CASE Go!Read(c)
    <2>1. PICK chunk \in Chunks(c) : /\ Reads(c, chunk)
                                     /\ held' = [held EXCEPT ![c] = chunk]
      BY <1>3 DEF Go!Read, Go!Chunks, Go!Reads, Chunks, Reads
    <2>2. held[c] = << >> /\ pc[c] = "serve" /\ UNCHANGED <<peer, wrote, echoed, pc>>
      BY <1>3, <2>1 DEF Go!Read, Reads
    <2>3. chunk \in Seq(Byte)
      BY <1>1, Chunk DEF ConnInv, Streams
    <2>4. held' = [held EXCEPT ![c] = @ \o chunk]
      <3>1. held[c] \o chunk = chunk
        BY <2>2, <2>3, ConcatEmptySeq
      <3> QED
        BY <2>1, <3>1
    <2>5. /\ Len(held[c]) <= IF lang = "py" THEN HighWater ELSE 0
          /\ lang = "py" => chunk[Len(chunk)] # "lead"
      BY <1>2, <2>2
    <2> QED
      BY <2>1, <2>2, <2>4, <2>5, ReadStep
  <1>4. CASE Go!ReadFails(c)
    <2>1. Closes(c)
      BY <1>4 DEF Go!ReadFails, Go!Closes, Closes
    <2>2. \/ peer[c] = "reset"
          \/ held[c] = << >> /\ Gone(c)
      BY <1>2, <1>4 DEF Go!ReadFails, Go!EOF, Gone
    <2> QED
      BY <2>1, <2>2, ClosesStep
  <1>5. CASE Go!Write(c)
    <2>1. SendsByte(c)
      BY <1>5 DEF Go!Write, Go!SendsByte, SendsByte
    <2> QED
      BY <2>1, SendsStep
  <1>6. CASE Go!WriteFails(c)
    <2>1. Closes(c) /\ peer[c] = "reset"
      BY <1>6 DEF Go!WriteFails, Go!Closes, Closes
    <2> QED
      BY <2>1, ClosesStep
  <1> QED
    BY <1>3, <1>4, <1>5, <1>6 DEF Go!Handler

\* The end of the stream: what is held is still to be sent.
LEMMA ReadEOFStep ==
  ASSUME IInv, NEW c \in Conn, Py!ReadEOF(c), lang = "py", lang' = lang
  PROVE  IInv'
  <1> USE DEF Py!ReadEOF
  <1>1. TypeOK /\ ConnInv(c)
    BY DEF IInv
  <1>2. TypeOK' /\ pc'[c] = "closing"
    BY <1>1 DEF TypeOK
  <1>3. Streams(c)' /\ Characters(c)'
    BY <1>1 DEF ConnInv, Streams, Characters
  <1>4. Gone(c)
    BY <1>1 DEF ConnInv, Handled, Gone, Py!EOF
  <1>5. Gone(c)'
    BY <1>4 DEF Gone, Whole
  <1>6. Handled(c)'
    BY <1>2, <1>5 DEF Handled
  <1>7. \A d \in Conn \ {c} : Same(d)
    BY <1>1 DEF Same, TypeOK
  <1> QED
    BY <1>2, <1>3, <1>6, <1>7, Frame DEF ConnInv

\* Python reads behind what the transport holds.
LEMMA PyStep ==
  ASSUME IInv, NEW c \in Conn, Py!Handler(c), lang = "py", lang' = lang
  PROVE  IInv'
  <1>1. TypeOK /\ ConnInv(c)
    BY DEF IInv
  <1>2. CASE Py!Read(c)
    <2>1. PICK chunk \in Chunks(c) :
            /\ Reads(c, chunk)
            /\ IF Py!Decodes(chunk)
               THEN held' = [held EXCEPT ![c] = @ \o chunk] /\ UNCHANGED pc
               ELSE pc' = [pc EXCEPT ![c] = "closing"] /\ UNCHANGED held
      BY <1>2 DEF Py!Read, Py!Chunks, Py!Reads, Chunks, Reads
    <2>2. /\ Len(held[c]) <= HighWater /\ pc[c] = "serve"
          /\ UNCHANGED <<peer, wrote, echoed>>
      BY <1>2, <2>1 DEF Py!Read, Reads
    <2>3. CASE Py!Decodes(chunk)
      <3>1. chunk[Len(chunk)] # "lead"
        BY <2>3 DEF Py!Decodes
      <3>2. /\ Len(held[c]) <= IF lang = "py" THEN HighWater ELSE 0
            /\ held' = [held EXCEPT ![c] = @ \o chunk]
            /\ UNCHANGED <<peer, wrote, echoed, pc>>
        BY <2>1, <2>2, <2>3
      <3> QED
        BY <2>1, <2>2, <3>1, <3>2, ReadStep
    <2>4. CASE ~Py!Decodes(chunk)
      <3>1. /\ pc' = [pc EXCEPT ![c] = "closing"]
            /\ UNCHANGED <<peer, wrote, echoed, held>>
        BY <2>1, <2>2, <2>4
      <3> QED
        BY <2>1, <2>2, <2>4, <3>1, CutStep
    <2> QED
      BY <2>3, <2>4
  <1>3. CASE Py!ReadEOF(c)
    BY <1>3, ReadEOFStep
  <1>4. CASE Py!Flush(c)
    <2>1. SendsByte(c)
      BY <1>4 DEF Py!Flush, Py!SendsByte, SendsByte
    <2> QED
      BY <2>1, SendsStep
  <1>5. CASE Py!Close(c)
    <2>1. Closes(c) /\ pc[c] = "closing" /\ held[c] = << >>
      BY <1>5 DEF Py!Close, Py!Closes, Closes
    <2>2. Gone(c) \/ CutCharacter(c)
      BY <1>1, <2>1 DEF ConnInv, Handled
    <2> QED
      BY <2>1, <2>2, ClosesStep
  <1>6. CASE Py!Lost(c)
    <2>1. Closes(c) /\ peer[c] = "reset"
      BY <1>6 DEF Py!Lost, Py!Closes, Closes
    <2> QED
      BY <2>1, ClosesStep
  <1> QED
    BY <1>2, <1>3, <1>4, <1>5, <1>6 DEF Py!Handler

-----------------------------------------------------------------------------
(* The invariant *)

\* No connection is open at first.
LEMMA InitIInv == AllInit => IInv
  <1> SUFFICES ASSUME AllInit
               PROVE  IInv
    OBVIOUS
  <1> USE DEF AllInit, Init
  <1>1. << >> \in Seq(Byte) /\ Len(<< >>) = 0
    OBVIOUS
  <1>2. TypeOK
    <2>1. /\ 0 \in 0 .. MaxStream
          /\ 0 <= MaxLength + (IF lang = "py" THEN HighWater ELSE 0)
      BY BufferAssumption, HighWaterAssumption
    <2> QED
      BY <1>1, <2>1 DEF TypeOK
  <1>3. ASSUME NEW c \in Conn
        PROVE  ConnInv(c)
    <2>1. Streams(c)
      BY <1>1, BufferAssumption DEF Streams
    <2>2. Characters(c)
      BY DEF Characters
    <2>3. Handled(c)
      BY DEF Handled
    <2> QED
      BY <2>1, <2>2, <2>3 DEF ConnInv
  <1> QED
    BY <1>2, <1>3 DEF IInv

\* The invariant is inductive.
LEMMA NextIInv == IInv /\ [Next]_<<vars, lang>> => IInv'
  <1> SUFFICES ASSUME IInv, [Next]_<<vars, lang>>
               PROVE  IInv'
    OBVIOUS
  <1>1. CASE Clients /\ UNCHANGED lang
    <2>1. PICK c \in Conn : \/ Connect(c)
                            \/ \E b \in Byte : ClientWrite(c, b)
                            \/ \E how \in {"closed", "reset"} : ClientLeave(c, how)
      BY <1>1 DEF Clients
    <2> QED
      BY <1>1, <2>1, ConnectStep, ClientWriteStep, ClientLeaveStep
  <1>2. CASE \E c \in Conn : Accept(c)
    <2>1. PICK c \in Conn : Accepts(c) /\ lang' = lang
      BY <1>2 DEF Accept, Go!Accept, Go!Accepts, Py!Accept, Py!Accepts, Accepts
    <2> QED
      BY <2>1, AcceptStep
  <1>3. CASE \E c \in Conn : Handler(c)
    BY <1>3, GoStep, PyStep DEF Handler
  <1>4. CASE UNCHANGED <<vars, lang>>
    <2>1. \A c \in Conn : Same(c)
      BY <1>4 DEF vars, Same
    <2>2. TypeOK'
      BY <1>4 DEF IInv, TypeOK, vars
    <2>3. ASSUME NEW c \in Conn
          PROVE  ConnInv(c)'
      <3>1. ConnInv(c)
        BY DEF IInv
      <3> QED
        BY <1>4, <3>1 DEF vars, ConnInv, Streams, Characters, Handled, Whole, Gone,
                          CutCharacter
    <2> QED
      BY <2>2, <2>3 DEF IInv
  <1> QED
    BY <1>1, <1>2, <1>3, <1>4 DEF Next

\* The invariant holds in every state, whatever the language.
THEOREM ServersInvariance == Spec => []IInv
  BY InitIInv, NextIInv, PTL DEF Spec

-----------------------------------------------------------------------------
(* What follows from it *)

\* Type correctness; in particular no handler holds more than its buffer
\* (server.go l. 24) or than asyncio's limit and one chunk (server.py l. 13-19).
THEOREM ServersTypeCorrect == Spec => []TypeOK
  <1>1. IInv => TypeOK
    BY DEF IInv
  <1> QED
    BY <1>1, ServersInvariance, PTL

\* A server never drops a connection that its client still uses, nor a byte of one
\* that its client closed, except where a character was cut (server.go l. 27-44,
\* server.py l. 14-27).
THEOREM ServersDropNone == Spec => []NoEarlyDrop
  <1>1. IInv => NoEarlyDrop
    <2> SUFFICES ASSUME IInv, NEW c \in Conn, pc[c] = "closed", peer[c] # "reset",
                        ~CutCharacter(c)
                 PROVE  peer[c] = "closed" /\ echoed[c] = wrote[c]
      BY DEF NoEarlyDrop
    <2> DEFINE e == Len(echoed[c])
    <2>1. TypeOK /\ ConnInv(c)
      BY DEF IInv
    <2>2. /\ peer[c] = "closed" /\ held[c] = << >>
          /\ taken[c] = Len(wrote[c]) /\ e + Len(held[c]) = taken[c]
      BY <2>1 DEF ConnInv, Handled, Gone, Whole
    <2>3. echoed[c] \in Seq(Byte) /\ wrote[c] \in Seq(Byte) /\ e \in Nat
      BY <2>1, TypeOf
    <2>4. e + 0 = Len(wrote[c])
      BY <2>2
    <2>5. e = Len(wrote[c])
      BY <2>3, <2>4
    <2>6. \A k \in 1 .. e : echoed[c][k] = wrote[c][k]
      BY <2>1 DEF ConnInv, Streams
    <2> QED
      BY <2>2, <2>3, <2>5, <2>6, SeqEqual
  <1> QED
    BY <1>1, ServersInvariance, PTL

\* Both servers implement the contract of the load clients: what comes back on a
\* connection is a prefix of what was sent on it (server.go l. 26-40, server.py
\* l. 13-19).
THEOREM ServersRefinement == Spec => ImplementsContract
  <1>1. AllInit => Contract!Init
    BY DEF AllInit, Init, Contract!Init
  <1>2. ASSUME IInv, [Next]_<<vars, lang>>
        PROVE  [Contract!Next]_Contract!vars
    <2> DEFINE Idle == wrote' = wrote /\ echoed' = echoed
    <2>1. ASSUME NEW c \in Conn, NEW b \in Byte, ClientWrite(c, b)
          PROVE  Contract!Next
      <3>1. Contract!Send(c, b)
        BY <2>1 DEF ClientWrite, Contract!Send
      <3> QED
        BY <3>1 DEF Contract!Next
    <2>2. ASSUME NEW c \in Conn, SendsByte(c)
          PROVE  Contract!Next
      <3> DEFINE e == Len(echoed[c])
                 h == Len(held[c])
      <3>1. TypeOK /\ Streams(c)
        BY <1>2 DEF IInv, ConnInv
      <3>2. /\ held[c] \in Seq(Byte) /\ held[c] # << >>
            /\ e \in Nat /\ h \in Nat /\ taken[c] \in Nat /\ Len(wrote[c]) \in Nat
        BY <2>2, <3>1, TypeOf DEF SendsByte
      <3>3. h > 0 /\ Head(held[c]) = held[c][1]
        BY <3>2, EmptySeq
      <3>4. 1 \in 1 .. h
        BY <3>2, <3>3
      <3>5. Head(held[c]) = wrote[c][e + 1]
        BY <3>1, <3>3, <3>4 DEF Streams
      <3>6. e < Len(wrote[c])
        <4> DEFINE t == taken[c]
                   n == Len(wrote[c])
        <4>1. /\ e \in Nat /\ h \in Nat /\ t \in Nat /\ n \in Nat
              /\ h > 0 /\ e + h <= t /\ t <= n
          BY <3>1, <3>2, <3>3 DEF Streams
        <4> HIDE DEF e, h, t, n
        <4>2. e < n
          BY <4>1
        <4> QED
          BY <4>2 DEF n
      <3>7. Contract!Echo(c)
        BY <2>2, <3>5, <3>6 DEF SendsByte, Contract!Echo
      <3> QED
        BY <3>7 DEF Contract!Next
    <2>3. CASE Clients /\ UNCHANGED lang
      <3>1. PICK c \in Conn : \/ Connect(c)
                              \/ \E b \in Byte : ClientWrite(c, b)
                              \/ \E how \in {"closed", "reset"} : ClientLeave(c, how)
        BY <2>3 DEF Clients
      <3>2. Connect(c) \/ (\E how \in {"closed", "reset"} : ClientLeave(c, how)) => Idle
        BY DEF Connect, ClientLeave
      <3> QED
        BY <2>1, <3>1, <3>2 DEF Contract!vars
    <2>4. CASE \E c \in Conn : Accept(c)
      BY <2>4 DEF Accept, Go!Accept, Go!Accepts, Py!Accept, Py!Accepts, Contract!vars
    <2>5. CASE \E c \in Conn : Handler(c)
      <3>1. PICK c \in Conn : Handler(c)
        BY <2>5
      <3>2. CASE Go!Handler(c)
        <4>1. Go!Write(c) => SendsByte(c)
          BY DEF Go!Write, Go!SendsByte, SendsByte
        <4>2. Go!Read(c) \/ Go!ReadFails(c) \/ Go!WriteFails(c) => Idle
          BY DEF Go!Read, Go!ReadFails, Go!WriteFails, Go!Closes
        <4> QED
          BY <2>2, <3>2, <4>1, <4>2 DEF Go!Handler, Contract!vars
      <3>3. CASE Py!Handler(c)
        <4>1. Py!Flush(c) => SendsByte(c)
          BY DEF Py!Flush, Py!SendsByte, SendsByte
        <4>2. Py!Read(c) \/ Py!ReadEOF(c) \/ Py!Close(c) \/ Py!Lost(c) => Idle
          BY DEF Py!Read, Py!ReadEOF, Py!Close, Py!Lost, Py!Closes
        <4> QED
          BY <2>2, <3>3, <4>1, <4>2 DEF Py!Handler, Contract!vars
      <3> QED
        BY <3>1, <3>2, <3>3 DEF Handler
    <2>6. CASE UNCHANGED <<vars, lang>>
      BY <2>6 DEF vars, Contract!vars
    <2> QED
      BY <1>2, <2>3, <2>4, <2>5, <2>6 DEF Next
  <1> QED
    BY <1>1, <1>2, ServersInvariance, PTL DEF Spec, ImplementsContract, Contract!Spec

=============================================================================
