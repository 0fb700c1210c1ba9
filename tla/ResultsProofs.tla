---------------------------- MODULE ResultsProofs ----------------------------
(***************************************************************************)
(* From the logs to the combined file, for any numbers of scenarios,       *)
(* clients and messages, and for every log a Job can leave.                *)
(***************************************************************************)
EXTENDS Results, Sums, TLAPS

-----------------------------------------------------------------------------
(* The inductive invariant, in parts *)

\* What process_logs.py takes from the log of a scenario, and for which it takes some.
Entries(s) == IF IsLog(dir[s]) THEN dir[s].entries ELSE NoEntries
Kept(l) == {s \in Of(l) : Entries(s) # NoEntries}

\* Only logs of the language are to be read, and only those it has read are in memory.
Reading ==
    /\ \A s \in unread : s[1] = lang
    /\ \A s \in Scenario :
          all_data[s] = IF s[1] = lang /\ s \notin unread THEN Entries(s) ELSE NoEntries

\* A file has the rows of the scenarios of its language, in their order.
Filed(l) ==
    LET rows == csv[l].rows IN
    /\ \A i \in DOMAIN rows :
          LET s == rows[i].scenario IN s \in Kept(l) /\ rows[i] = Row(s, Entries(s))
    /\ \A s \in Kept(l) : \E i \in DOMAIN rows : rows[i].scenario = s
    /\ \A i, j \in DOMAIN rows : i < j => Before(rows[i].scenario, rows[j].scenario)
    /\ csv[l].header <=> rows # << >> \/ version = 3

Joined ==
    IF lang = 4 THEN combined = File(csv[1].header, csv[1].rows \o csv[2].rows)
                ELSE combined.rows = << >>

IInv == TypeOK /\ Reading /\ (\A l \in 1 .. 2 : l < lang => Filed(l)) /\ Joined

-----------------------------------------------------------------------------
(* Scenarios and their order *)

\* A scenario is its language and its number.
LEMMA ScenarioForm ==
  ASSUME NEW s \in Scenario
  PROVE  /\ s = <<s[1], s[2]>> /\ s[1] \in 1 .. 2 /\ s[1] \in Nat /\ s[2] \in Nat
         /\ \A l \in 1 .. 2 : s \in Of(l) <=> s[1] = l
  BY ParametersAssumption DEF Scenario, Of

\* The scenarios of a language are scenarios.
LEMMA OfLanguage ==
  ASSUME NEW l \in 1 .. 2, NEW s \in Of(l)
  PROVE  s \in Scenario /\ s[1] = l
  BY DEF Scenario, Of

\* There are finitely many.
LEMMA FiniteScenario == IsFiniteSet(Scenario)
  <1>1. ASSUME NEW l \in 1 .. 2
        PROVE  IsFiniteSet(Of(l))
    <2>1. Of(l) = {l} \X (1 .. Scenarios[l])
      BY DEF Of
    <2>2. Scenarios[l] \in Int
      BY ParametersAssumption
    <2>3. IsFiniteSet(1 .. Scenarios[l])
      BY <2>2, 1 \in Int, FS_Interval
    <2>4. IsFiniteSet({l})
      BY FS_Singleton
    <2>5. IsFiniteSet({l} \X (1 .. Scenarios[l]))
      BY <2>3, <2>4, FS_Product
    <2> QED
      BY <2>1, <2>5
  <1>2. IsFiniteSet(Of(1)) /\ IsFiniteSet(Of(2))
    BY <1>1
  <1> QED
    BY <1>2, FS_Union DEF Scenario

\* Before is a strict linear order of them.
LEMMA BeforeOrder ==
  ASSUME NEW s \in Scenario, NEW t \in Scenario
  PROVE  /\ ~Before(s, s)
         /\ Before(s, t) \/ s = t \/ Before(t, s)
         /\ Before(s, t) => ~Before(t, s) /\ s # t
         /\ \A u \in Scenario : Before(s, t) /\ Before(t, u) => Before(s, u)
  BY ScenarioForm DEF Before

\* Scenarios can be put into their order: each at the number of those that are not
\* after it.
LEMMA SortedExists ==
  ASSUME NEW S \in SUBSET Scenario
  PROVE  \E q \in [1 .. Cardinality(S) -> S] :
            \A i, j \in DOMAIN q : i < j => Before(q[i], q[j])
  <1> DEFINE n == Cardinality(S)
             Upto(s) == {t \in S : Before(t, s) \/ t = s}
             rank == [s \in S |-> Cardinality(Upto(s))]
  <1>1. IsFiniteSet(S) /\ n \in Nat
    BY FiniteScenario, FS_Subset, FS_CardinalityType
  <1>2. ASSUME NEW s \in S
        PROVE  /\ IsFiniteSet(Upto(s)) /\ Cardinality(Upto(s)) \in 1 .. n
               /\ Cardinality(Upto(s)) \in Nat
    <2>1. Upto(s) \in SUBSET S /\ Upto(s) # {}
      OBVIOUS
    <2> HIDE DEF Upto
    <2>2. IsFiniteSet(Upto(s)) /\ Cardinality(Upto(s)) <= n
      BY <1>1, <2>1, FS_Subset
    <2>3. Cardinality(Upto(s)) \in Nat /\ Cardinality(Upto(s)) # 0
      BY <2>1, <2>2, FS_CardinalityType, FS_EmptySet
    <2> QED
      BY <1>1, <2>2, <2>3
  <1>3. ASSUME NEW s \in S, NEW t \in S, Before(s, t)
        PROVE  Cardinality(Upto(s)) < Cardinality(Upto(t))
    <2>1. Upto(s) \in SUBSET Upto(t) /\ t \in Upto(t) /\ t \notin Upto(s)
      BY <1>3, BeforeOrder
    <2> HIDE DEF Upto
    <2>2. /\ Cardinality(Upto(s)) <= Cardinality(Upto(t))
          /\ Cardinality(Upto(s)) # Cardinality(Upto(t))
      BY <1>2, <2>1, FS_Subset
    <2> QED
      BY <1>2, <2>2
  <1>4. /\ rank \in [S -> 1 .. n]
        /\ \A s, t \in S : Before(s, t) => rank[s] < rank[t]
    BY <1>2, <1>3
  <1> HIDE DEF rank, n
  <1>5. rank \in Injection(S, 1 .. n)
    <2>1. ASSUME NEW s \in S, NEW t \in S, rank[s] = rank[t]
          PROVE  s = t
      <3>1. rank[s] \in 1 .. n /\ rank[t] \in 1 .. n
        BY <1>4
      <3>2. ~(rank[s] < rank[t]) /\ ~(rank[t] < rank[s])
        BY <1>1, <2>1, <3>1
      <3> QED
        BY <1>4, <3>2, BeforeOrder
    <2> QED
      BY <1>4, <2>1 DEF Injection, IsInjective
  <1>6. rank \in Surjection(S, 1 .. n)
    <2>1. IsFiniteSet(1 .. n) /\ Cardinality(1 .. n) = n
      BY <1>1, FS_Interval
    <2> QED
      BY <1>1, <1>5, <2>1, FS_Injection DEF n
  <1> DEFINE q == [i \in 1 .. n |-> CHOOSE s \in S : rank[s] = i]
  <1>7. ASSUME NEW i \in 1 .. n
        PROVE  q[i] \in S /\ rank[q[i]] = i
    BY <1>6 DEF Surjection
  <1>8. ASSUME NEW i \in 1 .. n, NEW j \in 1 .. n, i < j
        PROVE  Before(q[i], q[j])
    <2> HIDE DEF q
    <2>1. q[i] # q[j] /\ ~Before(q[j], q[i])
      BY <1>1, <1>4, <1>7, <1>8
    <2> QED
      BY <1>7, <2>1, BeforeOrder
  <1>9. q \in [1 .. n -> S] /\ DOMAIN q = 1 .. n
    BY <1>7
  <1> HIDE DEF q
  <1> QED
    BY <1>8, <1>9 DEF n

\* Sorted puts them there: each once.
LEMMA SortedIsSorted ==
  ASSUME NEW S \in SUBSET Scenario
  PROVE  /\ Cardinality(S) \in Nat
         /\ Sorted(S) \in [1 .. Cardinality(S) -> S]
         /\ \A i, j \in 1 .. Cardinality(S) : i < j => Before(Sorted(S)[i], Sorted(S)[j])
         /\ \A s \in S : \E i \in 1 .. Cardinality(S) : Sorted(S)[i] = s
  <1> DEFINE n == Cardinality(S)
             q == Sorted(S)
  <1>1. IsFiniteSet(S) /\ n \in Nat
    BY FiniteScenario, FS_Subset, FS_CardinalityType
  <1>2. q \in [1 .. n -> S] /\ \A i, j \in 1 .. n : i < j => Before(q[i], q[j])
    <2>1. /\ q \in [1 .. n -> S]
          /\ \A i, j \in DOMAIN q : i < j => Before(q[i], q[j])
      BY SortedExists DEF Sorted
    <2> HIDE DEF q, n
    <2> QED
      BY <2>1
  <1> HIDE DEF q, n
  <1>3. q \in Injection(1 .. n, S)
    <2>1. ASSUME NEW i \in 1 .. n, NEW j \in 1 .. n, q[i] = q[j]
          PROVE  i = j
      <3>1. ~(i < j) /\ ~(j < i)
        BY <1>2, <2>1, BeforeOrder
      <3> QED
        BY <1>1, <3>1
    <2> QED
      BY <1>2, <2>1 DEF Injection, IsInjective
  <1>4. q \in Surjection(1 .. n, S)
    <2>1. IsFiniteSet(1 .. n) /\ Cardinality(1 .. n) = n
      BY <1>1, FS_Interval
    <2> QED
      BY <1>1, <1>3, <2>1, FS_Injection DEF n
  <1>5. \A s \in S : \E i \in 1 .. n : q[i] = s
    BY <1>4 DEF Surjection
  <1> QED
    BY <1>1, <1>2, <1>5 DEF q, n

-----------------------------------------------------------------------------
(* Rows *)

\* A report is a line that a client in some language may print.
LEMMA ReportForm ==
  ASSUME NEW r \in Report
  PROVE  /\ r \in Line
         /\ \E l \in Languages : Consistent(r, l)
         /\ r.average_latency_ms = 0 <=> r.messages_received = 0
  <1>1. PICK p \in Printed : r = p[2]
    BY DEF Report
  <1> QED
    BY <1>1 DEF Printed, Fits

\* What its fields are.
LEMMA ReportFields ==
  ASSUME NEW r \in Report
  PROVE  /\ r.connection_success \in BOOLEAN /\ r.heard \in Heard
         /\ r.messages_sent \in 0 .. Messages /\ r.messages_received \in 0 .. Messages
         /\ r.average_latency_ms \in 0 .. MaxAverage /\ r.errors \in 0 .. 1
         /\ r.messages_sent \in Nat /\ r.messages_received \in Nat
         /\ r.average_latency_ms \in Nat /\ r.errors \in Nat
  BY ReportForm, ParametersAssumption DEF Line

\* There are finitely many reports: a report is its six fields.
LEMMA FiniteReport == IsFiniteSet(Report)
  <1> DEFINE P == BOOLEAN \X (0 .. Messages)
             Q == (0 .. Messages) \X (0 .. MaxAverage)
             R == (0 .. 1) \X Heard
             T == (P \X Q) \X R
             key == [r \in Report |->
                      <<<< <<r.connection_success, r.messages_sent>>,
                           <<r.messages_received, r.average_latency_ms>> >>,
                        <<r.errors, r.heard>> >>]
  <1>1. /\ IsFiniteSet(BOOLEAN) /\ IsFiniteSet(0 .. 1) /\ IsFiniteSet(Heard)
        /\ IsFiniteSet(0 .. Messages) /\ IsFiniteSet(0 .. MaxAverage)
    <2>1. BOOLEAN = {TRUE} \cup {FALSE} /\ IsFiniteSet({TRUE}) /\ IsFiniteSet({FALSE})
      BY FS_Singleton
    <2>2. IsFiniteSet(BOOLEAN)
      BY <2>1, FS_Union
    <2>3. 0 \in Int /\ 1 \in Int /\ Messages \in Int /\ MaxAverage \in Int
      BY ParametersAssumption
    <2>4. Heard = {"whole", "part"} \cup {"less"} /\ {"whole", "part"} = {"whole"} \cup {"part"}
      BY DEF Heard
    <2>5. IsFiniteSet(Heard)
      BY <2>4, FS_Singleton, FS_Union
    <2> QED
      BY <2>2, <2>3, <2>5, FS_Interval
  <1>2. IsFiniteSet(P) /\ IsFiniteSet(Q) /\ IsFiniteSet(R)
    BY <1>1, FS_Product
  <1>3. IsFiniteSet(T)
    <2> HIDE DEF P, Q, R
    <2>1. IsFiniteSet(P \X Q)
      BY <1>2, FS_Product
    <2> QED
      BY <1>2, <2>1, FS_Product
  <1>4. key \in [Report -> T]
    BY ReportFields
  <1>5. ASSUME NEW q \in Report, NEW r \in Report, key[q] = key[r]
        PROVE  q = r
    <2>1. /\ q.connection_success = r.connection_success
          /\ q.messages_sent = r.messages_sent
          /\ q.messages_received = r.messages_received
          /\ q.average_latency_ms = r.average_latency_ms
          /\ q.errors = r.errors /\ q.heard = r.heard
      BY <1>5
    <2> QED
      BY <2>1, ReportForm DEF Line
  <1>6. key \in Injection(Report, T)
    <2> HIDE DEF key, T
    <2> QED
      BY <1>4, <1>5 DEF Injection, IsInjective
  <1> HIDE DEF key, T
  <1> QED
    BY <1>3, <1>6, FS_Injection

\* What a column adds up, of each report and of the reports of a group.
Connections == [r \in Report |-> IF r.connection_success THEN 1 ELSE 0]
Sent == [r \in Report |-> r.messages_sent]
Received == [r \in Report |-> r.messages_received]
Errors == [r \in Report |-> r.errors]
Nothing == [r \in Report |-> 0]
Product(g, w) == [r \in Report |-> g[r] * w[r]]
Group == [Report -> 0 .. Clients]
Latencies(g) == {r.average_latency_ms : r \in {q \in Report : g[q] > 0}}

\* The columns are sums of natural numbers.
LEMMA Columns ==
  /\ Connections \in [Report -> Nat] /\ Sent \in [Report -> Nat]
  /\ Received \in [Report -> Nat] /\ Errors \in [Report -> Nat]
  /\ Nothing \in [Report -> Nat]
  BY ReportFields DEF Connections, Sent, Received, Errors, Nothing

\* A row in terms of them.
LEMMA RowForm ==
  ASSUME NEW s, NEW g
  PROVE  Row(s, g) =
           [scenario |-> s,
            total_connections_attempted |-> SumFunction(g),
            successful_connections |-> SumFunction(Product(g, Connections)),
            total_messages_sent |-> SumFunction(Product(g, Sent)),
            total_messages_received |-> SumFunction(Product(g, Received)),
            min_latency_ms |-> Min(Latencies(g)),
            total_errors |-> SumFunction(Product(g, Errors))]
  <1>1. /\ Product(g, Connections) =
             [r \in Report |-> g[r] * (IF r.connection_success THEN 1 ELSE 0)]
        /\ Product(g, Sent) = [r \in Report |-> g[r] * r.messages_sent]
        /\ Product(g, Received) = [r \in Report |-> g[r] * r.messages_received]
        /\ Product(g, Errors) = [r \in Report |-> g[r] * r.errors]
    BY Zenon DEF Product, Connections, Sent, Received, Errors
  <1> QED
    BY <1>1, Zenon DEF Row, Count, Sum, TotalErrors, Latencies

\* The products are natural numbers.
LEMMA ProductType ==
  ASSUME NEW g \in Group, NEW w \in [Report -> Nat]
  PROVE  /\ g \in [Report -> Nat] /\ SumFunction(g) \in Nat
         /\ Product(g, w) \in [Report -> Nat] /\ SumFunction(Product(g, w)) \in Nat
  <1>1. g \in [Report -> Nat]
    BY ParametersAssumption DEF Group
  <1>2. ASSUME NEW r \in Report
        PROVE  g[r] * w[r] \in Nat
    <2>1. g[r] \in Nat /\ w[r] \in Nat
      BY <1>1
    <2> QED
      BY <2>1
  <1>3. Product(g, w) \in [Report -> Nat]
    BY <1>2 DEF Product
  <1> QED
    BY <1>1, <1>3, FiniteReport, SumType

\* A group without entries counts none, any other at least one.
LEMMA CountPositive ==
  ASSUME NEW g \in Group
  PROVE  /\ Count(g) \in Nat
         /\ g # NoEntries <=> Count(g) > 0
         /\ Count(NoEntries) = 0
  <1>1. /\ g \in [Report -> Nat] /\ Count(g) \in Nat
        /\ NoEntries \in [Report -> Nat]
    BY ProductType, Columns DEF Count, NoEntries, Nothing
  <1>2. Count(NoEntries) = 0
    <2>1. NoEntries = [r \in Report |-> 0 * g[r]]
      BY <1>1 DEF NoEntries
    <2>2. SumFunction([r \in Report |-> 0 * g[r]]) = 0 * SumFunction(g)
      BY <1>1, 0 \in Nat, FiniteReport, SumScales
    <2> QED
      BY <1>1, <2>1, <2>2 DEF Count
  <1>3. Count(g) = 0 => g = NoEntries
    <2>1. \A r \in Report : NoEntries[r] <= g[r]
      BY <1>1 DEF NoEntries
    <2> QED
      BY <1>1, <1>2, <2>1, FiniteReport, SumCompares DEF Count
  <1> QED
    BY <1>1, <1>2, <1>3

\* What a log holds.
LEMMA LogForm ==
  ASSUME NEW log \in Log
  PROVE  /\ log.entries \in Group /\ log.complete \in BOOLEAN
         /\ log.complete => Count(log.entries) = Clients
  <1>1. \/ \E e \in Reports(0) : log = [complete |-> FALSE, entries |-> e]
        \/ \E e \in Reports(Clients) : log = [complete |-> TRUE, entries |-> e]
    BY DEF Log
  <1>2. CASE \E e \in Reports(0) : log = [complete |-> FALSE, entries |-> e]
    BY <1>2 DEF Reports, Group
  <1>3. CASE \E e \in Reports(Clients) : log = [complete |-> TRUE, entries |-> e]
    <2>1. PICK e \in Reports(Clients) : log = [complete |-> TRUE, entries |-> e]
      BY <1>3
    <2>2. e \in Group /\ Count(e) \in Clients .. Clients
      BY <2>1 DEF Reports, Group
    <2> QED
      BY <2>1, <2>2, ParametersAssumption
  <1> QED
    BY <1>1, <1>2, <1>3

\* The least latency of a group with entries is one of them.
LEMMA LeastLatency ==
  ASSUME NEW g \in Group, g # NoEntries
  PROVE  Min(Latencies(g)) \in Latencies(g) /\ Latencies(g) \subseteq Nat
  <1>1. Latencies(g) \subseteq Nat
    BY ReportFields DEF Latencies
  <1>2. Latencies(g) # {}
    <2>1. \E r \in Report : g[r] # 0
      BY DEF NoEntries, Group
    <2>2. \A r \in Report : g[r] \in Nat
      BY ParametersAssumption DEF Group
    <2> QED
      BY <2>1, <2>2 DEF Latencies
  <1>3. \E x \in Latencies(g) : \A y \in Latencies(g) : ~(y < x)
    BY <1>1, <1>2, LeastNumber
  <1>4. \E x \in Latencies(g) : \A y \in Latencies(g) : x <= y
    BY <1>1, <1>3
  <1> QED
    BY <1>1, <1>4 DEF Min

\* The row of a group with entries is a row.
LEMMA RowType ==
  ASSUME NEW s \in Scenario, NEW g \in Group, g # NoEntries
  PROVE  Row(s, g) \in ResultRow /\ Row(s, g).scenario = s
  <1>1. /\ SumFunction(g) \in Nat
        /\ SumFunction(Product(g, Connections)) \in Nat
        /\ SumFunction(Product(g, Sent)) \in Nat
        /\ SumFunction(Product(g, Received)) \in Nat
        /\ SumFunction(Product(g, Errors)) \in Nat
    BY Columns, ProductType
  <1>2. Min(Latencies(g)) \in Nat
    BY LeastLatency
  <1> QED
    BY <1>1, <1>2, RowForm DEF ResultRow

\* A full row without errors, with as many messages received as sent, is of clients
\* that each connected and got all replies.
LEMMA FaultlessRow ==
  ASSUME NEW g \in Group,
         SumFunction(g) = Clients,
         SumFunction(Product(g, Received)) = SumFunction(Product(g, Sent)),
         SumFunction(Product(g, Errors)) = 0
  PROVE  /\ Min(Latencies(g)) > 0
         /\ \A r \in Report :
               g[r] > 0 => r.connection_success /\ r.messages_received = Messages
  <1>1. /\ g \in [Report -> Nat]
        /\ Product(g, Received) \in [Report -> Nat]
        /\ Product(g, Sent) \in [Report -> Nat]
        /\ Product(g, Errors) \in [Report -> Nat]
        /\ NoEntries \in [Report -> Nat]
    BY Columns, ProductType DEF NoEntries, Nothing
  <1>2. Clients \in Nat /\ Clients > 0 /\ Messages \in Nat /\ Messages > 0
    BY ParametersAssumption
  <1>3. Product(g, Received) = Product(g, Sent)
    <2>1. ASSUME NEW r \in Report
          PROVE  Product(g, Received)[r] <= Product(g, Sent)[r]
      <3>1. /\ g[r] \in Nat /\ r.messages_received \in Nat /\ r.messages_sent \in Nat
            /\ r.messages_received <= r.messages_sent
        BY <1>1, ReportForm, ReportFields DEF Consistent
      <3>2. g[r] * r.messages_received <= g[r] * r.messages_sent
        BY <3>1
      <3> QED
        BY <3>2 DEF Product, Received, Sent
    <2> QED
      BY <1>1, <2>1, FiniteReport, SumCompares
  <1>4. Product(g, Errors) = NoEntries
    <2>1. \A r \in Report : NoEntries[r] <= Product(g, Errors)[r]
      BY <1>1 DEF NoEntries
    <2>2. SumFunction(NoEntries) = SumFunction(Product(g, Errors))
      BY CountPositive DEF Count
    <2> QED
      BY <1>1, <2>1, <2>2, FiniteReport, SumCompares
  <1>5. ASSUME NEW r \in Report, g[r] # 0
        PROVE  /\ r.connection_success /\ r.messages_received = Messages
               /\ r.average_latency_ms \in Nat /\ r.average_latency_ms > 0
    <2>1. /\ g[r] \in Nat /\ r.messages_received \in Nat /\ r.messages_sent \in Nat
          /\ r.errors \in Nat /\ r.average_latency_ms \in Nat
      BY <1>1, ReportFields
    <2>2. g[r] * r.messages_received = g[r] * r.messages_sent
      BY <1>3, Zenon DEF Product, Received, Sent
    <2>3. g[r] * r.errors = 0
      BY <1>4, Zenon DEF Product, Errors, NoEntries
    <2>4. r.messages_received = r.messages_sent
      BY <1>5, <2>1, <2>2
    <2>5. r.errors = 0
      BY <1>5, <2>1, <2>3
    <2>6. r.messages_received = Messages
      BY <2>1, <2>4, <2>5, ReportForm DEF Consistent
    <2> QED
      BY <1>2, <2>1, <2>5, <2>6, ReportForm, ReportFields DEF Consistent
  <1>6. Min(Latencies(g)) > 0
    <2>1. g # NoEntries
      BY <1>2, CountPositive DEF Count
    <2>2. PICK r \in Report : g[r] > 0 /\ Min(Latencies(g)) = r.average_latency_ms
      BY <2>1, LeastLatency DEF Latencies
    <2>3. g[r] # 0
      BY <1>1, <2>2
    <2> QED
      BY <1>5, <2>2, <2>3
  <1>7. ASSUME NEW r \in Report, g[r] > 0
        PROVE  r.connection_success /\ r.messages_received = Messages
    BY <1>1, <1>5, <1>7
  <1> QED
    BY <1>6, <1>7

-----------------------------------------------------------------------------
(* Files *)

\* The rows a process writes: those of the groups, in the order of their scenarios.
LEMMA RowsOfGroups ==
  ASSUME TypeOK
  PROVE  LET S == {s \in Scenario : all_data[s] # NoEntries} IN
         /\ Rows \in Seq(ResultRow)
         /\ \A i \in DOMAIN Rows :
               LET s == Rows[i].scenario IN s \in S /\ Rows[i] = Row(s, all_data[s])
         /\ \A s \in S : \E i \in DOMAIN Rows : Rows[i].scenario = s
         /\ \A i, j \in DOMAIN Rows : i < j => Before(Rows[i].scenario, Rows[j].scenario)
  <1> DEFINE S == {s \in Scenario : all_data[s] # NoEntries}
             n == Cardinality(S)
             q == Sorted(S)
  <1>1. /\ n \in Nat /\ q \in [1 .. n -> S]
        /\ \A i, j \in 1 .. n : i < j => Before(q[i], q[j])
        /\ \A s \in S : \E i \in 1 .. n : q[i] = s
    <2>1. S \in SUBSET Scenario
      OBVIOUS
    <2> HIDE DEF S
    <2> QED
      BY <2>1, SortedIsSorted
  <1>2. Rows = [i \in DOMAIN q |-> Row(q[i], all_data[q[i]])]
    BY DEF Rows
  <1>3. DOMAIN q = 1 .. n
    <2> HIDE DEF q, n
    <2> QED
      BY <1>1
  <1>4. Rows = [i \in 1 .. n |-> Row(q[i], all_data[q[i]])]
    <2> HIDE DEF q, n
    <2> QED
      BY <1>2, <1>3, Zenon
  <1>5. ASSUME NEW i \in 1 .. n
        PROVE  /\ q[i] \in S
               /\ Rows[i] = Row(q[i], all_data[q[i]])
               /\ Rows[i].scenario = q[i] /\ Rows[i] \in ResultRow
    <2>1. q[i] \in S
      BY <1>1
    <2>2. Rows[i] = Row(q[i], all_data[q[i]])
      <3> HIDE DEF q, n
      <3> QED
        BY <1>4
    <2> DEFINE s == q[i]
    <2>3. s \in Scenario /\ all_data[s] \in Group /\ all_data[s] # NoEntries
      BY <2>1 DEF TypeOK, Group
    <2>4. Row(s, all_data[s]) \in ResultRow /\ Row(s, all_data[s]).scenario = s
      <3> HIDE DEF s
      <3> QED
        BY <2>3, RowType
    <2> QED
      BY <2>1, <2>2, <2>4
  <1> HIDE DEF q, n, S
  <1>6. DOMAIN Rows = 1 .. n /\ Rows \in Seq(ResultRow)
    <2>1. Rows \in [1 .. n -> ResultRow]
      BY <1>4, <1>5
    <2> QED
      BY <1>1, <2>1
  <1> QED
    BY <1>1, <1>5, <1>6 DEF S

\* The rows of two files, one after the other.
LEMMA RowsJoin ==
  ASSUME NEW T, NEW a \in Seq(T), NEW b \in Seq(T)
  PROVE  /\ a \o b \in Seq(T)
         /\ DOMAIN (a \o b) = 1 .. (Len(a) + Len(b))
         /\ DOMAIN a = 1 .. Len(a) /\ DOMAIN b = 1 .. Len(b)
         /\ Len(a) \in Nat /\ Len(b) \in Nat
         /\ \A i \in DOMAIN (a \o b) :
               \/ i \in DOMAIN a /\ (a \o b)[i] = a[i]
               \/ i - Len(a) \in DOMAIN b /\ (a \o b)[i] = b[i - Len(a)]
         /\ \A i \in DOMAIN a : i \in DOMAIN (a \o b) /\ (a \o b)[i] = a[i]
         /\ \A i \in DOMAIN b : i + Len(a) \in DOMAIN (a \o b) /\ (a \o b)[i + Len(a)] = b[i]
  OBVIOUS

\* The combined file has a row for a scenario exactly if process_logs.py took entries
\* from its log, and its rows are in the order of the scenarios.
LEMMA CombinedRows ==
  ASSUME IInv, lang = 4
  PROVE  LET rows == combined.rows IN
         /\ \A i \in DOMAIN rows :
               LET s == rows[i].scenario
               IN  /\ s \in Scenario /\ Entries(s) # NoEntries
                   /\ rows[i] = Row(s, Entries(s))
                   /\ i \in DOMAIN csv[1].rows <=> s[1] = 1
         /\ \A s \in Scenario : Entries(s) # NoEntries =>
               \E i \in DOMAIN rows : rows[i].scenario = s
         /\ \A i, j \in DOMAIN rows : i < j => Before(rows[i].scenario, rows[j].scenario)
  <1> DEFINE a == csv[1].rows
             b == csv[2].rows
             rows == combined.rows
  <1>1. a \in Seq(ResultRow) /\ b \in Seq(ResultRow) /\ rows = a \o b
    <2>1. csv[1] \in CsvFile /\ csv[2] \in CsvFile
      BY DEF IInv, TypeOK
    <2>2. a \in Seq(ResultRow) /\ b \in Seq(ResultRow)
      BY <2>1 DEF CsvFile
    <2>3. combined = File(csv[1].header, a \o b)
      BY DEF IInv, Joined
    <2>4. combined.rows = a \o b
      <3> HIDE DEF a, b
      <3> QED
        BY <2>3 DEF File
    <2> QED
      BY <2>2, <2>4
  <1>2. ASSUME NEW i \in DOMAIN a
        PROVE  /\ a[i].scenario \in Scenario /\ a[i].scenario[1] = 1
               /\ Entries(a[i].scenario) # NoEntries
               /\ a[i] = Row(a[i].scenario, Entries(a[i].scenario))
    <2>1. Filed(1)
      BY DEF IInv
    <2>2. a[i].scenario \in Kept(1) /\ a[i] = Row(a[i].scenario, Entries(a[i].scenario))
      BY <2>1 DEF Filed
    <2> QED
      BY <2>2, OfLanguage DEF Kept
  <1>3. ASSUME NEW i \in DOMAIN b
        PROVE  /\ b[i].scenario \in Scenario /\ b[i].scenario[1] = 2
               /\ Entries(b[i].scenario) # NoEntries
               /\ b[i] = Row(b[i].scenario, Entries(b[i].scenario))
    <2>1. Filed(2)
      BY DEF IInv
    <2>2. b[i].scenario \in Kept(2) /\ b[i] = Row(b[i].scenario, Entries(b[i].scenario))
      BY <2>1 DEF Filed
    <2> QED
      BY <2>2, OfLanguage DEF Kept
  <1>4. ASSUME NEW s \in Scenario, Entries(s) # NoEntries
        PROVE  \/ \E i \in DOMAIN a : a[i].scenario = s
               \/ \E i \in DOMAIN b : b[i].scenario = s
    <2>1. Filed(1) /\ Filed(2)
      BY DEF IInv
    <2>2. s \in Kept(1) \/ s \in Kept(2)
      BY <1>4 DEF Kept, Scenario
    <2> QED
      BY <2>1, <2>2 DEF Filed
  <1>5. /\ \A i, j \in DOMAIN a : i < j => Before(a[i].scenario, a[j].scenario)
        /\ \A i, j \in DOMAIN b : i < j => Before(b[i].scenario, b[j].scenario)
    BY DEF IInv, Filed
  <1> HIDE DEF a, b, rows
  <1>6. ASSUME NEW i \in DOMAIN rows
        PROVE  \/ i \in DOMAIN a /\ rows[i] = a[i]
               \/ i \notin DOMAIN a /\ i - Len(a) \in DOMAIN b /\ rows[i] = b[i - Len(a)]
    BY <1>1, RowsJoin
  <1>7. ASSUME NEW i \in DOMAIN rows
        PROVE  LET s == rows[i].scenario
               IN  /\ s \in Scenario /\ Entries(s) # NoEntries
                   /\ rows[i] = Row(s, Entries(s))
                   /\ i \in DOMAIN a <=> s[1] = 1
    BY <1>2, <1>3, <1>6
  <1>8. ASSUME NEW s \in Scenario, Entries(s) # NoEntries
        PROVE  \E i \in DOMAIN rows : rows[i].scenario = s
    <2>1. CASE \E i \in DOMAIN a : a[i].scenario = s
      BY <1>1, <2>1, RowsJoin
    <2>2. CASE \E i \in DOMAIN b : b[i].scenario = s
      <3>1. PICK i \in DOMAIN b : b[i].scenario = s
        BY <2>2
      <3>2. i + Len(a) \in DOMAIN rows /\ rows[i + Len(a)] = b[i]
        BY <1>1, RowsJoin
      <3> QED
        BY <3>1, <3>2
    <2> QED
      BY <1>4, <1>8, <2>1, <2>2
  <1>9. ASSUME NEW i \in DOMAIN rows, NEW j \in DOMAIN rows, i < j
        PROVE  Before(rows[i].scenario, rows[j].scenario)
    <2>1. /\ Len(a) \in Nat /\ DOMAIN rows = 1 .. (Len(a) + Len(b)) /\ Len(b) \in Nat
          /\ DOMAIN a = 1 .. Len(a)
      BY <1>1, RowsJoin
    <2>2. CASE j \in DOMAIN a
      <3>1. i \in DOMAIN a
        BY <1>9, <2>1, <2>2
      <3> QED
        BY <1>5, <1>6, <1>9, <2>2, <3>1
    <2>3. CASE i \notin DOMAIN a
      <3>1. j \notin DOMAIN a /\ i - Len(a) < j - Len(a)
        BY <1>9, <2>1, <2>3
      <3> QED
        BY <1>5, <1>6, <2>3, <3>1
    <2>4. CASE i \in DOMAIN a /\ j \notin DOMAIN a
      <3>1. rows[i].scenario[1] = 1 /\ rows[j].scenario[1] = 2
        BY <1>2, <1>3, <1>6, <2>4
      <3> QED
        BY <3>1 DEF Before
    <2> QED
      BY <2>2, <2>3, <2>4
  <1> QED
    BY <1>7, <1>8, <1>9 DEF rows, a

-----------------------------------------------------------------------------
(* The invariant *)

\* At the start nothing is read and nothing is written.
LEMMA InitIInv == Init => IInv
  <1> SUFFICES ASSUME Init PROVE IInv
    OBVIOUS
  <1>0. dir \in [Scenario -> Log] /\ \A s \in Scenario : InLanguage(dir[s], Language(s[1]))
    <2>1. PICK a \in [Of(1) -> LogIn(Language(1))], b \in [Of(2) -> LogIn(Language(2))] :
                dir = [s \in Scenario |-> IF s[1] = 1 THEN a[s] ELSE b[s]]
      BY DEF Init
    <2>2. ASSUME NEW s \in Scenario
          PROVE  dir[s] \in LogIn(Language(s[1]))
      <3>1. CASE s[1] = 1
        BY <2>1, <3>1, ScenarioForm
      <3>2. CASE s[1] = 2
        BY <2>1, <3>2, ScenarioForm
      <3> QED
        BY <3>1, <3>2, ScenarioForm
    <2> QED
      BY <2>1, <2>2 DEF LogIn
  <1>1. NoEntries \in Group
    BY ParametersAssumption DEF NoEntries, Group
  <1>2. File(FALSE, << >>) \in CsvFile
    BY DEF File, CsvFile
  <1>3. TypeOK
    <2>1. unread \subseteq Scenario /\ lang \in 1 .. 4
      BY DEF Init, Scenario
    <2>2. all_data \in [Scenario -> Group] /\ \A s \in Scenario : all_data[s] = NoEntries
      BY <1>1 DEF Init
    <2>3. csv \in [1 .. 2 -> CsvFile] /\ combined \in CsvFile
      BY <1>2 DEF Init
    <2> QED
      BY <1>0, <2>1, <2>2, <2>3 DEF Init, TypeOK, Group
  <1>4. Reading
    BY OfLanguage, ScenarioForm DEF Init, Reading
  <1>5. Joined /\ lang = 1
    BY DEF Init, Joined, File
  <1> QED
    BY <1>3, <1>4, <1>5 DEF IInv

\* Reading a log adds the entries of its scenario, if it is taken for a log.
LEMMA ReadLogKeeps ==
  ASSUME IInv, NEW s \in Scenario, ReadLog(s)
  PROVE  IInv'
  <1>1. s \in unread /\ s[1] = lang /\ all_data[s] = NoEntries
    BY DEF IInv, Reading, ReadLog
  <1>2. all_data' = [all_data EXCEPT ![s] = Entries(s)]
    <2>1. CASE IsLog(dir[s])
      BY <2>1 DEF ReadLog, Entries
    <2>2. CASE ~IsLog(dir[s])
      <3>1. Entries(s) = all_data[s] /\ all_data' = all_data
        BY <1>1, <2>2 DEF ReadLog, Entries
      <3> QED
        BY <3>1 DEF IInv, TypeOK
    <2> QED
      BY <2>1, <2>2
  <1>3. \A t \in Scenario : Entries(t)' = Entries(t)
    BY DEF ReadLog, Entries, IsLog
  <1>4. Entries(s) \in Group
    <2>1. dir[s] \in Log
      BY DEF IInv, TypeOK
    <2> QED
      BY <2>1, LogForm, ParametersAssumption DEF Entries, Group, NoEntries
  <1>5. Reading'
    <2>1. \A t \in unread' : t[1] = lang'
      BY DEF IInv, Reading, ReadLog
    <2>2. ASSUME NEW t \in Scenario
          PROVE  all_data'[t] = IF t[1] = lang' /\ t \notin unread'
                                THEN Entries(t)' ELSE NoEntries
      <3>1. all_data[t] = IF t[1] = lang /\ t \notin unread THEN Entries(t) ELSE NoEntries
        BY DEF IInv, Reading
      <3>2. lang' = lang /\ unread' = unread \ {s}
        BY DEF ReadLog
      <3>3. all_data'[t] = IF t = s THEN Entries(s) ELSE all_data[t]
        BY <1>2 DEF IInv, TypeOK
      <3> QED
        BY <1>1, <1>3, <3>1, <3>2, <3>3
    <2> QED
      BY <2>1, <2>2 DEF Reading
  <1>6. TypeOK'
    <2>1. all_data' \in [Scenario -> [Report -> 0 .. Clients]]
      BY <1>2, <1>4 DEF IInv, TypeOK, Group
    <2>2. \A t \in Scenario : all_data'[t] # NoEntries => t[1] = lang' /\ t \notin unread'
      BY <1>5 DEF Reading
    <2> QED
      BY <2>1, <2>2 DEF IInv, TypeOK, ReadLog, Language
  <1>7. \A l \in 1 .. 2 : l < lang' => Filed(l)'
    <2>1. ASSUME NEW l \in 1 .. 2, l < lang'
          PROVE  Filed(l)'
      <3>1. Filed(l) /\ csv' = csv /\ version' = version
        BY <2>1 DEF IInv, ReadLog
      <3>2. Kept(l)' = Kept(l)
        BY <1>3, OfLanguage DEF Kept
      <3>3. \A t \in Kept(l) : Entries(t)' = Entries(t)
        BY <1>3, OfLanguage DEF Kept
      <3> QED
        BY <3>1, <3>2, <3>3 DEF Filed
    <2> QED
      BY <2>1
  <1>8. Joined'
    BY DEF IInv, Joined, ReadLog
  <1> QED
    BY <1>5, <1>6, <1>7, <1>8 DEF IInv

\* Writing the file of a language gives it a row for each scenario with entries.
LEMMA WriteCsvKeeps ==
  ASSUME IInv, WriteCsv
  PROVE  IInv'
  <1>1. /\ lang \in 1 .. 2 /\ lang' = lang + 1 /\ unread = {}
        /\ lang' \in 2 .. 3
    BY DEF WriteCsv
  <1> DEFINE S == {s \in Scenario : all_data[s] # NoEntries}
  <1>2. S = Kept(lang) /\ \A s \in S : all_data[s] = Entries(s)
    BY <1>1, ScenarioForm, OfLanguage DEF IInv, Reading, Kept
  <1>3. \A s \in Scenario : Entries(s)' = Entries(s)
    BY DEF WriteCsv, Entries, IsLog
  <1>4. /\ Rows \in Seq(ResultRow)
        /\ \A i \in DOMAIN Rows :
              LET s == Rows[i].scenario IN s \in S /\ Rows[i] = Row(s, all_data[s])
        /\ \A s \in S : \E i \in DOMAIN Rows : Rows[i].scenario = s
        /\ \A i, j \in DOMAIN Rows : i < j => Before(Rows[i].scenario, Rows[j].scenario)
    BY RowsOfGroups DEF IInv
  <1> HIDE DEF S
  <1>5. csv' = [csv EXCEPT ![lang] = File(Header, Rows)] /\ csv \in [1 .. 2 -> CsvFile]
    BY DEF WriteCsv, IInv, TypeOK
  <1>6. /\ csv'[lang].rows = Rows /\ csv'[lang].header = Header
        /\ \A l \in 1 .. 2 : l # lang => csv'[l] = csv[l]
    BY <1>1, <1>5 DEF File
  <1>7. \A l \in 1 .. 2 : Kept(l)' = Kept(l) /\ \A s \in Kept(l) : Entries(s)' = Entries(s)
    BY <1>3, OfLanguage DEF Kept
  <1>8. ASSUME NEW l \in 1 .. 2, l = lang
        PROVE  Filed(l)'
    <2>1. \A i \in DOMAIN Rows :
            /\ Rows[i].scenario \in Kept(l)
            /\ Rows[i] = Row(Rows[i].scenario, Entries(Rows[i].scenario))
      BY <1>2, <1>4, <1>8
    <2>2. \A s \in Kept(l) : \E i \in DOMAIN Rows : Rows[i].scenario = s
      BY <1>2, <1>4, <1>8
    <2>3. /\ csv'[l].header <=> Rows # << >> \/ version' = 3
          /\ csv'[l].rows = Rows
      BY <1>6, <1>8 DEF Header, WriteCsv
    <2>4. dir' = dir /\ version' = version
      BY DEF WriteCsv
    <2>5. ASSUME NEW i \in DOMAIN csv'[l].rows
          PROVE  LET s == csv'[l].rows[i].scenario IN
                 /\ s \in Kept(l)
                 /\ csv'[l].rows[i] =
                       Row(s, IF version' = 4 => dir'[s].complete
                              THEN dir'[s].entries ELSE NoEntries)
      BY <2>1, <2>3, <2>4 DEF Entries, IsLog
    <2>6. \A s \in Kept(l) : \E i \in DOMAIN csv'[l].rows : csv'[l].rows[i].scenario = s
      BY <2>2, <2>3
    <2>7. \A i, j \in DOMAIN csv'[l].rows :
             i < j => Before(csv'[l].rows[i].scenario, csv'[l].rows[j].scenario)
      BY <1>4, <2>3
    <2>8. csv'[l].header <=> csv'[l].rows # << >> \/ version' = 3
      BY <2>3
    <2>9. Kept(l)' = Kept(l)
      BY <1>7
    <2> HIDE DEF Kept
    <2> QED
      BY <2>5, <2>6, <2>7, <2>8, <2>9 DEF Filed, Entries, IsLog
  <1>9. \A l \in 1 .. 2 : l < lang' => Filed(l)'
    <2>1. ASSUME NEW l \in 1 .. 2, l < lang', l # lang
          PROVE  Filed(l)'
      <3>1. Filed(l) /\ csv'[l] = csv[l] /\ version' = version
        BY <1>1, <1>6, <2>1 DEF IInv, WriteCsv
      <3> QED
        BY <1>7, <3>1 DEF Filed
    <2> QED
      BY <1>8, <2>1
  <1>10. Reading'
    <2>1. \A s \in unread' : s[1] = lang'
      BY <1>1, OfLanguage DEF WriteCsv
    <2>2. ASSUME NEW s \in Scenario
          PROVE  ~(s[1] = lang' /\ s \notin unread')
      BY <1>1, ScenarioForm DEF WriteCsv
    <2>3. \A s \in Scenario : all_data'[s] = NoEntries
      BY DEF WriteCsv
    <2> QED
      BY <2>1, <2>2, <2>3 DEF Reading
  <1>11. TypeOK'
    <2>1. NoEntries \in [Report -> 0 .. Clients]
      BY ParametersAssumption DEF NoEntries
    <2>2. /\ all_data' \in [Scenario -> [Report -> 0 .. Clients]]
          /\ \A s \in Scenario : all_data'[s] = NoEntries
      BY <2>1 DEF WriteCsv
    <2>3. csv' \in [1 .. 2 -> CsvFile]
      <3>1. Header \in BOOLEAN
        BY DEF Header
      <3>2. File(Header, Rows) \in CsvFile
        BY <1>4, <3>1 DEF File, CsvFile
      <3> QED
        BY <1>1, <1>5, <3>2
    <2>4. unread' \subseteq Scenario /\ lang' \in 1 .. 4
      BY <1>1, OfLanguage DEF WriteCsv
    <2> QED
      BY <2>2, <2>3, <2>4 DEF IInv, TypeOK, WriteCsv, Language
  <1>12. Joined'
    BY <1>1 DEF IInv, Joined, WriteCsv
  <1> QED
    BY <1>9, <1>10, <1>11, <1>12 DEF IInv

\* Combining joins the two files.
LEMMA CombineKeeps ==
  ASSUME IInv, Combine
  PROVE  IInv'
  <1>1. lang = 3 /\ lang' = 4
    BY DEF Combine
  <1>2. \A s \in Scenario : Entries(s)' = Entries(s)
    BY DEF Combine, Entries, IsLog
  <1>3. unread = {} /\ \A s \in Scenario : all_data[s] = NoEntries
    <2>1. ASSUME NEW s \in Scenario
          PROVE  s[1] # lang /\ s[1] # lang'
      BY <1>1, ScenarioForm
    <2> QED
      BY <2>1 DEF IInv, TypeOK, Reading
  <1>4. Reading'
    <2>1. ASSUME NEW s \in Scenario
          PROVE  s[1] # lang'
      BY <1>1, ScenarioForm
    <2> QED
      BY <1>3, <2>1 DEF Reading, Combine
  <1>5. combined' \in CsvFile
    <2>1. /\ csv[1].rows \in Seq(ResultRow) /\ csv[2].rows \in Seq(ResultRow)
          /\ csv[1].header \in BOOLEAN
      <3>1. csv[1] \in CsvFile /\ csv[2] \in CsvFile
        BY DEF IInv, TypeOK
      <3> QED
        BY <3>1 DEF CsvFile
    <2>2. csv[1].rows \o csv[2].rows \in Seq(ResultRow)
      BY <2>1, RowsJoin
    <2> QED
      BY <2>1, <2>2 DEF Combine, File, CsvFile
  <1>6. TypeOK'
    BY <1>1, <1>3, <1>5 DEF IInv, TypeOK, Combine, Language
  <1>7. ASSUME NEW l \in 1 .. 2
        PROVE  Filed(l)'
    <2>1. Filed(l) /\ csv' = csv /\ version' = version
      BY <1>1 DEF IInv, Combine
    <2>2. Kept(l)' = Kept(l) /\ \A s \in Kept(l) : Entries(s)' = Entries(s)
      BY <1>2, OfLanguage DEF Kept
    <2> QED
      BY <2>1, <2>2 DEF Filed
  <1>8. Joined'
    BY <1>1 DEF Joined, Combine
  <1> QED
    BY <1>4, <1>6, <1>7, <1>8 DEF IInv

\* No step violates the invariant.
LEMMA NextIInv == IInv /\ [Next]_vars => IInv'
  <1> SUFFICES ASSUME IInv, [Next]_vars PROVE IInv'
    OBVIOUS
  <1>1. CASE WriteCsv
    BY <1>1, WriteCsvKeeps
  <1>2. CASE Combine
    BY <1>2, CombineKeeps
  <1>3. CASE \E s \in Scenario : ReadLog(s)
    BY <1>3, ReadLogKeeps
  <1>4. CASE UNCHANGED vars
    <2>1. TypeOK' /\ Joined'
      BY <1>4 DEF vars, IInv, TypeOK, Joined, Language
    <2>2. Reading'
      BY <1>4 DEF vars, IInv, Reading, Entries, IsLog
    <2>3. ASSUME NEW l \in 1 .. 2
          PROVE  Filed(l)' <=> Filed(l)
      BY <1>4 DEF vars, Filed, Kept, Entries, IsLog
    <2>4. lang' = lang
      BY <1>4 DEF vars
    <2> QED
      BY <2>1, <2>2, <2>3, <2>4 DEF IInv
  <1> QED
    BY <1>1, <1>2, <1>3, <1>4 DEF Next

\* IInv is an invariant: what is in memory, in the files and in the combined file is
\* what process_logs.py takes from the logs, at each step.
THEOREM ResultsInvariance == Spec => []IInv
  BY InitIInv, NextIInv, PTL DEF Spec

-----------------------------------------------------------------------------
(* What the combined file says *)

\* The variables, the files of both languages among them, have their types.
THEOREM ResultsTypeCorrect == Spec => []TypeOK
  <1>1. IInv => TypeOK
    BY DEF IInv
  <1> QED
    BY <1>1, ResultsInvariance, PTL

\* What process_logs.py takes: in version 4 nothing of a Job that did not complete; of
\* one that completed, the report of each client.
LEMMA TakenEntries ==
  ASSUME TypeOK, NEW s \in Scenario
  PROVE  /\ Entries(s) \in Group
         /\ dir[s].complete => Count(Entries(s)) = Clients
         /\ Entries(s) # NoEntries <=> IF version = 4 THEN dir[s].complete
                                                     ELSE Count(dir[s].entries) > 0
  <1>1. /\ dir[s].entries \in Group
        /\ dir[s].complete => Count(dir[s].entries) = Clients
    BY LogForm DEF TypeOK
  <1>2. NoEntries \in Group /\ Clients > 0
    BY ParametersAssumption DEF NoEntries, Group
  <1>3. dir[s].entries # NoEntries <=> Count(dir[s].entries) > 0
    BY <1>1, CountPositive
  <1> QED
    BY <1>1, <1>2, <1>3 DEF Entries, IsLog, TypeOK

\* A completed Job of version 4 has a row, one that was given up has none, and the row
\* of a completed Job counts all clients (process_logs.py:20-35, 68-69).
THEOREM RowsAreOfWholeRuns == Spec => []RowsOfWholeRuns
  <1>1. IInv => RowsOfWholeRuns
    <2> SUFFICES ASSUME IInv, lang = 4, NEW s \in Scenario
                 PROVE  LET rows == {r \in Written : r.scenario = s} IN
                        /\ rows # {} <=> (IF version = 4 THEN dir[s].complete
                                          ELSE Count(dir[s].entries) > 0)
                        /\ \A r \in rows : \/ r.total_connections_attempted = Clients
                                           \/ ~dir[s].complete
      BY DEF RowsOfWholeRuns
    <2> DEFINE rows == {r \in Written : r.scenario = s}
    <2>1. /\ Entries(s) # NoEntries <=> IF version = 4 THEN dir[s].complete
                                                      ELSE Count(dir[s].entries) > 0
          /\ dir[s].complete => Count(Entries(s)) = Clients
      BY TakenEntries DEF IInv
    <2>2. rows # {} <=> Entries(s) # NoEntries
      BY CombinedRows DEF Written
    <2>3. ASSUME NEW r \in rows
          PROVE  r.total_connections_attempted = Count(Entries(s))
      <3>1. r = Row(s, Entries(s))
        BY <2>3, CombinedRows DEF Written
      <3> QED
        BY <3>1, RowForm DEF Count
    <2> QED
      BY <2>1, <2>2, <2>3
  <1> QED
    BY <1>1, ResultsInvariance, PTL

\* No scenario has two rows, and the rows are in the order of language and number, in
\* whatever order the files were listed (process_logs.py:29, 68-78).
THEOREM RowsAreInOrder == Spec => []OneRowEach
  <1>1. IInv => OneRowEach
    <2> SUFFICES ASSUME IInv PROVE OneRowEach
      OBVIOUS
    <2>1. CASE lang = 4
      BY <2>1, CombinedRows DEF OneRowEach
    <2>2. CASE lang # 4
      <3>1. combined.rows = << >>
        BY <2>2 DEF IInv, Joined
      <3> QED
        BY <3>1 DEF OneRowEach
    <2> QED
      BY <2>1, <2>2
  <1> QED
    BY <1>1, ResultsInvariance, PTL

\* The rows have a header, but for the case in which version 4 has rows of the second
\* language alone (process_logs.py:59; run_tests.sh:239).
THEOREM HeaderIsFirst == Spec => []HeaderIsThere
  <1>1. IInv => HeaderIsThere
    <2> SUFFICES ASSUME IInv, combined.rows # << >>, ~combined.header
                 PROVE  version = 4 /\ \A r \in Written : r.scenario[1] = 2
      BY DEF HeaderIsThere
    <2>1. lang = 4
      BY DEF IInv, Joined
    <2>2. combined.header = csv[1].header
      BY <2>1 DEF IInv, Joined, File
    <2>3. csv[1].rows = << >> /\ version # 3
      BY <2>1, <2>2 DEF IInv, Filed
    <2>4. \A i \in DOMAIN combined.rows :
             combined.rows[i].scenario \in Scenario /\ combined.rows[i].scenario[1] # 1
      BY <2>1, <2>3, CombinedRows
    <2>5. \A r \in Written : r.scenario[1] = 2
      BY <2>4, ScenarioForm DEF Written
    <2> QED
      BY <2>3, <2>5 DEF IInv, TypeOK
  <1> QED
    BY <1>1, ResultsInvariance, PTL

\* The sums of a row hide no client's fault: if it is full, without errors, and as many
\* messages were received as sent, each of the reports in the log behind it is of a client
\* that connected and counted a reply to every message (process_logs.py:69-83).  These were
\* whole in C++ (client.cpp:79-89); in Go a part of a reply may have been lost
\* (client.go:69), and in Python a reply may not have come at all (src/v3/client.py:40-44).
THEOREM RowsHideNoFaults == Spec => []RowHidesNoFault
  <1>1. IInv => RowHidesNoFault
    <2> SUFFICES ASSUME IInv, NEW r \in Written,
                        r.total_connections_attempted = Clients,
                        r.total_messages_received = r.total_messages_sent,
                        r.total_errors = 0
                 PROVE  /\ r.min_latency_ms > 0
                        /\ \A q \in Report : dir[r.scenario].entries[q] > 0 =>
                              /\ q.connection_success
                              /\ q.messages_received = Messages
                              /\ q.heard # "whole" => Language(r.scenario[1]) # "cpp"
                              /\ q.heard = "less" => Language(r.scenario[1]) = "py"
      BY DEF RowHidesNoFault
    <2>1. lang = 4
      BY DEF IInv, Joined, Written
    <2>2. PICK s \in Scenario : r = Row(s, Entries(s)) /\ Entries(s) # NoEntries
      BY <2>1, CombinedRows DEF Written
    <2> DEFINE g == Entries(s)
    <2>3. g \in Group
      BY TakenEntries DEF IInv
    <2> HIDE DEF g
    <2>4. /\ r.total_connections_attempted = SumFunction(g)
          /\ r.successful_connections = SumFunction(Product(g, Connections))
          /\ r.total_messages_sent = SumFunction(Product(g, Sent))
          /\ r.total_messages_received = SumFunction(Product(g, Received))
          /\ r.min_latency_ms = Min(Latencies(g))
          /\ r.total_errors = SumFunction(Product(g, Errors))
      <3>1. r = Row(s, g)
        BY <2>2 DEF g
      <3> QED
        BY <3>1, RowForm
    <2>5. /\ r.min_latency_ms > 0
          /\ \A q \in Report :
                g[q] > 0 => q.connection_success /\ q.messages_received = Messages
      BY <2>3, <2>4, FaultlessRow
    <2>6. r.scenario = s /\ dir[s].entries = g
      BY <2>2, RowForm DEF Entries, g
    <2>7. ASSUME NEW q \in Report, dir[s].entries[q] > 0
          PROVE  /\ q.heard # "whole" => Language(s[1]) # "cpp"
                 /\ q.heard = "less" => Language(s[1]) = "py"
      <3>1. <<Language(s[1]), q>> \in Printed
        BY <2>7 DEF IInv, TypeOK, InLanguage
      <3>2. q.heard \in HeardIn(Language(s[1]))
        BY <3>1 DEF Printed, Fits
      <3> QED
        BY <3>2 DEF HeardIn, Heard
    <2> QED
      BY <2>5, <2>6, <2>7
  <1> QED
    BY <1>1, ResultsInvariance, PTL

=============================================================================
