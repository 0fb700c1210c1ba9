------------------------------- MODULE Results ------------------------------
(***************************************************************************)
(* From the logs of the clients to results_combined.csv: process_logs.py   *)
(* of version 4 (Go, then C++) and of version 3 (Python, then Go), and the *)
(* function combine_csvs of their run_tests.sh.  Lines are of version 4.   *)
(***************************************************************************)
EXTENDS ClientReport, Sequences, FiniteSetsExt, Functions

CONSTANTS Scenarios, \* Scenarios[l]: how many the l-th language has
          Clients,   \* NUM_CONCURRENT_CLIENTS
          MaxAverage \* bound: the longest average latency, in ms

ASSUME ParametersAssumption ==
    /\ Scenarios \in [1 .. 2 -> Nat \ {0}]
    /\ Clients \in Nat \ {0} /\ Messages \in Nat \ {0} /\ MaxAverage \in Nat \ {0}

VARIABLES
    version,  \* 3 or 4
    dir,      \* dir[s]: the log of scenario s, and whether its Job completed
    lang,     \* the language being processed, 3: both are, 4: combined
    unread,   \* the scenarios of the language whose logs are still to be read
    all_data, \* all_data[s]: the entries read for scenario s
    csv,      \* csv[l]: results_<lang>.csv, its header and its rows
    combined  \* results_combined.csv

vars == <<version, dir, lang, unread, all_data, csv, combined>>

Of(l) == {<<l, n>> : n \in 1 .. Scenarios[l]}
Scenario == Of(1) \cup Of(2)
Before(s, t) == s[1] < t[1] \/ (s[1] = t[1] /\ s[2] < t[2])

\* A client's report, and with it what the client had heard, which it does not print.
Line == [connection_success : BOOLEAN, messages_sent : 0 .. Messages,
         messages_received : 0 .. Messages, average_latency_ms : 0 .. MaxAverage,
         errors : 0 .. 1, heard : Heard]

\* What a client in each language may print.  The average latency of no replies is 0.
Printed == {p \in Languages \X Line :
    /\ Fits(p[2], p[2].heard, p[1])
    /\ p[2].average_latency_ms = 0 <=> p[2].messages_received = 0}
Report == {p[2] : p \in Printed}

\* The clients' language.
Language(l) == IF version = 4 THEN <<"go", "cpp">>[l] ELSE <<"py", "go3">>[l]

\* A file holds so many of each report; their order tells the aggregates nothing.
Sum(entries, field(_)) == SumFunction([r \in Report |-> entries[r] * field(r)])
Count(entries) == SumFunction(entries)
NoEntries == [r \in Report |-> 0]

\* The log of a Job that completed holds the reports of all its clients, that of one
\* that failed or is late perhaps fewer.  process_logs.py skips the lines without
\* JSON, or with a part of it (l. 43, 53); they are left out here, and so is a log of
\* a completed Job that is cut as the campaign is aborted (RunTests!CollectFails).
Reports(least) == {e \in [Report -> 0 .. Clients] : Count(e) \in least .. Clients}
Log == {[complete |-> FALSE, entries |-> e] : e \in Reports(0)}
       \cup {[complete |-> TRUE, entries |-> e] : e \in Reports(Clients)}

\* Its entries are reports of clients in the language.
InLanguage(log, l) == \A r \in Report : log.entries[r] > 0 => <<l, r>> \in Printed
LogIn(l) == {log \in Log : InLanguage(log, l)}

ResultRow == [scenario : Scenario, total_connections_attempted : Nat,
              successful_connections : Nat, total_messages_sent : Nat,
              total_messages_received : Nat, min_latency_ms : Nat, total_errors : Nat]
CsvFile == [header : BOOLEAN, rows : Seq(ResultRow)]
File(header, rows) == [header |-> header, rows |-> rows]

TypeOK ==
    /\ version \in {3, 4}
    /\ dir \in [Scenario -> Log]
    /\ \A s \in Scenario : InLanguage(dir[s], Language(s[1]))
    /\ lang \in 1 .. 4
    /\ unread \subseteq Scenario
    /\ all_data \in [Scenario -> [Report -> 0 .. Clients]]
    /\ \A s \in Scenario : all_data[s] # NoEntries => s[1] = lang /\ s \notin unread
    /\ csv \in [1 .. 2 -> CsvFile]
    /\ combined \in CsvFile

Init ==
    /\ version \in {3, 4}
    /\ \E a \in [Of(1) -> LogIn(Language(1))], b \in [Of(2) -> LogIn(Language(2))] :
          dir = [s \in Scenario |-> IF s[1] = 1 THEN a[s] ELSE b[s]]
    /\ lang = 1
    /\ unread = Of(1)
    /\ all_data = [s \in Scenario |-> NoEntries]
    /\ csv = [l \in 1 .. 2 |-> File(FALSE, << >>)]
    /\ combined = File(FALSE, << >>)

-----------------------------------------------------------------------------
(* process_raw_logs *)

\* Mutant: the pattern of the names is not anchored at its end.
IsLogUnanchored(log) == TRUE

\* The driver of version 4 names the log of a Job that did not complete .json.failed,
\* which does not match; that of version 3 gives it the name of any other log.
IsLog(log) == version = 4 => log.complete

\* One of the files of os.listdir, whose order is arbitrary.
ReadLog(s) ==
    /\ s \in unread
    /\ unread' = unread \ {s}
    /\ all_data' = IF IsLog(dir[s])
                   THEN [all_data EXCEPT ![s] = dir[s].entries] ELSE all_data
    /\ UNCHANGED <<version, dir, lang, csv, combined>>

\* Mutant: the errors of clients without a connection are not counted.
TotalErrorsOfConnected(entries) ==
    Sum(entries, LAMBDA r : IF r.connection_success THEN r.errors ELSE 0)

TotalErrors(entries) == Sum(entries, LAMBDA r : r.errors)

\* The row of a scenario with a group of entries.
Row(s, group) ==
    [scenario |-> s,
     total_connections_attempted |-> Count(group),
     successful_connections |-> Sum(group, LAMBDA r : IF r.connection_success THEN 1 ELSE 0),
     total_messages_sent |-> Sum(group, LAMBDA r : r.messages_sent),
     total_messages_received |-> Sum(group, LAMBDA r : r.messages_received),
     min_latency_ms |-> Min({r.average_latency_ms : r \in {q \in Report : group[q] > 0}}),
     total_errors |-> TotalErrors(group)]

\* Mutant: the groups are sorted backwards.
SortedBackwards(S) == CHOOSE q \in [1 .. Cardinality(S) -> S] :
                          \A i, j \in DOMAIN q : i < j => Before(q[j], q[i])

\* The scenarios of a set in their order.
Sorted(S) == CHOOSE q \in [1 .. Cardinality(S) -> S] :
                 \A i, j \in DOMAIN q : i < j => Before(q[i], q[j])

\* groupby sorts the groups.
Rows == LET groups == Sorted({s \in Scenario : all_data[s] # NoEntries})
        IN  [i \in DOMAIN groups |-> Row(groups[i], all_data[groups[i]])]

\* Without data version 4 writes a file without columns, version 3 one with.
Header == Rows # << >> \/ version = 3

\* Mutant: the entries of the first language are still there for the second.
WriteCsvKeepsData ==
    /\ lang \in 1 .. 2 /\ unread = {}
    /\ csv' = [csv EXCEPT ![lang] = File(Header, Rows)]
    /\ lang' = lang + 1
    /\ unread' = IF lang = 1 THEN Of(2) ELSE {}
    /\ UNCHANGED <<version, dir, all_data, combined>>

\* The end of the process for one language; another is started for the next.
WriteCsv ==
    /\ lang \in 1 .. 2 /\ unread = {}
    /\ csv' = [csv EXCEPT ![lang] = File(Header, Rows)]
    /\ lang' = lang + 1
    /\ unread' = IF lang = 1 THEN Of(2) ELSE {}
    /\ all_data' = [s \in Scenario |-> NoEntries]
    /\ UNCHANGED <<version, dir, combined>>

-----------------------------------------------------------------------------
(* combine_csvs *)

\* Mutant: the header is that of the last file.
CombineLastHeader ==
    /\ lang = 3
    /\ lang' = 4
    /\ combined' = File(csv[2].header, csv[1].rows \o csv[2].rows)
    /\ UNCHANGED <<version, dir, unread, all_data, csv>>

\* The header is the first line of the first file; the rows are the other lines of
\* both.
Combine ==
    /\ lang = 3
    /\ lang' = 4
    /\ combined' = File(csv[1].header, csv[1].rows \o csv[2].rows)
    /\ UNCHANGED <<version, dir, unread, all_data, csv>>

Next == WriteCsv \/ Combine \/ \E s \in Scenario : ReadLog(s)

Spec == Init /\ [][Next]_vars

-----------------------------------------------------------------------------
(* Properties *)

Written == {combined.rows[i] : i \in DOMAIN combined.rows}

\* Version 4 has a row for a scenario exactly if its Job completed, and the row counts
\* each of its clients; version 3 has rows of given up Jobs among the others, which
\* may count fewer clients than the scenario names (process_logs.py:20-35, 68-69;
\* src/v3/run_tests.sh:186-198).
RowsOfWholeRuns ==
    lang = 4 => \A s \in Scenario :
        LET rows == {r \in Written : r.scenario = s} IN
        /\ rows # {} <=> (IF version = 4 THEN dir[s].complete ELSE Count(dir[s].entries) > 0)
        /\ \A r \in rows : r.total_connections_attempted = Clients \/ ~dir[s].complete

\* No scenario has two rows, and the rows of a language come together, although its
\* files were read in any order (process_logs.py:29, 68-78; run_tests.sh:239-241).
OneRowEach ==
    \A i, j \in DOMAIN combined.rows : i < j =>
        Before(combined.rows[i].scenario, combined.rows[j].scenario)

\* The rows have a header, unless version 4 found no log of Go: the header is taken
\* from its file, even if that has no columns (process_logs.py:59, run_tests.sh:239).
HeaderIsThere ==
    combined.rows # << >> =>
        combined.header \/ (version = 4 /\ \A r \in Written : r.scenario[1] = 2)

\* The sums of a row hide no client's fault.  If a row is of as many clients as the
\* scenario names, without errors, with as many messages received as sent, each of its
\* clients connected, counted a reply to every message and adds no latency of 0
\* (process_logs.py:69-83).  That a reply was counted says that all of it came in C++
\* only: in Go a part may have been lost (client.go:69), and in Python the whole, if the
\* server closed the connection (src/v3/client.py:40-44).
RowHidesNoFault ==
    \A r \in Written :
        /\ r.total_connections_attempted = Clients
        /\ r.total_messages_received = r.total_messages_sent
        /\ r.total_errors = 0
        => /\ r.min_latency_ms > 0
           /\ \A q \in Report : dir[r.scenario].entries[q] > 0 =>
                /\ q.connection_success
                /\ q.messages_received = Messages
                /\ q.heard # "whole" => Language(r.scenario[1]) # "cpp"
                /\ q.heard = "less" => Language(r.scenario[1]) = "py"

-----------------------------------------------------------------------------
(* A statement of the repository that the results do not keep *)

\* src/v3/readme.md:142 "uma taxa de sucesso de 100% ... sem perdas ou falhas de
\* conexão": a scenario_success_rate of 100% means that no connection failed.
RateMeansNoFailure ==
    \A r \in Written :
        r.total_messages_sent > 0 /\ r.total_messages_received = r.total_messages_sent
            => r.successful_connections = r.total_connections_attempted
=============================================================================
