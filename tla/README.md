# Verification of k8s-client-server-load-test

The repository measures TCP echo servers and clients written in several
languages on a Kubernetes cluster. `v4/` compares Go with C++, `v3/` is the
earlier comparison of Python with Go. This directory holds TLA+ models of the
parts whose behaviour is hard to test, their model-checking runs, and proofs.
Line numbers in the modules are those of the file named at the head of each.

## 1. Inventory

| Component | State | Operations | Hard because | Correct when |
|---|---|---|---|---|
| C++ echo server, `v4/server.cpp` | per session: socket, `data_[1024]`, reference count; the acceptor; the io_context's queue | accept, read, write, their handlers on a pool of threads | handlers of one session may run on any thread, without a strand; lifetime by captured `self`; partial reads and writes; clients that leave at any time | the echo is a prefix of what was sent; sessions are serial, alive while used, freed at the end; accepting never stops |
| C++ load client, `v4/client.cpp` | per thread: socket, counters, errors; `cout_mutex`; stdout | spawn, connect, write, exact read, report, join | replies in pieces, servers that close or fall silent, threads that end together, thread creation that fails | a counted reply is a whole echo; reports are truthful, whole lines, one per client |
| Campaign driver, `v4/run_tests.sh` | loop variables, the cluster (Deployment, Service, Jobs), files of results | build, clean up, deploy, scale, wait, launch, collect or salvage, combine | `set -e`, timeouts, Jobs that fail, never start, outlive their wait or expire; asynchronous rollouts and deletions | each scenario is settled once, in order, against the servers it names; only complete Jobs give results; it ends |
| Go server, `v4/server.go`, `v3/server.go` | per connection: socket, buffer | accept, read, write, deferred close | one buffer for all reads; clients that leave at any time | as the C++ server |
| Python server, `v4/server.py`, `v3/server.py` | per connection: the transport's write buffer | read, decode, write, drain, close | writes that are only buffered; chunks that do not decode | as the C++ server, but for chunks cut inside a character |
| Go client, `v4/client.go`, `v3/client.go` | as the C++ client | dial, write, one `Read` per reply, report | partial replies, EOF, one deadline for the whole connection | reports mean what the processing takes them to mean; it always ends |
| Python client, `v4/client.py`, `v3/client.py` | as the C++ client | gather, connect, write, one `read` per reply, report; a retry loop around `main` | EOF counted as a reply; errors swallowed before the retry loop sees them | as the Go client, but for silent servers |
| Log processing, `process_logs.py`, `combine_csvs` | logs of the Jobs, CSV files | read the logs, group, aggregate, join | files in any order, logs of failed Jobs, no data at all, clients that never connected | one row for each scenario measured; the sums of a row hide no fault a report shows |
| Campaign driver, `v3/run_tests.sh` | as v4's | as v4's, without `set -e` and without runs | failed commands go unnoticed; names without a run; clients that outlive their Job's deletion, while the servers stay | each scenario is settled once, in order; what failed is what is wrong |
| Statistics and graphs, `analyze_results.py`, `generate_graphs.py` | none | pandas over the CSV files | nothing concurrent | |
| `Dockerfile.*`, `test_build.sh`, `client.job.yaml` | none | build recipes | | |
| `include/asio`, `json.hpp`, `logs/` | | vendored libraries and recorded data | | |

How they interact: the driver builds images and deploys servers behind one
Service; for each scenario it creates a Job whose pod runs one client process;
each client thread opens one connection through the Service to some ready
server pod; the client prints one JSON line per thread, the driver copies the
pod's log to a file when the Job is complete, and the processing scripts read
the files. Servers and clients share nothing but TCP connections; the driver
and the programs share nothing but the cluster's objects.

`PROJECT.json` lists the hazards of the code, each at its line, with the
properties aimed at it.

## 2. Modules

| Module | Models | Uses |
|---|---|---|
| `EchoContract` | what an echo server promises: the returned stream is a prefix of the sent one | |
| `EchoServer` | `v4/server.cpp`, the io_context and the sockets | `EchoContract`, which it implements |
| `EchoServerProofs` | inductive invariant, theorems | `EchoServer` |
| `MCEchoServer` | instances for TLC | `EchoServerProofs` |
| `EchoHandler` | what the servers in Go and Python share: clients, streams, the steps of a handler | |
| `ServerGo`, `ServerPy` | `server.go` and `server.py` of both versions | `EchoHandler` |
| `EchoServers` | either of them, and their properties | `ServerGo`, `ServerPy`, `EchoContract`, which both implement |
| `EchoServersProofs` | inductive invariant, theorems | `EchoServers` |
| `LoadClient` | what the clients of all languages share, and the server as they see it | `EchoContract`, as its environment |
| `ClientCpp`, `ClientGo`, `ClientPy` | `v4/client.cpp`; `client.go` of both versions; `client.py` | `LoadClient` |
| `ClientReport` | what the processing of the logs takes for granted of a report | |
| `LoadClients` | any of them, and their properties | the three; `ClientReport`, which it guarantees |
| `LoadClientsProofs` | inductive invariant, theorems | `LoadClients` |
| `Cluster` | what the drivers see of Kubernetes: a Deployment, a Service, Jobs | |
| `Campaign` | what a campaign promises: every scenario settled once, in order, unless aborted | |
| `RunTests`, `MCRunTests` | `v4/run_tests.sh`; instances for TLC | `Cluster`; `Campaign`, which it implements |
| `RunTestsProofs` | inductive invariant, theorems | `RunTests` |
| `RunTestsV3`, `MCRunTestsV3` | `v3/run_tests.sh`; an instance for TLC | `Cluster`; `Campaign`, which it implements |
| `RunTestsV3Proofs` | inductive invariant, theorems | `RunTestsV3` |
| `Results`, `MCResults` | `process_logs.py` and `combine_csvs` of both versions; an instance for TLC | `ClientReport` |
| `Sums` | lemmas on sums over finite sets, and the induction they need | |
| `ResultsProofs` | inductive invariant, theorems | `Results`, `Sums` |

`EchoContract` joins the two ends of a connection: `EchoServer` and
`EchoServers` are shown to implement it, and the server in `LoadClient` is that
contract with the faults of a network. So what is checked of the clients holds
against each of the servers. `ClientReport` joins the clients and the processing
of their logs. A report does not tell what its client had read for the replies it
counted, so `ClientReport` says it beside the report: "whole" (as many bytes as
the replies have), "part" (a part of them, but a byte for each) or "less".
`Fits(r, heard, l)` says which pairs there are in language `l`: C++ counts only
whole replies, Go also parts, Python also what never came. `Results` computes its
rows from logs of all such reports, with `heard` as a history variable that
nothing in the code reads, and `ReportsFitResults` says that a client of each
language prints no other, having read just that.

Operators named after a mistake ("Mutant: ...") are not part of any
specification. Each is a variant of the definition below it, and the property
listed with it in `PROJECT.json` fails when it replaces that definition.

### EchoServer

An asynchronous operation goes through three places: `pending` (the kernel has
it), `ready` (its completion is in the queue of the io_context), `job[t]` (a
thread runs its handler). `Take` is `scheduler::do_run_one`; it may take any
queued completion, which includes the FIFO order of the queue and needs no
assumption on when the reactor enqueues. A handler is two steps: its body
(`HandleAccept`, `HandleRead`, `HandleWrite`, `HandleError`), which starts
operations that other threads can complete at once, and `Return`, when the
handler and its copy of `self` are destroyed. So a thread can still be inside
the read handler while another runs the write handler that it caused.

`opRef` and `runRef` are the copies of the `shared_ptr`: one per pending or
queued operation, one per running handler. `Return` frees the session when the
last goes. That is what `NoUseAfterFree` and `NoEarlyDrop` are about.

`data_` is an array whose bytes stay until a later read overwrites them; a
read overwrites only as many as it returns, and a write reads `data_` at the
moment of each send. A write of one byte per step stands for every way the
kernel may split a send. `wrote`, `taken` and `echoed` are the two streams of a
connection. What a broken connection does to bytes already sent does not
matter to the server, so the client's side of a stream is not tracked.

### ServerGo, ServerPy

`wrote` and `echoed` are the streams of a connection, `taken` the server's
cursor in the first, and `held` what the server still has to write: in Go the
slice inside `Write`, which blocks, so `Read` waits until it is empty; in
Python the buffer of the transport, which the event loop empties while the
coroutine goes on, and `drain` only stops the coroutine above `HighWater`. In
Go the end of the connection finds `held` empty or undeliverable; in Python
`close` lets the transport send the rest first ("closing"), unless the
connection is reset (`Lost`). Of a byte only its place in a UTF-8 character
matters, since `server.py` decodes each chunk for its log line: a chunk that
ends inside a character raises, and the connection is closed with that chunk
not echoed. The load clients send ASCII, so this does not touch the campaigns;
`CutCharacter` names the case in the properties.

### LoadClient and its languages

One process: `main` starts the clients and waits for them, `pc[c]` is where
client `c` is, `log[c]` its counters, `out` what is on stdout. The kernel takes
one byte per step; a read takes what has arrived. A connection may get a FIN or
a reset or fall silent at any moment. What differs:

- C++: `asio::read` takes pieces of any size until the message's length is
  reached, and an early end is an error. The mutex is held over two insertions
  into `std::cout`, two steps. If `std::thread` throws while other threads are
  joinable, the vector's destructor ends the process (`SpawnFails`).
- Go: one `Read` is a reply, whatever it returned. `DeadlinePasses` is the
  deadline of 60 s, set once: afterwards every call fails. `io.EOF` ends the
  loop, with an error in v3 and without a trace in v4 (`EofRecorded`).
- Python: one `read` is a reply too, and at the end of the stream it returns
  nothing and still is one. `gather` makes every task before any of them runs.

The retry loops of `v3/client.go` and `client.py` are in the model as what they
are: their body never fails, so it runs once.

`CountedReplyIsOwn` and `ReportTruthful` say what is promised in all languages
and name each exception with the language that makes it, so that a change of a
client towards another one's behaviour shows. With `Messages` = 0 a client that
cannot connect reports an error although no message went unanswered, which is
why `ReportTruthful` names that number.

### Cluster

`starting` and `ready` count the pods of each image; the Deployment controller
may create a pod, make one ready, or remove one whenever the default rolling
update allows it, and the Service has every ready pod. A Job moves through
pending, running, complete or failed at any time or never. `Delete` takes the
kinds of objects a command names. The label `app=client` selects the Jobs of
both drivers: v4 sets it on the Job, v3 on the pod template, from which the API
server gives it to a Job without labels of its own. In `Cluster` a deleted pod is
gone at once: v4 deletes clients and servers together, and v3, which keeps its
servers, has a variable of its own for the clients that are still there.

### RunTests

`pc` is the next command of the script and `at` its loop variables. The pairs
of `-c` and `-m` are one sequence, since nothing happens between their two
loops. Under `set -e` any command outside a condition may fail and end the
script: `CommandFails`; the waits may fail or time out in any state. Two commands
are apart. When `kubectl logs > "$raw_log_file"` fails, the shell has already
emptied the `.json` file: `CollectFails` leaves it in `cut`, and what is read from
it later may be nothing or a part. In `Salvage` the failure follows from the
state: `kubectl get ... .items[0]` fails when there is no pod, `kubectl logs` when
the container is being created, but not when no node was found for the pod yet,
whose log is empty; so of a Job that is pending either may happen. A finished Job expires some
time after its end; `JobExpires` has the only use of time in the model: the Job
being waited for cannot expire before its wait of less than 300 s ends, because
it ended after the wait began.

`Again` starts the script once more, after its end or its abortion, on the
cluster and the files it left: nothing is emptied. So each file carries the
number of the campaign that wrote it, and `CombinedIsComplete` can say which
rows of a combined file are of an earlier campaign: those of scenarios that
failed this time and have an old `.json` file. If that file was cut when the
campaign before ended, its row may count fewer clients, or be missing.

### RunTestsV3

The same loops without `set -e`. A command whose status is ignored either works
or `Loses`: it has no effect (or, for the three deletions, only some of it) and
the script goes on; `lost` remembers which kinds of commands did. The
properties are conditional on it: a failed `apply` is all that can spoil the
target, a failed deletion all that can let two Jobs exist at once.

Two Jobs are not two clients. `kubectl delete --wait=false` (l. 141) removes a Job at
once and its pod only marks for deletion; a client in Python is the first process
of its container, without a handler for SIGTERM, so it goes on sending to the same
servers until it is done or its grace period of 30 s is over. `ending` are the
Jobs whose pods do, and `PodEnds` ends one at any time. The model knows one thing
of time: a wait that times out has taken at least 120 s (l. 182), four grace
periods, so a pod that was `ending` when it began has ended (`WaitTimeout`),
unless there was no Job to wait for. A wait that fails takes no time
(`WaitFails`). `OneJobAtATime` says what follows: the next clients may share the
servers with one earlier client, never with two.

`log` says
whether this campaign wrote a file and whose reports it holds, because names
have no run in them and nobody removes them: a file, or a Job, of an earlier
campaign may pass for a new one, which `LogIsOfThisJob` confines to commands
that failed and pods that never started. `kubectl apply` of a Job that exists
fails, since its `CLIENT_ID` contains the time.

### Results

`dir` is the log of each scenario, with how many of each report that clients in
its language may print. A log holds fewer reports than clients only if its Job
did not complete; a log of a complete Job that is cut as the campaign is aborted
(`RunTests!cut`) is left out, since only a later campaign may read it. One action
reads a file, in any order; `Sorted` puts the groups into their order, as
`groupby` does, and the row of a group is computed as in the code and kept as a
record, without the mean and the maximum of latencies, which are of no
consequence to the properties. Lines that are not JSON are skipped by the code
and left out of the model.

## 3. Runs

| Run | Question | Instance | States |
|---|---|---|---|
| `echo_stream` | Is the echo faithful, and the contract implemented, however streams are cut? | 1 connection, 2 byte values, 2 threads, buffer of 2, streams of up to 5 | 368,679 |
| `echo_pool` | Are sessions serial, alive while used, never dropped early, and is one accept always in flight? Does the inductive invariant hold? | 2 connections, 2 threads, buffer of 2, streams of up to 2 | 406,892 |
| `echo_live` | Is every connection accepted, every byte echoed, every session released? | 2 connections, 1 thread, buffer of 1, streams of up to 2 | 70,742 |
| `servers` | Do the servers in Go and Python implement the contract, hold a bounded part of a stream, echo every byte and release every connection? | 1 connection, reads of up to 2, streams of up to 6, `HighWater` 1 | 6,886 |
| `clients` | What do replies and reports mean in each language, can the processing rely on them, are lines whole, and does the process end? | 2 clients, 2 messages of 2 bytes, 4 clients' programs | 308,247 |
| `campaign_runs` | Do results stand for complete Jobs, cover every scenario, and do given-up Jobs end before the next servers start, also over what an earlier campaign left? | 2 campaigns of 1 run, 2 languages, 1 number of servers, 2 loads | 2,063,728 |
| `campaign_servers` | Does each Job run against a Deployment asked for its servers, and does the script end? | 1 run, 2 languages, 4 then 2 servers, 1 load | 56,498 |
| `campaign_v3` | What can a command that fails unnoticed, and what an earlier campaign left, do to the results of v3? | 2 languages, 1 number of servers, 2 loads, 1 kind of command that fails | 1,840,928 |
| `results` | Which scenarios get a row, is there one for each, has the file a header, which faults can a row not hide? | both versions, 2 and 1 scenarios, 2 clients, 1 message | 1,171,688 |

Why the bounds are enough. A stream of 5 bytes through a buffer of 2 has reads
that fill the buffer, reads that fill half of it after a full one (where stale
bytes would show), and writes split in the middle, three rounds long; two byte
values tell a stale byte from the right one. Two threads are as many as a
session can have handlers in flight when its chain of operations forks once.
Two connections are enough for one to wait in the backlog while the other is
accepted. The liveness run has one thread, which `hardware_concurrency` may well
be in a container: there every handler competes with every other for it, and a
handler that waited for another would wait for ever. Buffer, stream and set sizes
are unbounded in the proofs.

The handlers of the servers in Go and Python share nothing, so one connection
shows what two would; reads of two bytes make chunks that end between and
inside characters of two bytes, and six bytes are three chunks, enough to stand
above `HighWater` and come back. Two clients are enough for two that end
together, and two messages of two bytes for a reply in pieces whose rest
answers the next message.

Two loads are one with a timeout shorter than the life of a finished Job and one
with a longer timeout, the two cases of `JobExpires`. Two campaigns of two
languages reach every pair of consecutive phases, an abortion at any command
followed by a restart among them; a second run of a campaign meets the cluster
as a second language does, and its files have other names. Four servers are the
least number for which a Deployment is Available with one pod missing, and
going from four to two covers scaling down. That run has one campaign; that the
Deployment is right over whatever an aborted one left is `TargetIsRight`. In `results` two scenarios of a
language can be read in either order and two clients can have different fates.
`CHECK_DEADLOCK FALSE` is given where the program ends, and for the servers in
`EchoServers`, whose clients are all gone in the end; `EchoServer` never stops
and its runs check for deadlock.

Bounds in the modules: `MaxStream` (bytes a client sends on a connection); each
connection is opened once; `MaxCampaigns` (how often the script is started);
`MaxLost` (how many kinds of commands fail unnoticed in one campaign of v3; the
commands of one kind may fail any number of times); `LeftBehind` (of what an
earlier campaign of v3 left in the cluster only one Job, a complete one, and no
client that still sends);
`MaxAverage` (the longest average latency, of which only zero or not matters).

### Statements that do not hold

Three runs check what the repository says and are expected to find a
counterexample.

- `AsAnnounced` — "Testando com $num_servers servidor(es) ($lang_name)"
  (`run_tests.sh:122`) and "pronto" (`:102`). The yaml's image is not the
  language's; after `kubectl set image` the script waits for `Available`, which
  the pods of the first image already satisfy, so the Job's connections may be
  served by them; and `Available` tolerates a quarter of the pods missing.
  `logs/run_1/server_status_go_2s.log`, written after the wait, lists both pods
  of the first ReplicaSet Running and the Go pod in ContainerCreating;
  `logs/run_1/server_status_go_4s.log` says "4 desired ... 3 available".
- `JobFailureTolerated` — "robusto a falhas e faz timeout automático de jobs
  problemáticos" (`README.MD:77`). When a late Job has no pod, or one that did
  not start, its salvage fails and `set -e` ends the campaign.
- `RateMeansNoFailure` — "uma taxa de sucesso de 100% ... sem perdas ou falhas de
  conexão" (`v3/readme.md:142`). The rate is messages received over messages
  sent; a client that did not connect sent none and does not lower it.
  `RowHidesNoFault` says what a row does mean if it counts all the clients of the
  scenario and no errors: each connected and counted a reply to each message. Even
  then a reply counted in Go may be a part of one, and one counted by a client in
  Python may be nothing at all, when the server had closed the connection
  (`v3/client.py:40-44`); only in C++, which v4 runs, was each whole.

Met while modelling and not given a run: a Job of v4 that outlives its wait keeps
running through the scenarios of its language that follow, against "cada cenário
é executado como um Job isolado" (`README.MD:12`); v3 deletes such a Job before the
next and sleeps for five seconds, "Garante que os jobs foram removidos"
(`v3/run_tests.sh:142`), but does not wait, so the Job's client may go on sending to
the same servers for the rest of its grace period while the next scenario is
measured, although no command failed (`OneJobAtATime` with `ending = {}` in place of
its second part is violated at once); a `docker build` that fails goes unnoticed in v3, which then pushes an older
image; the retry loops of the clients cannot retry; v4's deletions do not wait
either, so pods of one phase, servers and clients, overlap the next on the nodes
(`logs/run_2/server_status_go_2s.log`), against `README.MD:66`, though not behind
the same Service; an aborted script leaves the cluster as it is, against
`README.MD:78`; `-u` has no effect, because the image names are expanded before the
options are read (l. 14-19, 49-57).

### Fairness

`EchoServer!Fairness`: weak fairness of every running thread and of the kernel's
reads and writes (an operation that can complete does); strong fairness of a
successful accept, since a failed accept re-arms itself and must not win for
ever while a connection waits; strong fairness of taking a completion of each
session and of the acceptor, which is what the FIFO queue of the io_context
gives and an arbitrary set would not. Clients are not fair: they may stop.

`RunTests!FairSpec`: weak fairness of the script. Each `kubectl wait` has a
timeout and each other command ends. Nothing is assumed of the cluster.

`EchoServers!FairSpec`: weak fairness of accepting each connection and of each
handler, which the schedulers of Go and asyncio give; clients may stop.

`LoadClients!FairSpec`: weak fairness of main, of each client, of the deadline
in Go (time passes), and of the echo on a connection that is up, which
`EveryByteEchoed` gives for the servers; `LoadClients!Spec` is the same without
fairness, and what the safety theorems are about. A silent server is excused in
`Ends` for C++ and Python, which have no timeout.

That the driver of v3 ends is not checked: its waits and loops are those of v4,
and the state space with unnoticed failures is too large for a liveness check.

## 4. Proofs

`EchoServerProofs` proves, for every set of connections, bytes and threads,
every buffer length and every stream bound, from `ConstantsAssumption` alone
(the buffer has at least one byte, the bound is a natural number, and the
markers `Junk` and `None` are no byte and no connection):

| Theorem | Statement |
|---|---|
| `Invariance` | `Spec => []IInv` |
| `TypeCorrect` | `Spec => []TypeOK` |
| `Faithful` | `Spec => []EchoFaithful` |
| `SessionsAreSerial` | `Spec => []SessionSerial` |
| `SessionsOutliveTheirUse` | `Spec => []NoUseAfterFree` |
| `NoSessionIsDropped` | `Spec => []NoEarlyDrop` |
| `AcceptLoopRuns` | `Spec => []AcceptLoop` |
| `Refinement` | `Spec => ImplementsContract` |

None of the safety properties is inductive alone. The argument is in the parts
of `IInv`:

- `Serial`: a session has at most one of: a pending operation, a queued
  completion, a handler about to run. Each step moves that one token on; the
  accept handler creates it, which needs
- `Arrival`: a connection is in the backlog, being accepted, or has a session,
  never two of these; which needs `BacklogDistinct` and `AcceptUnique`.
- `Ownership`: the token carries a copy of `self`, so the session lives; the
  thread that runs the handler keeps it until `Return`.
- `Streams`: by the position of the token, `taken` and `echoed` differ by what
  is still owed, and `data_` holds exactly the bytes owed. That a read cannot
  overwrite them is `Serial` again.
- `Ending`: the token disappears only by an error, and errors come only from a
  client that left, after a clean close only with nothing left to read.
- `AcceptAlive`: the accept token never disappears, because `Return` re-arms
  it on errors too.

`Refinement` follows from `Streams`: a `WriteSome` sends the byte the contract's
`Echo` sends next, a `ClientWrite` is its `Send`, every other step stutters.

`EchoServersProofs` proves, for every set of connections, from
`BufferAssumption` (a read returns at least one byte, the bound of a stream is a
natural number) and `HighWaterAssumption` (asyncio's limit is a natural number):

| Theorem | Statement |
|---|---|
| `ServersInvariance` | `Spec => []IInv` |
| `ServersTypeCorrect` | `Spec => []TypeOK` |
| `ServersDropNone` | `Spec => []NoEarlyDrop` |
| `ServersRefinement` | `Spec => ImplementsContract` |

`Spec` is `FairSpec` without its fairness. The invariant of a connection has
three parts:

- `Streams`: `echoed` followed by `held` is a prefix of what was taken. A byte
  sent moves from one to the other; a chunk read is put behind, where the next
  byte belongs only if
- `Handled`: in "serve" nothing taken is missing (`Whole`) and the last chunk did
  not end inside a character; a handler that ends has a client that left
  (`Gone`) or a chunk it could not decode. Python's case needs
- `Characters`: clients send whole characters, so a chunk that begins inside one
  follows a chunk that ended inside one, which was the last to be read. Hence a
  chunk that does not decode ends inside a character.

The lemmas have one step of the servers each: a read (`ReadStep`), a chunk that
does not decode (`CutStep`), a byte sent (`SendsStep`), an end (`ClosesStep`).
`GoStep` and `PyStep` show that the two servers make no others. In
`ServersRefinement` a byte sent is the contract's `Echo`, a `ClientWrite` its
`Send`, and every other step stutters.

`LoadClientsProofs` proves, for any set of clients, any number of messages (zero
included) and any length of at least one byte (`ParametersAssumption`), about the
clients of all languages at once:

| Theorem | Statement |
|---|---|
| `ClientsInvariance` | `Spec => []IInv` |
| `ClientsTypeCorrect` | `Spec => []AllTypeOK` |
| `ReportsAreTruthful` | `Spec => []ReportTruthful` |
| `ReportsAreConsistent` | `Spec => []ReportsFitResults` |
| `LinesStayWhole` | `Spec => []LinesAreWhole` |
| `CountedRepliesAreOwn` | `Spec => CountedReplyIsOwn` |

A report counts; what it counts is in the streams. So the invariant of a client
ties its counters to them:

- `Placed`: byte `j` of message `i` is at place `(i - 1) * Size + j` of the stream,
  which identifies a message by place.
- `Streams`: the server echoes a prefix of that, as `EchoContract` promises, and
  the client has read a part of the echo.
- `Counted`: where in its loop a client is gives its counters and how much it has
  sent: while it waits for the reply to message `i`, exactly `i` messages.
- `Replies`: in C++ what is read is `Size` bytes for each counted reply and the part
  of the current one; together with `Placed` this is what makes a counted reply
  the echo of the message just sent. In Go each reply is at least one byte; in
  Python too, but for replies counted after the server closed.
- `Reported`: what remains of `Counted` once the loop is left.

`LinesStayWhole` needs who is writing: `Mutex` (in C++ the mutex is held
exactly between the JSON and its newline), `Alternate` and `Written` (the last
report on stdout lacks its newline exactly if its client is about to write it),
and `Waits` (main waits for everybody). The lemmas have one step that the
languages share each (a byte sent, a part of a reply read, a reply counted, an
error); `ThreadSteps` shows that a client of any language makes no others. The
proof found `ReportTruthful` false for zero messages, where an error does not
mean that a reply is missing; the property now says so.

`RunTestsProofs` and `RunTestsV3Proofs` prove, for any numbers of runs, servers and
loads and, in v4, of restarts (`ParametersAssumption`: there is at least one of
each, the lists and bounds are of natural numbers), whatever the cluster does and
whichever commands fail:

| Theorem | v4 | v3 |
|---|---|---|
| `CampaignInvariance` | `Spec => []IInv` | `Spec => []IInv` |
| `CampaignTypeCorrect` | `Spec => []TypeOK` | `Spec => []TypeOK` |
| `TargetIsRight` | `Spec => []RightTarget` | `Spec => []RightTarget` |
| `CampaignRefinement` | `Spec => ImplementsCampaign` | `Spec => ImplementsCampaign` |
| `NoForeignLoadEver` | `Spec => []NoForeignLoad` | |
| `CombinedComplete` | `Spec => []CombinedIsComplete` | |
| `OnlyCompleteJobsGiveResults` | `Spec => JsonFromCompleteJobs` | |
| `NoOtherJob` | | `Spec => []OneJobAtATime` |
| `ReportsAreNew` | | `Spec => LogIsOfThisJob` |

The parts of the two invariants:

- `Position`: where the loop variables can be at each command. Without it a loop
  could skip a scenario, and `TypeOK` would not be inductive.
- `Progress`: the scenarios settled are exactly those before the loop variables in
  the order of the campaign. The lemmas `NextLoad`, `NextServers` and their like say
  that each loop head moves to the next scenario in that order, with none between.
  The refinement of `Campaign` is this and `Position`: a collection or salvage is
  the abstract `Settle`, the end or an abortion its `End`, a restart (modelled
  for v4) its `Again`, and every other command stutters.
- `Target`: how far the Deployment is what the scenario needs after each of the
  commands that change it. In v3 it is conditional on every `kubectl apply` having
  worked.
- v4: `NoForeignLoad` is inductive only with `Quiet` (no Job is active when a
  language's results are processed, since they were cleaned up before), and
  `CombinedIsComplete` only with `Combining` (which rows are up to date and which
  runs are combined at each place of the script). `Collecting` says that the Job
  collected is complete and cannot change any more, which is what
  `OnlyCompleteJobsGiveResults` needs. `Whole`: a campaign that goes on has cut no
  log, because the failure that cuts one ends it.
- v3: `Alone`, `Fresh` and `OneLeaves`: unless a deletion failed, a Job is created in a cluster
  without others, and unless any command failed it is there until its log is
  written, so the log has its reports. `OneLeaves` is for the pods of deleted Jobs:
  there is one Job at most, and while such a pod is left no other Job is running,
  but during a wait; and the wait does not end before the pod does.

`ResultsProofs` proves, for any numbers of scenarios, clients, messages and
latencies, all positive (`ParametersAssumption`), and any logs:

| Theorem | Statement |
|---|---|
| `ResultsInvariance` | `Spec => []IInv` |
| `ResultsTypeCorrect` | `Spec => []TypeOK` |
| `RowsAreOfWholeRuns` | `Spec => []RowsOfWholeRuns` |
| `RowsAreInOrder` | `Spec => []OneRowEach` |
| `HeaderIsFirst` | `Spec => []HeaderIsThere` |
| `RowsHideNoFaults` | `Spec => []RowHidesNoFault` |

Its invariant: `Reading` (what is in memory is what the logs read so far hold,
of this language only), `Filed` (a file that was written has one row for each
scenario of its language of which anything was taken, the row of just those
entries, in the order of the scenarios) and `Joined` (the combined file is both
files). With `CombinedRows` a property of the combined file becomes one of a
row, and `FaultlessRow` is about a row alone: received is at most sent in each
report, so equal sums mean equal counts in each; a sum of errors of 0 means no
errors in any; `Fits` does the rest, the report's own language deciding what a
counted reply stands for (`InLanguage` in `TypeOK`). The theorem is thus about
sums and groups; what a report is worth is `ReportsAreConsistent`, proved of the
clients. `SortedExists` shows that the
scenarios can be put into their order, each at the number of those not after
it.

The sums are those of the community modules' `SumFunction`, a recursive
function over the subsets of its domain. `Sums` proves that it is one
(`SumsExists`) and what the rows need: sums of natural numbers are natural
numbers, they grow with their terms and are equal only if all terms are
(`SumCompares`), and a common factor can be taken out (`SumScales`). The
induction is over the set of subsets that have the property, with the library's
theorems on well-founded sets.

Proved, then, are all safety properties of the passing runs: the invariants, the
action properties and the refinements. Only model-checked:

- liveness (`Accepted`, `EveryByteEchoed`, `Released`, `Terminates`, `Ends`),
  which the prover does not handle together with fairness and ENABLED;
- the three statements of the repository that do not hold, by counterexamples.

The library's induction theorems take an operator and none of the provers can
instantiate it; hence the set-based induction in `Sums`. No module that is proved
about has a RECURSIVE operator, and streams are compared by index.

## 5. Not modelled

Times and latencies (only when a reply is counted, and whether an average is
0); the text of messages, logs and reports; parsing of environment variables
and options; `make_shared` or the queue running out of memory; node failures and
evictions other than pods that never become ready; two campaigns at the same
time. A ready pod does not become unready. A server pod that terminates leaves the
Service at once, as endpoints of terminating pods are removed when their
deletion is marked; what it does until it is gone is load on the nodes, of which
the model has no notion. The same holds of v4's client pods, whose servers and
Service are deleted with them; those of v3, whose servers stay, are modelled. A
Deployment that is scaled during a rollout also scales its old ReplicaSet in
proportion; `CreatePod` makes pods of the new image only, which leaves out some of
the mixtures that `AsAnnounced` is violated by anyway. What a failing `awk`, `head`,
`tail` or `rm` in v3's `combine_csvs` does to the combined file is left out. What is
inside an image is not modelled.

`analyze_results.py` and `generate_graphs.py` read the combined files and compute
statistics and plots in one pass, without state or interaction; Dockerfiles,
`test_build.sh` and `client.job.yaml` are recipes. `logs/` is recorded data.

The vendored libraries, asio and `json.hpp`, are 99% of the lines of the
repository and are not its logic: of asio the models have what the programs see
(when an operation completes and with what, the queue of completions, composed
reads and writes), not its reactor, timers, allocators, TLS, or the platforms it
is not built for here. Of the repository's own programs every server, client,
driver and `process_logs.py` is modelled.

## 6. Plan

Done: the servers and clients in all languages, both drivers, the pipeline from
logs to rows; proofs of all their safety properties. What remains, in this order:

1. What `Results` assumes of a whole log (`Log`: the log of a complete Job
   holds a report of each client) from what is proved of the clients
   (`LinesStayWhole`: when main returns, no report is missing), as
   `ReportsAreConsistent` does for one report.
2. The invariants behind the liveness properties that are safety: that a byte
   in flight always has an operation that can move it, and that the main
   program of a client waits only for clients that can go on.
