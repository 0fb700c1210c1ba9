----------------------------- MODULE RunTestsV3 -----------------------------
(***************************************************************************)
(* v3/run_tests.sh, the earlier driver.  It has no `set -e': except where  *)
(* it says `|| exit' a command that fails has no effect and goes           *)
(* unnoticed.  There is one run, and the files have no run in their names. *)
(***************************************************************************)
EXTENDS Naturals, Sequences, FiniteSets

CONSTANTS Replicas,     \* SERVER_REPLICAS_ARRAY (l. 25)
          Loads,        \* how many pairs of l. 26-27, in the order of l. 136-137
          MaxLost       \* bound: how many kinds of commands fail unnoticed

ASSUME ParametersAssumption ==
    /\ Replicas \in Seq(Nat \ {0}) /\ Replicas # << >>
    /\ Loads \in Nat \ {0} /\ MaxLost \in Nat

Langs == <<"python", "go">> \* l. 257-266
Image == {"python", "go"}
Command == {"delete", "apply", "create", "wait", "log"}

Scenario == [run : {1}, lang : 1 .. 2, srv : 1 .. Len(Replicas), load : 1 .. Loads]

VARIABLES
    pc,       \* the next command of the script
    at,       \* the scenario its loop variables name
    lost,     \* the kinds of commands that have failed unnoticed
    dep, svc, starting, ready, jobs, \* the cluster; a Job per scenario
    ending,   \* the deleted Jobs whose pods still run, and send
    own,      \* the scenarios whose Job this campaign created
    log       \* log[s]: its log file, whose reports the rows of the CSV are made of

script  == <<pc, at, lost>>
cluster == <<dep, svc, starting, ready, jobs, ending>>
vars    == <<script, cluster, own, log>>

K == INSTANCE Cluster WITH Job <- Scenario

\* A log file: did this campaign write it, and whose reports does it have, those of its
\* Job or of an earlier campaign's?
File == [written : BOOLEAN, of : {"none", "earlier", "own"}]
NoFile == [written |-> FALSE, of |-> "none"]

Ended == {"done", "aborted"}

TypeOK ==
    /\ pc \in {"start", "build", "apply", "await", "applysrv", "awaitsrv", "clear",
               "create", "wait", "collect", "salvage", "csv", "cleanlang", "combine",
               "graphs", "final"} \cup Ended
    /\ at \in Scenario
    /\ lost \subseteq Command
    /\ K!TypeOK
    /\ ending \subseteq Scenario
    /\ own \subseteq Scenario
    /\ log \in [Scenario -> File]

First == [run |-> 1, lang |-> 1, srv |-> 1, load |-> 1]

\* An earlier campaign may have left its files and, if it was aborted, a Job.  Bound: of
\* what it left in the cluster only one Job, and one that completed, since it is the
\* one that may pass for a new one; the pods of the others have ended.
LeftBehind ==
    /\ log = [s \in Scenario |-> [NoFile EXCEPT !.of = "earlier"]]
    /\ \E left \in Scenario :
          K!InitWith([s \in Scenario |-> IF s = left THEN "complete" ELSE "absent"])

Init ==
    /\ pc = "start"
    /\ at = First
    /\ lost = {}
    /\ ending = {}
    /\ own = {}
    /\ LeftBehind \/ (K!Init /\ log = [s \in Scenario |-> NoFile])

-----------------------------------------------------------------------------
Controllers == K!Controllers /\ UNCHANGED <<script, ending, own, log>>

\* The pod of a deleted Job ends, when its client is done or its grace period of 30 s
\* is over.  Until then it goes on sending: SIGTERM does nothing to a process that is
\* the first of its container and has no handler, as python is (Dockerfile.client).
PodEnds(s) ==
    /\ s \in ending
    /\ ending' = ending \ {s}
    /\ UNCHANGED <<script, dep, svc, starting, ready, jobs, own, log>>

\* The running pods of the deleted Jobs of a set; a pod that has not started does not.
Terminate(deleted) == ending' = ending \cup {s \in deleted : jobs[s] = "running"}

Go(from, to) == pc = from /\ pc' = to

\* A command fails and the script goes on.
Loses(command) ==
    /\ Cardinality(lost \cup {command}) <= MaxLost
    /\ lost' = lost \cup {command}

\* The failures the script ends at: docker push (l. 78, 82), process_logs.py (l. 214),
\* generate_graphs.py (l. 250); each with exit 1.
CommandFails ==
    /\ pc \in {"build", "csv", "graphs"}
    /\ pc' = "aborted"
    /\ UNCHANGED <<at, lost, cluster, own, log>>

Deletes(what) ==
    /\ K!Delete(what)
    /\ Terminate(IF "jobs" \in what THEN Scenario ELSE {})

\* cleanup_kubernetes (l. 58-66): three deletions.
Cleanup ==
    /\ \/ Deletes({"deployment", "service", "jobs"}) /\ UNCHANGED lost
       \/ /\ Loses("delete")
          /\ \E done \in SUBSET {"deployment", "service", "jobs"} : Deletes(done)
    /\ UNCHANGED <<own, log>>

\* l. 255
Start == Go("start", "build") /\ Cleanup /\ UNCHANGED at

\* l. 258, 264
Build == Go("build", "apply") /\ UNCHANGED <<at, lost, cluster, own, log>>

\* Mutant: sed does not find the image.
AppliesAsIs(replicas) ==
    /\ \/ K!Apply("python", replicas) /\ UNCHANGED <<lost, ending>>
       \/ Loses("apply") /\ UNCHANGED cluster
    /\ UNCHANGED <<at, own, log>>

\* The yaml with its image and its number of replicas replaced by sed.
Applies(replicas) ==
    /\ \/ K!Apply(Langs[at.lang], replicas) /\ UNCHANGED <<lost, ending>>
       \/ Loses("apply") /\ UNCHANGED cluster
    /\ UNCHANGED <<at, own, log>>

\* l. 113-115: the file has 2 replicas.
Apply == Go("apply", "await") /\ Applies(2)

\* l. 125-127
ApplyServers == Go("applysrv", "awaitsrv") /\ Applies(Replicas[at.srv])

\* wait_for_deployment (l. 87-97, 117, 129): exit 1 after 300 s, or if kubectl fails.
Await ==
    /\ \/ K!Available /\ (Go("await", "applysrv") \/ Go("awaitsrv", "clear"))
       \/ pc \in {"await", "awaitsrv"} /\ pc' = "aborted"
    /\ UNCHANGED <<at, lost, cluster, own, log>>

\* Mutant: only a Job of the same name is deleted.
ClearSame ==
    /\ Go("clear", "create")
    /\ K!ReplaceJobs({at}, {})
    /\ Terminate({at})
    /\ UNCHANGED <<at, lost, own, log>>

\* l. 141-142: every client Job is deleted.  The script does not wait for their pods: it
\* sleeps for 5 s.
Clear ==
    /\ Go("clear", "create")
    /\ \/ K!ReplaceJobs(Scenario, {}) /\ Terminate(Scenario) /\ UNCHANGED lost
       \/ Loses("delete") /\ UNCHANGED cluster
    /\ UNCHANGED <<at, own, log>>

\* l. 148-175: a Job of this name that is still there stays as it is, since its CLIENT_ID
\* (l. 170) would change and the template of a Job is immutable.
Create ==
    /\ Go("create", "wait")
    /\ \/ /\ jobs[at] = "absent"
          /\ K!ReplaceJobs({}, {at})
          /\ own' = own \cup {at}
          /\ UNCHANGED <<lost, ending>>
       \/ jobs[at] # "absent" /\ UNCHANGED <<lost, cluster, own>>
       \/ Loses("create") /\ UNCHANGED <<cluster, own>>
    /\ UNCHANGED <<at, log>>

\* l. 183: as in version 4.
WaitComplete ==
    /\ Go("wait", "collect")
    /\ jobs[at] = "complete"
    /\ UNCHANGED <<at, lost, cluster, own, log>>

\* The wait takes at least 120 s (l. 181), four grace periods, unless there is no Job to
\* wait for.
WaitTimeout ==
    /\ Go("wait", "salvage")
    /\ jobs[at] # "complete"
    /\ jobs[at] = "absent" \/ ending = {}
    /\ UNCHANGED <<at, lost, cluster, own, log>>

\* The command fails before that, and the Job is given up whatever its state.
WaitFails ==
    /\ Go("wait", "salvage")
    /\ Loses("wait")
    /\ UNCHANGED <<at, cluster, own, log>>

\* Mutant: the loop over loads ends one early.
NextScenarioShort ==
    IF at.load < Loads - 1
    THEN Go(pc, "clear") /\ at' = [at EXCEPT !.load = @ + 1]
    ELSE IF at.srv < Len(Replicas)
    THEN Go(pc, "applysrv") /\ at' = [at EXCEPT !.srv = @ + 1, !.load = 1]
    ELSE Go(pc, "csv") /\ UNCHANGED at

\* Mutant: the loop goes one past the end of the loads.
NextScenarioLong ==
    IF at.load <= Loads
    THEN Go(pc, "clear") /\ at' = [at EXCEPT !.load = @ + 1]
    ELSE Go(pc, "csv") /\ UNCHANGED at

\* The next scenario of the loops over loads and servers (l. 120, 136-137).
NextScenario ==
    IF at.load < Loads
    THEN Go(pc, "clear") /\ at' = [at EXCEPT !.load = @ + 1]
    ELSE IF at.srv < Len(Replicas)
    THEN Go(pc, "applysrv") /\ at' = [at EXCEPT !.srv = @ + 1, !.load = 1]
    ELSE Go(pc, "csv") /\ UNCHANGED at

Writes(of) == log' = [log EXCEPT ![at] = [written |-> TRUE, of |-> of]]

\* Whose reports the pods of the Job print.
Owner == IF at \in own THEN "own" ELSE "earlier"

\* The name of the pod is not found, or kubectl logs fails somewhere.
LosesLog == Loses("log") /\ \E of \in {"none", Owner} : Writes(of)

\* Mutant: the log is appended to the file.
CollectAppends ==
    /\ pc = "collect"
    /\ Writes(IF log[at].of = "none" THEN Owner ELSE log[at].of)
    /\ NextScenario
    /\ UNCHANGED <<lost, cluster, own>>

\* l. 196-201
Collect ==
    /\ pc = "collect"
    /\ (Writes(Owner) /\ UNCHANGED lost) \/ LosesLog
    /\ NextScenario
    /\ UNCHANGED <<cluster, own>>

\* l. 187-192: the file gets what the pod has printed so far, under the same name.  A
\* pod that did not start has no log, and the file is empty; if there is no pod a
\* complaint is appended to whatever the file had.
Salvage ==
    /\ pc = "salvage"
    /\ \/ /\ jobs[at] # "absent"
          /\ Writes(IF jobs[at] = "pending" THEN "none" ELSE Owner)
          /\ UNCHANGED lost
       \/ /\ (jobs[at] \in {"absent", "pending"} /\ UNCHANGED lost) \/ Loses("log")
          /\ Writes(log[at].of)
       \/ LosesLog
    /\ NextScenario
    /\ UNCHANGED <<cluster, own>>

\* process_and_generate_csv_for_lang (l. 209-216), of which see Results.
Csv ==
    /\ IF at.lang = 1 THEN Go("csv", "cleanlang") ELSE Go("csv", "combine")
    /\ UNCHANGED <<at, lost, cluster, own, log>>

\* l. 263
CleanLang ==
    /\ Go("cleanlang", "build")
    /\ Cleanup
    /\ at' = [First EXCEPT !.lang = 2]

\* combine_csvs (l. 219-245) and the graphs (l. 248-252); both files are there.  What a
\* failing awk, head, tail or rm would do to the combined file is left out.
Combine == Go("combine", "graphs") /\ UNCHANGED <<at, lost, cluster, own, log>>
Graphs == Go("graphs", "final") /\ UNCHANGED <<at, lost, cluster, own, log>>

\* l. 272
Final == Go("final", "done") /\ Cleanup /\ UNCHANGED at

-----------------------------------------------------------------------------
Script == \/ Start \/ Build \/ Apply \/ ApplyServers \/ Await \/ Clear \/ Create
          \/ WaitComplete \/ WaitTimeout \/ WaitFails \/ Collect \/ Salvage \/ Csv \/ CleanLang
          \/ Combine \/ Graphs \/ Final

Next == Script \/ CommandFails \/ Controllers \/ \E s \in Scenario : PodEnds(s)

Spec == Init /\ [][Next]_vars

-----------------------------------------------------------------------------
(* Properties *)

\* While the script waits for a Job, the Service exists and the Deployment asks for
\* the scenario's image and number of replicas, whatever is left of a campaign before
\* and whatever deletion failed: only a failed `kubectl apply' can prevent it
\* (l. 113-129).
RightTarget ==
    pc = "wait" /\ "apply" \notin lost =>
        svc /\ dep = [image |-> Langs[at.lang], replicas |-> Replicas[at.srv]]

\* While the script waits for a Job no other Job exists, unless a deletion failed.  That
\* is not to say that no other client sends, as the comment of l. 142 has it: the pod of
\* a Job that was given up does until it ends (ending), in the next scenario or, if that
\* is short, in several.  But there is never more than one such pod, unless a `kubectl
\* wait' failed too: giving up takes longer than a grace period (l. 141-142, 181-183).
OneJobAtATime ==
    "delete" \notin lost =>
        /\ pc = "wait" => \A s \in Scenario \ {at} : jobs[s] = "absent"
        /\ "wait" \notin lost => \A s, t \in ending : s = t

\* A log file a campaign writes has no reports of an earlier one, although the files
\* have the same names and nobody removes them, unless a command failed or the pod of
\* the Job never started: then the old reports pass for new ones (l. 183-202).
LogIsOfThisJob ==
    [][\A s \in Scenario : log'[s] # log[s] /\ lost' = {} /\ jobs[s] # "pending" =>
          log'[s].of = "own"]_vars

\* The script settles the scenarios in the order of its loops, each once, and ends
\* with `done' only if it has settled all, whatever commands failed unnoticed.
Abstract == INSTANCE Campaign WITH
    TotalRuns <- 1, Languages <- 2, ServerCounts <- Len(Replicas), LoadCounts <- Loads,
    settled <- {s \in Scenario : log[s].written},
    status <- IF pc \in Ended THEN pc ELSE "running"
ImplementsCampaign == Abstract!Spec
=============================================================================
