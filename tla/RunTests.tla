------------------------------ MODULE RunTests ------------------------------
(***************************************************************************)
(* v4/run_tests.sh, the driver of the load tests.  The script runs under   *)
(* `set -e': a command that fails outside a condition ends it at once, and *)
(* there is no trap to clean up.  It may be started again: it then finds   *)
(* the cluster and the files as the campaign before left them.             *)
(***************************************************************************)
EXTENDS Naturals, Sequences

CONSTANTS TotalRuns,   \* TOTAL_RUNS (l. 11)
          Replicas,    \* SERVER_REPLICAS_ARRAY (l. 31)
          Loads,       \* the pairs [c, m] of l. 32-33, in the order of l. 139-140
          MaxCampaigns \* bound: how often the script is started

ASSUME ParametersAssumption ==
    /\ TotalRuns \in Nat \ {0}
    /\ Replicas \in Seq(Nat \ {0}) /\ Replicas # << >>
    /\ Loads \in Seq([c : Nat, m : Nat]) /\ Loads # << >>
    /\ MaxCampaigns \in Nat \ {0}

Langs == <<"go", "cpp">>              \* l. 296
Image == {"base", "go", "cpp"}        \* "base": the image server-deployment.yaml names
Ttl == 300                            \* ttlSecondsAfterFinished (l. 162)

Scenario == [run : 1 .. TotalRuns, lang : 1 .. Len(Langs),
             srv : 1 .. Len(Replicas), load : 1 .. Len(Loads)]

VARIABLES
    pc,       \* the next command of the script
    at,       \* the scenario its loop variables name
    cause,    \* why it was aborted
    campaign, \* how often it was started
    dep, svc, starting, ready, jobs, \* the cluster; a Job per scenario
    json,     \* json[s]: the campaign that wrote the .json file of scenario s, or 0
    cut,      \* the scenarios whose .json file is cut, or empty
    failed,   \* failed[s]: the campaign that wrote its .failed file
    rows,     \* rows[s]: the campaign whose rows it has in results_<lang>.csv
    combined  \* combined[r]: the campaign that wrote results_combined.csv of run r

script  == <<pc, at, cause, campaign>>
cluster == <<dep, svc, starting, ready, jobs>>
results == <<json, cut, failed, rows, combined>>
vars    == <<script, cluster, results>>

K == INSTANCE Cluster WITH Job <- Scenario

PC == {"build", "clean", "apply", "image", "scale", "await", "launch", "wait",
       "collect", "salvage", "cleanlang", "csv", "combine", "final", "finalclean",
       "done", "aborted"}
Ended == {"done", "aborted"}

TypeOK ==
    /\ pc \in PC
    /\ at \in Scenario
    /\ cause \in {"none", "command", "deployment", "job"}
    /\ campaign \in 1 .. MaxCampaigns
    /\ K!TypeOK
    /\ json \in [Scenario -> 0 .. campaign]
    /\ cut \subseteq Scenario
    /\ failed \in [Scenario -> 0 .. campaign]
    /\ rows \in [Scenario -> 0 .. campaign]
    /\ combined \in [1 .. TotalRuns -> 0 .. campaign]

FirstOf(run) == [run |-> run, lang |-> 1, srv |-> 1, load |-> 1]

Init ==
    /\ pc = "build"
    /\ at = FirstOf(1)
    /\ cause = "none"
    /\ campaign = 1
    /\ K!Init
    /\ json = [s \in Scenario |-> 0]
    /\ cut = {}
    /\ failed = [s \in Scenario |-> 0]
    /\ rows = [s \in Scenario |-> 0]
    /\ combined = [r \in 1 .. TotalRuns |-> 0]

Lang == Langs[at.lang]

\* The dynamic timeout (l. 185-186).
Timeout(load) ==
    LET t == (load.c * load.m) \div 10 + 120 IN IF t > 600 THEN 600 ELSE t

-----------------------------------------------------------------------------
(* The cluster *)

Controllers == K!Controllers /\ UNCHANGED <<script, results>>

\* A finished Job and its pod are deleted after Ttl seconds.  The Job the script
\* waits for ended after the wait began, so this cannot come before the end of a
\* shorter wait.
JobExpires(s) ==
    /\ jobs[s] \in {"complete", "failed"}
    /\ s = at /\ pc \in {"wait", "collect", "salvage"} =>
          pc # "collect" /\ Timeout(Loads[at.load]) >= Ttl
    /\ jobs' = [jobs EXCEPT ![s] = "absent"]
    /\ UNCHANGED <<script, dep, svc, starting, ready, results>>

-----------------------------------------------------------------------------
(* The script *)

Step(from, to) == pc = from /\ pc' = to /\ UNCHANGED <<cause, campaign>>

Abort(why) == /\ pc' = "aborted"
              /\ cause' = why
              /\ UNCHANGED <<at, campaign, cluster, results>>

\* Mutant: the Jobs of the clients are not deleted.
CleanupWithoutJobs == K!Delete({"deployment", "service"})

\* cleanup_kubernetes (l. 61-69)
Cleanup == K!Delete({"deployment", "service", "jobs"})

\* Any command can fail where `set -e' ends the script: not in the conditions of
\* l. 96 and l. 188.
CommandFails ==
    /\ pc \notin Ended \cup {"await", "wait"}
    /\ Abort("command")

\* kubectl logs fails when the shell has already opened the .json file (l. 197): what
\* it had is lost, and it has some part of the log, or nothing.
CollectFails ==
    /\ pc = "collect"
    /\ pc' = "aborted"
    /\ cause' = "command"
    /\ json' = [json EXCEPT ![at] = campaign]
    /\ cut' = cut \cup {at}
    /\ UNCHANGED <<at, campaign, cluster, failed, rows, combined>>

\* The script is started again after its end.
Again ==
    /\ pc \in Ended
    /\ campaign < MaxCampaigns
    /\ campaign' = campaign + 1
    /\ pc' = "build"
    /\ at' = FirstOf(1)
    /\ cause' = "none"
    /\ UNCHANGED <<cluster, results>>

\* Images of both languages (l. 282-283), once.
Build == Step("build", "clean") /\ UNCHANGED <<at, cluster, results>>

\* l. 297
Clean == Step("clean", "apply") /\ Cleanup /\ UNCHANGED <<at, results>>

\* l. 119
Apply == Step("apply", "image") /\ K!Apply("base", 2) /\ UNCHANGED <<at, results>>

\* l. 125
SetImage ==
    /\ Step("image", "scale")
    /\ dep' = [dep EXCEPT !.image = Lang]
    /\ UNCHANGED <<at, svc, starting, ready, jobs, results>>

\* Mutant: the number of the last iteration, or of the yaml file, is left.
ScaleForgotten ==
    /\ Step("scale", "await")
    /\ UNCHANGED <<at, cluster, results>>

\* l. 126
Scale ==
    /\ Step("scale", "await")
    /\ dep' = [dep EXCEPT !.replicas = Replicas[at.srv]]
    /\ UNCHANGED <<at, svc, starting, ready, jobs, results>>

\* wait_for_deployment (l. 93-103): exit 1 after 300 s, or if kubectl fails.
Await ==
    \/ Step("await", "launch") /\ K!Available /\ UNCHANGED <<at, cluster, results>>
    \/ pc = "await" /\ Abort("deployment")

\* l. 145-182: delete Jobs labelled with the same scenario, create this one.
Launch ==
    /\ Step("launch", "wait")
    /\ K!ReplaceJobs({s \in Scenario : [s EXCEPT !.run = at.run] = at}, {at})
    /\ UNCHANGED <<at, results>>

\* Mutant: waits for any end of the Job.
WaitAnyEnd ==
    /\ Step("wait", "collect")
    /\ jobs[at] \in {"complete", "failed"}
    /\ UNCHANGED <<at, cluster, results>>

\* kubectl wait --for=condition=complete --timeout (l. 188): it does not notice
\* a failure.
WaitComplete ==
    /\ Step("wait", "collect")
    /\ jobs[at] = "complete"
    /\ UNCHANGED <<at, cluster, results>>

\* Mutant: no timeout, a failed Job ends the wait.
WaitFailure ==
    /\ Step("wait", "salvage")
    /\ jobs[at] = "failed"
    /\ UNCHANGED <<at, cluster, results>>

\* The wait times out, or kubectl fails, whatever the state of the Job.
WaitTimeout ==
    /\ Step("wait", "salvage")
    /\ UNCHANGED <<at, cluster, results>>

\* Mutant: the loop over loads ends one early.
NextScenarioShort ==
    IF at.load < Len(Loads) - 1
    THEN Step(pc, "launch") /\ at' = [at EXCEPT !.load = @ + 1]
    ELSE IF at.srv < Len(Replicas)
    THEN Step(pc, "image") /\ at' = [at EXCEPT !.srv = @ + 1, !.load = 1]
    ELSE Step(pc, "cleanlang") /\ UNCHANGED at

\* Mutant: the loop goes one past the end of the loads.
NextScenarioLong ==
    IF at.load <= Len(Loads)
    THEN Step(pc, "launch") /\ at' = [at EXCEPT !.load = @ + 1]
    ELSE Step(pc, "cleanlang") /\ UNCHANGED at

\* The next scenario of the loops over loads and servers (l. 121, 139-140).
NextScenario ==
    IF at.load < Len(Loads)
    THEN Step(pc, "launch") /\ at' = [at EXCEPT !.load = @ + 1]
    ELSE IF at.srv < Len(Replicas)
    THEN Step(pc, "image") /\ at' = [at EXCEPT !.srv = @ + 1, !.load = 1]
    ELSE Step(pc, "cleanlang") /\ UNCHANGED at

\* Mutant: `|| true' after the command of l. 197.
CollectTolerant ==
    /\ pc = "collect"
    /\ json' = [json EXCEPT ![at] = campaign]
    /\ cut' \in {cut \ {at}, cut \cup {at}}
    /\ NextScenario
    /\ UNCHANGED <<cluster, failed, rows, combined>>

\* l. 194-197
Collect ==
    /\ pc = "collect"
    /\ json' = [json EXCEPT ![at] = campaign]
    /\ cut' = cut \ {at}
    /\ NextScenario
    /\ UNCHANGED <<cluster, failed, rows, combined>>

\* l. 189-192: the log goes to a .failed file, but there is none to copy when the Job
\* and its pod are gone or the container has not started; then a command fails.  (Of a
\* pod no node has been found for, the log is empty and nothing fails.)  A .json file of
\* an earlier campaign stays.
Salvage ==
    /\ pc = "salvage"
    /\ \/ jobs[at] \in {"absent", "pending"} /\ Abort("job")
       \/ /\ jobs[at] # "absent"
          /\ failed' = [failed EXCEPT ![at] = campaign]
          /\ NextScenario
          /\ UNCHANGED <<cluster, json, cut, rows, combined>>

\* l. 204
CleanLang == Step("cleanlang", "csv") /\ Cleanup /\ UNCHANGED <<at, results>>

\* After a language comes the next one (l. 296), or the end of the run.
\* Mutant: the loop over the numbers of servers is not restarted.
NextLanguageNoRestart ==
    IF at.lang < Len(Langs)
    THEN Step("csv", "clean") /\ at' = [at EXCEPT !.lang = @ + 1, !.load = 1]
    ELSE Step("csv", "combine") /\ UNCHANGED at

NextLanguage ==
    IF at.lang < Len(Langs)
    THEN Step("csv", "clean") /\ at' = [at EXCEPT !.lang = @ + 1, !.srv = 1, !.load = 1]
    ELSE Step("csv", "combine") /\ UNCHANGED at

\* process_and_generate_csv (l. 208-218) writes the file anew from every .json file
\* of the directory, whoever wrote it; one that is cut may have no line to read.
Csv ==
    /\ pc = "csv"
    /\ \E empty \in SUBSET cut :
          rows' = [s \in Scenario |-> IF s.run # at.run \/ s.lang # at.lang THEN rows[s]
                                     ELSE IF s \in empty THEN 0 ELSE json[s]]
    /\ NextLanguage
    /\ UNCHANGED <<cluster, json, cut, failed, combined>>

\* combine_csvs (l. 221-245), then the next run (l. 286).
Combine ==
    /\ pc = "combine"
    /\ combined' = [combined EXCEPT ![at.run] = campaign]
    /\ IF at.run < TotalRuns
       THEN Step("combine", "clean") /\ at' = FirstOf(at.run + 1)
       ELSE Step("combine", "final") /\ UNCHANGED at
    /\ UNCHANGED <<cluster, json, cut, failed, rows>>

\* Graphs and report of all runs (l. 321-336).
Final == Step("final", "finalclean") /\ UNCHANGED <<at, cluster, results>>

\* l. 340
FinalClean == Step("finalclean", "done") /\ Cleanup /\ UNCHANGED <<at, results>>

-----------------------------------------------------------------------------
Script == \/ Build \/ Clean \/ Apply \/ SetImage \/ Scale \/ Await \/ Launch
          \/ WaitComplete \/ WaitTimeout \/ Collect \/ Salvage \/ CleanLang
          \/ Csv \/ Combine \/ Final \/ FinalClean

Next == \/ Script \/ CommandFails \/ CollectFails \/ Again \/ Controllers
        \/ \E s \in Scenario : JobExpires(s)

Spec == Init /\ [][Next]_vars

\* The shell runs the script and every wait of it has a timeout.  Nothing is
\* assumed of the cluster: pods may never be ready and Jobs may never end.
FairSpec == Spec /\ WF_vars(Script)

-----------------------------------------------------------------------------
(* Properties *)

\* While the script waits for a Job, the Service exists and the Deployment asks
\* for the server image of the scenario's language and for its number of replicas,
\* whatever an aborted campaign left in the cluster (l. 119-127, 204, 297).
RightTarget ==
    pc = "wait" => svc /\ dep = [image |-> Lang, replicas |-> Replicas[at.srv]]

\* A Job that was given up, or left by an aborted campaign, whose clients may still
\* be sending, is never left running when the servers of the next language, run or
\* campaign are deployed (l. 204, 297).
NoForeignLoad ==
    \/ campaign > 1 /\ at = FirstOf(1) /\ pc \in {"build", "clean"}
    \/ pc = "aborted"
    \/ \A s \in Scenario : jobs[s] \in K!Active => s.run = at.run /\ s.lang = at.lang

\* A scenario gets a .json file, which is what process_logs.py reads, only from a
\* Job that completed: a late failure or expiry never passes for a result
\* (l. 188-197).
JsonFromCompleteJobs ==
    [][\A s \in Scenario : json'[s] # json[s] => jobs[s] = "complete"]_vars

\* A scenario has a result of this campaign: a whole log or a record of its failure.
Settled(s) == failed[s] = campaign \/ (json[s] = campaign /\ s \notin cut)

\* Its rows are those of its .json file.
UpToDate(s) == rows[s] = json[s] \/ (s \in cut /\ rows[s] = 0)

\* When a campaign combines the results of a run, it has measured or recorded as
\* failed each of its scenarios, and the rows are those of the newest .json file of
\* each: so a row of an earlier campaign is there exactly for the scenarios that
\* failed in this one and had been measured before, since nobody empties the
\* directories (l. 114, 199-245, 286-309).  If the log was cut when that campaign was
\* aborted, there may be no row, or one of fewer clients; a log of this campaign is whole.
CombinedIsComplete ==
    \A s \in Scenario : combined[s.run] = campaign =>
        /\ Settled(s) /\ (json[s] = campaign => s \notin cut)
        /\ UpToDate(s)

\* The script settles the scenarios in the order of its loops, each once.
Abstract == INSTANCE Campaign WITH
    Languages <- Len(Langs), ServerCounts <- Len(Replicas), LoadCounts <- Len(Loads),
    settled <- {s \in Scenario : Settled(s)},
    status <- IF pc \in Ended THEN pc ELSE "running"
ImplementsCampaign == Abstract!Spec

\* Whatever the cluster does, each campaign ends (l. 77 of README.MD: it gives up
\* problematic Jobs after a timeout).
Terminates == pc = "build" ~> pc \in Ended

-----------------------------------------------------------------------------
(* Statements of the repository that the script does not keep *)

\* l. 122 "Testando com $num_servers servidor(es) ($lang_name)", l. 102 "Deployment
\* pronto": the clients of a scenario are served by that many servers of its language
\* and by no others.
AsAnnounced ==
    pc = "wait" /\ jobs[at] = "running" =>
        ready = [i \in Image |-> IF i = Lang THEN Replicas[at.srv] ELSE 0]

\* l. 77 of README.MD: the script survives failed Jobs.
JobFailureTolerated == cause # "job"
=============================================================================
