-------------------------- MODULE RunTestsV3Proofs --------------------------
(***************************************************************************)
(* Safety of v3/run_tests.sh for any numbers of servers and loads, whatever *)
(* an earlier campaign left, whatever the cluster does and whichever       *)
(* commands fail unnoticed.                                                *)
(***************************************************************************)
EXTENDS RunTestsV3, SequenceTheorems, TLAPS

-----------------------------------------------------------------------------
(* The inductive invariant, in parts *)

\* The script is past the scenario its loop variables name.
Past == {"csv", "cleanlang", "combine", "graphs", "final", "done"}

\* Where in the loops each command can be.
Position ==
    /\ pc = "start" => at = First
    /\ pc \in {"build", "apply", "await"} => at.srv = 1
    /\ pc \in {"build", "apply", "await", "applysrv", "awaitsrv"} => at.load = 1
    /\ pc \in Past => at.srv = Len(Replicas) /\ at.load = Loads
    /\ pc = "cleanlang" => at.lang = 1
    /\ pc \in {"combine", "graphs", "final", "done"} => at.lang = 2

Earlier(s, t) == Abstract!Before(s, t)
Reached(s) == Earlier(s, at) \/ (s = at /\ pc \in Past)

\* The campaign has written the files of the scenarios it went past, and no other.
Progress == pc # "aborted" => \A s \in Scenario : log[s].written <=> Reached(s)

\* From the second `kubectl apply' to the end of the Jobs the Deployment is right.
Target ==
    "apply" \notin lost /\ pc \in {"awaitsrv", "clear", "create", "wait", "collect", "salvage"}
        => svc /\ dep = [image |-> Langs[at.lang], replicas |-> Replicas[at.srv]]

\* The Job is created in a cluster without Jobs.
Alone ==
    "delete" \notin lost =>
        /\ pc = "create" => \A s \in Scenario : jobs[s] = "absent"
        /\ pc = "wait" => \A s \in Scenario \ {at} : jobs[s] = "absent"

\* There is one Job at most, and one pod of a deleted Job.  While there is such a pod no
\* other Job's pod is deleted: but for the wait, which outlives it, no Job is running.
OneLeaves ==
    "delete" \notin lost =>
        /\ \A s, t \in Scenario : jobs[s] # "absent" /\ jobs[t] # "absent" => s = t
        /\ "wait" \notin lost =>
              /\ \A s, t \in ending : s = t
              /\ pc # "wait" => ending = {} \/ \A s \in Scenario : jobs[s] \notin K!Active

\* The Job is a new one, and it is there until its log is written.
Fresh ==
    lost = {} /\ pc \in {"wait", "collect", "salvage"} => at \in own /\ jobs[at] # "absent"

IInv == TypeOK /\ Position /\ Progress /\ Target /\ Alone /\ OneLeaves /\ Fresh

-----------------------------------------------------------------------------
(* Scenarios and the order of the loops *)

\* The lengths of the loops are positive.
LEMMA Lengths ==
  /\ Len(Replicas) \in Nat /\ Len(Replicas) > 0
  /\ Loads \in Nat /\ Loads > 0
  BY ParametersAssumption, EmptySeq

\* A scenario is its four numbers.
LEMMA Fields ==
  ASSUME NEW s \in Scenario
  PROVE  /\ s = [run |-> s.run, lang |-> s.lang, srv |-> s.srv, load |-> s.load]
         /\ s.run = 1 /\ s.lang \in 1 .. 2
         /\ s.srv \in 1 .. Len(Replicas) /\ s.load \in 1 .. Loads
         /\ s.run \in Nat /\ s.lang \in Nat /\ s.srv \in Nat /\ s.load \in Nat
  BY Lengths DEF Scenario

\* Two scenarios with the same numbers are the same.
LEMMA SameFields ==
  ASSUME NEW s \in Scenario, NEW t \in Scenario,
         s.run = t.run, s.lang = t.lang, s.srv = t.srv, s.load = t.load
  PROVE  s = t
  BY Fields

\* Nothing comes before itself, nor before the first scenario.
LEMMA FirstIsFirst ==
  /\ First \in Scenario
  /\ \A s \in Scenario : ~Earlier(s, s) /\ ~Earlier(s, First)
  <1>1. First \in Scenario
    BY Lengths DEF First, Scenario
  <1>2. ASSUME NEW s \in Scenario
        PROVE  ~Earlier(s, s) /\ ~Earlier(s, First)
    BY Fields DEF Earlier, Abstract!Before, First
  <1> QED
    BY <1>1, <1>2

\* The next load of the same servers.
LEMMA NextLoad ==
  ASSUME NEW t \in Scenario, t.load < Loads
  PROVE  LET u == [t EXCEPT !.load = @ + 1] IN
         /\ u \in Scenario
         /\ u.run = t.run /\ u.lang = t.lang /\ u.srv = t.srv
         /\ \A s \in Scenario : Earlier(s, u) <=> Earlier(s, t) \/ s = t
  <1> DEFINE u == [t EXCEPT !.load = @ + 1]
  <1>1. /\ u = [run |-> t.run, lang |-> t.lang, srv |-> t.srv, load |-> t.load + 1]
        /\ u.run = t.run /\ u.lang = t.lang /\ u.srv = t.srv /\ u.load = t.load + 1
    BY Fields
  <1>2. u \in Scenario
    BY <1>1, Fields, Lengths DEF Scenario
  <1> HIDE DEF u
  <1>3. ASSUME NEW s \in Scenario
        PROVE  Earlier(s, u) <=> Earlier(s, t) \/ s = t
    BY <1>1, Fields, SameFields DEF Earlier, Abstract!Before
  <1> QED
    BY <1>1, <1>2, <1>3 DEF u

\* The first load of the next number of servers.
LEMMA NextServers ==
  ASSUME NEW t \in Scenario, t.srv < Len(Replicas), t.load = Loads
  PROVE  LET u == [t EXCEPT !.srv = @ + 1, !.load = 1] IN
         /\ u \in Scenario
         /\ u.run = t.run /\ u.lang = t.lang /\ u.load = 1
         /\ \A s \in Scenario : Earlier(s, u) <=> Earlier(s, t) \/ s = t
  <1> DEFINE u == [t EXCEPT !.srv = @ + 1, !.load = 1]
  <1>1. /\ u = [run |-> t.run, lang |-> t.lang, srv |-> t.srv + 1, load |-> 1]
        /\ u.run = t.run /\ u.lang = t.lang /\ u.srv = t.srv + 1 /\ u.load = 1
    <2> DEFINE v == [t EXCEPT !.srv = @ + 1]
    <2>1. v = [run |-> t.run, lang |-> t.lang, srv |-> t.srv + 1, load |-> t.load]
      BY DEF Scenario
    <2>2. u = [v EXCEPT !.load = 1]
      BY Zenon
    <2> HIDE DEF u, v
    <2> QED
      BY <2>1, <2>2
  <1>2. u \in Scenario
    BY <1>1, Fields, Lengths DEF Scenario
  <1> HIDE DEF u
  <1>3. ASSUME NEW s \in Scenario
        PROVE  Earlier(s, u) <=> Earlier(s, t) \/ s = t
    BY <1>1, Fields, SameFields DEF Earlier, Abstract!Before
  <1> QED
    BY <1>1, <1>2, <1>3 DEF u

\* The first scenario of the second language.
LEMMA NextLang ==
  ASSUME NEW t \in Scenario, t.lang = 1, t.srv = Len(Replicas), t.load = Loads
  PROVE  LET u == [First EXCEPT !.lang = 2] IN
         /\ u \in Scenario
         /\ u.lang = 2 /\ u.srv = 1 /\ u.load = 1
         /\ \A s \in Scenario : Earlier(s, u) <=> Earlier(s, t) \/ s = t
  <1> DEFINE u == [First EXCEPT !.lang = 2]
  <1>1. /\ u = [run |-> 1, lang |-> 2, srv |-> 1, load |-> 1]
        /\ u.run = 1 /\ u.lang = 2 /\ u.srv = 1 /\ u.load = 1
    BY DEF First
  <1>2. u \in Scenario
    BY <1>1, Lengths DEF Scenario
  <1> HIDE DEF u
  <1>3. ASSUME NEW s \in Scenario
        PROVE  Earlier(s, u) <=> Earlier(s, t) \/ s = t
    BY <1>1, Fields, SameFields DEF Earlier, Abstract!Before
  <1> QED
    BY <1>1, <1>2, <1>3 DEF u

\* The last scenario comes after all others.
LEMMA LastOfAll ==
  ASSUME NEW t \in Scenario, t.lang = 2, t.srv = Len(Replicas), t.load = Loads,
         NEW s \in Scenario
  PROVE  Earlier(s, t) \/ s = t
  BY Fields, SameFields DEF Earlier, Abstract!Before

-----------------------------------------------------------------------------
(* The loops *)

\* After a Job, at its end or when it is given up.
LEMMA AfterJob ==
  ASSUME at \in Scenario, pc \in {"collect", "salvage"}, NextScenario
  PROVE  /\ at' \in Scenario /\ at'.lang = at.lang
         /\ \/ pc' = "clear" /\ at'.srv = at.srv
            \/ pc' = "applysrv" /\ at'.load = 1
            \/ /\ pc' = "csv" /\ at' = at
               /\ at.srv = Len(Replicas) /\ at.load = Loads
         /\ \A s \in Scenario : Reached(s)' <=> Reached(s) \/ s = at
  <1> USE DEF Go
  <1>1. CASE at.load < Loads
    <2>1. pc' = "clear" /\ at' = [at EXCEPT !.load = @ + 1]
      BY <1>1 DEF NextScenario
    <2> QED
      BY <1>1, <2>1, NextLoad DEF Reached, Past
  <1>2. CASE ~(at.load < Loads) /\ at.srv < Len(Replicas)
    <2>1. pc' = "applysrv" /\ at' = [at EXCEPT !.srv = @ + 1, !.load = 1]
      BY <1>2 DEF NextScenario
    <2>2. at.load = Loads
      BY <1>2, Fields, Lengths
    <2> QED
      BY <1>2, <2>1, <2>2, NextServers DEF Reached, Past
  <1>3. CASE ~(at.load < Loads) /\ ~(at.srv < Len(Replicas))
    <2>1. pc' = "csv" /\ at' = at
      BY <1>3 DEF NextScenario
    <2>2. at.load = Loads /\ at.srv = Len(Replicas)
      BY <1>3, Fields, Lengths
    <2> QED
      BY <1>3, <2>1, <2>2 DEF Reached, Past
  <1> QED
    BY <1>1, <1>2, <1>3

\* After the results of the first language.
LEMMA AfterLanguage ==
  ASSUME at \in Scenario, Position, CleanLang
  PROVE  /\ at' \in Scenario /\ pc = "cleanlang" /\ pc' = "build"
         /\ at'.lang = 2 /\ at'.srv = 1 /\ at'.load = 1
         /\ \A s \in Scenario : Reached(s)' <=> Reached(s)
  <1>1. /\ pc = "cleanlang" /\ pc' = "build" /\ at' = [First EXCEPT !.lang = 2]
        /\ at.lang = 1 /\ at.srv = Len(Replicas) /\ at.load = Loads
    BY DEF CleanLang, Go, Position, Past
  <1> QED
    BY <1>1, NextLang DEF Reached, Past

-----------------------------------------------------------------------------
(* Types *)

\* The controllers of the cluster keep the types of its objects.
LEMMA ControllersType ==
  ASSUME K!TypeOK, K!Controllers
  PROVE  K!TypeOK'
  <1> USE DEF K!TypeOK
  <1>1. CASE K!CreatePod
    <2>1. dep.image \in Image
      BY <1>1 DEF K!CreatePod
    <2>2. starting[dep.image] + 1 \in Nat
      BY <2>1
    <2> QED
      BY <1>1, <2>1, <2>2 DEF K!CreatePod
  <1>2. ASSUME NEW i \in Image, K!PodReady(i)
        PROVE  K!TypeOK'
    <2>1. starting[i] - 1 \in Nat /\ ready[i] + 1 \in Nat
      BY <1>2 DEF K!PodReady
    <2> QED
      BY <1>2, <2>1 DEF K!PodReady
  <1>3. ASSUME NEW i \in Image, K!RemovePod(i)
        PROVE  K!TypeOK'
    <2>1. CASE starting[i] > 0 /\ starting' = [starting EXCEPT ![i] = @ - 1]
                 /\ UNCHANGED ready
      <3>1. starting[i] - 1 \in Nat
        BY <2>1
      <3> QED
        BY <1>3, <2>1, <3>1 DEF K!RemovePod
    <2>2. CASE ready[i] > 0 /\ ready' = [ready EXCEPT ![i] = @ - 1]
                 /\ UNCHANGED starting
      <3>1. ready[i] - 1 \in Nat
        BY <2>2
      <3> QED
        BY <1>3, <2>2, <3>1 DEF K!RemovePod
    <2> QED
      BY <1>3, <2>1, <2>2 DEF K!RemovePod
  <1>4. ASSUME NEW s \in Scenario, K!JobMoves(s)
        PROVE  K!TypeOK'
    BY <1>4 DEF K!JobMoves
  <1> QED
    BY <1>1, <1>2, <1>3, <1>4 DEF K!Controllers

\* The commands of the script keep them too.
LEMMA DeleteType ==
  ASSUME K!TypeOK, NEW what, K!Delete(what)
  PROVE  K!TypeOK'
  BY DEF K!TypeOK, K!Delete, K!NoDeployment

\* The pods of deleted Jobs are some of those of the Jobs.
LEMMA TerminateType ==
  ASSUME ending \subseteq Scenario, NEW deleted, deleted \subseteq Scenario, Terminate(deleted)
  PROVE  ending' \subseteq Scenario
  BY DEF Terminate

\* So are those of a cleanup, in which the deletion of the Jobs may fail.
LEMMA CleanupType ==
  ASSUME K!TypeOK, ending \subseteq Scenario, Cleanup
  PROVE  K!TypeOK' /\ ending' \subseteq Scenario
  <1>1. PICK done : Deletes(done)
    BY DEF Cleanup
  <1> QED
    BY <1>1, DeleteType, TerminateType DEF Deletes

\* A scenario names an image and a number of servers.
LEMMA LanguageAndServers ==
  ASSUME at \in Scenario
  PROVE  Langs[at.lang] \in Image /\ Replicas[at.srv] \in Nat
  <1>1. at.lang = 1 \/ at.lang = 2
    BY Fields
  <1>2. Langs[at.lang] \in Image
    BY <1>1 DEF Langs, Image
  <1>3. Replicas[at.srv] \in Nat \ {0}
    BY Fields, ParametersAssumption
  <1> QED
    BY <1>2, <1>3

\* What has been lost stays lost.
LEMMA LostGrows ==
  ASSUME NEW what, Loses(what)
  PROVE  lost' = lost \cup {what}
  BY DEF Loses

\* What a variable of the script may hold, and what the campaign has made.
ScriptType ==
    /\ pc \in {"start", "build", "apply", "await", "applysrv", "awaitsrv", "clear",
               "create", "wait", "collect", "salvage", "csv", "cleanlang", "combine",
               "graphs", "final"} \cup Ended
    /\ at \in Scenario
    /\ lost \subseteq Command

FilesType == ending \subseteq Scenario /\ own \subseteq Scenario /\ log \in [Scenario -> File]

\* A log file is written with nobody's reports, or with those of its Job.
LEMMA WritesFile ==
  ASSUME at \in Scenario, log \in [Scenario -> File], NEW of, Writes(of),
         of \in {"none", "earlier", "own"}
  PROVE  /\ log' \in [Scenario -> File]
         /\ log'[at].written
         /\ \A s \in Scenario : s # at => log'[s] = log[s]
  <1>1. [written |-> TRUE, of |-> of] \in File
    BY DEF File
  <1> QED
    BY <1>1 DEF Writes

\* At the end of a Job its log file is written, and no other.
LEMMA LogStep ==
  ASSUME at \in Scenario, log \in [Scenario -> File], Collect \/ Salvage
  PROVE  /\ log' \in [Scenario -> File]
         /\ log'[at].written
         /\ \A s \in Scenario : s # at => log'[s] = log[s]
  <1>1. {"none", Owner} \subseteq {"none", "earlier", "own"}
    BY DEF Owner
  <1>2. log[at].of \in {"none", "earlier", "own"}
    BY DEF File
  <1>3. \E of \in {"none", "earlier", "own"} : Writes(of)
    BY <1>1, <1>2 DEF Collect, Salvage, LosesLog
  <1> QED
    BY <1>3, WritesFile

\* The kinds of commands that may be lost are those of the script.
LEMMA LostType ==
  ASSUME lost \subseteq Command, Script
  PROVE  lost' \subseteq Command
  <1>1. CASE Loses("delete") \/ Loses("apply") \/ Loses("create") \/ Loses("wait") \/ Loses("log")
    BY <1>1, LostGrows DEF Command
  <1>2. CASE lost' = lost
    BY <1>2
  <1> QED
    BY <1>1, <1>2 DEF Script, Start, Build, Apply, ApplyServers, Applies, Await, Clear,
       Create, WaitComplete, WaitTimeout, WaitFails, Collect, Salvage, LosesLog, Csv,
       CleanLang, Combine, Graphs, Final, Cleanup

\* Every step keeps the types: the loops do not leave their arrays, and no
\* controller counts a pod below zero.
LEMMA TypeStep ==
  ASSUME TypeOK, Position, Next
  PROVE  TypeOK'
  <1>0. /\ ScriptType /\ K!TypeOK /\ FilesType
        /\ ScriptType' /\ K!TypeOK' /\ FilesType' => TypeOK'
    BY DEF TypeOK, ScriptType, FilesType
  <1>1. CASE Start \/ Final \/ CleanLang
    <2>1. K!TypeOK' /\ ending' \subseteq Scenario
      BY <1>0, <1>1, CleanupType DEF FilesType, Start, Final, CleanLang
    <2>2. lost' \subseteq Command
      BY <1>0, <1>1, LostType DEF ScriptType, Script
    <2>3. CASE Start \/ Final
      BY <1>0, <2>1, <2>2, <2>3 DEF ScriptType, FilesType, Start, Final, Cleanup, Go, Ended
    <2>4. CASE CleanLang
      BY <1>0, <2>1, <2>2, <2>4, AfterLanguage DEF ScriptType, FilesType, CleanLang, Cleanup
    <2> QED
      BY <1>1, <2>3, <2>4
  <1>2. CASE Apply \/ ApplyServers
    <2>1. lost' \subseteq Command
      BY <1>0, <1>2, LostType DEF ScriptType, Script
    <2>2. Langs[at.lang] \in Image /\ Replicas[at.srv] \in Nat
      BY <1>0, LanguageAndServers DEF ScriptType
    <2>3. K!TypeOK'
      <3>1. CASE UNCHANGED cluster
        BY <1>0, <3>1 DEF K!TypeOK, cluster
      <3>2. ASSUME NEW n \in Nat, K!Apply(Langs[at.lang], n)
            PROVE  K!TypeOK'
        BY <1>0, <2>2, <3>2 DEF K!TypeOK, K!Apply
      <3>3. CASE Apply
        BY <3>1, <3>2, <3>3 DEF Apply, Applies
      <3>4. CASE ApplyServers
        BY <2>2, <3>1, <3>2, <3>4 DEF ApplyServers, Applies
      <3> QED
        BY <1>2, <3>3, <3>4
    <2> QED
      BY <1>0, <1>2, <2>1, <2>3 DEF ScriptType, FilesType, Apply, ApplyServers, Applies, Go,
         cluster
  <1>3. CASE Clear \/ Create
    <2>1. lost' \subseteq Command
      BY <1>0, <1>3, LostType DEF ScriptType, Script
    <2>2. K!TypeOK'
      <3>1. CASE UNCHANGED cluster
        BY <1>0, <3>1 DEF K!TypeOK, cluster
      <3>2. CASE K!ReplaceJobs(Scenario, {}) \/ K!ReplaceJobs({}, {at})
        BY <1>0, <3>2 DEF K!TypeOK, K!ReplaceJobs
      <3> QED
        BY <1>3, <3>1, <3>2 DEF Clear, Create
    <2>3. FilesType'
      <3>1. ending' \subseteq Scenario
        BY <1>0, <1>3, TerminateType DEF FilesType, Clear, Create, cluster
      <3> QED
        BY <1>0, <1>3, <3>1 DEF FilesType, ScriptType, Clear, Create
    <2> QED
      BY <1>0, <1>3, <2>1, <2>2, <2>3 DEF ScriptType, Clear, Create, Go
  <1>4. CASE \/ Build \/ Await \/ WaitComplete \/ WaitTimeout \/ WaitFails \/ Csv \/ Combine
             \/ Graphs \/ CommandFails
    <2>1. lost' \subseteq Command
      BY <1>0, <1>4, LostType DEF ScriptType, Script, CommandFails
    <2> QED
      BY <1>0, <1>4, <2>1 DEF ScriptType, FilesType, K!TypeOK, cluster, Build, Await,
         WaitComplete, WaitTimeout, WaitFails, Csv, Combine, Graphs, CommandFails, Go, Ended
  <1>5. CASE Collect \/ Salvage
    <2>1. lost' \subseteq Command
      BY <1>0, <1>5, LostType DEF ScriptType, Script
    <2>2. ScriptType'
      BY <1>0, <1>5, <2>1, AfterJob DEF ScriptType, Collect, Salvage
    <2>3. FilesType'
      BY <1>0, <1>5, LogStep DEF ScriptType, FilesType, Collect, Salvage, cluster
    <2>4. K!TypeOK'
      BY <1>0, <1>5 DEF K!TypeOK, Collect, Salvage, cluster
    <2> QED
      BY <1>0, <2>2, <2>3, <2>4
  <1>6. CASE Controllers
    <2>1. K!TypeOK'
      BY <1>0, <1>6, ControllersType DEF Controllers
    <2> QED
      BY <1>0, <1>6, <2>1 DEF ScriptType, FilesType, Controllers, script
  <1>7. CASE \E s \in Scenario : PodEnds(s)
    BY <1>0, <1>7 DEF ScriptType, FilesType, K!TypeOK, PodEnds, script
  <1> QED
    BY <1>1, <1>2, <1>3, <1>4, <1>5, <1>6, <1>7 DEF Next, Script

-----------------------------------------------------------------------------
(* The loops and the log files *)

\* Every step keeps the loop variables where its next command needs them.
LEMMA PositionStep ==
  ASSUME TypeOK, Position, Next
  PROVE  Position'
  <1>0. at \in Scenario
    BY DEF TypeOK
  <1> USE DEF Position, Past
  <1>1. CASE \/ Start \/ Build \/ Apply \/ ApplyServers \/ Await \/ Clear \/ Create
             \/ WaitComplete \/ WaitTimeout \/ WaitFails \/ Combine \/ Graphs \/ Final
             \/ CommandFails
    BY <1>1 DEF Go, Start, Build, Apply, ApplyServers, Applies, Await, Clear, Create,
       WaitComplete, WaitTimeout, WaitFails, Combine, Graphs, Final, CommandFails, First
  <1>2. CASE Csv
    <2>1. at.lang = 1 \/ at.lang = 2
      BY <1>0, Fields
    <2> QED
      BY <1>2, <2>1 DEF Csv, Go
  <1>3. CASE Collect \/ Salvage
    BY <1>0, <1>3, AfterJob DEF Collect, Salvage
  <1>4. CASE CleanLang
    BY <1>0, <1>4, AfterLanguage
  <1>5. CASE Controllers \/ \E s \in Scenario : PodEnds(s)
    BY <1>5 DEF Controllers, PodEnds, script
  <1> QED
    BY <1>1, <1>2, <1>3, <1>4, <1>5 DEF Next, Script

\* A log file is written when the loops leave its scenario, and never before.
LEMMA ProgressStep ==
  ASSUME TypeOK, Position, Progress, Next
  PROVE  Progress'
  <1>0. at \in Scenario /\ log \in [Scenario -> File]
    BY DEF TypeOK
  <1>1. CASE \/ Start \/ Build \/ Apply \/ ApplyServers \/ Await \/ Clear \/ Create
             \/ WaitComplete \/ WaitTimeout \/ WaitFails \/ Csv \/ Combine \/ Graphs \/ Final
             \/ CommandFails
    BY <1>1 DEF Progress, Reached, Past, Go, Start, Build, Apply, ApplyServers, Applies,
       Await, Clear, Create, WaitComplete, WaitTimeout, WaitFails, Csv, Combine, Graphs,
       Final, Cleanup, CommandFails
  <1>2. CASE Collect \/ Salvage
    <2>1. \A s \in Scenario : log'[s].written <=> log[s].written \/ s = at
      BY <1>0, <1>2, LogStep
    <2>2. \A s \in Scenario : Reached(s)' <=> Reached(s) \/ s = at
      BY <1>0, <1>2, AfterJob DEF Collect, Salvage
    <2> QED
      BY <1>2, <2>1, <2>2 DEF Progress, Collect, Salvage
  <1>3. CASE CleanLang
    <2>1. log' = log
      BY <1>3 DEF CleanLang, Cleanup
    <2> QED
      BY <1>0, <1>3, <2>1, AfterLanguage DEF Progress
  <1>4. CASE Controllers \/ \E s \in Scenario : PodEnds(s)
    BY <1>4 DEF Controllers, PodEnds, script, Progress, Reached
  <1> QED
    BY <1>1, <1>2, <1>3, <1>4 DEF Next, Script

-----------------------------------------------------------------------------
(* The Deployment and the Jobs *)

\* The controllers change no object but the pods and the Jobs, and neither make nor
\* remove a Job.
LEMMA ControllersFrame ==
  ASSUME K!TypeOK, K!Controllers
  PROVE  /\ UNCHANGED <<dep, svc>>
         /\ \A s \in Scenario : jobs'[s] = "absent" <=> jobs[s] = "absent"
  <1>1. CASE K!CreatePod \/ \E i \in Image : K!PodReady(i) \/ K!RemovePod(i)
    BY <1>1 DEF K!CreatePod, K!PodReady, K!RemovePod
  <1>2. CASE \E s \in Scenario : K!JobMoves(s)
    BY <1>2 DEF K!JobMoves, K!TypeOK
  <1> QED
    BY <1>1, <1>2 DEF K!Controllers

\* The Deployment of the scenario's servers is applied before its Jobs and taken down
\* only where the next one is applied anew.
LEMMA TargetStep ==
  ASSUME TypeOK, Target, Next
  PROVE  Target'
  <1>0. at \in Scenario /\ K!TypeOK
    BY DEF TypeOK
  <1>1. CASE \/ Start \/ Build \/ Apply \/ Csv \/ CleanLang \/ Combine \/ Graphs \/ Final
             \/ CommandFails
    <2>1. pc' \notin {"awaitsrv", "clear", "create", "wait", "collect", "salvage"}
      BY <1>1 DEF Start, Build, Apply, Csv, CleanLang, Combine, Graphs, Final, CommandFails,
         Go
    <2> QED
      BY <2>1 DEF Target
  <1>2. CASE ApplyServers
    <2>1. at' = at /\ pc' = "awaitsrv"
      BY <1>2 DEF ApplyServers, Applies, Go
    <2>2. CASE Loses("apply")
      BY <2>2, LostGrows DEF Target
    <2>3. CASE K!Apply(Langs[at.lang], Replicas[at.srv])
      BY <2>1, <2>3 DEF K!Apply, Target
    <2> QED
      BY <1>2, <2>2, <2>3 DEF ApplyServers, Applies
  <1>3. CASE Await \/ Clear \/ Create \/ WaitComplete \/ WaitTimeout \/ WaitFails
    <2>1. at' = at /\ svc' = svc /\ dep' = dep
      BY <1>3 DEF Await, Clear, Create, WaitComplete, WaitTimeout, WaitFails,
         K!ReplaceJobs, cluster
    <2>2. "apply" \notin lost' => "apply" \notin lost
      BY <1>3, LostGrows DEF Await, Clear, Create, WaitComplete, WaitTimeout, WaitFails
    <2>3. \/ pc' \in {"applysrv", "aborted"}
          \/ pc \in {"awaitsrv", "clear", "create", "wait"}
      BY <1>3 DEF Await, Clear, Create, WaitComplete, WaitTimeout, WaitFails, Go
    <2> QED
      BY <2>1, <2>2, <2>3 DEF Target
  <1>4. CASE Collect \/ Salvage
    <2>1. svc' = svc /\ dep' = dep /\ NextScenario /\ pc \in {"collect", "salvage"}
      BY <1>4 DEF Collect, Salvage, cluster
    <2>2. "apply" \notin lost' => "apply" \notin lost
      BY <1>4, LostGrows DEF Collect, Salvage, LosesLog
    <2>3. at'.lang = at.lang /\ (pc' = "clear" => at'.srv = at.srv)
          /\ pc' \in {"clear", "applysrv", "csv"}
      BY <1>0, <2>1, AfterJob
    <2> QED
      BY <2>1, <2>2, <2>3 DEF Target
  <1>5. CASE Controllers
    BY <1>0, <1>5, ControllersFrame DEF Controllers, script, Target
  <1>6. CASE \E s \in Scenario : PodEnds(s)
    BY <1>6 DEF PodEnds, script, Target
  <1> QED
    BY <1>1, <1>2, <1>3, <1>4, <1>5, <1>6 DEF Next, Script

\* All Jobs are deleted before one is created, and no controller makes another.
LEMMA AloneStep ==
  ASSUME TypeOK, Alone, Next
  PROVE  Alone'
  <1>0. at \in Scenario /\ K!TypeOK
    BY DEF TypeOK
  <1>1. CASE Clear
    <2>1. at' = at /\ pc' = "create"
      BY <1>1 DEF Clear, Go
    <2>2. CASE Loses("delete")
      BY <2>2, LostGrows DEF Alone
    <2>3. CASE K!ReplaceJobs(Scenario, {})
      BY <2>1, <2>3 DEF K!ReplaceJobs, Alone
    <2> QED
      BY <1>1, <2>2, <2>3 DEF Clear
  <1>2. CASE Create
    <2>1. at' = at /\ pc = "create" /\ pc' = "wait"
      BY <1>2 DEF Create, Go
    <2>2. "delete" \notin lost' => "delete" \notin lost
      BY <1>2, LostGrows DEF Create
    <2>3. \A s \in Scenario \ {at} : jobs'[s] = jobs[s]
      BY <1>2 DEF Create, K!ReplaceJobs, cluster
    <2> QED
      BY <2>1, <2>2, <2>3 DEF Alone
  <1>3. CASE Collect \/ Salvage
    <2>1. pc' \notin {"create", "wait"}
      BY <1>0, <1>3, AfterJob DEF Collect, Salvage
    <2> QED
      BY <2>1 DEF Alone
  <1>4. CASE \/ Start \/ Build \/ Apply \/ ApplyServers \/ Await \/ WaitComplete
             \/ WaitTimeout \/ WaitFails \/ Csv \/ CleanLang \/ Combine \/ Graphs \/ Final
             \/ CommandFails
    <2>1. pc' \notin {"create", "wait"}
      BY <1>4 DEF Start, Build, Apply, ApplyServers, Await, WaitComplete, WaitTimeout,
         WaitFails, Csv, CleanLang, Combine, Graphs, Final, CommandFails, Go
    <2> QED
      BY <2>1 DEF Alone
  <1>5. CASE Controllers
    BY <1>0, <1>5, ControllersFrame DEF Controllers, script, Alone
  <1>6. CASE \E s \in Scenario : PodEnds(s)
    BY <1>6 DEF PodEnds, script, Alone
  <1> QED
    BY <1>1, <1>2, <1>3, <1>4, <1>5, <1>6 DEF Next, Script

\* Deleting all Jobs leaves no Job, and one ending pod if there was one ending pod and no
\* running Job, or no ending pod and one Job at most.
LEMMA DeleteLeavesOne ==
  ASSUME \A s, t \in Scenario : jobs[s] # "absent" /\ jobs[t] # "absent" => s = t,
         \A s \in Scenario : jobs'[s] = "absent",
         Terminate(Scenario)
  PROVE  /\ \A s, t \in Scenario : jobs'[s] # "absent" /\ jobs'[t] # "absent" => s = t
         /\ \A s \in Scenario : jobs'[s] \notin K!Active
         /\ /\ \A s, t \in ending : s = t
            /\ ending = {} \/ \A s \in Scenario : jobs[s] \notin K!Active
            => \A s, t \in ending' : s = t
  BY DEF Terminate, K!Active

\* The next wait outlives the pod of the Job given up in the last.
LEMMA OneLeavesStep ==
  ASSUME TypeOK, Alone, OneLeaves, Next
  PROVE  OneLeaves'
  <1>0. at \in Scenario /\ K!TypeOK
    BY DEF TypeOK
  <1>1. CASE Cleanup /\ pc # "wait"
    <2>1. CASE Loses("delete")
      BY <2>1, LostGrows DEF OneLeaves
    <2>2. CASE Deletes({"deployment", "service", "jobs"}) /\ UNCHANGED lost
      <3>1. Terminate(Scenario) /\ \A s \in Scenario : jobs'[s] = "absent"
        BY <2>2 DEF Deletes, K!Delete
      <3> QED
        BY <1>1, <2>2, <3>1, DeleteLeavesOne DEF OneLeaves
    <2> QED
      BY <1>1, <2>1, <2>2 DEF Cleanup
  <1>2. CASE Clear
    <2>1. CASE Loses("delete")
      BY <2>1, LostGrows DEF OneLeaves
    <2>2. CASE K!ReplaceJobs(Scenario, {}) /\ Terminate(Scenario) /\ UNCHANGED lost
      <3>1. pc # "wait" /\ \A s \in Scenario : jobs'[s] = "absent"
        BY <1>2, <2>2 DEF Clear, Go, K!ReplaceJobs
      <3> QED
        BY <2>2, <3>1, DeleteLeavesOne DEF OneLeaves
    <2> QED
      BY <1>2, <2>1, <2>2 DEF Clear
  <1>3. CASE Create
    <2>1. pc = "create" /\ pc' = "wait" /\ ending' = ending
      BY <1>3 DEF Create, Go, cluster
    <2>2. lost \subseteq lost'
      BY <1>3, LostGrows DEF Create
    <2>3. \A s \in Scenario \ {at} : jobs'[s] = jobs[s]
      BY <1>3 DEF Create, K!ReplaceJobs, cluster
    <2> QED
      BY <1>0, <2>1, <2>2, <2>3 DEF Alone, OneLeaves
  <1>4. CASE WaitComplete \/ WaitTimeout
    <2>1. /\ pc = "wait" /\ lost' = lost /\ jobs' = jobs /\ ending' = ending
          /\ ending = {} \/ jobs[at] \in {"absent", "complete"}
      BY <1>4 DEF WaitComplete, WaitTimeout, Go, cluster
    <2> QED
      BY <1>0, <2>1 DEF Alone, OneLeaves, K!Active
  <1>5. CASE WaitFails
    <2>1. lost' = lost \cup {"wait"} /\ jobs' = jobs
      BY <1>5, LostGrows DEF WaitFails, cluster
    <2> QED
      BY <2>1 DEF OneLeaves
  <1>6. CASE \/ Build \/ Apply \/ ApplyServers \/ Await \/ Csv \/ Combine \/ Graphs
             \/ CommandFails
    <2>1. pc # "wait" /\ jobs' = jobs /\ ending' = ending /\ lost \subseteq lost'
      BY <1>6, LostGrows DEF Build, Apply, ApplyServers, Applies, K!Apply, Await, Csv,
         Combine, Graphs, CommandFails, Go, cluster
    <2> QED
      BY <2>1 DEF OneLeaves
  <1>7. CASE Collect \/ Salvage
    <2>1. pc # "wait" /\ jobs' = jobs /\ ending' = ending /\ lost \subseteq lost'
      BY <1>7, LostGrows DEF Collect, Salvage, LosesLog, cluster
    <2> QED
      BY <2>1 DEF OneLeaves
  <1>8. CASE Controllers
    <2>1. UNCHANGED <<pc, lost, ending>>
      BY <1>8 DEF Controllers, script
    <2>2. \A s \in Scenario : /\ jobs'[s] = "absent" <=> jobs[s] = "absent"
                              /\ jobs'[s] \in K!Active => jobs[s] \in K!Active
      <3>1. CASE K!CreatePod \/ \E i \in Image : K!PodReady(i) \/ K!RemovePod(i)
        BY <3>1 DEF K!CreatePod, K!PodReady, K!RemovePod
      <3>2. CASE \E s \in Scenario : K!JobMoves(s)
        BY <1>0, <3>2 DEF K!JobMoves, K!TypeOK, K!Active
      <3> QED
        BY <1>8, <3>1, <3>2 DEF Controllers, K!Controllers
    <2> QED
      BY <2>1, <2>2 DEF OneLeaves, K!Active
  <1>9. CASE \E s \in Scenario : PodEnds(s)
    <2>1. UNCHANGED <<pc, lost, jobs>> /\ ending' \subseteq ending
      BY <1>9 DEF PodEnds, script
    <2> QED
      BY <2>1 DEF OneLeaves
  <1>10. CASE Start \/ CleanLang \/ Final
    <2>1. Cleanup /\ pc # "wait"
      BY <1>10 DEF Start, CleanLang, Final, Go
    <2> QED
      BY <1>1, <2>1
  <1> QED
    BY <1>2, <1>3, <1>4, <1>5, <1>6, <1>7, <1>8, <1>9, <1>10 DEF Next, Script

\* If no command fails, `kubectl apply' finds no Job of the name and makes a new one,
\* which nobody deletes before its log is written.
LEMMA FreshStep ==
  ASSUME TypeOK, Alone, Fresh, Next
  PROVE  Fresh'
  <1>0. at \in Scenario /\ K!TypeOK
    BY DEF TypeOK
  <1>1. CASE Create
    <2>1. at' = at /\ pc = "create"
      BY <1>1 DEF Create, Go
    <2>2. CASE Loses("create")
      BY <2>2, LostGrows DEF Fresh
    <2>3. CASE lost' = lost
      <3>1. lost = {} => jobs[at] = "absent"
        BY <1>0, <2>1 DEF Alone
      <3>2. CASE jobs[at] = "absent" /\ K!ReplaceJobs({}, {at}) /\ own' = own \cup {at}
        BY <1>0, <2>1, <3>2 DEF K!ReplaceJobs, Fresh
      <3>3. CASE jobs[at] # "absent"
        BY <2>3, <3>1, <3>3 DEF Fresh
      <3> QED
        BY <1>1, <2>2, <3>2, <3>3 DEF Create
    <2> QED
      BY <1>1, <2>2, <2>3 DEF Create
  <1>2. CASE WaitComplete \/ WaitTimeout \/ WaitFails
    BY <1>2, LostGrows DEF WaitComplete, WaitTimeout, WaitFails, Go, cluster, Fresh
  <1>3. CASE Collect \/ Salvage
    <2>1. pc' \notin {"wait", "collect", "salvage"}
      BY <1>0, <1>3, AfterJob DEF Collect, Salvage
    <2> QED
      BY <2>1 DEF Fresh
  <1>4. CASE \/ Start \/ Build \/ Apply \/ ApplyServers \/ Await \/ Clear \/ Csv
             \/ CleanLang \/ Combine \/ Graphs \/ Final \/ CommandFails
    <2>1. pc' \notin {"wait", "collect", "salvage"}
      BY <1>4 DEF Start, Build, Apply, ApplyServers, Await, Clear, Csv, CleanLang, Combine,
         Graphs, Final, CommandFails, Go
    <2> QED
      BY <2>1 DEF Fresh
  <1>5. CASE Controllers
    BY <1>0, <1>5, ControllersFrame DEF Controllers, script, Fresh
  <1>6. CASE \E s \in Scenario : PodEnds(s)
    BY <1>6 DEF PodEnds, script, Fresh
  <1> QED
    BY <1>1, <1>2, <1>3, <1>4, <1>5, <1>6 DEF Next, Script

-----------------------------------------------------------------------------
(* The invariant *)

\* The invariant holds at the start, whatever an earlier campaign left.
LEMMA InitIInv == Init => IInv
  <1> SUFFICES ASSUME Init
               PROVE  IInv
    OBVIOUS
  <1>1. /\ pc = "start" /\ at = First /\ at \in Scenario /\ lost = {} /\ own = {} /\ ending = {}
        /\ dep = K!NoDeployment
    BY FirstIsFirst DEF Init, LeftBehind, K!Init, K!InitWith
  <1>2. K!TypeOK
    <2>1. jobs \in [Scenario -> {"absent", "pending", "running", "complete", "failed"}]
      <3>1. CASE LeftBehind
        BY <3>1 DEF LeftBehind, K!InitWith
      <3>2. CASE K!Init
        BY <3>2 DEF K!Init, K!InitWith
      <3> QED
        BY <3>1, <3>2 DEF Init
    <2>2. /\ dep = K!NoDeployment /\ svc = FALSE
          /\ starting = [i \in Image |-> 0] /\ ready = [i \in Image |-> 0]
      BY DEF Init, LeftBehind, K!Init, K!InitWith
    <2> QED
      BY <2>1, <2>2 DEF K!TypeOK
  <1>3. log \in [Scenario -> File] /\ \A s \in Scenario : ~log[s].written
    <2>1. \E of \in {"none", "earlier"} :
             log = [s \in Scenario |-> [written |-> FALSE, of |-> of]]
      BY DEF Init, LeftBehind, NoFile
    <2> QED
      BY <2>1 DEF File
  <1>4. TypeOK
    BY <1>1, <1>2, <1>3 DEF TypeOK
  <1>5. Position
    BY <1>1 DEF Position, Past
  <1>6. Progress
    BY <1>1, <1>3, FirstIsFirst DEF Progress, Reached, Past
  <1>7. Target /\ Alone /\ Fresh
    BY <1>1 DEF Target, Alone, Fresh
  <1>8. OneLeaves
    <2>1. \A s, t \in Scenario : jobs[s] # "absent" /\ jobs[t] # "absent" => s = t
      <3>1. CASE LeftBehind
        BY <3>1 DEF LeftBehind, K!InitWith
      <3>2. CASE K!Init
        BY <3>2 DEF K!Init, K!InitWith
      <3> QED
        BY <3>1, <3>2 DEF Init
    <2> QED
      BY <1>1, <2>1 DEF OneLeaves
  <1> QED
    BY <1>4, <1>5, <1>6, <1>7, <1>8 DEF IInv

\* Every step keeps the invariant.
LEMMA NextIInv == IInv /\ [Next]_vars => IInv'
  <1>1. IInv /\ Next => IInv'
    BY TypeStep, PositionStep, ProgressStep, TargetStep, AloneStep, OneLeavesStep,
       FreshStep DEF IInv
  <1>2. IInv /\ UNCHANGED vars => IInv'
    BY DEF IInv, vars, script, cluster, TypeOK, K!TypeOK, Position, Progress, Reached,
       Earlier, Abstract!Before, Target, Alone, OneLeaves, Fresh, K!NoDeployment
  <1> QED
    BY <1>1, <1>2

\* What the script reaches: the invariant holds in every state.
THEOREM CampaignInvariance == Spec => []IInv
  <1> QED
    BY InitIInv, NextIInv, PTL DEF Spec

\* The variables of the script, the cluster and the files keep their types: the loops
\* do not leave their arrays (l. 120-137).
THEOREM CampaignTypeCorrect == Spec => []TypeOK
  <1>1. IInv => TypeOK
    BY DEF IInv
  <1> QED
    BY <1>1, CampaignInvariance, PTL

\* While the script waits for a Job, the Service exists and the Deployment asks for
\* the servers of the scenario, unless a `kubectl apply' failed (l. 113-129).
THEOREM TargetIsRight == Spec => []RightTarget
  <1>1. IInv => RightTarget
    BY DEF IInv, Target, RightTarget
  <1> QED
    BY <1>1, CampaignInvariance, PTL

\* While the script waits for a Job there is no other, unless a deletion failed, and of
\* the deleted Jobs at most one has a pod that still sends, unless a wait failed too
\* (l. 141-142, 181-183).
THEOREM NoOtherJob == Spec => []OneJobAtATime
  <1>1. IInv => OneJobAtATime
    BY DEF IInv, Alone, OneLeaves, OneJobAtATime
  <1> QED
    BY <1>1, CampaignInvariance, PTL

-----------------------------------------------------------------------------
(* Steps *)

\* A log file that changes gets the reports of the Job this campaign created, unless a
\* command has failed or the Job's pod has not started.
LEMMA LogOwn ==
  ASSUME IInv, Next, NEW s \in Scenario,
         log'[s] # log[s], lost' = {}, jobs[s] # "pending"
  PROVE  log'[s].of = "own"
  <1>0. at \in Scenario /\ log \in [Scenario -> File]
    BY DEF IInv, TypeOK
  <1>1. Collect \/ Salvage
    BY DEF Next, Script, Start, Build, Apply, ApplyServers, Applies, Await, Clear, Create,
       WaitComplete, WaitTimeout, WaitFails, Csv, CleanLang, Combine, Graphs, Final,
       Cleanup, CommandFails, Controllers, PodEnds
  <1>2. s = at
    BY <1>0, <1>1, LogStep
  <1>3. ~Loses("log") /\ lost = {}
    BY <1>1, LostGrows DEF Collect, Salvage, LosesLog
  <1>4. Owner = "own" /\ jobs[at] # "absent"
    BY <1>1, <1>3 DEF IInv, Fresh, Owner, Collect, Salvage
  <1>5. Writes("own")
    BY <1>1, <1>2, <1>3, <1>4 DEF Collect, Salvage, LosesLog
  <1> QED
    BY <1>0, <1>2, <1>5 DEF Writes

\* No reports of an earlier campaign pass for new ones, although the files have the same
\* names, unless a command failed or the Job's pod never started (l. 183-202).
THEOREM ReportsAreNew == Spec => LogIsOfThisJob
  <1>1. IInv /\ [Next]_vars
          => [\A s \in Scenario : log'[s] # log[s] /\ lost' = {} /\ jobs[s] # "pending" =>
                 log'[s].of = "own"]_vars
    BY LogOwn
  <1> QED
    BY <1>1, CampaignInvariance, PTL DEF Spec, LogIsOfThisJob

-----------------------------------------------------------------------------
(* The script implements the campaign *)

\* The scenarios whose log file is written, and what the script says of itself.
Done == {s \in Scenario : log[s].written}
Status == IF pc \in Ended THEN pc ELSE "running"

\* The scenarios of one run are those of a campaign with one.
LEMMA SameScenarios == Abstract!Scenario = Scenario
  <1>1. 1 .. 1 = {1}
    OBVIOUS
  <1> QED
    BY <1>1 DEF Abstract!Scenario, Scenario

\* The script starts as a campaign does.
LEMMA InitRefines == Init => Abstract!Init
  <1> SUFFICES ASSUME Init
               PROVE  Abstract!Init
    OBVIOUS
  <1>1. {s \in Scenario : log[s].written} = {}
    BY DEF Init, LeftBehind, NoFile
  <1>2. pc \notin Ended
    BY DEF Init, Ended
  <1> QED
    BY <1>1, <1>2 DEF Abstract!Init

\* Writing the log file settles the scenario.
LEMMA SettleRefines ==
  ASSUME IInv, Collect \/ Salvage, NEW t \in Scenario, t = at
  PROVE  Abstract!Settle(t)
  <1>0. /\ at \in Scenario /\ pc \in {"collect", "salvage"} /\ NextScenario
        /\ log \in [Scenario -> File]
    BY DEF IInv, TypeOK, Collect, Salvage
  <1>1. pc' \in {"clear", "applysrv", "csv"}
    BY <1>0, AfterJob
  <1>2. \A s \in Scenario : log[s].written <=> Earlier(s, at)
    BY <1>0 DEF IInv, Progress, Reached, Past
  <1>3. Done' = Done \cup {t}
    <2>1. \A s \in Scenario : log'[s].written <=> log[s].written \/ s = at
      BY <1>0, LogStep
    <2> QED
      BY <1>0, <2>1 DEF Done
  <1>4. t \notin Done
    BY <1>0, <1>2, FirstIsFirst DEF Done
  <1>5. {r \in Scenario : Earlier(r, t)} \subseteq Done
    BY <1>2 DEF Done
  <1>6. Status = "running" /\ Status' = "running"
    BY <1>0, <1>1 DEF Status, Ended
  <1> QED
    BY <1>3, <1>4, <1>5, <1>6, SameScenarios
       DEF Abstract!Settle, Done, Status, Earlier

\* A script that is aborted ends the campaign with what it has.
LEMMA AbortRefines ==
  ASSUME pc \notin Ended, pc' = "aborted", log' = log
  PROVE  Abstract!End
  <1>1. Done' = Done
    BY DEF Done
  <1>2. Status = "running" /\ Status' = "aborted"
    BY DEF Status, Ended
  <1> QED
    BY <1>1, <1>2 DEF Abstract!End, Done, Status

\* The campaign is done when all log files are written.
LEMMA DoneRefines ==
  ASSUME IInv, Final
  PROVE  Abstract!End
  <1>1. at \in Scenario /\ pc = "final" /\ pc' = "done" /\ log' = log
    BY DEF IInv, TypeOK, Final, Cleanup, Go
  <1>2. at.lang = 2 /\ at.srv = Len(Replicas) /\ at.load = Loads
    BY <1>1 DEF IInv, Position, Past
  <1>3. \A s \in Scenario : Reached(s)
    BY <1>1, <1>2, LastOfAll DEF Reached, Past
  <1>4. Done = Scenario /\ Done' = Done
    BY <1>1, <1>3 DEF IInv, Progress, Done
  <1>5. Status = "running" /\ Status' = "done"
    BY <1>1 DEF Status, Ended
  <1> QED
    BY <1>4, <1>5, SameScenarios DEF Abstract!End, Done, Status

\* Every other step is none of the campaign.
LEMMA OtherRefines ==
  ASSUME pc' = pc \/ (pc \notin Ended /\ pc' \notin Ended), log' = log
  PROVE  UNCHANGED Abstract!vars
  <1>1. Done' = Done
    BY DEF Done
  <1>2. Status' = Status
    BY DEF Status
  <1> QED
    BY <1>1, <1>2 DEF Abstract!vars, Done, Status

\* Every step of the script is one of the campaign, or none.
LEMMA NextRefines ==
  ASSUME IInv, [Next]_vars
  PROVE  [Abstract!Next]_(Abstract!vars)
  <1>0. at \in Scenario
    BY DEF IInv, TypeOK
  <1>1. CASE Collect \/ Salvage
    <2>1. \E t \in Abstract!Scenario : Abstract!Settle(t)
      BY <1>0, <1>1, SettleRefines, SameScenarios
    <2> QED
      BY <2>1 DEF Abstract!Next
  <1>2. CASE CommandFails \/ (Await /\ pc' = "aborted")
    <2>1. pc \notin Ended /\ pc' = "aborted" /\ log' = log
      BY <1>2 DEF CommandFails, Await, Ended, Go
    <2> QED
      BY <2>1, AbortRefines DEF Abstract!Next
  <1>3. CASE Final
    BY <1>3, DoneRefines DEF Abstract!Next
  <1>4. CASE \/ Start \/ Build \/ Apply \/ ApplyServers \/ (Await /\ pc' # "aborted")
             \/ Clear \/ Create \/ WaitComplete \/ WaitTimeout \/ WaitFails \/ Csv
             \/ CleanLang \/ Combine \/ Graphs
    <2>1. pc \notin Ended /\ pc' \notin Ended /\ log' = log
      BY <1>4 DEF Start, Build, Apply, ApplyServers, Applies, Await, Clear, Create,
         WaitComplete, WaitTimeout, WaitFails, Csv, CleanLang, Combine, Graphs, Cleanup,
         Go, Ended
    <2> QED
      BY <2>1, OtherRefines
  <1>5. CASE Controllers \/ (\E s \in Scenario : PodEnds(s)) \/ UNCHANGED vars
    <2>1. pc' = pc /\ log' = log
      BY <1>5 DEF Controllers, PodEnds, vars, script
    <2> QED
      BY <2>1, OtherRefines
  <1> QED
    BY <1>1, <1>2, <1>3, <1>4, <1>5 DEF Next, Script

\* The script settles every scenario once, in the order of its loops, and is done only
\* when all are settled, whichever commands fail unnoticed (l. 255-272).
THEOREM CampaignRefinement == Spec => ImplementsCampaign
  <1>1. IInv /\ [Next]_vars => [Abstract!Next]_(Abstract!vars)
    BY NextRefines
  <1> QED
    BY <1>1, InitRefines, CampaignInvariance, PTL DEF Spec, ImplementsCampaign, Abstract!Spec

=============================================================================
