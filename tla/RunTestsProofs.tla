--------------------------- MODULE RunTestsProofs ---------------------------
(***************************************************************************)
(* Safety of v4/run_tests.sh for any number of runs, any numbers of        *)
(* servers, any loads and any number of restarts, whatever the cluster     *)
(* does and whichever command fails.                                       *)
(***************************************************************************)
EXTENDS RunTests, SequenceTheorems, TLAPS

-----------------------------------------------------------------------------
(* The inductive invariant, in parts *)

\* The script is past the scenario its loop variables name.
Past == {"cleanlang", "csv", "combine", "final", "finalclean", "done"}

\* Where in the loops each command can be.
Position ==
    /\ pc = "build" => at = FirstOf(1)
    /\ pc \in {"clean", "apply"} => at.srv = 1
    /\ pc \in {"clean", "apply", "image", "scale", "await"} => at.load = 1
    /\ pc \in Past => at.srv = Len(Replicas) /\ at.load = Len(Loads)
    /\ pc \in {"combine", "final", "finalclean", "done"} => at.lang = 2
    /\ pc \in {"final", "finalclean", "done"} => at.run = TotalRuns

Earlier(s, t) == Abstract!Before(s, t)

Reached(s) == Earlier(s, at) \/ (s = at /\ pc \in Past)

\* A campaign has settled the scenarios it went past, and no other.
Progress == pc # "aborted" => \A s \in Scenario : Settled(s) <=> Reached(s)

\* How far the Deployment is changed to what the scenario needs.
Target ==
    /\ pc \in {"image", "scale", "await", "launch", "wait", "collect", "salvage"} =>
          svc /\ dep # K!NoDeployment
    /\ pc \in {"scale", "await", "launch", "wait", "collect", "salvage"} =>
          dep.image = Lang
    /\ pc \in {"await", "launch", "wait", "collect", "salvage"} =>
          dep.replicas = Replicas[at.srv]

\* No Job is left when a language is finished.
Quiet == pc \in {"csv", "combine"} => \A s \in Scenario : jobs[s] \notin K!Active

Collecting == pc = "collect" => jobs[at] = "complete"

\* The rows of what is finished are up to date, and only finished runs are combined.
Combining ==
    pc # "aborted" =>
        /\ \A s \in Scenario :
              \/ s.run < at.run
              \/ s.run = at.run /\ s.lang < at.lang
              \/ s.run = at.run /\ pc \in {"combine", "final", "finalclean", "done"}
              => UpToDate(s)
        /\ \A r \in 1 .. TotalRuns : combined[r] = campaign =>
              r < at.run \/ (r = at.run /\ pc \in {"final", "finalclean", "done"})

\* A campaign that goes on has cut no log.
Whole == pc # "aborted" => \A s \in Scenario : json[s] = campaign => s \notin cut

IInv == /\ TypeOK /\ Position /\ Progress /\ Target /\ NoForeignLoad /\ Quiet
        /\ Collecting /\ Combining /\ Whole /\ CombinedIsComplete

-----------------------------------------------------------------------------
(* Scenarios and the order of the loops *)

\* The lengths of the arrays are positive, and there are two languages.
LEMMA Lengths ==
  /\ TotalRuns \in Nat /\ TotalRuns > 0
  /\ Len(Replicas) \in Nat /\ Len(Replicas) > 0
  /\ Len(Loads) \in Nat /\ Len(Loads) > 0
  /\ Len(Langs) = 2
  <1>1. Len(Langs) = 2
    BY DEF Langs
  <1>2. TotalRuns \in Nat /\ TotalRuns > 0
    BY ParametersAssumption
  <1>3. Len(Replicas) \in Nat /\ Len(Replicas) > 0
    BY ParametersAssumption, EmptySeq
  <1>4. Len(Loads) \in Nat /\ Len(Loads) > 0
    BY ParametersAssumption, EmptySeq
  <1> QED
    BY <1>1, <1>2, <1>3, <1>4

\* A scenario is its four numbers.
LEMMA Fields ==
  ASSUME NEW s \in Scenario
  PROVE  /\ s = [run |-> s.run, lang |-> s.lang, srv |-> s.srv, load |-> s.load]
         /\ s.run \in 1 .. TotalRuns /\ s.lang \in 1 .. 2
         /\ s.srv \in 1 .. Len(Replicas) /\ s.load \in 1 .. Len(Loads)
         /\ s.run \in Nat /\ s.lang \in Nat /\ s.srv \in Nat /\ s.load \in Nat
  BY Lengths DEF Scenario

\* Two scenarios with the same numbers are the same.
LEMMA SameFields ==
  ASSUME NEW s \in Scenario, NEW t \in Scenario,
         s.run = t.run, s.lang = t.lang, s.srv = t.srv, s.load = t.load
  PROVE  s = t
  BY Fields

\* Nothing comes before itself, nor before the first scenario.
LEMMA FirstIsFirst ==
  /\ FirstOf(1) \in Scenario
  /\ \A s \in Scenario : ~Earlier(s, s) /\ ~Earlier(s, FirstOf(1))
  <1>1. FirstOf(1) \in Scenario
    BY Lengths DEF FirstOf, Scenario
  <1>2. ASSUME NEW s \in Scenario
        PROVE  ~Earlier(s, s) /\ ~Earlier(s, FirstOf(1))
    BY Fields DEF Earlier, Abstract!Before, FirstOf
  <1> QED
    BY <1>1, <1>2

\* The next load of the same servers.
LEMMA NextLoad ==
  ASSUME NEW t \in Scenario, t.load < Len(Loads)
  PROVE  LET u == [t EXCEPT !.load = @ + 1] IN
         /\ u \in Scenario
         /\ u.run = t.run /\ u.lang = t.lang /\ u.srv = t.srv
         /\ \A s \in Scenario : Earlier(s, u) <=> Earlier(s, t) \/ s = t
  <1> DEFINE u == [t EXCEPT !.load = @ + 1]
  <1>1. /\ u = [run |-> t.run, lang |-> t.lang, srv |-> t.srv, load |-> t.load + 1]
        /\ u.run = t.run /\ u.lang = t.lang /\ u.srv = t.srv /\ u.load = t.load + 1
    BY Fields
  <1>2. u \in Scenario
    BY <1>1, Fields, Lengths DEF Scenario
  <1> HIDE DEF u
  <1>3. ASSUME NEW s \in Scenario
        PROVE  Earlier(s, u) <=> Earlier(s, t) \/ s = t
    BY <1>1, Fields, SameFields DEF Earlier, Abstract!Before
  <1> QED
    BY <1>1, <1>2, <1>3 DEF u

\* The first load of the next number of servers.
LEMMA NextServers ==
  ASSUME NEW t \in Scenario, t.srv < Len(Replicas), t.load = Len(Loads)
  PROVE  LET u == [t EXCEPT !.srv = @ + 1, !.load = 1] IN
         /\ u \in Scenario
         /\ u.run = t.run /\ u.lang = t.lang /\ u.load = 1
         /\ \A s \in Scenario : Earlier(s, u) <=> Earlier(s, t) \/ s = t
  <1> DEFINE u == [t EXCEPT !.srv = @ + 1, !.load = 1]
  <1>1. /\ u = [run |-> t.run, lang |-> t.lang, srv |-> t.srv + 1, load |-> 1]
        /\ u.run = t.run /\ u.lang = t.lang /\ u.srv = t.srv + 1 /\ u.load = 1
    <2> DEFINE v == [t EXCEPT !.srv = @ + 1]
    <2>1. v = [run |-> t.run, lang |-> t.lang, srv |-> t.srv + 1, load |-> t.load]
      BY DEF Scenario
    <2>2. u = [v EXCEPT !.load = 1]
      BY Zenon
    <2> HIDE DEF u, v
    <2> QED
      BY <2>1, <2>2
  <1>2. u \in Scenario
    BY <1>1, Fields, Lengths DEF Scenario
  <1> HIDE DEF u
  <1>3. ASSUME NEW s \in Scenario
        PROVE  Earlier(s, u) <=> Earlier(s, t) \/ s = t
    BY <1>1, Fields, SameFields DEF Earlier, Abstract!Before
  <1> QED
    BY <1>1, <1>2, <1>3 DEF u

\* The first scenario of the next language.
LEMMA NextLang ==
  ASSUME NEW t \in Scenario, t.lang < 2, t.srv = Len(Replicas), t.load = Len(Loads)
  PROVE  LET u == [t EXCEPT !.lang = @ + 1, !.srv = 1, !.load = 1] IN
         /\ u \in Scenario
         /\ u.run = t.run /\ u.lang = t.lang + 1 /\ u.srv = 1 /\ u.load = 1
         /\ \A s \in Scenario : Earlier(s, u) <=> Earlier(s, t) \/ s = t
  <1> DEFINE u == [t EXCEPT !.lang = @ + 1, !.srv = 1, !.load = 1]
  <1>1. /\ u = [run |-> t.run, lang |-> t.lang + 1, srv |-> 1, load |-> 1]
        /\ u.run = t.run /\ u.lang = t.lang + 1 /\ u.srv = 1 /\ u.load = 1
    <2> DEFINE v == [t EXCEPT !.lang = @ + 1]
               w == [v EXCEPT !.srv = 1]
    <2>1. v = [run |-> t.run, lang |-> t.lang + 1, srv |-> t.srv, load |-> t.load]
      BY DEF Scenario
    <2>2. w = [run |-> t.run, lang |-> t.lang + 1, srv |-> 1, load |-> t.load]
      <3> HIDE DEF v
      <3> QED
        BY <2>1
    <2>3. u = [w EXCEPT !.load = 1]
      BY Zenon
    <2> HIDE DEF u, v, w
    <2> QED
      BY <2>2, <2>3
  <1>2. u \in Scenario
    BY <1>1, Fields, Lengths DEF Scenario
  <1> HIDE DEF u
  <1>3. ASSUME NEW s \in Scenario
        PROVE  Earlier(s, u) <=> Earlier(s, t) \/ s = t
    BY <1>1, Fields, SameFields DEF Earlier, Abstract!Before
  <1> QED
    BY <1>1, <1>2, <1>3 DEF u

\* The first scenario of the next run.
LEMMA NextRun ==
  ASSUME NEW t \in Scenario, t.run < TotalRuns, t.lang = 2, t.srv = Len(Replicas),
         t.load = Len(Loads)
  PROVE  LET u == FirstOf(t.run + 1) IN
         /\ u \in Scenario
         /\ u.run = t.run + 1 /\ u.lang = 1 /\ u.srv = 1 /\ u.load = 1
         /\ \A s \in Scenario : Earlier(s, u) <=> Earlier(s, t) \/ s = t
  <1> DEFINE u == FirstOf(t.run + 1)
  <1>1. /\ u = [run |-> t.run + 1, lang |-> 1, srv |-> 1, load |-> 1]
        /\ u.run = t.run + 1 /\ u.lang = 1 /\ u.srv = 1 /\ u.load = 1
    BY DEF FirstOf
  <1>2. u \in Scenario
    BY <1>1, Fields, Lengths DEF Scenario
  <1> HIDE DEF u
  <1>3. ASSUME NEW s \in Scenario
        PROVE  Earlier(s, u) <=> Earlier(s, t) \/ s = t
    BY <1>1, Fields, SameFields DEF Earlier, Abstract!Before
  <1> QED
    BY <1>1, <1>2, <1>3 DEF u

\* The last scenario of a run comes after all others of the runs up to it.
LEMMA LastOfRun ==
  ASSUME NEW t \in Scenario, t.lang = 2, t.srv = Len(Replicas), t.load = Len(Loads),
         NEW s \in Scenario, s.run <= t.run
  PROVE  Earlier(s, t) \/ s = t
  BY Fields, SameFields DEF Earlier, Abstract!Before

-----------------------------------------------------------------------------
(* The loops *)

\* After a Job, at its end or when it is given up.
LEMMA AfterJob ==
  ASSUME at \in Scenario, pc \in {"collect", "salvage"}, NextScenario
  PROVE  /\ at' \in Scenario /\ at'.run = at.run /\ at'.lang = at.lang
         /\ cause' = cause /\ campaign' = campaign
         /\ \/ pc' = "launch" /\ at'.srv = at.srv
            \/ pc' = "image" /\ at'.load = 1
            \/ /\ pc' = "cleanlang" /\ at' = at
               /\ at.srv = Len(Replicas) /\ at.load = Len(Loads)
         /\ \A s \in Scenario : Reached(s)' <=> Reached(s) \/ s = at
  <1> USE DEF Step
  <1>1. CASE at.load < Len(Loads)
    <2>1. pc' = "launch" /\ at' = [at EXCEPT !.load = @ + 1]
      BY <1>1 DEF NextScenario
    <2> QED
      BY <1>1, <2>1, NextLoad DEF NextScenario, Reached, Past
  <1>2. CASE ~(at.load < Len(Loads)) /\ at.srv < Len(Replicas)
    <2>1. pc' = "image" /\ at' = [at EXCEPT !.srv = @ + 1, !.load = 1]
      BY <1>2 DEF NextScenario
    <2>2. at.load = Len(Loads)
      BY <1>2, Fields, Lengths
    <2> QED
      BY <1>2, <2>1, <2>2, NextServers DEF NextScenario, Reached, Past
  <1>3. CASE ~(at.load < Len(Loads)) /\ ~(at.srv < Len(Replicas))
    <2>1. pc' = "cleanlang" /\ at' = at
      BY <1>3 DEF NextScenario
    <2>2. at.load = Len(Loads) /\ at.srv = Len(Replicas)
      BY <1>3, Fields, Lengths
    <2> QED
      BY <1>3, <2>1, <2>2 DEF NextScenario, Reached, Past
  <1> QED
    BY <1>1, <1>2, <1>3

\* After the results of a language.
LEMMA AfterLanguage ==
  ASSUME at \in Scenario, Position, pc = "csv", NextLanguage
  PROVE  /\ at' \in Scenario /\ at'.run = at.run
         /\ cause' = cause /\ campaign' = campaign
         /\ \/ /\ pc' = "clean" /\ at.lang = 1 /\ at'.lang = 2
               /\ at'.srv = 1 /\ at'.load = 1
            \/ pc' = "combine" /\ at' = at /\ at.lang = 2
         /\ \A s \in Scenario : Reached(s)' <=> Reached(s)
  <1> USE DEF Step
  <1>1. at.srv = Len(Replicas) /\ at.load = Len(Loads)
    BY DEF Position, Past
  <1>2. CASE at.lang < 2
    <2>1. pc' = "clean" /\ at' = [at EXCEPT !.lang = @ + 1, !.srv = 1, !.load = 1]
      BY <1>2, Lengths DEF NextLanguage
    <2>2. at.lang = 1
      BY <1>2, Fields
    <2>3. cause' = cause /\ campaign' = campaign
      BY <1>2, Lengths DEF NextLanguage
    <2>4. /\ at' \in Scenario
          /\ at'.run = at.run /\ at'.lang = at.lang + 1 /\ at'.srv = 1 /\ at'.load = 1
          /\ \A s \in Scenario : Earlier(s, at') <=> Earlier(s, at) \/ s = at
      BY <1>1, <1>2, <2>1, NextLang
    <2>5. \A s \in Scenario : Reached(s)' <=> Reached(s)
      BY <2>1, <2>4 DEF Reached, Past
    <2> QED
      BY <2>1, <2>2, <2>3, <2>4, <2>5
  <1>3. CASE ~(at.lang < 2)
    <2>1. pc' = "combine" /\ at' = at
      BY <1>3, Lengths DEF NextLanguage
    <2>2. at.lang = 2
      BY <1>3, Fields
    <2> QED
      BY <1>3, <2>1, <2>2, Lengths DEF NextLanguage, Reached, Past
  <1> QED
    BY <1>2, <1>3

\* After the results of a run.
LEMMA AfterRun ==
  ASSUME at \in Scenario, Position, Combine
  PROVE  /\ at' \in Scenario /\ cause' = cause /\ campaign' = campaign
         /\ \/ /\ pc' = "clean" /\ at'.run = at.run + 1
               /\ at'.lang = 1 /\ at'.srv = 1 /\ at'.load = 1
            \/ pc' = "final" /\ at' = at /\ at.run = TotalRuns
         /\ \A s \in Scenario : Reached(s)' <=> Reached(s)
  <1> USE DEF Step
  <1>1. /\ pc = "combine"
        /\ at.lang = 2 /\ at.srv = Len(Replicas) /\ at.load = Len(Loads)
    BY DEF Position, Past, Combine
  <1>2. CASE at.run < TotalRuns
    <2>1. pc' = "clean" /\ at' = FirstOf(at.run + 1)
      BY <1>2 DEF Combine
    <2> QED
      BY <1>1, <1>2, <2>1, NextRun DEF Combine, Reached, Past
  <1>3. CASE ~(at.run < TotalRuns)
    <2>1. pc' = "final" /\ at' = at
      BY <1>3 DEF Combine
    <2>2. at.run = TotalRuns
      BY <1>3, Fields, Lengths
    <2> QED
      BY <1>1, <1>3, <2>1, <2>2 DEF Combine, Reached, Past
  <1> QED
    BY <1>2, <1>3

-----------------------------------------------------------------------------
(* Types *)

\* The controllers of the cluster keep the types of its objects.
LEMMA ControllersType ==
  ASSUME K!TypeOK, K!Controllers
  PROVE  K!TypeOK'
  <1> USE DEF K!TypeOK
  <1>1. CASE K!CreatePod
    <2>1. dep.image \in Image
      BY <1>1 DEF K!CreatePod
    <2>2. starting[dep.image] + 1 \in Nat
      BY <2>1
    <2> QED
      BY <1>1, <2>1, <2>2 DEF K!CreatePod
  <1>2. ASSUME NEW i \in Image, K!PodReady(i)
        PROVE  K!TypeOK'
    <2>1. starting[i] - 1 \in Nat /\ ready[i] + 1 \in Nat
      BY <1>2 DEF K!PodReady
    <2> QED
      BY <1>2, <2>1 DEF K!PodReady
  <1>3. ASSUME NEW i \in Image, K!RemovePod(i)
        PROVE  K!TypeOK'
    <2>1. CASE starting[i] > 0 /\ starting' = [starting EXCEPT ![i] = @ - 1]
                 /\ UNCHANGED ready
      <3>1. starting[i] - 1 \in Nat
        BY <2>1
      <3> QED
        BY <1>3, <2>1, <3>1 DEF K!RemovePod
    <2>2. CASE ready[i] > 0 /\ ready' = [ready EXCEPT ![i] = @ - 1]
                 /\ UNCHANGED starting
      <3>1. ready[i] - 1 \in Nat
        BY <2>2
      <3> QED
        BY <1>3, <2>2, <3>1 DEF K!RemovePod
    <2> QED
      BY <1>3, <2>1, <2>2 DEF K!RemovePod
  <1>4. ASSUME NEW s \in Scenario, K!JobMoves(s)
        PROVE  K!TypeOK'
    BY <1>4 DEF K!JobMoves
  <1> QED
    BY <1>1, <1>2, <1>3, <1>4 DEF K!Controllers

\* The commands of the script keep them too.
LEMMA DeleteType ==
  ASSUME K!TypeOK, NEW what, K!Delete(what)
  PROVE  K!TypeOK'
  BY DEF K!TypeOK, K!Delete, K!NoDeployment

\* A scenario names an image and a number of servers.
LEMMA LanguageAndServers ==
  ASSUME at \in Scenario
  PROVE  Lang \in {"go", "cpp"} /\ Lang \in Image /\ Replicas[at.srv] \in Nat \ {0}
  <1>1. at.lang = 1 \/ at.lang = 2
    BY Fields
  <1>2. Lang \in {"go", "cpp"}
    BY <1>1 DEF Lang, Langs
  <1>3. Replicas[at.srv] \in Nat \ {0}
    BY Fields, ParametersAssumption
  <1> QED
    BY <1>2, <1>3 DEF Image

\* What a variable of the script may hold.
ScriptType ==
    /\ pc \in PC
    /\ at \in Scenario
    /\ cause \in {"none", "command", "deployment", "job"}
    /\ campaign \in 1 .. MaxCampaigns

ResultsType ==
    /\ json \in [Scenario -> 0 .. campaign]
    /\ cut \subseteq Scenario
    /\ failed \in [Scenario -> 0 .. campaign]
    /\ rows \in [Scenario -> 0 .. campaign]
    /\ combined \in [1 .. TotalRuns -> 0 .. campaign]

\* Every step keeps the types: the loops do not leave their arrays, and no
\* controller counts a pod below zero.
LEMMA TypeStep ==
  ASSUME TypeOK, Position, Target, Next
  PROVE  TypeOK'
  <1>0. /\ ScriptType /\ K!TypeOK /\ ResultsType
        /\ ScriptType' /\ K!TypeOK' /\ ResultsType' => TypeOK'
    BY DEF TypeOK, ScriptType, ResultsType
  <1>1. CASE \/ Build \/ Final \/ WaitComplete \/ WaitTimeout \/ Launch \/ CommandFails
             \/ Await \/ Clean \/ Apply \/ CleanLang \/ FinalClean \/ SetImage \/ Scale
    <2>1. ScriptType' /\ ResultsType'
      BY <1>0, <1>1 DEF ScriptType, ResultsType, PC, Step, Abort, results, cluster,
         Build, Final, WaitComplete, WaitTimeout, Launch, CommandFails, Await, Clean,
         Apply, CleanLang, FinalClean, SetImage, Scale
    <2>2. K!TypeOK'
      <3>1. CASE Build \/ Final \/ WaitComplete \/ WaitTimeout \/ CommandFails \/ Await
        BY <1>0, <3>1 DEF K!TypeOK, Build, Final, WaitComplete, WaitTimeout, CommandFails,
           Await, Abort, cluster
      <3>2. CASE Clean \/ CleanLang \/ FinalClean
        BY <1>0, <3>2, DeleteType DEF Clean, CleanLang, FinalClean, Cleanup
      <3>3. CASE Apply
        BY <1>0, <3>3 DEF K!TypeOK, Apply, K!Apply, Image
      <3>4. CASE SetImage \/ Scale
        <4>1. dep \in [image : Image, replicas : Nat]
          BY <1>0, <3>4 DEF Target, K!TypeOK, SetImage, Scale, Step
        <4>2. Lang \in Image /\ Replicas[at.srv] \in Nat
          BY <1>0, LanguageAndServers DEF ScriptType
        <4> QED
          BY <1>0, <3>4, <4>1, <4>2 DEF K!TypeOK, SetImage, Scale
      <3>5. CASE Launch
        BY <1>0, <3>5 DEF K!TypeOK, Launch, K!ReplaceJobs
      <3> QED
        BY <1>1, <3>1, <3>2, <3>3, <3>4, <3>5
    <2> QED
      BY <1>0, <2>1, <2>2
  <1>2. CASE Collect \/ Salvage
    <2>1. CASE Salvage /\ Abort("job")
      BY <1>0, <2>1 DEF ScriptType, ResultsType, K!TypeOK, PC, Abort, cluster, results
    <2>2. CASE NextScenario /\ UNCHANGED <<cluster, rows, combined>> /\ cut' \subseteq cut
               /\ \/ json' = [json EXCEPT ![at] = campaign] /\ UNCHANGED failed
                  \/ failed' = [failed EXCEPT ![at] = campaign] /\ UNCHANGED json
      <3>1. campaign \in 0 .. campaign
        BY <1>0 DEF ScriptType
      <3>2. ScriptType'
        BY <1>0, <1>2, <2>2, AfterJob DEF ScriptType, PC, Collect, Salvage
      <3>3. campaign' = campaign
        BY <1>0, <1>2, <2>2, AfterJob DEF ScriptType, Collect, Salvage
      <3>4. ResultsType' /\ K!TypeOK'
        BY <1>0, <2>2, <3>1, <3>3 DEF ResultsType, K!TypeOK, cluster
      <3> QED
        BY <1>0, <3>2, <3>4
    <2> QED
      BY <1>2, <2>1, <2>2 DEF Collect, Salvage
  <1>3. CASE Csv
    <2>1. ScriptType' /\ campaign' = campaign
      BY <1>0, <1>3, AfterLanguage DEF ScriptType, PC, Csv
    <2>2. rows' \in [Scenario -> 0 .. campaign]
      <3>1. 0 \in 0 .. campaign
        BY <1>0 DEF ScriptType
      <3>2. PICK empty \in SUBSET cut :
              rows' = [s \in Scenario |-> IF s.run # at.run \/ s.lang # at.lang THEN rows[s]
                                         ELSE IF s \in empty THEN 0 ELSE json[s]]
        BY <1>3 DEF Csv
      <3>3. ASSUME NEW s \in Scenario
            PROVE  rows[s] \in 0 .. campaign /\ json[s] \in 0 .. campaign
        BY <1>0 DEF ResultsType
      <3> QED
        BY <3>1, <3>2, <3>3
    <2>3. ResultsType' /\ K!TypeOK'
      BY <1>0, <1>3, <2>1, <2>2 DEF ResultsType, K!TypeOK, Csv, cluster
    <2> QED
      BY <1>0, <2>1, <2>3
  <1>4. CASE Combine
    <2>1. ScriptType' /\ campaign' = campaign
      BY <1>0, <1>4, AfterRun DEF ScriptType, PC
    <2>2. campaign \in 0 .. campaign
      BY <1>0 DEF ScriptType
    <2>3. ResultsType' /\ K!TypeOK'
      BY <1>0, <1>4, <2>1, <2>2 DEF ResultsType, K!TypeOK, Combine, cluster
    <2> QED
      BY <1>0, <2>1, <2>3
  <1>5. CASE Again
    <2>1. ScriptType'
      BY <1>0, <1>5, FirstIsFirst, ParametersAssumption DEF ScriptType, PC, Again
    <2>2. 0 .. campaign \subseteq 0 .. campaign'
      BY <1>0, <1>5 DEF ScriptType, Again
    <2>3. ResultsType' /\ K!TypeOK'
      BY <1>0, <1>5, <2>2 DEF ResultsType, K!TypeOK, Again, cluster, results
    <2> QED
      BY <1>0, <2>1, <2>3
  <1>6. CASE Controllers
    <2>1. K!TypeOK'
      BY <1>0, <1>6, ControllersType DEF Controllers
    <2> QED
      BY <1>0, <1>6, <2>1 DEF ScriptType, ResultsType, Controllers, script, results
  <1>7. CASE \E s \in Scenario : JobExpires(s)
    BY <1>0, <1>7 DEF ScriptType, ResultsType, K!TypeOK, JobExpires, script, results
  <1>8. CASE CollectFails
    <2>1. campaign \in 0 .. campaign
      BY <1>0 DEF ScriptType
    <2>2. ScriptType' /\ K!TypeOK'
      BY <1>0, <1>8 DEF ScriptType, PC, K!TypeOK, CollectFails, cluster
    <2>3. ResultsType'
      BY <1>0, <1>8, <2>1 DEF ResultsType, ScriptType, CollectFails
    <2> QED
      BY <1>0, <2>2, <2>3
  <1> QED
    BY <1>1, <1>2, <1>3, <1>4, <1>5, <1>6, <1>7, <1>8 DEF Next, Script

-----------------------------------------------------------------------------
(* The loops and the results *)

\* Every step keeps the loop variables where its next command needs them.
LEMMA PositionStep ==
  ASSUME TypeOK, Position, Next
  PROVE  Position'
  <1>0. at \in Scenario
    BY DEF TypeOK
  <1> USE DEF Position, Past
  <1>1. CASE \/ Build \/ Final \/ WaitComplete \/ WaitTimeout \/ Launch \/ CommandFails
             \/ Await \/ Clean \/ Apply \/ CleanLang \/ FinalClean \/ SetImage \/ Scale
    BY <1>1 DEF Step, Abort, Build, Final, WaitComplete, WaitTimeout, Launch,
       CommandFails, Await, Clean, Apply, CleanLang, FinalClean, SetImage, Scale, FirstOf
  <1>2. CASE Collect \/ Salvage
    BY <1>0, <1>2, AfterJob DEF Collect, Salvage, Abort
  <1>3. CASE Csv
    BY <1>0, <1>3, AfterLanguage DEF Csv
  <1>4. CASE Combine
    BY <1>0, <1>4, AfterRun DEF Combine
  <1>5. CASE Again
    BY <1>5 DEF Again
  <1>6. CASE Controllers \/ \E s \in Scenario : JobExpires(s)
    BY <1>6 DEF Controllers, JobExpires, script
  <1>7. CASE CollectFails
    BY <1>7 DEF CollectFails
  <1> QED
    BY <1>1, <1>2, <1>3, <1>4, <1>5, <1>6, <1>7 DEF Next, Script

\* A scenario is settled when the loops leave it, and never before.
LEMMA ProgressStep ==
  ASSUME TypeOK, Position, Progress, Whole, Next
  PROVE  Progress'
  <1>0. at \in Scenario
    BY DEF TypeOK
  <1>1. CASE \/ Build \/ Final \/ WaitComplete \/ WaitTimeout \/ Launch \/ CommandFails
             \/ Await \/ Clean \/ Apply \/ CleanLang \/ FinalClean \/ SetImage \/ Scale
    BY <1>1 DEF Progress, Settled, Reached, Past, Step, Abort, results, Build, Final,
       WaitComplete, WaitTimeout, Launch, CommandFails, Await, Clean, Apply, CleanLang,
       FinalClean, SetImage, Scale
  <1>2. CASE Collect \/ Salvage
    <2>1. CASE Abort("job")
      BY <2>1 DEF Abort, Progress
    <2>2. CASE NextScenario
               /\ \/ /\ json' = [json EXCEPT ![at] = campaign] /\ cut' = cut \ {at}
                     /\ UNCHANGED failed
                  \/ failed' = [failed EXCEPT ![at] = campaign] /\ UNCHANGED <<json, cut>>
      <3>1. /\ campaign' = campaign
            /\ \A s \in Scenario : Reached(s)' <=> Reached(s) \/ s = at
        BY <1>0, <1>2, <2>2, AfterJob DEF Collect, Salvage
      <3>2. \A s \in Scenario : Settled(s)' <=> Settled(s) \/ s = at
        BY <2>2, <3>1 DEF Settled, TypeOK
      <3> QED
        BY <1>2, <3>1, <3>2 DEF Progress, Collect, Salvage
    <2> QED
      BY <1>2, <2>1, <2>2 DEF Collect, Salvage
  <1>3. CASE Csv
    BY <1>0, <1>3, AfterLanguage DEF Csv, Progress, Settled
  <1>4. CASE Combine
    BY <1>0, <1>4, AfterRun DEF Combine, Step, Progress, Settled
  <1>5. CASE Again
    <2>1. \A s \in Scenario : ~Settled(s)'
      BY <1>5 DEF Again, TypeOK, Settled, results
    <2>2. \A s \in Scenario : ~Reached(s)'
      BY <1>5, FirstIsFirst DEF Again, Reached, Past
    <2> QED
      BY <2>1, <2>2 DEF Progress
  <1>6. CASE Controllers \/ \E s \in Scenario : JobExpires(s)
    BY <1>6 DEF Controllers, JobExpires, script, results, Progress, Settled, Reached
  <1>7. CASE CollectFails
    BY <1>7 DEF CollectFails, Progress
  <1> QED
    BY <1>1, <1>2, <1>3, <1>4, <1>5, <1>6, <1>7 DEF Next, Script

-----------------------------------------------------------------------------
(* The Deployment and the Jobs *)

\* The controllers change no object but the pods and the Jobs, and no Job becomes active
\* or stops being complete.
LEMMA ControllersFrame ==
  ASSUME K!TypeOK, K!Controllers
  PROVE  /\ UNCHANGED <<dep, svc>>
         /\ \A s \in Scenario : /\ jobs'[s] \in K!Active => jobs[s] \in K!Active
                                /\ jobs[s] = "complete" => jobs'[s] = "complete"
  <1>1. CASE K!CreatePod \/ \E i \in Image : K!PodReady(i) \/ K!RemovePod(i)
    BY <1>1 DEF K!CreatePod, K!PodReady, K!RemovePod
  <1>2. CASE \E s \in Scenario : K!JobMoves(s)
    BY <1>2 DEF K!JobMoves, K!TypeOK, K!Active
  <1> QED
    BY <1>1, <1>2 DEF K!Controllers

\* The Deployment is built up command by command and taken down only where
\* the next scenario applies it anew.
LEMMA TargetStep ==
  ASSUME TypeOK, Target, Next
  PROVE  Target'
  <1>0. at \in Scenario /\ K!TypeOK
    BY DEF TypeOK
  <1>1. CASE \/ Build \/ Clean \/ CleanLang \/ Csv \/ Combine \/ Final \/ FinalClean
             \/ CommandFails \/ CollectFails \/ Again
    <2>1. pc' \in {"build", "clean", "apply", "csv", "combine", "final", "finalclean",
                   "done", "aborted"}
      BY <1>1 DEF Build, Clean, CleanLang, Csv, NextLanguage, Combine, Final, FinalClean,
         CommandFails, CollectFails, Abort, Again, Step
    <2> QED
      BY <2>1 DEF Target
  <1>2. CASE Apply
    <2>1. /\ pc' = "image" /\ svc' = TRUE
          /\ dep' = [image |-> "base", replicas |-> 2]
      BY <1>2 DEF Apply, K!Apply, Step
    <2>2. dep' # K!NoDeployment
      BY <2>1 DEF K!NoDeployment
    <2> QED
      BY <2>1, <2>2 DEF Target
  <1>3. CASE SetImage \/ Scale
    <2>1. /\ pc \in {"image", "scale"} /\ svc /\ svc' = svc /\ at' = at
          /\ dep # K!NoDeployment
          /\ dep \in [image : Image, replicas : Nat]
      BY <1>0, <1>3 DEF Target, K!TypeOK, SetImage, Scale, Step
    <2>2. Lang' = Lang /\ Lang \in {"go", "cpp"} /\ Replicas[at.srv] \in Nat \ {0}
      BY <1>0, <2>1, LanguageAndServers DEF Lang
    <2>3. CASE SetImage
      <3>1. pc' = "scale" /\ dep'.image = Lang
        BY <2>1, <2>3 DEF SetImage, Step
      <3>2. dep' # K!NoDeployment
        BY <2>2, <3>1 DEF K!NoDeployment
      <3> QED
        BY <2>1, <2>2, <3>1, <3>2 DEF Target
    <2>4. CASE Scale
      <3>1. pc' = "await" /\ dep'.replicas = Replicas[at.srv] /\ dep'.image = dep.image
        BY <2>1, <2>4 DEF Scale, Step
      <3>2. dep' # K!NoDeployment
        BY <2>2, <3>1 DEF K!NoDeployment
      <3>3. dep.image = Lang
        BY <2>4 DEF Target, Scale, Step
      <3> QED
        BY <2>1, <2>2, <3>1, <3>2, <3>3 DEF Target
    <2> QED
      BY <1>3, <2>3, <2>4
  <1>4. CASE Await \/ Launch \/ WaitComplete \/ WaitTimeout
    BY <1>4 DEF Target, Lang, K!NoDeployment, Await, Launch, WaitComplete, WaitTimeout,
       K!ReplaceJobs, Step, Abort, cluster
  <1>5. CASE Collect \/ Salvage
    <2>1. CASE Abort("job")
      BY <2>1 DEF Abort, Target
    <2>2. CASE NextScenario /\ UNCHANGED cluster
      BY <1>0, <1>5, <2>2, AfterJob DEF Target, Lang, K!NoDeployment, Collect, Salvage,
         cluster
    <2> QED
      BY <1>5, <2>1, <2>2 DEF Collect, Salvage
  <1>6. CASE Controllers
    BY <1>0, <1>6, ControllersFrame DEF Controllers, script, Target, Lang, K!NoDeployment
  <1>7. CASE \E s \in Scenario : JobExpires(s)
    BY <1>7 DEF JobExpires, script, Target, Lang, K!NoDeployment
  <1> QED
    BY <1>1, <1>2, <1>3, <1>4, <1>5, <1>6, <1>7 DEF Next, Script

\* A Job is created only for the scenario of the loops, and both cleanups of a
\* language delete what is left.
LEMMA LoadStep ==
  ASSUME TypeOK, Position, NoForeignLoad, Quiet, Next
  PROVE  NoForeignLoad' /\ Quiet'
  <1>0. at \in Scenario /\ K!TypeOK
    BY DEF TypeOK
  <1> DEFINE Silent == \A s \in Scenario : jobs[s] \notin K!Active
             Local  == \A s \in Scenario : jobs[s] \in K!Active =>
                                              s.run = at.run /\ s.lang = at.lang
  <1>1. CASE Clean \/ CleanLang \/ FinalClean
    <2>1. Silent'
      BY <1>0, <1>1 DEF Clean, CleanLang, FinalClean, Cleanup, K!Delete, K!Active
    <2> QED
      BY <2>1 DEF NoForeignLoad, Quiet
  <1>2. CASE \/ Build \/ Apply \/ SetImage \/ Scale \/ Await \/ WaitComplete
             \/ WaitTimeout \/ CommandFails \/ CollectFails \/ Final
    <2>1. jobs' = jobs /\ at' = at /\ campaign' = campaign
      BY <1>2 DEF Build, Apply, K!Apply, SetImage, Scale, Await, WaitComplete,
         WaitTimeout, CommandFails, CollectFails, Final, Abort, Step, cluster
    <2>2. \/ pc = "build" /\ pc' = "clean"
          \/ pc \notin {"build", "clean", "aborted"} /\ pc' \notin {"csv", "combine"}
          \/ pc' = "aborted"
      BY <1>2 DEF Build, Apply, SetImage, Scale, Await, WaitComplete,
         WaitTimeout, CommandFails, CollectFails, Final, Abort, Step
    <2> QED
      BY <2>1, <2>2 DEF NoForeignLoad, Quiet, FirstOf
  <1>3. CASE Launch
    <2>1. /\ pc = "launch" /\ pc' = "wait" /\ at' = at
          /\ \A s \in Scenario : jobs'[s] \in K!Active => jobs[s] \in K!Active \/ s = at
      BY <1>0, <1>3 DEF Launch, K!ReplaceJobs, Step, K!Active
    <2> QED
      BY <2>1 DEF NoForeignLoad, Quiet
  <1>4. CASE Collect \/ Salvage
    <2>1. CASE Abort("job")
      BY <2>1 DEF Abort, NoForeignLoad, Quiet
    <2>2. CASE NextScenario /\ UNCHANGED cluster
      <3>1. jobs' = jobs /\ at'.run = at.run /\ at'.lang = at.lang
            /\ pc' \notin {"csv", "combine"} /\ pc \in {"collect", "salvage"}
        BY <1>0, <1>4, <2>2, AfterJob DEF Collect, Salvage, cluster
      <3> QED
        BY <3>1 DEF NoForeignLoad, Quiet
    <2> QED
      BY <1>4, <2>1, <2>2 DEF Collect, Salvage
  <1>5. CASE Csv \/ Combine
    <2>1. Silent /\ jobs' = jobs
      BY <1>5 DEF Quiet, Csv, Combine, cluster
    <2> QED
      BY <2>1 DEF NoForeignLoad, Quiet
  <1>6. CASE Again
    <2>1. campaign' > 1 /\ at' = FirstOf(1) /\ pc' = "build"
      BY <1>6 DEF Again, TypeOK
    <2>2. FirstOf(1)' = FirstOf(1)
      BY DEF FirstOf
    <2> QED
      BY <2>1, <2>2 DEF NoForeignLoad, Quiet
  <1>7. CASE Controllers \/ \E s \in Scenario : JobExpires(s)
    <2>1. /\ \A s \in Scenario : jobs'[s] \in K!Active => jobs[s] \in K!Active
          /\ UNCHANGED script
      BY <1>0, <1>7, ControllersFrame DEF Controllers, JobExpires, K!TypeOK, K!Active,
         script
    <2> QED
      BY <2>1 DEF NoForeignLoad, Quiet, FirstOf, script
  <1> QED
    BY <1>1, <1>2, <1>3, <1>4, <1>5, <1>6, <1>7 DEF Next, Script

\* Between the wait and the collection no controller takes the completed Job.
LEMMA CollectingStep ==
  ASSUME TypeOK, Collecting, Next
  PROVE  Collecting'
  <1>0. at \in Scenario /\ K!TypeOK
    BY DEF TypeOK
  <1>1. CASE Controllers
    <2>1. UNCHANGED <<pc, at>>
      BY <1>1 DEF Controllers, script
    <2>2. jobs[at] = "complete" => jobs'[at] = "complete"
      BY <1>0, <1>1, ControllersFrame DEF Controllers
    <2> QED
      BY <2>1, <2>2 DEF Collecting
  <1>2. CASE \E s \in Scenario : JobExpires(s)
    <2>1. PICK s \in Scenario : JobExpires(s)
      BY <1>2
    <2>2. UNCHANGED <<pc, at>> /\ (pc = "collect" => s # at)
      BY <2>1 DEF JobExpires, script
    <2>3. s # at => jobs'[at] = jobs[at]
      BY <1>0, <2>1 DEF JobExpires, K!TypeOK
    <2> QED
      BY <2>2, <2>3 DEF Collecting
  <1>3. CASE Script \/ CommandFails \/ CollectFails \/ Again
    <2>1. pc' = "collect" => WaitComplete
      BY <1>0, <1>3, AfterJob DEF Script, Build, Clean, Apply, SetImage, Scale, Await,
         Launch, WaitTimeout, Collect, Salvage, CleanLang, Csv, NextLanguage, Combine,
         Final, FinalClean, CommandFails, CollectFails, Again, Abort, Step
    <2> QED
      BY <2>1 DEF Collecting, WaitComplete, cluster
  <1> QED
    BY <1>1, <1>2, <1>3 DEF Next

-----------------------------------------------------------------------------
(* The rows and the combined files *)

\* A step that changes neither the files nor how far the rows are made.
LEMMA RowsFrame ==
  ASSUME Combining, UNCHANGED <<at, campaign, results>>, pc # "aborted",
         \/ pc' = "aborted"
         \/ {pc, pc'} \subseteq PC \ {"combine", "final", "finalclean", "done"}
         \/ {pc, pc'} \subseteq {"final", "finalclean", "done"}
  PROVE  Combining'
  BY DEF Combining, UpToDate, results

\* Rows are made of every language once it is finished, and stay up to date as
\* its .json files change no more.
LEMMA CombiningStep ==
  ASSUME TypeOK, Position, Combining, Next
  PROVE  Combining'
  <1>0. at \in Scenario /\ campaign \in Nat
    BY DEF TypeOK
  <1>1. CASE pc' = "aborted"
    BY <1>1 DEF Combining
  <1>2. CASE /\ \/ Build \/ Clean \/ Apply \/ SetImage \/ Scale \/ Await \/ Launch
                \/ WaitComplete \/ WaitTimeout \/ CleanLang \/ Final \/ FinalClean
             /\ pc' # "aborted"
    <2>1. UNCHANGED <<at, campaign, results>> /\ pc # "aborted"
      BY <1>2 DEF Build, Clean, Apply, SetImage, Scale, Await, Launch, WaitComplete,
         WaitTimeout, CleanLang, Final, FinalClean, Step, Abort
    <2>2. \/ {pc, pc'} \subseteq PC \ {"combine", "final", "finalclean", "done"}
          \/ {pc, pc'} \subseteq {"final", "finalclean", "done"}
      BY <1>2 DEF Build, Clean, Apply, SetImage, Scale, Await, Launch, WaitComplete,
         WaitTimeout, CleanLang, Final, FinalClean, Step, Abort, PC
    <2> QED
      BY <2>1, <2>2, RowsFrame
  <1>3. CASE (Collect \/ Salvage) /\ pc' # "aborted"
    <2>1. /\ pc \in {"collect", "salvage"} /\ NextScenario /\ UNCHANGED <<rows, combined>>
          /\ \A s \in Scenario : s # at => json'[s] = json[s] /\ (s \in cut' <=> s \in cut)
      BY <1>0, <1>3 DEF Collect, Salvage, Abort, TypeOK
    <2>2. /\ at'.run = at.run /\ at'.lang = at.lang /\ campaign' = campaign
          /\ pc' \notin {"combine", "final", "finalclean", "done"}
      BY <1>0, <2>1, AfterJob
    <2>3. \A s \in Scenario : s.run < at.run \/ (s.run = at.run /\ s.lang < at.lang)
                                 => s # at
      BY <1>0, Fields
    <2> QED
      BY <2>1, <2>2, <2>3 DEF Combining, UpToDate
  <1>4. CASE Csv
    <2>1. /\ pc = "csv" /\ NextLanguage /\ UNCHANGED <<json, cut, combined>>
          /\ \A s \in Scenario : IF s.run = at.run /\ s.lang = at.lang
                                 THEN UpToDate(s)' ELSE rows'[s] = rows[s]
      BY <1>4 DEF Csv, UpToDate
    <2>2. /\ at'.run = at.run /\ campaign' = campaign
          /\ \/ pc' = "clean" /\ at.lang = 1 /\ at'.lang = 2
             \/ pc' = "combine" /\ at' = at /\ at.lang = 2
      BY <1>0, <2>1, AfterLanguage
    <2>3. ASSUME NEW s \in Scenario,
                 \/ s.run < at.run
                 \/ s.run = at.run /\ s.lang < at'.lang
                 \/ s.run = at.run /\ pc' \in {"combine", "final", "finalclean", "done"}
          PROVE  UpToDate(s)'
      <3>1. CASE s.run = at.run /\ s.lang = at.lang
        BY <2>1, <3>1
      <3>2. CASE ~(s.run = at.run /\ s.lang = at.lang)
        <4>1. s.run < at.run \/ (s.run = at.run /\ s.lang < at.lang)
          BY <1>0, <2>2, <2>3, <3>2, Fields
        <4> QED
          BY <2>1, <3>2, <4>1 DEF Combining, UpToDate
      <3> QED
        BY <3>1, <3>2
    <2>4. \A r \in 1 .. TotalRuns : combined[r] = campaign => r < at.run
      BY <2>1 DEF Combining
    <2> QED
      BY <2>1, <2>2, <2>3, <2>4 DEF Combining
  <1>5. CASE Combine
    <2>1. /\ pc = "combine" /\ UNCHANGED <<json, cut, rows>>
          /\ \A r \in 1 .. TotalRuns : r # at.run => combined'[r] = combined[r]
      BY <1>5 DEF Combine, Step, TypeOK
    <2>2. /\ campaign' = campaign
          /\ \/ pc' = "clean" /\ at'.run = at.run + 1 /\ at'.lang = 1
             \/ pc' = "final" /\ at' = at
      BY <1>0, <1>5, AfterRun
    <2>3. at.lang = 2
      BY <2>1 DEF Position
    <2>4. \A s \in Scenario : s.run <= at.run => UpToDate(s)'
      BY <1>0, <2>1, <2>3, Fields DEF Combining, UpToDate
    <2>5. \A s \in Scenario : s.run < at'.run \/ s.run = at.run => s.run <= at.run
      BY <1>0, <2>2, Fields
    <2>6. \A s \in Scenario : ~(s.lang < 1)
      BY Fields
    <2>7. \A r \in 1 .. TotalRuns : combined'[r] = campaign => r < at.run \/ r = at.run
      BY <2>1 DEF Combining
    <2>8. \A r \in 1 .. TotalRuns : r < at.run \/ r = at.run => r < at.run + 1
      BY <1>0, Fields
    <2> QED
      BY <2>1, <2>2, <2>4, <2>5, <2>6, <2>7, <2>8 DEF Combining
  <1>6. CASE Again
    <2>1. /\ campaign' = campaign + 1 /\ pc' = "build" /\ at' = FirstOf(1)
          /\ UNCHANGED <<json, rows, combined>>
      BY <1>6 DEF Again, results
    <2>2. \A s \in Scenario : ~(s.run < at'.run) /\ ~(s.lang < at'.lang)
      BY <2>1, Fields DEF FirstOf
    <2>3. \A r \in 1 .. TotalRuns : combined[r] \in 0 .. campaign
      BY DEF TypeOK
    <2>4. \A r \in 1 .. TotalRuns : combined'[r] # campaign'
      BY <1>0, <2>1, <2>3
    <2> QED
      BY <2>1, <2>2, <2>4 DEF Combining
  <1>7. CASE Controllers \/ \E s \in Scenario : JobExpires(s)
    BY <1>7 DEF Controllers, JobExpires, script, results, Combining, UpToDate
  <1> QED
    BY <1>1, <1>2, <1>3, <1>4, <1>5, <1>6, <1>7
       DEF Next, Script, CommandFails, CollectFails, Abort

\* A cut log ends the campaign, and the next one collects it anew.
LEMMA WholeStep ==
  ASSUME TypeOK, Whole, Next
  PROVE  Whole'
  <1>0. at \in Scenario /\ campaign \in Nat
    BY DEF TypeOK
  <1>1. CASE pc' = "aborted"
    BY <1>1 DEF Whole
  <1>2. CASE pc # "aborted" /\ UNCHANGED <<campaign, json, cut>>
    BY <1>2 DEF Whole
  <1>3. CASE Collect
    <2>1. campaign' = campaign /\ pc # "aborted"
      BY <1>0, <1>3, AfterJob DEF Collect
    <2> QED
      BY <1>0, <1>3, <2>1 DEF Collect, Whole, TypeOK
  <1>4. CASE Again
    <2>1. campaign' = campaign + 1 /\ json' = json
      BY <1>4 DEF Again, results
    <2>2. \A s \in Scenario : json[s] \in 0 .. campaign
      BY DEF TypeOK
    <2> QED
      BY <1>0, <2>1, <2>2 DEF Whole
  <1>5. CASE Controllers \/ \E s \in Scenario : JobExpires(s)
    BY <1>5 DEF Controllers, JobExpires, script, results, Whole
  <1>6. CASE Salvage /\ pc' # "aborted"
    <2>1. pc \in {"collect", "salvage"} /\ NextScenario /\ UNCHANGED <<json, cut>>
      BY <1>6 DEF Salvage, Abort
    <2> QED
      BY <1>0, <1>2, <2>1, AfterJob
  <1>7. CASE \/ Build \/ Clean \/ Apply \/ SetImage \/ Scale \/ Await \/ Launch
             \/ WaitComplete \/ WaitTimeout \/ CleanLang \/ Csv \/ Combine \/ Final
             \/ FinalClean
    BY <1>1, <1>2, <1>7 DEF Build, Clean, Apply, SetImage, Scale, Await, Launch,
       WaitComplete, WaitTimeout, CleanLang, Csv, NextLanguage, Combine, Final, FinalClean,
       Step, Abort, results
  <1>8. CASE CommandFails \/ CollectFails
    BY <1>1, <1>8 DEF CommandFails, CollectFails, Abort
  <1> QED
    BY <1>1, <1>3, <1>4, <1>5, <1>6, <1>7, <1>8 DEF Next, Script

\* A run is combined when its last language is; then all of it is settled.
LEMMA CombinedStep ==
  ASSUME TypeOK, Position, Progress, Combining, Whole, CombinedIsComplete, Next
  PROVE  CombinedIsComplete'
  <1>0. at \in Scenario /\ campaign \in Nat
    BY DEF TypeOK
  <1>1. ASSUME campaign' = campaign, UNCHANGED results
        PROVE  CombinedIsComplete'
    BY <1>1 DEF CombinedIsComplete, Settled, UpToDate, results
  <1>2. CASE \/ Build \/ Clean \/ Apply \/ SetImage \/ Scale \/ Await
             \/ Launch \/ WaitComplete \/ WaitTimeout \/ CleanLang \/ Final \/ FinalClean
             \/ CommandFails \/ Controllers \/ \E s \in Scenario : JobExpires(s)
    <2>1. UNCHANGED <<campaign, results>>
      BY <1>2 DEF Build, Clean, Apply, SetImage, Scale, Await, Launch, WaitComplete,
         WaitTimeout, CleanLang, Final, FinalClean, CommandFails, Controllers, JobExpires,
         Step, Abort, script
    <2> QED
      BY <1>1, <2>1
  <1>3. CASE Collect \/ Salvage \/ CollectFails
    <2>1. CASE Abort("job")
      BY <1>1, <2>1 DEF Abort
    <2>2. CASE /\ NextScenario \/ campaign' = campaign
               /\ pc \in {"collect", "salvage"}
               /\ UNCHANGED <<rows, combined>>
               /\ \A s \in Scenario : s # at => /\ json'[s] = json[s]
                                                /\ s \in cut' <=> s \in cut
                                                /\ failed'[s] = failed[s]
      <3>1. campaign' = campaign
        BY <1>0, <2>2, AfterJob
      <3>2. \A s \in Scenario : combined[s.run] = campaign => s # at
        BY <1>0, <2>2, Fields DEF Combining
      <3> QED
        BY <2>2, <3>1, <3>2 DEF CombinedIsComplete, Settled, UpToDate
    <2> QED
      BY <1>0, <1>3, <2>1, <2>2 DEF Collect, Salvage, CollectFails, TypeOK
  <1>4. CASE Csv
    <2>1. /\ pc = "csv" /\ campaign' = campaign /\ UNCHANGED <<json, cut, failed, combined>>
          /\ \A s \in Scenario : UpToDate(s)' \/ rows'[s] = rows[s]
      BY <1>0, <1>4, AfterLanguage DEF Csv, UpToDate
    <2> QED
      BY <2>1 DEF CombinedIsComplete, Settled, UpToDate
  <1>5. CASE Combine
    <2>1. /\ pc = "combine" /\ campaign' = campaign /\ UNCHANGED <<json, cut, failed, rows>>
          /\ \A r \in 1 .. TotalRuns : r # at.run => combined'[r] = combined[r]
      BY <1>0, <1>5, AfterRun DEF Combine, Step, TypeOK
    <2>2. ASSUME NEW s \in Scenario, s.run = at.run
          PROVE  Settled(s) /\ UpToDate(s) /\ (json[s] = campaign => s \notin cut)
      <3>1. at.lang = 2 /\ at.srv = Len(Replicas) /\ at.load = Len(Loads)
        BY <2>1 DEF Position, Past
      <3>2. Reached(s)
        BY <1>0, <2>1, <2>2, <3>1, Fields, LastOfRun DEF Reached, Past
      <3> QED
        BY <2>1, <2>2, <3>2 DEF Progress, Combining, Whole
    <2> QED
      BY <2>1, <2>2, Fields DEF CombinedIsComplete, Settled, UpToDate
  <1>6. CASE Again
    <2>1. campaign' = campaign + 1 /\ combined' = combined
      BY <1>6 DEF Again, results
    <2>2. \A r \in 1 .. TotalRuns : combined[r] \in 0 .. campaign
      BY DEF TypeOK
    <2>3. \A r \in 1 .. TotalRuns : combined'[r] # campaign'
      BY <1>0, <2>1, <2>2
    <2> QED
      BY <2>3, Fields DEF CombinedIsComplete
  <1> QED
    BY <1>2, <1>3, <1>4, <1>5, <1>6 DEF Next, Script

-----------------------------------------------------------------------------
(* The invariant *)

\* The invariant holds at the first start.
LEMMA InitIInv == Init => IInv
  <1> SUFFICES ASSUME Init
               PROVE  IInv
    OBVIOUS
  <1> USE DEF Init, K!Init, K!InitWith
  <1>1. at = FirstOf(1) /\ at \in Scenario /\ campaign = 1
    BY FirstIsFirst
  <1>2. TypeOK
    <2>1. K!TypeOK
      BY DEF K!TypeOK
    <2>2. campaign \in 1 .. MaxCampaigns
      BY <1>1, ParametersAssumption
    <2>3. /\ json \in [Scenario -> 0 .. campaign] /\ failed \in [Scenario -> 0 .. campaign]
          /\ rows \in [Scenario -> 0 .. campaign]
          /\ combined \in [1 .. TotalRuns -> 0 .. campaign]
      BY <1>1
    <2> QED
      BY <1>1, <2>1, <2>2, <2>3 DEF TypeOK, PC
  <1>3. Position
    BY DEF Position, Past, FirstOf
  <1>4. Progress
    BY <1>1, FirstIsFirst DEF Progress, Settled, Reached, Past
  <1>5. Target /\ Quiet /\ Collecting
    BY DEF Target, Quiet, Collecting
  <1>6. NoForeignLoad
    BY DEF NoForeignLoad, K!Active
  <1>7. Combining
    BY <1>1 DEF Combining, UpToDate
  <1>8. CombinedIsComplete /\ Whole
    BY <1>1, Fields DEF CombinedIsComplete, Whole
  <1> QED
    BY <1>2, <1>3, <1>4, <1>5, <1>6, <1>7, <1>8 DEF IInv

\* Every step keeps the invariant.
LEMMA NextIInv == IInv /\ [Next]_vars => IInv'
  <1>1. IInv /\ Next => IInv'
    BY TypeStep, PositionStep, ProgressStep, TargetStep, LoadStep, CollectingStep,
       CombiningStep, WholeStep, CombinedStep DEF IInv
  <1>2. IInv /\ UNCHANGED vars => IInv'
    BY DEF IInv, vars, script, cluster, results, TypeOK, K!TypeOK, Position, Progress,
       Settled, Reached, Earlier, Abstract!Before, Target, Lang, NoForeignLoad, Quiet,
       Collecting, Combining, Whole, CombinedIsComplete, UpToDate, FirstOf, K!NoDeployment, K!Active
  <1> QED
    BY <1>1, <1>2

\* What the script reaches: the invariant holds in every state.
THEOREM CampaignInvariance == Spec => []IInv
  <1> QED
    BY InitIInv, NextIInv, PTL DEF Spec

\* The variables of the script, the cluster and the result files keep their types;
\* no file is from a later campaign.
THEOREM CampaignTypeCorrect == Spec => []TypeOK
  <1>1. IInv => TypeOK
    BY DEF IInv
  <1> QED
    BY <1>1, CampaignInvariance, PTL

\* While the script waits for a Job, the Service exists and the Deployment asks
\* for the servers of the scenario, whatever was left by an aborted campaign
\* (l. 119-127, 204, 297).
THEOREM TargetIsRight == Spec => []RightTarget
  <1>1. IInv => RightTarget
    <2> SUFFICES ASSUME IInv, pc = "wait"
                 PROVE  svc /\ dep = [image |-> Lang, replicas |-> Replicas[at.srv]]
      BY DEF RightTarget
    <2>1. /\ svc /\ dep # K!NoDeployment
          /\ dep.image = Lang /\ dep.replicas = Replicas[at.srv]
      BY DEF IInv, Target
    <2>2. dep \in [image : Image, replicas : Nat]
      BY <2>1 DEF IInv, TypeOK, K!TypeOK
    <2> QED
      BY <2>1, <2>2
  <1> QED
    BY <1>1, CampaignInvariance, PTL

\* No Job of another language, run or campaign is active when servers are deployed
\* (l. 204, 297).
THEOREM NoForeignLoadEver == Spec => []NoForeignLoad
  <1>1. IInv => NoForeignLoad
    BY DEF IInv
  <1> QED
    BY <1>1, CampaignInvariance, PTL

\* A campaign combines a run only when each scenario of it is measured or recorded
\* as failed and its rows are up to date (l. 199-245).
THEOREM CombinedComplete == Spec => []CombinedIsComplete
  <1>1. IInv => CombinedIsComplete
    BY DEF IInv
  <1> QED
    BY <1>1, CampaignInvariance, PTL

-----------------------------------------------------------------------------
(* Steps *)

\* Only the Job of the scenario, and only when it completed, makes a .json file.
LEMMA JsonStep ==
  ASSUME IInv, Next, NEW s \in Scenario, json'[s] # json[s]
  PROVE  jobs[s] = "complete"
  <1>1. Collect \/ CollectFails
    BY DEF Next, Script, Build, Clean, Apply, SetImage, Scale, Await, Launch, WaitComplete,
       WaitTimeout, Salvage, CleanLang, Csv, Combine, Final, FinalClean, CommandFails,
       Again, Controllers, JobExpires, Abort, results
  <1>2. s = at
    BY <1>1 DEF Collect, CollectFails, IInv, TypeOK
  <1> QED
    BY <1>1, <1>2 DEF Collect, CollectFails, IInv, Collecting

\* A late failure or expiry of a Job never passes for a result (l. 188-197).
THEOREM OnlyCompleteJobsGiveResults == Spec => JsonFromCompleteJobs
  <1>1. IInv /\ [Next]_vars
          => [\A s \in Scenario : json'[s] # json[s] => jobs[s] = "complete"]_vars
    BY JsonStep
  <1> QED
    BY <1>1, CampaignInvariance, PTL DEF Spec, JsonFromCompleteJobs

-----------------------------------------------------------------------------
(* The script implements the campaign *)

\* The scenarios the campaign has a result of, and what it says of itself.
Done == {s \in Scenario : Settled(s)}
Status == IF pc \in Ended THEN pc ELSE "running"

\* The script starts as a campaign does.
LEMMA InitRefines == Init => Abstract!Init
  <1> SUFFICES ASSUME Init
               PROVE  Abstract!Init
    OBVIOUS
  <1>1. {s \in Scenario : Settled(s)} = {}
    BY DEF Init, Settled
  <1>2. pc \notin Ended
    BY DEF Init, Ended
  <1> QED
    BY <1>1, <1>2 DEF Abstract!Init

\* A result of the scenario, measured or failed, settles it.
LEMMA SettleRefines ==
  ASSUME IInv, Collect \/ Salvage, pc' # "aborted", NEW t \in Scenario, t = at
  PROVE  Abstract!Settle(t)
  <1>0. /\ at \in Scenario /\ pc \in {"collect", "salvage"} /\ NextScenario
        /\ json \in [Scenario -> 0 .. campaign] /\ failed \in [Scenario -> 0 .. campaign]
    BY DEF IInv, TypeOK, Collect, Salvage, Abort
  <1>1. campaign' = campaign /\ pc' \in {"launch", "image", "cleanlang"}
    BY <1>0, AfterJob
  <1>2. /\ failed'[at] = campaign \/ (json'[at] = campaign /\ at \notin cut')
        /\ \A s \in Scenario : s # at => /\ json'[s] = json[s] /\ failed'[s] = failed[s]
                                         /\ s \in cut' <=> s \in cut
    BY <1>0, <1>1 DEF Collect, Salvage, Abort
  <1>3. \A s \in Scenario : Settled(s) <=> Earlier(s, at)
    BY <1>0 DEF IInv, Progress, Reached, Past
  <1>4. Done' = Done \cup {t}
    <2>1. \A s \in Scenario : Settled(s)' <=> Settled(s) \/ s = at
      BY <1>1, <1>2 DEF Settled
    <2> QED
      BY <1>0, <2>1 DEF Done
  <1>5. t \notin Done
    BY <1>0, <1>3, FirstIsFirst DEF Done
  <1>6. {r \in Scenario : Earlier(r, t)} \subseteq Done
    BY <1>3 DEF Done
  <1>7. Status = "running" /\ Status' = "running"
    BY <1>0, <1>1 DEF Status, Ended
  <1> QED
    BY <1>4, <1>5, <1>6, <1>7 DEF Abstract!Settle, Abstract!Scenario, Scenario, Done,
       Settled, Status, Earlier

\* Starting the script again forgets the results of the campaign before.
LEMMA AgainRefines ==
  ASSUME IInv, Again
  PROVE  Abstract!Again
  <1>1. campaign \in Nat /\ \A s \in Scenario : json[s] \in 0 .. campaign
                                             /\ failed[s] \in 0 .. campaign
    BY DEF IInv, TypeOK
  <1>2. campaign' = campaign + 1 /\ UNCHANGED <<json, cut, failed>>
    BY DEF Again, results
  <1>3. Done' = {}
    <2>1. \A s \in Scenario : ~Settled(s)'
      BY <1>1, <1>2 DEF Settled
    <2> QED
      BY <2>1 DEF Done
  <1>4. Status # "running" /\ Status' = "running"
    BY DEF Again, Status, Ended
  <1> QED
    BY <1>3, <1>4 DEF Abstract!Again, Done, Settled, Status

\* A log that is cut settles nothing.
LEMMA CutSettlesNothing ==
  ASSUME IInv, CollectFails
  PROVE  Done' = Done
  <1>0. /\ at \in Scenario /\ pc = "collect" /\ campaign' = campaign
        /\ json \in [Scenario -> 0 .. campaign]
        /\ json' = [json EXCEPT ![at] = campaign] /\ cut' = cut \cup {at}
        /\ failed' = failed
    BY DEF IInv, TypeOK, CollectFails
  <1>1. ~Settled(at)
    BY <1>0, FirstIsFirst DEF IInv, Progress, Reached, Past
  <1>2. \A s \in Scenario : Settled(s)' <=> Settled(s)
    BY <1>0, <1>1 DEF Settled
  <1> QED
    BY <1>2 DEF Done

\* A script that is aborted ends the campaign with what it has.
LEMMA AbortRefines ==
  ASSUME pc \notin Ended, pc' = "aborted", Done' = Done
  PROVE  Abstract!End
  <1>1. Done' = Done
    OBVIOUS
  <1>2. Status = "running" /\ Status' = "aborted"
    BY DEF Status, Ended
  <1> QED
    BY <1>1, <1>2 DEF Abstract!End, Done, Settled, Status

\* The campaign is done when all scenarios are settled.
LEMMA DoneRefines ==
  ASSUME IInv, FinalClean
  PROVE  Abstract!End
  <1>1. /\ at \in Scenario /\ pc = "finalclean" /\ pc' = "done"
        /\ UNCHANGED <<campaign, results>>
    BY DEF IInv, TypeOK, FinalClean, Step
  <1>2. /\ at.run = TotalRuns /\ at.lang = 2
        /\ at.srv = Len(Replicas) /\ at.load = Len(Loads)
    BY <1>1 DEF IInv, Position, Past
  <1>3. \A s \in Scenario : Reached(s)
    BY <1>1, <1>2, LastOfRun, Fields, Lengths DEF Reached, Past
  <1>4. Done = Scenario /\ Done' = Done
    BY <1>1, <1>3 DEF IInv, Progress, Done, Settled, results
  <1>5. Status = "running" /\ Status' = "done"
    BY <1>1 DEF Status, Ended
  <1> QED
    BY <1>4, <1>5 DEF Abstract!End, Abstract!Scenario, Scenario, Done, Settled, Status

\* Every other step is none of the campaign.
LEMMA OtherRefines ==
  ASSUME pc \notin Ended, pc' \notin Ended, UNCHANGED <<campaign, json, cut, failed>>
  PROVE  UNCHANGED Abstract!vars
  <1>1. Done' = Done
    BY DEF Done, Settled
  <1>2. Status' = Status
    BY DEF Status
  <1> QED
    BY <1>1, <1>2 DEF Abstract!vars, Done, Settled, Status

\* Every step of the script is one of the campaign, or none.
LEMMA NextRefines ==
  ASSUME IInv, [Next]_vars
  PROVE  [Abstract!Next]_(Abstract!vars)
  <1>0. at \in Scenario
    BY DEF IInv, TypeOK
  <1>1. CASE (Collect \/ Salvage) /\ pc' # "aborted"
    <2>1. \E t \in Abstract!Scenario : Abstract!Settle(t)
      BY <1>0, <1>1, SettleRefines DEF Scenario, Abstract!Scenario
    <2> QED
      BY <2>1 DEF Abstract!Next
  <1>2. CASE Again
    BY <1>2, AgainRefines DEF Abstract!Next
  <1>3. CASE CommandFails \/ (Await /\ pc' = "aborted") \/ (Salvage /\ pc' = "aborted")
    <2>1. pc \notin Ended /\ pc' = "aborted" /\ UNCHANGED <<campaign, results>>
      BY <1>0, <1>3, AfterJob DEF CommandFails, Await, Salvage, Abort, Ended, Step
    <2>2. Done' = Done
      BY <2>1 DEF Done, Settled, results
    <2> QED
      BY <2>1, <2>2, AbortRefines DEF Abstract!Next
  <1>4. CASE FinalClean
    BY <1>4, DoneRefines DEF Abstract!Next
  <1>5. CASE \/ Build \/ Clean \/ Apply \/ SetImage \/ Scale \/ (Await /\ pc' # "aborted")
             \/ Launch \/ WaitComplete \/ WaitTimeout \/ CleanLang \/ Csv \/ Combine \/ Final
    <2>1. pc \notin Ended /\ pc' \notin Ended /\ UNCHANGED <<campaign, json, cut, failed>>
      BY <1>5 DEF Build, Clean, Apply, SetImage, Scale, Await, Launch, WaitComplete,
         WaitTimeout, CleanLang, Csv, NextLanguage, Combine, Final, Step, Abort, Ended,
         results
    <2> QED
      BY <2>1, OtherRefines
  <1>6. CASE Controllers \/ (\E s \in Scenario : JobExpires(s)) \/ UNCHANGED vars
    <2>1. UNCHANGED <<pc, campaign, json, cut, failed>>
      BY <1>6 DEF Controllers, JobExpires, vars, script, results
    <2>2. Done' = Done /\ Status' = Status
      BY <2>1 DEF Done, Settled, Status
    <2> QED
      BY <2>2 DEF Abstract!vars, Done, Settled, Status
  <1>7. Collect => pc' # "aborted"
    BY <1>0, AfterJob DEF Collect
  <1>8. CASE CollectFails
    <2>1. pc \notin Ended /\ pc' = "aborted"
      BY <1>8 DEF CollectFails, Ended
    <2> QED
      BY <1>8, <2>1, CutSettlesNothing, AbortRefines DEF Abstract!Next
  <1> QED
    BY <1>1, <1>2, <1>3, <1>4, <1>5, <1>6, <1>7, <1>8 DEF Next, Script

\* Each campaign settles every scenario once, in the order of the loops, unless it
\* is aborted, and is done only when all are settled (l. 286-340).
THEOREM CampaignRefinement == Spec => ImplementsCampaign
  <1>1. IInv /\ [Next]_vars => [Abstract!Next]_(Abstract!vars)
    BY NextRefines
  <1> QED
    BY <1>1, InitRefines, CampaignInvariance, PTL DEF Spec, ImplementsCampaign, Abstract!Spec

=============================================================================
