------------------------------ MODULE Campaign ------------------------------
(***************************************************************************)
(* What a load-test campaign promises: every scenario is measured once, in *)
(* the order run, language, number of servers, load, unless the campaign   *)
(* is aborted; a campaign may follow another.                              *)
(***************************************************************************)
EXTENDS Naturals

CONSTANTS TotalRuns, Languages, ServerCounts, LoadCounts \* how many of each

VARIABLES settled, \* the scenarios whose result is recorded
          status   \* running, done or aborted

vars == <<settled, status>>

Scenario == [run : 1 .. TotalRuns, lang : 1 .. Languages,
             srv : 1 .. ServerCounts, load : 1 .. LoadCounts]

\* a comes before b in the nesting of the loops.
Before(a, b) ==
    \/ a.run < b.run
    \/ a.run = b.run /\ a.lang < b.lang
    \/ a.run = b.run /\ a.lang = b.lang /\ a.srv < b.srv
    \/ a.run = b.run /\ a.lang = b.lang /\ a.srv = b.srv /\ a.load < b.load

Init == settled = {} /\ status = "running"

Settle(s) == /\ status = "running"
             /\ s \notin settled
             /\ {r \in Scenario : Before(r, s)} \subseteq settled
             /\ settled' = settled \cup {s}
             /\ UNCHANGED status

End == /\ status = "running"
       /\ \/ status' = "done" /\ settled = Scenario
          \/ status' = "aborted"
       /\ UNCHANGED settled

Again == /\ status # "running"
         /\ status' = "running"
         /\ settled' = {}

Next == End \/ Again \/ \E s \in Scenario : Settle(s)

Spec == Init /\ [][Next]_vars
=============================================================================
