------------------------------- MODULE Cluster ------------------------------
(***************************************************************************)
(* What the campaign drivers see of Kubernetes: one Deployment with its    *)
(* pods, one Service in front of the ready ones, and the client Jobs.      *)
(***************************************************************************)
EXTENDS Naturals, Sequences, Functions

CONSTANTS Image, \* server images
          Job    \* the client Jobs

VARIABLES
    dep,      \* the Deployment: image and number of replicas asked for
    svc,      \* does the Service exist?
    starting, \* starting[i]: pods of image i that are not ready
    ready,    \* ready[i]: pods of image i the Service sends connections to
    jobs      \* jobs[j]: absent, pending, running, complete, failed

vars == <<dep, svc, starting, ready, jobs>>

NoDeployment == [image |-> "none", replicas |-> 0]
Active == {"pending", "running"}

TypeOK ==
    /\ dep \in [image : Image, replicas : Nat] \cup {NoDeployment}
    /\ svc \in BOOLEAN
    /\ starting \in [Image -> Nat]
    /\ ready \in [Image -> Nat]
    /\ jobs \in [Job -> {"absent", "pending", "running", "complete", "failed"}]

\* No servers, and the Jobs in some states.
InitWith(states) ==
    /\ dep = NoDeployment
    /\ svc = FALSE
    /\ starting = [i \in Image |-> 0]
    /\ ready = [i \in Image |-> 0]
    /\ jobs = states

Init == InitWith([j \in Job |-> "absent"])

Total(pods) == FoldFunction(+, 0, pods)
TotalPods == Total(ready) + Total(starting)

\* The rolling update of a Deployment with the default strategy: 25% more pods
\* than asked for, rounded up, and 25% fewer available, rounded down.
Surge == (dep.replicas + 3) \div 4
Unavailable == dep.replicas \div 4

\* The condition `kubectl wait' waits for: it counts ready pods of any image.
Available == dep # NoDeployment /\ Total(ready) + Unavailable >= dep.replicas

-----------------------------------------------------------------------------
(* The Deployment and Job controllers and the kubelets *)

\* A pod of the image asked for.  That a Deployment scaled during a rollout also gets
\* pods of the old image (proportional scaling) is left out.
CreatePod ==
    /\ dep # NoDeployment
    /\ starting[dep.image] + ready[dep.image] < dep.replicas
    /\ TotalPods < dep.replicas + Surge
    /\ starting' = [starting EXCEPT ![dep.image] = @ + 1]
    /\ UNCHANGED <<dep, svc, ready, jobs>>

PodReady(i) ==
    /\ starting[i] > 0
    /\ starting' = [starting EXCEPT ![i] = @ - 1]
    /\ ready' = [ready EXCEPT ![i] = @ + 1]
    /\ UNCHANGED <<dep, svc, jobs>>

\* A pod of an old image goes when enough others are ready, a surplus pod always.
RemovePod(i) ==
    /\ dep # NoDeployment
    /\ \/ /\ i # dep.image \/ starting[i] + ready[i] > dep.replicas
          /\ starting[i] > 0
          /\ starting' = [starting EXCEPT ![i] = @ - 1]
          /\ UNCHANGED ready
       \/ /\ \/ i # dep.image /\ Total(ready) + Unavailable > dep.replicas
             \/ i = dep.image /\ starting[i] + ready[i] > dep.replicas
          /\ ready[i] > 0
          /\ ready' = [ready EXCEPT ![i] = @ - 1]
          /\ UNCHANGED starting
    /\ UNCHANGED <<dep, svc, jobs>>

\* The pod of a Job starts, and succeeds or fails; backoffLimit is 0, so there is
\* no other.  It may also never start, or never end.
JobMoves(j) ==
    /\ \/ jobs[j] = "pending" /\ jobs' = [jobs EXCEPT ![j] = "running"]
       \/ /\ jobs[j] = "running"
          /\ \E how \in {"complete", "failed"} : jobs' = [jobs EXCEPT ![j] = how]
    /\ UNCHANGED <<dep, svc, starting, ready>>

Controllers ==
    \/ CreatePod
    \/ \E i \in Image : PodReady(i) \/ RemovePod(i)
    \/ \E j \in Job : JobMoves(j)

-----------------------------------------------------------------------------
(* The objects the drivers write *)

\* The yaml of the Deployment and the Service is applied.
Apply(image, replicas) ==
    /\ dep' = [image |-> image, replicas |-> replicas]
    /\ svc' = TRUE
    /\ UNCHANGED <<starting, ready, jobs>>

\* Objects of the kinds in what, all of them client Jobs if it names jobs, are
\* deleted.  Their pods leave the Service at once.  What the pods of client Jobs still
\* send until they terminate is the business of RunTestsV3, whose servers may stay; in
\* version 4 the servers and the Service are deleted with the Jobs (l. 63-67).
Delete(what) ==
    /\ svc' = (svc /\ "service" \notin what)
    /\ jobs' = IF "jobs" \in what THEN [j \in Job |-> "absent"] ELSE jobs
    /\ IF "deployment" \in what
       THEN /\ dep' = NoDeployment
            /\ starting' = [i \in Image |-> 0]
            /\ ready' = [i \in Image |-> 0]
       ELSE UNCHANGED <<dep, starting, ready>>

\* The Jobs of a set are deleted and one, if any, is created; of the pods of the deleted
\* ones, see RunTestsV3!Terminate.
ReplaceJobs(deleted, created) ==
    /\ jobs' = [j \in Job |-> IF j \in created THEN "pending"
                              ELSE IF j \in deleted THEN "absent" ELSE jobs[j]]
    /\ UNCHANGED <<dep, svc, starting, ready>>
=============================================================================
