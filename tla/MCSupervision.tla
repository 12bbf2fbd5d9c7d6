---------------------------- MODULE MCSupervision ----------------------------
(* The background work of the process in one run: the check jobs and a manga *)
(* source.  They share nothing, so a behaviour has one of them at work.      *)
EXTENDS BackgroundJobs, SourceSupervisor

VARIABLE part

OneFileMayFail ==
  [flaky : {{}} \cup {{j} : j \in Jobs}, preempt : {FALSE}]
    \cup [flaky : {{}}, preempt : {TRUE}]
WhatHolds ==
  [source : {"wnacg"}, overlap : BOOLEAN, crashes : {TRUE}]
    \cup [source : {"ehentai"}, overlap : {FALSE}, crashes : {FALSE}]

SupervisionInit ==
  /\ part \in {"jobs", "source"}
  /\ JobsInit /\ SupervisorInit
  /\ part = "jobs" => /\ facts = [source |-> "wnacg", overlap |-> FALSE, crashes |-> TRUE]
                      /\ saved.enabled
  /\ part = "source" => scenario = [flaky |-> {}, preempt |-> FALSE]

SupervisionNext ==
  \/ part = "jobs" /\ JobsNext /\ UNCHANGED <<part, supVars>>
  \/ part = "source" /\ SupervisorNext /\ UNCHANGED <<part, jobVars>>

SupervisionSpec ==
  /\ SupervisionInit /\ [][SupervisionNext]_<<part, jobVars, supVars>>
  /\ JobsFairness /\ SupervisorFairness
=============================================================================
