------------------------------ MODULE Evidence ------------------------------
(***************************************************************************)
(* The brain's deterministic reading of a contract, before any model call: *)
(* which class of evidence it carries, how much confidence that class can  *)
(* support, and whether to abstain at once. Confidences are in percent.    *)
(*                                                                         *)
(* A contract is what these functions can tell apart: the classified       *)
(* failure, whether there is a log body and a fatal line in it, whether a  *)
(* registry error or a memory marker is in the messages and events,        *)
(* whether a memory limit is set, and what kind of exit code there was.    *)
(***************************************************************************)
EXTENDS Naturals

Failures ==
    {"ImagePullBackOff", "OOMKilled", "OOMKilledDuringInit",
     "CrashLoopBackOff", "other"}

Contract ==
    [failure: Failures, logs: {"unavailable", "blank", "usable"},
     fatalLine: BOOLEAN, registryError: BOOLEAN, memoryLimit: BOOLEAN,
     oomMarker: BOOLEAN, exit: {"unknown", "generic", "informative"}]

CEILINGS ==
    [image_pull_with_registry_error |-> 95, image_pull_without_detail |-> 50,
     oom_with_limits |-> 90, oom_without_limits |-> 60,
     oom_during_init_with_marker |-> 80, oom_during_init_without_marker |-> 15,
     crashloop_with_fatal_log |-> 80, crashloop_logs_no_error |-> 40,
     crashloop_logs_unavailable |-> 15, unknown |-> 30]

EvidenceClass == DOMAIN CEILINGS

ceiling(class) == CEILINGS[class]

(* Fault: the bound lets the weakest classes pass *)
ABSTAIN_BELOW_LOW == 15

ABSTAIN_BELOW == 20

has_usable_logs(c) == c.logs = "usable"

classify_evidence(c) ==
    IF c.failure = "ImagePullBackOff"
    THEN IF c.registryError THEN "image_pull_with_registry_error"
         ELSE "image_pull_without_detail"
    ELSE IF c.failure = "OOMKilled"
    THEN IF c.memoryLimit THEN "oom_with_limits" ELSE "oom_without_limits"
    ELSE IF c.failure = "OOMKilledDuringInit"
    THEN IF ~c.memoryLimit THEN "oom_without_limits"
         ELSE IF c.oomMarker THEN "oom_during_init_with_marker"
         ELSE "oom_during_init_without_marker"
    ELSE IF c.failure = "CrashLoopBackOff"
    THEN IF ~has_usable_logs(c) THEN "crashloop_logs_unavailable"
         ELSE IF c.fatalLine THEN "crashloop_with_fatal_log"
         ELSE "crashloop_logs_no_error"
    ELSE "unknown"

(* Whether to abstain before spending a model call *)
gate(c) ==
    LET class == classify_evidence(c) IN
    \/ /\ c.failure = "CrashLoopBackOff"
       /\ ~has_usable_logs(c)
       /\ c.exit # "informative"
    \/ class = "oom_during_init_without_marker"
    \/ ceiling(class) < ABSTAIN_BELOW
=============================================================================
