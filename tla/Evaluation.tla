----------------------------- MODULE Evaluation -----------------------------
(***************************************************************************)
(* The accuracy harness, eval/run.py: collect captures one contract of     *)
(* every incident of the catalogue, diagnose posts them to the brain until *)
(* each has a verdict, score joins the ledger with the catalogue. A phase  *)
(* may be killed at any step and run again; a request that was posted when *)
(* diagnose ended is still answered by the brain. One phase runs at a time.*)
(***************************************************************************)
EXTENDS Naturals, Sequences, FiniteSets

CONSTANTS
    Catalogue,    \* incidents, each one pod
    Diagnosable,  \* those whose cause is in their evidence
    Absent,
    BatchSize,    \* --batch
    MaxFailures,  \* bound on the failures of one pod
    MaxRuns,      \* bound on the phases that are run
    MaxSteps      \* bound on phases, requests and failures together

(* What a row says, discards by their reason, which is the provider's own  *)
(* text: limited, at its token limit with a wait that can be read; vague,  *)
(* at that limit with none that can; busy, with a wait but not at that     *)
(* limit; and anything else                                                *)
Discards == {"limited", "vague", "busy", "DISCARDED"}
Answers  == {"DIAGNOSED", "INSUFFICIENT_CONTEXT"} \cup Discards

ASSUME EvaluationAssumption ==
    /\ IsFiniteSet(Catalogue) /\ Diagnosable \subseteq Catalogue
    /\ Absent \notin Answers
    /\ BatchSize \in Nat \ {0}
    /\ {MaxFailures, MaxRuns, MaxSteps} \subseteq Nat

VARIABLES
    cluster,    \* pod -> its state
    contracts,  \* contracts.jsonl
    harness,    \* the phase that runs
    requests,   \* /diagnose requests the brain has not recorded, by the run
                \* that sent them
    verdicts,   \* the ledger: contract -> what its row says, or Absent
    abandoned,  \* history: contracts whose request outlived its diagnose
    report,     \* what score has written, or Absent
    runs, steps \* counters for the bounds

evalVars == <<cluster, contracts, harness, requests, verdicts, abandoned, report,
              runs, steps>>

(* A contract is known by its incident id, which the pod and the number of *)
(* its restarts determine                                                  *)
Contract == [pod: Catalogue, failures: 1 .. MaxFailures]

Request == [contract: Contract, run: 1 .. MaxRuns]

(* failures goes on counting over pods of the same name: each has its own  *)
(* identity, and so its own incidents                                      *)
PodState ==
    [there: BOOLEAN, deleted: BOOLEAN, failing: BOOLEAN, failures: 0 .. MaxFailures]

NoPod == [there |-> FALSE, deleted |-> FALSE, failing |-> FALSE, failures |-> 0]

Harness ==
    [stage: {"idle", "choose", "wait", "write", "delete", "look", "post", "answer",
             "diagnosed"},
     todo: SUBSET Catalogue, group: SUBSET Catalogue, captured: SUBSET Contract,
     next: Nat, said: Answers \cup {Absent}]

Idle == [stage |-> "idle", todo |-> {}, group |-> {}, captured |-> {}, next |-> 0,
         said |-> Absent]

EvaluationTypeOK ==
    /\ cluster \in [Catalogue -> PodState]
    /\ contracts \in Seq(Contract)
    /\ harness \in Harness
    /\ requests \subseteq Request /\ abandoned \subseteq Contract
    /\ verdicts \in [Contract -> Answers \cup {Absent}]
    /\ runs \in 0 .. MaxRuns /\ steps \in 0 .. MaxSteps

EvaluationInit ==
    /\ cluster = [p \in Catalogue |-> NoPod]
    /\ contracts = <<>> /\ harness = Idle
    /\ requests = {} /\ abandoned = {}
    /\ verdicts = [c \in Contract |-> Absent]
    /\ report = Absent /\ runs = 0 /\ steps = 0

Step == steps < MaxSteps /\ steps' = steps + 1

(* A phase starts *)
Phase == runs < MaxRuns /\ runs' = runs + 1 /\ Step

-----------------------------------------------------------------------------
(* collect *)

(* Fault: everything is collected again *)
TodoAll == Catalogue

Todo == Catalogue \ {contracts[n].pod : n \in DOMAIN contracts}

StartCollect ==
    /\ harness.stage = "idle"
    /\ Phase
    /\ harness' = [Idle EXCEPT !.stage = "choose", !.todo = Todo]
    /\ UNCHANGED <<cluster, contracts, requests, verdicts, abandoned, report>>

(* The next batch is applied; a pod that is there, even if it is being     *)
(* deleted, stays as it is. Without one, collect is done                   *)
Apply ==
    /\ harness.stage = "choose"
    /\ IF harness.todo = {}
       THEN harness' = Idle /\ UNCHANGED cluster
       ELSE \E group \in SUBSET harness.todo :
              /\ Cardinality(group) = IF Cardinality(harness.todo) < BatchSize
                                      THEN Cardinality(harness.todo) ELSE BatchSize
              /\ harness' = [harness EXCEPT !.stage = "wait", !.group = group,
                                            !.todo = @ \ group]
              /\ cluster' = [p \in Catalogue |->
                     IF p \in group /\ ~cluster[p].there
                     THEN [cluster[p] EXCEPT !.there = TRUE]
                     ELSE cluster[p]]
    /\ UNCHANGED <<contracts, requests, verdicts, abandoned, report, runs, steps>>

(* Pods fail; a failure that is not the first is a new incident *)
Fail(p) ==
    /\ cluster[p].there /\ cluster[p].failures < MaxFailures /\ Step
    /\ cluster' = [cluster EXCEPT ![p].failures = @ + 1, ![p].failing = TRUE]
    /\ UNCHANGED <<contracts, harness, requests, verdicts, abandoned, report, runs>>

(* A deleted pod is gone some time after *)
Vanish(p) ==
    /\ cluster[p].deleted
    /\ cluster' = [cluster EXCEPT ![p] = [NoPod EXCEPT !.failures = cluster[p].failures]]
    /\ UNCHANGED <<contracts, harness, requests, verdicts, abandoned, report, runs,
                   steps>>

(* The scan of the agent: every pod that is failing, of whatever batch *)
Scanned == {[pod |-> p, failures |-> cluster[p].failures] :
                p \in {q \in Catalogue : cluster[q].failing}}

(* Fault: what the scan finds is kept, of whatever batch *)
CapturedOfAll(group) == Scanned

Captured(group) == {c \in Scanned : c.pod \in group}

(* After the pods have failed, or the wait is over without *)
Scan ==
    /\ harness.stage = "wait"
    /\ harness' = [harness EXCEPT !.stage = "write",
                                  !.captured = Captured(harness.group)]
    /\ UNCHANGED <<cluster, contracts, requests, verdicts, abandoned, report, runs,
                   steps>>

Write ==
    /\ harness.stage = "write"
    /\ IF harness.captured = {}
       THEN harness' = [harness EXCEPT !.stage = "delete"] /\ UNCHANGED contracts
       ELSE \E c \in harness.captured :
              /\ contracts' = Append(contracts, c)
              /\ harness' = [harness EXCEPT !.captured = @ \ {c}]
    /\ UNCHANGED <<cluster, requests, verdicts, abandoned, report, runs, steps>>

Delete ==
    /\ harness.stage = "delete"
    /\ harness' = [harness EXCEPT !.stage = "choose", !.group = {}]
    /\ cluster' = [p \in Catalogue |->
           IF p \in harness.group /\ cluster[p].there
           THEN [cluster[p] EXCEPT !.deleted = TRUE] ELSE cluster[p]]
    /\ UNCHANGED <<contracts, requests, verdicts, abandoned, report, runs, steps>>

-----------------------------------------------------------------------------
(* diagnose *)

StartDiagnose ==
    /\ harness.stage = "idle"
    /\ Phase
    /\ harness' = [Idle EXCEPT !.stage = "look", !.next = 1]
    /\ UNCHANGED <<cluster, contracts, requests, verdicts, abandoned, report>>

Subject == contracts[harness.next]

Asked == [contract |-> Subject, run |-> runs]

(* Fault: a contract is posted without a look at its row *)
SettledNever(c) == FALSE

(* Fault: any discarded row is kept *)
SettledByAny(c) == verdicts[c] # Absent

(* A row with a verdict, or discarded for another reason than the limit *)
Settled(c) == verdicts[c] # Absent /\ verdicts[c] \notin {"limited", "vague"}

(* ledger_row, before every request *)
Look ==
    /\ harness.stage = "look"
    /\ harness' =
           IF harness.next > Len(contracts) THEN [harness EXCEPT !.stage = "diagnosed"]
           ELSE IF Settled(Subject) THEN [harness EXCEPT !.next = @ + 1]
           ELSE [harness EXCEPT !.stage = "post"]
    /\ UNCHANGED <<cluster, contracts, requests, verdicts, abandoned, report, runs,
                   steps>>

Post ==
    /\ harness.stage = "post"
    /\ Step
    /\ requests' = requests \cup {Asked}
    /\ harness' = [harness EXCEPT !.stage = "answer"]
    /\ UNCHANGED <<cluster, contracts, verdicts, abandoned, report, runs>>

(* The brain records its verdict over whatever the row said, and answers   *)
(* whoever still waits for it                                              *)
Record(q, answer) ==
    /\ requests' = requests \ {q}
    /\ verdicts' = [verdicts EXCEPT ![q.contract] = answer]
    /\ harness' = IF harness.stage = "answer" /\ q = Asked
                  THEN [harness EXCEPT !.said = answer] ELSE harness
    /\ UNCHANGED <<cluster, contracts, abandoned, report, runs, steps>>

(* wait_from: a discard whose reason names a wait that can be read *)
Waits(answer) == answer \in {"limited", "busy"}

(* The answer to the request: diagnose waits as it is told and looks at    *)
(* the row again, or goes on to the next contract, also at the limit if it *)
(* cannot read how long to wait                                            *)
Answer ==
    /\ harness.stage = "answer" /\ harness.said # Absent
    /\ harness' = [harness EXCEPT !.stage = "look", !.said = Absent,
                        !.next = IF Waits(harness.said) THEN @ ELSE @ + 1]
    /\ UNCHANGED <<cluster, contracts, requests, verdicts, abandoned, report, runs,
                   steps>>

Finish ==
    /\ harness.stage = "diagnosed"
    /\ harness' = Idle
    /\ UNCHANGED <<cluster, contracts, requests, verdicts, abandoned, report, runs,
                   steps>>

(* Any phase is killed, or ends with an error: the agent's, a refusal of   *)
(* the brain, or the 600 s of a request that is running still              *)
Abort ==
    /\ harness.stage # "idle"
    /\ harness' = Idle
    /\ requests' \in SUBSET requests
    /\ abandoned' = abandoned \cup {q.contract : q \in requests'}
    /\ UNCHANGED <<cluster, contracts, verdicts, report, runs, steps>>

-----------------------------------------------------------------------------
(* score *)

Rows == {c \in Contract : verdicts[c] # Absent}

Live == {c \in Rows : verdicts[c] \notin Discards}

(* An abstention is right if the cause is not in the evidence, and then    *)
(* only an abstention is; right: the contracts whose root cause is what    *)
(* the rubric and the class ask for                                        *)
judge(c, right) ==
    IF verdicts[c] = "DIAGNOSED" THEN c.pod \in Diagnosable /\ c \in right
    ELSE verdicts[c] = "INSUFFICIENT_CONTEXT" /\ c.pod \notin Diagnosable

score ==
    /\ harness.stage = "idle"
    /\ Phase
    /\ \E right \in SUBSET Live :
          report' = [n |-> Cardinality(Rows), live |-> Cardinality(Live),
                     correct |-> Cardinality({c \in Live : judge(c, right)})]
    /\ UNCHANGED <<cluster, contracts, harness, requests, verdicts, abandoned>>

Collect  == StartCollect \/ Apply \/ Scan \/ Write \/ Delete
Diagnose == StartDiagnose \/ Look \/ Post \/ Answer \/ Finish

EvaluationNext ==
    \/ Collect \/ Diagnose \/ score \/ Abort
    \/ \E p \in Catalogue : Fail(p) \/ Vanish(p)
    \/ \E q \in requests, answer \in Answers : Record(q, answer)

EvaluationSpec == EvaluationInit /\ [][EvaluationNext]_evalVars

-----------------------------------------------------------------------------
(* However often collect was killed and run again, and whatever pods of    *)
(* earlier batches the scan still sees, a report counts an incident of the *)
(* catalogue at most once: a pod that failed again, under a new incident   *)
(* id, does not add a row (collect, score).                                *)
CountedOnce == report # Absent => report.n <= Cardinality({c.pod : c \in Rows})

(* Running diagnose again never pays for, or loses, a verdict it has: only *)
(* a request that an earlier diagnose left behind can still replace one    *)
(* (diagnose, ledger_row).                                                 *)
VerdictIsKept ==
    [][\A c \in Contract \ abandoned :
          verdicts[c] # Absent /\ verdicts[c] \notin Discards =>
              verdicts'[c] = verdicts[c]]_evalVars

(* A diagnose that comes to its end has a row for every contract, and none *)
(* that was discarded at the provider's limit if it could read how long to *)
(* wait; only a request that an earlier diagnose left behind can still put *)
(* such a row in the place of another (diagnose, wait_from).               *)
FinishedIsComplete ==
    harness.stage = "diagnosed" =>
        \A n \in DOMAIN contracts :
            /\ verdicts[contracts[n]] # Absent
            /\ contracts[n] \in abandoned \/ verdicts[contracts[n]] # "limited"
=============================================================================
