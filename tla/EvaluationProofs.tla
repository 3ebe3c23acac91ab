-------------------------- MODULE EvaluationProofs --------------------------
(***************************************************************************)
(* For any catalogue, batches, failures and kills of any phase: a report   *)
(* counts an incident of the catalogue once, no verdict is bought twice or *)
(* lost, and a diagnose that ends has a row for every contract.            *)
(***************************************************************************)
EXTENDS Evaluation, FiniteSetTheorems, SequenceTheorems, TLAPS

CapturedPods == {contracts[n].pod : n \in DOMAIN contracts}

Listed(c) == \E n \in DOMAIN contracts : contracts[n] = c

(* A contract that has a row, which is not at a limit with a wait that can *)
(* be read, or may have been put there by an earlier diagnose              *)
Complete(c) == verdicts[c] # Absent /\ (c \in abandoned \/ verdicts[c] # "limited")

(* Only an answer that is waited for is held, and only a phase that has    *)
(* started asks                                                            *)
PhaseIsKnown ==
    /\ harness.stage # "idle" => runs # 0
    /\ harness.stage # "answer" => harness.said = Absent

FailingHasFailed == \A p \in Catalogue : cluster[p].failing => cluster[p].failures # 0

OncePerPod ==
    \A m, n \in DOMAIN contracts : contracts[m].pod = contracts[n].pod => m = n

(* What collect has still to do or holds is of pods that have no contract  *)
CollectIsFresh ==
    /\ harness.stage \in {"choose", "wait", "write", "delete"} =>
           /\ harness.todo \cap CapturedPods = {}
           /\ harness.todo \cap harness.group = {}
    /\ harness.stage = "wait" => harness.group \cap CapturedPods = {}
    /\ harness.stage = "write" =>
           /\ \A c \in harness.captured : c.pod \in harness.group \ CapturedPods
           /\ \A c, d \in harness.captured : c.pod = d.pod => c = d

(* Only contracts are asked about and have rows                            *)
RowsAreListed ==
    /\ \A q \in requests : Listed(q.contract)
    /\ \A c \in Rows : Listed(c)

(* A request in flight is one of an earlier diagnose, or the one that is   *)
(* waited for, about a row that was not settled                            *)
AskedIsOpen ==
    \A q \in requests :
        \/ q.contract \in abandoned
        \/ /\ harness.stage = "answer" /\ q = Asked
           /\ harness.said = Absent /\ ~Settled(Subject)

(* What diagnose has passed is complete                                    *)
PassedIsComplete ==
    /\ harness.stage \in {"look", "post", "answer"} =>
           /\ harness.next # 0
           /\ \A n \in DOMAIN contracts : n < harness.next => Complete(contracts[n])
    /\ harness.stage \in {"post", "answer"} => harness.next \in DOMAIN contracts
    /\ harness.stage = "post" => Subject \in abandoned \/ ~Settled(Subject)
    /\ harness.stage = "answer" =>
           \/ Asked \in requests /\ harness.said = Absent
           \/ /\ harness.said \in Answers /\ verdicts[Subject] # Absent
              /\ Subject \in abandoned \/ verdicts[Subject] = harness.said
    /\ harness.stage = "diagnosed" => \A n \in DOMAIN contracts : Complete(contracts[n])

ReportIsBounded ==
    report # Absent => report.n \in Nat /\ report.n <= Cardinality(Rows)

IInv ==
    /\ EvaluationTypeOK /\ FailingHasFailed /\ OncePerPod /\ CollectIsFresh
    /\ PhaseIsKnown /\ RowsAreListed /\ AskedIsOpen /\ PassedIsComplete
    /\ ReportIsBounded

-----------------------------------------------------------------------------
(* The harness is the record of its fields.                                *)
LEMMA HarnessShape ==
    ASSUME EvaluationTypeOK
    PROVE  /\ harness.todo \subseteq Catalogue /\ harness.group \subseteq Catalogue
           /\ harness.captured \subseteq Contract /\ harness.next \in Nat
           /\ harness.said \in Answers \cup {Absent}
           /\ harness = [stage |-> harness.stage, todo |-> harness.todo,
                         group |-> harness.group, captured |-> harness.captured,
                         next |-> harness.next, said |-> harness.said]
           /\ contracts \in Seq(Contract) /\ Len(contracts) \in Nat
           /\ DOMAIN contracts = 1 .. Len(contracts)
           /\ \A n \in DOMAIN contracts : contracts[n] \in Contract
BY LenProperties, ElementOfSeq DEF EvaluationTypeOK, Harness

(* Every row is of another pod of the catalogue, so the rows are as many   *)
(* as their pods, and finite.                                              *)
LEMMA RowsAndPods ==
    ASSUME IInv
    PROVE  /\ IsFiniteSet(Rows)
           /\ Cardinality({c.pod : c \in Rows}) = Cardinality(Rows)
<1> DEFINE P == {c.pod : c \in Rows}
           f == [c \in Rows |-> c.pod]
<1>1. \A c, d \in Rows : c.pod = d.pod => c = d
  BY DEF IInv, RowsAreListed, Listed, OncePerPod
<1>2. Rows \subseteq Contract /\ P \subseteq Catalogue
  BY DEF Rows, Contract
<1>3. f \in Injection(Rows, P) /\ f \in Surjection(Rows, P)
  BY <1>1 DEF Injection, Surjection, IsInjective
<1>4. IsFiniteSet(P)
  BY <1>2, FS_Subset, EvaluationAssumption
<1>5. IsFiniteSet(Rows)
  BY <1>3, <1>4, FS_Injection
<1>6. Cardinality(Rows) = Cardinality(P)
  BY <1>3, <1>4, FS_Injection
<1> QED
  BY <1>5, <1>6

-----------------------------------------------------------------------------
(* The counters stay in their bounds.                                      *)
LEMMA PhaseCounts ==
    ASSUME EvaluationTypeOK
    PROVE  /\ Phase => runs' \in 0 .. MaxRuns /\ runs' # 0 /\ steps' \in 0 .. MaxSteps
           /\ Step => steps' \in 0 .. MaxSteps
BY EvaluationAssumption DEF EvaluationTypeOK, Phase, Step

(* collect: the rows and the requests stay, the contracts only grow.       *)
LEMMA RowsStay ==
    ASSUME IInv, UNCHANGED <<requests, verdicts, abandoned, report>>,
           \A n \in DOMAIN contracts : n \in DOMAIN contracts' /\ contracts'[n] = contracts[n],
           harness.stage # "answer"
    PROVE  RowsAreListed' /\ AskedIsOpen' /\ ReportIsBounded'
<1>1. Rows' = Rows
  BY DEF Rows
<1>2. \A c : Listed(c) => Listed(c)'
  BY DEF Listed
<1>3. RowsAreListed'
  BY <1>1, <1>2 DEF IInv, RowsAreListed
<1>4. AskedIsOpen'
  BY DEF IInv, AskedIsOpen
<1> QED
  BY <1>1, <1>3, <1>4 DEF IInv, ReportIsBounded

LEMMA StartCollectKeeps ==
    ASSUME IInv, StartCollect
    PROVE  IInv'
<1>1. /\ UNCHANGED <<cluster, contracts, requests, verdicts, abandoned, report>>
      /\ harness.stage = "idle" /\ Phase
      /\ harness' = [stage |-> "choose", todo |-> Todo, group |-> {}, captured |-> {},
                     next |-> 0, said |-> Absent]
  BY DEF StartCollect, Idle
<1>2. Todo \subseteq Catalogue /\ Todo \cap CapturedPods = {}
  BY DEF Todo, CapturedPods
<1>3. EvaluationTypeOK'
  BY <1>1, <1>2, PhaseCounts DEF IInv, EvaluationTypeOK, Harness
<1>4. RowsAreListed' /\ AskedIsOpen' /\ ReportIsBounded'
  BY <1>1, RowsStay
<1>5. CollectIsFresh' /\ PassedIsComplete' /\ PhaseIsKnown'
  BY <1>1, <1>2, PhaseCounts
     DEF IInv, CollectIsFresh, CapturedPods, PassedIsComplete, PhaseIsKnown
<1> QED
  BY <1>1, <1>3, <1>4, <1>5 DEF IInv, FailingHasFailed, OncePerPod

(* A batch is applied, deleted, or the scan keeps what is of the batch.    *)
LEMMA BatchKeeps ==
    ASSUME IInv, Apply \/ Scan \/ Delete
    PROVE  IInv'
<1>1. /\ UNCHANGED <<contracts, requests, verdicts, abandoned, report, runs, steps>>
      /\ harness.stage \in {"choose", "wait", "delete"}
  BY DEF Apply, Scan, Delete
<1>2. EvaluationTypeOK /\ cluster \in [Catalogue -> PodState] /\ CollectIsFresh
      /\ FailingHasFailed /\ PhaseIsKnown
  BY DEF IInv, EvaluationTypeOK
<1>3. RowsAreListed' /\ AskedIsOpen' /\ ReportIsBounded' /\ OncePerPod'
  BY <1>1, RowsStay DEF IInv, OncePerPod
<1>4. CapturedPods' = CapturedPods
  BY <1>1 DEF CapturedPods
<1>5. harness' \in Harness /\ CollectIsFresh' /\ PassedIsComplete' /\ PhaseIsKnown'
  <2>1. CASE Apply
    <3>1. CASE harness.todo = {}
      BY <2>1, <3>1 DEF Apply, Idle, Harness, CollectIsFresh, PassedIsComplete, PhaseIsKnown
    <3>2. CASE harness.todo # {}
      <4>1. PICK group \in SUBSET harness.todo :
                harness' = [harness EXCEPT !.stage = "wait", !.group = group,
                                           !.todo = @ \ group]
        BY <2>1, <3>2 DEF Apply
      <4>2. harness' = [stage |-> "wait", todo |-> harness.todo \ group, group |-> group,
                        captured |-> harness.captured, next |-> harness.next,
                        said |-> harness.said]
        BY <1>2, <4>1, HarnessShape
      <4>3. harness.stage = "choose"
        BY <2>1 DEF Apply
      <4> QED
        BY <1>1, <1>2, <1>4, <4>2, <4>3, HarnessShape
           DEF Harness, CollectIsFresh, PassedIsComplete, PhaseIsKnown
    <3> QED
      BY <3>1, <3>2
  <2>2. CASE Scan
    <3>1. harness.stage = "wait" /\ cluster' = cluster
      BY <2>2 DEF Scan
    <3>2. harness' = [stage |-> "write", todo |-> harness.todo, group |-> harness.group,
                      captured |-> Captured(harness.group), next |-> harness.next,
                      said |-> harness.said]
      BY <1>2, <2>2, HarnessShape DEF Scan
    <3>3. \A p \in Catalogue : cluster[p].failing => cluster[p].failures \in 1 .. MaxFailures
      BY <1>2, EvaluationAssumption DEF PodState, FailingHasFailed
    <3>4. Scanned \subseteq Contract /\ \A c, d \in Scanned : c.pod = d.pod => c = d
      BY <3>3 DEF Scanned, Contract
    <3>5. /\ Captured(harness.group) \subseteq Contract
          /\ \A c \in Captured(harness.group) : c.pod \in harness.group
          /\ \A c, d \in Captured(harness.group) : c.pod = d.pod => c = d
      BY <3>4 DEF Captured
    <3> QED
      BY <1>1, <1>2, <1>4, <3>1, <3>2, <3>5, HarnessShape
         DEF Harness, CollectIsFresh, PassedIsComplete, PhaseIsKnown
  <2>3. CASE Delete
    <3>1. harness' = [stage |-> "choose", todo |-> harness.todo, group |-> {},
                      captured |-> harness.captured, next |-> harness.next,
                      said |-> harness.said]
      BY <1>2, <2>3, HarnessShape DEF Delete
    <3>2. harness.stage = "delete"
      BY <2>3 DEF Delete
    <3> QED
      BY <1>1, <1>2, <1>4, <3>1, <3>2, HarnessShape
         DEF Harness, CollectIsFresh, PassedIsComplete, PhaseIsKnown
  <2> QED
    BY <2>1, <2>2, <2>3
<1>6. cluster' \in [Catalogue -> PodState] /\ FailingHasFailed'
  <2>1. \/ cluster' = cluster
        \/ \E there \in SUBSET Catalogue :
              cluster' = [p \in Catalogue |-> IF p \in there
                             THEN [cluster[p] EXCEPT !.there = TRUE] ELSE cluster[p]]
        \/ \E gone \in SUBSET Catalogue :
              cluster' = [p \in Catalogue |-> IF p \in gone
                             THEN [cluster[p] EXCEPT !.deleted = TRUE] ELSE cluster[p]]
    <3>1. CASE Apply /\ harness.todo = {}
      BY <3>1 DEF Apply
    <3>2. CASE Apply /\ harness.todo # {}
      <4>1. PICK group \in SUBSET harness.todo :
                cluster' = [p \in Catalogue |-> IF p \in group /\ ~cluster[p].there
                               THEN [cluster[p] EXCEPT !.there = TRUE] ELSE cluster[p]]
        BY <3>2 DEF Apply
      <4> DEFINE there == {p \in Catalogue : p \in group /\ ~cluster[p].there}
      <4>2. cluster' = [p \in Catalogue |-> IF p \in there
                           THEN [cluster[p] EXCEPT !.there = TRUE] ELSE cluster[p]]
        BY <4>1
      <4> QED
        BY <4>2
    <3>3. CASE Scan
      BY <3>3 DEF Scan
    <3>4. CASE Delete
      <4> DEFINE gone == {p \in Catalogue : p \in harness.group /\ cluster[p].there}
      <4>1. cluster' = [p \in Catalogue |-> IF p \in gone
                           THEN [cluster[p] EXCEPT !.deleted = TRUE] ELSE cluster[p]]
        BY <3>4 DEF Delete
      <4> QED
        BY <4>1
    <3> QED
      BY <3>1, <3>2, <3>3, <3>4
  <2>2. \A p \in Catalogue :
            /\ [cluster[p] EXCEPT !.there = TRUE] \in PodState
            /\ [cluster[p] EXCEPT !.there = TRUE].failing = cluster[p].failing
            /\ [cluster[p] EXCEPT !.there = TRUE].failures = cluster[p].failures
            /\ [cluster[p] EXCEPT !.deleted = TRUE] \in PodState
            /\ [cluster[p] EXCEPT !.deleted = TRUE].failing = cluster[p].failing
            /\ [cluster[p] EXCEPT !.deleted = TRUE].failures = cluster[p].failures
    BY <1>2 DEF PodState
  <2>3. CASE cluster' = cluster
    BY <1>2, <2>3 DEF FailingHasFailed
  <2>4. ASSUME NEW there \in SUBSET Catalogue,
               cluster' = [p \in Catalogue |-> IF p \in there
                              THEN [cluster[p] EXCEPT !.there = TRUE] ELSE cluster[p]]
        PROVE  cluster' \in [Catalogue -> PodState] /\ FailingHasFailed'
    BY <1>2, <2>2, <2>4, Zenon DEF FailingHasFailed
  <2>5. ASSUME NEW gone \in SUBSET Catalogue,
               cluster' = [p \in Catalogue |-> IF p \in gone
                              THEN [cluster[p] EXCEPT !.deleted = TRUE] ELSE cluster[p]]
        PROVE  cluster' \in [Catalogue -> PodState] /\ FailingHasFailed'
    BY <1>2, <2>2, <2>5, Zenon DEF FailingHasFailed
  <2> QED
    BY <2>1, <2>3, <2>4, <2>5
<1> QED
  BY <1>1, <1>2, <1>3, <1>5, <1>6 DEF IInv, EvaluationTypeOK

(* A line is written for a pod that has none.                              *)
LEMMA WriteKeeps ==
    ASSUME IInv, Write
    PROVE  IInv'
<1>1. /\ UNCHANGED <<cluster, requests, verdicts, abandoned, report, runs, steps>>
      /\ harness.stage = "write"
  BY DEF Write
<1>2. EvaluationTypeOK /\ CollectIsFresh /\ OncePerPod /\ PhaseIsKnown
  BY DEF IInv
<1>3. CASE harness.captured = {}
  <2>1. contracts' = contracts
    BY <1>3 DEF Write
  <2>2. harness' = [stage |-> "delete", todo |-> harness.todo, group |-> harness.group,
                    captured |-> harness.captured, next |-> harness.next,
                    said |-> harness.said]
    BY <1>2, <1>3, HarnessShape DEF Write
  <2>3. CollectIsFresh' /\ PassedIsComplete' /\ PhaseIsKnown' /\ harness' \in Harness
    BY <1>1, <1>2, <2>1, <2>2, HarnessShape
       DEF CollectIsFresh, CapturedPods, PassedIsComplete, PhaseIsKnown, Harness
  <2>4. RowsAreListed' /\ AskedIsOpen' /\ ReportIsBounded'
    BY <1>1, <2>1, RowsStay
  <2> QED
    BY <1>1, <1>2, <2>1, <2>3, <2>4 DEF IInv, EvaluationTypeOK, FailingHasFailed, OncePerPod
<1>4. CASE harness.captured # {}
  <2>1. PICK c \in harness.captured :
            /\ contracts' = Append(contracts, c)
            /\ harness' = [harness EXCEPT !.captured = @ \ {c}]
    BY <1>4 DEF Write
  <2>2. harness' = [stage |-> "write", todo |-> harness.todo, group |-> harness.group,
                    captured |-> harness.captured \ {c}, next |-> harness.next,
                    said |-> harness.said]
    BY <1>1, <1>2, <2>1, HarnessShape
  <2>3. c \in Contract /\ c.pod \in harness.group \ CapturedPods
    BY <1>1, <1>2, HarnessShape DEF CollectIsFresh
  <2>4. /\ contracts' \in Seq(Contract) /\ Len(contracts') = Len(contracts) + 1
        /\ DOMAIN contracts = 1 .. Len(contracts) /\ DOMAIN contracts' = 1 .. Len(contracts')
        /\ \A n \in 1 .. Len(contracts) : contracts'[n] = contracts[n]
        /\ contracts'[Len(contracts) + 1] = c
        /\ Len(contracts) \in Nat
    BY <1>2, <2>1, <2>3, HarnessShape, AppendProperties, LenProperties
  <2>5. CapturedPods' = CapturedPods \cup {c.pod}
    BY <2>4 DEF CapturedPods
  <2>6. OncePerPod'
    BY <1>2, <2>3, <2>4 DEF OncePerPod, CapturedPods
  <2>7. CollectIsFresh'
    BY <1>1, <1>2, <2>2, <2>3, <2>5 DEF CollectIsFresh
  <2>8. harness' \in Harness /\ PassedIsComplete' /\ PhaseIsKnown'
    BY <1>1, <1>2, <2>2, HarnessShape DEF Harness, PassedIsComplete, PhaseIsKnown
  <2>9. RowsAreListed' /\ AskedIsOpen' /\ ReportIsBounded'
    BY <1>1, <2>4, RowsStay
  <2> QED
    BY <1>1, <1>2, <2>4, <2>6, <2>7, <2>8, <2>9 DEF IInv, EvaluationTypeOK, FailingHasFailed
<1> QED
  BY <1>3, <1>4

(* Pods fail and vanish.                                                   *)
LEMMA PodKeeps ==
    ASSUME IInv, NEW p \in Catalogue, Fail(p) \/ Vanish(p)
    PROVE  IInv'
<1>1. /\ UNCHANGED <<contracts, harness, requests, verdicts, abandoned, report, runs>>
      /\ steps' = steps \/ Step
  BY DEF Fail, Vanish
<1>2. cluster \in [Catalogue -> PodState] /\ FailingHasFailed
  BY DEF IInv, EvaluationTypeOK
<1>3. cluster' \in [Catalogue -> PodState] /\ FailingHasFailed'
  <2>1. PICK s \in PodState : cluster' = [cluster EXCEPT ![p] = s]
                              /\ (s.failing => s.failures # 0)
    <3>1. CASE Fail(p)
      <4> DEFINE s == [cluster[p] EXCEPT !.failures = cluster[p].failures + 1, !.failing = TRUE]
      <4>1. cluster[p].failures + 1 \in 0 .. MaxFailures /\ cluster[p].failures + 1 # 0
        BY <1>2, <3>1, EvaluationAssumption DEF Fail, PodState
      <4>2. s \in PodState /\ s.failures # 0
        BY <1>2, <4>1 DEF PodState
      <4>3. cluster' = [cluster EXCEPT ![p] = s]
        BY <1>2, <3>1 DEF Fail
      <4> QED
        BY <4>2, <4>3
    <3>2. CASE Vanish(p)
      <4> DEFINE s == [there |-> FALSE, deleted |-> FALSE, failing |-> FALSE,
                       failures |-> cluster[p].failures]
      <4>1. s \in PodState /\ s.failing = FALSE
        BY <1>2 DEF PodState
      <4>2. cluster' = [cluster EXCEPT ![p] = s]
        <5>1. s = [NoPod EXCEPT !.failures = cluster[p].failures]
          <6>1. /\ NoPod \in PodState
                /\ NoPod.there = FALSE /\ NoPod.deleted = FALSE /\ NoPod.failing = FALSE
            BY EvaluationAssumption DEF NoPod, PodState
          <6>2. \A x \in PodState :
                    [x EXCEPT !.failures = cluster[p].failures] =
                        [there |-> x.there, deleted |-> x.deleted, failing |-> x.failing,
                         failures |-> cluster[p].failures]
            BY DEF PodState
          <6> QED
            BY <6>1, <6>2
        <5>2. cluster' = [cluster EXCEPT ![p] = [NoPod EXCEPT !.failures = cluster[p].failures]]
          BY <3>2 DEF Vanish
        <5> HIDE DEF s
        <5> QED
          BY <5>1, <5>2, Zenon
      <4> QED
        BY <4>1, <4>2
    <3> QED
      BY <3>1, <3>2
  <2> QED
    BY <1>2, <2>1 DEF FailingHasFailed
<1>4. Rows' = Rows /\ CapturedPods' = CapturedPods
  BY <1>1 DEF Rows, CapturedPods
<1>5. steps' \in 0 .. MaxSteps
  BY <1>1, PhaseCounts DEF IInv, EvaluationTypeOK
<1> QED
  BY <1>1, <1>3, <1>4, <1>5
     DEF IInv, EvaluationTypeOK, OncePerPod, CollectIsFresh, RowsAreListed, Listed,
         AskedIsOpen, PassedIsComplete, PhaseIsKnown, ReportIsBounded, Asked, Subject,
         Settled, Complete

-----------------------------------------------------------------------------
(* diagnose: a step that sends nothing.                                    *)
LEMMA DiagnoseKeeps ==
    ASSUME IInv, StartDiagnose \/ Look \/ Answer \/ Finish
    PROVE  IInv'
<1>1. /\ UNCHANGED <<cluster, contracts, requests, verdicts, abandoned, report>>
      /\ (StartDiagnose /\ Phase) \/ UNCHANGED <<runs, steps>>
  BY DEF StartDiagnose, Look, Answer, Finish
<1>2. EvaluationTypeOK /\ PassedIsComplete /\ AskedIsOpen /\ PhaseIsKnown
  BY DEF IInv
<1>3. Rows' = Rows /\ CapturedPods' = CapturedPods
      /\ \A c : (Settled(c)' <=> Settled(c)) /\ (Complete(c)' <=> Complete(c))
                /\ (Listed(c)' <=> Listed(c))
  BY <1>1 DEF Rows, CapturedPods, Settled, Complete, Listed
<1>4. harness' \in Harness /\ harness'.stage \in {"idle", "look", "post", "diagnosed"}
      /\ harness'.said = Absent /\ PassedIsComplete'
  <2>1. CASE StartDiagnose
    <3>1. harness' = [stage |-> "look", todo |-> {}, group |-> {}, captured |-> {},
                      next |-> 1, said |-> Absent]
      BY <2>1 DEF StartDiagnose, Idle
    <3> QED
      BY <1>1, <1>2, <3>1, HarnessShape DEF Harness, PassedIsComplete
  <2>2. CASE Finish
    BY <2>2 DEF Finish, Idle, Harness, PassedIsComplete
  <2>3. CASE Look /\ harness.next > Len(contracts)
    <3>1. harness' = [stage |-> "diagnosed", todo |-> harness.todo, group |-> harness.group,
                      captured |-> harness.captured, next |-> harness.next,
                      said |-> harness.said]
      BY <1>2, <2>3, HarnessShape DEF Look
    <3>2. \A n \in DOMAIN contracts : Complete(contracts[n])
      BY <1>2, <2>3, HarnessShape DEF Look, PassedIsComplete
    <3>3. harness.said = Absent
      BY <1>2, <2>3 DEF Look, PhaseIsKnown
    <3> QED
      BY <1>1, <1>2, <1>3, <3>1, <3>2, <3>3, HarnessShape DEF Harness, PassedIsComplete
  <2>4. ASSUME harness.stage \in {"look", "answer"}, harness.next \in DOMAIN contracts,
               Complete(Subject),
               harness' = [stage |-> "look", todo |-> harness.todo,
                           group |-> harness.group, captured |-> harness.captured,
                           next |-> harness.next + 1, said |-> Absent]
        PROVE  harness' \in Harness /\ harness'.stage \in {"idle", "look", "post", "diagnosed"}
               /\ harness'.said = Absent /\ PassedIsComplete'
    <3>1. \A n \in DOMAIN contracts : n < harness.next + 1 => Complete(contracts[n])
      BY <1>2, <2>4, HarnessShape DEF PassedIsComplete, Subject
    <3>2. harness.next + 1 \in Nat /\ harness.next + 1 # 0
      BY <1>2, HarnessShape
    <3> QED
      BY <1>1, <1>2, <1>3, <2>4, <3>1, <3>2, HarnessShape DEF Harness, PassedIsComplete
  <2>5. CASE Look /\ ~(harness.next > Len(contracts))
    <3>1. harness.stage = "look" /\ harness.next \in DOMAIN contracts
          /\ harness.said = Absent
      BY <1>2, <2>5, HarnessShape DEF Look, PassedIsComplete, PhaseIsKnown
    <3>2. CASE Settled(Subject)
      <4>1. harness' = [stage |-> "look", todo |-> harness.todo, group |-> harness.group,
                        captured |-> harness.captured, next |-> harness.next + 1,
                        said |-> Absent]
        BY <1>2, <2>5, <3>1, <3>2, HarnessShape DEF Look
      <4> QED
        <5>1. Complete(Subject)
          BY <3>2 DEF Complete, Settled
        <5>2. harness.stage \in {"look", "answer"}
          BY <3>1
        <5> QED
          BY <2>4, <3>1, <4>1, <5>1, <5>2, Zenon
    <3>3. CASE ~Settled(Subject)
      <4>1. harness' = [stage |-> "post", todo |-> harness.todo, group |-> harness.group,
                        captured |-> harness.captured, next |-> harness.next,
                        said |-> Absent]
        BY <1>2, <2>5, <3>1, <3>3, HarnessShape DEF Look
      <4>2. ~Settled(Subject)'
        BY <1>1, <1>3, <3>3, <4>1 DEF Subject, Settled
      <4> QED
        BY <1>1, <1>2, <1>3, <3>1, <4>1, <4>2, HarnessShape DEF Harness, PassedIsComplete
    <3> QED
      BY <3>2, <3>3
  <2>6. CASE Answer
    <3>1. harness.stage = "answer" /\ harness.said # Absent
          /\ harness.next \in DOMAIN contracts /\ verdicts[Subject] # Absent
          /\ (Subject \in abandoned \/ verdicts[Subject] = harness.said)
      BY <1>2, <2>6 DEF Answer, PassedIsComplete
    <3>2. CASE Waits(harness.said)
      <4>1. harness' = [stage |-> "look", todo |-> harness.todo, group |-> harness.group,
                        captured |-> harness.captured, next |-> harness.next,
                        said |-> Absent]
        BY <1>2, <2>6, <3>2, HarnessShape DEF Answer
      <4> QED
        BY <1>1, <1>2, <1>3, <3>1, <4>1, HarnessShape DEF Harness, PassedIsComplete
    <3>3. CASE ~Waits(harness.said)
      <4>1. harness' = [stage |-> "look", todo |-> harness.todo, group |-> harness.group,
                        captured |-> harness.captured, next |-> harness.next + 1,
                        said |-> Absent]
        BY <1>2, <2>6, <3>3, HarnessShape DEF Answer
      <4> QED
        <5>1. Complete(Subject)
          BY <3>1, <3>3 DEF Complete, Waits
        <5>2. harness.stage \in {"look", "answer"}
          BY <3>1
        <5> QED
          BY <2>4, <3>1, <4>1, <5>1, <5>2, Zenon
    <3> QED
      BY <3>2, <3>3
  <2> QED
    BY <2>1, <2>2, <2>3, <2>5, <2>6
<1>5. \A q \in requests : q.contract \in abandoned
  BY <1>2 DEF AskedIsOpen, StartDiagnose, Look, Answer, Finish
<1>6. AskedIsOpen'
  BY <1>1, <1>5 DEF AskedIsOpen
<1>7. CollectIsFresh'
  BY <1>4 DEF CollectIsFresh
<1>8. runs' \in 0 .. MaxRuns /\ steps' \in 0 .. MaxSteps /\ PhaseIsKnown'
  <2>1. CASE StartDiagnose /\ Phase
    BY <1>2, <1>4, <2>1, PhaseCounts DEF PhaseIsKnown
  <2>2. CASE UNCHANGED <<runs, steps>>
    BY <1>2, <1>4, <2>2, PhaseCounts
       DEF PhaseIsKnown, EvaluationTypeOK, StartDiagnose, Look, Answer, Finish, Phase
  <2> QED
    BY <1>1, <2>1, <2>2
<1> QED
  BY <1>1, <1>3, <1>4, <1>6, <1>7, <1>8
     DEF IInv, EvaluationTypeOK, FailingHasFailed, OncePerPod, RowsAreListed, ReportIsBounded

LEMMA PostKeeps ==
    ASSUME IInv, Post
    PROVE  IInv'
<1>1. /\ UNCHANGED <<cluster, contracts, verdicts, abandoned, report, runs>> /\ Step
      /\ harness.stage = "post" /\ requests' = requests \cup {Asked}
  BY DEF Post
<1>2. EvaluationTypeOK /\ PassedIsComplete /\ AskedIsOpen /\ PhaseIsKnown
      /\ harness.said = Absent /\ runs \in 1 .. MaxRuns
  BY <1>1, EvaluationAssumption DEF IInv, PhaseIsKnown, EvaluationTypeOK
<1>3. harness' = [stage |-> "answer", todo |-> harness.todo, group |-> harness.group,
                  captured |-> harness.captured, next |-> harness.next, said |-> Absent]
  BY <1>2, HarnessShape DEF Post
<1>4. Rows' = Rows /\ CapturedPods' = CapturedPods /\ Subject' = Subject /\ Asked' = Asked
      /\ \A c : (Settled(c)' <=> Settled(c)) /\ (Complete(c)' <=> Complete(c))
                /\ (Listed(c)' <=> Listed(c))
  BY <1>1, <1>3 DEF Rows, CapturedPods, Settled, Complete, Listed, Subject, Asked
<1>5. /\ harness.next \in DOMAIN contracts /\ Subject \in Contract /\ Listed(Subject)
      /\ Subject \in abandoned \/ ~Settled(Subject)
      /\ Asked \in Request /\ Asked.contract = Subject
  BY <1>1, <1>2, HarnessShape DEF PassedIsComplete, Listed, Subject, Asked, Request
<1>6. EvaluationTypeOK' /\ PhaseIsKnown'
  BY <1>1, <1>2, <1>3, <1>5, HarnessShape, PhaseCounts
     DEF EvaluationTypeOK, Harness, PhaseIsKnown
<1>7. PassedIsComplete'
  BY <1>1, <1>2, <1>3, <1>4, <1>5, HarnessShape DEF PassedIsComplete
<1>8. \A q \in requests : q.contract \in abandoned
  BY <1>1, <1>2 DEF AskedIsOpen
<1>9. AskedIsOpen'
  BY <1>1, <1>3, <1>4, <1>5, <1>8 DEF AskedIsOpen
<1>10. RowsAreListed'
  BY <1>1, <1>4, <1>5 DEF IInv, RowsAreListed
<1>11. CollectIsFresh'
  BY <1>3 DEF CollectIsFresh
<1> QED
  BY <1>1, <1>4, <1>6, <1>7, <1>9, <1>10, <1>11
     DEF IInv, FailingHasFailed, OncePerPod, ReportIsBounded

(* A request is recorded: it settles no row that was not asked about.      *)
LEMMA RecordKeeps ==
    ASSUME IInv, NEW q \in requests, NEW answer \in Answers, Record(q, answer)
    PROVE  IInv'
<1>1. PICK c : c = q.contract
  OBVIOUS
<1>2. /\ UNCHANGED <<cluster, contracts, abandoned, report, runs, steps>>
      /\ requests' = requests \ {q} /\ verdicts' = [verdicts EXCEPT ![c] = answer]
      /\ harness' = IF harness.stage = "answer" /\ q = Asked
                    THEN [harness EXCEPT !.said = answer] ELSE harness
  BY <1>1 DEF Record
<1>3. /\ EvaluationTypeOK /\ PassedIsComplete /\ AskedIsOpen /\ OncePerPod /\ RowsAreListed
      /\ PhaseIsKnown /\ CollectIsFresh
      /\ c \in Contract /\ verdicts \in [Contract -> Answers \cup {Absent}]
      /\ answer # Absent /\ Listed(c)
  BY <1>1, EvaluationAssumption DEF IInv, EvaluationTypeOK, RowsAreListed, Request
<1>4. verdicts'[c] = answer /\ \A d \in Contract : d # c => verdicts'[d] = verdicts[d]
  BY <1>2, <1>3
<1>5. /\ harness' \in Harness
      /\ harness'.stage = harness.stage /\ harness'.next = harness.next
      /\ harness'.todo = harness.todo /\ harness'.group = harness.group
      /\ harness'.captured = harness.captured
      /\ harness'.said = IF harness.stage = "answer" /\ q = Asked THEN answer
                         ELSE harness.said
  <2>1. CASE harness.stage = "answer" /\ q = Asked
    <3>1. harness' = [stage |-> harness.stage, todo |-> harness.todo,
                      group |-> harness.group, captured |-> harness.captured,
                      next |-> harness.next, said |-> answer]
      BY <1>2, <1>3, <2>1, HarnessShape
    <3> QED
      BY <1>3, <2>1, <3>1, HarnessShape DEF EvaluationTypeOK, Harness
  <2>2. CASE ~(harness.stage = "answer" /\ q = Asked)
    BY <1>2, <1>3, <2>2 DEF EvaluationTypeOK
  <2> QED
    BY <2>1, <2>2
<1>6. /\ Rows' = Rows \cup {c} /\ Subject' = Subject /\ Asked' = Asked
      /\ \A d : Listed(d)' <=> Listed(d)
  <2>1. Rows' = Rows \cup {c}
    BY <1>2, <1>3, <1>4 DEF Rows
  <2>2. Subject' = Subject /\ Asked' = Asked
    BY <1>2, <1>5 DEF Subject, Asked
  <2> QED
    BY <1>2, <2>1, <2>2 DEF Listed
<1>7. \A d \in Contract : d # c => (Settled(d)' <=> Settled(d)) /\ (Complete(d)' <=> Complete(d))
  BY <1>2, <1>4 DEF Settled, Complete
<1>8. c \in abandoned => Complete(c)'
  BY <1>2, <1>3, <1>4 DEF Complete
<1>9. EvaluationTypeOK' /\ PhaseIsKnown'
  BY <1>2, <1>3, <1>5 DEF EvaluationTypeOK, PhaseIsKnown
<1>10. c \notin abandoned => harness.stage = "answer" /\ q = Asked /\ c = Subject
  BY <1>1, <1>3 DEF AskedIsOpen, Asked
<1>11. AskedIsOpen'
  <2> SUFFICES ASSUME NEW r \in requests, r # q, r.contract \notin abandoned
               PROVE  harness'.stage = "answer" /\ r = Asked /\ harness'.said = Absent
                      /\ ~Settled(Subject)'
    BY <1>2, <1>6 DEF AskedIsOpen
  <2>1. harness.stage = "answer" /\ r = Asked /\ harness.said = Absent /\ ~Settled(Subject)
    BY <1>3 DEF AskedIsOpen
  <2>2. r.contract = Subject /\ c # Subject /\ Subject \in Contract
    BY <1>3, <1>10, <2>1 DEF Asked, EvaluationTypeOK, Request
  <2> QED
    BY <1>5, <1>6, <1>7, <2>1, <2>2
<1>12. PassedIsComplete'
  <2>1. ASSUME NEW n \in DOMAIN contracts, Complete(contracts[n]),
               harness.stage = "answer" => n < harness.next
        PROVE  Complete(contracts[n])'
    <3>1. contracts[n] \in Contract
      BY <1>3, HarnessShape
    <3>2. CASE contracts[n] # c
      BY <1>2, <1>4, <2>1, <3>1, <3>2 DEF Complete
    <3>3. CASE contracts[n] = c /\ c \notin abandoned
      <4>1. harness.stage = "answer" /\ c = Subject
        BY <1>10, <3>3
      <4>2. harness.next \in DOMAIN contracts /\ contracts[harness.next] = contracts[n]
        BY <1>3, <3>3, <4>1 DEF PassedIsComplete, Subject
      <4>3. n = harness.next
        BY <1>3, <4>2 DEF OncePerPod
      <4> QED
        BY <1>3, <2>1, <4>1, <4>3, HarnessShape
    <3>4. CASE contracts[n] = c /\ c \in abandoned
      BY <1>2, <1>8, <3>4 DEF Complete
    <3> QED
      BY <3>2, <3>3, <3>4
  <2>2. \A n \in DOMAIN contracts :
            Complete(contracts[n]) /\ (harness.stage = "answer" => n < harness.next) =>
                Complete(contracts[n])'
    BY <1>2, <2>1
  <2>3. harness.stage = "post" => (Subject \in abandoned \/ ~Settled(Subject))'
    <3> SUFFICES ASSUME harness.stage = "post", Subject \notin abandoned
                 PROVE  ~Settled(Subject)'
      BY <1>2, <1>6
    <3>1. ~Settled(Subject) /\ Subject \in Contract /\ c # Subject
      BY <1>3, <1>10, HarnessShape DEF PassedIsComplete, Subject
    <3> QED
      BY <1>6, <1>7, <3>1
  <2>4. harness.stage = "answer" =>
            \/ Asked' \in requests' /\ harness'.said = Absent
            \/ /\ harness'.said \in Answers /\ verdicts'[Subject'] # Absent
               /\ Subject' \in abandoned' \/ verdicts'[Subject'] = harness'.said
    <3> SUFFICES ASSUME harness.stage = "answer"
                 PROVE  \/ Asked \in requests' /\ harness'.said = Absent
                        \/ /\ harness'.said \in Answers /\ verdicts'[Subject] # Absent
                           /\ Subject \in abandoned \/ verdicts'[Subject] = harness'.said
      BY <1>2, <1>6
    <3>1. Subject \in Contract
      BY <1>3, HarnessShape DEF PassedIsComplete, Subject
    <3>2. CASE q = Asked
      <4>1. c = Subject
        BY <1>1, <3>2 DEF Asked
      <4> QED
        BY <1>3, <1>4, <1>5, <3>2, <4>1
    <3>3. CASE q # Asked
      <4>1. c \in abandoned /\ harness'.said = harness.said
        BY <1>5, <1>10, <3>3
      <4>2. verdicts[Subject] # Absent => verdicts'[Subject] # Absent
        BY <1>3, <1>4, <3>1
      <4>3. Subject # c => verdicts'[Subject] = verdicts[Subject]
        BY <1>4, <3>1
      <4> QED
        BY <1>2, <1>3, <3>3, <4>1, <4>2, <4>3 DEF PassedIsComplete
    <3> QED
      BY <3>2, <3>3
  <2> QED
    BY <1>2, <1>3, <1>5, <1>6, <2>2, <2>3, <2>4 DEF PassedIsComplete
<1>13. ReportIsBounded'
  <2>1. IsFiniteSet(Rows) /\ Cardinality(Rows) \in Nat
    BY RowsAndPods, FS_CardinalityType
  <2>2. IsFiniteSet(Rows') /\ Cardinality(Rows) <= Cardinality(Rows') /\ Cardinality(Rows') \in Nat
    <3>1. /\ IsFiniteSet(Rows \cup {c})
          /\ Cardinality(Rows \cup {c}) =
                 IF c \in Rows THEN Cardinality(Rows) ELSE Cardinality(Rows) + 1
      BY <2>1, FS_AddElement
    <3> QED
      BY <1>6, <2>1, <3>1
  <2> QED
    BY <1>2, <2>1, <2>2 DEF IInv, ReportIsBounded
<1>14. RowsAreListed'
  BY <1>2, <1>3, <1>6 DEF RowsAreListed
<1>15. CollectIsFresh' /\ OncePerPod' /\ FailingHasFailed'
  <2>1. CapturedPods' = CapturedPods
    BY <1>2 DEF CapturedPods
  <2>2. CollectIsFresh'
    BY <1>3, <1>5, <2>1 DEF CollectIsFresh
  <2> QED
    BY <1>2, <2>2 DEF IInv, OncePerPod, FailingHasFailed
<1> QED
  BY <1>9, <1>11, <1>12, <1>13, <1>14, <1>15 DEF IInv

(* A phase is killed: what it had asked for may still be answered.         *)
LEMMA AbortKeeps ==
    ASSUME IInv, Abort
    PROVE  IInv'
<1>1. /\ UNCHANGED <<cluster, contracts, verdicts, report>>
      /\ harness' = Idle /\ requests' \subseteq requests
      /\ abandoned' = abandoned \cup {q.contract : q \in requests'}
      /\ UNCHANGED <<runs, steps>>
  BY DEF Abort
<1>2. Rows' = Rows /\ \A c : Listed(c)' <=> Listed(c)
  BY <1>1 DEF Rows, Listed
<1>3. \A q \in requests : q.contract \in Contract
  BY DEF IInv, EvaluationTypeOK, Request
<1> QED
  BY <1>1, <1>2, <1>3
     DEF IInv, EvaluationTypeOK, FailingHasFailed, OncePerPod, CollectIsFresh, RowsAreListed,
         AskedIsOpen, PassedIsComplete, PhaseIsKnown, ReportIsBounded, Idle, Harness

LEMMA ScoreKeeps ==
    ASSUME IInv, score
    PROVE  IInv'
<1>1. /\ UNCHANGED <<cluster, contracts, harness, requests, verdicts, abandoned>>
      /\ report'.n = Cardinality(Rows)
      /\ harness.stage = "idle" /\ Phase
  BY DEF score
<1>2. Rows' = Rows /\ CapturedPods' = CapturedPods
  BY <1>1 DEF Rows, CapturedPods
<1>3. Cardinality(Rows) \in Nat
  BY RowsAndPods, FS_CardinalityType
<1>4. ReportIsBounded'
  BY <1>1, <1>2, <1>3 DEF ReportIsBounded
<1> QED
  BY <1>1, <1>2, <1>4, PhaseCounts
     DEF IInv, EvaluationTypeOK, FailingHasFailed, OncePerPod, CollectIsFresh, RowsAreListed,
         Listed, AskedIsOpen, PassedIsComplete, PhaseIsKnown, Subject, Settled, Complete

-----------------------------------------------------------------------------
LEMMA IInvInit == EvaluationInit => IInv
<1> SUFFICES ASSUME EvaluationInit PROVE IInv
  OBVIOUS
<1>1. /\ cluster = [p \in Catalogue |-> NoPod] /\ contracts = <<>> /\ harness = Idle
      /\ requests = {} /\ abandoned = {} /\ report = Absent
      /\ verdicts = [c \in Contract |-> Absent] /\ runs = 0 /\ steps = 0
  BY DEF EvaluationInit
<1>2. NoPod \in PodState /\ NoPod.failing = FALSE /\ Idle \in Harness /\ Idle.stage = "idle"
      /\ Idle.said = Absent
  BY EvaluationAssumption DEF NoPod, PodState, Idle, Harness
<1>3. EvaluationTypeOK
  BY <1>1, <1>2, EmptySeq, EvaluationAssumption DEF EvaluationTypeOK
<1>4. Rows = {}
  BY <1>1 DEF Rows
<1>5. DOMAIN contracts = {}
  BY <1>1
<1> QED
  BY <1>1, <1>2, <1>3, <1>4, <1>5
     DEF IInv, FailingHasFailed, OncePerPod, CollectIsFresh, RowsAreListed, AskedIsOpen,
         PassedIsComplete, PhaseIsKnown, ReportIsBounded

LEMMA IInvStep == IInv /\ [EvaluationNext]_evalVars => IInv'
<1> SUFFICES ASSUME IInv, [EvaluationNext]_evalVars PROVE IInv'
  OBVIOUS
<1>1. CASE UNCHANGED evalVars
  <2>1. Rows' = Rows /\ CapturedPods' = CapturedPods
    BY <1>1 DEF evalVars, Rows, CapturedPods
  <2> QED
    BY <1>1, <2>1
       DEF evalVars, IInv, EvaluationTypeOK, FailingHasFailed, OncePerPod, CollectIsFresh,
           RowsAreListed, Listed, AskedIsOpen, PassedIsComplete, PhaseIsKnown,
           ReportIsBounded, Asked, Subject, Settled, Complete
<1> QED
  BY <1>1, StartCollectKeeps, BatchKeeps, WriteKeeps, PodKeeps, DiagnoseKeeps, PostKeeps,
     RecordKeeps, AbortKeeps, ScoreKeeps DEF EvaluationNext, Collect, Diagnose

(* Every reachable state satisfies the invariant.                          *)
THEOREM Invariance == EvaluationSpec => []IInv
BY IInvInit, IInvStep, PTL DEF EvaluationSpec

(* The harness, the cluster and the ledger have the types the code         *)
(* assumes.                                                                *)
THEOREM TypeCorrectness == EvaluationSpec => []EvaluationTypeOK
<1>1. IInv => EvaluationTypeOK
  BY DEF IInv
<1> QED
  BY <1>1, Invariance, PTL

(* A report counts no incident of the catalogue twice (collect, score).    *)
THEOREM CountSafety == EvaluationSpec => []CountedOnce
<1>1. IInv => CountedOnce
  BY RowsAndPods DEF IInv, ReportIsBounded, CountedOnce
<1> QED
  BY <1>1, Invariance, PTL

(* A diagnose that ends has a row for every contract, and none at a limit  *)
(* with a wait that can be read, but from a request that an earlier        *)
(* diagnose left behind (diagnose, wait_from).                             *)
THEOREM CompletionSafety == EvaluationSpec => []FinishedIsComplete
<1>1. IInv => FinishedIsComplete
  BY DEF IInv, PassedIsComplete, FinishedIsComplete, Complete
<1> QED
  BY <1>1, Invariance, PTL

(* No verdict is bought twice or lost, but to a request that an earlier    *)
(* diagnose left behind (ledger_row).                                      *)
THEOREM VerdictSafety == EvaluationSpec => VerdictIsKept
<1>1. IInv /\ [EvaluationNext]_evalVars =>
          [\A c \in Contract \ abandoned :
              verdicts[c] # Absent /\ verdicts[c] \notin Discards =>
                  verdicts'[c] = verdicts[c]]_evalVars
  <2> SUFFICES ASSUME IInv, EvaluationNext, NEW c \in Contract \ abandoned,
                      verdicts[c] # Absent, verdicts[c] \notin Discards
               PROVE  verdicts'[c] = verdicts[c]
    BY DEF evalVars
  <2>1. Settled(c)
    BY DEF Settled, Discards
  <2>2. CASE \E q \in requests, answer \in Answers : Record(q, answer)
    <3>1. PICK q \in requests, answer \in Answers : Record(q, answer)
      BY <2>2
    <3>2. q.contract # c
      BY <2>1 DEF IInv, AskedIsOpen, Asked
    <3>3. verdicts \in [Contract -> Answers \cup {Absent}]
      BY DEF IInv, EvaluationTypeOK
    <3> QED
      BY <3>1, <3>2, <3>3 DEF Record
  <2>3. CASE ~ \E q \in requests, answer \in Answers : Record(q, answer)
    BY <2>3 DEF EvaluationNext, Collect, Diagnose, StartCollect, Apply, Scan, Write, Delete,
          StartDiagnose, Look, Post, Answer, Finish, score, Abort, Fail, Vanish
  <2> QED
    BY <2>2, <2>3
<1> QED
  BY <1>1, Invariance, PTL DEF EvaluationSpec, VerdictIsKept
=============================================================================
