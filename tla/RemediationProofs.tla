------------------------- MODULE RemediationProofs -------------------------
(***************************************************************************)
(* For any incidents, evidence, decisions, losses and restarts: the types  *)
(* of the agent's and the brain's state, and that nothing is applied but   *)
(* what a token the brain signed authorises in every field, and that what  *)
(* the ledger says was executed was patched. Of an agent that does not     *)
(* restart: that the ledger tells what became of a decision nobody         *)
(* overruled. While nothing is lost or late: that a token is used once,    *)
(* and a finished row stays finished.                                      *)
(***************************************************************************)
EXTENDS Remediation, SequenceTheorems, TLAPS

(* A row, in the ledger or in the runner's hands: its token was signed by  *)
(* the brain for its incident, and a decision has its time                 *)
Sound(i, row) ==
    /\ row.token \in issued \cup NoRecord
    /\ row.token # None => row.token.incident = i
    /\ row.decision # None => row.decisionAt \in Nat

LedgerIsSound == \A i \in Incidents : Recorded(i) => Sound(i, ledger[i])

(* A decision that is about to be written has signed its token             *)
LabelsAreSound ==
    \A l \in deciding : l.decision \in Authorises =>
        l.action \in Actions /\ TokenOf(l) \in issued

Busy == runner.pc \in {"apply", "report", "await"}

RunnerIsSound ==
    /\ runner.pc # "idle" => \A inc \in runner.todo : Sound(inc.incident, inc.row)
    /\ Busy => Sound(runner.inc.incident, runner.inc.row)

(* What is about to be applied was verified, by an agent that executes     *)
ApplyIsAuthorised ==
    runner.pc = "apply" =>
        /\ execute
        /\ Verify(runner.inc)
        /\ runner.inc.row.decisionAction \in Executable

(* What was applied was applied for the incident of its token              *)
PatchesAreSound ==
    \A n \in 1 .. Len(patches) : patches[n].token.incident = patches[n].incident

IInv ==
    /\ TypeOK /\ LedgerIsSound /\ LabelsAreSound /\ RunnerIsSound
    /\ ApplyIsAuthorised /\ PatchesAreSound

-----------------------------------------------------------------------------
(* The runner's shape goes with its pc (Runner.RunOnce).                   *)
LEMMA RunnerShape ==
    ASSUME TypeOK
    PROVE  /\ runner.pc \in {"idle", "handle", "apply", "report", "await"}
           /\ runner.pc # "idle" => runner.todo \subseteq Approval
           /\ Busy => /\ runner.inc \in Approval /\ runner.status \in Statuses
                      /\ runner = [pc |-> runner.pc, todo |-> runner.todo,
                                   inc |-> runner.inc, status |-> runner.status]
BY DEF TypeOK, Runner, Busy

(* A row that is labelled with a decision is a row, and keeps its evidence *)
(* (Ledger.label).                                                         *)
LEMMA LabelledRow ==
    ASSUME NEW row \in Row, NEW d \in Decisions, NEW a \in Actions \cup NoRecord,
           NEW tok \in Token \cup NoRecord, NEW t \in Nat
    PROVE  /\ Labelled(row, d, a, tok, t) \in Row
           /\ Labelled(row, d, a, tok, t).decisionAt = t
           /\ Labelled(row, d, a, tok, t).decision = d
           /\ tok # None => Labelled(row, d, a, tok, t).token = tok
           /\ tok = None => Labelled(row, d, a, tok, t).token = row.token
           /\ Labelled(row, d, a, tok, t).hash = row.hash
           /\ Labelled(row, d, a, tok, t).execution = row.execution
<1>1. /\ KeepIfNone(a, row.decisionAction) \in Actions \cup NoRecord
      /\ KeepIfNone(tok, row.token) \in Token \cup NoRecord
      /\ tok # None => KeepIfNone(tok, row.token) = tok
      /\ tok = None => KeepIfNone(tok, row.token) = row.token
  BY DEF KeepIfNone, Row
<1> DEFINE act == KeepIfNone(a, row.decisionAction)
           kept == KeepIfNone(tok, row.token)
<1>2. Labelled(row, d, a, tok, t) =
          [row EXCEPT !.decision = d, !.decisionAt = t, !.decisionAction = act,
                      !.token = kept]
  BY DEF Labelled
<1> HIDE DEF act, kept
<1>3. /\ [row EXCEPT !.decision = d, !.decisionAt = t, !.decisionAction = act,
                     !.token = kept] \in Row
      /\ [row EXCEPT !.decision = d, !.decisionAt = t, !.decisionAction = act,
                     !.token = kept].decisionAt = t
      /\ [row EXCEPT !.decision = d, !.decisionAt = t, !.decisionAction = act,
                     !.token = kept].decision = d
      /\ [row EXCEPT !.decision = d, !.decisionAt = t, !.decisionAction = act,
                     !.token = kept].token = kept
      /\ [row EXCEPT !.decision = d, !.decisionAt = t, !.decisionAction = act,
                     !.token = kept].hash = row.hash
      /\ [row EXCEPT !.decision = d, !.decisionAt = t, !.decisionAction = act,
                     !.token = kept].execution = row.execution
  BY <1>1 DEF Row, act, kept
<1> QED
  BY <1>1, <1>2, <1>3 DEF kept

(* A step that replaces one row by a sound one, and signs what it may      *)
LEMMA LedgerFrame ==
    ASSUME IInv, NEW i \in Incidents, NEW row,
           ledger' = [ledger EXCEPT ![i] = row],
           row = None \/ (row \in Row /\ Sound(i, row)'),
           issued \subseteq issued'
    PROVE  LedgerTypeOK' /\ LedgerIsSound'
<1>1. ledger \in [Incidents -> Row \cup NoRecord]
  BY DEF IInv, TypeOK, LedgerTypeOK
<1>2. ledger'[i] = row /\ \A j \in Incidents : j # i => ledger'[j] = ledger[j]
  BY <1>1
<1>3. LedgerTypeOK'
  BY <1>1 DEF LedgerTypeOK, NoRecord
<1>4. LedgerIsSound'
  BY <1>2 DEF IInv, LedgerIsSound, Recorded, Sound
<1> QED
  BY <1>3, <1>4

(* A decision under way is typed, and so is its token (approval.sign).     *)
LEMMA LabelShape ==
    ASSUME IInv, NEW l \in deciding
    PROVE  /\ l.incident \in Incidents /\ l.hash \in Hashes /\ l.decision \in Decisions
           /\ l.action \in Actions \cup NoRecord /\ l.at \in Nat
           /\ l.decision \in Authorises => TokenOf(l) \in issued
           /\ l.decision \notin Authorises => TokenOf(l) = None
           /\ TokenOf(l) \in Token \cup NoRecord /\ TokenOf(l) \in issued \cup NoRecord
           /\ TokenOf(l) # None <=> l.decision \in Authorises
           /\ TokenOf(l) # None => TokenOf(l).incident = l.incident /\ TokenOf(l).at = l.at
<1>1. /\ l.incident \in Incidents /\ l.hash \in Hashes /\ l.decision \in Decisions
      /\ l.action \in Actions \cup NoRecord /\ l.at \in Nat
      /\ issued \subseteq Token
  BY DEF IInv, TypeOK, Answered
<1>2. /\ l.decision \in Authorises => TokenOf(l) \in issued
      /\ l.decision \notin Authorises => TokenOf(l) = None
  BY DEF IInv, LabelsAreSound, TokenOf
<1>3. TokenOf(l) \in issued \cup NoRecord /\ TokenOf(l) \in Token \cup NoRecord
  BY <1>1, <1>2 DEF NoRecord
<1>4. TokenOf(l) # None <=> l.decision \in Authorises
  BY <1>1, <1>2, LedgerAssumption
<1>5. l.decision \in Authorises =>
          TokenOf(l).incident = l.incident /\ TokenOf(l).at = l.at
  BY <1>1 DEF TokenOf, sign
<1> QED
  BY <1>1, <1>2, <1>3, <1>4, <1>5

(* The token of a decision that authorises names its action                *)
(* (ApprovalPipeline.record).                                              *)
LEMMA Authority ==
    ASSUME asked \subseteq Question, decisions \in Nat,
           NEW q \in asked, NEW d \in Decisions, NEW a \in Actions, NEW l,
           l = [incident |-> q.incident, hash |-> q.hash, decision |-> d,
                action |-> Text(q, d, a), at |-> decisions]
    PROVE  /\ l \in Answered
           /\ d \in Authorises => l.action \in Actions /\ TokenOf(l) \in Token
           /\ d \notin Authorises => TokenOf(l) = None
           /\ TokenOf(l) \in Token \cup NoRecord
<1>1. q.incident \in Incidents /\ q.hash \in Hashes /\ q.action \in Actions
  BY DEF Question
<1>2. /\ Text(q, d, a) \in Actions \cup NoRecord
      /\ d \in Authorises => Text(q, d, a) \in Actions
  BY <1>1 DEF Text, Authorises, NoRecord
<1>3. /\ l.incident = q.incident /\ l.hash = q.hash /\ l.decision = d
      /\ l.action = Text(q, d, a) /\ l.at = decisions /\ l \in Answered
  BY <1>1, <1>2 DEF Answered
<1>4. d \in Authorises => TokenOf(l) \in Token
  BY <1>1, <1>2, <1>3 DEF TokenOf, sign, Token
<1>5. d \notin Authorises => TokenOf(l) = None
  BY <1>3 DEF TokenOf
<1> QED
  BY <1>2, <1>3, <1>4, <1>5 DEF NoRecord

-----------------------------------------------------------------------------
(* What steps do to the ledger and the tokens.                             *)
LEMMA LedgerStep ==
    ASSUME IInv, [Next]_vars
    PROVE  /\ LedgerTypeOK' /\ LedgerIsSound'
           /\ issued \subseteq issued' /\ issued' \subseteq Token
<1>1. ledger \in [Incidents -> Row \cup NoRecord] /\ issued \subseteq Token
  BY DEF IInv, TypeOK, LedgerTypeOK
<1>2. ASSUME UNCHANGED <<ledger, issued>>
      PROVE  LedgerTypeOK' /\ LedgerIsSound' /\ issued \subseteq issued' /\ issued' \subseteq Token
  BY <1>1, <1>2 DEF IInv, TypeOK, LedgerTypeOK, LedgerIsSound, Recorded, Sound
<1>3. ASSUME NEW c \in contracts, NEW a \in Actions \cup NoRecord, diagnose(c, a)
      PROVE  LedgerTypeOK' /\ LedgerIsSound' /\ issued \subseteq issued' /\ issued' \subseteq Token
  <2>1. c.incident \in Incidents /\ c.hash \in Hashes
    BY DEF IInv, TypeOK, Contract
  <2>2. FreshRow(c.hash, a) \in Row /\ FreshRow(c.hash, a).token = None
        /\ FreshRow(c.hash, a).decision = None
    BY <2>1 DEF FreshRow, Row, NoRecord
  <2>3. ledger' = [ledger EXCEPT ![c.incident] = FreshRow(c.hash, a)] /\ issued' = issued
    BY <1>3 DEF diagnose, record, signVars
  <2>4. Sound(c.incident, FreshRow(c.hash, a))'
    BY <2>2 DEF Sound, NoRecord, FreshRow
  <2> QED
    BY <1>1, <2>1, <2>2, <2>3, <2>4, LedgerFrame
<1>4. ASSUME NEW l \in deciding, NEW delay \in Delays, writeDecision(l, delay)
      PROVE  LedgerTypeOK' /\ LedgerIsSound' /\ issued \subseteq issued' /\ issued' \subseteq Token
  <2>1. PICK i \in Incidents, t \in Nat : i = l.incident /\ t = l.at + delay
    BY LabelShape, RemediationAssumption
  <2>2. PICK tok \in Token \cup NoRecord :
            /\ tok = TokenOf(l) /\ tok \in issued \cup NoRecord
            /\ tok # None => tok.incident = i
    BY <2>1, LabelShape
  <2>3. label(i, l.decision, l.action, tok, t) /\ issued' = issued
    BY <1>4, <2>1, <2>2 DEF writeDecision
  <2>4. CASE ledger[i] = None
    BY <1>1, <1>2, <2>3, <2>4 DEF label
  <2>5. CASE ledger[i] # None
    <3>1. ledger[i] \in Row /\ Sound(i, ledger[i])
      BY <1>1, <2>5 DEF IInv, LedgerIsSound, Recorded, NoRecord
    <3>2. PICK row : row = Labelled(ledger[i], l.decision, l.action, tok, t)
      OBVIOUS
    <3>3. /\ row \in Row /\ row.decisionAt = t
          /\ row.token = tok \/ row.token = ledger[i].token
      BY <3>1, <3>2, LabelShape, LabelledRow
    <3>4. ledger' = [ledger EXCEPT ![i] = row]
      BY <2>3, <2>5, <3>2 DEF label
    <3>5. Sound(i, row)'
      BY <2>2, <2>3, <3>1, <3>3 DEF Sound
    <3> QED
      BY <1>1, <2>3, <3>3, <3>4, <3>5, LedgerFrame
  <2> QED
    BY <2>4, <2>5
<1>9. ASSUME NEW q \in asked, NEW d \in Decisions, NEW a \in Actions, checkDecision(q, d, a)
      PROVE  LedgerTypeOK' /\ LedgerIsSound' /\ issued \subseteq issued' /\ issued' \subseteq Token
  <2>1. PICK l : l = [incident |-> q.incident, hash |-> q.hash, decision |-> d,
                      action |-> Text(q, d, a), at |-> decisions]
    OBVIOUS
  <2>2. issued' = issued \cup ({TokenOf(l)} \ NoRecord) /\ ledger' = ledger
    BY <1>9, <2>1 DEF checkDecision
  <2>3. TokenOf(l) \in Token \cup NoRecord
    BY <2>1, Authority DEF IInv, TypeOK
  <2>4. LedgerTypeOK' /\ LedgerIsSound'
    BY <1>1, <2>2 DEF IInv, LedgerTypeOK, LedgerIsSound, Recorded, Sound, NoRecord
  <2> QED
    BY <1>1, <2>2, <2>3, <2>4
<1>5. ASSUME NEW i \in Incidents, NEW row, ledger[i] # None,
             ledger' = [ledger EXCEPT ![i] = row], row \in Row,
             row.token = ledger[i].token, row.decision = ledger[i].decision,
             row.decisionAt = ledger[i].decisionAt, issued' = issued
      PROVE  LedgerTypeOK' /\ LedgerIsSound' /\ issued \subseteq issued' /\ issued' \subseteq Token
  <2>1. Sound(i, ledger[i])
    BY <1>5 DEF IInv, LedgerIsSound, Recorded
  <2>2. Sound(i, row)'
    BY <1>5, <2>1 DEF Sound
  <2> QED
    BY <1>1, <1>5, <2>2, LedgerFrame
<1>6. ASSUME NEW m \in executions, writeExecution(m)
      PROVE  LedgerTypeOK' /\ LedgerIsSound' /\ issued \subseteq issued' /\ issued' \subseteq Token
  <2>1. m.incident \in Incidents /\ m.status \in Statuses
    BY DEF IInv, TypeOK, Report
  <2>2. CASE ledger[m.incident] = None
    BY <1>1, <1>2, <1>6, <2>2 DEF writeExecution, record_execution, signVars
  <2>3. CASE ledger[m.incident] # None
    <3>1. PICK row : row = [ledger[m.incident] EXCEPT !.execution = m.status]
      OBVIOUS
    <3>2. /\ row \in Row /\ row.token = ledger[m.incident].token
          /\ row.decision = ledger[m.incident].decision
          /\ row.decisionAt = ledger[m.incident].decisionAt
      BY <1>1, <2>1, <2>3, <3>1 DEF Row, NoRecord
    <3>3. ledger' = [ledger EXCEPT ![m.incident] = row] /\ issued' = issued
      BY <1>6, <2>3, <3>1 DEF writeExecution, record_execution, signVars
    <3> QED
      BY <1>5, <2>1, <2>3, <3>2, <3>3
  <2> QED
    BY <2>2, <2>3
<1>7. ASSUME NEW m \in resolutions, writeResolution(m)
      PROVE  LedgerTypeOK' /\ LedgerIsSound' /\ issued \subseteq issued' /\ issued' \subseteq Token
  <2>1. m.incident \in Incidents /\ m.resolved \in BOOLEAN
    BY DEF IInv, TypeOK, Label
  <2>2. CASE ledger[m.incident] = None
    BY <1>1, <1>2, <1>7, <2>2 DEF writeResolution, record_resolution, signVars
  <2>3. CASE ledger[m.incident] # None
    <3>1. PICK row : row = [ledger[m.incident] EXCEPT !.resolved = m.resolved]
      OBVIOUS
    <3>2. /\ row \in Row /\ row.token = ledger[m.incident].token
          /\ row.decision = ledger[m.incident].decision
          /\ row.decisionAt = ledger[m.incident].decisionAt
      BY <1>1, <2>1, <2>3, <3>1 DEF Row, NoRecord
    <3>3. ledger' = [ledger EXCEPT ![m.incident] = row] /\ issued' = issued
      BY <1>7, <2>3, <3>1 DEF writeResolution, record_resolution, signVars
    <3> QED
      BY <1>5, <2>1, <2>3, <3>2, <3>3
  <2> QED
    BY <2>2, <2>3
<1>8. CASE \/ Watch \/ RunOnce \/ Restart
           \/ \E c \in contracts : loseContract(c)
           \/ \E m \in executions : checkExecution(m) \/ loseExecution(m)
           \/ \E m \in resolutions : checkResolution(m)
           \/ \E i \in tracking, resolved \in BOOLEAN : Track(i, resolved)
           \/ UNCHANGED vars
  BY <1>2, <1>8 DEF Watch, markNew, collect, collectFails, giveUp, Remember, RunOnce, poll, handle, rest, report, reported,
        apply, Restart, loseContract, checkExecution, loseExecution, checkResolution, Track,
        vars, watchVars, runVars, wireVars, signVars, boundVars
<1> QED
  BY <1>3, <1>4, <1>6, <1>7, <1>8, <1>9, Zenon DEF Next, Brain, Decide

-----------------------------------------------------------------------------
(* What is about to be applied is a patch that a signed token authorises   *)
(* (Runner.handle, approval.Verify).                                       *)
LEMMA PatchIsAuthorised ==
    ASSUME IInv, runner.pc = "apply"
    PROVE  LET p == PatchOf(runner.inc) IN
           /\ execute /\ p \in Patch
           /\ p.action \in Executable /\ p.token \in issued
           /\ p.token.incident = p.incident /\ p.token.hash = p.hash
           /\ p.token.decision = p.decision /\ p.token.action = p.action
<1>1. PICK inc \in Approval : inc = runner.inc
  BY RunnerShape DEF IInv, Busy
<1>2. inc.incident \in Incidents /\ inc.row \in Row
  BY DEF Approval
<1>3. execute /\ Verify(inc) /\ inc.row.decisionAction \in Executable /\ Sound(inc.incident, inc.row)
  BY <1>1 DEF IInv, ApplyIsAuthorised, RunnerIsSound, Busy
<1>4. /\ inc.row.decision \in Authorises /\ inc.row.decisionAction \in Actions
      /\ inc.row.hash \in Hashes /\ inc.row.decisionAt \in Nat
      /\ inc.row.decision \in Decisions
  BY <1>2, <1>3, RemediationAssumption, LedgerAssumption
     DEF Verify, Sound, Row, Authorises, Decisions, Human
<1>5. PICK tok :
          /\ tok = sign(inc.incident, inc.row.hash, inc.row.decision,
                        inc.row.decisionAction, inc.row.decisionAt)
          /\ tok \in Token
          /\ tok.incident = inc.incident /\ tok.hash = inc.row.hash
          /\ tok.decision = inc.row.decision /\ tok.action = inc.row.decisionAction
  <2>1. PICK tok : tok = sign(inc.incident, inc.row.hash, inc.row.decision,
                              inc.row.decisionAction, inc.row.decisionAt)
    OBVIOUS
  <2>2. /\ tok \in Token
        /\ tok.incident = inc.incident /\ tok.hash = inc.row.hash
        /\ tok.decision = inc.row.decision /\ tok.action = inc.row.decisionAction
    BY <1>2, <1>4, <2>1 DEF sign, Token
  <2> QED
    BY <2>1, <2>2
<1>6. inc.row.token = tok /\ tok \in issued
  <2>1. inc.row.token = tok
    BY <1>3, <1>5, Zenon DEF Verify
  <2>2. tok # None
    BY <1>5, LedgerAssumption
  <2> QED
    BY <1>3, <2>1, <2>2 DEF Sound, NoRecord
<1> QED
  BY <1>1, <1>2, <1>3, <1>4, <1>5, <1>6 DEF PatchOf, Patch

(* What steps do to the runner.                                            *)
LEMMA RunnerStep ==
    ASSUME IInv, [Next]_vars
    PROVE  runner' \in Runner /\ RunnerIsSound' /\ ApplyIsAuthorised'
<1>1. TypeOK /\ runner \in Runner /\ RunnerIsSound /\ issued \subseteq issued'
  BY LedgerStep DEF IInv, TypeOK
<1>2. \A i, row : Sound(i, row) => Sound(i, row)'
  BY <1>1 DEF Sound, NoRecord
<1>3. ASSUME runner' = runner, execute' = execute
      PROVE  runner' \in Runner /\ RunnerIsSound' /\ ApplyIsAuthorised'
  <2>1. RunnerIsSound'
    BY <1>1, <1>2, <1>3 DEF RunnerIsSound, Busy
  <2>2. ApplyIsAuthorised'
    BY <1>3 DEF IInv, ApplyIsAuthorised, Verify
  <2> QED
    BY <1>1, <1>3, <2>1, <2>2
<1>4. ASSUME runner' \in [pc: {"idle"}]
      PROVE  runner' \in Runner /\ RunnerIsSound' /\ ApplyIsAuthorised'
  BY <1>4 DEF Runner, RunnerIsSound, Busy, ApplyIsAuthorised
<1>5. CASE poll
  <2>1. PICK todo : todo = {[incident |-> i, row |-> ledger[i]] : i \in approved(execute)}
    OBVIOUS
  <2>2. /\ todo \subseteq Approval
        /\ \A inc \in todo : Sound(inc.incident, inc.row)
    BY <2>1 DEF approved, Authorised, Recorded, Approval, IInv, TypeOK, LedgerTypeOK,
               NoRecord, LedgerIsSound
  <2>3. runner' = [pc |-> "handle", todo |-> todo]
    BY <1>5, <2>1 DEF poll
  <2> QED
    BY <1>2, <2>2, <2>3 DEF Runner, RunnerIsSound, Busy, ApplyIsAuthorised
<1>6. CASE handle
  <2>1. PICK inc, status :
            /\ inc \in runner.todo /\ status = Answer(inc)
            /\ runner' = [pc |-> IF status = "executed" THEN "apply" ELSE "report",
                          todo |-> runner.todo \ {inc}, inc |-> inc, status |-> status]
    BY <1>6 DEF handle
  <2>2. /\ runner.pc = "handle" /\ execute' = execute
    BY <1>6 DEF handle
  <2>3. /\ runner.todo \subseteq Approval /\ inc \in Approval
        /\ \A k \in runner.todo : Sound(k.incident, k.row)
    BY <1>1, <2>1, <2>2, RunnerShape DEF RunnerIsSound
  <2>4. /\ status \in Statuses
        /\ status = "executed" =>
              execute /\ Verify(inc) /\ inc.row.decisionAction \in Executable
    BY <2>1 DEF Answer, Statuses, Terminal
  <2>5. PICK pc : pc = IF status = "executed" THEN "apply" ELSE "report"
    OBVIOUS
  <2>6. runner' = [pc |-> pc, todo |-> runner.todo \ {inc}, inc |-> inc, status |-> status]
    BY <2>1, <2>5
  <2>7. runner' \in Runner
    BY <2>3, <2>4, <2>5, <2>6 DEF Runner
  <2>8. RunnerIsSound'
    BY <1>2, <2>1, <2>3, <2>6 DEF RunnerIsSound, Busy
  <2>9. ApplyIsAuthorised'
    BY <2>2, <2>4, <2>5, <2>6 DEF ApplyIsAuthorised, Verify
  <2> QED
    BY <2>7, <2>8, <2>9
<1>7. CASE report \/ \E status \in {"executed", "failed"} : apply(status)
  <2>1. PICK pc \in {"report", "await"}, status \in Statuses :
            /\ Busy
            /\ runner' = [pc |-> pc, todo |-> runner.todo, inc |-> runner.inc,
                          status |-> status]
    <3>1. CASE report
      BY <1>1, <3>1, RunnerShape DEF report, Busy
    <3>2. CASE \E status \in {"executed", "failed"} : apply(status)
      BY <1>1, <3>2, RunnerShape DEF apply, Busy, Statuses, Terminal
    <3> QED
      BY <1>7, <3>1, <3>2
  <2>2. /\ runner.todo \subseteq Approval /\ runner.inc \in Approval
        /\ \A k \in runner.todo : Sound(k.incident, k.row)
        /\ Sound(runner.inc.incident, runner.inc.row)
    BY <1>1, <2>1, RunnerShape DEF RunnerIsSound, Busy
  <2> QED
    BY <1>2, <2>1, <2>2 DEF Runner, RunnerIsSound, Busy, ApplyIsAuthorised
<1>8. CASE reported
  <2>1. runner.pc = "await" /\ runner' = [pc |-> "handle", todo |-> runner.todo]
    BY <1>8 DEF reported
  <2>2. runner.todo \subseteq Approval /\ \A k \in runner.todo : Sound(k.incident, k.row)
    BY <1>1, <2>1, RunnerShape DEF RunnerIsSound
  <2> QED
    BY <1>2, <2>1, <2>2 DEF Runner, RunnerIsSound, Busy, ApplyIsAuthorised
<1>9. CASE rest \/ Restart
  BY <1>4, <1>9 DEF rest, Restart, Idle
<1>10. CASE \/ Watch \/ Brain
            \/ Decide
            \/ \E i \in tracking, resolved \in BOOLEAN : Track(i, resolved)
            \/ UNCHANGED vars
  <2>1. runner' = runner /\ execute' = execute
    BY <1>10 DEF Watch, markNew, collect, collectFails, giveUp, Remember, Brain, loseContract, diagnose, checkExecution,
          writeExecution, loseExecution, checkResolution, writeResolution, Decide, checkDecision, writeDecision, Track,
          vars, watchVars, runVars, wireVars, signVars, boundVars
  <2> QED
    BY <1>3, <2>1
<1> QED
  BY <1>5, <1>6, <1>7, <1>8, <1>9, <1>10, Zenon DEF Next, RunOnce

(* What steps do to the decisions under way (Ledger.label).                *)
LEMMA LabelsStep ==
    ASSUME IInv, [Next]_vars
    PROVE  deciding' \subseteq Answered /\ LabelsAreSound'
<1>1. TypeOK /\ LabelsAreSound /\ issued \subseteq issued'
  BY LedgerStep DEF IInv
<1>2. CASE deciding' \subseteq deciding
  BY <1>1, <1>2 DEF TypeOK, LabelsAreSound, TokenOf, sign
<1>3. ASSUME NEW q \in asked, NEW d \in Decisions, NEW a \in Actions, checkDecision(q, d, a)
      PROVE  deciding' \subseteq Answered /\ LabelsAreSound'
  <2>1. PICK l : l = [incident |-> q.incident, hash |-> q.hash, decision |-> d,
                      action |-> Text(q, d, a), at |-> decisions]
    OBVIOUS
  <2>2. /\ deciding' = deciding \cup {l}
        /\ issued' = issued \cup ({TokenOf(l)} \ NoRecord)
    BY <1>3, <2>1 DEF checkDecision
  <2>3. /\ l \in Answered /\ l.decision = d
        /\ d \in Authorises => l.action \in Actions /\ TokenOf(l) \in Token
    BY <1>1, <2>1, Authority DEF TypeOK
  <2>4. d \in Authorises => TokenOf(l) \in issued'
    BY <2>2, <2>3, LedgerAssumption DEF NoRecord
  <2>5. LabelsAreSound'
    BY <1>1, <2>2, <2>3, <2>4 DEF LabelsAreSound, TokenOf, sign
  <2> QED
    BY <1>1, <2>2, <2>3, <2>5 DEF TypeOK
<1>4. CASE ~ \E q \in asked, d \in Decisions, a \in Actions : checkDecision(q, d, a)
  <2>1. deciding' \subseteq deciding
    BY <1>4 DEF Next, Watch, markNew, collect, collectFails, giveUp, Remember, RunOnce, poll,
          handle, rest, report, reported, apply, Brain, loseContract, diagnose,
          checkExecution, writeExecution, loseExecution, checkResolution, writeResolution,
          Decide, writeDecision, Track, Restart, vars, signVars
  <2> QED
    BY <1>2, <2>1
<1> QED
  BY <1>3, <1>4

(* What steps do to the watcher and its contracts (watch, emitOne).        *)
LEMMA WatchStep ==
    ASSUME IInv, [Next]_vars
    PROVE  /\ seen' \subseteq Incidents /\ dropped' \subseteq Incidents
           /\ watcher' \in Watcher
           /\ contracts' \subseteq Contract
           /\ known' \in [Incidents -> Hashes \cup NoRecord]
           /\ asked' \subseteq Question
<1>1. TypeOK /\ watcher \in Watcher
  BY DEF IInv, TypeOK
<1>2. \A c \in contracts : /\ c.incident \in Incidents /\ c.hash \in Hashes
                           /\ [c EXCEPT !.waiting = FALSE] \in Contract
  BY <1>1 DEF TypeOK, Contract
<1>3. Unawaited \subseteq Contract
  BY <1>2 DEF Unawaited
<1>4. /\ watcher.pc \in {"collect", "await"} =>
             watcher.incident \in Incidents /\ [watcher EXCEPT !.pc = "await"] \in Watcher
      /\ watcher.pc = "answered" => watcher.incident \in Incidents /\ watcher.hash \in Hashes
      /\ Idle \in Watcher
  BY <1>1 DEF Watcher, Idle
<1>5. ASSUME NEW i \in Incidents, markNew(i)
      PROVE  /\ seen' \subseteq Incidents /\ dropped' \subseteq Incidents
             /\ watcher' \in Watcher /\ UNCHANGED <<contracts, known, asked>>
  BY <1>1, <1>5 DEF markNew, TypeOK, Watcher
<1>6. ASSUME NEW h \in Hashes, collect(h)
      PROVE  /\ contracts' \subseteq Contract /\ watcher' \in Watcher
             /\ UNCHANGED <<seen, dropped, known, asked>>
  <2>1. [incident |-> watcher.incident, hash |-> h, waiting |-> TRUE] \in Contract
    BY <1>4, <1>6 DEF collect, Contract
  <2> QED
    BY <1>1, <1>4, <1>6, <2>1 DEF collect, TypeOK
<1>7. ASSUME NEW c \in contracts, NEW a \in Actions \cup NoRecord, diagnose(c, a)
      PROVE  /\ contracts' \subseteq Contract /\ watcher' \in Watcher /\ asked' \subseteq Question
             /\ UNCHANGED <<seen, dropped, known>>
  <2>1. Reply(c) \in Watcher
    BY <1>1, <1>2 DEF Reply, Watcher
  <2>2. Raised(c, a) \subseteq Question
    <3>1. c.incident \in Incidents /\ c.hash \in Hashes /\ {a} \ NoRecord \subseteq Actions
      BY <1>2 DEF NoRecord
    <3>2. \A b \in Actions :
              [incident |-> c.incident, hash |-> c.hash, action |-> b] \in Question
      BY <3>1 DEF Question
    <3> QED
      BY <3>1, <3>2, Zenon DEF Raised
  <2> QED
    BY <1>1, <1>7, <2>1, <2>2 DEF diagnose, TypeOK
<1>8. CASE collectFails \/ giveUp \/ Remember \/ Restart \/ \E c \in contracts : loseContract(c)
  <2>1. /\ seen' \subseteq Incidents /\ dropped' \subseteq Incidents /\ watcher' \in Watcher
        /\ contracts' \subseteq Contract /\ asked' = asked
    BY <1>1, <1>2, <1>3, <1>4, <1>8 DEF collectFails, giveUp, Remember, Restart, loseContract,
          TypeOK
  <2>2. known' \in [Incidents -> Hashes \cup NoRecord]
    BY <1>1, <1>4, <1>8 DEF collectFails, giveUp, Remember, Restart, loseContract, TypeOK,
          NoRecord
  <2> QED
    BY <1>1, <2>1, <2>2 DEF TypeOK
<1>9. CASE \/ RunOnce \/ Decide \/ UNCHANGED vars
           \/ \E m \in executions : checkExecution(m) \/ writeExecution(m) \/ loseExecution(m)
           \/ \E m \in resolutions : checkResolution(m) \/ writeResolution(m)
           \/ \E i \in tracking, resolved \in BOOLEAN : Track(i, resolved)
  <2>1. UNCHANGED watchVars
    BY <1>9 DEF RunOnce, poll, handle, rest, report, reported, apply, Decide, checkDecision,
          writeDecision, checkExecution, writeExecution, loseExecution, checkResolution,
          writeResolution, Track, vars
  <2> QED
    BY <1>1, <2>1 DEF TypeOK, watchVars
<1>10. /\ \A i \in Incidents : markNew(i) => UNCHANGED <<contracts, known, asked>>
       /\ known \in [Incidents -> Hashes \cup NoRecord] /\ seen \subseteq Incidents
       /\ contracts \subseteq Contract /\ asked \subseteq Question /\ dropped \subseteq Incidents
  BY <1>1, <1>5 DEF TypeOK
<1>11. CASE \E i \in Incidents : markNew(i)
  BY <1>5, <1>10, <1>11
<1>12. CASE \E h \in Hashes : collect(h)
  BY <1>6, <1>10, <1>12
<1>13. CASE \E c \in contracts, a \in Actions \cup NoRecord : diagnose(c, a)
  BY <1>7, <1>10, <1>13
<1> QED
  BY <1>8, <1>9, <1>11, <1>12, <1>13, Zenon DEF Next, Watch, Brain

(* What steps do to everything else.                                       *)
LEMMA OthersStep ==
    ASSUME IInv, [Next]_vars
    PROVE  /\ execute' \in BOOLEAN
           /\ executions' \subseteq Report
           /\ tracking' \subseteq Incidents
           /\ resolutions' \subseteq Label
           /\ patches' \in Seq(Patch) /\ PatchesAreSound'
           /\ overruled' \subseteq Incidents
           /\ decisions' \in Nat /\ losses' \in Nat /\ restarts' \in Nat
<1>1. TypeOK /\ patches \in Seq(Patch) /\ PatchesAreSound
  BY DEF IInv, TypeOK
<1>2. \A l \in deciding : l.incident \in Incidents
  BY LabelShape
<1>3. \A m \in executions : [m EXCEPT !.checked = TRUE] \in Report
  BY <1>1 DEF TypeOK, Report
<1>4. \A m \in resolutions : [m EXCEPT !.checked = TRUE] \in Label
  BY <1>1 DEF TypeOK, Label
<1>5. runner.pc = "report" =>
          [incident |-> runner.inc.incident, status |-> runner.status, checked |-> FALSE]
             \in Report
  BY <1>1, RunnerShape DEF Busy, Approval, Report
<1>6. runner.pc = "await" => runner.inc.incident \in Incidents
  BY <1>1, RunnerShape DEF Busy, Approval
<1>7. \A i \in tracking, resolved \in BOOLEAN :
          [incident |-> i, resolved |-> resolved, checked |-> FALSE] \in Label
  BY <1>1 DEF TypeOK, Label
<1>8. execute' \in BOOLEAN
  <2>1. execute' = execute \/ Restart
    BY DEF Next, Watch, markNew, collect, collectFails, giveUp, Remember, RunOnce,
          poll, handle, rest, report, reported, apply, Brain, loseContract, diagnose,
          checkExecution, writeExecution, loseExecution, checkResolution, writeResolution,
          Decide, checkDecision, writeDecision, Track, vars, runVars
  <2> QED
    BY <1>1, <2>1 DEF TypeOK, Restart
<1>14. decisions' \in Nat /\ losses' \in Nat /\ restarts' \in Nat
  <2>1. /\ decisions' \in {decisions, decisions + 1}
        /\ losses' \in {losses, losses + 1}
        /\ restarts' \in {restarts, restarts + 1}
    BY DEF Next, Watch, markNew, collect, collectFails, giveUp, Remember, RunOnce,
          poll, handle, rest, report, reported, apply, Brain, loseContract, diagnose,
          checkExecution, writeExecution, loseExecution, checkResolution, writeResolution,
          Decide, checkDecision, writeDecision, Track, Restart, vars, boundVars
  <2> QED
    BY <1>1, <2>1 DEF TypeOK
<1>9. overruled' \subseteq Incidents
  <2>1. overruled' = overruled \/ \E l \in deciding, delay \in Delays : writeDecision(l, delay)
    BY DEF Next, Watch, markNew, collect, collectFails, giveUp, Remember, RunOnce,
          poll, handle, rest, report, reported, apply, Brain, loseContract, diagnose,
          checkExecution, writeExecution, loseExecution, checkResolution, writeResolution,
          Decide, checkDecision, Track, Restart, vars, signVars
  <2> QED
    BY <1>1, <1>2, <2>1 DEF TypeOK, writeDecision
<1>10. executions' \subseteq Report
  BY <1>1, <1>3, <1>5 DEF TypeOK, Next, Watch, markNew, collect, collectFails, giveUp,
        Remember, RunOnce, poll, handle, rest, report, reported, apply, Brain, loseContract,
        diagnose, checkExecution, writeExecution, loseExecution, checkResolution,
        writeResolution, Decide, checkDecision, writeDecision, Track, Restart, vars, wireVars
<1>11. tracking' \subseteq Incidents
  BY <1>1, <1>6 DEF TypeOK, Next, Watch, markNew, collect, collectFails, giveUp, Remember,
        RunOnce, poll, handle, rest, report, reported, apply, Brain, loseContract, diagnose,
        checkExecution, writeExecution, loseExecution, checkResolution, writeResolution,
        Decide, checkDecision, writeDecision, Track, Restart, vars, runVars
<1>12. resolutions' \subseteq Label
  <2>1. \/ resolutions' = resolutions
        \/ \E i \in tracking, resolved \in BOOLEAN : Track(i, resolved)
        \/ \E m \in resolutions : checkResolution(m) \/ writeResolution(m)
    BY DEF Next, Watch, markNew, collect, collectFails, giveUp, Remember, RunOnce,
          poll, handle, rest, report, reported, apply, Brain, loseContract, diagnose,
          checkExecution, writeExecution, loseExecution, Decide,
          checkDecision, writeDecision, Restart, vars, wireVars
  <2> QED
    BY <1>1, <1>4, <1>7, <2>1 DEF TypeOK, Track, checkResolution, writeResolution
<1>13. patches' \in Seq(Patch) /\ PatchesAreSound'
  <2>1. CASE patches' = patches
    BY <1>1, <2>1 DEF PatchesAreSound
  <2>2. CASE runner.pc = "apply" /\ patches' = Append(patches, PatchOf(runner.inc))
    <3>1. PICK p \in Patch : p = PatchOf(runner.inc) /\ p.token.incident = p.incident
      BY <2>2, PatchIsAuthorised
    <3>2. patches' = Append(patches, p)
      BY <2>2, <3>1
    <3>3. /\ patches' \in Seq(Patch) /\ Len(patches') = Len(patches) + 1
          /\ Len(patches) \in Nat
          /\ \A n \in 1 .. Len(patches) : patches'[n] = patches[n]
          /\ patches'[Len(patches) + 1] = p
      BY <1>1, <3>2, AppendProperties, LenProperties
    <3> QED
      BY <1>1, <3>1, <3>3 DEF PatchesAreSound
  <2>3. \/ patches' = patches
        \/ runner.pc = "apply" /\ patches' = Append(patches, PatchOf(runner.inc))
    BY DEF Next, Watch, markNew, collect, collectFails, giveUp, Remember, RunOnce, poll,
          handle, rest, report, reported, apply, Brain, loseContract, diagnose,
          checkExecution, writeExecution, loseExecution, checkResolution, writeResolution,
          Decide, checkDecision, writeDecision, Track, Restart, vars
  <2> QED
    BY <2>1, <2>2, <2>3
<1> QED
  BY <1>8, <1>9, <1>10, <1>11, <1>12, <1>13, <1>14

-----------------------------------------------------------------------------
LEMMA IInvInit == Init => IInv
<1> SUFFICES ASSUME Init PROVE IInv
  OBVIOUS
<1>1. LedgerTypeOK /\ LedgerIsSound
  BY DEF Init, LedgerInit, LedgerTypeOK, LedgerIsSound, Recorded, NoRecord
<1>2. runner \in Runner /\ RunnerIsSound /\ ApplyIsAuthorised
  BY DEF Init, Idle, Runner, RunnerIsSound, Busy, ApplyIsAuthorised
<1>3. patches \in Seq(Patch) /\ PatchesAreSound /\ LabelsAreSound
  BY EmptySeq DEF Init, PatchesAreSound, LabelsAreSound
<1>4. known \in [Incidents -> Hashes \cup NoRecord]
  BY DEF Init, NoRecord
<1>5. watcher \in Watcher
  BY DEF Init, Idle, Watcher
<1> QED
  BY <1>1, <1>2, <1>3, <1>4, <1>5 DEF Init, IInv, TypeOK

LEMMA IInvStep == IInv /\ [Next]_vars => IInv'
BY LedgerStep, LabelsStep, RunnerStep, WatchStep, OthersStep DEF IInv, TypeOK

(* The inductive invariant: every token a row or the runner holds was      *)
(* signed by the brain, and what is about to be applied was verified.      *)
THEOREM Invariance == Spec => []IInv
BY IInvInit, IInvStep, PTL DEF Spec

(* Rows, requests in flight, the runner and the patches have their types.  *)
THEOREM TypeCorrectness == Spec => []TypeOK
<1>1. IInv => TypeOK
  BY DEF IInv
<1> QED
  BY <1>1, Invariance, PTL

(* Nothing is applied but what the brain authorised for exactly that       *)
(* incident and evidence, by an agent that executes, whatever was lost,    *)
(* restarted, diagnosed again or read long before (Runner.handle).         *)
THEOREM AuthorisedSafety == Spec => AppliedWasAuthorised
<1>1. ASSUME IInv, [Next]_vars, Len(patches') > Len(patches)
      PROVE  LET p == patches'[Len(patches')] IN
             /\ execute
             /\ p.action \in Executable
             /\ p.token \in issued
             /\ p.token.incident = p.incident /\ p.token.hash = p.hash
             /\ p.token.decision = p.decision /\ p.token.action = p.action
  <2>1. patches \in Seq(Patch) /\ Len(patches) \in Nat
    BY <1>1, LenProperties DEF IInv, TypeOK
  <2>2. CASE \E status \in {"executed", "failed"} : apply(status)
    <3>1. runner.pc = "apply"
      BY <2>2 DEF apply
    <3>2. patches' = Append(patches, PatchOf(runner.inc))
      BY <1>1, <2>1, <2>2 DEF apply
    <3>3. patches'[Len(patches')] = PatchOf(runner.inc)
      BY <1>1, <2>1, <3>1, <3>2, PatchIsAuthorised, AppendProperties
    <3> QED
      BY <1>1, <3>1, <3>3, PatchIsAuthorised
  <2>3. CASE ~ \E status \in {"executed", "failed"} : apply(status)
    <3>1. patches' = patches
      BY <1>1, <2>3 DEF Next, Watch, markNew, collect, collectFails, giveUp, Remember, RunOnce, poll, handle, rest, report,
            reported, Brain, loseContract, diagnose, checkExecution, writeExecution,
            loseExecution, checkResolution, writeResolution, Decide, checkDecision, writeDecision, Track, Restart, vars
    <3> QED
      BY <1>1, <2>1, <3>1
  <2> QED
    BY <2>2, <2>3
<1>2. IInv /\ [Next]_vars =>
          [Len(patches') > Len(patches) =>
             LET p == patches'[Len(patches')] IN
             /\ execute
             /\ p.action \in Executable
             /\ p.token \in issued
             /\ p.token.incident = p.incident /\ p.token.hash = p.hash
             /\ p.token.decision = p.decision /\ p.token.action = p.action]_vars
  BY <1>1
<1> QED
  BY <1>2, Invariance, PTL DEF Spec, AppliedWasAuthorised

-----------------------------------------------------------------------------
(***************************************************************************)
(* What the ledger says of an approval. Whatever happens, a row, a report  *)
(* or the runner that says executed speaks of an incident that was         *)
(* patched. While the agent does not restart an incident is diagnosed      *)
(* once; as long as its decision is not written over another either,       *)
(* whatever the runner, a report or a patch took from the row is still     *)
(* what the row says, and whether the decision would be applied no longer  *)
(* changes.                                                                *)
(***************************************************************************)
(* What a row says of the decision on it                                   *)
SameDecision(r, s) ==
    /\ r.hash = s.hash /\ r.decision = s.decision /\ r.decisionAt = s.decisionAt
    /\ r.decisionAction = s.decisionAction /\ r.token = s.token

Agrees(inc) ==
    Authorised(inc.incident) /\ SameDecision(inc.row, ledger[inc.incident])

(* Whether the agent applies the row's decision when it comes to it        *)
Would(i) ==
    /\ execute
    /\ Verify([incident |-> i, row |-> ledger[i]])
    /\ ledger[i].decisionAction \in Executable

(* A status the agent may truthfully give of the row's decision            *)
Backed(i, status) ==
    /\ status = "executed" => Applied(ledger[i].token)
    /\ status \in {"proposed", "refused"} => ~Would(i)

(* An incident is sent to the brain once, and diagnosed once               *)
DiagnosedOnce ==
    /\ \A i \in Incidents : Recorded(i) => i \in seen
    /\ \A c \in contracts : c.incident \in seen /\ ~Recorded(c.incident)
    /\ \A c, d \in contracts : c.incident = d.incident => c = d
    /\ watcher.pc = "collect" =>
          /\ watcher.incident \in seen /\ ~Recorded(watcher.incident)
          /\ \A c \in contracts : c.incident # watcher.incident

(* The evidence the agent knows of is the row's                            *)
KnownIsCurrent ==
    /\ watcher.pc = "answered" =>
          Recorded(watcher.incident) /\ ledger[watcher.incident].hash = watcher.hash
    /\ \A i \in Incidents :
          known[i] # None => Recorded(i) /\ ledger[i].hash = known[i]

RowsAreHonest ==
    \A i \in Incidents \ overruled : Recorded(i) /\ ledger[i].execution # None =>
        Authorised(i) /\ Backed(i, ledger[i].execution)

HonestOf(inc) == inc.incident \notin overruled => Agrees(inc)

RunnerIsHonest ==
    /\ runner.pc # "idle" => \A inc \in runner.todo : HonestOf(inc)
    /\ Busy => HonestOf(runner.inc)
    /\ runner.pc \in {"report", "await"} /\ runner.inc.incident \notin overruled =>
          Backed(runner.inc.incident, runner.status)

ReportsAreHonest ==
    \A m \in executions : m.incident \notin overruled =>
        Authorised(m.incident) /\ Backed(m.incident, m.status)

PatchesAreCurrent ==
    \A n \in 1 .. Len(patches) : \A i \in Incidents \ overruled :
        patches[n].incident = i =>
            Authorised(i) /\ Would(i) /\ patches[n].token = ledger[i].token

History ==
    /\ DiagnosedOnce /\ KnownIsCurrent /\ RowsAreHonest /\ RunnerIsHonest
    /\ ReportsAreHonest /\ PatchesAreCurrent

HInv == restarts = 0 => History

(* Who says executed speaks of an incident that was patched                *)
ExecutedIsPatched ==
    /\ \A i \in Incidents :
          Recorded(i) /\ ledger[i].execution = "executed" => Patched(i)
    /\ \A m \in executions : m.status = "executed" => Patched(m.incident)
    /\ runner.pc \in {"report", "await"} /\ runner.status = "executed" =>
          Patched(runner.inc.incident)

-----------------------------------------------------------------------------
(* What a step of the brain does to a row: a diagnosis empties it, a label *)
(* leaves its evidence and its execution, a report only changes the latter.*)
LEMMA RowStep ==
    ASSUME IInv, [Next]_vars, NEW i \in Incidents
    PROVE  \/ ledger'[i] = ledger[i]
           \/ /\ Recorded(i)' /\ ledger'[i].token = None /\ ledger'[i].execution = None
              /\ ledger'[i].decision = None
              /\ \E c \in contracts, a \in Actions \cup NoRecord :
                    diagnose(c, a) /\ c.incident = i
           \/ /\ Recorded(i) /\ Recorded(i)'
              /\ ledger'[i].hash = ledger[i].hash
              /\ ledger'[i].execution = ledger[i].execution
              /\ \E l \in deciding, delay \in Delays :
                    /\ writeDecision(l, delay) /\ l.incident = i
                    /\ ledger'[i].decision = l.decision
                    /\ TokenOf(l) # None => ledger'[i].token = TokenOf(l)
                    /\ TokenOf(l) = None => ledger'[i].token = ledger[i].token
           \/ /\ Recorded(i) /\ Recorded(i)' /\ SameDecision(ledger'[i], ledger[i])
              /\ \/ ledger'[i].execution = ledger[i].execution
                 \/ \E m \in executions : /\ writeExecution(m) /\ m.incident = i
                                          /\ ledger'[i].execution = m.status
<1>1. TypeOK /\ ledger \in [Incidents -> Row \cup NoRecord]
  BY DEF IInv, TypeOK, LedgerTypeOK
<1>2. ASSUME NEW c \in contracts, NEW a \in Actions \cup NoRecord, diagnose(c, a),
             c.incident = i
      PROVE  /\ Recorded(i)' /\ ledger'[i].token = None /\ ledger'[i].execution = None
             /\ ledger'[i].decision = None
  <2>1. ledger'[i] = FreshRow(c.hash, a)
    BY <1>1, <1>2 DEF diagnose, record
  <2>2. FreshRow(c.hash, a) \in Row
    BY <1>1 DEF TypeOK, Contract, FreshRow, Row, NoRecord
  <2>3. ledger'[i] # None
    BY <2>1, <2>2, LedgerAssumption
  <2> QED
    BY <2>1, <2>3 DEF Recorded, FreshRow
<1>3. ASSUME NEW l \in deciding, NEW delay \in Delays, writeDecision(l, delay),
             l.incident = i, Recorded(i)
      PROVE  /\ Recorded(i)'
             /\ ledger'[i].hash = ledger[i].hash
             /\ ledger'[i].execution = ledger[i].execution
             /\ ledger'[i].decision = l.decision
             /\ TokenOf(l) # None => ledger'[i].token = TokenOf(l)
             /\ TokenOf(l) = None => ledger'[i].token = ledger[i].token
  <2>1. PICK t \in Nat : t = l.at + delay
    BY LabelShape, RemediationAssumption
  <2>2. PICK tok \in Token \cup NoRecord : tok = TokenOf(l)
    BY LabelShape
  <2>3. ledger[i] \in Row /\ ledger[i] # None
    BY <1>1, <1>3 DEF Recorded, NoRecord
  <2>4. ledger'[i] = Labelled(ledger[i], l.decision, l.action, tok, t)
    BY <1>1, <1>3, <2>1, <2>2, <2>3 DEF writeDecision, label
  <2>5. /\ ledger'[i] \in Row
        /\ ledger'[i].hash = ledger[i].hash /\ ledger'[i].execution = ledger[i].execution
        /\ ledger'[i].decision = l.decision
        /\ tok # None => ledger'[i].token = tok
        /\ tok = None => ledger'[i].token = ledger[i].token
    BY <2>3, <2>4, LabelShape, LabelledRow
  <2> QED
    BY <2>2, <2>5, LedgerAssumption DEF Recorded
<1>4. ASSUME NEW m \in executions, writeExecution(m), m.incident = i, Recorded(i)
      PROVE  /\ Recorded(i)' /\ SameDecision(ledger'[i], ledger[i])
             /\ ledger'[i].execution = m.status
  <2>1. ledger[i] \in Row /\ m.status \in Statuses
    BY <1>1, <1>4 DEF Recorded, NoRecord, TypeOK, Report
  <2>2. ledger'[i] = [ledger[i] EXCEPT !.execution = m.status]
    BY <1>1, <1>4 DEF writeExecution, record_execution, Recorded
  <2>3. ledger'[i] \in Row
    BY <2>1, <2>2 DEF Row
  <2>4. SameDecision(ledger'[i], ledger[i]) /\ ledger'[i].execution = m.status
    BY <2>1, <2>2 DEF Row, SameDecision
  <2> QED
    BY <2>3, <2>4, LedgerAssumption DEF Recorded
<1>5. ASSUME NEW m \in resolutions, writeResolution(m), m.incident = i, Recorded(i)
      PROVE  /\ Recorded(i)' /\ SameDecision(ledger'[i], ledger[i])
             /\ ledger'[i].execution = ledger[i].execution
  <2>1. ledger[i] \in Row /\ m.resolved \in BOOLEAN
    BY <1>1, <1>5 DEF Recorded, NoRecord, TypeOK, Label
  <2>2. ledger'[i] = [ledger[i] EXCEPT !.resolved = m.resolved]
    BY <1>1, <1>5 DEF writeResolution, record_resolution, Recorded
  <2>3. ledger'[i] \in Row
    BY <2>1, <2>2 DEF Row
  <2>4. SameDecision(ledger'[i], ledger[i]) /\ ledger'[i].execution = ledger[i].execution
    BY <2>1, <2>2 DEF Row, SameDecision
  <2> QED
    BY <2>3, <2>4, LedgerAssumption DEF Recorded
<1>6. CASE \E c \in contracts, a \in Actions \cup NoRecord : diagnose(c, a)
  BY <1>1, <1>2, <1>6 DEF diagnose, record
<1>7. CASE \E l \in deciding, delay \in Delays : writeDecision(l, delay)
  <2>1. PICK l \in deciding, delay \in Delays : writeDecision(l, delay)
    BY <1>7
  <2>2. CASE l.incident = i /\ Recorded(i)
    BY <1>3, <2>1, <2>2
  <2>3. CASE l.incident # i \/ ~Recorded(i)
    BY <1>1, <2>1, <2>3 DEF writeDecision, label, Recorded
  <2> QED
    BY <2>2, <2>3
<1>8. CASE \E m \in executions : writeExecution(m)
  <2>1. PICK m \in executions : writeExecution(m)
    BY <1>8
  <2>2. CASE m.incident = i /\ Recorded(i)
    BY <1>4, <2>1, <2>2
  <2>3. CASE m.incident # i \/ ~Recorded(i)
    BY <1>1, <2>1, <2>3 DEF writeExecution, record_execution, Recorded
  <2> QED
    BY <2>2, <2>3
<1>9. CASE \E m \in resolutions : writeResolution(m)
  <2>1. PICK m \in resolutions : writeResolution(m)
    BY <1>9
  <2>2. CASE m.incident = i /\ Recorded(i)
    BY <1>5, <2>1, <2>2
  <2>3. CASE m.incident # i \/ ~Recorded(i)
    BY <1>1, <2>1, <2>3 DEF writeResolution, record_resolution, Recorded
  <2> QED
    BY <2>2, <2>3
<1>10. CASE \/ Watch \/ RunOnce \/ Restart
            \/ \E q \in asked, d \in Decisions, a \in Actions : checkDecision(q, d, a)
            \/ \E c \in contracts : loseContract(c)
            \/ \E m \in executions : checkExecution(m) \/ loseExecution(m)
            \/ \E m \in resolutions : checkResolution(m)
            \/ \E j \in tracking, resolved \in BOOLEAN : Track(j, resolved)
            \/ UNCHANGED vars
  BY <1>10 DEF Watch, markNew, collect, collectFails, giveUp, Remember, RunOnce, poll, handle,
        rest, report, reported, apply, Restart, checkDecision, loseContract, checkExecution,
        loseExecution, checkResolution, Track, vars
<1> QED
  BY <1>6, <1>7, <1>8, <1>9, <1>10, Zenon DEF Next, Brain, Decide

(* What was applied stays applied: the cluster keeps its history.          *)
LEMMA PatchesStay ==
    ASSUME IInv, [Next]_vars
    PROVE  /\ \A tok : Applied(tok) => Applied(tok)'
           /\ \A i : Patched(i) => Patched(i)'
           /\ \/ patches' = patches
              \/ \E status \in {"executed", "failed"} :
                    /\ apply(status) /\ patches' = Append(patches, PatchOf(runner.inc))
                    /\ Len(patches') = Len(patches) + 1 /\ Len(patches) \in Nat
                    /\ \A n \in 1 .. Len(patches) : patches'[n] = patches[n]
                    /\ patches'[Len(patches) + 1] = PatchOf(runner.inc)
<1>1. patches \in Seq(Patch)
  BY DEF IInv, TypeOK
<1>2. \/ patches' = patches
      \/ \E status \in {"executed", "failed"} :
            apply(status) /\ patches' = Append(patches, PatchOf(runner.inc))
  BY DEF Next, Watch, markNew, collect, collectFails, giveUp, Remember, RunOnce, poll, handle,
        rest, report, reported, apply, Brain, loseContract, diagnose, checkExecution,
        writeExecution, loseExecution, checkResolution, writeResolution, Decide,
        checkDecision, writeDecision, Track, Restart, vars
<1>3. CASE patches' = patches
  BY <1>3 DEF Applied, Patched
<1>4. CASE \E status \in {"executed", "failed"} :
              apply(status) /\ patches' = Append(patches, PatchOf(runner.inc))
  <2>1. PatchOf(runner.inc) \in Patch
    BY <1>4, PatchIsAuthorised DEF apply
  <2>2. /\ Len(patches') = Len(patches) + 1 /\ Len(patches) \in Nat
        /\ \A n \in 1 .. Len(patches) : patches'[n] = patches[n]
        /\ patches'[Len(patches) + 1] = PatchOf(runner.inc)
    BY <1>1, <1>4, <2>1, AppendProperties, LenProperties
  <2> QED
    BY <1>4, <2>2 DEF Applied, Patched
<1> QED
  BY <1>2, <1>3, <1>4

(* An executed status comes from a patch, and goes by way of a report to   *)
(* the row (Runner.execute, Runner.report).                                *)
LEMMA ExecutedStep ==
    ASSUME IInv, ExecutedIsPatched, [Next]_vars
    PROVE  ExecutedIsPatched'
<1>1. TypeOK /\ \A i : Patched(i) => Patched(i)'
  BY PatchesStay DEF IInv
<1>2. ASSUME NEW i \in Incidents, Recorded(i)', ledger'[i].execution = "executed"
      PROVE  Patched(i)'
  <2>1. None # "executed"
    BY LedgerAssumption DEF Statuses, Terminal
  <2>2. CASE ledger'[i] = ledger[i]
    BY <1>1, <1>2, <2>2 DEF ExecutedIsPatched, Recorded
  <2>3. CASE Recorded(i) /\ ledger'[i].execution = ledger[i].execution
    BY <1>1, <1>2, <2>3 DEF ExecutedIsPatched
  <2>4. CASE \E m \in executions : m.incident = i /\ ledger'[i].execution = m.status
    BY <1>1, <1>2, <2>4 DEF ExecutedIsPatched
  <2> QED
    BY <1>2, <2>1, <2>2, <2>3, <2>4, RowStep
<1>3. ASSUME NEW m \in executions', m.status = "executed"
      PROVE  Patched(m.incident)'
  <2>1. CASE report
    <3>1. PICK n : n = [incident |-> runner.inc.incident, status |-> runner.status,
                        checked |-> FALSE]
      OBVIOUS
    <3>2. executions' = executions \cup {n} /\ runner.pc = "report"
      BY <2>1, <3>1 DEF report
    <3>3. n.incident = runner.inc.incident /\ n.status = runner.status
      BY <3>1
    <3> QED
      BY <1>1, <1>3, <3>2, <3>3 DEF ExecutedIsPatched
  <2>2. CASE \E k \in executions : checkExecution(k)
    <3>1. PICK k \in executions : checkExecution(k)
      BY <2>2
    <3>2. PICK n : n = [k EXCEPT !.checked = TRUE]
      OBVIOUS
    <3>3. executions' \subseteq executions \cup {n}
      BY <3>1, <3>2 DEF checkExecution
    <3>4. n.incident = k.incident /\ n.status = k.status
      BY <1>1, <3>2 DEF TypeOK, Report
    <3> QED
      BY <1>1, <1>3, <3>3, <3>4 DEF ExecutedIsPatched
  <2>3. CASE ~report /\ ~ \E k \in executions : checkExecution(k)
    <3>1. executions' \subseteq executions
      BY <2>3 DEF Next, Watch, markNew, collect, collectFails, giveUp, Remember, RunOnce, poll,
            handle, rest, reported, apply, Brain, loseContract, diagnose, writeExecution,
            loseExecution, checkResolution, writeResolution, Decide, checkDecision,
            writeDecision, Track, Restart, vars, wireVars
    <3> QED
      BY <1>1, <1>3, <3>1 DEF ExecutedIsPatched
  <2> QED
    BY <2>1, <2>2, <2>3
<1>4. ASSUME runner'.pc \in {"report", "await"}, runner'.status = "executed"
      PROVE  Patched(runner.inc.incident)'
  <2>1. CASE \E status \in {"executed", "failed"} : apply(status)
    <3>1. PICK status \in {"executed", "failed"} : apply(status)
      BY <2>1
    <3>2. runner' = [pc |-> "report", todo |-> runner.todo, inc |-> runner.inc,
                     status |-> status]
      BY <1>1, <3>1, RunnerShape DEF apply, Busy
    <3>3. status = "executed" /\ runner'.inc = runner.inc
      BY <1>4, <3>2
    <3>4. patches' = Append(patches, PatchOf(runner.inc)) /\ runner.pc = "apply"
      BY <3>1, <3>3 DEF apply
    <3>5. PatchOf(runner.inc) \in Patch /\ PatchOf(runner.inc).incident = runner.inc.incident
      BY <3>4, PatchIsAuthorised DEF PatchOf
    <3>6. /\ Len(patches') = Len(patches) + 1 /\ Len(patches) \in Nat
          /\ patches'[Len(patches) + 1] = PatchOf(runner.inc)
      BY <1>1, <3>4, <3>5, AppendProperties, LenProperties DEF TypeOK
    <3> QED
      BY <3>3, <3>5, <3>6 DEF Patched
  <2>2. CASE report
    <3>1. runner.pc = "report" /\ runner' = [runner EXCEPT !.pc = "await"]
      BY <2>2 DEF report
    <3>2. runner'.inc = runner.inc /\ runner'.status = runner.status
      BY <1>1, <3>1, RunnerShape DEF Busy
    <3> QED
      BY <1>1, <1>4, <3>1, <3>2 DEF ExecutedIsPatched
  <2>3. CASE handle
    BY <1>4, <2>3 DEF handle
  <2>4. CASE runner' = runner
    BY <1>1, <1>4, <2>4 DEF ExecutedIsPatched
  <2>5. CASE poll \/ rest \/ reported \/ Restart
    BY <1>4, <2>5 DEF poll, rest, reported, Restart, Idle
  <2>6. \/ runner' = runner \/ RunOnce \/ Restart
    BY DEF Next, Watch, markNew, collect, collectFails, giveUp, Remember, Brain, loseContract,
          diagnose, checkExecution, writeExecution, loseExecution, checkResolution,
          writeResolution, Decide, checkDecision, writeDecision, Track, vars, runVars
  <2> QED
    BY <2>1, <2>2, <2>3, <2>4, <2>5, <2>6 DEF RunOnce
<1> QED
  BY <1>2, <1>3, <1>4 DEF ExecutedIsPatched

(* While the agent runs, what an authorised row decides stays until it is  *)
(* overruled.                                                              *)
LEMMA DecisionStays ==
    ASSUME IInv, History, [Next]_vars, ~Restart
    PROVE  /\ execute' = execute /\ overruled \subseteq overruled'
           /\ \A i \in Incidents : Recorded(i) =>
                  Recorded(i)' /\ ledger'[i].hash = ledger[i].hash
           /\ \A i \in Incidents : Authorised(i) /\ i \notin overruled' =>
                  /\ Authorised(i)' /\ SameDecision(ledger'[i], ledger[i])
                  /\ Would(i)' <=> Would(i)
                  /\ \A status : Backed(i, status) => Backed(i, status)'
           /\ \A inc \in Approval : HonestOf(inc) => HonestOf(inc)'
<1>1. execute' = execute /\ overruled \subseteq overruled'
  BY DEF Next, Watch, markNew, collect, collectFails, giveUp, Remember, RunOnce, poll, handle,
        rest, report, reported, apply, Brain, loseContract, diagnose, checkExecution,
        writeExecution, loseExecution, checkResolution, writeResolution, Decide,
        checkDecision, writeDecision, Track, vars, runVars, signVars
<1>2. \A tok : Applied(tok) => Applied(tok)'
  BY PatchesStay
<1>3. \A i \in Incidents, c \in contracts, a \in Actions \cup NoRecord :
          diagnose(c, a) /\ c.incident = i => ~Recorded(i)
  BY DEF History, DiagnosedOnce
<1>4. \A i \in Incidents : Recorded(i) => Recorded(i)' /\ ledger'[i].hash = ledger[i].hash
  BY <1>3, RowStep DEF Recorded, SameDecision
<1>5. ASSUME NEW i \in Incidents, Authorised(i), i \notin overruled'
      PROVE  SameDecision(ledger'[i], ledger[i])
  <2>1. Recorded(i) /\ Decided(i)
    BY <1>5, LedgerAssumption DEF Authorised, Decided, Authorises, Decisions, Human
  <2>2. SameDecision(ledger[i], ledger[i])
    BY DEF SameDecision
  <2>3. \A l \in deciding, delay \in Delays : writeDecision(l, delay) => l.incident # i
    BY <1>5, <2>1 DEF writeDecision
  <2> QED
    BY <1>3, <2>1, <2>2, <2>3, RowStep
<1>6. ASSUME NEW i \in Incidents, Authorised(i), i \notin overruled'
      PROVE  Authorised(i)' /\ (Would(i)' <=> Would(i))
  <2>1. SameDecision(ledger'[i], ledger[i]) /\ Recorded(i)'
    BY <1>4, <1>5, <1>6 DEF Authorised
  <2> QED
    BY <1>1, <1>6, <2>1 DEF Authorised, SameDecision, Would, Verify
<1>7. ASSUME NEW i \in Incidents, Authorised(i), i \notin overruled', NEW status,
             Backed(i, status)
      PROVE  Backed(i, status)'
  <2>1. PICK tok : tok = ledger[i].token
    OBVIOUS
  <2>2. ledger'[i].token = tok
    BY <1>5, <1>7, <2>1 DEF SameDecision
  <2>3. Applied(tok) => Applied(tok)'
    BY <1>2
  <2>4. Applied(ledger[i].token) => Applied(ledger[i].token)'
    BY <2>1, <2>2, <2>3 DEF Applied
  <2> QED
    BY <1>6, <1>7, <2>4 DEF Backed
<1>8. ASSUME NEW inc \in Approval, HonestOf(inc)
      PROVE  HonestOf(inc)'
  <2> SUFFICES ASSUME inc.incident \notin overruled' PROVE Agrees(inc)'
    BY DEF HonestOf
  <2>1. inc.incident \in Incidents /\ Agrees(inc) /\ Authorised(inc.incident)
    BY <1>1, <1>8 DEF Approval, Agrees, HonestOf
  <2> QED
    BY <1>5, <1>6, <2>1 DEF Agrees, SameDecision
<1> QED
  BY <1>1, <1>4, <1>5, <1>6, <1>7, <1>8

(* Every incident is diagnosed once: it is marked once, and its contract   *)
(* is gone when its row is there. What the agent knows of it is that row's *)
(* evidence (watch, emitOne, Runner.Remember).                             *)
LEMMA EvidenceStep ==
    ASSUME IInv, History, [Next]_vars, ~Restart
    PROVE  DiagnosedOnce' /\ KnownIsCurrent'
<1>1. TypeOK /\ DiagnosedOnce /\ KnownIsCurrent
  BY DEF IInv, History
<1>2. /\ \A i \in Incidents : Recorded(i) => Recorded(i)' /\ ledger'[i].hash = ledger[i].hash
      /\ \A c \in contracts : c.incident \in Incidents /\ c.hash \in Hashes
      /\ watcher.pc # "idle" => watcher.incident \in Incidents
      /\ watcher.pc = "collect" =>
            [watcher EXCEPT !.pc = "await"] = [pc |-> "await", incident |-> watcher.incident]
      /\ known \in [Incidents -> Hashes \cup NoRecord]
  BY <1>1, DecisionStays DEF TypeOK, Contract, Watcher
<1>3. ASSUME NEW c \in contracts, NEW a \in Actions \cup NoRecord, diagnose(c, a)
      PROVE  DiagnosedOnce' /\ KnownIsCurrent'
  <2>1. /\ contracts' = contracts \ {c} /\ UNCHANGED <<seen, known>>
        /\ watcher' = Reply(c)
        /\ ledger' = [ledger EXCEPT ![c.incident] = FreshRow(c.hash, a)]
    BY <1>3 DEF diagnose, record
  <2>2. /\ c.incident \in Incidents /\ c.hash \in Hashes
        /\ ledger'[c.incident] = FreshRow(c.hash, a)
        /\ FreshRow(c.hash, a) \in Row
        /\ \A i \in Incidents : i # c.incident => ledger'[i] = ledger[i]
    BY <1>1, <2>1 DEF TypeOK, LedgerTypeOK, Contract, FreshRow, Row, NoRecord
  <2>3. Recorded(c.incident)' /\ ledger'[c.incident].hash = c.hash
    BY <2>1, <2>2, LedgerAssumption DEF Recorded, FreshRow
  <2>4. watcher' = watcher \/ watcher' = [pc |-> "answered", incident |-> c.incident,
                                         hash |-> c.hash]
    BY <2>1 DEF Reply
  <2>5. watcher'.pc = "collect" => watcher' = watcher
    BY <2>4
  <2>6. watcher'.pc = "answered" =>
            \/ watcher' = watcher
            \/ watcher'.incident = c.incident /\ watcher'.hash = c.hash
    BY <2>4
  <2>7. DiagnosedOnce'
    BY <1>1, <1>2, <2>1, <2>2, <2>5 DEF DiagnosedOnce, Recorded
  <2>8. KnownIsCurrent'
    BY <1>1, <1>2, <2>1, <2>3, <2>6 DEF KnownIsCurrent, Recorded
  <2> QED
    BY <2>7, <2>8
<1>4. ASSUME \A c \in contracts, a \in Actions \cup NoRecord : ~diagnose(c, a)
      PROVE  DiagnosedOnce' /\ KnownIsCurrent'
  <2>1. \A i \in Incidents : Recorded(i)' <=> Recorded(i)
    BY <1>4, RowStep DEF Recorded
  <2>2. ASSUME NEW i \in Incidents, markNew(i)
        PROVE  DiagnosedOnce' /\ KnownIsCurrent'
    <3>1. /\ i \notin seen /\ seen' = seen \cup {i} /\ UNCHANGED <<ledger, contracts, known>>
          /\ watcher'.pc = "collect" /\ watcher'.incident = i
      BY <2>2 DEF markNew
    <3> QED
      BY <1>1, <3>1 DEF DiagnosedOnce, KnownIsCurrent, Recorded
  <2>3. ASSUME NEW h \in Hashes, collect(h)
        PROVE  DiagnosedOnce' /\ KnownIsCurrent'
    <3>1. PICK k : k = [incident |-> watcher.incident, hash |-> h, waiting |-> TRUE]
      OBVIOUS
    <3>2. /\ UNCHANGED <<ledger, seen, known>> /\ watcher'.pc = "await"
          /\ watcher.pc = "collect"
          /\ contracts' = contracts \cup {k} /\ k.incident = watcher.incident
      BY <1>2, <2>3, <3>1 DEF collect
    <3> QED
      BY <1>1, <3>2 DEF DiagnosedOnce, KnownIsCurrent, Recorded
  <2>4. CASE Remember
    <3>1. /\ UNCHANGED <<ledger, seen, contracts>> /\ watcher'.pc = "idle"
          /\ watcher.pc = "answered"
          /\ known' = [known EXCEPT ![watcher.incident] = watcher.hash]
      BY <2>4 DEF Remember, Idle
    <3>2. Recorded(watcher.incident) /\ ledger[watcher.incident].hash = watcher.hash
      BY <1>1, <3>1 DEF KnownIsCurrent
    <3>3. \A i \in Incidents : known'[i] # None => Recorded(i) /\ ledger[i].hash = known'[i]
      <4> SUFFICES ASSUME NEW i \in Incidents, known'[i] # None
                   PROVE  Recorded(i) /\ ledger[i].hash = known'[i]
        OBVIOUS
      <4>1. CASE i = watcher.incident
        BY <1>2, <3>1, <3>2, <4>1
      <4>2. CASE i # watcher.incident
        BY <1>1, <1>2, <3>1, <4>2 DEF KnownIsCurrent
      <4> QED
        BY <4>1, <4>2
    <3> QED
      BY <1>1, <3>1, <3>3 DEF DiagnosedOnce, KnownIsCurrent, Recorded
  <2>5. CASE giveUp
    <3>1. /\ UNCHANGED <<ledger, seen, known>> /\ watcher'.pc = "idle"
          /\ contracts' = {[c EXCEPT !.waiting = FALSE] : c \in contracts}
      BY <2>5 DEF giveUp, Idle, Unawaited
    <3>2. \A c \in contracts : [c EXCEPT !.waiting = FALSE].incident = c.incident
      BY <1>1 DEF TypeOK, Contract
    <3>3. \A k \in contracts' : \E c \in contracts :
              k = [c EXCEPT !.waiting = FALSE] /\ k.incident = c.incident
      BY <3>1, <3>2
    <3>4. \A j, k \in contracts' : j.incident = k.incident => j = k
      <4> SUFFICES ASSUME NEW j \in contracts', NEW k \in contracts',
                          j.incident = k.incident
                   PROVE  j = k
        OBVIOUS
      <4>1. PICK c \in contracts : j = [c EXCEPT !.waiting = FALSE] /\ j.incident = c.incident
        BY <3>3
      <4>2. PICK d \in contracts : k = [d EXCEPT !.waiting = FALSE] /\ k.incident = d.incident
        BY <3>3
      <4>3. c = d
        BY <1>1, <4>1, <4>2 DEF DiagnosedOnce
      <4> QED
        BY <4>1, <4>2, <4>3
    <3>5. \A k \in contracts' : k.incident \in seen /\ ~Recorded(k.incident)
      BY <1>1, <3>3 DEF DiagnosedOnce
    <3> QED
      BY <1>1, <3>1, <3>4, <3>5 DEF DiagnosedOnce, KnownIsCurrent, Recorded
  <2>6. CASE collectFails \/ \E c \in contracts : loseContract(c)
    <3>1. /\ contracts' \subseteq contracts /\ UNCHANGED <<ledger, seen, known>>
          /\ watcher' = watcher \/ watcher'.pc = "idle"
      BY <2>6 DEF collectFails, loseContract, Idle
    <3> QED
      BY <1>1, <3>1 DEF DiagnosedOnce, KnownIsCurrent, Recorded
  <2>7. CASE \/ RunOnce \/ Decide \/ UNCHANGED vars
             \/ \E m \in executions : checkExecution(m) \/ writeExecution(m) \/ loseExecution(m)
             \/ \E m \in resolutions : checkResolution(m) \/ writeResolution(m)
             \/ \E i \in tracking, resolved \in BOOLEAN : Track(i, resolved)
    <3>1. UNCHANGED <<seen, watcher, contracts, known>>
      BY <2>7 DEF RunOnce, poll, handle, rest, report, reported, apply, Decide, checkDecision,
            writeDecision, checkExecution, writeExecution, loseExecution, checkResolution,
            writeResolution, Track, vars, watchVars
    <3>2. DiagnosedOnce'
      BY <1>1, <1>2, <2>1, <3>1 DEF DiagnosedOnce
    <3>3. KnownIsCurrent'
      BY <1>1, <1>2, <3>1 DEF KnownIsCurrent
    <3> QED
      BY <3>2, <3>3
  <2>8. CASE \E i \in Incidents : markNew(i)
    BY <2>2, <2>8
  <2>9. CASE \E h \in Hashes : collect(h)
    BY <2>3, <2>9
  <2> QED
    BY <1>4, <2>4, <2>5, <2>6, <2>7, <2>8, <2>9, Zenon DEF Next, Watch, Brain
<1> QED
  BY <1>3, <1>4

(* A verified approval that the runner takes from its list is the one the  *)
(* row holds, so what it answers is what the row would have it do.         *)
LEMMA AnswerIsHonest ==
    ASSUME IInv, History, NEW inc \in Approval, Agrees(inc)
    PROVE  /\ Verify(inc) <=> Verify([incident |-> inc.incident, row |-> ledger[inc.incident]])
           /\ Answer(inc) # "executed" => ~Would(inc.incident)
<1>1. Verify(inc) <=> Verify([incident |-> inc.incident, row |-> ledger[inc.incident]])
  BY DEF Agrees, SameDecision, Verify
<1>2. inc.incident \in Incidents /\ SameEvidence(inc)
  BY DEF Approval, History, KnownIsCurrent, Agrees, SameDecision, SameEvidence
<1>3. inc.row.decisionAction = ledger[inc.incident].decisionAction
  BY DEF Agrees, SameDecision
<1> QED
  BY <1>1, <1>2, <1>3 DEF Answer, Would

(* What the row says of a decision nobody overruled is true of it: while   *)
(* the row was not decided no agent had it (record_execution, label).      *)
LEMMA RowsStep ==
    ASSUME IInv, History, [Next]_vars, ~Restart
    PROVE  RowsAreHonest'
<1> SUFFICES ASSUME NEW i \in Incidents, i \notin overruled', Recorded(i)',
                    ledger'[i].execution # None
             PROVE  Authorised(i)' /\ Backed(i, ledger[i].execution)'
  BY DEF RowsAreHonest
<1>1. i \notin overruled
  BY DecisionStays
<1>2. Recorded(i) /\ ledger[i].execution # None =>
          Authorised(i) /\ Backed(i, ledger[i].execution)
  BY <1>1 DEF History, RowsAreHonest
<1>3. Authorised(i) => /\ Authorised(i)'
                       /\ \A status : Backed(i, status) => Backed(i, status)'
  BY DecisionStays
<1>4. \A status : ledger'[i].execution = status /\ Authorised(i) /\ Backed(i, status) =>
          Authorised(i)' /\ Backed(i, ledger[i].execution)'
  BY <1>3 DEF Backed
<1>5. CASE ledger'[i] = ledger[i]
  BY <1>2, <1>4, <1>5 DEF Recorded
<1>6. CASE /\ Recorded(i) /\ ledger'[i].execution = ledger[i].execution
           /\ \E l \in deciding, delay \in Delays : writeDecision(l, delay) /\ l.incident = i
  <2>1. ~Decided(i)
    BY <1>6 DEF writeDecision
  <2>2. ~Authorised(i)
    BY <2>1, LedgerAssumption DEF Authorised, Decided, Authorises, Decisions, Human
  <2> QED
    BY <1>2, <1>6, <2>2
<1>7. CASE Recorded(i) /\ ledger'[i].execution = ledger[i].execution /\ Authorised(i)
  BY <1>2, <1>4, <1>7
<1>8. CASE /\ Recorded(i) /\ SameDecision(ledger'[i], ledger[i])
           /\ ledger'[i].execution = ledger[i].execution
  BY <1>2, <1>4, <1>8
<1>9. CASE /\ Recorded(i)
           /\ \E m \in executions : m.incident = i /\ ledger'[i].execution = m.status
  <2>1. PICK m \in executions : m.incident = i /\ ledger'[i].execution = m.status
    BY <1>9
  <2>2. Authorised(i) /\ Backed(i, m.status)
    BY <1>1, <2>1 DEF History, ReportsAreHonest
  <2> QED
    BY <1>4, <2>1, <2>2
<1> QED
  BY <1>5, <1>6, <1>8, <1>9, RowStep

(* What the runner holds of a row nobody overruled is what the row says,   *)
(* and its statuses are true of it (Runner.RunOnce).                       *)
LEMMA RunnerHonestStep ==
    ASSUME IInv, History, [Next]_vars, ~Restart
    PROVE  RunnerIsHonest'
<1>1. TypeOK /\ RunnerIsHonest
  BY DEF IInv, History
<1>2. /\ \A inc \in Approval : HonestOf(inc) => HonestOf(inc)'
      /\ overruled \subseteq overruled'
      /\ \A i \in Incidents : Authorised(i) /\ i \notin overruled' =>
             \A status : Backed(i, status) => Backed(i, status)'
  BY DecisionStays
<1>3. \A inc \in Approval : \A status :
          inc.incident \notin overruled' /\ HonestOf(inc) /\ Backed(inc.incident, status) =>
              Backed(inc.incident, status)'
  BY <1>2 DEF Approval, HonestOf, Agrees
<1>4. CASE runner' = runner
  <2>1. runner.pc # "idle" => \A k \in runner.todo : HonestOf(k)'
    BY <1>1, <1>2, RunnerShape DEF RunnerIsHonest
  <2>2. PICK inc, status : inc = runner.inc /\ status = runner.status
    OBVIOUS
  <2>3. Busy => inc \in Approval /\ HonestOf(inc)
    BY <1>1, <2>2, RunnerShape DEF RunnerIsHonest
  <2>4. Busy => HonestOf(inc)'
    BY <1>2, <2>3
  <2>5. runner.pc \in {"report", "await"} /\ inc.incident \notin overruled =>
            Backed(inc.incident, status)
    BY <1>1, <2>2 DEF RunnerIsHonest
  <2>6. runner.pc \in {"report", "await"} /\ inc.incident \notin overruled' =>
            Backed(inc.incident, status)'
    BY <1>2, <1>3, <2>3, <2>5 DEF Busy
  <2>7. runner'.inc = inc /\ runner'.status = status
    BY <1>4, <2>2
  <2> QED
    BY <1>4, <2>1, <2>4, <2>6, <2>7 DEF RunnerIsHonest, Busy
<1>5. CASE poll
  <2>1. PICK todo : todo = {[incident |-> i, row |-> ledger[i]] : i \in approved(execute)}
    OBVIOUS
  <2>2. /\ runner' = [pc |-> "handle", todo |-> todo]
        /\ ledger' = ledger /\ overruled' = overruled
    BY <1>5, <2>1 DEF poll, signVars
  <2>3. \A inc \in todo : Agrees(inc)
    BY <2>1 DEF approved, Agrees, SameDecision
  <2>4. \A inc \in todo : HonestOf(inc)'
    BY <2>2, <2>3 DEF HonestOf, Agrees, Authorised, Recorded
  <2> QED
    BY <2>2, <2>4 DEF RunnerIsHonest, Busy
<1>6. CASE handle
  <2>1. PICK inc, status :
            /\ inc \in runner.todo /\ status = Answer(inc)
            /\ runner' = [pc |-> IF status = "executed" THEN "apply" ELSE "report",
                          todo |-> runner.todo \ {inc}, inc |-> inc, status |-> status]
    BY <1>6 DEF handle
  <2>2. /\ runner.pc = "handle" /\ inc \in Approval /\ runner.todo \subseteq Approval
        /\ \A k \in runner.todo : HonestOf(k)
    BY <1>1, <1>6, <2>1, RunnerShape DEF handle, RunnerIsHonest
  <2>3. inc.incident \notin overruled /\ status # "executed" => Backed(inc.incident, status)
    BY <2>1, <2>2, AnswerIsHonest DEF Backed, HonestOf
  <2>4. PICK pc : pc = IF status = "executed" THEN "apply" ELSE "report"
    OBVIOUS
  <2>5. runner' = [pc |-> pc, todo |-> runner.todo \ {inc}, inc |-> inc, status |-> status]
    BY <2>1, <2>4
  <2>6. HonestOf(inc)' /\ (\A k \in runner.todo : HonestOf(k)')
    BY <1>2, <2>1, <2>2
  <2>7. status # "executed" /\ inc.incident \notin overruled' => Backed(inc.incident, status)'
    BY <1>2, <1>3, <2>1, <2>2, <2>3
  <2> QED
    BY <2>4, <2>5, <2>6, <2>7 DEF RunnerIsHonest, Busy, HonestOf, Agrees, Backed
<1>7. CASE report \/ \E status \in {"executed", "failed"} : apply(status)
  <2>1. Busy /\ runner.inc \in Approval /\ runner.todo \subseteq Approval
        /\ HonestOf(runner.inc) /\ \A k \in runner.todo : HonestOf(k)
    BY <1>1, <1>7, RunnerShape DEF report, apply, Busy, RunnerIsHonest
  <2>2. PICK inc \in Approval : inc = runner.inc
    BY <2>1
  <2>3. PICK pc \in {"report", "await"}, status \in Statuses :
            /\ runner' = [pc |-> pc, todo |-> runner.todo, inc |-> inc, status |-> status]
            /\ inc.incident \notin overruled' => Backed(inc.incident, status)'
    <3>1. CASE report
      <4>1. PICK status \in Statuses : status = runner.status
        BY <1>1, <2>1, RunnerShape
      <4>2. runner' = [pc |-> "await", todo |-> runner.todo, inc |-> inc,
                       status |-> status]
            /\ runner.pc = "report"
        BY <1>1, <2>2, <3>1, <4>1, RunnerShape DEF report, Busy
      <4>3. inc.incident \notin overruled => Backed(inc.incident, status)
        BY <1>1, <2>2, <4>1, <4>2 DEF RunnerIsHonest
      <4>4. inc.incident \notin overruled' => Backed(inc.incident, status)'
        BY <1>2, <1>3, <2>1, <2>2, <4>3
      <4> QED
        BY <4>1, <4>2, <4>4
    <3>2. ASSUME NEW status \in {"executed", "failed"}, apply(status)
          PROVE  /\ runner' = [pc |-> "report", todo |-> runner.todo, inc |-> inc,
                               status |-> status]
                 /\ inc.incident \notin overruled' => Backed(inc.incident, status)'
                 /\ status \in Statuses
      <4>1. runner' = [pc |-> "report", todo |-> runner.todo, inc |-> inc,
                       status |-> status]
            /\ runner.pc = "apply" /\ ledger' = ledger /\ overruled' = overruled
        BY <1>1, <2>2, <3>2, RunnerShape DEF apply, Busy, signVars
      <4>2. status = "executed" /\ inc.incident \notin overruled =>
                Applied(ledger[inc.incident].token)'
        <5>1. SUFFICES ASSUME status = "executed", inc.incident \notin overruled
                       PROVE  \E n \in 1 .. Len(patches') :
                                  patches'[n].token = ledger'[inc.incident].token
          BY DEF Applied
        <5>2. patches' = Append(patches, PatchOf(inc)) /\ PatchOf(inc) \in Patch
              /\ patches \in Seq(Patch)
          BY <1>1, <2>2, <3>2, <4>1, <5>1, PatchIsAuthorised DEF apply, TypeOK
        <5>3. Len(patches') = Len(patches) + 1 /\ patches'[Len(patches) + 1] = PatchOf(inc)
              /\ Len(patches) \in Nat
          BY <5>2, AppendProperties, LenProperties
        <5>4. PatchOf(inc).token = ledger[inc.incident].token
          BY <2>1, <2>2, <5>1 DEF PatchOf, HonestOf, Agrees, SameDecision
        <5> QED
          BY <4>1, <5>3, <5>4
      <4> QED
        BY <4>1, <4>2 DEF Backed, Statuses, Terminal
    <3> QED
      BY <1>7, <3>1, <3>2
  <2>4. HonestOf(inc)' /\ \A k \in runner.todo : HonestOf(k)'
    BY <1>2, <2>1, <2>2
  <2> QED
    BY <2>3, <2>4 DEF RunnerIsHonest, Busy, HonestOf, Agrees, Backed
<1>8. CASE reported
  <2>1. runner' = [pc |-> "handle", todo |-> runner.todo] /\ runner.pc = "await"
    BY <1>8 DEF reported
  <2>2. \A k \in runner.todo : HonestOf(k)'
    BY <1>1, <1>2, <2>1, RunnerShape DEF RunnerIsHonest
  <2> QED
    BY <2>1, <2>2 DEF RunnerIsHonest, Busy
<1>9. CASE rest
  BY <1>9 DEF rest, Idle, RunnerIsHonest, Busy
<1>10. \/ runner' = runner \/ RunOnce
  BY DEF Next, Watch, markNew, collect, collectFails, giveUp, Remember, Brain, loseContract,
        diagnose, checkExecution, writeExecution, loseExecution, checkResolution,
        writeResolution, Decide, checkDecision, writeDecision, Track, vars, runVars
<1> QED
  BY <1>4, <1>5, <1>6, <1>7, <1>8, <1>9, <1>10, Zenon DEF RunOnce

(* A report in flight is true of the row it is for (Runner.report).        *)
LEMMA ReportsStep ==
    ASSUME IInv, History, [Next]_vars, ~Restart
    PROVE  ReportsAreHonest'
<1>1. TypeOK /\ ReportsAreHonest /\ RunnerIsHonest
  BY DEF IInv, History
<1>2. /\ overruled \subseteq overruled'
      /\ \A i \in Incidents : Authorised(i) /\ i \notin overruled' =>
             /\ Authorised(i)' /\ \A status : Backed(i, status) => Backed(i, status)'
  BY DecisionStays
<1>3. \A m \in executions : m.incident \in Incidents
  BY <1>1 DEF TypeOK, Report
<1>4. \A m \in executions : m.incident \notin overruled' =>
          Authorised(m.incident)' /\ Backed(m.incident, m.status)'
  BY <1>1, <1>2, <1>3 DEF ReportsAreHonest
<1>5. CASE report
  <2>1. PICK m : m = [incident |-> runner.inc.incident, status |-> runner.status,
                      checked |-> FALSE]
    OBVIOUS
  <2>2. executions' = executions \cup {m}
    BY <1>5, <2>1 DEF report
  <2>3. /\ m.incident \in Incidents /\ m.incident = runner.inc.incident
        /\ m.status = runner.status
        /\ m.incident \notin overruled => Authorised(m.incident) /\ Backed(m.incident, m.status)
    BY <1>1, <1>5, <2>1, RunnerShape DEF report, RunnerIsHonest, Busy, HonestOf, Agrees, Approval
  <2>4. m.incident \notin overruled' =>
            Authorised(m.incident)' /\ Backed(m.incident, m.status)'
    BY <1>2, <2>3
  <2> QED
    BY <1>4, <2>2, <2>4 DEF ReportsAreHonest, Authorised, Recorded, Backed
<1>6. CASE \E m \in executions : checkExecution(m)
  <2>1. PICK m \in executions : checkExecution(m)
    BY <1>6
  <2>2. PICK n : n = [m EXCEPT !.checked = TRUE]
    OBVIOUS
  <2>3. executions' \subseteq executions \cup {n}
    BY <2>1, <2>2 DEF checkExecution
  <2>4. n.incident = m.incident /\ n.status = m.status
    BY <1>1, <2>2 DEF TypeOK, Report
  <2>5. n.incident \notin overruled' => Authorised(n.incident)' /\ Backed(n.incident, n.status)'
    BY <1>4, <2>4
  <2> QED
    BY <1>4, <2>3, <2>5 DEF ReportsAreHonest, Authorised, Recorded, Backed
<1>7. CASE executions' \subseteq executions
  BY <1>4, <1>7 DEF ReportsAreHonest, Authorised, Recorded, Backed
<1>8. CASE /\ ~report
           /\ ~ \E m \in executions : checkExecution(m)
  <2>1. executions' \subseteq executions
    BY <1>8 DEF Next, Watch, markNew, collect, collectFails, giveUp, Remember, RunOnce, poll,
          handle, rest, reported, apply, Brain, loseContract, diagnose, writeExecution,
          loseExecution, checkResolution, writeResolution, Decide, checkDecision,
          writeDecision, Track, vars, wireVars
  <2> QED
    BY <1>7, <2>1
<1> QED
  BY <1>5, <1>6, <1>8

(* A patch rests on the decision that the row still holds, unless it was   *)
(* overruled (Executor.apply).                                             *)
LEMMA PatchesStep ==
    ASSUME IInv, History, [Next]_vars, ~Restart
    PROVE  PatchesAreCurrent'
<1>1. TypeOK /\ PatchesAreCurrent /\ RunnerIsHonest /\ patches \in Seq(Patch)
  BY DEF IInv, TypeOK, History
<1>2. /\ overruled \subseteq overruled'
      /\ \A i \in Incidents : Authorised(i) /\ i \notin overruled' =>
             Authorised(i)' /\ SameDecision(ledger'[i], ledger[i]) /\ (Would(i)' <=> Would(i))
  BY DecisionStays
<1>3. \A n \in 1 .. Len(patches) : \A i \in Incidents \ overruled' :
          patches[n].incident = i =>
              Authorised(i)' /\ Would(i)' /\ patches[n].token = ledger'[i].token
  <2> SUFFICES ASSUME NEW n \in 1 .. Len(patches), NEW i \in Incidents \ overruled',
                      patches[n].incident = i
               PROVE  Authorised(i)' /\ Would(i)' /\ patches[n].token = ledger'[i].token
    OBVIOUS
  <2>1. Authorised(i) /\ Would(i) /\ patches[n].token = ledger[i].token
    BY <1>1, <1>2 DEF PatchesAreCurrent
  <2> QED
    BY <1>2, <2>1 DEF SameDecision
<1>4. CASE \E status \in {"executed", "failed"} :
               apply(status) /\ patches' = Append(patches, PatchOf(runner.inc))
  <2>1. runner.pc = "apply" /\ UNCHANGED <<ledger, execute, overruled>>
    BY <1>4 DEF apply, signVars
  <2>2. PICK inc \in Approval : inc = runner.inc
    BY <1>1, <2>1, RunnerShape DEF Busy
  <2>3. HonestOf(inc) /\ execute /\ Verify(inc) /\ inc.row.decisionAction \in Executable
    BY <1>1, <2>1, <2>2 DEF IInv, ApplyIsAuthorised, RunnerIsHonest, Busy
  <2>4. inc.incident \notin overruled =>
            Authorised(inc.incident) /\ Would(inc.incident)
            /\ inc.row.token = ledger[inc.incident].token
    BY <2>3, AnswerIsHonest DEF HonestOf, Agrees, SameDecision, Would
  <2>5. PICK p \in Patch : p = PatchOf(inc)
    BY <2>1, <2>2, PatchIsAuthorised
  <2>6. p.incident = inc.incident /\ p.token = inc.row.token
    BY <2>5 DEF PatchOf
  <2>7. /\ Len(patches') = Len(patches) + 1 /\ Len(patches) \in Nat
        /\ \A n \in 1 .. Len(patches) : patches'[n] = patches[n]
        /\ patches'[Len(patches) + 1] = p
    BY <1>1, <1>4, <2>2, <2>5, AppendProperties, LenProperties
  <2>8. inc.incident \in Incidents
    BY DEF Approval
  <2>9. inc.incident \notin overruled' =>
            Authorised(inc.incident)' /\ Would(inc.incident)'
            /\ inc.row.token = ledger'[inc.incident].token
    BY <1>2, <2>1, <2>4, <2>8
  <2>10. \A n \in 1 .. Len(patches') : \A i \in Incidents \ overruled' :
             patches'[n].incident = i =>
                 Authorised(i)' /\ Would(i)' /\ patches'[n].token = ledger'[i].token
    BY <1>3, <2>6, <2>7, <2>8, <2>9
  <2> QED
    BY <2>10 DEF PatchesAreCurrent, Authorised, Recorded, Would, Verify
<1>5. CASE patches' = patches
  BY <1>3, <1>5 DEF PatchesAreCurrent, Authorised, Recorded, Would, Verify
<1> QED
  BY <1>4, <1>5, PatchesStay

LEMMA HInvInit == Init => HInv /\ ExecutedIsPatched
BY DEF Init, LedgerInit, HInv, History, DiagnosedOnce, KnownIsCurrent, RowsAreHonest,
       RunnerIsHonest, ReportsAreHonest, PatchesAreCurrent, ExecutedIsPatched, Recorded,
       Idle, Busy

(* The counts of restarts and losses only grow.                            *)
LEMMA CountsGrow ==
    ASSUME IInv, [Next]_vars
    PROVE  /\ restarts' = 0 => restarts = 0 /\ ~Restart
           /\ losses' = 0 => losses = 0
<1>1. restarts \in Nat /\ losses \in Nat
  BY DEF IInv, TypeOK
<1>2. restarts' = 0 => ~Restart
  BY <1>1 DEF Restart
<1>3. ~Restart => restarts' = restarts
  BY DEF Next, Watch, markNew, collect, collectFails, giveUp, Remember, RunOnce, poll, handle,
        rest, report, reported, apply, Brain, loseContract, diagnose, checkExecution,
        writeExecution, loseExecution, checkResolution, writeResolution, Decide,
        checkDecision, writeDecision, Track, vars, boundVars
<1>4. losses' \in {losses, losses + 1}
  BY DEF Next, Watch, markNew, collect, collectFails, giveUp, Remember, RunOnce, poll, handle,
        rest, report, reported, apply, Brain, loseContract, diagnose, checkExecution,
        writeExecution, loseExecution, checkResolution, writeResolution, Decide,
        checkDecision, writeDecision, Track, Restart, vars, boundVars
<1> QED
  BY <1>1, <1>2, <1>3, <1>4

LEMMA HInvStep == IInv /\ HInv /\ [Next]_vars => HInv'
<1> SUFFICES ASSUME IInv, HInv, [Next]_vars, restarts' = 0
             PROVE  History'
  BY DEF HInv
<1>1. History /\ ~Restart
  BY CountsGrow DEF HInv
<1> QED
  BY <1>1, EvidenceStep, RowsStep, RunnerHonestStep, ReportsStep, PatchesStep DEF History

LEMMA HistoryInvariance == Spec => [](IInv /\ HInv /\ ExecutedIsPatched)
<1>1. IInv /\ ExecutedIsPatched /\ [Next]_vars => ExecutedIsPatched'
  BY ExecutedStep
<1> QED
  BY <1>1, IInvInit, IInvStep, HInvInit, HInvStep, PTL DEF Spec

(* A row that says executed stands for an incident that was patched; and   *)
(* of a decision nobody overruled it says executed only if that decision   *)
(* was applied, and proposed or refused only if it was not, whichever      *)
(* reports were lost or late, while the agent does not restart             *)
(* (Runner.report, Ledger.record_execution, Ledger.label).                 *)
THEOREM HonestySafety == Spec => []ExecutionIsHonest
<1>1. IInv /\ HInv /\ ExecutedIsPatched => ExecutionIsHonest
  <2> SUFFICES ASSUME IInv, HInv, ExecutedIsPatched
               PROVE  ExecutionIsHonest
    OBVIOUS
  <2>1. \A i \in Incidents : Recorded(i) /\ ledger[i].execution = "executed" => Patched(i)
    BY DEF ExecutedIsPatched
  <2>2. ASSUME History, NEW i \in Incidents \ overruled, Recorded(i)
        PROVE  /\ ledger[i].execution = "executed" => Applied(ledger[i].token)
               /\ ledger[i].execution \in {"proposed", "refused"} =>
                      ~Applied(ledger[i].token)
    <3>1. ledger[i].execution # None => Backed(i, ledger[i].execution)
      BY <2>2 DEF History, RowsAreHonest
    <3>2. ASSUME NEW n \in 1 .. Len(patches), patches[n].token = ledger[i].token
          PROVE  Would(i)
      <4>1. PICK p \in Patch : p = patches[n]
        BY ElementOfSeq DEF IInv, TypeOK
      <4>2. p.token # None /\ p.token.incident = p.incident
        BY <4>1, LedgerAssumption DEF IInv, PatchesAreSound, Patch
      <4>3. p.token.incident = i
        BY <2>2, <3>2, <4>1, <4>2 DEF IInv, LedgerIsSound, Sound
      <4> QED
        BY <2>2, <4>1, <4>2, <4>3 DEF History, PatchesAreCurrent
    <3>3. None # "executed" /\ None # "proposed" /\ None # "refused"
      BY LedgerAssumption DEF Statuses, Terminal
    <3> QED
      BY <3>1, <3>2, <3>3 DEF Backed, Applied
  <2> QED
    BY <2>1, <2>2 DEF HInv, ExecutionIsHonest
<1> QED
  BY <1>1, HistoryInvariance, PTL

-----------------------------------------------------------------------------
(***************************************************************************)
(* While no request is lost or times out either, the runner waits for the  *)
(* brain's answer to what it did before it goes on. A decision may still   *)
(* be written over another, but with a token that nothing was applied for  *)
(* yet: what the runner is listed is always undone.                        *)
(***************************************************************************)
(* A token that a row, the runner or a patch holds                         *)
Held(tok) ==
    \/ \E i \in Incidents : Recorded(i) /\ ledger[i].token = tok
    \/ runner.pc # "idle" /\ \E inc \in runner.todo : inc.row.token = tok
    \/ Busy /\ runner.inc.row.token = tok
    \/ Applied(tok)

(* What label is about to write was signed at a time of its own            *)
FreshLabels ==
    /\ \A l \in deciding : l.at < decisions
    /\ \A l, k \in deciding : l.at = k.at => l = k
    /\ \A tok \in Token : Held(tok) =>
          tok.at < decisions /\ \A l \in deciding : l.at # tok.at

Open(i) == ledger[i].execution \notin Terminal

(* The row still holds the decision the runner is acting on                *)
Current ==
    /\ Authorised(runner.inc.incident)
    /\ ledger[runner.inc.incident].token = runner.inc.row.token

RunnerIsRecorded ==
    /\ runner.pc # "idle" =>
          \A inc \in runner.todo : inc.incident \in Incidents /\ Recorded(inc.incident)
    /\ Busy => runner.inc.incident \in Incidents /\ Recorded(runner.inc.incident)

(* At most one report is in flight: the one the runner awaits              *)
ReportIsAwaited ==
    /\ \A m \in executions : /\ runner.pc = "await" /\ m.incident = runner.inc.incident
                             /\ m.status = runner.status /\ Open(m.incident)
    /\ \A m, n \in executions : m = n

(* What the runner has still to do is undone, and listed once              *)
TodoIsOpen ==
    /\ runner.pc # "idle" =>
          /\ \A inc \in runner.todo : Open(inc.incident) /\ ~Applied(inc.row.token)
          /\ \A inc, k \in runner.todo : inc.incident = k.incident => inc = k
    /\ Busy => \A inc \in runner.todo : inc.incident # runner.inc.incident

BusyIsOpen ==
    /\ runner.pc \in {"apply", "report"} => Open(runner.inc.incident)
    /\ runner.pc = "apply" => ~Applied(runner.inc.row.token)
    /\ runner.pc \in {"report", "await"} /\ Applied(runner.inc.row.token) =>
          runner.status \in Terminal
    /\ runner.pc = "await" =>
          \/ executions # {}
          \/ ledger[runner.inc.incident].execution = runner.status
          \/ ~Current

(* What was applied is finished, or overruled, or still to be reported     *)
PatchedIsFinished ==
    \A n \in 1 .. Len(patches), i \in Incidents :
        Authorised(i) /\ ledger[i].token = patches[n].token /\ Open(i) =>
            /\ Busy /\ runner.pc # "apply"
            /\ runner.inc.incident = i /\ runner.inc.row.token = patches[n].token

Calmness ==
    /\ UsedOnce /\ RunnerIsRecorded /\ ReportIsAwaited /\ TodoIsOpen /\ BusyIsOpen
    /\ PatchedIsFinished

CInv == Calm => Calmness

(* A token comes to be held by being written to a row (Ledger.label).      *)
LEMMA HeldStep ==
    ASSUME IInv, [Next]_vars, NEW tok \in Token, Held(tok)'
    PROVE  \/ Held(tok)
           \/ \E l \in deciding, delay \in Delays : writeDecision(l, delay) /\ tok = TokenOf(l)
<1>1. TypeOK /\ tok # None
  BY LedgerAssumption DEF IInv
<1>2. ASSUME NEW i \in Incidents, Recorded(i)', ledger'[i].token = tok
      PROVE  \/ Held(tok)
             \/ \E l \in deciding, delay \in Delays : writeDecision(l, delay) /\ tok = TokenOf(l)
  <2>1. CASE ledger'[i] = ledger[i]
    BY <1>2, <2>1 DEF Held, Recorded
  <2>2. CASE Recorded(i) /\ ledger'[i].token = ledger[i].token
    BY <1>2, <2>2 DEF Held
  <2> QED
    BY <1>1, <1>2, <2>1, <2>2, RowStep DEF SameDecision
<1>3. ASSUME Applied(tok)'
      PROVE  Held(tok)
  <2>1. CASE patches' = patches
    BY <1>3, <2>1 DEF Applied, Held
  <2>2. CASE \E status \in {"executed", "failed"} :
                /\ apply(status)
                /\ Len(patches') = Len(patches) + 1 /\ Len(patches) \in Nat
                /\ \A n \in 1 .. Len(patches) : patches'[n] = patches[n]
                /\ patches'[Len(patches) + 1] = PatchOf(runner.inc)
    <3>1. Busy /\ PatchOf(runner.inc).token = runner.inc.row.token
      BY <2>2 DEF apply, Busy, PatchOf
    <3>2. Applied(tok) \/ tok = runner.inc.row.token
      BY <1>3, <2>2, <3>1 DEF Applied
    <3> QED
      BY <3>1, <3>2 DEF Held
  <2> QED
    BY <2>1, <2>2, PatchesStay
<1>4. CASE poll
  <2>1. PICK todo : todo = {[incident |-> i, row |-> ledger[i]] : i \in approved(execute)}
    OBVIOUS
  <2>2. runner' = [pc |-> "handle", todo |-> todo]
    BY <1>4, <2>1 DEF poll
  <2>3. \A inc \in todo : \E i \in Incidents : Recorded(i) /\ inc.row.token = ledger[i].token
    BY <2>1 DEF approved, Authorised
  <2>4. (runner'.pc # "idle" /\ \E inc \in runner'.todo : inc.row.token = tok) => Held(tok)
    BY <2>2, <2>3 DEF Held
  <2> QED
    BY <1>2, <1>3, <2>2, <2>4 DEF Held, Busy
<1>5. CASE handle
  <2>1. PICK inc, pc, status :
            /\ inc \in runner.todo /\ pc \in {"apply", "report"}
            /\ runner' = [pc |-> pc, todo |-> runner.todo \ {inc}, inc |-> inc,
                          status |-> status]
    BY <1>5 DEF handle
  <2>2. runner.pc = "handle"
    BY <1>5 DEF handle
  <2>3. runner'.todo \subseteq runner.todo /\ runner'.inc \in runner.todo
    BY <2>1
  <2> QED
    BY <1>2, <1>3, <2>2, <2>3 DEF Held
<1>6. CASE report \/ \E status \in {"executed", "failed"} : apply(status)
  <2>1. Busy /\ runner'.todo = runner.todo /\ runner'.inc = runner.inc
    BY <1>1, <1>6, RunnerShape DEF report, apply, Busy
  <2> QED
    BY <1>2, <1>3, <2>1 DEF Held, Busy
<1>7. CASE reported
  <2>1. Busy /\ runner' = [pc |-> "handle", todo |-> runner.todo]
    BY <1>7 DEF reported, Busy
  <2>2. runner'.todo = runner.todo /\ runner'.pc = "handle"
    BY <2>1
  <2> QED
    BY <1>2, <1>3, <2>1, <2>2 DEF Held, Busy
<1>8. CASE rest \/ Restart
  BY <1>2, <1>3, <1>8 DEF rest, Restart, Idle, Held, Busy
<1>9. CASE runner' = runner
  BY <1>2, <1>3, <1>9 DEF Held, Busy
<1>10. runner' = runner \/ RunOnce \/ Restart
  BY DEF Next, Watch, markNew, collect, collectFails, giveUp, Remember, Brain, loseContract,
        diagnose, checkExecution, writeExecution, loseExecution, checkResolution,
        writeResolution, Decide, checkDecision, writeDecision, Track, vars, runVars
<1> QED
  BY <1>4, <1>5, <1>6, <1>7, <1>8, <1>9, <1>10, Zenon DEF RunOnce

(* A decision is written with a token of its own (ApprovalPipeline.record).*)
LEMMA FreshStep ==
    ASSUME IInv, FreshLabels, [Next]_vars
    PROVE  FreshLabels'
<1>1. /\ decisions \in Nat /\ \A tok \in Token : tok.at \in Nat
      /\ \A l \in deciding : l.at \in Nat
  BY LabelShape DEF IInv, TypeOK, Token
<1>2. CASE deciding' = deciding /\ decisions' = decisions
           /\ \A l \in deciding, delay \in Delays : ~writeDecision(l, delay)
  <2>1. \A tok \in Token : Held(tok)' => Held(tok)
    BY <1>2, HeldStep
  <2> QED
    BY <1>2, <2>1 DEF FreshLabels
<1>3. ASSUME NEW l \in deciding, NEW delay \in Delays, writeDecision(l, delay)
      PROVE  FreshLabels'
  <2>1. deciding' = deciding \ {l} /\ decisions' = decisions
    BY <1>3 DEF writeDecision, boundVars
  <2>2. \A k \in deciding, d \in Delays : writeDecision(k, d) => k = l
    <3> SUFFICES ASSUME NEW k \in deciding, NEW d \in Delays, writeDecision(k, d)
                 PROVE  k = l
      OBVIOUS
    <3>1. deciding' = deciding \ {k}
      BY DEF writeDecision
    <3> QED
      BY <2>1, <3>1
  <2>3. \A tok \in Token : Held(tok)' => Held(tok) \/ tok = TokenOf(l)
    BY <2>2, HeldStep
  <2>4. \A tok \in Token : tok = TokenOf(l) => tok.at = l.at
    BY LabelShape, LedgerAssumption
  <2>5. \A tok \in Token : Held(tok)' =>
            tok.at < decisions /\ \A k \in deciding \ {l} : k.at # tok.at
    BY <2>3, <2>4 DEF FreshLabels
  <2> QED
    BY <2>1, <2>5 DEF FreshLabels
<1>4. ASSUME NEW q \in asked, NEW d \in Decisions, NEW a \in Actions, checkDecision(q, d, a)
      PROVE  FreshLabels'
  <2>1. PICK l : l = [incident |-> q.incident, hash |-> q.hash, decision |-> d,
                      action |-> Text(q, d, a), at |-> decisions]
    OBVIOUS
  <2>2. /\ deciding' = deciding \cup {l} /\ l.at = decisions /\ decisions' = decisions + 1
        /\ UNCHANGED <<ledger, runner, patches>>
    BY <1>4, <2>1 DEF checkDecision, runVars
  <2>3. \A tok \in Token : Held(tok)' => Held(tok)
    BY <2>2 DEF Held, Recorded, Busy, Applied
  <2>4. \A k \in deciding : k.at < decisions
    BY DEF FreshLabels
  <2>5. \A k \in deciding' : k.at < decisions'
    BY <1>1, <2>2, <2>4
  <2>6. \A j, k \in deciding' : j.at = k.at => j = k
    BY <1>1, <2>2, <2>4 DEF FreshLabels
  <2>7. \A tok \in Token : Held(tok)' =>
            tok.at < decisions' /\ \A k \in deciding' : k.at # tok.at
    BY <1>1, <2>2, <2>3 DEF FreshLabels
  <2> QED
    BY <2>5, <2>6, <2>7 DEF FreshLabels
<1>5. CASE ~Decide
  <2>1. deciding' = deciding /\ decisions' = decisions
    BY <1>5 DEF Next, Watch, markNew, collect, collectFails, giveUp, Remember, RunOnce, poll,
          handle, rest, report, reported, apply, Brain, loseContract, diagnose,
          checkExecution, writeExecution, loseExecution, checkResolution, writeResolution,
          Track, Restart, vars, signVars, boundVars
  <2> QED
    BY <1>2, <1>5, <2>1 DEF Decide
<1> QED
  BY <1>3, <1>4, <1>5 DEF Decide

(* An authorising decision is written with a token nothing holds.          *)
LEMMA NewAuthority ==
    ASSUME IInv, FreshLabels, DiagnosedOnce, [Next]_vars, NEW i \in Incidents,
           NEW tok \in Token \cup NoRecord, tok # None => Held(tok),
           Authorised(i)', ledger'[i].token = tok
    PROVE  Authorised(i) /\ ledger[i].token = tok
<1>1. CASE ledger'[i] = ledger[i]
  BY <1>1 DEF Authorised, Recorded
<1>2. CASE Recorded(i) /\ SameDecision(ledger'[i], ledger[i])
  BY <1>2 DEF Authorised, SameDecision
<1>3. CASE ledger'[i].decision = None
  BY <1>3, LedgerAssumption DEF Authorised, Authorises, Decisions, Human
<1>4. ASSUME NEW l \in deciding, ledger'[i].decision = l.decision,
             TokenOf(l) # None => ledger'[i].token = TokenOf(l)
      PROVE  FALSE
  <2>1. TokenOf(l) # None /\ TokenOf(l).at = l.at
    BY <1>4, LabelShape DEF Authorised
  <2>2. tok \in Token /\ Held(tok) /\ tok.at = l.at
    BY <1>4, <2>1 DEF NoRecord
  <2> QED
    BY <2>2 DEF FreshLabels
<1> QED
  BY <1>1, <1>2, <1>3, <1>4, RowStep

(* A step of the brain or the watcher leaves what the runner relies on.    *)
LEMMA QuietStep ==
    ASSUME IInv, FreshLabels, DiagnosedOnce, Calmness, [Next]_vars,
           UNCHANGED <<runner, executions, patches>>
    PROVE  Calmness'
<1>1. TypeOK /\ RunnerIsSound
  BY DEF IInv
<1>2. \A i \in Incidents : Recorded(i) =>
          Recorded(i)' /\ ledger'[i].execution = ledger[i].execution
  <2> SUFFICES ASSUME NEW i \in Incidents, Recorded(i)
               PROVE  Recorded(i)' /\ ledger'[i].execution = ledger[i].execution
    OBVIOUS
  <2>1. \A m \in executions : ~writeExecution(m)
    BY DEF writeExecution
  <2>2. \A c \in contracts, a \in Actions \cup NoRecord : ~(diagnose(c, a) /\ c.incident = i)
    BY DEF DiagnosedOnce
  <2> QED
    BY <2>1, <2>2, RowStep DEF Recorded
<1>3. \A i \in Incidents : Recorded(i) => (Open(i)' <=> Open(i))
  BY <1>2 DEF Open
<1>4. \A tok : Applied(tok)' <=> Applied(tok)
  BY DEF Applied
<1>5. UsedOnce' /\ RunnerIsRecorded'
  BY <1>2 DEF Calmness, UsedOnce, RunnerIsRecorded, Busy
<1>6. ReportIsAwaited'
  BY <1>3 DEF Calmness, ReportIsAwaited, RunnerIsRecorded, Busy
<1>7. TodoIsOpen'
  BY <1>3, <1>4 DEF Calmness, TodoIsOpen, RunnerIsRecorded, Busy
<1>8. BusyIsOpen'
  <2>1. PICK i, tok : i = runner.inc.incident /\ tok = runner.inc.row.token
    OBVIOUS
  <2>2. Busy => /\ i \in Incidents /\ Recorded(i) /\ (Open(i)' <=> Open(i))
                /\ ledger'[i].execution = ledger[i].execution
    BY <1>2, <1>3, <2>1 DEF Calmness, RunnerIsRecorded
  <2>3. Busy => tok \in Token \cup NoRecord /\ Held(tok)
    BY <1>1, <2>1, RunnerShape DEF Approval, Row, Held
  <2>4. Busy /\ Authorised(i)' /\ ledger'[i].token = tok =>
            Authorised(i) /\ ledger[i].token = tok
    BY <2>2, <2>3, NewAuthority
  <2>5. Busy /\ ~Current => ~Current'
    BY <2>1, <2>4 DEF Current
  <2> QED
    BY <1>4, <2>1, <2>2, <2>5 DEF Calmness, BusyIsOpen, Busy
<1>9. PatchedIsFinished'
  <2> SUFFICES ASSUME NEW n \in 1 .. Len(patches), NEW i \in Incidents, Authorised(i)',
                      ledger'[i].token = patches[n].token, Open(i)'
               PROVE  /\ Busy /\ runner.pc # "apply"
                      /\ runner.inc.incident = i /\ runner.inc.row.token = patches[n].token
    BY DEF PatchedIsFinished, Busy
  <2>1. PICK tok : tok = patches[n].token
    OBVIOUS
  <2>2. tok \in Token \cup NoRecord /\ Held(tok)
    <3>1. patches[n] \in Patch
      BY <1>1, ElementOfSeq DEF TypeOK
    <3> QED
      BY <2>1, <3>1 DEF Patch, Held, Applied
  <2>3. Authorised(i) /\ ledger[i].token = tok
    BY <2>1, <2>2, NewAuthority
  <2>4. Open(i)
    BY <1>3, <2>3 DEF Authorised
  <2> QED
    BY <2>1, <2>3, <2>4 DEF Calmness, PatchedIsFinished
<1> QED
  BY <1>5, <1>6, <1>7, <1>8, <1>9 DEF Calmness

(* A listing holds nothing that was applied (Ledger.approved).             *)
LEMMA PollKeeps ==
    ASSUME IInv, Calmness, poll
    PROVE  Calmness'
<1>1. runner.pc = "idle" /\ UNCHANGED <<ledger, executions, patches>>
  BY DEF poll, wireVars
<1>2. PICK todo : todo = {[incident |-> i, row |-> ledger[i]] : i \in approved(execute)}
  OBVIOUS
<1>3. runner' = [pc |-> "handle", todo |-> todo]
  BY <1>2 DEF poll
<1>4. executions = {}
  BY <1>1 DEF Calmness, ReportIsAwaited
<1>5. \A n \in 1 .. Len(patches), i \in Incidents :
          ~(Authorised(i) /\ ledger[i].token = patches[n].token /\ Open(i))
  BY <1>1 DEF Calmness, PatchedIsFinished, Busy
<1>6. \A inc \in todo : /\ inc.incident \in Incidents /\ Recorded(inc.incident)
                        /\ Open(inc.incident) /\ ~Applied(inc.row.token)
  <2> SUFFICES ASSUME NEW i \in approved(execute)
               PROVE  i \in Incidents /\ Recorded(i) /\ Open(i) /\ ~Applied(ledger[i].token)
    BY <1>2
  <2>1. i \in Incidents /\ Authorised(i) /\ Recorded(i)
    BY DEF approved, Authorised
  <2>2. Open(i)
    BY LedgerAssumption DEF approved, Open, Terminal, Statuses
  <2> QED
    BY <1>5, <2>1, <2>2 DEF Applied
<1>7. \A inc, k \in todo : inc.incident = k.incident => inc = k
  BY <1>2
<1>8. UsedOnce' /\ ReportIsAwaited' /\ BusyIsOpen'
  BY <1>1, <1>3, <1>4 DEF Calmness, UsedOnce, ReportIsAwaited, BusyIsOpen
<1>9. RunnerIsRecorded' /\ TodoIsOpen'
  BY <1>1, <1>3, <1>6, <1>7 DEF RunnerIsRecorded, TodoIsOpen, Busy, Open, Applied, Recorded
<1>10. PatchedIsFinished'
  BY <1>1, <1>5 DEF PatchedIsFinished, Authorised, Recorded, Open
<1> QED
  BY <1>8, <1>9, <1>10 DEF Calmness

(* The runner takes an approval from its list, or is done with the list.   *)
LEMMA HandleKeeps ==
    ASSUME IInv, Calmness, handle \/ rest
    PROVE  Calmness'
<1>1. runner.pc = "handle" /\ UNCHANGED <<ledger, executions, patches>>
  BY DEF handle, rest, wireVars
<1>2. executions = {}
  BY <1>1 DEF Calmness, ReportIsAwaited
<1>3. \A n \in 1 .. Len(patches), i \in Incidents :
          ~(Authorised(i) /\ ledger[i].token = patches[n].token /\ Open(i))
  BY <1>1 DEF Calmness, PatchedIsFinished, Busy
<1>4. UsedOnce' /\ ReportIsAwaited'
  BY <1>1, <1>2 DEF Calmness, UsedOnce, ReportIsAwaited
<1>5. PatchedIsFinished'
  BY <1>1, <1>3 DEF PatchedIsFinished, Authorised, Recorded, Open
<1>6. CASE handle
  <2>1. PICK inc, pc, status :
            /\ inc \in runner.todo /\ pc \in {"apply", "report"}
            /\ runner' = [pc |-> pc, todo |-> runner.todo \ {inc}, inc |-> inc,
                          status |-> status]
    BY <1>6 DEF handle
  <2>2. /\ \A k \in runner.todo : /\ k.incident \in Incidents /\ Recorded(k.incident)
                                  /\ Open(k.incident) /\ ~Applied(k.row.token)
        /\ \A j, k \in runner.todo : j.incident = k.incident => j = k
    BY <1>1 DEF Calmness, TodoIsOpen, RunnerIsRecorded
  <2>3. TodoIsOpen' /\ RunnerIsRecorded'
    BY <1>1, <2>1, <2>2 DEF TodoIsOpen, RunnerIsRecorded, Busy, Open, Applied, Recorded
  <2>4. BusyIsOpen'
    BY <1>1, <2>1, <2>2 DEF BusyIsOpen, Open, Applied
  <2> QED
    BY <1>4, <1>5, <2>3, <2>4 DEF Calmness
<1>7. CASE rest
  BY <1>4, <1>5, <1>7 DEF rest, Idle, Calmness, RunnerIsRecorded, TodoIsOpen, BusyIsOpen, Busy
<1> QED
  BY <1>6, <1>7

(* A patch is the first for its token (Executor.apply).                    *)
LEMMA ApplyKeeps ==
    ASSUME IInv, Calmness, NEW status \in {"executed", "failed"}, apply(status)
    PROVE  Calmness'
<1>1. runner.pc = "apply" /\ UNCHANGED <<ledger, executions>> /\ patches \in Seq(Patch)
  BY DEF apply, wireVars, IInv, TypeOK
<1>2. runner' = [pc |-> "report", todo |-> runner.todo, inc |-> runner.inc,
                 status |-> status]
  BY <1>1, RunnerShape DEF IInv, Busy, apply
<1>3. PICK inc : inc = runner.inc
  OBVIOUS
<1>4. /\ executions = {} /\ Open(inc.incident) /\ ~Applied(inc.row.token)
      /\ \A k \in runner.todo : /\ Open(k.incident) /\ ~Applied(k.row.token)
                                /\ k.incident # inc.incident
      /\ \A j, k \in runner.todo : j.incident = k.incident => j = k
  BY <1>1, <1>3 DEF Calmness, ReportIsAwaited, BusyIsOpen, TodoIsOpen, Busy
<1>5. \A n \in 1 .. Len(patches), i \in Incidents :
          ~(Authorised(i) /\ ledger[i].token = patches[n].token /\ Open(i))
  BY <1>1 DEF Calmness, PatchedIsFinished
<1>6. ReportIsAwaited' /\ BusyIsOpen' /\ RunnerIsRecorded'
  BY <1>1, <1>2, <1>3, <1>4
     DEF Calmness, ReportIsAwaited, BusyIsOpen, RunnerIsRecorded, Busy, Open, Recorded, Terminal
<1>7. CASE patches' = patches
  <2>1. UsedOnce' /\ TodoIsOpen'
    BY <1>1, <1>2, <1>3, <1>4, <1>7 DEF Calmness, UsedOnce, TodoIsOpen, Busy, Open, Applied
  <2>2. PatchedIsFinished'
    BY <1>1, <1>5, <1>7 DEF PatchedIsFinished, Authorised, Recorded, Open
  <2> QED
    BY <1>6, <2>1, <2>2 DEF Calmness
<1>8. CASE patches' = Append(patches, PatchOf(runner.inc))
  <2>1. PICK p \in Patch, tok \in Token :
            /\ p = PatchOf(inc) /\ tok = p.token /\ tok = inc.row.token
            /\ tok.incident = inc.incident /\ tok # None
    <3>1. PatchOf(inc) \in Patch /\ PatchOf(inc).token.incident = inc.incident
      BY <1>1, <1>3, PatchIsAuthorised DEF PatchOf
    <3> QED
      BY <3>1, LedgerAssumption DEF Patch, PatchOf
  <2>2. /\ Len(patches') = Len(patches) + 1 /\ Len(patches) \in Nat
        /\ \A n \in 1 .. Len(patches) : patches'[n] = patches[n]
        /\ patches'[Len(patches) + 1].token = tok
    <3>1. patches' = Append(patches, p)
      BY <1>3, <1>8, <2>1
    <3>2. p.token = tok
      BY <2>1
    <3>3. patches'[Len(patches) + 1] = p
      BY <1>1, <3>1, AppendProperties
    <3> QED
      BY <1>1, <3>1, <3>2, <3>3, AppendProperties, LenProperties
  <2>3. \A t : Applied(t)' => Applied(t) \/ t = tok
    BY <2>2 DEF Applied
  <2>4. UsedOnce'
    <3> SUFFICES ASSUME NEW m \in 1 .. Len(patches'), NEW n \in 1 .. Len(patches'),
                        patches'[m].token = patches'[n].token
                 PROVE  m = n
      BY DEF UsedOnce
    <3>1. m \in 1 .. Len(patches) /\ n \in 1 .. Len(patches) => m = n
      BY <2>2 DEF Calmness, UsedOnce
    <3>2. \A k \in 1 .. Len(patches) : patches'[k].token # tok
      BY <1>4, <2>1, <2>2 DEF Applied
    <3>3. \A k \in 1 .. Len(patches') : k \in 1 .. Len(patches) \/ k = Len(patches) + 1
      BY <2>2
    <3> QED
      BY <2>2, <3>1, <3>2, <3>3
  <2>5. \A k \in runner.todo : k.row.token # tok
    <3>1. \A k \in runner.todo : Sound(k.incident, k.row)
      BY <1>1 DEF IInv, RunnerIsSound
    <3> QED
      BY <1>4, <2>1, <3>1 DEF Sound
  <2>6. TodoIsOpen'
    BY <1>1, <1>2, <1>3, <1>4, <2>3, <2>5 DEF TodoIsOpen, Busy, Open
  <2>7. PatchedIsFinished'
    <3> SUFFICES ASSUME NEW n \in 1 .. Len(patches'), NEW i \in Incidents, Authorised(i)',
                        ledger'[i].token = patches'[n].token, Open(i)'
                 PROVE  /\ runner'.pc = "report" /\ runner'.inc.incident = i
                        /\ runner'.inc.row.token = patches'[n].token
      BY DEF PatchedIsFinished, Busy
    <3>1. Authorised(i) /\ ledger[i].token = patches'[n].token /\ Open(i)
      BY <1>1 DEF Authorised, Recorded, Open
    <3>2. n \notin 1 .. Len(patches)
      BY <1>5, <2>2, <3>1
    <3>3. n = Len(patches) + 1
      BY <2>2, <3>2
    <3>4. ledger[i].token = tok /\ i = tok.incident
      BY <2>1, <2>2, <3>1, <3>3 DEF IInv, LedgerIsSound, Sound, Authorised
    <3> QED
      BY <1>2, <1>3, <2>1, <2>2, <3>3, <3>4
  <2> QED
    BY <1>6, <2>4, <2>6, <2>7 DEF Calmness
<1> QED
  BY <1>7, <1>8 DEF apply

(* What was done is reported, and the runner waits (Runner.report).        *)
LEMMA ReportKeeps ==
    ASSUME IInv, Calmness, report
    PROVE  Calmness'
<1>1. runner.pc = "report" /\ UNCHANGED <<ledger, patches>>
  BY DEF report
<1>2. runner' = [pc |-> "await", todo |-> runner.todo, inc |-> runner.inc,
                 status |-> runner.status]
  BY <1>1, RunnerShape DEF IInv, Busy, report
<1>3. PICK m : m = [incident |-> runner.inc.incident, status |-> runner.status,
                    checked |-> FALSE]
  OBVIOUS
<1>4. executions = {}
  BY <1>1 DEF Calmness, ReportIsAwaited
<1>5. executions' = {m} /\ m.incident = runner.inc.incident /\ m.status = runner.status
  BY <1>3, <1>4 DEF report
<1>6. Open(runner.inc.incident)
  BY <1>1 DEF Calmness, BusyIsOpen
<1>7. ReportIsAwaited' /\ BusyIsOpen'
  BY <1>1, <1>2, <1>5, <1>6 DEF Calmness, ReportIsAwaited, BusyIsOpen, Open, Applied
<1>8. UsedOnce' /\ RunnerIsRecorded' /\ TodoIsOpen'
  BY <1>1, <1>2 DEF Calmness, UsedOnce, RunnerIsRecorded, TodoIsOpen, Busy, Open, Applied, Recorded
<1>9. PatchedIsFinished'
  BY <1>1, <1>2 DEF Calmness, PatchedIsFinished, Busy, Open, Authorised, Recorded
<1> QED
  BY <1>7, <1>8, <1>9 DEF Calmness

(* The answer comes when the row says what was done, or the decision is    *)
(* no longer there (Runner.report).                                        *)
LEMMA ReportedKeeps ==
    ASSUME IInv, Calmness, reported, losses' = 0
    PROVE  Calmness'
<1>1. /\ runner.pc = "await" /\ UNCHANGED <<ledger, executions, patches>>
      /\ runner' = [pc |-> "handle", todo |-> runner.todo]
  BY DEF reported, wireVars
<1>2. Pending = {}
  BY DEF reported, IInv, TypeOK
<1>3. executions = {}
  BY <1>2 DEF Pending, Calmness, ReportIsAwaited
<1>4. ledger[runner.inc.incident].execution = runner.status \/ ~Current
  BY <1>1, <1>3 DEF Calmness, BusyIsOpen
<1>5. \A n \in 1 .. Len(patches), i \in Incidents :
          ~(Authorised(i) /\ ledger[i].token = patches[n].token /\ Open(i))
  <2> SUFFICES ASSUME NEW n \in 1 .. Len(patches), NEW i \in Incidents, Authorised(i),
                      ledger[i].token = patches[n].token, Open(i)
               PROVE  FALSE
    OBVIOUS
  <2>1. runner.inc.incident = i /\ runner.inc.row.token = patches[n].token
    BY DEF Calmness, PatchedIsFinished
  <2>2. Current /\ Applied(runner.inc.row.token)
    BY <2>1 DEF Current, Applied
  <2>3. runner.status \in Terminal
    BY <1>1, <2>2 DEF Calmness, BusyIsOpen
  <2> QED
    BY <1>4, <2>1, <2>2, <2>3 DEF Open
<1>6. UsedOnce' /\ ReportIsAwaited'
  BY <1>1, <1>3 DEF Calmness, UsedOnce, ReportIsAwaited
<1>7. PatchedIsFinished'
  BY <1>1, <1>5 DEF PatchedIsFinished, Authorised, Recorded, Open
<1>8. TodoIsOpen' /\ BusyIsOpen' /\ RunnerIsRecorded'
  BY <1>1
     DEF Calmness, TodoIsOpen, BusyIsOpen, RunnerIsRecorded, Busy, Open, Applied, Recorded
<1> QED
  BY <1>6, <1>7, <1>8 DEF Calmness

(* The report is admitted, since the row is open, unless the decision is   *)
(* no longer one that authorises (Ledger.record_execution).                *)
LEMMA CheckKeeps ==
    ASSUME IInv, Calmness, NEW m \in executions, checkExecution(m)
    PROVE  Calmness'
<1>1. UNCHANGED <<ledger, runner, patches>>
  BY DEF checkExecution, runVars
<1>2. /\ executions = {m} /\ runner.pc = "await" /\ m.incident = runner.inc.incident
      /\ m.status = runner.status /\ Open(m.incident)
  BY DEF Calmness, ReportIsAwaited
<1>3. PICK n : n = [m EXCEPT !.checked = TRUE]
  OBVIOUS
<1>4. n.incident = m.incident /\ n.status = m.status
  BY <1>3 DEF IInv, TypeOK, Report
<1>5. executions' = {n} \/ (executions' = {} /\ ~Current)
  <2>1. CASE MayRecordExecution(m.incident, m.status)
    <3>1. executions' = (executions \ {m}) \cup {n}
      BY <1>3, <2>1 DEF checkExecution
    <3> QED
      BY <1>2, <3>1
  <2>2. CASE ~MayRecordExecution(m.incident, m.status)
    <3>1. executions' = {}
      BY <1>2, <2>2 DEF checkExecution
    <3>2. ~Authorised(runner.inc.incident)
      BY <1>2, <2>2 DEF MayRecordExecution, Open
    <3> QED
      BY <3>1, <3>2 DEF Current
  <2> QED
    BY <2>1, <2>2
<1>6. ReportIsAwaited'
  BY <1>1, <1>2, <1>4, <1>5 DEF ReportIsAwaited, Open
<1>7. BusyIsOpen'
  BY <1>1, <1>2, <1>5
     DEF Calmness, BusyIsOpen, Open, Applied, Current, Authorised, Recorded
<1>8. UsedOnce' /\ RunnerIsRecorded' /\ TodoIsOpen'
  BY <1>1 DEF Calmness, UsedOnce, RunnerIsRecorded, TodoIsOpen, Busy, Open, Applied, Recorded
<1>9. PatchedIsFinished'
  BY <1>1 DEF Calmness, PatchedIsFinished, Busy, Open, Authorised, Recorded
<1> QED
  BY <1>6, <1>7, <1>8, <1>9 DEF Calmness

LEMMA WriteKeeps ==
    ASSUME IInv, Calmness, NEW m \in executions, writeExecution(m)
    PROVE  Calmness'
<1>1. UNCHANGED <<runner, patches>> /\ ledger \in [Incidents -> Row \cup NoRecord]
  BY DEF writeExecution, runVars, IInv, TypeOK, LedgerTypeOK
<1>2. /\ executions = {m} /\ runner.pc = "await" /\ m.incident = runner.inc.incident
      /\ m.status = runner.status /\ Recorded(m.incident) /\ m.incident \in Incidents
      /\ m.status \in Statuses /\ Open(m.incident)
  BY DEF Calmness, ReportIsAwaited, RunnerIsRecorded, Busy, IInv, TypeOK, Report
<1>3. executions' = {}
  BY <1>2 DEF writeExecution
<1>4. /\ Recorded(m.incident)' /\ ledger'[m.incident].execution = m.status
      /\ ledger'[m.incident].token = ledger[m.incident].token
      /\ ledger'[m.incident].decision = ledger[m.incident].decision
  <2>1. ledger[m.incident] \in Row
    BY <1>1, <1>2 DEF Recorded, NoRecord
  <2>2. ledger'[m.incident] = [ledger[m.incident] EXCEPT !.execution = m.status]
    BY <1>1, <1>2 DEF writeExecution, record_execution, Recorded
  <2>3. ledger'[m.incident] \in Row
    BY <1>2, <2>1, <2>2 DEF Row
  <2>4. ledger'[m.incident] # None
    BY <2>3, LedgerAssumption
  <2> QED
    BY <2>1, <2>2, <2>4 DEF Row, Recorded
<1>5. \A i : i # m.incident => ledger'[i] = ledger[i]
  BY <1>1 DEF writeExecution, record_execution
<1>6. \A i : i # m.incident => (Open(i)' <=> Open(i))
  BY <1>5 DEF Open
<1>7. \A i \in Incidents : Authorised(i)' /\ Open(i)' =>
          Authorised(i) /\ Open(i) /\ ledger'[i].token = ledger[i].token
  <2> SUFFICES ASSUME NEW i \in Incidents, Authorised(i)', Open(i)'
               PROVE  Authorised(i) /\ Open(i) /\ ledger'[i].token = ledger[i].token
    OBVIOUS
  <2>1. CASE i = m.incident
    BY <1>2, <1>4, <2>1 DEF Authorised
  <2>2. CASE i # m.incident
    BY <1>5, <1>6, <2>2 DEF Authorised, Recorded
  <2> QED
    BY <2>1, <2>2
<1>8. ReportIsAwaited' /\ UsedOnce'
  BY <1>1, <1>3 DEF ReportIsAwaited, Calmness, UsedOnce
<1>9. RunnerIsRecorded'
  BY <1>1, <1>4, <1>5 DEF Calmness, RunnerIsRecorded, Busy, Recorded
<1>10. TodoIsOpen'
  BY <1>1, <1>2, <1>6 DEF Calmness, TodoIsOpen, Busy, Applied
<1>11. BusyIsOpen'
  BY <1>1, <1>2, <1>4 DEF Calmness, BusyIsOpen, Applied
<1>12. PatchedIsFinished'
  BY <1>1, <1>7 DEF Calmness, PatchedIsFinished, Busy
<1> QED
  BY <1>8, <1>9, <1>10, <1>11, <1>12 DEF Calmness

LEMMA CInvInit == Init => FreshLabels /\ CInv
BY DEF Init, LedgerInit, FreshLabels, Held, CInv, Calmness, UsedOnce, RunnerIsRecorded,
       ReportIsAwaited, TodoIsOpen, BusyIsOpen, PatchedIsFinished, Idle, Busy, Recorded, Applied

LEMMA CInvStep == IInv /\ HInv /\ FreshLabels /\ CInv /\ [Next]_vars => CInv'
<1> SUFFICES ASSUME IInv, HInv, FreshLabels, CInv, [Next]_vars, losses' = 0, restarts' = 0
             PROVE  Calmness'
  BY DEF CInv, Calm
<1>1. DiagnosedOnce /\ Calmness /\ ~Restart /\ losses = 0
  BY CountsGrow DEF HInv, History, CInv, Calm
<1>2. \A m \in executions : ~loseExecution(m)
  BY <1>1 DEF loseExecution
<1>3. CASE RunOnce
  BY <1>1, <1>3, PollKeeps, HandleKeeps, ApplyKeeps, ReportKeeps, ReportedKeeps DEF RunOnce
<1>4. CASE \E m \in executions : checkExecution(m) \/ writeExecution(m)
  BY <1>1, <1>4, CheckKeeps, WriteKeeps
<1>5. CASE /\ ~RunOnce
           /\ ~ \E m \in executions : checkExecution(m) \/ writeExecution(m)
  <2>1. UNCHANGED <<runner, executions, patches>>
    BY <1>1, <1>2, <1>5 DEF Next, Watch, markNew, collect, collectFails, giveUp, Remember,
          Brain, loseContract, diagnose, checkResolution, writeResolution, Decide,
          checkDecision, writeDecision, Track, vars, runVars, wireVars
  <2> QED
    BY <1>1, <2>1, QuietStep
<1> QED
  BY <1>3, <1>4, <1>5

LEMMA CalmInvariance == Spec => [](IInv /\ HInv /\ FreshLabels /\ CInv)
<1>1. IInv /\ FreshLabels /\ [Next]_vars => FreshLabels'
  BY FreshStep
<1> QED
  BY <1>1, IInvInit, IInvStep, HInvInit, HInvStep, CInvInit, CInvStep, PTL DEF Spec

(* As long as nothing is lost, times out or restarts, one approval makes   *)
(* one patch, though it is listed for ever, and though another decision    *)
(* may be written over it meanwhile (Runner.RunOnce, Ledger.label).        *)
THEOREM OnceSafety == Spec => []AppliedOnceInCalm
<1>1. CInv => AppliedOnceInCalm
  BY DEF CInv, Calmness, AppliedOnceInCalm
<1> QED
  BY <1>1, CalmInvariance, PTL

(* A finished row stays as it is while nothing is lost or late, even when  *)
(* another decision is written over its own (Ledger.record_execution).     *)
THEOREM FinalSafety == Spec => FinalInCalm
<1>1. ASSUME IInv, HInv, CInv, [Next]_vars, Calm', NEW i \in Incidents, Recorded(i),
             ledger[i].execution \in Terminal
      PROVE  ledger'[i].execution = ledger[i].execution
  <2>1. DiagnosedOnce /\ Calmness
    BY <1>1, CountsGrow DEF HInv, History, CInv, Calm
  <2>2. \A m \in executions : m.incident # i
    BY <1>1, <2>1 DEF Calmness, ReportIsAwaited, Open
  <2>3. \A c \in contracts : c.incident # i
    BY <1>1, <2>1 DEF DiagnosedOnce
  <2> QED
    BY <1>1, <2>2, <2>3, RowStep
<1>2. IInv /\ HInv /\ CInv /\ [Next]_vars =>
          [Calm' => \A i \in Incidents :
              Recorded(i) /\ ledger[i].execution \in Terminal =>
                  ledger'[i].execution = ledger[i].execution]_vars
  BY <1>1
<1> QED
  BY <1>2, CalmInvariance, PTL DEF Spec, FinalInCalm
=============================================================================
