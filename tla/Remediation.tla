---------------------------- MODULE Remediation ----------------------------
(***************************************************************************)
(* The agent's half of an approval: it sends each failure it sees to the   *)
(* brain, polls for approved rows, verifies the token of each, plans,      *)
(* patches the workload if execution is enabled, reports what it did and   *)
(* tracks whether the workload recovered.                                  *)
(*                                                                         *)
(* The watcher, the runner and the resolvers are goroutines of one agent   *)
(* process; the brain serves their requests from a thread pool and checks  *)
(* a report in one ledger transaction and writes it in another. A request  *)
(* may be lost, or its caller may time out and go on while the brain is    *)
(* still at it. How a question comes to be answered is Approvals'          *)
(* business: here any question ever asked may be, at any time, and the two *)
(* transactions of the label are two steps, so that one answer may be      *)
(* written over another, or on a row it was not signed for.                *)
(***************************************************************************)
EXTENDS Ledger, Sequences

CONSTANTS
    Executable,    \* the actions that reduce to a patch of the workload
    Delays,        \* from signing a decision to writing it, in ticks
    MaxDecisions,  \* bound on the decisions taken
    MaxLosses,     \* bound on the requests lost and the timeouts
    MaxRestarts,   \* bound on the restarts of the agent
    MaxEvents      \* bound on the three together

ASSUME RemediationAssumption ==
    /\ Executable \subseteq Actions
    /\ Delays \subseteq Nat
    /\ MaxDecisions \in Nat /\ MaxLosses \in Nat /\ MaxRestarts \in Nat
    /\ MaxEvents \in Nat

VARIABLES
    execute,      \* whether the agent was started with --execute
    seen,         \* the watcher's set of incident ids it has emitted
    watcher,      \* the watcher's one handler
    contracts,    \* contracts the brain has not diagnosed yet
    known,        \* incident id -> the context hash of its verdict, or None
    runner,       \* the remediation loop
    executions,   \* execution reports the brain has not answered
    tracking,     \* resolvers at work
    resolutions,  \* resolution reports the brain has not answered
    patches,      \* the cluster: every patch ever applied, in order
    deciding,     \* decisions label has checked and not yet written
    issued,       \* history: every token the brain has signed
    asked,        \* history: every question a verdict has raised
    overruled,    \* history: incidents whose decision was overwritten
    dropped,      \* history: incidents whose last contract came to nothing
    decisions,    \* decisions taken so far
    losses,       \* requests lost and timeouts so far
    restarts      \* agent restarts so far

watchVars == <<seen, watcher, contracts, known, asked, dropped>>
runVars   == <<execute, runner, tracking>>
wireVars  == <<executions, resolutions>>
signVars  == <<deciding, issued, overruled>>
boundVars == <<decisions, losses, restarts>>
vars == <<ledger, watchVars, runVars, wireVars, patches, signVars, boundVars>>

(* An approved row as the agent got it, and a patch it applied for it *)
Approval == [incident: Incidents, row: Row]
Patch    == [incident: Incidents, hash: Hashes, decision: Decisions,
             action: Actions, token: Token]

(* What is on its way to the brain: contracts, whose sender may be gone by *)
(* now, and reports, which the brain has checked or not                    *)
Contract == [incident: Incidents, hash: Hashes, waiting: BOOLEAN]
Report == [incident: Incidents, status: Statuses, checked: BOOLEAN]
Label  == [incident: Incidents, resolved: BOOLEAN, checked: BOOLEAN]

(* What a verdict asks, and an answer to it that label is about to write   *)
Question == [incident: Incidents, hash: Hashes, action: Actions]
Answered == [incident: Incidents, hash: Hashes, decision: Decisions,
             action: Actions \cup NoRecord, at: Nat]

Watcher ==
    [pc: {"idle"}] \cup
    [pc: {"collect", "await"}, incident: Incidents] \cup
    [pc: {"answered"}, incident: Incidents, hash: Hashes]

Runner ==
    [pc: {"idle"}] \cup
    [pc: {"handle"}, todo: SUBSET Approval] \cup
    [pc: {"apply", "report", "await"}, todo: SUBSET Approval,
     inc: Approval, status: Statuses]

TypeOK ==
    /\ LedgerTypeOK
    /\ execute \in BOOLEAN
    /\ seen \subseteq Incidents
    /\ contracts \subseteq Contract
    /\ watcher \in Watcher
    /\ known \in [Incidents -> Hashes \cup NoRecord]
    /\ runner \in Runner
    /\ executions \subseteq Report
    /\ tracking \subseteq Incidents
    /\ resolutions \subseteq Label
    /\ patches \in Seq(Patch)
    /\ deciding \subseteq Answered /\ issued \subseteq Token
    /\ asked \subseteq Question
    /\ overruled \subseteq Incidents /\ dropped \subseteq Incidents
    /\ decisions \in Nat /\ losses \in Nat /\ restarts \in Nat

Idle == [pc |-> "idle"]

WithinBounds == decisions + losses + restarts < MaxEvents

Init ==
    /\ LedgerInit
    /\ execute \in BOOLEAN
    /\ seen = {} /\ watcher = Idle /\ contracts = {}
    /\ known = [i \in Incidents |-> None]
    /\ runner = Idle
    /\ executions = {} /\ tracking = {} /\ resolutions = {}
    /\ patches = <<>>
    /\ deciding = {} /\ issued = {}
    /\ asked = {} /\ overruled = {} /\ dropped = {}
    /\ decisions = 0 /\ losses = 0 /\ restarts = 0

-----------------------------------------------------------------------------
(***************************************************************************)
(* The watcher handles one pod event at a time. It marks the incident id   *)
(* as seen, collects the evidence, which may fail, and sends the contract  *)
(* to the brain, which records a verdict and answers with the hash of the  *)
(* evidence. Whatever fails is only logged, and not tried again by this    *)
(* process; a contract whose sender is gone is served all the same.        *)
(***************************************************************************)
markNew(i) ==
    /\ watcher.pc = "idle"
    /\ i \notin seen
    /\ seen' = seen \cup {i}
    /\ watcher' = [pc |-> "collect", incident |-> i]
    /\ dropped' = dropped \ {i}
    /\ UNCHANGED <<ledger, contracts, known, asked, runVars, wireVars, patches,
                   signVars, boundVars>>

collect(h) ==
    /\ watcher.pc = "collect"
    /\ watcher' = [watcher EXCEPT !.pc = "await"]
    /\ contracts' = contracts \cup
           {[incident |-> watcher.incident, hash |-> h, waiting |-> TRUE]}
    /\ UNCHANGED <<ledger, seen, known, asked, dropped, runVars, wireVars,
                   patches, signVars, boundVars>>

collectFails ==
    /\ watcher.pc = "collect"
    /\ watcher' = Idle
    /\ dropped' = dropped \cup {watcher.incident}
    /\ UNCHANGED <<ledger, seen, contracts, known, asked, runVars, wireVars,
                   patches, signVars, boundVars>>

(* Ledger.record, and the answer to whoever still waits for it. A verdict  *)
(* with a proposal asks whether to carry it out.                           *)
Raised(c, a) ==
    {[incident |-> c.incident, hash |-> c.hash, action |-> b] : b \in {a} \ NoRecord}

Reply(c) ==
    IF c.waiting
    THEN [pc |-> "answered", incident |-> c.incident, hash |-> c.hash]
    ELSE watcher

(* Fault: a contract whose sender is gone is not served *)
diagnoseAwaited(c, a) ==
    /\ c \in contracts
    /\ contracts' = contracts \ {c}
    /\ IF c.waiting THEN record(c.incident, c.hash, a) ELSE UNCHANGED ledger
    /\ asked' = IF c.waiting THEN asked \cup Raised(c, a) ELSE asked
    /\ watcher' = Reply(c)
    /\ UNCHANGED <<seen, known, dropped, runVars, wireVars, patches, signVars,
                   boundVars>>

diagnose(c, a) ==
    /\ c \in contracts
    /\ contracts' = contracts \ {c}
    /\ record(c.incident, c.hash, a)
    /\ asked' = asked \cup Raised(c, a)
    /\ watcher' = Reply(c)
    /\ UNCHANGED <<seen, known, dropped, runVars, wireVars, patches, signVars,
                   boundVars>>

(* The contract is lost or refused, or the brain dies while serving it     *)
loseContract(c) ==
    /\ c \in contracts
    /\ losses < MaxLosses /\ WithinBounds
    /\ losses' = losses + 1
    /\ contracts' = contracts \ {c}
    /\ watcher' = IF c.waiting THEN Idle ELSE watcher
    /\ dropped' = dropped \cup {c.incident}
    /\ UNCHANGED <<ledger, seen, known, asked, runVars, wireVars, patches,
                   signVars, decisions, restarts>>

Unawaited == {[c EXCEPT !.waiting = FALSE] : c \in contracts}

(* Diagnose times out, and the brain is left to it                         *)
giveUp ==
    /\ watcher.pc = "await"
    /\ losses < MaxLosses /\ WithinBounds
    /\ losses' = losses + 1
    /\ watcher' = Idle
    /\ contracts' = Unawaited
    /\ UNCHANGED <<ledger, seen, known, asked, dropped, runVars, wireVars,
                   patches, signVars, decisions, restarts>>

(* Fault: the incident id is remembered in place of the hash *)
RememberIncident ==
    /\ watcher.pc = "answered"
    /\ watcher' = Idle
    /\ known' = [known EXCEPT ![watcher.incident] = watcher.incident]
    /\ UNCHANGED <<ledger, seen, contracts, asked, dropped, runVars, wireVars,
                   patches, signVars, boundVars>>

Remember ==
    /\ watcher.pc = "answered"
    /\ watcher' = Idle
    /\ known' = [known EXCEPT ![watcher.incident] = watcher.hash]
    /\ UNCHANGED <<ledger, seen, contracts, asked, dropped, runVars, wireVars,
                   patches, signVars, boundVars>>

(***************************************************************************)
(* Ledger.label, for an answer by a human or the clock to a question,      *)
(* which need not be about the verdict the row holds: it checks the row in *)
(* one transaction and writes it in another, whatever was written between. *)
(* The token signs the hash of the question, before the check. The count   *)
(* of the decisions serves as the brain's clock.                           *)
(***************************************************************************)
(* An approval takes the question's action, an edit the human's            *)
Text(q, d, a) ==
    IF d = "approved" THEN q.action ELSE IF d = "edited" THEN a ELSE None

TokenOf(l) ==
    IF l.decision \in Authorises
    THEN sign(l.incident, l.hash, l.decision, l.action, l.at) ELSE None

checkDecision(q, d, a) ==
    LET l == [incident |-> q.incident, hash |-> q.hash, decision |-> d,
              action |-> Text(q, d, a), at |-> decisions]
    IN  /\ decisions < MaxDecisions /\ WithinBounds
        /\ q \in asked
        /\ Recorded(q.incident) /\ ~Decided(q.incident)
        /\ deciding' = deciding \cup {l}
        /\ decisions' = decisions + 1
        /\ issued' = issued \cup ({TokenOf(l)} \ NoRecord)
        /\ UNCHANGED <<ledger, watchVars, runVars, wireVars, patches, overruled,
                       losses, restarts>>

writeDecision(l, delay) ==
    /\ l \in deciding
    /\ deciding' = deciding \ {l}
    /\ label(l.incident, l.decision, l.action, TokenOf(l), l.at + delay)
    /\ overruled' = IF Decided(l.incident) THEN overruled \cup {l.incident}
                    ELSE overruled
    /\ UNCHANGED <<watchVars, runVars, wireVars, patches, issued, boundVars>>

-----------------------------------------------------------------------------
(***************************************************************************)
(* RunOnce: one listing, then each row of it in turn, as it was listed.    *)
(***************************************************************************)
poll ==
    /\ runner.pc = "idle"
    /\ approved(execute) # {}
    /\ runner' = [pc |-> "handle",
                  todo |-> {[incident |-> i, row |-> ledger[i]] :
                               i \in approved(execute)}]
    /\ UNCHANGED <<ledger, watchVars, execute, tracking, wireVars, patches, signVars,
                   boundVars>>

(* Fault: the evidence is not among the claims *)
VerifyWithoutHash(inc) ==
    /\ inc.row.decision \in Authorises
    /\ inc.row.token = sign(inc.incident, inc.row.token.hash, inc.row.decision,
                            inc.row.decisionAction, inc.row.decisionAt)

(* approval.Verify: the token must be the one for these claims *)
Verify(inc) ==
    /\ inc.row.decision \in Authorises
    /\ inc.row.token = sign(inc.incident, inc.row.hash, inc.row.decision,
                            inc.row.decisionAction, inc.row.decisionAt)

(* The hash this process got for the incident, if it got one *)
SameEvidence(inc) == known[inc.incident] \in {None, inc.row.hash}

Answer(inc) ==
    IF ~Verify(inc) \/ ~SameEvidence(inc) THEN "refused"
    ELSE IF inc.row.decisionAction \notin Executable THEN "refused"
    ELSE IF execute THEN "executed" ELSE "proposed"

handle ==
    /\ runner.pc = "handle"
    /\ \E inc \in runner.todo :
          runner' = [pc |-> IF Answer(inc) = "executed" THEN "apply" ELSE "report",
                     todo |-> runner.todo \ {inc}, inc |-> inc,
                     status |-> Answer(inc)]
    /\ UNCHANGED <<ledger, watchVars, execute, tracking, wireVars, patches, signVars,
                   boundVars>>

rest ==
    /\ runner.pc = "handle"
    /\ runner.todo = {}
    /\ runner' = Idle
    /\ UNCHANGED <<ledger, watchVars, execute, tracking, wireVars, patches, signVars,
                   boundVars>>

(***************************************************************************)
(* Executor.apply: a patch that fails has changed nothing, or has changed  *)
(* the workload before its answer was lost.                                *)
(***************************************************************************)
PatchOf(inc) ==
    [incident |-> inc.incident, hash |-> inc.row.hash,
     decision |-> inc.row.decision, action |-> inc.row.decisionAction,
     token |-> inc.row.token]

(* Fault: a patch that changed nothing may be reported as executed *)
applyHopeful(status) ==
    /\ runner.pc = "apply"
    /\ runner' = [runner EXCEPT !.pc = "report", !.status = status]
    /\ patches' = Append(patches, PatchOf(runner.inc)) \/ UNCHANGED patches
    /\ UNCHANGED <<ledger, watchVars, execute, tracking, wireVars, signVars,
                   boundVars>>

apply(status) ==
    /\ runner.pc = "apply"
    /\ runner' = [runner EXCEPT !.pc = "report", !.status = status]
    /\ \/ patches' = Append(patches, PatchOf(runner.inc))
       \/ status = "failed" /\ UNCHANGED patches
    /\ UNCHANGED <<ledger, watchVars, execute, tracking, wireVars, signVars,
                   boundVars>>

report ==
    /\ runner.pc = "report"
    /\ executions' = executions \cup {[incident |-> runner.inc.incident,
                                       status |-> runner.status,
                                       checked |-> FALSE]}
    /\ runner' = [runner EXCEPT !.pc = "await"]
    /\ UNCHANGED <<ledger, watchVars, execute, tracking, resolutions, patches,
                   signVars, boundVars>>

(* Fault: the runner does not wait for the brain's answer *)
PendingNever == {}

(* The answer, whatever it is, or a timeout; then the resolver is started *)
Pending == {m \in executions : /\ m.incident = runner.inc.incident
                               /\ m.status = runner.status}

reported ==
    /\ runner.pc = "await"
    /\ \/ Pending = {} /\ UNCHANGED losses
       \/ losses < MaxLosses /\ WithinBounds /\ losses' = losses + 1
    /\ runner' = [pc |-> "handle", todo |-> runner.todo]
    /\ tracking' = IF runner.status = "executed"
                   THEN tracking \cup {runner.inc.incident} ELSE tracking
    /\ UNCHANGED <<ledger, watchVars, execute, wireVars, patches, signVars,
                   decisions, restarts>>

(***************************************************************************)
(* The brain's side of an execution report: Ledger.record_execution.       *)
(***************************************************************************)
checkExecution(m) ==
    /\ m \in executions /\ ~m.checked
    /\ executions' = (executions \ {m}) \cup
                     IF MayRecordExecution(m.incident, m.status)
                     THEN {[m EXCEPT !.checked = TRUE]} ELSE {}
    /\ UNCHANGED <<ledger, watchVars, runVars, resolutions, patches, signVars, boundVars>>

writeExecution(m) ==
    /\ m \in executions /\ m.checked
    /\ record_execution(m.incident, m.status)
    /\ executions' = executions \ {m}
    /\ UNCHANGED <<watchVars, runVars, resolutions, patches, signVars, boundVars>>

(* The request is lost on its way, or the brain dies while serving it *)
loseExecution(m) ==
    /\ m \in executions
    /\ losses < MaxLosses /\ WithinBounds
    /\ losses' = losses + 1
    /\ executions' = executions \ {m}
    /\ UNCHANGED <<ledger, watchVars, runVars, resolutions, patches, signVars,
                   decisions, restarts>>

-----------------------------------------------------------------------------
(***************************************************************************)
(* Track: a resolver ends with a label, which it reports once, or with an  *)
(* error, which it only logs. Ledger.record_resolution takes the report.   *)
(***************************************************************************)
Track(i, resolved) ==
    /\ i \in tracking
    /\ tracking' = tracking \ {i}
    /\ \/ resolutions' = resolutions \cup
              {[incident |-> i, resolved |-> resolved, checked |-> FALSE]}
       \/ UNCHANGED resolutions
    /\ UNCHANGED <<ledger, watchVars, execute, runner, executions, patches, signVars,
                   boundVars>>

checkResolution(m) ==
    /\ m \in resolutions /\ ~m.checked
    /\ resolutions' = (resolutions \ {m}) \cup
                      IF MayRecordResolution(m.incident)
                      THEN {[m EXCEPT !.checked = TRUE]} ELSE {}
    /\ UNCHANGED <<ledger, watchVars, runVars, executions, patches, signVars, boundVars>>

writeResolution(m) ==
    /\ m \in resolutions /\ m.checked
    /\ record_resolution(m.incident, m.resolved)
    /\ resolutions' = resolutions \ {m}
    /\ UNCHANGED <<watchVars, runVars, executions, patches, signVars, boundVars>>

-----------------------------------------------------------------------------
(* The agent's process dies, its memory and its goroutines with it; the    *)
(* next one may be started with or without --execute                       *)
Restart ==
    /\ restarts < MaxRestarts /\ WithinBounds
    /\ restarts' = restarts + 1
    /\ execute' \in BOOLEAN
    /\ seen' = {} /\ watcher' = Idle
    /\ contracts' = Unawaited
    /\ known' = [i \in Incidents |-> None]
    /\ runner' = Idle
    /\ tracking' = {}
    /\ UNCHANGED <<ledger, asked, dropped, wireVars, patches, signVars, decisions,
                   losses>>

Watch ==
    \/ \E i \in Incidents : markNew(i)
    \/ \E h \in Hashes : collect(h)
    \/ collectFails \/ giveUp \/ Remember

Decide ==
    \/ \E q \in asked, d \in Decisions, a \in Actions : checkDecision(q, d, a)
    \/ \E l \in deciding, delay \in Delays : writeDecision(l, delay)

RunOnce ==
    \/ poll \/ handle \/ rest \/ report \/ reported
    \/ \E status \in {"executed", "failed"} : apply(status)

Brain ==
    \/ \E c \in contracts :
          loseContract(c) \/ \E a \in Actions \cup NoRecord : diagnose(c, a)
    \/ \E m \in executions :
          checkExecution(m) \/ writeExecution(m) \/ loseExecution(m)
    \/ \E m \in resolutions : checkResolution(m) \/ writeResolution(m)

Next ==
    \/ Watch
    \/ Decide
    \/ RunOnce
    \/ Brain
    \/ \E i \in tracking, resolved \in BOOLEAN : Track(i, resolved)
    \/ Restart

Spec == Init /\ [][Next]_vars

(* The runner polls for ever and the brain serves what reaches it *)
Fairness == WF_vars(RunOnce) /\ WF_vars(Brain)

FairSpec == Spec /\ Fairness

-----------------------------------------------------------------------------
(***************************************************************************)
(* What the two halves promise.                                            *)
(***************************************************************************)

(* Nothing is done to a workload but what somebody authorised for exactly  *)
(* that incident and that evidence, in those words: whatever was lost,     *)
(* restarted, diagnosed again or read long before it was acted on, every   *)
(* patch rests on a token the brain signed for its very fields, and none   *)
(* is applied by an agent that was started without --execute               *)
(* (Runner.handle, Verify, Executor.Execute).                              *)
AppliedWasAuthorised ==
    [][Len(patches') > Len(patches) =>
          LET p == patches'[Len(patches')] IN
          /\ execute
          /\ p.action \in Executable
          /\ p.token \in issued
          /\ p.token.incident = p.incident /\ p.token.hash = p.hash
          /\ p.token.decision = p.decision /\ p.token.action = p.action]_vars

(* No token is ever used for two patches                                   *)
UsedOnce ==
    \A m, n \in 1 .. Len(patches) :
        patches[m].token = patches[n].token => m = n

(* As long as no request is lost or times out and the agent does not       *)
(* restart, one approval makes one patch, although the listing that brings *)
(* it up again is polled for ever (Runner.RunOnce, Ledger.approved).       *)
Calm == losses = 0 /\ restarts = 0

AppliedOnceInCalm == Calm => UsedOnce

(* The ledger tells what happened to the workload. A row that says         *)
(* executed stands for an incident that was patched, always; and as long   *)
(* as its decision has not been written over another, it is that decision  *)
(* which was applied, while a row that says proposed or refused holds one  *)
(* that was not, whichever reports were lost or served late. For the       *)
(* second part a second diagnosis, which takes a restart, is left out:     *)
(* reports name no diagnosis. (Runner.report, Ledger.record_execution.)    *)
Applied(tok) == \E n \in 1 .. Len(patches) : patches[n].token = tok

Patched(i) == \E n \in 1 .. Len(patches) : patches[n].incident = i

ExecutionIsHonest ==
    \A i \in Incidents : Recorded(i) =>
        /\ ledger[i].execution = "executed" => Patched(i)
        /\ restarts = 0 /\ i \notin overruled =>
              /\ ledger[i].execution = "executed" => Applied(ledger[i].token)
              /\ ledger[i].execution \in {"proposed", "refused"} =>
                     ~Applied(ledger[i].token)

(* A finished row stays as it is while nothing is lost or late             *)
(* (Ledger.record_execution: in the forward direction only).               *)
FinalInCalm ==
    [][Calm' => \A i \in Incidents :
          Recorded(i) /\ ledger[i].execution \in Terminal =>
              ledger'[i].execution = ledger[i].execution]_vars

(* Every approval is acted on in the end, and the ledger says how, though  *)
(* requests are lost and the agent restarts.                               *)
EveryApprovalIsActedOn ==
    \A i \in Incidents :
        Authorised(i) ~> ~Authorised(i) \/ ledger[i].execution # None

(* A failure that is marked as seen is not sent again by this process.     *)
(* Once its evidence is collected, its verdict is recorded in the end,     *)
(* although the sender times out or its process ends before the brain      *)
(* answers; only a collection that failed or a request that was lost       *)
(* leaves it marked and never explained (markNew, emitOne, handle).        *)
SeenIsDiagnosed ==
    \A i \in Incidents :
        i \in seen /\ watcher # [pc |-> "collect", incident |-> i] ~>
            Recorded(i) \/ i \in dropped

(***************************************************************************)
(* What a comment in the source says and the code does not keep.           *)
(***************************************************************************)

(* The runner acts on each approved incident exactly once (the comment on  *)
(* Runner): no approval is applied twice.                                  *)
AppliedOnce == UsedOnce
=============================================================================
