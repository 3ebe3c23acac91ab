----------------------------- MODULE Diagnosis -----------------------------
(***************************************************************************)
(* The diagnosis pipeline: classify, evidence_gate, diagnose, validate and *)
(* the terminals, run by several requests at once over one model client.   *)
(*                                                                         *)
(* A model call runs on a thread of its own. The pipeline waits for it     *)
(* until the deadline of the whole run and then abandons it; the thread    *)
(* goes on and may still write the client's last_usage, which every run    *)
(* reads. Time is in half seconds.                                         *)
(***************************************************************************)
EXTENDS Evidence, Validator

CONSTANTS
    Runs,           \* diagnosis requests, one incident each
    Contracts,      \* the contracts that may arrive
    Payload,        \* contract -> the same as the JSON the model is shown
    Answers,        \* diagnoses the model may produce
    Malformed,      \* model output that does not parse against the schema
    None,
    Threshold,      \* abstention_threshold, in percent
    MaxRetries,     \* max_retries
    Deadline,       \* model_deadline: for all attempts of a run together
    Waits,          \* waits a rate limit may ask for
    MaxRetryAfter,  \* MAX_RETRY_AFTER
    Usages,         \* tokens one model call may report
    Prompt,         \* TRUE: code runs in no time against the clock
    MaxTime         \* bound on the clock

Margin == 2  \* wait + 1.0 must fit into the budget
Pad    == 1  \* wait + 0.5 is slept

(* What the validator reads of a diagnosis: its citations, and its prose,  *)
(* cut into spans by the quote marks in it                                 *)
DiagnosisOutput ==
    [confidence: 0 .. 100, evidence: Seq(Citation), prose: Seq(Text)]

VARIABLES
    now,        \* the monotonic clock
    run,        \* request -> the pipeline's state for it
    usage,      \* client.last_usage, shared by all runs
    abandoned,  \* model calls that nobody waits for any more
    row,        \* request -> what its ledger row records, or None
    reply,      \* request -> the response, or None
    spent       \* history: request -> tokens its own answered calls used

vars == <<now, run, usage, abandoned, row, reply, spent>>

Terminals == {"diagnosed", "insufficient", "discarded"}

Result ==
    [error: BOOLEAN, wait: Nat \cup {None},
     text: DiagnosisOutput \cup {Malformed, None}]

Run ==
    [pc: {"idle", "gate", "diagnose", "calling", "settled", "sleeping",
          "validate", "recorded", "told"} \cup Terminals,
     contract: Contracts \cup {None},
     attempts: Nat, calls: Nat,
     started: Nat,   \* started_at
     wakes: Nat,     \* when a rate limit's sleep is over
     result: Result \cup {None},
     diagnosis: DiagnosisOutput \cup {None},
     failures: BOOLEAN,  \* validation_failures is not empty
     final: 0 .. 100 \cup {None},  \* confidence_final
     tokens: Nat]

Outcomes == {"DIAGNOSED", "INSUFFICIENT_CONTEXT", "DISCARDED"}

LedgerEntry ==
    [outcome: Outcomes,
     diagnosis: DiagnosisOutput \cup {None}, final: 0 .. 100 \cup {None},
     retries: Nat, tokens: Nat]

ASSUME DiagnosisAssumption ==
    /\ Contracts \subseteq Contract
    /\ DOMAIN Payload = Contracts
    /\ \A c \in Contracts : collected_text(Payload[c]) \in Text
    /\ Answers \subseteq DiagnosisOutput
    /\ Malformed \notin DiagnosisOutput
    /\ None \notin Contract \cup DiagnosisOutput \cup Nat
    /\ None \notin LedgerEntry \cup [approvable: BOOLEAN]
    /\ None \notin [outcome: Outcomes, final: 0 .. 100 \cup {None}]
    /\ Threshold \in 1 .. 100
    /\ MaxRetries \in Nat
    /\ Deadline \in Nat \ {0}
    /\ Waits \subseteq Nat
    /\ MaxRetryAfter \in Nat
    /\ Usages \subseteq Nat
    /\ Prompt \in BOOLEAN
    /\ MaxTime \in Nat

TypeOK ==
    /\ now \in Nat
    /\ run \in [Runs -> Run]
    /\ usage \in Nat
    /\ abandoned \in Nat
    /\ row \in [Runs -> LedgerEntry \cup {None}]
    /\ reply \in [Runs -> [approvable: BOOLEAN] \cup {None}]
    /\ spent \in [Runs -> Nat]

Start ==
    [pc |-> "idle", contract |-> None, attempts |-> 0, calls |-> 0,
     started |-> 0, wakes |-> 0, result |-> None, diagnosis |-> None,
     failures |-> FALSE, final |-> None, tokens |-> 0]

Init ==
    /\ now = 0
    /\ run = [r \in Runs |-> Start]
    /\ usage = 0
    /\ abandoned = 0
    /\ row = [r \in Runs |-> None]
    /\ reply = [r \in Runs |-> None]
    /\ spent = [r \in Runs |-> 0]

Cap(r) == ceiling(classify_evidence(run[r].contract))

(* The end of the run's budget, and the step from one state to the next *)
Ends(r) == run[r].started + Deadline

Becomes(r, s) == run' = [run EXCEPT ![r] = s]

-----------------------------------------------------------------------------
(* A contract arrives; only runs whose deadline fits the clock are started *)
classify(r, c) ==
    /\ run[r].pc = "idle"
    /\ now + Deadline < MaxTime
    /\ Becomes(r, [Start EXCEPT !.pc = "gate", !.contract = c, !.started = now])
    /\ UNCHANGED <<now, usage, abandoned, row, reply, spent>>

evidence_gate(r) ==
    /\ run[r].pc = "gate"
    /\ Becomes(r, [run[r] EXCEPT !.pc = IF gate(run[r].contract)
                                        THEN "insufficient" ELSE "diagnose"])
    /\ UNCHANGED <<now, usage, abandoned, row, reply, spent>>

(* A new attempt, with what is left of the run's deadline *)
diagnose(r) ==
    /\ run[r].pc = "diagnose"
    /\ Becomes(r, IF now < Ends(r)
                  THEN [run[r] EXCEPT !.pc = "calling", !.attempts = @ + 1,
                                      !.calls = @ + 1]
                  ELSE [run[r] EXCEPT !.pc = "discarded", !.attempts = @ + 1])
    /\ UNCHANGED <<now, usage, abandoned, row, reply, spent>>

(***************************************************************************)
(* _call_with_deadline: the call's thread reports an answer or an error,   *)
(* which for a rate limit says how long to wait; or the pipeline gives up. *)
(***************************************************************************)
Settled(r, error, wait, text) ==
    [run[r] EXCEPT !.pc = "settled",
                   !.result = [error |-> error, wait |-> wait, text |-> text]]

complete_json(r, text, u) ==
    /\ run[r].pc = "calling"
    /\ usage' = u
    /\ spent' = [spent EXCEPT ![r] = @ + u]
    /\ Becomes(r, Settled(r, FALSE, None, text))
    /\ UNCHANGED <<now, abandoned, row, reply>>

refuse(r, wait) ==
    /\ run[r].pc = "calling"
    /\ Becomes(r, Settled(r, TRUE, wait, None))
    /\ UNCHANGED <<now, usage, abandoned, row, reply, spent>>

(* ModelUnavailableError: the run is discarded, with _spent's tokens *)
Discarded(r) ==
    [run[r] EXCEPT !.pc = "discarded", !.result = None, !.tokens = @ + usage]

(* Fault: the deadline is looked at only when the call has returned *)
abandonLate(r) ==
    /\ run[r].pc = "settled"
    /\ now >= Ends(r)
    /\ Becomes(r, Discarded(r))
    /\ UNCHANGED <<now, usage, abandoned, row, reply, spent>>

abandon(r) ==
    /\ run[r].pc = "calling"
    /\ now >= Ends(r)
    /\ Becomes(r, Discarded(r))
    /\ abandoned' = abandoned + 1
    /\ UNCHANGED <<now, usage, row, reply, spent>>

lateAnswer(u) ==
    /\ abandoned > 0
    /\ abandoned' = abandoned - 1
    /\ usage' = u
    /\ UNCHANGED <<now, run, row, reply, spent>>

(* Fault: a wait needs no margin for what comes after it *)
WaitableTight(r, wait) ==
    /\ wait # None
    /\ wait <= MaxRetryAfter
    /\ now + wait <= Ends(r)

(* Only a rate limit is waited for, and only inside the deadline *)
Waitable(r, wait) ==
    /\ wait # None
    /\ wait <= MaxRetryAfter
    /\ now + wait + Margin <= Ends(r)

(* Fault: output that does not parse is kept as the diagnosis *)
ParsedRaw(r, text) ==
    [run[r] EXCEPT !.pc = "validate", !.result = None, !.tokens = @ + usage,
                   !.diagnosis = text]

Parsed(r, text) ==
    [run[r] EXCEPT !.pc = "validate", !.result = None, !.tokens = @ + usage,
                   !.diagnosis = IF text = Malformed THEN None ELSE text,
                   !.failures = @ \/ text = Malformed]

receive(r) ==
    LET res == run[r].result IN
    /\ run[r].pc = "settled"
    /\ Becomes(r, IF ~res.error THEN Parsed(r, res.text)
                  ELSE IF Waitable(r, res.wait)
                  THEN [run[r] EXCEPT !.pc = "sleeping", !.result = None,
                                      !.wakes = now + res.wait + Pad]
                  ELSE Discarded(r))
    /\ UNCHANGED <<now, usage, abandoned, row, reply, spent>>

wake(r) ==
    /\ run[r].pc = "sleeping"
    /\ now >= run[r].wakes
    /\ Becomes(r, IF now < Ends(r)
                  THEN [run[r] EXCEPT !.pc = "calling", !.calls = @ + 1]
                  ELSE Discarded(r))
    /\ UNCHANGED <<now, usage, abandoned, row, reply, spent>>

-----------------------------------------------------------------------------
(***************************************************************************)
(* validate_node and _after_validate: what fails the validator is tried    *)
(* again, then abstained on.                                               *)
(***************************************************************************)
verified(r) == validate(run[r].diagnosis, Payload[run[r].contract])

MinOf(a, b) == IF a < b THEN a ELSE b

(* Fault: the model's own confidence is not capped *)
ValidatedUncapped(r) ==
    LET d == run[r].diagnosis IN
    IF d = None THEN run[r]
    ELSE IF ~verified(r) THEN [run[r] EXCEPT !.failures = TRUE]
    ELSE [run[r] EXCEPT !.failures = FALSE, !.final = d.confidence]

Validated(r) ==
    LET d == run[r].diagnosis IN
    IF d = None THEN run[r]
    ELSE IF ~verified(r) THEN [run[r] EXCEPT !.failures = TRUE]
    ELSE [run[r] EXCEPT !.failures = FALSE, !.final = MinOf(d.confidence, Cap(r))]

(* Fault: one retry fewer than configured *)
AfterValidateShort(s) ==
    IF s.diagnosis = None \/ s.failures
    THEN IF s.attempts < MaxRetries THEN "diagnose" ELSE "insufficient"
    ELSE IF s.final < Threshold THEN "insufficient" ELSE "diagnosed"

AfterValidate(s) ==
    IF s.diagnosis = None \/ s.failures
    THEN IF s.attempts <= MaxRetries THEN "diagnose" ELSE "insufficient"
    ELSE IF s.final < Threshold THEN "insufficient" ELSE "diagnosed"

validate_node(r) ==
    /\ run[r].pc = "validate"
    /\ Becomes(r, [Validated(r) EXCEPT !.pc = AfterValidate(Validated(r))])
    /\ UNCHANGED <<now, usage, abandoned, row, reply, spent>>

-----------------------------------------------------------------------------
(***************************************************************************)
(* A terminal and _record: the row carries the diagnosis and its           *)
(* confidence only when there is one to act on. Then build_response        *)
(* decides again, from the same state, whether the verdict is approvable.  *)
(***************************************************************************)
Outcome(pc) ==
    IF pc = "diagnosed" THEN "DIAGNOSED"
    ELSE IF pc = "insufficient" THEN "INSUFFICIENT_CONTEXT" ELSE "DISCARDED"

Entry(s) ==
    LET kept == s.pc = "diagnosed"
    IN  [outcome |-> Outcome(s.pc),
         diagnosis |-> IF kept THEN s.diagnosis ELSE None,
         final |-> IF kept THEN s.final ELSE None,
         retries |-> IF s.attempts = 0 THEN 0 ELSE s.attempts - 1,
         tokens |-> s.tokens]

record(r) ==
    /\ run[r].pc \in Terminals
    /\ row' = [row EXCEPT ![r] = Entry(run[r])]
    /\ Becomes(r, [run[r] EXCEPT !.pc = "recorded"])
    /\ UNCHANGED <<now, usage, abandoned, reply, spent>>

build_response(r) ==
    /\ run[r].pc = "recorded"
    /\ reply' = [reply EXCEPT ![r] =
           [approvable |-> /\ row[r].outcome = "DIAGNOSED"
                           /\ run[r].final # None
                           /\ run[r].final >= Threshold]]
    /\ Becomes(r, [run[r] EXCEPT !.pc = "told"])
    /\ UNCHANGED <<now, usage, abandoned, row, spent>>

-----------------------------------------------------------------------------
(* What the pipeline's own code does, as against the model and the clock *)
Proceed(r) ==
    \/ evidence_gate(r) \/ diagnose(r) \/ abandon(r) \/ receive(r)
    \/ wake(r) \/ validate_node(r) \/ record(r) \/ build_response(r)

Busy(r) ==
    \/ run[r].pc \in {"gate", "diagnose", "settled", "validate", "recorded"}
                         \cup Terminals
    \/ run[r].pc = "calling" /\ now >= Ends(r)
    \/ run[r].pc = "sleeping" /\ now >= run[r].wakes

Tick ==
    /\ now < MaxTime
    /\ Prompt => \A r \in Runs : ~Busy(r)
    /\ now' = now + 1
    /\ UNCHANGED <<run, usage, abandoned, row, reply, spent>>

Next ==
    \/ \E r \in Runs, c \in Contracts : classify(r, c)
    \/ \E r \in Runs : Proceed(r)
    \/ \E r \in Runs, text \in Answers \cup {Malformed}, u \in Usages :
          complete_json(r, text, u)
    \/ \E r \in Runs, wait \in Waits \cup {None} : refuse(r, wait)
    \/ \E u \in Usages : lateAnswer(u)
    \/ Tick

Spec == Init /\ [][Next]_vars

(***************************************************************************)
(* The pipeline's threads run and time passes. The model need not answer.  *)
(***************************************************************************)
Fairness == WF_vars(Tick) /\ \A r \in Runs : WF_vars(Proceed(r))

FairSpec == Spec /\ Fairness

-----------------------------------------------------------------------------
(***************************************************************************)
(* What the pipeline promises.                                             *)
(***************************************************************************)

(* A row that says DIAGNOSED carries a diagnosis all of whose citations    *)
(* stand in the contract it was made from, at a confidence that neither    *)
(* the model nor its evidence class exceeds and the threshold admits,      *)
(* however many attempts went before (_diagnose, validate_node, validate). *)
DiagnosedIsVerified ==
    \A r \in Runs : row[r] # None /\ row[r].outcome = "DIAGNOSED" =>
        LET d == row[r].diagnosis IN
        /\ d # None
        /\ d.evidence # <<>>
        /\ \A k \in DOMAIN d.evidence :
              Stands(Payload[run[r].contract], d.evidence[k])
        /\ row[r].final <= d.confidence
        /\ row[r].final <= Cap(r)
        /\ row[r].final >= Threshold

(* And it quotes nothing that was never logged or reported, as far as its  *)
(* quotations are long enough to be checked (validate, _QUOTED).           *)
QuotedWasCollected ==
    \A r \in Runs : row[r] # None /\ row[r].outcome = "DIAGNOSED" =>
        NothingMadeUp(Payload[run[r].contract], row[r].diagnosis.prose)

(* A contract in which nothing names a cause never reaches the model: a    *)
(* crash loop without a log body, whatever its exit code, and a container  *)
(* killed during init without a word of memory (evidence.gate).            *)
NoSignal(c) ==
    \/ c.failure = "CrashLoopBackOff" /\ c.logs # "usable"
    \/ c.failure = "OOMKilledDuringInit" /\ c.memoryLimit /\ ~c.oomMarker

NoSignalNoCall ==
    \A r \in Runs : run[r].calls > 0 => ~NoSignal(run[r].contract)

(* The other way round: a run is abstained on only if it had no signal, if *)
(* all its attempts failed validation, or if a verified diagnosis stayed   *)
(* below the threshold; and there is no attempt too many (_after_validate). *)
AbstainsForAReason ==
    \A r \in Runs :
        /\ run[r].attempts <= MaxRetries + 1
        /\ row[r] # None /\ row[r].outcome = "INSUFFICIENT_CONTEXT" =>
               \/ NoSignal(run[r].contract) /\ run[r].attempts = 0 /\ row[r].tokens = 0
               \/ run[r].final = None /\ run[r].attempts = MaxRetries + 1
               \/ run[r].final # None /\ run[r].final < Threshold

(* No run, with all its attempts and rate-limit waits, is still on the     *)
(* model when its deadline is over, if code takes no time                  *)
(* (_call_with_deadline: every wait must fit what is left).                *)
EndsByDeadline ==
    Prompt => \A r \in Runs :
        run[r].pc \notin {"idle", "recorded", "told"} =>
            now <= Ends(r) /\ (run[r].pc = "sleeping" => run[r].wakes < Ends(r))

(* Every request is answered, even if the model never does.                *)
EveryRunIsAnswered ==
    \A r \in Runs : run[r].pc # "idle" ~> run[r].pc = "told"

(* The pipeline keeps the promise of Verdicts, and keeps it for every      *)
(* step: one verdict a request, recorded first, told once, never revised.  *)
V == INSTANCE Verdicts WITH
         ceilings <- [r \in Runs |-> IF run[r].contract = None THEN None
                                     ELSE Cap(r)],
         verdicts <- [r \in Runs |-> IF row[r] = None THEN None
                                     ELSE [outcome |-> row[r].outcome,
                                           final |-> row[r].final]],
         told <- [r \in Runs |-> IF reply[r] = None THEN None
                                 ELSE reply[r].approvable]

KeepsItsPromise == V!Spec

(***************************************************************************)
(* What a comment in the source says and the code does not keep.           *)
(***************************************************************************)

(* The tokens of a row are those of the model calls its incident made      *)
(* (ledger.py, schema 6: summed over every call, retries included).        *)
TokensAreItsOwn ==
    \A r \in Runs : row[r] # None => row[r].tokens = spent[r]
=============================================================================
