# Coroner: models and proofs

Coroner explains why a Kubernetes workload failed and, if a human approves,
repairs it. An agent in the cluster watches pods, collects a *contract* of
evidence and sends it to a brain; the brain asks a model for a diagnosis,
verifies every citation, records a verdict and, if the verdict is strong
enough, parks it as a question to a human. A decision comes back as a signed
approval; the agent verifies it, plans, patches, reports and tracks recovery.
This directory holds TLA+ modules of that system, the TLC runs that check them
and machine-checked proofs. `PROJECT.json` is the index: which definition
models which lines, what each run checks, which property covers which hazard.

## The system

| component (source) | state | operations | talks to | what makes it correct |
|---|---|---|---|---|
| ledger (`brain/.../ledger.py`) | one SQLite row per incident; the schema version | record, label (decision, rating, actual cause), record_execution, record_resolution, approved, get; opening with migrations | called by everything in the brain | labels written once, statuses only forward, no column missing |
| approval pipeline (`approval.py`) | none of its own | register, decide = load, check, record; expire_overdue | in-flight store, ledger, clock | a token for exactly what was decided, before its deadline, on what was asked |
| in-flight store (`inflight.py`) | questions with a time to live, in Redis or memory | put, get, delete, ids | approval pipeline | held until decided or overdue |
| endpoints and sweeper (`api.py`) | a thread pool, an event loop (Slack), a sweeper thread | diagnose, decision, rating, actual cause, approved, execution, resolution, Slack interactions | all of the above | every question is decided, every click answered in the end |
| diagnosis graph (`graph.py`) | one LangGraph state a request; one client for all | classify, gate, diagnose, validate, terminals, run | model client, ledger | never an unverified or overconfident diagnosis; ends by its deadline |
| evidence (`evidence.py`) | none | classify_evidence, ceiling, gate | graph | no model call without a causal signal |
| validator (`validate.py`) | none | resolve_citation, validate | graph | a fabricated citation fails |
| model client (`llm.py`) | `last_usage`, shared | complete_json | provider | |
| sinks, Slack (`sink.py`, `slack.py`) | the channel's messages and open modals | deliver, buttons, modals, refresh | humans | an approve control only where approval is offered; a message tells what is recorded and takes nothing back |
| runner (`agent/.../remediate/runner.go`) | `Known` hashes | RunOnce, handle, Track | brain client, executor, resolver | nothing unauthorised is applied |
| executor, planner (`execute.go`, `plan.go`) | none | Build, Execute | Kubernetes | no patch without `--execute` |
| resolver (`resolve.go`) | one goroutine an execution | ready, Track | Kubernetes | resolved means ready in time and stayed so, of the new pods |
| agent main (`main.go`) | set of seen incident ids | watch, emitOne, handle | collector, brain client | each occurrence is sent once |
| evaluation harness (`eval/run.py`) | `contracts.jsonl`, the cluster, the ledger | collect, diagnose, score | agent's scan, brain, Kubernetes | each incident counted once, no verdict lost or bought twice |
| classifier, collector (`classify`, `collect`) | none | ContainerAt, WithEvents, Collect | Kubernetes | a failure is named for its cause, told once, and not mixed with another run's |
| redaction (`redact`) | none | Text | collector | |

What is hard here is concurrency over rows nobody locks (every ledger method
opens its own connection, and those that check before they write do so in two
transactions), incident ids that outlive the diagnosis made under them, a
store whose records have a deadline and a time to live, model calls abandoned
but not stopped, and reports that get lost or arrive late. `hazards` in
`PROJECT.json` lists each at its line.

## Modules

| module | models | built on |
|---|---|---|
| `Ledger` | rows, tokens and what each ledger method reads and writes | |
| `Approvals` | approval pipeline, store, sweeper, decision requests | `Ledger` |
| `ApprovalsProofs` | theorems about `Approvals` | `Approvals`, TLAPS |
| `Evidence` | evidence classes, ceilings, the gate | |
| `Verdicts` | abstract: what a diagnosis request promises | |
| `Validator` | citations, paths, quotations: what passes the mechanical check | |
| `Diagnosis` | the graph, the model call and its deadline; implements `Verdicts` | `Evidence`, `Validator` |
| `DiagnosisProofs` | theorems about `Evidence`, `Validator` and `Diagnosis` | `Diagnosis`, TLAPS |
| `Remediation` | agent watcher, runner, resolver ends, brain's side of reports | `Ledger` |
| `RemediationProofs` | theorems about `Remediation` | `Remediation`, TLAPS |
| `Messages` | Slack messages, clicks, modals, ratings and causes | |
| `MessagesProofs` | theorems about `Messages` | `Messages`, TLAPS |
| `Schema` | opening and migrating the ledger | |
| `SchemaProofs` | theorems about `Schema` | `Schema`, TLAPS |
| `Resolver` | `ready` and `Track` against a lagging controller | |
| `ResolverProofs` | theorems about `Resolver` | `Resolver`, TLAPS |
| `Evaluation` | the phases of the harness, killed and resumed | |
| `EvaluationProofs` | theorems about `Evaluation` | `Evaluation`, TLAPS |
| `Detection` | from a container's statuses to a contract: classification, seen ids, collection | |
| `DetectionProofs` | theorems about `Detection` | `Detection`, TLAPS |
| `MCApprovals`, `MCDiagnosis`, `MCRemediation`, `MCParts` | small instances for TLC; `MCParts` holds `Messages`, `Schema`, `Resolver`, `Evaluation` and `Detection` side by side | |

Definitions keep the names of the functions they model. Operators marked
`Fault:` are deliberately wrong variants; `mutants` in `PROJECT.json` puts each
in place of the right one and expects the named property to fail.

### Ledger and Approvals

A row holds what other components can tell apart: the context hash, the
proposal, the decision with its time, action and token, the execution status
and the resolution. A token is the record of the fields the HMAC signs: two
tokens are equal exactly if their fields are, which is what an unforged MAC
provides. The store is a function from incidents to questions; its own expiry
is `Linger` ticks after the deadline (the record is put for `2 * ttl + 60 s`).

`register` and `deliver` follow the recording of a verdict, each a step of a
worker thread. A decision is `load` (with `Submit` or `expire`), `check`,
`labelRead`, `labelWrite`, `clear`: between any two the thread may be
preempted, another thread may decide, the sweeper may run, the same incident
may be diagnosed again, and the process may die. Each clock reading is part of
the step that uses it. The late human whose own request records the expiry
takes the same path with the decision replaced. Only `load`'s second read (of
the ledger, to word a refusal) shares a step with its first.

### Evidence, Validator, Verdicts and Diagnosis

A contract is the tuple of facts `classify_evidence` and `gate` read, so the
model ranges over every contract they can distinguish; `Payload` gives the JSON
that is checked against. A diagnosis is its confidence, its citations and its
prose. `Validator` decides which pass: JSON is a tree of strings, scalars, lists
and objects, a text a sequence of letters, where a letter is anything the code
never takes apart, and white space, quote marks and escapes are letters of
their own. Paths, `_normalise`, `_unescape`, the exact and the excerpt
comparison and the quotation regex are translated step by step; `Stands` and
`NothingMadeUp` say what they are for. `_call_with_deadline` is a call
(`calling`), settled by an answer or an error, abandoned at the deadline, or
slept on for a rate limit; an abandoned call may still answer and write
`last_usage`. Time is in half seconds, so that the code's 1.0 s margin and
0.5 s padding are `Margin = 2` and `Pad = 1`. `KeepsItsPromise` is the
refinement: under the mapping in `Diagnosis`, every behaviour is one of
`Verdicts`.

### Remediation

One agent process with watcher, runner and resolvers; the brain checks and
writes reports in two steps. Contracts and reports in flight are sets, so they
are reordered freely; they may be lost, their caller may time out and go on, or
die, while the brain serves them. A restarted agent starts with empty memory
and may be given or denied `--execute`.

The watcher handles one event at a time, as client-go does: it marks the id
(`markNew`), collects (`collect`, or `collectFails`), posts, and waits for the
answer (`diagnose` with `Reply`, `loseContract`, `giveUp` at the timeout) before
it remembers the hash. A process that ends between marking and posting sends
nothing; a contract that is posted is served even if nobody waits any more.

How a question is parked and reaches a human is left to `Approvals`: here any
question a verdict ever raised may be answered at any time, by anybody, also
after another verdict has replaced it. The two transactions of `Ledger.label`
stay apart (`checkDecision`, `writeDecision`), so several answers may pass the
check and each write over the other, also over a row that was executed
meanwhile; `overruled` remembers where. The token signs the question's hash and
the time of the check, the row's time may lie `Delays` later.

### Messages

`slack_interactions` is an `async` function without an `await` after the body is
read, so the event loop runs it whole for one click before it takes the next
(`LoopIsFree`); verdicts, the JSON endpoints and the sweeper run on threads
beside it. A handler acts (`Decide`, `CheckLabel` then `UpdateLabel`,
`OpenView`), reads the row back (`ReadRow`) and redraws the message (`Update`),
or posts a note. Between any two of these a thread may write the row.

Whoever decides, the event loop, a JSON thread or the sweeper, is an entry of
`deciders` and goes through the steps of `ApprovalPipeline.decide`: `load` (with
`check`), `labelRead`, `labelWrite`, and `clear`, which deletes whatever is
parked by then. The sweeper lists what is late (`list`), decides it (`expire`)
and deletes what it could not decide (`discard`). So a question that is parked
again while a decision or a sweep about the one before it is under way may
vanish undecided; `overlapped` remembers for which incidents that can be, and
`RefusedForAReason` says that there is no other such case. What a decision
contains, and the store's own time to live, are only in `Approvals`. A message
is the incident, the serial of the verdict it is about, its buttons and the
lines that tell what is recorded. Slack may fail to answer any call, refuse or
lose any click, and offer a stale button for ever.

### Schema

`file` is what SQLite has committed, `opener` the one process that opens it and
its own view. Python's `sqlite3` commits each CREATE and ALTER by itself unless
an INSERT or UPDATE has begun a transaction: this is what makes a kill between
two statements leave a half-migrated file. Releases may follow each other in
any order.

### Resolver

The tracker sees the status its controller last wrote, which may be about the
replaced pods, an older generation, or a rollout under way; pods come, go and
become ready or not at any time, and somebody may change the workload again. A
tick is a part of the poll interval. `object.sound` and `stretch` are history:
what was true of the pods when the status was written, and how long it was bad.

### Evaluation

One phase at a time, killed at any step and run again; a `/diagnose` request
left behind is still answered by the brain. A failing pod fails again with a
new incident id. Discards are told apart by what their text, which is the
provider's, lets `diagnose` read: whether it is at a token limit
(`Settled`, run.py:157) and whether it names a wait (`Waits`, run.py:138); the
two are independent, so there are four kinds. The catalogue and whether an
answer is right are constants and choices.

### Detection

One container is run by its kubelet and dies; `StatusNow` is what the kubelet
writes of it. A container that has just died still shows the death before as its
last one, which is why classification, which looks at the last one first, may be
about that. Statuses wait in a queue, as client-go calls a handler from one
goroutine, and a resync delivers one again. `markNew` classifies the first of
them and takes its id; the events and the logs are read in later steps, by when
the container may be in another run. A termination is its reason, whether its
message names memory, and its exit code as far as a rule looks at it; deaths are
numbered, so that a contract's logs can be compared with the death it reports.
`told` is history.

## Runs

Bounds are the constants in each `.cfg`; `MaxTime`, `MaxDiagnoses`,
`MaxCrashes`, `MaxDecisions`, `MaxLosses`, `MaxRestarts`, `MaxEvents`, `MaxRuns`
and `MaxSteps` bound counters.
`CHECK_DEADLOCK FALSE` stands where those bounds end every behaviour.

| run | asks | bounds, and why they suffice |
|---|---|---|
| `ApprovalsRace` | is every authorisation, token, expiry and answer right under any race? | two requests, the sweeper and a restart on one incident diagnosed once; two texts, so an edit differs from the proposal; clock past the store's own expiry |
| `ApprovalsHeld` | is a question held until decided, and always decided? | as above with Redis, under fairness |
| `DiagnosisRuns` | is a verdict always verified, its quotations collected, its abstention justified, and all what `Verdicts` promises? | two runs sharing a client, one retry, an answer of each kind (true, false and split citations, escapes, excerpts, made-up quotations), a contract for each outcome of the gate |
| `DiagnosisDeadline` | does a run end by its deadline and get an answer? | deadline of several waits, model free never to answer, under fairness |
| `RemediationFaults` | is only the authorised applied, and honestly reported? | one incident, two pieces of evidence; two decisions, a loss or timeout, a restart, any three of these four in any order (`MaxEvents`): enough to replace a row under a pending approval, and to write one decision over another that was executed |
| `RemediationSettles` | is every approval acted on, and every failure whose evidence was collected explained unless its request is lost? | as above with one piece of evidence, under fairness |
| `Parts` | do messages, migrations, the resolver, the harness and the detection of failures keep what they promise? | one of the five moves in a behaviour. Messages: one incident, two verdicts, one JSON thread beside the loop and the sweeper, memory store, four events (verdicts, deadlines, clicks, JSON requests, restarts): a verdict, its deadline, a second verdict and a click are what a stale delete needs. Schema: the three releases of the source and four kills. Resolver: a Deployment with one surge pod and a DaemonSet, one pod wanted, a further change, windows of three ticks polled every two, so that the poll falls on either side of each. Evaluation: two pods of which one is diagnosable, batches of one, two failures each, four phases (collect killed, collect again, diagnose, score), eight phases, requests and failures in all. Detection: two deaths of five kinds (memory, an unexplained failure to start, one that names memory, a crash, a clean exit), a queue of one, so that a status may be one behind |
| `ApprovalsLabelRace`, `ApprovalsStaleButton`, `ApprovalsTokenTime`, `DiagnosisTokens`, `RemediationTwice` | does the code keep what its docs say? | the least that shows it does not; see below |

One incident is enough in the approval and message runs because no operation
reads or writes two incidents but the sweep, which treats them one by one; the
proofs hold for any number.

### Fairness

`Approvals`: every thread that can go on does, the sweep is restarted by its
loop for ever (`api.py:261-267` catches everything), time passes. `Punctual`
says that a sweep takes no time against the store's slack of one time to live
plus 60 s; without it a question can vanish undecided, which the code's
interval of seconds against a slack of minutes excludes. No human is ever
obliged to answer. `Diagnosis`: the pipeline's own thread goes on and time
passes; the model is owed nothing. `Prompt` says that code takes no time
against a deadline of minutes. `Remediation`: the runner polls for ever and the
brain serves or loses what it received; losses are bounded. Nothing is assumed
of the watcher: the Kubernetes client has no timeout, so a collection may hang,
and `SeenIsDiagnosed` begins where it has ended. `Messages`: the
event loop takes what arrived and goes on with what it took; nobody need click
and Slack need not answer. `Schema`: a brain that is not running is started and
runs, and kills are bounded. `Resolver`: the goroutine is scheduled and time
passes; pods and controller owe nothing. `Evaluation` assumes no fairness.

## Where code and documents disagree

Each is a run that TLC ends with a counterexample:

- `ApprovalsTokenTime`: a genuine approval's row holds another time than its
  token signs, because `check` and `Ledger.label` each read the clock. The
  agent verifies the token against the row's time, so it refuses the approval.
- `ApprovalsLabelRace`: two decisions pass `label`'s check before either
  writes; the second overwrites the first.
- `ApprovalsStaleButton`: an approve button names the incident and not the
  diagnosis, so an old message approves a newer proposal.
- `DiagnosisTokens`: a failed call adds the last successful call's tokens again.
- `RemediationTwice`: a patch whose report is lost is applied again.

Met while modelling, on larger bounds or restated, and kept as conditions of
the properties instead of runs of their own:

- a second diagnosis (`INSERT OR REPLACE`, `ledger.py:237`) erases a decision
  and what was executed, against `docs/DESIGN.md:602-603`; a restarted agent
  sends every failure again, so this takes no more than a restart;
- the sweeper's `delete` (`approval.py:229`), and the one that ends any decision
  (`approval.py:324`), removes, undecided and in time, a question that was parked
  again after the sweep or the decision about the old one began
  (`HeldUntilDecided` fails if `MaxDiagnoses` is 2, and `RefusedForAReason` has to
  except `overlapped`);
- a second decision that passed `label`'s check in time overwrites a row that has
  been executed meanwhile, so `executed` then stands beside a decision that was
  not applied, against `ledger.py:259-261` (`ExecutionIsHonest` excepts
  `overruled` from that part);
- an id is marked as seen before its evidence is collected, so a collection that
  fails leaves a failure this process never explains (`main.go:334`, `374`);
- `diagnose` retries a discard at the provider's token limit only if its text
  names a wait in hours, minutes or seconds; one in milliseconds alone ("345ms")
  is not read, and the phase ends with that row discarded
  (`eval/run.py:138`, `170-175`);
- a report served after its caller timed out moves a row out of a final status
  (`FinalInCalm` needs `Calm`), against `ledger.py:303-305`;
- a resolution can land on a fresh row if the incident is diagnosed again
  between `record_resolution`'s check and its write;
- a rating can land on a discarded row in the same way, against
  `NotRatableError` (`ledger.py:125-126`);
- the actual-cause endpoint reports success for a text of white space although
  nothing is recorded (`api.py:368-369`); Slack refuses one;
- a message redrawn after a second diagnosis shows the new verdict as recorded
  before that verdict's own message is delivered, and a decision that expires
  or comes over JSON does not redraw its message at all;
- a scalar can be cited by excerpt through its parent, whose JSON is longer than
  40 characters, against `validate.py:26-29`;
- after a quoted word shorter than 12 characters, the regex (`validate.py:32`)
  takes its closing mark for an opening one and checks the text between two
  quotations instead of the next one; a quotation may also straddle two texts
  that were collected separately;
- readiness may be accepted up to one poll after `ReadyWithin`
  (`resolve.go:30-32`), as the workload is looked at before the clock;
- one death is contracted under two incident ids, before and after the next run
  starts, because the restart count in the id grows with the start and not with
  the death, against `collect.go:459-460` ("the same failure occurrence produces
  the same identifier"); `IdSafety` proves that there are no more than two;
- while a container is between its death and its back-off, the death before is
  taken for the cause, against `classify.go:101-103`, if the two differ; the
  status of the back-off corrects it under another id (`FailureIsTold`);
- a kill can leave half a line in `contracts.jsonl`, on which the next phase
  fails, against "each resumable" (`eval/run.py:3`); the model writes lines
  whole.

## Proofs

TLAPS checks, for every value of the constants under the named assumptions
`LedgerAssumption` and `ApprovalsAssumption` (NULL differs from every value and
is no question, the sweeper is not a request, times are positive naturals):

- `TypeCorrectness`, `AuthorisationSafety`, `TokenSafety`, `ExpirySafety`, the
  first four invariants of `ApprovalsRace`, with any number of diagnoses of the
  same incident, restarts and racing threads.

None of the last three is inductive: `labelWrite` writes what its thread
carries, so something must be known of it. `IInv` adds that a parked question
was asked under its incident (`ParkedWasAsked`), that what a thread carries was
asked (`CarriedWasAsked`) and that past `check` its decision is one its
question allows (`CarriedIsAllowed`). `Invariance` proves `IInv` step by step,
one lemma for each group of actions. The rest follows from it.

- `AnswerSafety` and `HoldSafety`, of incidents that are diagnosed once, with any
  number of requests, sweeps and restarts; the second for a durable store.

Both fail when an incident is diagnosed again (see above), so their hypothesis is
`OnlyNew`: no verdict is recorded for an incident that has a row. The bound of the
runs, one diagnosis in all, implies it (`OneIsNew`); the theorems allow one for
every incident. The invariant
`OnceInv` says that then an incident has one question (`QuestionInv`), that the
decided incidents are exactly those whose question was answered (`AnswerInv`),
and, of each thread, that the question it is about to delete is answered, that a
sweep is about questions whose deadline has passed, and that whoever was told of
a decision was told of a decided row (`Settled`).

`DiagnosisProofs` does the same for the diagnosis pipeline, under
`DiagnosisAssumption` (the contracts, answers and waits have their types,
what `collected_text` gives of a payload is a text, as its signature says, the
threshold is a percentage above zero, `None` is none of the values), with any
number of requests sharing the client, any answers, refusals and clock:

- `GateIsNoSignal`: the gate's classes, ceilings and three rules abstain on
  exactly the contracts that `NoSignal` describes;
- `TypeCorrectness`, `NoSignalSafety`, `VerifiedSafety`, `QuoteSafety` and
  `AbstentionSafety`, all five invariants of `DiagnosisRuns`, and `DeadlineSafety`,
  that of `DiagnosisDeadline`;
- `Refinement`: the pipeline implements `Verdicts`. `classify` is its `Request`,
  `record` its `Conclude`, `build_response` its `Tell`, and every other step a
  stutter (`StepRefines`).

Again the properties are not inductive: a row is written from what the run
carries. The invariant `Good` relates, for one request, its state, its row and
its response. A request at the model had a signal; at the terminal `diagnosed`
it carries a verified diagnosis within its ceiling and above the threshold
(`Backed`); a row exists exactly from `recorded` on, a response exactly at
`told`; and the confidence `build_response` reads again is still the one
recorded, which is why it offers approval for exactly the recorded diagnoses.
`RunStep` reduces an action that moves one request to `Good` of its new state.

`ValidatedStands` says of the validator alone, for any JSON, citations and
limits, that what passes stands in the contract; `Backed` rests on it, so
`VerifiedSafety` is about the contract's contents and not about a flag.

`ValidatedQuotes` says the same of quotations, and it needs induction: `opens`,
which decides what mark opens a quotation, and `upto`, which builds a normalised
text, recur over positions. The library's induction rule cannot be used here,
but `LeastOf` and `UpTo` get it, for a set of positions, from the well-foundedness
of the naturals. `QuotesAreChecked` shows that the regex takes every odd mark for an
opening one when no span is too short; `NormaliseLetters` that normalising neither
loses a letter nor makes one up; `ExcerptLetters` that an excerpt has no other word.

A second invariant, `RInv`, says why a run ends and when: a run that will be
tried again has no final confidence and an attempt left, and the terminal
`insufficient` carries one of the three reasons (`Reasoned`); under `Prompt`, no
clock tick passes a deadline that the pipeline has yet to act on, and no sleep
reaches it (`Timed`).

`RemediationProofs`, under `LedgerAssumption` and `RemediationAssumption`, for
any incidents, losses, timeouts and restarts:

- `TypeCorrectness` and `AuthorisedSafety`: every patch rests on a token the
  brain signed for exactly its incident, evidence, decision and action, and is
  applied by an agent that executes.

What the runner applies it read from a listing long before, so the invariant
follows the row from the ledger into its hands: any row, wherever it is, holds a
token that was issued and, if decided, its time (`Sound`); and between the check
and the patch the check still holds (`ApplyIsAuthorised`), because nothing but
the end of the process changes `execute`.

- `HonestySafety`. That a row that says executed is of a patched incident holds of
  every behaviour (`ExecutedIsPatched`). The rest, which decision was applied,
  holds while the agent does not restart and of incidents whose decision was not
  written over another: what makes a report honest lies in the past, in the
  runner's memory of what it has done, so `History` follows it. An incident is
  diagnosed once, what the runner remembers agrees with the row, and every row,
  report in flight and patch is backed by what was done or not done for exactly
  that row's token (`RowsAreHonest`, `ReportsAreHonest`, `PatchesAreCurrent`).
  After a restart the memory is gone; after an overwrite, patches and reports are
  about a decision the row no longer holds.
- `OnceSafety` and `FinalSafety`, while nothing is lost or late and the agent does
  not restart (`Calm`), overwritten decisions included. `FreshLabels` says that a
  decision on its way has a token no row or patch has, and `Calmness` that a report
  in flight is the one the runner waits for, that what it has listed or holds is
  still unfinished, and that a patch of an unfinished row is the one in the
  runner's hands.

`MessagesProofs`, under `MessagesAssumption` and `DeciderAssumption`, for any incidents, messages,
concurrent threads and restarts:

- `ShadowSafety`, `RecordSafety`, `TellingSafety`, `RatingSafety`,
  `RefusalSafety`, the five safety properties `Parts` checks of `Messages`.

The key is an order: a message, the reading a handler redraws it from, and the
row, each later one *tells* all the earlier one does (`MessagesTold`,
`ReadingTells`); every write of a row only adds to what it tells or replaces its
verdict (`Grows`). `OneAtATime` makes the reading the latest; `RatesFirst` says
that a rating about to be written is the first.

`RefusalSafety` has an invariant of its own, `Offers`, because what deletes a
question began before it was parked. The question of a message that offers
approval was put, and is there or excused (`OffersWerePut`, `WorksWerePut`);
whoever is about to delete one deletes what is decided, gone, excused or not yet
put (`DeletesClosed`); what a sweep has listed and is open again is excused or
not yet put (`ListedLate`); and the loop refuses only what is excused
(`RefusesExcused`). Excused is what the property allows: decided, lost in a
restart, or `overlapped`. The theorem assumes that the store drops nothing by
its own time to live, which is `EveryQuestionIsDecided`'s subject.

`SchemaProofs`, under `SchemaAssumption`, for any releases, columns and kills:

- `StampHonest` and `OpenComplete`, the two invariants `Parts` checks;
- `AlterNeverCollides`: no ALTER meets a column that is there.

The invariant ties the opener's view to the file (equal outside a transaction)
and says of a migration that what is there and what is still to be added make
up the release, and do not overlap (`Migrating`).

`DetectionProofs`, under `DetectionAssumption`, for any deaths, any length of the
queue and any delay of the agent:

- `FailureSafety`, `LogSafety` and `BlameSafety`, the three properties `Parts`
  checks of `Detection`, and `IdSafety`.

A status is read long after it was written, so the invariant says of every death
somebody has read of, in the queue or in the collector, that the kubelet's last
death is that one or a later one (`Past`): logs are asked for by what is last
now. `Counted` ties a death to the restart count beside it, and `MarkedIsTold`
ties every marked id to a contract that was told or is being collected, perhaps
under the type that events refined it to.

`ResolverProofs`, under `ResolverAssumption` (only a Deployment surges; at least
one pod is wanted and the poll takes time), for any windows and any number of
pods, further changes and ticks:

- `AcceptanceSafety` and `FlapSafety`, the two safety properties `Parts` checks of
  `Resolver`.

The controller's counts do not name the pods they count, so `CountIsSound` is
arithmetic: with the pods bounded (`PodsAreBounded`), a Deployment with no
unavailable pod, or another kind with as many updated and ready pods as it wants,
has all its new pods ready. `StatusIsSound` carries that to the time when the
status is read, which a newer generation has not overtaken. `StretchIsSeen`
measures an unready stretch against the last poll, when the status was ready.

`EvaluationProofs`, under `EvaluationAssumption` (the catalogue is finite, a
batch is not empty, `Absent` is no row), for any catalogue, batches, failures and
kills:

- `CountSafety`, `CompletionSafety` and `VerdictSafety`, the three properties
  `Parts` checks of `Evaluation`.

A pod has one contract (`OncePerPod`) because what collect has still to do, waits
for or holds is of pods without one (`CollectIsFresh`), which a kill between
writing and deleting must leave true. `AskedIsOpen` says that a request in flight is
about an unsettled row or was left behind; `PassedIsComplete` that every contract
diagnose has passed has a row, which is not at the limit with a wait it could
read unless a request was left behind for it; `PhaseIsKnown` that an answer is
only awaited for a contract that is listed.

Every invariant and action property of the passing runs is stated by one of these
theorems. Only model-checked are the seven liveness properties
(`EveryQuestionIsDecided`, `EveryRunIsAnswered`, `EveryApprovalIsActedOn`,
`SeenIsDiagnosed`, `EveryClickIsAnswered`, `OpensAgain`, `TrackingEnds`): the
prover reasons neither about `ENABLED` nor about fairness. The counterexamples of
the `violation` runs are TLC's.

## Not modelled

Formatting, prompts, configuration, tracing, redaction, what a contract says of
owner, node and the container's spec, the layout of messages and the check of Slack's signature (a request
it refuses is one that is lost), the catalogue and the tables of the evaluation,
and deployment: no behaviour over time, or pure I/O. Rows older than schema 3,
which have no contract and are never redrawn; two brains that open one file at
once; a second failing container of a pod, which the first hides
(`classify.go:317-328`); last states the kubelet has forgotten; a DaemonSet that
surges; torn lines in the harness's files. An unset
approval secret only makes the agent refuse everything.

## Plan

1. The planner's quantities as a pure module against a reference definition; a
   pod of several containers in `Detection`.
2. `Approvals` refining the decisions of `Remediation` and of `Messages`, which
   keep its steps but leave out its clock and its texts; the resolver composed
   with `Remediation`.
3. Proofs of those refinements, once 2 states them.
