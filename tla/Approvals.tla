----------------------------- MODULE Approvals -----------------------------
(***************************************************************************)
(* The brain's approval pipeline: verdicts are recorded and parked, humans *)
(* and the expiry sweeper resume them with a decision, the ledger keeps    *)
(* the answer.                                                             *)
(*                                                                         *)
(* Decision requests run in the server's thread pool, the Slack endpoint   *)
(* on its event loop and the sweeper in a thread of its own, all over one  *)
(* store and one ledger file without a lock: a thread may lose the         *)
(* processor between any two store or ledger calls, so each such call is   *)
(* an action here. The one exception is the ledger read that only words    *)
(* load's refusal, which is part of load. A request answers at most once;  *)
(* `Requests' is the supply of decision requests.                          *)
(***************************************************************************)
EXTENDS Ledger

CONSTANTS
    Workers,       \* threads that serve POST /diagnose
    Requests,      \* decision requests, from the JSON endpoint or from Slack
    Sweeper,       \* the thread of the expiry sweeper
    TTL,           \* ticks from parking to the deadline
    Grace,         \* ticks the store keeps a record beyond twice the TTL
    Durable,       \* TRUE: Redis, FALSE: process memory
    Punctual,      \* TRUE: no tick passes while the sweeper has work to do
    MaxTime,       \* bound on the clock
    MaxDiagnoses,  \* bound on the verdicts recorded
    MaxCrashes     \* bound on the restarts of the brain

(***************************************************************************)
(* A parked question, and the notice a sink shows for it. The store drops  *)
(* a record by itself TTL + Grace after the deadline.                      *)
(***************************************************************************)
Question == [incident: Incidents, hash: Hashes, action: Actions, deadline: Nat]
Notice   == [incident: Incidents, hash: Hashes, action: Actions]

ASSUME ApprovalsAssumption ==
    /\ Sweeper \notin Requests
    /\ None \notin Question
    /\ TTL \in Nat \ {0} /\ Grace \in Nat \ {0}
    /\ Durable \in BOOLEAN /\ Punctual \in BOOLEAN
    /\ MaxTime \in Nat /\ MaxDiagnoses \in Nat /\ MaxCrashes \in Nat

Threads == Requests \cup {Sweeper}

NoticeOf(q) == [incident |-> q.incident, hash |-> q.hash, action |-> q.action]

(* Fault: the store drops a record at its deadline *)
LingerNot == 0

Linger == TTL + Grace

VARIABLES
    now,        \* the wall clock
    inflight,   \* incident id -> its parked question, or None
    notices,    \* notices with an approve button that a sink has delivered
    work,       \* worker -> the diagnosis it is delivering
    threads,    \* thread -> the decision it is carrying
    overdue,    \* incidents the current sweep has still to expire
    diagnoses,  \* how many verdicts have been recorded
    crashes,    \* how many times the brain has restarted
    asked,      \* history: every question ever parked
    answered    \* history: the questions a decision was written for

approvalVars == <<now, inflight, notices, work, threads, overdue, diagnoses,
                  crashes, asked, answered>>
vars == <<ledger, approvalVars>>

Job == [pc: {"idle"}] \cup
       [pc: {"recorded", "registered"}, incident: Incidents, hash: Hashes,
        action: Actions \cup NoRecord]

Replies == {"ok", "conflict", "missing", "invalid", "lost"}

Idle == [pc |-> "idle"]

Thread ==
    [pc: {"idle"}] \cup
    [pc: {"done"}, incident: Incidents, reply: Replies] \cup
    [pc: {"discard"}, incident: Incidents] \cup
    [pc: {"check", "read", "write", "clear"}, incident: Incidents,
     decision: Decisions, text: Actions \cup NoRecord,
     seen: Notice \cup NoRecord, pending: Question, at: Nat, reply: Replies]

TypeOK ==
    /\ LedgerTypeOK
    /\ now \in Nat
    /\ inflight \in [Incidents -> Question \cup NoRecord]
    /\ notices \subseteq Notice
    /\ work \in [Workers -> Job]
    /\ threads \in [Threads -> Thread]
    /\ overdue \subseteq Incidents
    /\ diagnoses \in Nat
    /\ crashes \in Nat
    /\ asked \subseteq Question
    /\ answered \subseteq Question

Init ==
    /\ LedgerInit
    /\ now = 0
    /\ inflight = [i \in Incidents |-> None]
    /\ notices = {}
    /\ work = [w \in Workers |-> Idle]
    /\ threads = [t \in Threads |-> Idle]
    /\ overdue = {}
    /\ diagnoses = 0
    /\ crashes = 0
    /\ asked = {}
    /\ answered = {}

(***************************************************************************)
(* The in-flight store: get returns nothing once the record's own time to  *)
(* live is over.                                                           *)
(***************************************************************************)
Parked(i) == inflight[i] # None /\ now < inflight[i].deadline + Linger

delete(i) == inflight' = [inflight EXCEPT ![i] = None]

-----------------------------------------------------------------------------
(***************************************************************************)
(* POST /diagnose, from the verdict on. The pipeline writes the row before *)
(* it returns; deliver parks the verdict if it offers approval and hands   *)
(* it to the sink, whose failure is logged and not retried.                *)
(***************************************************************************)
RecordVerdict(w, i, h, a) ==
    /\ work[w].pc = "idle"
    /\ diagnoses < MaxDiagnoses
    /\ record(i, h, a)
    /\ diagnoses' = diagnoses + 1
    /\ work' = [work EXCEPT ![w] = [pc |-> "recorded", incident |-> i,
                                    hash |-> h, action |-> a]]
    /\ UNCHANGED <<now, inflight, notices, threads, overdue, crashes, asked,
                   answered>>

register(w) ==
    /\ work[w].pc = "recorded"
    /\ work' = [work EXCEPT ![w].pc = "registered"]
    /\ LET j == work[w]
           q == [incident |-> j.incident, hash |-> j.hash, action |-> j.action,
                 deadline |-> now + TTL]
       IN  IF j.action = None
           THEN UNCHANGED <<inflight, asked>>
           ELSE /\ inflight' = [inflight EXCEPT ![j.incident] = q]
                /\ asked' = asked \cup {q}
    /\ UNCHANGED <<ledger, now, notices, threads, overdue, diagnoses, crashes,
                   answered>>

deliver(w) ==
    /\ work[w].pc = "registered"
    /\ work' = [work EXCEPT ![w] = Idle]
    /\ \/ work[w].action # None /\ notices' = notices \cup {NoticeOf(work[w])}
       \/ UNCHANGED notices
    /\ UNCHANGED <<ledger, now, inflight, threads, overdue, diagnoses, crashes,
                   asked, answered>>

-----------------------------------------------------------------------------
(***************************************************************************)
(* ApprovalPipeline.decide: load, check, then the reads and writes of      *)
(* _record. A request ends with an answer; a sweep goes on to its next     *)
(* incident, after deleting the record of one it could not expire.         *)
(***************************************************************************)
Ended(t, i, r) ==
    IF t # Sweeper THEN [pc |-> "done", incident |-> i, reply |-> r]
    ELSE IF r = "ok" THEN Idle
    ELSE [pc |-> "discard", incident |-> i]

Advance(t, thread) == threads' = [threads EXCEPT ![t] = thread]

(* Fault: whatever is not parked is said to be decided *)
loadHasty(t, i, d, text, seen) ==
    Advance(t, IF Parked(i)
               THEN [pc |-> "check", incident |-> i, decision |-> d,
                     text |-> text, seen |-> seen, pending |-> inflight[i],
                     at |-> 0, reply |-> "ok"]
               ELSE Ended(t, i, "conflict"))

(* load: the parked record, or the reason there is none *)
load(t, i, d, text, seen) ==
    Advance(t, IF Parked(i)
               THEN [pc |-> "check", incident |-> i, decision |-> d,
                     text |-> text, seen |-> seen, pending |-> inflight[i],
                     at |-> 0, reply |-> "ok"]
               ELSE Ended(t, i, IF Decided(i) THEN "conflict" ELSE "missing"))

(***************************************************************************)
(* What a human may have read about incident i: a delivered notice, or the *)
(* listing of what is pending.                                             *)
(***************************************************************************)
Readable(i) ==
    {n \in notices : n.incident = i} \cup
    {NoticeOf(inflight[j]) : j \in {k \in {i} : Parked(k)}}

(* A human who has read `seen' answers; text is what the human typed, which *)
(* an approval does not use                                                 *)
Submit(r, i, d, text, seen) ==
    /\ threads[r].pc = "idle"
    /\ d = "approved" => text = None
    /\ seen \in Readable(i)
    /\ load(r, i, d, text, seen)
    /\ UNCHANGED <<ledger, now, inflight, notices, work, overdue, diagnoses,
                   crashes, asked, answered>>

(***************************************************************************)
(* check: the sweeper may be too early for this question; a human may be   *)
(* too late, and then the expiry is recorded before the human is refused;  *)
(* a rejection needs its reason and an edit its text. An approval takes    *)
(* the proposal, an edit the human's text.                                 *)
(***************************************************************************)
TooEarly(th) == th.decision = "expired" /\ now < th.pending.deadline

(* Faults: the deadline itself is still in time; it is over a tick early *)
TooLateAfter(th) == th.decision # "expired" /\ now > th.pending.deadline
TooLateBefore(th) == th.decision # "expired" /\ now + 1 >= th.pending.deadline

TooLate(th) == th.decision # "expired" /\ now >= th.pending.deadline

(* Fault: an edit need not come with its text *)
UnfoundedRejection(th) ==
    th.decision = "rejected" /\ th.text = None /\ ~TooLate(th)

Unfounded(th) ==
    th.decision \in {"rejected", "edited"} /\ th.text = None /\ ~TooLate(th)

Checked(th) ==
    [th EXCEPT !.pc = "read", !.at = now,
               !.decision = IF TooLate(th) THEN "expired" ELSE @,
               !.reply = IF TooLate(th) THEN "conflict" ELSE @,
               !.text = IF TooLate(th) THEN None
                        ELSE IF th.decision = "approved" THEN th.pending.action
                        ELSE IF th.decision = "edited" THEN @ ELSE None]

check(t) ==
    LET th == threads[t] IN
    /\ th.pc = "check"
    /\ Advance(t, IF TooEarly(th) THEN Ended(t, th.incident, "conflict")
                  ELSE IF Unfounded(th) THEN Ended(t, th.incident, "invalid")
                  ELSE Checked(th))
    /\ UNCHANGED <<ledger, now, inflight, notices, work, overdue, diagnoses,
                   crashes, asked, answered>>

(* Ledger.label reads the row first and refuses a labelled one *)
labelRead(t) ==
    LET th == threads[t]
        reply == IF ~Recorded(th.incident) THEN "missing" ELSE "conflict"
        writable == Recorded(th.incident) /\ ~Decided(th.incident)
    IN  /\ th.pc = "read"
        /\ Advance(t, IF writable THEN [th EXCEPT !.pc = "write"]
                      ELSE [th EXCEPT !.pc = "clear", !.reply = reply])
        /\ UNCHANGED <<ledger, now, inflight, notices, work, overdue,
                       diagnoses, crashes, asked, answered>>

(* The token signs the time check read; the row gets the time of the write *)
TokenFor(th) ==
    IF th.decision \in Authorises
    THEN sign(th.incident, th.pending.hash, th.decision, th.text, th.at)
    ELSE None

labelWrite(t) ==
    LET th == threads[t] IN
    /\ th.pc = "write"
    /\ label(th.incident, th.decision, th.text, TokenFor(th), now)
    /\ Advance(t, [th EXCEPT !.pc = "clear"])
    /\ answered' = answered \cup {th.pending}
    /\ UNCHANGED <<now, inflight, notices, work, overdue, diagnoses, crashes,
                   asked>>

(* The sweeper is done with an incident it expired *)
Remaining(t, i, r) == IF t = Sweeper /\ r = "ok" THEN overdue \ {i} ELSE overdue

clear(t) ==
    LET th == threads[t] IN
    /\ th.pc = "clear"
    /\ delete(th.incident)
    /\ Advance(t, Ended(t, th.incident, th.reply))
    /\ overdue' = Remaining(t, th.incident, th.reply)
    /\ UNCHANGED <<ledger, now, notices, work, diagnoses, crashes, asked,
                   answered>>

-----------------------------------------------------------------------------
(* Fault: a sweep takes whatever is parked *)
OverdueAll == {i \in Incidents : Parked(i)}

(***************************************************************************)
(* The sweeper. One pass lists what is past its deadline at the time it    *)
(* starts, then decides "expired" for each.                                *)
(***************************************************************************)
Overdue == {i \in Incidents : Parked(i) /\ now >= inflight[i].deadline}

beginSweep ==
    /\ threads[Sweeper].pc = "idle"
    /\ overdue = {}
    /\ overdue' = Overdue
    /\ UNCHANGED <<ledger, now, inflight, notices, work, threads, diagnoses,
                   crashes, asked, answered>>

expire(i) ==
    /\ threads[Sweeper].pc = "idle"
    /\ i \in overdue
    /\ load(Sweeper, i, "expired", None, None)
    /\ UNCHANGED <<ledger, now, inflight, notices, work, overdue, diagnoses,
                   crashes, asked, answered>>

discard ==
    LET th == threads[Sweeper] IN
    /\ th.pc = "discard"
    /\ delete(th.incident)
    /\ overdue' = overdue \ {th.incident}
    /\ Advance(Sweeper, Idle)
    /\ UNCHANGED <<ledger, now, notices, work, diagnoses, crashes, asked,
                   answered>>

-----------------------------------------------------------------------------
(***************************************************************************)
(* Time and failure. Punctual is the timing assumption that a sweep is     *)
(* short against the store's slack of TTL + Grace beyond a deadline.       *)
(***************************************************************************)
Tick ==
    /\ now < MaxTime
    /\ Punctual => /\ threads[Sweeper].pc = "idle"
                   /\ overdue = {} /\ Overdue = {}
    /\ now' = now + 1
    /\ UNCHANGED <<ledger, inflight, notices, work, threads, overdue,
                   diagnoses, crashes, asked, answered>>

(* The process dies: requests under way are lost, memory with it *)
Interrupted(t) ==
    IF t = Sweeper \/ threads[t].pc = "idle" THEN Idle
    ELSE IF threads[t].pc = "done" THEN threads[t]
    ELSE [pc |-> "done", incident |-> threads[t].incident, reply |-> "lost"]

Restart ==
    /\ crashes < MaxCrashes
    /\ crashes' = crashes + 1
    /\ threads' = [t \in Threads |-> Interrupted(t)]
    /\ work' = [w \in Workers |-> Idle]
    /\ overdue' = {}
    /\ inflight' = IF Durable THEN inflight ELSE [i \in Incidents |-> None]
    /\ UNCHANGED <<ledger, now, notices, diagnoses, asked, answered>>

Decide(t) == check(t) \/ labelRead(t) \/ labelWrite(t) \/ clear(t)

Sweep == beginSweep \/ (\E i \in Incidents : expire(i)) \/ discard

Next ==
    \/ \E w \in Workers, i \in Incidents, h \in Hashes,
          a \in Actions \cup NoRecord : RecordVerdict(w, i, h, a)
    \/ \E w \in Workers : register(w)
    \/ \E w \in Workers : deliver(w)
    \/ \E r \in Requests, i \in Incidents, d \in Human,
          text \in Actions \cup NoRecord :
          \E seen \in Readable(i) : Submit(r, i, d, text, seen)
    \/ \E t \in Threads : Decide(t)
    \/ Sweep
    \/ Tick
    \/ Restart

Spec == Init /\ [][Next]_vars

(***************************************************************************)
(* Threads that are running keep running, the sweeper's loop restarts for  *)
(* ever, and time passes. Nothing makes a human answer.                    *)
(***************************************************************************)
Fairness ==
    /\ \A t \in Threads : WF_vars(Decide(t))
    /\ WF_vars(Sweep)
    /\ WF_vars(Tick)

FairSpec == Spec /\ Fairness

-----------------------------------------------------------------------------
(***************************************************************************)
(* What the pipeline promises.                                             *)
(***************************************************************************)

(* A row whose decision authorises an action carries the token of exactly  *)
(* that decision and that action, whatever decisions raced for the row and *)
(* however often it was written (ApprovalPipeline._record, Ledger.label).  *)
AuthorisationHasItsToken ==
    \A i \in Incidents : Authorised(i) =>
        /\ ledger[i].token # None
        /\ ledger[i].token.incident = i
        /\ ledger[i].token.decision = ledger[i].decision
        /\ ledger[i].token.action = ledger[i].decisionAction

(* A token answers a question that was really put: same incident, same     *)
(* evidence, given before that question's deadline, and an unedited        *)
(* approval names the proposal the question made (ApprovalPipeline.check). *)
TokenAnswersQuestion ==
    \A i \in Incidents : Recorded(i) /\ ledger[i].token # None =>
        \E q \in asked :
            /\ q.incident = ledger[i].token.incident
            /\ q.hash = ledger[i].token.hash
            /\ ledger[i].token.at < q.deadline
            /\ ledger[i].token.decision = "approved" =>
                   ledger[i].token.action = q.action

(* No incident is recorded as expired unless some question about it had    *)
(* been put and its deadline was over when the row was written: neither    *)
(* the sweeper nor a late human closes a question early.                   *)
ExpiryIsNotEarly ==
    \A i \in Incidents : Recorded(i) /\ ledger[i].decision = "expired" =>
        \E q \in asked : q.incident = i /\ q.deadline <= ledger[i].decisionAt

(* An answered request is backed by the ledger: whoever was told that the  *)
(* decision is recorded, or that there already was one, is told the truth, *)
(* across races and restarts. (For incidents diagnosed once.)              *)
AnswerIsBacked ==
    \A r \in Requests :
        threads[r].pc = "done" /\ threads[r].reply \in {"ok", "conflict"} =>
            Decided(threads[r].incident)

(* A parked question is held until a decision on it is in the ledger or    *)
(* its deadline has passed; nothing else takes it out of the store         *)
(* (inflight.py: held until the decision arrives or the deadline passes).  *)
HeldUntilDecided ==
    [][\A i \in Incidents :
          inflight[i] # None /\ inflight'[i] = None =>
              inflight[i] \in answered \/ now >= inflight[i].deadline]_vars

(* Every parked question is decided in the end, by a human or by the       *)
(* clock, restarts of the brain included; only the questions whose         *)
(* deadline lies inside the bound on the clock can be followed.            *)
EveryQuestionIsDecided ==
    \A i \in Incidents :
        Parked(i) /\ inflight[i].deadline <= MaxTime ~> Decided(i)

(***************************************************************************)
(* The inductive invariant behind the first three: a question in the store *)
(* or in the hands of a thread has really been asked, and a thread past    *)
(* check carries a decision that its question allows.                      *)
(***************************************************************************)
ParkedWasAsked ==
    \A i \in Incidents : inflight[i] # None =>
        inflight[i] \in asked /\ inflight[i].incident = i

CarriedWasAsked ==
    \A t \in Threads : threads[t].pc \in {"check", "read", "write", "clear"} =>
        /\ threads[t].pending \in asked
        /\ threads[t].pending.incident = threads[t].incident

CarriedIsAllowed ==
    \A t \in Threads : threads[t].pc \in {"read", "write"} =>
        /\ threads[t].decision \in Authorises =>
               /\ threads[t].text # None
               /\ threads[t].at < threads[t].pending.deadline
        /\ threads[t].decision = "approved" =>
               threads[t].text = threads[t].pending.action
        /\ threads[t].decision = "expired" =>
               threads[t].pending.deadline <= now

IInv ==
    /\ TypeOK
    /\ ParkedWasAsked /\ CarriedWasAsked /\ CarriedIsAllowed
    /\ AuthorisationHasItsToken /\ TokenAnswersQuestion /\ ExpiryIsNotEarly

(***************************************************************************)
(* What the documents promise and the code does not keep.                  *)
(***************************************************************************)

(* The decision of a row is never overwritten by another (the docstring of *)
(* Ledger.label: a second decision is refused).                            *)
DecisionWrittenOnce ==
    [][\A i \in Incidents : Decided(i) /\ Decided(i)' =>
          ledger'[i].decision = ledger[i].decision]_vars

(* An approval is for the diagnosis its human read (DESIGN 1: keyed to a   *)
(* specific diagnosis).                                                    *)
ApprovedWhatWasRead ==
    \A r \in Requests :
        /\ threads[r].pc \in {"read", "write"}
        /\ threads[r].decision = "approved"
        => threads[r].seen = NoticeOf(threads[r].pending)

(* The token on an authorising row verifies against that row, which is     *)
(* what the agent checks it against.                                       *)
TokenVerifiesAgainstRow ==
    \A i \in Incidents : Authorised(i) =>
        ledger[i].token = sign(i, ledger[i].hash, ledger[i].decision,
                               ledger[i].decisionAction, ledger[i].decisionAt)
=============================================================================
