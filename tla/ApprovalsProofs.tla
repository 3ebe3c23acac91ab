-------------------------- MODULE ApprovalsProofs --------------------------
(***************************************************************************)
(* Safety of the approval pipeline for any number of incidents, workers    *)
(* and decision requests, any length of the window and any number of       *)
(* diagnoses and restarts.                                                 *)
(***************************************************************************)
EXTENDS Approvals, TLAPS

(* Threads that hold a parked question, and those that have checked it *)
Carrying == {"check", "read", "write", "clear"}
Deciding == {"read", "write"}

LEMMA EndedType ==
    ASSUME NEW t \in Threads, NEW i \in Incidents, NEW r \in Replies
    PROVE  Ended(t, i, r) \in Thread
BY DEF Ended, Thread, Idle

LEMMA LoadType ==
    ASSUME TypeOK, NEW t \in Threads, NEW i \in Incidents, NEW d \in Decisions,
           NEW text \in Actions \cup NoRecord, NEW seen \in Notice \cup NoRecord,
           load(t, i, d, text, seen)
    PROVE  threads' \in [Threads -> Thread]
<1> DEFINE c == [pc |-> "check", incident |-> i, decision |-> d, text |-> text,
                 seen |-> seen, pending |-> inflight[i], at |-> 0,
                 reply |-> "ok"]
<1>1. Parked(i) => c \in Thread
  BY DEF TypeOK, Parked, Thread, NoRecord, Replies
<1>2. Ended(t, i, IF Decided(i) THEN "conflict" ELSE "missing") \in Thread
  BY EndedType DEF Replies
<1>3. QED
  BY <1>1, <1>2 DEF load, Advance, TypeOK

(* A thread past load is a record with all the fields of its decision *)
LEMMA CarryingType ==
    ASSUME TypeOK, NEW t \in Threads, threads[t].pc \in Carrying
    PROVE  threads[t] \in [pc: Carrying, incident: Incidents,
                           decision: Decisions, text: Actions \cup NoRecord,
                           seen: Notice \cup NoRecord, pending: Question,
                           at: Nat, reply: Replies]
BY DEF TypeOK, Thread, Carrying

LEMMA TokenType ==
    ASSUME TypeOK, NEW t \in Threads, threads[t].pc \in Carrying,
           threads[t].decision \in Authorises => threads[t].text # None
    PROVE  TokenFor(threads[t]) \in Token \cup NoRecord
<1>1. threads[t].incident \in Incidents /\ threads[t].pending.hash \in Hashes
      /\ threads[t].at \in Nat /\ threads[t].text \in Actions \cup NoRecord
  BY CarryingType DEF Question
<1>2. QED
  BY <1>1 DEF TokenFor, sign, Token, NoRecord

(* An update of a row by Ledger.label gives a row *)
LEMMA LabelType ==
    ASSUME LedgerTypeOK, NEW i \in Incidents, NEW d \in Decisions,
           NEW a \in Actions \cup NoRecord, NEW tok \in Token \cup NoRecord,
           NEW t \in Nat, label(i, d, a, tok, t)
    PROVE  LedgerTypeOK'
<1>1. CASE ledger[i] = None
  BY <1>1 DEF LedgerTypeOK, label, NoRecord
<1>2. CASE ledger[i] # None
  <2>1. ledger[i] \in Row
    BY <1>2 DEF LedgerTypeOK, NoRecord
  <2>2. KeepIfNone(a, ledger[i].decisionAction) \in Actions \cup NoRecord
        /\ KeepIfNone(tok, ledger[i].token) \in Token \cup NoRecord
    BY <2>1 DEF KeepIfNone, Row
  <2>3. Labelled(ledger[i], d, a, tok, t) \in Row
    BY <2>1, <2>2 DEF Labelled, Row, NoRecord
  <2>4. QED
    BY <1>2, <2>3 DEF LedgerTypeOK, label
<1>3. QED BY <1>1, <1>2

LEMMA RecordType ==
    ASSUME LedgerTypeOK, NEW i \in Incidents, NEW h \in Hashes,
           NEW a \in Actions \cup NoRecord, record(i, h, a)
    PROVE  LedgerTypeOK'
<1>1. FreshRow(h, a) \in Row
  BY DEF FreshRow, Row, NoRecord
<1>2. QED BY <1>1 DEF record, LedgerTypeOK

-----------------------------------------------------------------------------
(***************************************************************************)
(* Frames. Questions are never forgotten and the clock does not go back,   *)
(* so whatever an action leaves alone stays justified.                     *)
(***************************************************************************)
LedgerInv == AuthorisationHasItsToken /\ TokenAnswersQuestion /\ ExpiryIsNotEarly
ThreadInv == CarriedWasAsked /\ CarriedIsAllowed

LEMMA LedgerFrame ==
    ASSUME LedgerInv, UNCHANGED ledger, asked \subseteq asked'
    PROVE  LedgerInv'
<1>1. AuthorisationHasItsToken'
  BY DEF LedgerInv, AuthorisationHasItsToken, Authorised, Recorded
<1>2. TokenAnswersQuestion'
  BY DEF LedgerInv, TokenAnswersQuestion, Recorded
<1>3. ExpiryIsNotEarly'
  BY DEF LedgerInv, ExpiryIsNotEarly, Recorded
<1>4. QED BY <1>1, <1>2, <1>3 DEF LedgerInv

LEMMA ThreadFrame ==
    ASSUME TypeOK, ThreadInv, UNCHANGED threads, asked \subseteq asked',
           now' \in Nat, now <= now'
    PROVE  ThreadInv'
<1>1. CarriedWasAsked'
  BY DEF ThreadInv, CarriedWasAsked
<1>2. CarriedIsAllowed'
  <2> SUFFICES ASSUME NEW t \in Threads, threads[t].pc \in {"read", "write"},
                      threads[t].decision = "expired"
               PROVE  threads[t].pending.deadline <= now'
    BY DEF ThreadInv, CarriedIsAllowed
  <2>1. threads[t].pending.deadline <= now
    BY DEF ThreadInv, CarriedIsAllowed
  <2>2. threads[t].pending.deadline \in Nat
    BY CarryingType DEF Carrying, Question
  <2>3. QED BY <2>1, <2>2 DEF TypeOK
<1>3. QED BY <1>1, <1>2 DEF ThreadInv

(* What one thread must satisfy, so that an action of that thread can be   *)
(* judged by the thread record it leaves behind                            *)
Sound(th) ==
    /\ th.pc \in Carrying =>
           th.pending \in asked /\ th.pending.incident = th.incident
    /\ th.pc \in Deciding =>
           /\ th.decision \in Authorises =>
                  th.text # None /\ th.at < th.pending.deadline
           /\ th.decision = "approved" => th.text = th.pending.action
           /\ th.decision = "expired" => th.pending.deadline <= now

LEMMA ThreadInvIsSound == ThreadInv <=> \A t \in Threads : Sound(threads[t])
BY DEF ThreadInv, CarriedWasAsked, CarriedIsAllowed, Sound, Carrying, Deciding

LEMMA ThreadStep ==
    ASSUME TypeOK, ThreadInv, NEW t \in Threads, NEW th, Sound(th),
           Advance(t, th), UNCHANGED <<asked, now>>
    PROVE  ThreadInv'
<1>1. \A u \in Threads : threads'[u] = IF u = t THEN th ELSE threads[u]
  BY DEF Advance, TypeOK
<1>2. \A u \in Threads : Sound(threads'[u])
  BY <1>1, ThreadInvIsSound
<1>3. QED
  BY <1>2 DEF Sound, ThreadInv, CarriedWasAsked, CarriedIsAllowed, Carrying,
     Deciding

LEMMA EndedIsSound ==
    ASSUME NEW t \in Threads, NEW i \in Incidents, NEW r \in Replies
    PROVE  Sound(Ended(t, i, r))
BY DEF Sound, Ended, Idle, Carrying, Deciding

-----------------------------------------------------------------------------
(***************************************************************************)
(* The actions of a decision, one lemma each.                              *)
(***************************************************************************)
LEMMA LoadStep ==
    ASSUME TypeOK, ParkedWasAsked, ThreadInv,
           NEW t \in Threads, NEW i \in Incidents, NEW d \in Decisions,
           NEW text \in Actions \cup NoRecord, NEW seen \in Notice \cup NoRecord,
           load(t, i, d, text, seen), UNCHANGED <<asked, now>>
    PROVE  threads' \in [Threads -> Thread] /\ ThreadInv'
<1> DEFINE c == [pc |-> "check", incident |-> i, decision |-> d, text |-> text,
                 seen |-> seen, pending |-> inflight[i], at |-> 0,
                 reply |-> "ok"]
           e == Ended(t, i, IF Decided(i) THEN "conflict" ELSE "missing")
<1>1. threads' \in [Threads -> Thread]
  BY LoadType
<1>2. Parked(i) => Sound(c)
  BY DEF Sound, Parked, ParkedWasAsked, Carrying, Deciding
<1>3. Sound(e)
  BY EndedIsSound DEF Replies
<1>4. Advance(t, IF Parked(i) THEN c ELSE e)
  BY DEF load
<1> HIDE DEF c, e
<1>5. ThreadInv'
  BY <1>2, <1>3, <1>4, ThreadStep
<1>6. QED BY <1>1, <1>5

LEMMA CheckStep ==
    ASSUME TypeOK, ThreadInv, NEW t \in Threads, check(t)
    PROVE  threads' \in [Threads -> Thread] /\ ThreadInv'
<1> DEFINE th == threads[t]
<1>1. /\ th.pc = "check" /\ th.pc \in Carrying
      /\ UNCHANGED <<asked, now>>
  BY DEF check, Carrying
<1>2. th \in [pc: Carrying, incident: Incidents, decision: Decisions,
               text: Actions \cup NoRecord, seen: Notice \cup NoRecord,
               pending: Question, at: Nat, reply: Replies]
  BY <1>1, CarryingType
<1>3. CASE TooEarly(th) \/ Unfounded(th)
  <2>1. PICK r \in Replies : Advance(t, Ended(t, th.incident, r))
    BY <1>3 DEF check, Replies
  <2>2. /\ Ended(t, th.incident, r) \in Thread
        /\ Sound(Ended(t, th.incident, r))
    BY <1>2, EndedType, EndedIsSound
  <2>3. QED
    BY <1>1, <2>1, <2>2, ThreadStep DEF Advance, TypeOK
<1>4. CASE ~TooEarly(th) /\ ~Unfounded(th)
  <2> DEFINE n == Checked(th)
  <2>1. Advance(t, n)
    BY <1>4 DEF check
  <2>2. /\ n.pc = "read" /\ n.incident = th.incident
        /\ n.pending = th.pending /\ n.at = now /\ n.seen = th.seen
        /\ n.decision = IF TooLate(th) THEN "expired" ELSE th.decision
        /\ n.reply = IF TooLate(th) THEN "conflict" ELSE th.reply
        /\ n.text = IF TooLate(th) THEN None
                    ELSE IF th.decision = "approved" THEN th.pending.action
                    ELSE IF th.decision = "edited" THEN th.text ELSE None
        /\ n \in [pc: {"read"}, incident: Incidents, decision: Decisions,
                   text: Actions \cup NoRecord, seen: Notice \cup NoRecord,
                   pending: Question, at: Nat, reply: Replies]
    BY <1>2 DEF Checked, TypeOK, Decisions, Replies, NoRecord, Question
  <2> HIDE DEF n
  <2>3. n \in Thread
    BY <2>2 DEF Thread
  <2>4. th.pending \in asked /\ th.pending.incident = th.incident
    BY <1>1 DEF ThreadInv, CarriedWasAsked
  <2>5. th.pending.action # None /\ th.pending.deadline \in Nat /\ now \in Nat
    BY <1>2, LedgerAssumption DEF Question, TypeOK
  <2>6. n.decision \in Authorises =>
           n.text # None /\ n.at < n.pending.deadline
    BY <1>2, <1>4, <2>2, <2>5 DEF Authorises, TooLate, Unfounded
  <2>7. n.decision = "approved" => n.text = n.pending.action
    BY <2>2
  <2>8. n.decision = "expired" => n.pending.deadline <= now
    BY <1>4, <2>2, <2>5 DEF TooLate, TooEarly
  <2>9. Sound(n)
    BY <2>2, <2>4, <2>6, <2>7, <2>8 DEF Sound
  <2>10. QED
    BY <1>1, <2>1, <2>3, <2>9, ThreadStep DEF Advance, TypeOK
<1>5. QED BY <1>3, <1>4

LEMMA LabelReadStep ==
    ASSUME TypeOK, ThreadInv, NEW t \in Threads, labelRead(t)
    PROVE  threads' \in [Threads -> Thread] /\ ThreadInv'
<1> DEFINE th == threads[t]
<1>1. /\ th.pc = "read" /\ th.pc \in Carrying /\ th.pc \in Deciding
      /\ UNCHANGED <<asked, now>>
  BY DEF labelRead, Carrying, Deciding
<1>2. th \in [pc: Carrying, incident: Incidents, decision: Decisions,
               text: Actions \cup NoRecord, seen: Notice \cup NoRecord,
               pending: Question, at: Nat, reply: Replies]
  BY <1>1, CarryingType
<1>3. Sound(th)
  BY ThreadInvIsSound
<1>4. PICK r \in Replies :
         \/ Advance(t, [th EXCEPT !.pc = "write"])
         \/ Advance(t, [th EXCEPT !.pc = "clear", !.reply = r])
  BY DEF labelRead, Replies
<1>5. /\ [th EXCEPT !.pc = "write"] \in Thread
      /\ [th EXCEPT !.pc = "clear", !.reply = r] \in Thread
  BY <1>2 DEF Thread
<1>6. /\ Sound([th EXCEPT !.pc = "write"])
      /\ Sound([th EXCEPT !.pc = "clear", !.reply = r])
  BY <1>1, <1>2, <1>3 DEF Sound, Carrying, Deciding
<1>7. QED
  BY <1>1, <1>4, <1>5, <1>6, ThreadStep DEF Advance, TypeOK

LEMMA EndingStep ==
    ASSUME TypeOK, ThreadInv, NEW t \in Threads,
           UNCHANGED <<asked, now>>,
           \/ clear(t)
           \/ t = Sweeper /\ discard
    PROVE  threads' \in [Threads -> Thread] /\ ThreadInv'
<1>1. CASE clear(t)
  <2> DEFINE e == Ended(t, threads[t].incident, threads[t].reply)
  <2>1. threads[t].incident \in Incidents /\ threads[t].reply \in Replies
    BY <1>1, CarryingType DEF clear, Carrying
  <2>2. e \in Thread /\ Sound(e) /\ Advance(t, e)
    BY <1>1, <2>1, EndedType, EndedIsSound DEF clear
  <2>3. QED BY <2>2, ThreadStep DEF Advance, TypeOK
<1>2. CASE t = Sweeper /\ discard
  <2>1. Idle \in Thread /\ Sound(Idle)
    BY DEF Idle, Thread, Sound, Carrying, Deciding
  <2>2. Advance(t, Idle)
    BY <1>2 DEF discard
  <2>3. QED BY <2>1, <2>2, ThreadStep DEF Advance, TypeOK
<1>3. QED BY <1>1, <1>2

LEMMA LabelWriteStep ==
    ASSUME TypeOK, ThreadInv, NEW t \in Threads, labelWrite(t)
    PROVE  threads' \in [Threads -> Thread] /\ ThreadInv'
<1> DEFINE th == threads[t]
           n == [th EXCEPT !.pc = "clear"]
<1>1. /\ th.pc = "write" /\ th.pc \in Carrying /\ UNCHANGED <<asked, now>>
      /\ Advance(t, n)
  BY DEF labelWrite, Carrying
<1>2. th \in [pc: Carrying, incident: Incidents, decision: Decisions,
               text: Actions \cup NoRecord, seen: Notice \cup NoRecord,
               pending: Question, at: Nat, reply: Replies]
  BY <1>1, CarryingType
<1>3. n \in Thread
  BY <1>2 DEF Thread
<1>4. Sound(th)
  BY ThreadInvIsSound
<1>5. Sound(n)
  BY <1>1, <1>2, <1>4 DEF Sound, Carrying, Deciding
<1>6. QED
  BY <1>1, <1>3, <1>5, ThreadStep DEF Advance, TypeOK

(***************************************************************************)
(* The one action that decides: what labelWrite puts on the row is what    *)
(* the thread carries, so the row inherits what the thread satisfies.      *)
(***************************************************************************)
LEMMA LabelWriteRow ==
    ASSUME TypeOK, ThreadInv, LedgerInv, NEW t \in Threads, labelWrite(t)
    PROVE  LedgerTypeOK' /\ LedgerInv'
<1> DEFINE th == threads[t]
           i == th.incident
           tok == TokenFor(th)
           old == ledger[i]
           new == Labelled(old, th.decision, th.text, tok, now)
<1>1. /\ th.pc = "write" /\ th.pc \in Carrying /\ th.pc \in Deciding
      /\ UNCHANGED <<asked, now>>
      /\ label(i, th.decision, th.text, tok, now)
  BY DEF labelWrite, Carrying, Deciding
<1>2. th \in [pc: Carrying, incident: Incidents, decision: Decisions,
               text: Actions \cup NoRecord, seen: Notice \cup NoRecord,
               pending: Question, at: Nat, reply: Replies]
  BY <1>1, CarryingType
<1>3. Sound(th)
  BY ThreadInvIsSound
<1>4. tok \in Token \cup NoRecord
  BY <1>1, <1>3, TokenType DEF Sound
<1>5. LedgerTypeOK'
  BY <1>1, <1>2, <1>4, LabelType DEF TypeOK
<1>6. CASE old = None
  <2>1. UNCHANGED ledger
    BY <1>1, <1>6 DEF label, TypeOK, LedgerTypeOK
  <2>2. QED BY <1>1, <1>5, <2>1, LedgerFrame
<1>7. CASE old # None
  <2>1. old \in Row
    BY <1>2, <1>7 DEF TypeOK, LedgerTypeOK, NoRecord
  <2>2. \A j \in Incidents : ledger'[j] = IF j = i THEN new ELSE ledger[j]
    BY <1>1, <1>7 DEF label, TypeOK, LedgerTypeOK
  <2>3. /\ new.decision = th.decision /\ new.decisionAt = now
        /\ new.decisionAction = KeepIfNone(th.text, old.decisionAction)
        /\ new.token = KeepIfNone(tok, old.token)
    BY <2>1 DEF Labelled, Row
  <2>4. th.decision \in Authorises =>
           /\ tok = sign(i, th.pending.hash, th.decision, th.text, th.at)
           /\ tok # None /\ th.text # None
           /\ tok.incident = i /\ tok.hash = th.pending.hash
           /\ tok.decision = th.decision
           /\ tok.action = th.text /\ tok.at = th.at
    <3> SUFFICES ASSUME th.decision \in Authorises
                 PROVE  /\ tok = sign(i, th.pending.hash, th.decision, th.text,
                                       th.at)
                        /\ tok # None /\ th.text # None
                        /\ tok.incident = i /\ tok.hash = th.pending.hash
                        /\ tok.decision = th.decision
                        /\ tok.action = th.text /\ tok.at = th.at
      OBVIOUS
    <3>1. th.text # None
      BY <1>1, <1>3 DEF Sound
    <3>2. tok = sign(i, th.pending.hash, th.decision, th.text, th.at)
      BY DEF TokenFor
    <3>3. tok \in Token
      BY <1>2, <3>1, <3>2 DEF sign, Token, NoRecord, Question
    <3>4. QED
      BY <3>1, <3>2, <3>3, LedgerAssumption DEF sign
  <2>5. th.decision \notin Authorises => tok = None
    BY DEF TokenFor
  <2>6. i \in Incidents /\ th.pending \in asked /\ th.pending.incident = i
    BY <1>1, <1>2, <1>3 DEF Sound
  <2> HIDE DEF new, tok
  <2>7. AuthorisationHasItsToken'
    <3> SUFFICES ASSUME NEW j \in Incidents, Authorised(j)'
                 PROVE  /\ ledger'[j].token # None
                        /\ ledger'[j].token.incident = j
                        /\ ledger'[j].token.decision = ledger'[j].decision
                        /\ ledger'[j].token.action = ledger'[j].decisionAction
      BY DEF AuthorisationHasItsToken
    <3>1. CASE j = i
      BY <2>2, <2>3, <2>4, <3>1 DEF Authorised, Recorded, KeepIfNone
    <3>2. CASE j # i
      BY <2>2, <3>2 DEF LedgerInv, AuthorisationHasItsToken, Authorised, Recorded
    <3>3. QED BY <3>1, <3>2
  <2>8. TokenAnswersQuestion'
    <3> SUFFICES ASSUME NEW j \in Incidents, ledger'[j] # None,
                        ledger'[j].token # None
                 PROVE  \E q \in asked :
                          /\ q.incident = ledger'[j].token.incident
                          /\ q.hash = ledger'[j].token.hash
                          /\ ledger'[j].token.at < q.deadline
                          /\ ledger'[j].token.decision = "approved" =>
                                 ledger'[j].token.action = q.action
      BY <1>1 DEF TokenAnswersQuestion, Recorded
    <3>1. CASE j = i /\ th.decision \in Authorises
      <4>1. ledger'[j].token = tok
        BY <2>2, <2>3, <2>4, <3>1 DEF KeepIfNone
      <4>2. /\ th.at < th.pending.deadline
            /\ th.decision = "approved" => th.text = th.pending.action
        BY <1>1, <1>3, <3>1 DEF Sound
      <4>3. QED BY <2>4, <2>6, <3>1, <4>1, <4>2
    <3>2. CASE ~(j = i /\ th.decision \in Authorises)
      <4>1. ledger[j] # None /\ ledger'[j].token = ledger[j].token
        BY <1>7, <2>2, <2>3, <2>5, <3>2 DEF KeepIfNone
      <4>2. QED BY <4>1 DEF LedgerInv, TokenAnswersQuestion, Recorded
    <3>3. QED BY <3>1, <3>2
  <2>9. ExpiryIsNotEarly'
    <3> SUFFICES ASSUME NEW j \in Incidents, ledger'[j] # None,
                        ledger'[j].decision = "expired"
                 PROVE  \E q \in asked : q.incident = j
                                       /\ q.deadline <= ledger'[j].decisionAt
      BY <1>1 DEF ExpiryIsNotEarly, Recorded
    <3>1. CASE j = i
      <4>1. th.pending.deadline <= now
        BY <1>1, <1>3, <2>2, <2>3, <3>1 DEF Sound
      <4>2. QED BY <2>2, <2>3, <2>6, <3>1, <4>1
    <3>2. CASE j # i
      BY <2>2, <3>2 DEF LedgerInv, ExpiryIsNotEarly, Recorded
    <3>3. QED BY <3>1, <3>2
  <2>10. QED BY <1>5, <2>7, <2>8, <2>9 DEF LedgerInv
<1>8. QED BY <1>6, <1>7

(* A row just recorded authorises nothing *)
LEMMA RecordRow ==
    ASSUME TypeOK, LedgerInv, NEW i \in Incidents, NEW h \in Hashes,
           NEW a \in Actions \cup NoRecord, record(i, h, a), UNCHANGED asked
    PROVE  LedgerTypeOK' /\ LedgerInv'
<1>1. LedgerTypeOK'
  BY RecordType DEF TypeOK
<1>2. \A j \in Incidents :
         ledger'[j] = IF j = i THEN FreshRow(h, a) ELSE ledger[j]
  BY DEF record, TypeOK, LedgerTypeOK
<1>3. FreshRow(h, a).decision = None /\ FreshRow(h, a).token = None
  BY DEF FreshRow
<1>4. None # "approved" /\ None # "edited" /\ None # "expired"
  BY LedgerAssumption DEF Decisions, Human
<1>5. AuthorisationHasItsToken'
  BY <1>2, <1>3, <1>4
  DEF LedgerInv, AuthorisationHasItsToken, Authorised, Recorded, Authorises
<1>6. TokenAnswersQuestion'
  BY <1>2, <1>3 DEF LedgerInv, TokenAnswersQuestion, Recorded
<1>7. ExpiryIsNotEarly'
  BY <1>2, <1>3, <1>4 DEF LedgerInv, ExpiryIsNotEarly, Recorded
<1>8. QED BY <1>1, <1>5, <1>6, <1>7 DEF LedgerInv

-----------------------------------------------------------------------------
(***************************************************************************)
(* The inductive invariant, action by action.                              *)
(***************************************************************************)
LEMMA Initially == Init => IInv
<1> SUFFICES ASSUME Init PROVE IInv
  OBVIOUS
<1>1. \A i \in Incidents : ledger[i] = None /\ inflight[i] = None
  BY DEF Init, LedgerInit
<1>2. \A t \in Threads : threads[t].pc = "idle"
  BY DEF Init, Idle
<1>3. TypeOK
  BY DEF Init, LedgerInit, TypeOK, LedgerTypeOK, NoRecord, Idle, Thread, Job
<1>4. QED
  BY <1>1, <1>2, <1>3
  DEF IInv, ParkedWasAsked, CarriedWasAsked, CarriedIsAllowed,
      AuthorisationHasItsToken, TokenAnswersQuestion, ExpiryIsNotEarly,
      Authorised, Recorded

LEMMA DiagnoseStep ==
    ASSUME IInv, NEW w \in Workers,
           \/ \E i \in Incidents, h \in Hashes, a \in Actions \cup NoRecord :
                 RecordVerdict(w, i, h, a)
           \/ register(w)
           \/ deliver(w)
    PROVE  IInv'
<1> USE DEF IInv
<1>0. LedgerInv /\ ThreadInv
  BY DEF LedgerInv, ThreadInv
<1>1. CASE \E i \in Incidents, h \in Hashes, a \in Actions \cup NoRecord :
              RecordVerdict(w, i, h, a)
  <2>1. PICK i \in Incidents, h \in Hashes, a \in Actions \cup NoRecord :
           RecordVerdict(w, i, h, a)
    BY <1>1
  <2>2. record(i, h, a) /\ UNCHANGED <<now, inflight, notices, threads, overdue,
                                      crashes, asked, answered>>
    BY <2>1 DEF RecordVerdict
  <2>3. LedgerTypeOK' /\ LedgerInv'
    BY <1>0, <2>2, RecordRow
  <2>4. ThreadInv'
    BY <1>0, <2>2, ThreadFrame DEF TypeOK
  <2>5. work' \in [Workers -> Job] /\ diagnoses' \in Nat
    BY <2>1 DEF RecordVerdict, TypeOK, Job
  <2>6. TypeOK' /\ ParkedWasAsked'
    BY <2>2, <2>3, <2>5 DEF TypeOK, ParkedWasAsked
  <2>7. QED BY <2>3, <2>4, <2>6 DEF LedgerInv, ThreadInv
<1>2. CASE register(w)
  <2> DEFINE j == work[w]
             q == [incident |-> j.incident, hash |-> j.hash,
                   action |-> j.action, deadline |-> now + TTL]
  <2>1. j \in [pc: {"recorded", "registered"}, incident: Incidents,
               hash: Hashes, action: Actions \cup NoRecord]
    BY <1>2 DEF register, TypeOK, Job
  <2>2. j.action # None => q \in Question
    BY <2>1, ApprovalsAssumption DEF Question, TypeOK, NoRecord
  <2>3. \/ UNCHANGED <<inflight, asked>>
        \/ /\ j.action # None
           /\ inflight' = [inflight EXCEPT ![j.incident] = q]
           /\ asked' = asked \cup {q}
    BY <1>2 DEF register
  <2>4. work' \in [Workers -> Job]
    <3>1. [j EXCEPT !.pc = "registered"] \in Job
      BY <2>1 DEF Job
    <3>2. QED BY <1>2, <3>1 DEF register, TypeOK
  <2>5. /\ asked \subseteq asked' /\ asked' \subseteq Question
        /\ inflight' \in [Incidents -> Question \cup NoRecord]
    BY <2>1, <2>2, <2>3 DEF TypeOK
  <2>6. UNCHANGED <<ledger, now, notices, threads, overdue, diagnoses, crashes,
                    answered>>
    BY <1>2 DEF register
  <2>7. LedgerInv' /\ ThreadInv'
    BY <1>0, <2>5, <2>6, LedgerFrame, ThreadFrame DEF TypeOK
  <2>8. ParkedWasAsked'
    BY <2>1, <2>3, <2>5 DEF ParkedWasAsked, TypeOK
  <2>9. TypeOK'
    BY <2>4, <2>5, <2>6 DEF TypeOK, LedgerTypeOK
  <2>10. QED BY <2>7, <2>8, <2>9 DEF LedgerInv, ThreadInv
<1>3. CASE deliver(w)
  <2> DEFINE j == work[w]
  <2>1. j \in [pc: {"recorded", "registered"}, incident: Incidents,
               hash: Hashes, action: Actions \cup NoRecord]
    BY <1>3 DEF deliver, TypeOK, Job
  <2>2. j.action # None => NoticeOf(j) \in Notice
    BY <2>1 DEF NoticeOf, Notice, NoRecord
  <2>3. notices' \subseteq Notice /\ work' \in [Workers -> Job]
    BY <1>3, <2>2 DEF deliver, TypeOK, Job, Idle
  <2>4. UNCHANGED <<ledger, now, inflight, threads, overdue, diagnoses, crashes,
                    asked, answered>>
    BY <1>3 DEF deliver
  <2>5. LedgerInv' /\ ThreadInv'
    BY <1>0, <2>4, LedgerFrame, ThreadFrame DEF TypeOK
  <2>6. TypeOK' /\ ParkedWasAsked'
    BY <2>3, <2>4 DEF TypeOK, LedgerTypeOK, ParkedWasAsked
  <2>7. QED BY <2>5, <2>6 DEF LedgerInv, ThreadInv
<1>4. QED BY <1>1, <1>2, <1>3

LEMMA NoticesAreWellFormed ==
    ASSUME TypeOK, NEW i \in Incidents
    PROVE  Readable(i) \subseteq Notice
<1>1. Parked(i) => NoticeOf(inflight[i]) \in Notice
  BY DEF Parked, TypeOK, NoticeOf, Notice, Question, NoRecord
<1>2. QED BY <1>1 DEF Readable, TypeOK

(* Actions that only move a thread, or move one and empty its slot         *)
LEMMA ThreadMoves ==
    ASSUME IInv, threads' \in [Threads -> Thread], ThreadInv',
           UNCHANGED <<ledger, now, notices, work, diagnoses, crashes, asked,
                       answered>>,
           \/ UNCHANGED inflight
           \/ \E i \in Incidents : delete(i),
           overdue' \subseteq Incidents
    PROVE  IInv'
<1>1. LedgerInv'
  BY LedgerFrame DEF IInv, LedgerInv
<1>2. inflight' \in [Incidents -> Question \cup NoRecord] /\ ParkedWasAsked'
  BY DEF IInv, TypeOK, ParkedWasAsked, delete, NoRecord
<1>3. TypeOK'
  BY <1>2 DEF IInv, TypeOK, LedgerTypeOK
<1>4. QED BY <1>1, <1>2, <1>3 DEF IInv, LedgerInv, ThreadInv

LEMMA DecideStep ==
    ASSUME IInv, NEW t \in Threads, Decide(t)
    PROVE  IInv'
<1>0. TypeOK /\ ThreadInv /\ LedgerInv
  BY DEF IInv, ThreadInv, LedgerInv
<1>1. CASE check(t)
  BY <1>0, <1>1, CheckStep, ThreadMoves DEF check, IInv, TypeOK
<1>2. CASE labelRead(t)
  BY <1>0, <1>2, LabelReadStep, ThreadMoves DEF labelRead, IInv, TypeOK
<1>3. CASE labelWrite(t)
  <2>1. UNCHANGED <<now, inflight, notices, work, overdue, diagnoses, crashes,
                    asked>>
        /\ answered' = answered \cup {threads[t].pending}
    BY <1>3 DEF labelWrite
  <2>2. threads[t].pending \in Question
    BY <1>0, <1>3, CarryingType DEF labelWrite, Carrying
  <2>3. TypeOK' /\ ParkedWasAsked'
    BY <1>0, <1>3, <2>1, <2>2, LabelWriteStep, LabelWriteRow
    DEF TypeOK, IInv, ParkedWasAsked
  <2>4. QED
    BY <1>0, <1>3, <2>3, LabelWriteStep, LabelWriteRow
    DEF IInv, LedgerInv, ThreadInv
<1>4. CASE clear(t)
  <2>1. threads[t].incident \in Incidents
    BY <1>0, <1>4, CarryingType DEF clear, Carrying
  <2>2. overdue' \subseteq Incidents
    BY <1>0, <1>4 DEF clear, Remaining, TypeOK
  <2>3. QED
    BY <1>0, <1>4, <2>1, <2>2, EndingStep, ThreadMoves DEF clear
<1>5. QED BY <1>1, <1>2, <1>3, <1>4 DEF Decide

LEMMA SweepStep ==
    ASSUME IInv, Sweep
    PROVE  IInv'
<1>0. TypeOK /\ ThreadInv /\ ParkedWasAsked
  BY DEF IInv, ThreadInv
<1>1. CASE beginSweep
  <2>1. threads' \in [Threads -> Thread] /\ ThreadInv'
    BY <1>0, <1>1, ThreadFrame DEF beginSweep, TypeOK
  <2>2. QED BY <1>1, <2>1, ThreadMoves DEF beginSweep, Overdue
<1>2. ASSUME NEW i \in Incidents, expire(i)
      PROVE  IInv'
  <2>1. threads' \in [Threads -> Thread] /\ ThreadInv'
    BY <1>0, <1>2, LoadStep DEF expire, Threads, Decisions, NoRecord
  <2>2. QED BY <1>0, <1>2, <2>1, ThreadMoves DEF expire, TypeOK
<1>3. CASE discard
  <2>1. threads[Sweeper].incident \in Incidents
    BY <1>0, <1>3 DEF discard, TypeOK, Threads, Thread
  <2>2. overdue' \subseteq Incidents
    BY <1>0, <1>3 DEF discard, TypeOK
  <2>3. QED
    BY <1>0, <1>3, <2>1, <2>2, EndingStep, ThreadMoves DEF discard, Threads
<1>4. QED BY <1>1, <1>2, <1>3 DEF Sweep

LEMMA SubmitStep ==
    ASSUME IInv, NEW r \in Requests, NEW i \in Incidents, NEW d \in Human,
           NEW text \in Actions \cup NoRecord, NEW seen \in Readable(i),
           Submit(r, i, d, text, seen)
    PROVE  IInv'
<1>1. seen \in Notice \cup NoRecord
  BY NoticesAreWellFormed DEF IInv
<1>2. threads' \in [Threads -> Thread] /\ ThreadInv'
  BY <1>1, LoadStep DEF Submit, Threads, Decisions, IInv, ThreadInv
<1>3. QED BY <1>2, ThreadMoves DEF Submit, IInv, TypeOK

LEMMA RestartStep ==
    ASSUME IInv, Restart
    PROVE  IInv'
<1>1. \A t \in Threads : Interrupted(t) \in Thread /\ Sound(Interrupted(t))
  <2> SUFFICES ASSUME NEW t \in Threads
               PROVE  Interrupted(t) \in Thread /\ Sound(Interrupted(t))
    OBVIOUS
  <2>1. threads[t] \in Thread
    BY DEF IInv, TypeOK
  <2>2. threads[t].pc # "idle" => threads[t].incident \in Incidents
    BY <2>1 DEF Thread
  <2>3. QED
    BY <2>1, <2>2
    DEF Interrupted, Idle, Thread, Replies, Sound, Carrying, Deciding
<1>2. threads' \in [Threads -> Thread] /\ ThreadInv'
  BY <1>1
  DEF Restart, ThreadInv, CarriedWasAsked, CarriedIsAllowed, Sound, Carrying,
      Deciding
<1>3. LedgerInv'
  BY LedgerFrame DEF IInv, LedgerInv, Restart
<1>4. TypeOK' /\ ParkedWasAsked'
  BY <1>2 DEF Restart, IInv, TypeOK, LedgerTypeOK, ParkedWasAsked, Job, Idle,
      NoRecord
<1>5. QED BY <1>2, <1>3, <1>4 DEF IInv, LedgerInv, ThreadInv

LEMMA QuietStep ==
    ASSUME IInv, Tick \/ UNCHANGED vars
    PROVE  IInv'
<1>1. /\ UNCHANGED <<ledger, inflight, notices, work, threads, overdue, diagnoses,
                     crashes, asked, answered>>
      /\ now' \in Nat /\ now <= now'
  BY DEF Tick, vars, approvalVars, IInv, TypeOK
<1>2. LedgerInv' /\ ThreadInv'
  BY <1>1, LedgerFrame, ThreadFrame DEF IInv, LedgerInv, ThreadInv
<1>3. TypeOK' /\ ParkedWasAsked'
  BY <1>1 DEF IInv, TypeOK, LedgerTypeOK, ParkedWasAsked
<1>4. QED BY <1>2, <1>3 DEF IInv, LedgerInv, ThreadInv

LEMMA Inductive == IInv /\ [Next]_vars => IInv'
<1> SUFFICES ASSUME IInv, [Next]_vars PROVE IInv'
  OBVIOUS
<1>1. CASE \E w \in Workers, i \in Incidents, h \in Hashes,
              a \in Actions \cup NoRecord : RecordVerdict(w, i, h, a)
  BY <1>1, DiagnoseStep
<1>2. CASE \E w \in Workers : register(w)
  BY <1>2, DiagnoseStep
<1>3. CASE \E w \in Workers : deliver(w)
  BY <1>3, DiagnoseStep
<1>4. CASE \E r \in Requests, i \in Incidents, d \in Human,
              text \in Actions \cup NoRecord :
              \E seen \in Readable(i) : Submit(r, i, d, text, seen)
  BY <1>4, SubmitStep
<1>5. CASE \E t \in Threads : Decide(t)
  BY <1>5, DecideStep
<1>6. CASE Sweep
  BY <1>6, SweepStep
<1>7. CASE Tick \/ UNCHANGED vars
  BY <1>7, QuietStep
<1>8. CASE Restart
  BY <1>8, RestartStep
<1>9. QED
  BY <1>1, <1>2, <1>3, <1>4, <1>5, <1>6, <1>7, <1>8 DEF Next

-----------------------------------------------------------------------------
(* In every reachable state the inductive invariant holds.                 *)
THEOREM Invariance == Spec => []IInv
BY Initially, Inductive, PTL DEF Spec

(* The state of the store, the threads and the ledger is well-formed.      *)
THEOREM TypeCorrectness == Spec => []TypeOK
<1>1. IInv => TypeOK
  BY DEF IInv
<1>2. QED BY <1>1, Invariance, PTL

(* However decisions race and however often an incident is diagnosed       *)
(* again, an authorising row holds the token of its own decision and its   *)
(* own action.                                                             *)
THEOREM AuthorisationSafety == Spec => []AuthorisationHasItsToken
<1>1. IInv => AuthorisationHasItsToken
  BY DEF IInv
<1>2. QED BY <1>1, Invariance, PTL

(* Every token in the ledger was given in answer to a question that was    *)
(* put, before its deadline.                                               *)
THEOREM TokenSafety == Spec => []TokenAnswersQuestion
<1>1. IInv => TokenAnswersQuestion
  BY DEF IInv
<1>2. QED BY <1>1, Invariance, PTL

(* No incident expires before the deadline of a question about it.         *)
THEOREM ExpirySafety == Spec => []ExpiryIsNotEarly
<1>1. IInv => ExpiryIsNotEarly
  BY DEF IInv
<1>2. QED BY <1>1, Invariance, PTL
-----------------------------------------------------------------------------
(***************************************************************************)
(* Incidents that are diagnosed once. A second diagnosis of an incident    *)
(* overwrites its row, decision and all, and parks a second question in    *)
(* the place of the first; what is promised to the human who answered, and *)
(* to the question that is parked, holds where no incident comes twice.    *)
(* Then an incident has one question, and whoever decided the incident     *)
(* answered that question.                                                 *)
(***************************************************************************)
OnlyNew ==
    \A w \in Workers, i \in Incidents, h \in Hashes, a \in Actions \cup NoRecord :
        RecordVerdict(w, i, h, a) => ledger[i] = None

AskedIsRecorded == \A q \in asked : Recorded(q.incident)

AskedOnce == \A p, q \in asked : p.incident = q.incident => p = q

RecordedIsNew ==
    \A w \in Workers : work[w].pc = "recorded" =>
        /\ Recorded(work[w].incident)
        /\ \A q \in asked : q.incident # work[w].incident
        /\ \A v \in Workers :
              work[v].pc = "recorded" /\ work[v].incident = work[w].incident
                  => v = w

QuestionInv == AskedIsRecorded /\ AskedOnce /\ RecordedIsNew

AnswerInv ==
    /\ \A q \in answered : q \in asked /\ Decided(q.incident)
    /\ \A i \in Incidents : Decided(i) => \E q \in answered : q.incident = i

(* A sweep is about incidents with a question whose deadline has passed    *)
Late(i) == \E q \in asked : q.incident = i /\ q.deadline <= now

Settled(t, th) ==
    /\ th.pc = "clear" => th.pending \in answered
    /\ t = Sweeper /\ th.pc # "idle" => Late(th.incident)
    /\ t \in Requests /\ th.pc = "check" => th.decision \in Human
    /\ t \in Requests /\ th.pc = "done" /\ th.reply \in {"ok", "conflict"} =>
           Decided(th.incident)

SettledInv ==
    /\ \A i \in overdue : Late(i)
    /\ \A t \in Threads : Settled(t, threads[t])

OnceInv == QuestionInv /\ AnswerInv /\ SettledInv

(* Frames, as above                                                        *)
LEMMA IncidentTypes ==
    ASSUME TypeOK
    PROVE  /\ \A q \in asked : q.incident \in Incidents /\ q.deadline \in Nat
           /\ \A w \in Workers : work[w].pc = "recorded" =>
                 work[w].incident \in Incidents
           /\ \A t \in Threads : threads[t].pc # "idle" =>
                 threads[t].incident \in Incidents
<1>1. \A q \in asked : q.incident \in Incidents /\ q.deadline \in Nat
  BY DEF TypeOK, Question
<1>2. \A w \in Workers : work[w].pc = "recorded" => work[w].incident \in Incidents
  BY DEF TypeOK, Job
<1>3. \A t \in Threads : threads[t].pc # "idle" => threads[t].incident \in Incidents
  BY DEF TypeOK, Thread
<1> QED
  BY <1>1, <1>2, <1>3

LEMMA QuestionFrame ==
    ASSUME TypeOK, QuestionInv, UNCHANGED <<work, asked>>,
           \A i \in Incidents : Recorded(i) => Recorded(i)'
    PROVE  QuestionInv'
<1>1. AskedIsRecorded'
  BY IncidentTypes DEF QuestionInv, AskedIsRecorded
<1>2. AskedOnce'
  BY DEF QuestionInv, AskedOnce
<1>3. RecordedIsNew'
  BY IncidentTypes DEF QuestionInv, RecordedIsNew
<1> QED
  BY <1>1, <1>2, <1>3 DEF QuestionInv

LEMMA AnswerFrame ==
    ASSUME TypeOK, AnswerInv, UNCHANGED answered, asked \subseteq asked',
           \A i \in Incidents : Decided(i)' <=> Decided(i)
    PROVE  AnswerInv'
<1>1. \A q \in answered : q.incident \in Incidents
  BY DEF TypeOK, Question
<1> QED
  BY <1>1 DEF AnswerInv

LEMMA SettledFrame ==
    ASSUME TypeOK, SettledInv, UNCHANGED <<threads, overdue>>,
           asked \subseteq asked', answered \subseteq answered',
           now' \in Nat, now <= now',
           \A i \in Incidents : Decided(i) => Decided(i)'
    PROVE  SettledInv'
<1>1. ASSUME NEW i, Late(i)
      PROVE  Late(i)'
  <2>1. PICK q \in asked : q.incident = i /\ q.deadline <= now
    BY <1>1 DEF Late
  <2>2. q.deadline \in Nat /\ now \in Nat
    BY IncidentTypes DEF TypeOK
  <2>3. q \in asked' /\ q.deadline <= now'
    BY <2>1, <2>2
  <2> QED
    BY <2>1, <2>3 DEF Late
<1>2. \A i \in overdue' : Late(i)'
  BY <1>1 DEF SettledInv
<1>3. ASSUME NEW t \in Threads
      PROVE  Settled(t, threads[t])'
  <2>1. Settled(t, threads[t])
    BY DEF SettledInv
  <2>2. threads[t].pc # "idle" => threads[t].incident \in Incidents
    BY IncidentTypes
  <2>3. Late(threads[t].incident) => Late(threads[t].incident)'
    BY <1>1
  <2> QED
    BY <2>1, <2>2, <2>3 DEF Settled
<1> QED
  BY <1>2, <1>3 DEF SettledInv

(* A step of one thread that decides nothing                               *)
LEMMA ThreadSettles ==
    ASSUME TypeOK, OnceInv, NEW t \in Threads, NEW th, Advance(t, th),
           Settled(t, th), overdue' \subseteq overdue,
           UNCHANGED <<ledger, now, work, asked, answered>>
    PROVE  OnceInv'
<1>1. QuestionInv' /\ AnswerInv'
  BY QuestionFrame, AnswerFrame DEF OnceInv, Recorded, Decided
<1>2. \A u \in Threads : threads'[u] = IF u = t THEN th ELSE threads[u]
  BY DEF Advance, TypeOK
<1>3. \A i \in Incidents : Decided(i)' <=> Decided(i)
  BY DEF Decided, Recorded
<1>4. \A u \in Threads : Settled(u, threads'[u])
  BY <1>2 DEF OnceInv, SettledInv
<1>5. \A u \in Threads : Settled(u, threads[u])'
  BY <1>4 DEF Settled, Late, Decided, Recorded
<1>6. \A i \in overdue' : Late(i)'
  BY DEF OnceInv, SettledInv, Late
<1> QED
  BY <1>1, <1>5, <1>6 DEF OnceInv, SettledInv

(***************************************************************************)
(* Diagnoses.                                                              *)
(***************************************************************************)
LEMMA RecordOnce ==
    ASSUME IInv, OnceInv, OnlyNew, NEW w \in Workers, NEW i \in Incidents,
           NEW h \in Hashes, NEW a \in Actions \cup NoRecord,
           RecordVerdict(w, i, h, a)
    PROVE  OnceInv'
<1> DEFINE job == [pc |-> "recorded", incident |-> i, hash |-> h, action |-> a]
<1>1. /\ ledger[i] = None /\ TypeOK
      /\ work' = [work EXCEPT ![w] = job] /\ record(i, h, a)
      /\ UNCHANGED <<now, inflight, threads, overdue, asked, answered>>
  BY DEF OnlyNew, IInv, RecordVerdict
<1>2. \A j \in Incidents :
         ledger'[j] = IF j = i THEN FreshRow(h, a) ELSE ledger[j]
  BY <1>1 DEF record, TypeOK, LedgerTypeOK
<1>3. FreshRow(h, a) # None /\ FreshRow(h, a).decision = None
  <2>1. FreshRow(h, a) \in Row
    BY DEF FreshRow, Row, NoRecord
  <2> QED
    BY <2>1, LedgerAssumption DEF FreshRow
<1>4. \A j \in Incidents : /\ Decided(j)' <=> Decided(j)
                           /\ Recorded(j) => Recorded(j)'
                           /\ j = i => Recorded(j)' /\ ~Recorded(j)
  BY <1>1, <1>2, <1>3 DEF Decided, Recorded
<1>5. AnswerInv' /\ SettledInv'
  BY <1>1, <1>4, AnswerFrame, SettledFrame DEF OnceInv, TypeOK
<1>6. AskedIsRecorded' /\ AskedOnce'
  BY <1>1, <1>4, IncidentTypes DEF OnceInv, QuestionInv, AskedIsRecorded, AskedOnce
<1>7. RecordedIsNew'
  <2>1. \A v \in Workers : work'[v] = IF v = w THEN job ELSE work[v]
    BY <1>1 DEF TypeOK
  <2>2. job.pc = "recorded" /\ job.incident = i
    OBVIOUS
  <2> HIDE DEF job
  <2>3. \A q \in asked : q.incident # i
    BY <1>1, <1>4, IncidentTypes DEF OnceInv, QuestionInv, AskedIsRecorded
  <2>4. \A v \in Workers : work[v].pc = "recorded" =>
           work[v].incident \in Incidents /\ work[v].incident # i
    BY <1>1, <1>4, IncidentTypes DEF OnceInv, QuestionInv, RecordedIsNew
  <2> QED
    BY <1>1, <1>4, <2>1, <2>2, <2>3, <2>4 DEF OnceInv, QuestionInv, RecordedIsNew
<1> QED
  BY <1>5, <1>6, <1>7 DEF OnceInv, QuestionInv

(* A worker that is done with its verdict: no other has the same incident  *)
LEMMA WorkedOff ==
    ASSUME TypeOK, OnceInv, NEW w \in Workers, NEW job,
           work' = [work EXCEPT ![w] = job], job.pc # "recorded",
           \A q \in asked' : q \in asked \/ q.incident = work[w].incident,
           work[w].pc = "recorded" \/ asked' = asked,
           UNCHANGED ledger
    PROVE  RecordedIsNew'
<1>1. \A v \in Workers : work'[v] = IF v = w THEN job ELSE work[v]
  BY DEF TypeOK
<1> SUFFICES ASSUME NEW v \in Workers, work'[v].pc = "recorded"
             PROVE  /\ ledger'[work'[v].incident] # None
                    /\ \A q \in asked' : q.incident # work'[v].incident
                    /\ \A u \in Workers :
                          /\ work'[u].pc = "recorded"
                          /\ work'[u].incident = work'[v].incident
                          => u = v
  BY DEF RecordedIsNew, Recorded
<1>2. v # w /\ work'[v] = work[v]
  BY <1>1
<1>3. /\ Recorded(work[v].incident)
      /\ \A q \in asked : q.incident # work[v].incident
      /\ \A u \in Workers : work[u].pc = "recorded" /\ work[u].incident = work[v].incident
             => u = v
  BY <1>2 DEF OnceInv, QuestionInv, RecordedIsNew
<1>4. work[w].pc = "recorded" => work[w].incident # work[v].incident
  BY <1>2, <1>3
<1> QED
  BY <1>1, <1>2, <1>3, <1>4 DEF Recorded

LEMMA RegisterOnce ==
    ASSUME IInv, OnceInv, NEW w \in Workers, register(w)
    PROVE  OnceInv'
<1> DEFINE j == work[w]
           q == [incident |-> j.incident, hash |-> j.hash,
                 action |-> j.action, deadline |-> now + TTL]
<1>1. /\ TypeOK /\ j.pc = "recorded"
      /\ work' = [work EXCEPT ![w].pc = "registered"]
      /\ asked' = asked \/ asked' = asked \cup {q}
      /\ UNCHANGED <<ledger, now, threads, overdue, answered>>
  BY DEF register, IInv
<1>2. q.incident = j.incident
  OBVIOUS
<1> HIDE DEF q
<1>3. /\ Recorded(j.incident) /\ j.incident \in Incidents
      /\ \A p \in asked : p.incident # j.incident
  BY <1>1, IncidentTypes DEF OnceInv, QuestionInv, RecordedIsNew
<1>4. AskedIsRecorded' /\ AskedOnce'
  BY <1>1, <1>2, <1>3
  DEF OnceInv, QuestionInv, AskedIsRecorded, AskedOnce, Recorded
<1>5. RecordedIsNew'
  <2>1. work' = [work EXCEPT ![w] = [j EXCEPT !.pc = "registered"]]
    BY <1>1
  <2>2. [j EXCEPT !.pc = "registered"].pc # "recorded"
    BY <1>1 DEF TypeOK, Job
  <2>3. \A p \in asked' : p \in asked \/ p.incident = work[w].incident
    BY <1>1, <1>2
  <2> QED
    BY <1>1, <2>1, <2>2, <2>3, WorkedOff
<1>6. AnswerInv' /\ SettledInv'
  BY <1>1, AnswerFrame, SettledFrame DEF OnceInv, TypeOK, Decided, Recorded
<1> QED
  BY <1>4, <1>5, <1>6 DEF OnceInv, QuestionInv

LEMMA DeliverOnce ==
    ASSUME IInv, OnceInv, NEW w \in Workers, deliver(w)
    PROVE  OnceInv'
<1>1. /\ TypeOK /\ work' = [work EXCEPT ![w] = Idle]
      /\ UNCHANGED <<ledger, now, threads, overdue, asked, answered>>
  BY DEF deliver, IInv
<1>2. RecordedIsNew'
  <2>1. Idle.pc # "recorded"
    BY DEF Idle
  <2> QED
    BY <1>1, <2>1, WorkedOff
<1>3. AskedIsRecorded' /\ AskedOnce'
  BY <1>1 DEF OnceInv, QuestionInv, AskedIsRecorded, AskedOnce, Recorded
<1>4. AnswerInv' /\ SettledInv'
  BY <1>1, AnswerFrame, SettledFrame DEF OnceInv, TypeOK, Decided, Recorded
<1> QED
  BY <1>2, <1>3, <1>4 DEF OnceInv, QuestionInv

(***************************************************************************)
(* Decisions. An ended request that is told of a decision has read one, or *)
(* has written it.                                                         *)
(***************************************************************************)
LEMMA EndedSettles ==
    ASSUME NEW t \in Threads, NEW i \in Incidents, NEW r \in Replies,
           t = Sweeper => Late(i),
           t \in Requests /\ r \in {"ok", "conflict"} => Decided(i)
    PROVE  Settled(t, Ended(t, i, r))
BY ApprovalsAssumption DEF Settled, Ended, Idle

LEMMA LoadOnce ==
    ASSUME IInv, OnceInv, NEW t \in Threads, NEW i \in Incidents, NEW d,
           NEW text, NEW seen, load(t, i, d, text, seen),
           t = Sweeper => Late(i), t \in Requests => d \in Human,
           UNCHANGED <<ledger, now, work, overdue, asked, answered>>
    PROVE  OnceInv'
<1> DEFINE c == [pc |-> "check", incident |-> i, decision |-> d, text |-> text,
                 seen |-> seen, pending |-> inflight[i], at |-> 0,
                 reply |-> "ok"]
           e == Ended(t, i, IF Decided(i) THEN "conflict" ELSE "missing")
<1>1. Settled(t, c)
  BY DEF Settled
<1>2. Settled(t, e)
  BY EndedSettles DEF Replies
<1>3. Advance(t, c) \/ Advance(t, e)
  BY DEF load
<1> HIDE DEF c, e
<1> QED
  BY <1>1, <1>2, <1>3, ThreadSettles DEF IInv

LEMMA CheckOnce ==
    ASSUME IInv, OnceInv, NEW t \in Threads, check(t)
    PROVE  OnceInv'
<1> DEFINE th == threads[t]
<1>1. /\ th.pc = "check" /\ th.pc \in Carrying /\ TypeOK
      /\ UNCHANGED <<ledger, now, work, overdue, asked, answered>>
  BY DEF check, Carrying, IInv
<1>2. th.incident \in Incidents /\ Settled(t, th)
  BY <1>1, CarryingType DEF OnceInv, SettledInv
<1>3. CASE TooEarly(th)
  <2>1. t \notin Requests
    BY <1>1, <1>2, <1>3 DEF TooEarly, Settled, Human
  <2>2. Settled(t, Ended(t, th.incident, "conflict"))
    BY <1>1, <1>2, <2>1, EndedSettles DEF Replies, Settled
  <2>3. Advance(t, Ended(t, th.incident, "conflict"))
    BY <1>3 DEF check
  <2> QED
    BY <1>1, <2>2, <2>3, ThreadSettles
<1>4. CASE ~TooEarly(th) /\ Unfounded(th)
  <2>1. Settled(t, Ended(t, th.incident, "invalid"))
    BY <1>1, <1>2, EndedSettles DEF Replies, Settled
  <2>2. Advance(t, Ended(t, th.incident, "invalid"))
    BY <1>4 DEF check
  <2> QED
    BY <1>1, <2>1, <2>2, ThreadSettles
<1>5. CASE ~TooEarly(th) /\ ~Unfounded(th)
  <2> DEFINE n == Checked(th)
  <2>1. Advance(t, n)
    BY <1>5 DEF check
  <2>2. n.pc = "read" /\ n.incident = th.incident
    BY <1>1, CarryingType DEF Checked
  <2> HIDE DEF n
  <2>3. Settled(t, n)
    BY <1>1, <1>2, <2>2 DEF Settled
  <2> QED
    BY <1>1, <2>1, <2>3, ThreadSettles
<1> QED
  BY <1>3, <1>4, <1>5

(* A row that cannot be labelled has been decided: the question the thread *)
(* holds was recorded, and is the one that was answered (Ledger.label).    *)
LEMMA LabelReadOnce ==
    ASSUME IInv, OnceInv, NEW t \in Threads, labelRead(t)
    PROVE  OnceInv'
<1> DEFINE th == threads[t]
<1>1. /\ th.pc = "read" /\ th.pc \in Carrying /\ TypeOK
      /\ UNCHANGED <<ledger, now, work, overdue, asked, answered>>
  BY DEF labelRead, Carrying, IInv
<1>2. /\ th.incident \in Incidents /\ Settled(t, th)
      /\ th.pending \in asked /\ th.pending.incident = th.incident
  BY <1>1, CarryingType DEF OnceInv, SettledInv, IInv, CarriedWasAsked, Carrying
<1>3. th \in [pc: Carrying, incident: Incidents, decision: Decisions,
              text: Actions \cup NoRecord, seen: Notice \cup NoRecord,
              pending: Question, at: Nat, reply: Replies]
  BY <1>1, CarryingType
<1>4. Recorded(th.incident)
  BY <1>2 DEF OnceInv, QuestionInv, AskedIsRecorded
<1>5. CASE Decided(th.incident)
  <2> DEFINE n == [th EXCEPT !.pc = "clear", !.reply = "conflict"]
  <2>1. Advance(t, n)
    BY <1>4, <1>5 DEF labelRead
  <2>2. n.pc = "clear" /\ n.incident = th.incident /\ n.pending = th.pending
    BY <1>3
  <2> HIDE DEF n
  <2>3. th.pending \in answered
    BY <1>2, <1>5 DEF OnceInv, AnswerInv, QuestionInv, AskedOnce
  <2>4. Settled(t, n)
    BY <1>1, <1>2, <2>2, <2>3 DEF Settled
  <2> QED
    BY <1>1, <2>1, <2>4, ThreadSettles
<1>6. CASE ~Decided(th.incident)
  <2> DEFINE n == [th EXCEPT !.pc = "write"]
  <2>1. Advance(t, n)
    BY <1>4, <1>6 DEF labelRead
  <2>2. n.pc = "write" /\ n.incident = th.incident
    BY <1>3
  <2> HIDE DEF n
  <2>3. Settled(t, n)
    BY <1>1, <1>2, <2>2 DEF Settled
  <2> QED
    BY <1>1, <2>1, <2>3, ThreadSettles
<1> QED
  BY <1>5, <1>6

LEMMA LabelWriteOnce ==
    ASSUME IInv, OnceInv, NEW t \in Threads, labelWrite(t)
    PROVE  OnceInv'
<1> DEFINE th == threads[t]
           i == th.incident
           n == [th EXCEPT !.pc = "clear"]
<1>1. /\ th.pc = "write" /\ th.pc \in Carrying /\ TypeOK
      /\ label(i, th.decision, th.text, TokenFor(th), now)
      /\ Advance(t, n) /\ answered' = answered \cup {th.pending}
      /\ UNCHANGED <<now, work, overdue, asked>>
  BY DEF labelWrite, Carrying, IInv
<1>2. /\ i \in Incidents /\ Settled(t, th) /\ th.decision \in Decisions
      /\ th.pending \in asked /\ th.pending.incident = i
  BY <1>1, CarryingType DEF OnceInv, SettledInv, IInv, CarriedWasAsked, Carrying
<1>3. n.pc = "clear" /\ n.incident = i /\ n.pending = th.pending
  BY <1>1, CarryingType
<1> HIDE DEF n
<1>4. Recorded(i)
  BY <1>2 DEF OnceInv, QuestionInv, AskedIsRecorded
<1>5. \A j \in Incidents :
         /\ j # i => ledger'[j] = ledger[j]
         /\ j = i => Decided(j)'
  <2> DEFINE new == Labelled(ledger[i], th.decision, th.text, TokenFor(th), now)
  <2>1. ledger[i] \in Row
    BY <1>1, <1>2, <1>4 DEF TypeOK, LedgerTypeOK, NoRecord, Recorded
  <2>2. new.decision = th.decision
    BY <2>1 DEF Labelled, Row
  <2>3. \A j \in Incidents : ledger'[j] = IF j = i THEN new ELSE ledger[j]
    BY <1>1, <1>2, <1>4 DEF label, TypeOK, LedgerTypeOK, Recorded
  <2>4. LedgerTypeOK'
    BY <1>1, LabelWriteRow DEF IInv, ThreadInv, LedgerInv
  <2> HIDE DEF new
  <2>5. new # None
    <3>1. TokenFor(th) \in Token \cup NoRecord
      BY <1>1, TokenType DEF IInv, CarriedIsAllowed
    <3>2. /\ KeepIfNone(th.text, ledger[i].decisionAction) \in Actions \cup NoRecord
          /\ KeepIfNone(TokenFor(th), ledger[i].token) \in Token \cup NoRecord
          /\ now \in Nat
      BY <1>1, <2>1, <3>1, CarryingType DEF KeepIfNone, Row, TypeOK
    <3>3. new \in Row
      BY <1>2, <2>1, <3>2 DEF new, Labelled, Row, NoRecord
    <3> QED
      BY <3>3, LedgerAssumption
  <2> QED
    BY <1>2, <2>2, <2>3, <2>5, LedgerAssumption DEF Decided, Recorded
<1>6. \A j \in Incidents : /\ Decided(j) => Decided(j)'
                           /\ Recorded(j) => Recorded(j)'
                           /\ Decided(j)' => Decided(j) \/ j = i
  BY <1>5 DEF Decided, Recorded
<1>7. QuestionInv'
  BY <1>1, <1>6, QuestionFrame DEF OnceInv
<1>8. AnswerInv'
  <2>1. \A q \in answered' : q \in asked' /\ Decided(q.incident)'
    BY <1>1, <1>2, <1>5, <1>6, IncidentTypes DEF OnceInv, AnswerInv
  <2>2. \A j \in Incidents : Decided(j)' => \E q \in answered' : q.incident = j
    BY <1>1, <1>2, <1>6 DEF OnceInv, AnswerInv
  <2> QED
    BY <2>1, <2>2 DEF AnswerInv
<1>9. SettledInv'
  <2>1. \A u \in Threads : threads'[u] = IF u = t THEN n ELSE threads[u]
    BY <1>1 DEF Advance, TypeOK
  <2>2. ASSUME NEW u \in Threads, u # t
        PROVE  Settled(u, threads[u])'
    <3>1. Settled(u, threads[u]) /\ threads'[u] = threads[u]
      BY <2>1, <2>2 DEF OnceInv, SettledInv
    <3>2. threads[u].pc # "idle" => threads[u].incident \in Incidents
      BY <1>1, IncidentTypes
    <3> QED
      BY <1>1, <1>6, <3>1, <3>2 DEF Settled, Late
  <2>3. Settled(t, threads[t])'
    <3>1. threads'[t] = n
      BY <2>1
    <3>2. th.pending \in answered' /\ (t = Sweeper => Late(i))
      BY <1>1, <1>2 DEF Settled
    <3> QED
      BY <1>1, <1>3, <3>1, <3>2 DEF Settled, Late
  <2>4. \A j \in overdue' : Late(j)'
    BY <1>1 DEF OnceInv, SettledInv, Late
  <2> QED
    BY <2>2, <2>3, <2>4 DEF SettledInv
<1> QED
  BY <1>7, <1>8, <1>9 DEF OnceInv

(* A row is decided and a question put to rest by the same thread, so a    *)
(* request that clears it up is backed by the ledger                       *)
LEMMA ClearOnce ==
    ASSUME IInv, OnceInv, NEW t \in Threads, clear(t)
    PROVE  OnceInv'
<1> DEFINE th == threads[t]
<1>1. /\ th.pc = "clear" /\ th.pc \in Carrying /\ TypeOK
      /\ Advance(t, Ended(t, th.incident, th.reply))
      /\ overdue' \subseteq overdue
      /\ UNCHANGED <<ledger, now, work, asked, answered>>
  BY DEF clear, Carrying, IInv, Remaining
<1>2. /\ th.incident \in Incidents /\ th.reply \in Replies /\ Settled(t, th)
      /\ th.pending.incident = th.incident
  BY <1>1, CarryingType DEF OnceInv, SettledInv, IInv, CarriedWasAsked, Carrying
<1>3. Decided(th.incident)
  BY <1>1, <1>2 DEF Settled, OnceInv, AnswerInv
<1>4. Settled(t, Ended(t, th.incident, th.reply))
  BY <1>1, <1>2, <1>3, EndedSettles DEF Settled
<1> QED
  BY <1>1, <1>4, ThreadSettles

LEMMA SweepOnce ==
    ASSUME IInv, OnceInv, Sweep
    PROVE  OnceInv'
<1>0. TypeOK /\ Sweeper \in Threads
  BY DEF IInv, Threads
<1>1. CASE beginSweep
  <2>1. UNCHANGED <<ledger, now, threads, work, asked, answered>>
        /\ overdue' = Overdue
    BY <1>1 DEF beginSweep
  <2>2. QuestionInv' /\ AnswerInv'
    BY <1>0, <2>1, QuestionFrame, AnswerFrame DEF OnceInv, Decided, Recorded
  <2>3. \A i \in Overdue : Late(i)
    BY DEF Overdue, Parked, IInv, ParkedWasAsked, Late
  <2>4. SettledInv'
    BY <2>1, <2>3
    DEF OnceInv, SettledInv, Settled, Late, Decided, Recorded
  <2> QED
    BY <2>2, <2>4 DEF OnceInv
<1>2. ASSUME NEW i \in Incidents, expire(i)
      PROVE  OnceInv'
  <2>1. Late(i)
    BY <1>2 DEF expire, OnceInv, SettledInv
  <2> QED
    BY <1>0, <1>2, <2>1, LoadOnce, ApprovalsAssumption DEF expire
<1>3. CASE discard
  <2>1. Settled(Sweeper, Idle)
    BY ApprovalsAssumption DEF Settled, Idle
  <2> QED
    BY <1>0, <1>3, <2>1, ThreadSettles DEF discard
<1> QED
  BY <1>1, <1>2, <1>3 DEF Sweep

LEMMA RestartOnce ==
    ASSUME IInv, OnceInv, Restart
    PROVE  OnceInv'
<1>1. /\ UNCHANGED <<ledger, now, asked, answered>> /\ TypeOK
      /\ threads' = [t \in Threads |-> Interrupted(t)]
      /\ work' = [w \in Workers |-> Idle] /\ overdue' = {}
  BY DEF Restart, IInv
<1>2. AskedIsRecorded' /\ AskedOnce' /\ AnswerInv'
  BY <1>1, AnswerFrame
  DEF OnceInv, QuestionInv, AskedIsRecorded, AskedOnce, Decided, Recorded
<1>3. RecordedIsNew'
  BY <1>1 DEF RecordedIsNew, Idle
<1>4. ASSUME NEW t \in Threads
      PROVE  Settled(t, threads[t])'
  <2>1. threads'[t] = Interrupted(t) /\ Settled(t, threads[t])
    BY <1>1 DEF OnceInv, SettledInv
  <2>2. Settled(t, Interrupted(t))
    BY <2>1 DEF Settled, Interrupted, Idle
  <2> QED
    BY <1>1, <2>1, <2>2 DEF Settled, Late, Decided, Recorded
<1>5. SettledInv'
  BY <1>1, <1>4 DEF SettledInv
<1> QED
  BY <1>2, <1>3, <1>5 DEF OnceInv, QuestionInv

LEMMA QuietOnce ==
    ASSUME IInv, OnceInv, Tick \/ UNCHANGED vars
    PROVE  OnceInv'
<1>1. /\ UNCHANGED <<ledger, work, threads, overdue, asked, answered>>
      /\ now' \in Nat /\ now <= now' /\ TypeOK
  BY DEF Tick, vars, approvalVars, IInv, TypeOK
<1> QED
  BY <1>1, QuestionFrame, AnswerFrame, SettledFrame DEF OnceInv, Decided, Recorded

LEMMA OnceInit == Init => OnceInv
<1> SUFFICES ASSUME Init PROVE OnceInv
  OBVIOUS
<1>1. /\ \A i \in Incidents : ~Decided(i)
      /\ \A w \in Workers : work[w].pc = "idle"
      /\ \A t \in Threads : threads[t].pc = "idle"
      /\ asked = {} /\ answered = {} /\ overdue = {}
  BY DEF Init, LedgerInit, Decided, Recorded, Idle
<1> QED
  BY <1>1
  DEF OnceInv, QuestionInv, AskedIsRecorded, AskedOnce, RecordedIsNew, AnswerInv,
      SettledInv, Settled

LEMMA OnceStep == IInv /\ OnceInv /\ [Next]_vars /\ [OnlyNew]_vars => OnceInv'
<1> SUFFICES ASSUME IInv, OnceInv, [Next]_vars, [OnlyNew]_vars PROVE OnceInv'
  OBVIOUS
<1>1. CASE UNCHANGED vars
  BY <1>1, QuietOnce
<1>2. CASE OnlyNew
  <2>1. ASSUME NEW w \in Workers, NEW i \in Incidents, NEW h \in Hashes,
               NEW a \in Actions \cup NoRecord, RecordVerdict(w, i, h, a)
        PROVE  OnceInv'
    BY <1>2, <2>1, RecordOnce
  <2>2. ASSUME NEW w \in Workers, register(w) \/ deliver(w)
        PROVE  OnceInv'
    BY <2>2, RegisterOnce, DeliverOnce
  <2>3. ASSUME NEW r \in Requests, NEW i \in Incidents, NEW d \in Human,
               NEW text \in Actions \cup NoRecord, NEW seen \in Readable(i),
               Submit(r, i, d, text, seen)
        PROVE  OnceInv'
    <3>1. r \in Threads /\ r # Sweeper
      BY ApprovalsAssumption DEF Threads
    <3>2. load(r, i, d, text, seen)
          /\ UNCHANGED <<ledger, now, work, overdue, asked, answered>>
      BY <2>3 DEF Submit
    <3> QED
      BY <3>1, <3>2, LoadOnce
  <2>4. ASSUME NEW t \in Threads, Decide(t)
        PROVE  OnceInv'
    BY <2>4, CheckOnce, LabelReadOnce, LabelWriteOnce, ClearOnce DEF Decide
  <2> QED
    BY <2>1, <2>2, <2>3, <2>4, SweepOnce, RestartOnce, QuietOnce DEF Next
<1> QED
  BY <1>1, <1>2

LEMMA OnceInvariance == Spec /\ [][OnlyNew]_vars => [](IInv /\ OnceInv)
BY Initially, Inductive, OnceInit, OnceStep, PTL DEF Spec

(* In particular if there is only one diagnosis, as in the runs            *)
LEMMA OneIsNew == MaxDiagnoses = 1 => (Spec => [][OnlyNew]_vars)
<1> DEFINE Empty == diagnoses = 0 => \A i \in Incidents : ledger[i] = None
<1> SUFFICES ASSUME MaxDiagnoses = 1
             PROVE  Spec => [][OnlyNew]_vars
  OBVIOUS
<1>1. Init => Empty
  BY DEF Init, LedgerInit
<1>2. ASSUME IInv, Empty, [Next]_vars
      PROVE  Empty'
  <2>1. CASE \E w \in Workers, i \in Incidents, h \in Hashes,
                a \in Actions \cup NoRecord : RecordVerdict(w, i, h, a)
    <3>1. diagnoses' = diagnoses + 1 /\ diagnoses \in Nat
      BY <1>2, <2>1 DEF RecordVerdict, IInv, TypeOK
    <3> QED
      BY <3>1
  <2>2. CASE \E t \in Threads : labelWrite(t)
    BY <1>2, <2>2 DEF labelWrite, label, IInv, TypeOK, LedgerTypeOK
  <2>3. CASE UNCHANGED <<ledger, diagnoses>>
    BY <1>2, <2>3
  <2> QED
    BY <1>2, <2>1, <2>2, <2>3
    DEF Next, Decide, Sweep, register, deliver, Submit, check, labelRead, clear,
        beginSweep, expire, discard, Tick, Restart, vars, approvalVars
<1>3. IInv /\ Empty => OnlyNew
  BY DEF OnlyNew, RecordVerdict, IInv, TypeOK
<1> HIDE DEF Empty
<1>4. QED
  BY <1>1, <1>2, <1>3, Invariance, PTL DEF Spec

(* Where no incident is diagnosed twice, whoever was told that a decision  *)
(* is recorded, or that there already was one, was told the truth, across  *)
(* races and restarts (ApprovalPipeline._record, load).                    *)
THEOREM AnswerSafety == Spec /\ [][OnlyNew]_vars => []AnswerIsBacked
<1>1. OnceInv => AnswerIsBacked
  BY DEF OnceInv, SettledInv, Settled, AnswerIsBacked, Threads
<1>2. QED BY <1>1, OnceInvariance, PTL

(* A question leaves a durable store only decided or late: what a thread   *)
(* deletes is the one question of its incident, which it has answered or   *)
(* found answered, or which the sweep listed as overdue.                   *)
LEMMA HeldStep ==
    ASSUME IInv, OnceInv, Durable, [Next]_vars, NEW i \in Incidents,
           inflight[i] # None, inflight'[i] = None
    PROVE  inflight[i] \in answered \/ now >= inflight[i].deadline
<1>1. /\ TypeOK /\ inflight[i] \in asked /\ inflight[i].incident = i
      /\ inflight[i].deadline \in Nat /\ now \in Nat
  <2>1. inflight[i] \in asked /\ inflight[i].incident = i
    BY DEF IInv, ParkedWasAsked
  <2> QED
    BY <2>1, IncidentTypes DEF IInv, TypeOK
<1>2. PICK t \in Threads : clear(t) \/ (t = Sweeper /\ discard)
  <2>1. ASSUME NEW w \in Workers, register(w)
        PROVE  FALSE
    <3>1. \/ inflight' = inflight
          \/ \E q \in Question : inflight' = [inflight EXCEPT ![work[w].incident] = q]
      <4> DEFINE q == [incident |-> work[w].incident, hash |-> work[w].hash,
                       action |-> work[w].action, deadline |-> now + TTL]
      <4>1. work[w] \in [pc: {"recorded", "registered"}, incident: Incidents,
                         hash: Hashes, action: Actions \cup NoRecord]
        BY <1>1, <2>1 DEF register, TypeOK, Job
      <4>2. work[w].action # None => q \in Question
        BY <1>1, <4>1, ApprovalsAssumption DEF Question, NoRecord
      <4>3. \/ inflight' = inflight
            \/ work[w].action # None
               /\ inflight' = [inflight EXCEPT ![work[w].incident] = q]
        BY <2>1 DEF register
      <4> QED
        BY <4>2, <4>3
    <3>2. PICK q \in Question : inflight' = [inflight EXCEPT ![work[w].incident] = q]
      BY <3>1
    <3>3. q = None
      BY <1>1, <3>2 DEF TypeOK
    <3> QED
      BY <3>3, ApprovalsAssumption
  <2>2. ~UNCHANGED inflight
    OBVIOUS
  <2>3. ~Restart
    BY <2>2 DEF Restart
  <2>4. ~Tick /\ ~UNCHANGED vars
    BY <2>2 DEF Tick, vars, approvalVars
  <2>5. \A w \in Workers : ~deliver(w) /\ ~register(w)
    BY <2>1, <2>2 DEF deliver
  <2>6. \A w \in Workers, j \in Incidents, h \in Hashes, a \in Actions \cup NoRecord :
           ~RecordVerdict(w, j, h, a)
    BY <2>2 DEF RecordVerdict
  <2>7. \A r \in Requests, j \in Incidents, d \in Human, text \in Actions \cup NoRecord :
           \A seen \in Readable(j) : ~Submit(r, j, d, text, seen)
    BY <2>2 DEF Submit
  <2>8. \A t \in Threads : ~check(t) /\ ~labelRead(t) /\ ~labelWrite(t)
    BY <2>2 DEF check, labelRead, labelWrite
  <2>9. ~beginSweep /\ \A j \in Incidents : ~expire(j)
    BY <2>2 DEF beginSweep, expire
  <2>10. (\E t \in Threads : clear(t)) \/ discard
    BY <2>3, <2>4, <2>5, <2>6, <2>7, <2>8, <2>9 DEF Next, Decide, Sweep
  <2> QED
    BY <2>10 DEF Threads
<1>3. threads[t].incident = i
  BY <1>1, <1>2 DEF clear, discard, delete, TypeOK
<1>4. CASE clear(t)
  <2>1. threads[t].pending \in answered /\ threads[t].pending \in asked
        /\ threads[t].pending.incident = i
    BY <1>3, <1>4 DEF clear, OnceInv, SettledInv, Settled, IInv, CarriedWasAsked
  <2> QED
    BY <1>1, <2>1 DEF OnceInv, QuestionInv, AskedOnce
<1>5. CASE t = Sweeper /\ discard
  <2>1. Late(i)
    BY <1>3, <1>5 DEF discard, OnceInv, SettledInv, Settled
  <2>2. inflight[i].deadline <= now
    BY <1>1, <2>1 DEF Late, OnceInv, QuestionInv, AskedOnce
  <2> QED
    BY <1>1, <2>2
<1> QED
  BY <1>2, <1>4, <1>5

(* Where no incident is diagnosed twice, a durable store holds a question  *)
(* until a decision on it is in the ledger or its deadline has passed,     *)
(* whatever the sweeper and the requests race for (inflight.py).           *)
THEOREM HoldSafety == Durable => (Spec /\ [][OnlyNew]_vars => HeldUntilDecided)
<1> DEFINE Held == \A i \in Incidents :
                      inflight[i] # None /\ inflight'[i] = None =>
                          inflight[i] \in answered \/ now >= inflight[i].deadline
<1>1. ASSUME Durable PROVE IInv /\ OnceInv /\ [Next]_vars => [Held]_vars
  BY <1>1, HeldStep
<1>2. HeldUntilDecided <=> [][Held]_vars
  BY DEF HeldUntilDecided
<1> HIDE DEF Held
<1> SUFFICES ASSUME Durable
             PROVE  Spec /\ [][OnlyNew]_vars => HeldUntilDecided
  OBVIOUS
<1>3. IInv /\ OnceInv /\ [Next]_vars => [Held]_vars
  BY <1>1
<1>4. QED BY <1>2, <1>3, OnceInvariance, PTL DEF Spec
=============================================================================
