-------------------------- MODULE DiagnosisProofs --------------------------
(***************************************************************************)
(* Safety of the diagnosis pipeline for any number of requests, whatever   *)
(* the model answers, the provider refuses and the clock does: what it     *)
(* records and quotes, why and when a run ends; and that the pipeline      *)
(* implements Verdicts.                                                    *)
(***************************************************************************)
EXTENDS Diagnosis, WellFoundedInduction, TLAPS

-----------------------------------------------------------------------------
(* Evidence: every contract has a class, every class a ceiling             *)
LEMMA ClassType ==
    ASSUME NEW c \in Contract
    PROVE  classify_evidence(c) \in
             {"image_pull_with_registry_error", "image_pull_without_detail",
              "oom_with_limits", "oom_without_limits",
              "oom_during_init_with_marker", "oom_during_init_without_marker",
              "crashloop_with_fatal_log", "crashloop_logs_no_error",
              "crashloop_logs_unavailable", "unknown"}
BY DEF classify_evidence

LEMMA CeilingType ==
    ASSUME NEW c \in Contract
    PROVE  ceiling(classify_evidence(c)) \in 0 .. 100
BY ClassType DEF ceiling, CEILINGS

(* The gate's three rules, its classes and its ceilings come down to this: *)
(* it abstains on exactly the contracts in which nothing names a cause     *)
(* (evidence.gate).                                                        *)
THEOREM GateIsNoSignal ==
    ASSUME NEW c \in Contract
    PROVE  gate(c) <=> NoSignal(c)
<1>1. CASE c.failure = "CrashLoopBackOff"
  BY <1>1 DEF gate, NoSignal, classify_evidence, has_usable_logs, ceiling,
              CEILINGS, ABSTAIN_BELOW
<1>2. CASE c.failure = "OOMKilledDuringInit"
  BY <1>2 DEF gate, NoSignal, classify_evidence, ceiling, CEILINGS,
              ABSTAIN_BELOW, Contract
<1>3. CASE c.failure \notin {"CrashLoopBackOff", "OOMKilledDuringInit"}
  BY <1>3 DEF gate, NoSignal, classify_evidence, ceiling, CEILINGS,
              ABSTAIN_BELOW
<1>4. QED BY <1>1, <1>2, <1>3

-----------------------------------------------------------------------------
(***************************************************************************)
(* The invariant, one request at a time: s is the pipeline's state, w the  *)
(* ledger row and p the response.                                          *)
(***************************************************************************)
AtModel == {"diagnose", "calling", "settled", "sleeping", "validate"}
Over    == {"recorded", "told"}

Backed(c, d, f) ==
    /\ d # None /\ f # None
    /\ validate(d, Payload[c])
    /\ f <= d.confidence /\ f <= ceiling(classify_evidence(c)) /\ f >= Threshold

Good(s, w, p) ==
    /\ s.pc = "idle" <=> s.contract = None
    /\ s.pc = "idle" => s.calls = 0
    /\ s.pc = "settled" => s.result \in Result
    /\ s.pc \in AtModel \/ s.calls > 0 => ~NoSignal(s.contract)
    /\ s.pc = "diagnosed" => Backed(s.contract, s.diagnosis, s.final)
    /\ w # None <=> s.pc \in Over
    /\ p # None <=> s.pc = "told"
    /\ w # None /\ w.outcome = "DIAGNOSED" =>
           Backed(s.contract, w.diagnosis, w.final) /\ s.final = w.final

AllGood == \A r \in Runs : Good(run[r], row[r], reply[r])

IInv == TypeOK /\ AllGood

LEMMA Initially == Init => IInv
BY DiagnosisAssumption
   DEF Init, IInv, TypeOK, AllGood, Good, Start, Run, AtModel, Over

-----------------------------------------------------------------------------
(* An action that moves one request and writes neither row nor response    *)
LEMMA RunStep ==
    ASSUME IInv, NEW r \in Runs, NEW s \in Run, Becomes(r, s),
           UNCHANGED <<row, reply>>, Good(s, row[r], reply[r])
    PROVE  run' \in [Runs -> Run] /\ AllGood'
<1>1. run' \in [Runs -> Run]
      /\ \A q \in Runs : run'[q] = IF q = r THEN s ELSE run[q]
  BY DEF IInv, TypeOK, Becomes
<1>2. \A q \in Runs : Good(run'[q], row[q], reply[q])
  BY <1>1 DEF IInv, AllGood
<1>3. AllGood'
  BY <1>2 DEF AllGood, Good
<1>4. QED BY <1>1, <1>3

LEMMA ClassifyStep ==
    ASSUME IInv, NEW r \in Runs, NEW c \in Contracts, classify(r, c)
    PROVE  IInv'
<1> DEFINE s == [Start EXCEPT !.pc = "gate", !.contract = c, !.started = now]
<1>1. s \in Run
  BY DiagnosisAssumption DEF s, Start, Run, IInv, TypeOK
<1>2. Good(run[r], row[r], reply[r]) /\ run[r].pc = "idle"
  BY DEF IInv, AllGood, classify
<1>3. Good(s, row[r], reply[r])
  BY <1>2, DiagnosisAssumption DEF s, Start, Good, AtModel, Over
<1>4. run' \in [Runs -> Run] /\ AllGood'
  <2> HIDE DEF s
  <2>1. Becomes(r, s) /\ UNCHANGED <<row, reply>>
    BY DEF classify, s
  <2>2. QED BY <1>1, <1>3, <2>1, RunStep
<1>5. QED BY <1>4 DEF IInv, TypeOK, classify

LEMMA GateStep ==
    ASSUME IInv, NEW r \in Runs, evidence_gate(r)
    PROVE  IInv'
<1> DEFINE s == [run[r] EXCEPT !.pc = IF gate(run[r].contract)
                                      THEN "insufficient" ELSE "diagnose"]
<1>0. Good(run[r], row[r], reply[r]) /\ run[r].pc = "gate" /\ run[r] \in Run
  BY DEF IInv, AllGood, evidence_gate, TypeOK
<1>1. s \in Run
  BY <1>0 DEF s, Run, Terminals
<1>2. run[r].contract \in Contract
  BY <1>0, DiagnosisAssumption DEF Good, Run
<1>3. Good(s, row[r], reply[r])
  BY <1>0, <1>2, GateIsNoSignal DEF s, Good, Run, AtModel, Over
<1>4. run' \in [Runs -> Run] /\ AllGood'
  <2> HIDE DEF s
  <2>1. Becomes(r, s) /\ UNCHANGED <<row, reply>>
    BY DEF evidence_gate, s
  <2>2. QED BY <1>1, <1>3, <2>1, RunStep
<1>5. QED BY <1>4 DEF IInv, TypeOK, evidence_gate

(* A request between the gate and its terminal: what moving it on asks for *)
LEMMA Underway ==
    ASSUME IInv, NEW r \in Runs, run[r].pc \in AtModel
    PROVE  /\ run[r] \in Run /\ run[r].contract \in Contract
           /\ ~NoSignal(run[r].contract)
           /\ row[r] = None /\ reply[r] = None
BY DiagnosisAssumption DEF IInv, TypeOK, AllGood, Good, AtModel, Over, Run

LEMMA UnderwayStep ==
    ASSUME IInv, NEW r \in Runs, run[r].pc \in AtModel, NEW s \in Run,
           Becomes(r, s), UNCHANGED <<row, reply>>,
           s.contract = run[r].contract,
           s.pc \in AtModel \cup {"insufficient", "discarded"},
           s.pc = "settled" => s.result \in Result
    PROVE  run' \in [Runs -> Run] /\ AllGood'
<1>1. Good(s, row[r], reply[r])
  BY Underway, DiagnosisAssumption DEF Good, AtModel, Over
<1>2. QED BY <1>1, RunStep

LEMMA DiagnoseStep ==
    ASSUME IInv, NEW r \in Runs, diagnose(r)
    PROVE  IInv'
<1>0. run[r].pc \in AtModel
  BY DEF diagnose, AtModel
<1> DEFINE s == IF now < Ends(r)
                THEN [run[r] EXCEPT !.pc = "calling", !.attempts = @ + 1,
                                    !.calls = @ + 1]
                ELSE [run[r] EXCEPT !.pc = "discarded", !.attempts = @ + 1]
<1>1. s \in Run /\ s.contract = run[r].contract /\ s.pc \in {"calling", "discarded"}
  <2>1. run[r] \in Run
    BY <1>0, Underway
  <2>2. run[r].attempts + 1 \in Nat /\ run[r].calls + 1 \in Nat
    BY <2>1 DEF Run
  <2>3. CASE now < Ends(r)
    BY ZenonT(40), <2>1, <2>2, <2>3 DEF Run
  <2>4. CASE ~(now < Ends(r))
    BY ZenonT(40), <2>1, <2>2, <2>4 DEF Run, Terminals
  <2>5. QED BY <2>3, <2>4
<1>2. Becomes(r, s)
  BY DEF diagnose
<1>3. run' \in [Runs -> Run] /\ AllGood'
  <2> HIDE DEF s
  <2>1. QED BY <1>0, <1>1, <1>2, UnderwayStep DEF diagnose, AtModel
<1>4. QED BY <1>3 DEF IInv, TypeOK, diagnose

LEMMA SettledType ==
    ASSUME IInv, NEW r \in Runs, run[r].pc \in AtModel, NEW error \in BOOLEAN,
           NEW wait \in Nat \cup {None},
           NEW text \in DiagnosisOutput \cup {Malformed, None}
    PROVE  LET s == Settled(r, error, wait, text) IN
           /\ s \in Run /\ s.contract = run[r].contract
           /\ s.pc = "settled" /\ s.result \in Result
<1> DEFINE res == [error |-> error, wait |-> wait, text |-> text]
<1>1. res \in Result
  BY DEF Result
<1>2. QED
  <2> HIDE DEF res
  <2>0. run[r] \in Run
    BY Underway
  <2>1. [run[r] EXCEPT !.pc = "settled", !.result = res] \in Run
    BY <1>1, <2>0 DEF Run
  <2>2. Settled(r, error, wait, text)
          = [run[r] EXCEPT !.pc = "settled", !.result = res]
    BY DEF Settled, res
  <2>3. QED BY <1>1, <2>0, <2>1, <2>2 DEF Run

LEMMA AnswerStep ==
    ASSUME IInv, NEW r \in Runs, NEW text \in Answers \cup {Malformed},
           NEW u \in Usages, complete_json(r, text, u)
    PROVE  IInv'
<1> DEFINE s == Settled(r, FALSE, None, text)
<1>0. run[r].pc \in AtModel
  BY DEF complete_json, AtModel
<1>1. /\ s \in Run /\ s.contract = run[r].contract
      /\ s.pc = "settled" /\ s.result \in Result
  BY <1>0, SettledType, DiagnosisAssumption
<1>2. Becomes(r, s)
  BY DEF complete_json
<1>3. run' \in [Runs -> Run] /\ AllGood'
  <2> HIDE DEF s
  <2>1. QED BY <1>0, <1>1, <1>2, UnderwayStep DEF complete_json, AtModel
<1>4. u \in Nat
  BY DiagnosisAssumption
<1>5. usage' \in Nat /\ spent' \in [Runs -> Nat]
  BY <1>4 DEF complete_json, IInv, TypeOK
<1>6. QED BY <1>3, <1>5 DEF IInv, TypeOK, complete_json

LEMMA RefuseStep ==
    ASSUME IInv, NEW r \in Runs, NEW wait \in Waits \cup {None}, refuse(r, wait)
    PROVE  IInv'
<1> DEFINE s == Settled(r, TRUE, wait, None)
<1>0. run[r].pc \in AtModel
  BY DEF refuse, AtModel
<1>1. /\ s \in Run /\ s.contract = run[r].contract
      /\ s.pc = "settled" /\ s.result \in Result
  <2>1. wait \in Nat \cup {None}
    BY DiagnosisAssumption
  <2>2. QED BY <1>0, <2>1, SettledType
<1>2. Becomes(r, s)
  BY DEF refuse
<1>3. run' \in [Runs -> Run] /\ AllGood'
  <2> HIDE DEF s
  <2>1. QED BY <1>0, <1>1, <1>2, UnderwayStep DEF refuse, AtModel
<1>4. QED BY <1>3 DEF IInv, TypeOK, refuse

LEMMA DiscardedType ==
    ASSUME IInv, NEW r \in Runs, run[r].pc \in AtModel
    PROVE  /\ Discarded(r) \in Run /\ Discarded(r).pc = "discarded"
           /\ Discarded(r).contract = run[r].contract
<1>1. run[r] \in Run /\ usage \in Nat
  BY Underway DEF IInv, TypeOK
<1>2. run[r].tokens + usage \in Nat
  BY <1>1 DEF Run
<1>3. QED BY <1>1, <1>2 DEF Discarded, Run, Terminals

LEMMA AbandonStep ==
    ASSUME IInv, NEW r \in Runs, abandon(r)
    PROVE  IInv'
<1>0. run[r].pc \in AtModel
  BY DEF abandon, AtModel
<1>1. run' \in [Runs -> Run] /\ AllGood'
  BY <1>0, DiscardedType, UnderwayStep DEF abandon
<1>2. QED BY <1>1 DEF IInv, TypeOK, abandon

LEMMA ParsedType ==
    ASSUME IInv, NEW r \in Runs, run[r].pc \in AtModel,
           NEW text \in DiagnosisOutput \cup {Malformed, None}
    PROVE  /\ Parsed(r, text) \in Run /\ Parsed(r, text).pc = "validate"
           /\ Parsed(r, text).contract = run[r].contract
<1> DEFINE d == IF text = Malformed THEN None ELSE text
           f == run[r].failures \/ text = Malformed
           n == run[r].tokens + usage
<1>1. run[r] \in Run /\ usage \in Nat
  BY Underway DEF IInv, TypeOK
<1>2. n \in Nat /\ d \in DiagnosisOutput \cup {None}
  BY <1>1 DEF Run
<1>3. f \in BOOLEAN
  OBVIOUS
<1>4. Parsed(r, text)
        = [run[r] EXCEPT !.pc = "validate", !.result = None, !.tokens = n,
                         !.diagnosis = d, !.failures = f]
  BY Zenon DEF Parsed
<1> HIDE DEF d, f, n
<1>5. QED BY ZenonT(40), <1>1, <1>2, <1>3, <1>4 DEF Run

LEMMA ReceiveStep ==
    ASSUME IInv, NEW r \in Runs, receive(r)
    PROVE  IInv'
<1> DEFINE res == run[r].result
           sleep == [run[r] EXCEPT !.pc = "sleeping", !.result = None,
                                   !.wakes = now + res.wait + Pad]
<1>0. run[r].pc = "settled" /\ run[r].pc \in AtModel /\ res \in Result
  BY DEF receive, AtModel, IInv, AllGood, Good
<1>1. CASE ~res.error
  <2>1. res.text \in DiagnosisOutput \cup {Malformed, None}
    BY <1>0 DEF Result
  <2>2. Becomes(r, Parsed(r, res.text)) /\ UNCHANGED <<row, reply>>
    BY <1>1 DEF receive
  <2>3. run' \in [Runs -> Run] /\ AllGood'
    BY <1>0, <2>1, <2>2, ParsedType, UnderwayStep DEF AtModel
  <2>4. QED BY <2>3 DEF IInv, TypeOK, receive
<1>2. CASE res.error /\ Waitable(r, res.wait)
  <2>1. res.wait \in Nat
    BY <1>0, <1>2 DEF Result, Waitable
  <2>2. sleep \in Run /\ sleep.pc = "sleeping" /\ sleep.contract = run[r].contract
    <3>1. run[r] \in Run /\ now + res.wait + Pad \in Nat
      BY <1>0, <2>1, Underway DEF IInv, TypeOK, Pad
    <3> HIDE DEF res
    <3>2. QED BY <3>1 DEF Run
  <2>3. Becomes(r, sleep) /\ UNCHANGED <<row, reply>>
    BY <1>2 DEF receive
  <2>4. run' \in [Runs -> Run] /\ AllGood'
    <3> HIDE DEF sleep, res
    <3>1. QED BY <1>0, <2>2, <2>3, UnderwayStep DEF AtModel
  <2>5. QED BY <2>4 DEF IInv, TypeOK, receive
<1>3. CASE res.error /\ ~Waitable(r, res.wait)
  <2>1. Becomes(r, Discarded(r)) /\ UNCHANGED <<row, reply>>
    BY <1>3 DEF receive
  <2>2. run' \in [Runs -> Run] /\ AllGood'
    BY <1>0, <2>1, DiscardedType, UnderwayStep
  <2>3. QED BY <2>2 DEF IInv, TypeOK, receive
<1>4. QED BY <1>1, <1>2, <1>3

LEMMA WakeStep ==
    ASSUME IInv, NEW r \in Runs, wake(r)
    PROVE  IInv'
<1> DEFINE s == [run[r] EXCEPT !.pc = "calling", !.calls = @ + 1]
<1>0. run[r].pc \in AtModel
  BY DEF wake, AtModel
<1>1. CASE now < Ends(r)
  <2>1. s \in Run /\ s.pc = "calling" /\ s.contract = run[r].contract
    <3>1. run[r] \in Run
      BY <1>0, Underway
    <3>2. run[r].calls + 1 \in Nat
      BY <3>1 DEF Run
    <3>3. QED BY <3>1, <3>2 DEF Run
  <2>2. Becomes(r, s) /\ UNCHANGED <<row, reply>>
    BY <1>1 DEF wake
  <2>3. run' \in [Runs -> Run] /\ AllGood'
    <3> HIDE DEF s
    <3>1. QED BY <1>0, <2>1, <2>2, UnderwayStep DEF AtModel
  <2>4. QED BY <2>3 DEF IInv, TypeOK, wake
<1>2. CASE ~(now < Ends(r))
  <2>1. Becomes(r, Discarded(r)) /\ UNCHANGED <<row, reply>>
    BY <1>2 DEF wake
  <2>2. run' \in [Runs -> Run] /\ AllGood'
    BY <1>0, <2>1, DiscardedType, UnderwayStep
  <2>3. QED BY <2>2 DEF IInv, TypeOK, wake
<1>3. QED BY <1>1, <1>2

(***************************************************************************)
(* The validator: whichever way its order of attempts locates a citation   *)
(* and reads its value, a citation it accepts stands in the contract.      *)
(***************************************************************************)
LEMMA AcceptedStands ==
    ASSUME NEW payload, NEW c, citation_ok(payload, c)
    PROVE  Stands(payload, c)
<1> DEFINE node   == resolve_citation(payload, c)
           actual == normalise(node.text)
           raw    == normalise(c.value)
           cited  == IF value_matches(raw, actual) THEN raw
                     ELSE normalise(unescape(c.value))
<1>1. /\ node.kind # "absent" /\ cited # <<>>
      /\ cited # actual => Len(actual) > SCALAR_MAX_LENGTH /\ Excerpt(cited, actual)
  BY DEF citation_ok, value_matches
<1>2. PICK path \in {c.field, c.source \o c.field} : node = resolve_path(payload, path)
  BY DEF resolve_citation
<1>3. PICK v \in {c.value, unescape(c.value)} : cited = normalise(v)
  OBVIOUS
<1> HIDE DEF node, cited
<1>4. QED BY <1>1, <1>2, <1>3 DEF Stands

(* A diagnosis that passes has evidence, and every citation in it stands   *)
(* in the contract the model was shown (validate, resolve_citation,        *)
(* _value_matches, _unescape).                                             *)
THEOREM ValidatedStands ==
    ASSUME NEW d, NEW payload, validate(d, payload)
    PROVE  /\ d.evidence # <<>>
           /\ \A k \in DOMAIN d.evidence : Stands(payload, d.evidence[k])
BY AcceptedStands DEF validate

-----------------------------------------------------------------------------
(***************************************************************************)
(* Quotations. What the validator computes over a text, it computes by     *)
(* recursion over its positions; induction over an initial segment of the  *)
(* naturals is the least element of the positions it fails at.             *)
(***************************************************************************)
LEMMA LeastOf ==
    ASSUME NEW T \in SUBSET Nat, T # {}
    PROVE  \E x \in T : \A y \in T : x <= y
<1> DEFINE R == {ss \in Nat \X Nat : ss[1] < ss[2]}
<1>1. IsWellFoundedOn(R, Nat)
  BY NatLessThanWellFounded DEF OpToRel
<1>2. \A y, x \in Nat : y < x => <<y, x>> \in R
  OBVIOUS
<1> HIDE DEF R
<1>3. PICK x \in T : \A y \in T : ~(<<y, x>> \in R)
  BY <1>1, WFMin
<1>4. \A y \in T : y \in Nat /\ x \in Nat /\ ~(y < x)
  BY <1>2, <1>3
<1>5. \A y \in T : x <= y
  BY <1>4
<1> QED
  BY <1>5

LEMMA UpTo ==
    ASSUME NEW n \in Nat, NEW S, 0 \in S,
           \A k \in 0 .. n : k \in S /\ k + 1 <= n => k + 1 \in S
    PROVE  0 .. n \subseteq S
<1> SUFFICES ASSUME (0 .. n) \ S # {}
             PROVE  FALSE
  OBVIOUS
<1>0. (0 .. n) \ S \in SUBSET Nat
  OBVIOUS
<1>1. PICK x \in (0 .. n) \ S : \A y \in (0 .. n) \ S : x <= y
  BY <1>0, LeastOf
<1>2. x - 1 \in 0 .. n /\ x - 1 \in S
  BY <1>1
<1> QED
  BY <1>1, <1>2

(* If no quoted span is too short, every second span is checked (_QUOTED)  *)
LEMMA QuotesAreChecked ==
    ASSUME NEW prose \in Seq(Text), NEW j \in 1 .. Len(prose) - 1, j % 2 = 0,
           \A k \in 1 .. Len(prose) - 1 : k % 2 = 0 => Len(prose[k]) >= MIN_QUOTED_LENGTH
    PROVE  prose[j] \in Quoted(prose)
<1> DEFINE n == Len(prose)
           long(k) == Len(prose[k + 1]) >= MIN_QUOTED_LENGTH
           opens[k \in 0 .. Len(prose)] ==
               /\ k > 0
               /\ ~opens[k - 1]
               /\ k + 1 < Len(prose)
               /\ Len(prose[k + 1]) >= MIN_QUOTED_LENGTH
           w == [k \in 0 .. n |-> k % 2 = 1 /\ k + 1 < n]
<1>1. Quoted(prose) = {prose[k + 1] : k \in {k \in 1 .. Len(prose) : opens[k]}}
  BY Zenon DEF Quoted
<1>2. n \in Nat
  OBVIOUS
<1>3. \A k \in 0 .. n : k % 2 = 1 /\ k + 1 < n => long(k)
  BY <1>2
<1> HIDE DEF n, long
<1>4. w = [k \in 0 .. n |-> k % 2 = 1 /\ k + 1 < n]
  OBVIOUS
<1> HIDE DEF w
<1>5. \A k \in 0 .. n : w[k] <=> k % 2 = 1 /\ k + 1 < n
  BY <1>4, Zenon
<1>6. ASSUME NEW k \in 0 .. n
      PROVE  w[k] <=> (k > 0 /\ ~w[k - 1] /\ k + 1 < n /\ long(k))
  <2>1. CASE k = 0
    <3>1. ~w[k]
      <4>1. k % 2 # 1
        BY <2>1
      <4> QED
        BY <1>5, <4>1
    <3> QED
      BY <2>1, <3>1
  <2>2. CASE k > 0
    <3>1. k - 1 \in 0 .. n /\ ((k - 1) % 2 = 1 <=> k % 2 # 1)
      BY <1>2, <2>2
    <3>2. (w[k] <=> k % 2 = 1 /\ k + 1 < n) /\ (w[k - 1] <=> (k - 1) % 2 = 1 /\ k < n)
      <4>1. w[k - 1] <=> (k - 1) % 2 = 1 /\ (k - 1) + 1 < n
        BY <1>5, <3>1
      <4>2. (k - 1) + 1 = k
        BY <1>2
      <4> QED
        BY <1>5, <4>1, <4>2
    <3>3. CASE k + 1 < n
      <4>1. k < n /\ (k % 2 = 1 => long(k))
        BY <1>2, <1>3, <3>3
      <4> QED
        BY <2>2, <3>1, <3>2, <3>3, <4>1
    <3>4. CASE ~(k + 1 < n)
      BY <3>2, <3>4
    <3> QED
      BY <3>3, <3>4
  <2> QED
    BY <1>2, <2>1, <2>2
<1>7. w = [k \in 0 .. Len(prose) |->
              /\ k > 0
              /\ ~w[k - 1]
              /\ k + 1 < Len(prose)
              /\ Len(prose[k + 1]) >= MIN_QUOTED_LENGTH]
  <2>1. w = [k \in 0 .. n |-> k > 0 /\ ~w[k - 1] /\ k + 1 < n /\ long(k)]
    <3>1. \A k \in 0 .. n :
             (k % 2 = 1 /\ k + 1 < n) <=> (k > 0 /\ ~w[k - 1] /\ k + 1 < n /\ long(k))
      BY <1>5, <1>6
    <3> QED
      BY <1>4, <3>1
  <2> QED
    BY <2>1 DEF n, long
<1>8. opens = [k \in 0 .. Len(prose) |->
                  /\ k > 0
                  /\ ~opens[k - 1]
                  /\ k + 1 < Len(prose)
                  /\ Len(prose[k + 1]) >= MIN_QUOTED_LENGTH]
  BY <1>7, Zenon
<1> HIDE DEF opens
<1>9. \A k \in 0 .. n :
         opens[k] <=> (k > 0 /\ ~opens[k - 1] /\ k + 1 < n /\ long(k))
  BY <1>8, Zenon DEF n, long
<1>10. ASSUME NEW k \in 1 .. n, k % 2 = 1, k + 1 < n
      PROVE  opens[k]
  <2> DEFINE Bad == {i \in 1 .. n : i % 2 = 1 /\ i + 1 < n /\ ~opens[i]}
  <2> SUFFICES ASSUME Bad # {}
               PROVE  FALSE
    BY <1>10
  <2>0. Bad \in SUBSET Nat
    OBVIOUS
  <2>1. PICK i \in Bad : \A m \in Bad : i <= m
    <3> HIDE DEF Bad
    <3> QED BY <2>0, LeastOf
  <2>2. i \in 1 .. n /\ i % 2 = 1 /\ i + 1 < n /\ ~opens[i] /\ long(i)
    BY <1>2, <1>3, <2>1
  <2>3. opens[i - 1]
    BY <1>2, <1>9, <2>2
  <2>4. i - 1 \in 0 .. n /\ i - 1 > 0 /\ ~opens[i - 2]
    BY <1>2, <1>9, <2>2, <2>3
  <2>5. i - 2 \in 1 .. n /\ (i - 2) % 2 = 1 /\ (i - 2) + 1 < n
    BY <1>2, <2>2, <2>4
  <2> HIDE DEF Bad
  <2>6. i - 2 \in Bad
    BY <2>4, <2>5 DEF Bad
  <2> QED
    BY <1>2, <2>1, <2>2, <2>6
<1>11. j - 1 \in 1 .. n /\ (j - 1) % 2 = 1 /\ (j - 1) + 1 < n /\ (j - 1) + 1 = j
  BY <1>2 DEF n
<1>12. opens[j - 1] /\ j - 1 \in 1 .. Len(prose) /\ prose[(j - 1) + 1] = prose[j]
  BY <1>10, <1>11 DEF n
<1> QED
  BY <1>1, <1>12, Zenon

(* Normalising loses no letter and makes none up: the positions kept of a  *)
(* prefix of the text are those of a shorter prefix and perhaps the last   *)
LEMMA NormaliseLetters ==
    ASSUME NEW S, NEW t \in Seq(S)
    PROVE  /\ normalise(t) \in Seq(S)
           /\ \A j \in DOMAIN t : t[j] # " " =>
                 \E i \in DOMAIN normalise(t) : normalise(t)[i] = t[j]
           /\ \A i \in DOMAIN normalise(t) :
                 \E j \in DOMAIN t : t[j] = normalise(t)[i]
<1> DEFINE n == Len(t)
           kept(k) == \/ t[k] # " "
                      \/ /\ k > 1 /\ t[k - 1] # " "
                         /\ \E m \in k + 1 .. Len(t) : t[m] # " "
           next(f, k) == IF k = 0 THEN <<>>
                         ELSE IF kept(k) THEN Append(f[k - 1], t[k])
                         ELSE f[k - 1]
           upto[k \in 0 .. Len(t)] == IF k = 0 THEN <<>>
                                      ELSE IF kept(k) THEN Append(upto[k - 1], t[k])
                                      ELSE upto[k - 1]
<1>1. normalise(t) = upto[Len(t)]
  BY Zenon DEF normalise
<1>2. n \in Nat /\ DOMAIN t = 1 .. n /\ \A k \in 1 .. n : t[k] \in S
  OBVIOUS
<1>3. \A k : t[k] # " " => kept(k)
  OBVIOUS
<1> HIDE DEF kept, n
<1>4. \E f : f = [k \in 0 .. n |-> next(f, k)]
  <2> DEFINE Def(m) == \E f : f = [k \in 0 .. m |-> next(f, k)]
             Held == {m \in 0 .. n : Def(m)}
  <2>1. Def(0)
    <3>1. [k \in 0 .. 0 |-> <<>>] = [k \in 0 .. 0 |-> next([j \in 0 .. 0 |-> <<>>], k)]
      OBVIOUS
    <3> QED
      BY <3>1
  <2>2. ASSUME NEW m \in 0 .. n, Def(m), m + 1 <= n
        PROVE  Def(m + 1)
    <3>1. PICK f : f = [k \in 0 .. m |-> next(f, k)]
      BY <2>2
    <3> DEFINE g == [k \in 0 .. m + 1 |-> IF k = m + 1 THEN next(f, m + 1) ELSE f[k]]
    <3>2. ASSUME NEW k \in 0 .. m + 1
          PROVE  g[k] = next(g, k)
      <4>1. CASE k = 0
        BY <1>2, <3>1, <4>1
      <4>2. CASE k > 0
        <5>1. k - 1 \in 0 .. m /\ g[k - 1] = f[k - 1]
          BY <1>2, <4>2
        <5>2. next(g, k) = next(f, k)
          BY <5>1
        <5>3. CASE k = m + 1
          BY <5>2, <5>3
        <5>4. CASE k \in 0 .. m
          <6>1. g[k] = f[k] /\ f[k] = next(f, k)
            BY <1>2, <3>1, <5>4
          <6> QED
            BY <5>2, <6>1
        <5> QED
          BY <1>2, <5>3, <5>4
      <4> QED
        BY <1>2, <4>1, <4>2
    <3>3. g = [k \in 0 .. m + 1 |-> next(g, k)]
      <4>1. g = [k \in 0 .. m + 1 |-> g[k]]
        OBVIOUS
      <4> HIDE DEF g, next
      <4> QED
        BY <3>2, <4>1
    <3> HIDE DEF g
    <3> QED
      BY <3>3
  <2> HIDE DEF Def
  <2>3. 0 \in Held /\ \A k \in 0 .. n : k \in Held /\ k + 1 <= n => k + 1 \in Held
    BY <1>2, <2>1, <2>2
  <2> HIDE DEF Held
  <2>4. 0 .. n \subseteq Held
    BY <1>2, <2>3, UpTo
  <2>5. n \in 0 .. n
    BY <1>2
  <2>6. Def(n)
    BY <2>4, <2>5 DEF Held
  <2> QED
    BY <2>6 DEF Def
<1>5. upto = [k \in 0 .. Len(t) |-> IF k = 0 THEN <<>>
                                    ELSE IF kept(k) THEN Append(upto[k - 1], t[k])
                                    ELSE upto[k - 1]]
  BY <1>4, Zenon DEF n
<1> HIDE DEF upto
<1>6. /\ upto[0] = <<>>
      /\ \A k \in 0 .. n : k + 1 <= n =>
            upto[k + 1] = IF kept(k + 1) THEN Append(upto[k], t[k + 1]) ELSE upto[k]
  <2>1. \A k \in 0 .. n : upto[k] = next(upto, k)
    BY <1>5 DEF n
  <2>2. \A k \in 0 .. n : k + 1 <= n =>
           k + 1 \in 0 .. n /\ k + 1 # 0 /\ (k + 1) - 1 = k
    BY <1>2
  <2> QED
    BY <1>2, <2>1, <2>2
<1> HIDE DEF next
<1> DEFINE Whole(k) ==
             /\ upto[k] \in Seq(S)
             /\ \A j \in 1 .. k : t[j] # " " =>
                   \E i \in DOMAIN upto[k] : upto[k][i] = t[j]
             /\ \A i \in DOMAIN upto[k] : \E j \in 1 .. k : t[j] = upto[k][i]
           Held == {k \in 0 .. n : Whole(k)}
<1>7. Whole(0)
  BY <1>6
<1>8. ASSUME NEW k \in 0 .. n, Whole(k), k + 1 <= n
      PROVE  Whole(k + 1)
  <2> HIDE DEF Whole
  <2>1. k + 1 \in 1 .. n /\ \A j \in 1 .. k + 1 : j \in 1 .. k \/ j = k + 1
    BY <1>2, <1>8
  <2> USE DEF Whole
  <2>2. t[k + 1] \in S
    BY <1>2, <2>1
  <2>3. CASE kept(k + 1)
    <3>1. upto[k + 1] = Append(upto[k], t[k + 1])
      BY <1>6, <1>8, <2>3
    <3>2. PICK u \in Seq(S) : u = upto[k]
      BY <1>8
    <3> HIDE DEF Whole
    <3>3. Append(u, t[k + 1]) \in Seq(S)
      BY <2>2, <3>2
    <3>4. PICK v \in Seq(S) : v = upto[k + 1] /\ v = Append(u, t[k + 1])
      BY <3>1, <3>2, <3>3
    <3> USE DEF Whole
    <3>5. /\ Len(u) \in Nat /\ DOMAIN u = 1 .. Len(u) /\ DOMAIN v = 1 .. Len(u) + 1
          /\ \A i \in 1 .. Len(u) : v[i] = u[i]
          /\ v[Len(u) + 1] = t[k + 1]
      BY <2>2, <3>4
    <3>6. PICK l \in Nat : l = Len(u)
      BY <3>5
    <3>7. \A i \in 1 .. l : i \in 1 .. l + 1
      BY <3>6
    <3>8. ASSUME NEW j \in 1 .. k + 1, t[j] # " "
          PROVE  \E i \in DOMAIN v : v[i] = t[j]
      <4>1. CASE j = k + 1
        <5>1. l + 1 \in 1 .. l + 1
          BY <3>6
        <5> QED
          BY <3>5, <3>6, <4>1, <5>1
      <4>2. CASE j \in 1 .. k
        <5>1. PICK i \in 1 .. l : u[i] = t[j]
          BY <1>8, <3>2, <3>5, <3>8, <3>6, <4>2
        <5> QED
          BY <3>5, <3>6, <3>7, <5>1
      <4> QED
        BY <2>1, <4>1, <4>2
    <3>9. ASSUME NEW i \in DOMAIN v
          PROVE  \E j \in 1 .. k + 1 : t[j] = v[i]
      <4>1. CASE i = l + 1
        <5>1. k + 1 \in 1 .. k + 1
          BY <1>2
        <5> QED
          BY <3>5, <3>6, <4>1, <5>1
      <4>2. CASE i \in 1 .. l
        <5>1. PICK j \in 1 .. k : t[j] = u[i]
          BY <1>8, <3>2, <3>5, <3>6, <4>2
        <5>2. j \in 1 .. k + 1
          BY <1>2
        <5> QED
          BY <3>5, <3>6, <4>2, <5>1, <5>2
      <4> QED
        BY <3>5, <3>6, <4>1, <4>2
    <3> QED
      BY <3>4, <3>8, <3>9
  <2>4. CASE ~kept(k + 1)
    <3>1. upto[k + 1] = upto[k] /\ t[k + 1] = " "
      BY <1>3, <1>6, <1>8, <2>4
    <3>2. \A j \in 1 .. k : j \in 1 .. k + 1
      BY <1>2
    <3> QED
      BY <1>8, <2>1, <3>1, <3>2
  <2> QED
    BY <2>3, <2>4
<1> HIDE DEF Whole
<1>9. 0 \in Held /\ \A k \in 0 .. n : k \in Held /\ k + 1 <= n => k + 1 \in Held
  BY <1>2, <1>7, <1>8
<1> HIDE DEF Held
<1>10. Whole(n)
  <2>1. 0 .. n \subseteq Held
    BY <1>2, <1>9, UpTo
  <2>2. n \in 0 .. n
    BY <1>2
  <2> QED
    BY <2>1, <2>2 DEF Held
<1>11. normalise(t) = upto[n]
  BY <1>1 DEF n
<1> QED
  BY <1>2, <1>10, <1>11 DEF Whole

(* So what is an excerpt of a text, white space apart, has no word that    *)
(* the text has not                                                        *)
LEMMA ExcerptLetters ==
    ASSUME NEW S, NEW a \in Seq(S), NEW b \in Seq(S)
    PROVE  Excerpt(normalise(a), normalise(b)) =>
              \A j \in DOMAIN a : a[j] # " " => \E i \in DOMAIN b : b[i] = a[j]
<1>1. PICK x \in Seq(S) : x = normalise(a)
  BY NormaliseLetters
<1>2. PICK y \in Seq(S) : y = normalise(b)
  BY NormaliseLetters
<1>3. PICK lx \in Nat : lx = Len(x) /\ DOMAIN x = 1 .. lx
  OBVIOUS
<1>4. PICK ly \in Nat : ly = Len(y) /\ DOMAIN y = 1 .. ly
  OBVIOUS
<1>5. \A j \in DOMAIN a : a[j] # " " => \E i \in 1 .. lx : x[i] = a[j]
  <2>1. \A j \in DOMAIN a : a[j] # " " =>
           \E i \in DOMAIN normalise(a) : normalise(a)[i] = a[j]
    BY NormaliseLetters, Zenon
  <2> QED
    BY <1>1, <1>3, <2>1, Zenon
<1>6. \A i \in 1 .. ly : \E j \in DOMAIN b : b[j] = y[i]
  <2>1. \A i \in DOMAIN normalise(b) : \E j \in DOMAIN b : b[j] = normalise(b)[i]
    BY NormaliseLetters, Zenon
  <2> QED
    BY <1>2, <1>4, <2>1, Zenon
<1>7. \A k \in 0 .. ly - lx, i \in 1 .. lx : k + i \in 1 .. ly
  OBVIOUS
<1>8. Excerpt(x, y) =>
         \E k \in 0 .. ly - lx : \A i \in 1 .. lx : x[i] = y[k + i]
  BY <1>3, <1>4 DEF Excerpt
<1>9. Excerpt(x, y) => \A i \in 1 .. lx : \E j \in DOMAIN b : b[j] = x[i]
  BY <1>6, <1>7, <1>8
<1> QED
  BY <1>1, <1>2, <1>5, <1>9

(* A diagnosis that passes quotes nothing that was not collected, as far   *)
(* as its quotations are long enough to be checked (validate, _QUOTED).    *)
THEOREM ValidatedQuotes ==
    ASSUME NEW d, NEW payload, d.prose \in Seq(Text),
           collected_text(payload) \in Text, validate(d, payload)
    PROVE  NothingMadeUp(payload, d.prose)
<1>1. PICK c \in Text : c = collected_text(payload)
  OBVIOUS
<1>2. PICK p \in Seq(Text) : p = d.prose
  OBVIOUS
<1>3. \A q \in Quoted(p) : Excerpt(normalise(q), normalise(c))
  BY <1>1, <1>2 DEF validate
<1>4. PICK l \in Nat : l = Len(p) /\ \A k \in 1 .. l : p[k] \in Text
  OBVIOUS
<1>5. ASSUME \A k \in 1 .. l - 1 : k % 2 = 0 => Len(p[k]) >= MIN_QUOTED_LENGTH,
             NEW k \in 1 .. l - 1, k % 2 = 0
      PROVE  \A j \in DOMAIN p[k] : p[k][j] # " " => \E i \in DOMAIN c : c[i] = p[k][j]
  <2>1. p[k] \in Quoted(p)
    BY <1>4, <1>5, QuotesAreChecked
  <2>2. PICK q \in Text : q = p[k]
    BY <1>4
  <2>3. Excerpt(normalise(q), normalise(c))
    BY <1>3, <2>1, <2>2
  <2>4. q \in Seq(STRING) /\ c \in Seq(STRING)
    BY DEF Text
  <2>5. \A j \in DOMAIN q : q[j] # " " => \E i \in DOMAIN c : c[i] = q[j]
    BY ZenonT(40), <2>3, <2>4, ExcerptLetters
  <2> QED
    BY <2>2, <2>5
<1> DEFINE words(t) == {t[k] : k \in DOMAIN t} \ {" "}
           spans == {k \in 1 .. l - 1 : k % 2 = 0}
<1>6. (\A k \in spans : Len(p[k]) >= MIN_QUOTED_LENGTH) =>
         \A k \in spans : words(p[k]) \subseteq words(c)
  <2> SUFFICES ASSUME \A k \in spans : Len(p[k]) >= MIN_QUOTED_LENGTH,
                      NEW k \in spans
               PROVE  words(p[k]) \subseteq words(c)
    OBVIOUS
  <2>1. \A j \in DOMAIN p[k] : p[k][j] # " " => \E i \in DOMAIN c : c[i] = p[k][j]
    BY <1>5
  <2> QED
    BY <2>1, Zenon
<1> HIDE DEF words
<1>7. NothingMadeUp(payload, p) <=>
         ((\A k \in spans : Len(p[k]) >= MIN_QUOTED_LENGTH) =>
             \A k \in spans : words(p[k]) \subseteq words(c))
  BY <1>1, <1>4, ZenonT(30) DEF NothingMadeUp, words
<1> QED
  BY <1>2, <1>6, <1>7

-----------------------------------------------------------------------------
(***************************************************************************)
(* Validation: a diagnosis is verified and capped when it leaves the       *)
(* validator, or the run is tried again or abstained on.                   *)
(***************************************************************************)
LEMMA ValidatedGood ==
    ASSUME NEW r \in Runs, run[r] \in Run, run[r].contract \in Contract
    PROVE  LET v == Validated(r) IN
           /\ v \in Run /\ v.contract = run[r].contract
           /\ AfterValidate(v) = "diagnosed" =>
                  Backed(v.contract, v.diagnosis, v.final)
<1> DEFINE d == run[r].diagnosis
           f == MinOf(d.confidence, Cap(r))
<1>1. Cap(r) \in 0 .. 100
  BY CeilingType DEF Cap
<1>2. CASE d = None
  BY <1>2 DEF Validated, AfterValidate
<1>3. CASE d # None /\ ~verified(r)
  <2>1. Validated(r) = [run[r] EXCEPT !.failures = TRUE]
    BY <1>3 DEF Validated
  <2>2. Validated(r) \in Run /\ Validated(r).contract = run[r].contract
        /\ Validated(r).failures = TRUE
    BY ZenonT(40), <2>1 DEF Run
  <2>3. QED BY <2>2 DEF AfterValidate
<1>4. CASE d # None /\ verified(r)
  <2>1. d \in DiagnosisOutput
    BY <1>4 DEF Run
  <2>2. f \in 0 .. 100 /\ f <= d.confidence /\ f <= Cap(r)
    <3>1. d.confidence \in 0 .. 100
      BY <2>1 DEF DiagnosisOutput
    <3> HIDE DEF d
    <3>2. QED BY SMTT(20), <1>1, <3>1 DEF MinOf
  <2>3. Validated(r) = [run[r] EXCEPT !.failures = FALSE, !.final = f]
    BY <1>4 DEF Validated
  <2> HIDE DEF f
  <2>4. /\ Validated(r) \in Run /\ Validated(r).contract = run[r].contract
        /\ Validated(r).diagnosis = d /\ Validated(r).final = f
        /\ Validated(r).failures = FALSE
    BY <2>2, <2>3 DEF Run
  <2>5. f # None
    BY <2>2, DiagnosisAssumption
  <2>6. AfterValidate(Validated(r)) = "diagnosed" => f >= Threshold
    BY <1>4, <2>2, <2>4, DiagnosisAssumption DEF AfterValidate
  <2>7. QED BY <1>4, <2>2, <2>4, <2>5, <2>6 DEF Backed, Cap, verified
<1>5. QED BY <1>2, <1>3, <1>4

LEMMA ValidateStep ==
    ASSUME IInv, NEW r \in Runs, validate_node(r)
    PROVE  IInv'
<1> DEFINE v == Validated(r)
           s == [v EXCEPT !.pc = AfterValidate(v)]
<1>0. run[r].pc \in AtModel
  BY DEF validate_node, AtModel
<1>1. /\ run[r] \in Run /\ run[r].contract \in Contract
      /\ ~NoSignal(run[r].contract) /\ row[r] = None /\ reply[r] = None
  BY <1>0, Underway
<1>2. /\ v \in Run /\ v.contract = run[r].contract
      /\ AfterValidate(v) = "diagnosed" => Backed(v.contract, v.diagnosis, v.final)
  BY <1>1, ValidatedGood
<1>3. AfterValidate(v) \in {"diagnose", "insufficient", "diagnosed"}
  BY DEF AfterValidate
<1> HIDE DEF v
<1>4. /\ s \in Run /\ s.contract = run[r].contract
      /\ s.pc = AfterValidate(v)
      /\ s.diagnosis = v.diagnosis /\ s.final = v.final
  BY <1>2, <1>3 DEF Run, Terminals
<1>5. Becomes(r, s) /\ UNCHANGED <<row, reply>>
  BY DEF validate_node, v
<1> HIDE DEF s
<1>6. Good(s, row[r], reply[r])
  BY <1>1, <1>2, <1>3, <1>4, DiagnosisAssumption DEF Good, AtModel, Over
<1>7. run' \in [Runs -> Run] /\ AllGood'
  BY <1>4, <1>5, <1>6, RunStep
<1>8. QED BY <1>7 DEF IInv, TypeOK, validate_node

-----------------------------------------------------------------------------
(* The terminal's row and the response built after it                      *)
LEMMA EntryGood ==
    ASSUME NEW s \in Run, s.pc \in Terminals,
           s.pc = "diagnosed" => Backed(s.contract, s.diagnosis, s.final)
    PROVE  /\ Entry(s) \in LedgerEntry
           /\ Entry(s).outcome = "DIAGNOSED" =>
                  /\ Backed(s.contract, Entry(s).diagnosis, Entry(s).final)
                  /\ s.final = Entry(s).final
<1> DEFINE n == IF s.attempts = 0 THEN 0 ELSE s.attempts - 1
<1>1. n \in Nat
  BY DEF Run
<1> HIDE DEF n
<1>2. CASE s.pc = "diagnosed"
  <2>1. Entry(s) = [outcome |-> "DIAGNOSED", diagnosis |-> s.diagnosis,
                    final |-> s.final, retries |-> n, tokens |-> s.tokens]
    BY <1>2 DEF Entry, Outcome, n
  <2>2. QED BY <1>1, <1>2, <2>1 DEF LedgerEntry, Outcomes, Run
<1>3. CASE s.pc # "diagnosed"
  <2>1. Entry(s) = [outcome |-> Outcome(s.pc), diagnosis |-> None,
                    final |-> None, retries |-> n, tokens |-> s.tokens]
    BY <1>3 DEF Entry, n
  <2>2. Outcome(s.pc) \in {"INSUFFICIENT_CONTEXT", "DISCARDED"}
    BY <1>3 DEF Outcome
  <2>3. QED BY <1>1, <2>1, <2>2 DEF LedgerEntry, Outcomes, Run
<1>4. QED BY <1>2, <1>3

LEMMA RecordStep ==
    ASSUME IInv, NEW r \in Runs, record(r)
    PROVE  IInv'
<1> DEFINE e == Entry(run[r])
           s == [run[r] EXCEPT !.pc = "recorded"]
<1>1. run[r] \in Run /\ Good(run[r], row[r], reply[r])
  BY DEF IInv, AllGood, TypeOK
<1>2. run[r].pc \in Terminals
  BY DEF record
<1>3. /\ e \in LedgerEntry
      /\ e.outcome = "DIAGNOSED" =>
             Backed(run[r].contract, e.diagnosis, e.final) /\ run[r].final = e.final
  BY <1>1, <1>2, EntryGood DEF Good
<1>4. row' = [row EXCEPT ![r] = e] /\ run' = [run EXCEPT ![r] = s]
      /\ UNCHANGED <<now, usage, abandoned, reply, spent>>
  BY DEF record, Becomes
<1> HIDE DEF e
<1>5. /\ s \in Run /\ s.pc = "recorded" /\ s.contract = run[r].contract
      /\ s.final = run[r].final /\ s.calls = run[r].calls
  BY <1>1 DEF Run
<1> HIDE DEF s
<1>6. e # None
  BY <1>3, DiagnosisAssumption
<1>7. Good(s, e, reply[r])
  BY <1>1, <1>2, <1>3, <1>5, <1>6 DEF Good, AtModel, Over, Terminals
<1>8. TypeOK'
  BY <1>3, <1>4, <1>5 DEF IInv, TypeOK
<1>9. \A q \in Runs : Good(run'[q], row'[q], reply[q])
  BY <1>4, <1>7 DEF IInv, AllGood, TypeOK
<1>10. QED BY <1>4, <1>8, <1>9 DEF IInv, AllGood, Good

LEMMA ResponseStep ==
    ASSUME IInv, NEW r \in Runs, build_response(r)
    PROVE  IInv'
<1> DEFINE a == /\ row[r].outcome = "DIAGNOSED"
                /\ run[r].final # None
                /\ run[r].final >= Threshold
           p == [approvable |-> a]
           s == [run[r] EXCEPT !.pc = "told"]
<1>1. run[r] \in Run /\ Good(run[r], row[r], reply[r]) /\ run[r].pc = "recorded"
  BY DEF IInv, AllGood, TypeOK, build_response
<1>2. a \in BOOLEAN
  OBVIOUS
<1>3. reply' = [reply EXCEPT ![r] = p] /\ run' = [run EXCEPT ![r] = s]
      /\ UNCHANGED <<now, usage, abandoned, row, spent>>
  BY Zenon DEF build_response, Becomes
<1> HIDE DEF a
<1>4. p \in [approvable: BOOLEAN]
  BY <1>2
<1> HIDE DEF p
<1>5. /\ s \in Run /\ s.pc = "told" /\ s.contract = run[r].contract
      /\ s.final = run[r].final /\ s.calls = run[r].calls
  BY <1>1 DEF Run
<1> HIDE DEF s
<1>6. p # None
  BY <1>4, DiagnosisAssumption
<1>7. Good(s, row[r], p)
  BY <1>1, <1>5, <1>6 DEF Good, AtModel, Over
<1>8. TypeOK'
  BY <1>3, <1>4, <1>5 DEF IInv, TypeOK
<1>9. \A q \in Runs : Good(run'[q], row[q], reply'[q])
  BY <1>3, <1>7 DEF IInv, AllGood, TypeOK
<1>10. QED BY <1>3, <1>8, <1>9 DEF IInv, AllGood, Good

-----------------------------------------------------------------------------
LEMMA OthersStep ==
    ASSUME IInv, Tick \/ \E u \in Usages : lateAnswer(u)
    PROVE  IInv'
<1>1. UNCHANGED <<run, row, reply, spent>>
  BY DEF Tick, lateAnswer
<1>2. now' \in Nat /\ usage' \in Nat /\ abandoned' \in Nat
  BY DiagnosisAssumption DEF Tick, lateAnswer, IInv, TypeOK
<1>3. TypeOK'
  BY <1>1, <1>2 DEF IInv, TypeOK
<1>4. AllGood'
  BY <1>1 DEF IInv, AllGood, Good
<1>5. QED BY <1>3, <1>4 DEF IInv

LEMMA Inductive == IInv /\ [Next]_vars => IInv'
<1> SUFFICES ASSUME IInv, [Next]_vars
             PROVE  IInv'
  OBVIOUS
<1>1. ASSUME NEW r \in Runs, NEW c \in Contracts, classify(r, c)
      PROVE  IInv'
  BY <1>1, ClassifyStep
<1>2. ASSUME NEW r \in Runs, Proceed(r)
      PROVE  IInv'
  BY <1>2, GateStep, DiagnoseStep, AbandonStep, ReceiveStep, WakeStep,
     ValidateStep, RecordStep, ResponseStep DEF Proceed
<1>3. ASSUME NEW r \in Runs, NEW text \in Answers \cup {Malformed},
             NEW u \in Usages, complete_json(r, text, u)
      PROVE  IInv'
  BY <1>3, AnswerStep
<1>4. ASSUME NEW r \in Runs, NEW wait \in Waits \cup {None}, refuse(r, wait)
      PROVE  IInv'
  BY <1>4, RefuseStep
<1>5. CASE Tick \/ \E u \in Usages : lateAnswer(u)
  BY <1>5, OthersStep
<1>6. CASE UNCHANGED vars
  BY <1>6 DEF vars, IInv, TypeOK, AllGood, Good
<1>7. QED BY <1>1, <1>2, <1>3, <1>4, <1>5, <1>6 DEF Next

THEOREM Invariance == Spec => []IInv
BY Initially, Inductive, PTL DEF Spec

(* Every reachable state has the types TypeOK states: in particular no run *)
(* carries output that did not parse as its diagnosis (_parse, receive).   *)
THEOREM TypeCorrectness == Spec => []TypeOK
BY Invariance, PTL DEF IInv

(* A contract in which nothing names a cause never reaches the model, for  *)
(* any number of runs and retries (evidence_gate, _after_validate).        *)
THEOREM NoSignalSafety == Spec => []NoSignalNoCall
<1>1. IInv => NoSignalNoCall
  BY DEF IInv, AllGood, Good, NoSignalNoCall
<1>2. QED BY <1>1, Invariance, PTL

(* A recorded diagnosis is verified, capped and admitted by the threshold, *)
(* whatever the attempts before it produced (validate_node, _diagnosed).   *)
THEOREM VerifiedSafety == Spec => []DiagnosedIsVerified
<1>1. ASSUME IInv, NEW r \in Runs, row[r] # None, row[r].outcome = "DIAGNOSED"
      PROVE  LET d == row[r].diagnosis IN
             /\ d # None
             /\ d.evidence # <<>>
             /\ \A k \in DOMAIN d.evidence :
                   Stands(Payload[run[r].contract], d.evidence[k])
             /\ row[r].final <= d.confidence
             /\ row[r].final <= Cap(r)
             /\ row[r].final >= Threshold
  <2>1. Backed(run[r].contract, row[r].diagnosis, row[r].final)
    BY <1>1 DEF IInv, AllGood, Good
  <2>2. QED BY <2>1, ValidatedStands DEF Backed, Cap
<1>2. IInv => DiagnosedIsVerified
  BY <1>1 DEF DiagnosedIsVerified
<1>3. QED BY <1>2, Invariance, PTL

(* And it quotes nothing that was not collected: the quotations the regular *)
(* expression finds are all there are when none is too short, and what is  *)
(* an excerpt after normalising has only words that were there before      *)
(* (validate, _QUOTED, _normalise).                                        *)
THEOREM QuoteSafety == Spec => []QuotedWasCollected
<1>1. IInv => QuotedWasCollected
  <2> SUFFICES ASSUME IInv, NEW r \in Runs, row[r] # None,
                      row[r].outcome = "DIAGNOSED"
               PROVE  NothingMadeUp(Payload[run[r].contract], row[r].diagnosis.prose)
    BY DEF QuotedWasCollected
  <2>1. /\ row[r] \in LedgerEntry /\ run[r] \in Run
        /\ Backed(run[r].contract, row[r].diagnosis, row[r].final)
        /\ run[r].contract # None
    BY DEF IInv, TypeOK, AllGood, Good, Over
  <2>2. run[r].contract \in Contracts
    BY <2>1 DEF Run
  <2>3. row[r].diagnosis \in DiagnosisOutput
    BY <2>1 DEF Backed, LedgerEntry
  <2>4. row[r].diagnosis.prose \in Seq(Text)
    BY <2>3 DEF DiagnosisOutput
  <2>5. collected_text(Payload[run[r].contract]) \in Text
    BY <2>2, DiagnosisAssumption
  <2>6. validate(row[r].diagnosis, Payload[run[r].contract])
    BY <2>1 DEF Backed
  <2> QED
    BY <2>4, <2>5, <2>6, ValidatedQuotes
<1> QED
  BY <1>1, Invariance, PTL

-----------------------------------------------------------------------------
(***************************************************************************)
(* Why a run ends, and when. A run that has to be tried again has no final *)
(* confidence and an attempt left; with code that takes no time its clock  *)
(* never passes the deadline, for no wait is begun that does not fit.      *)
(***************************************************************************)
Because(s, tokens) ==
    \/ NoSignal(s.contract) /\ s.attempts = 0 /\ tokens = 0
    \/ s.final = None /\ s.attempts = MaxRetries + 1
    \/ s.final # None /\ s.final < Threshold

Reasoned(s, w) ==
    /\ s.pc = "gate" =>
          s.attempts = 0 /\ s.tokens = 0 /\ s.final = None /\ s.contract \in Contract
    /\ s.pc \in AtModel => s.final = None
    /\ s.pc = "diagnose" => s.attempts <= MaxRetries
    /\ s.attempts <= MaxRetries + 1
    /\ s.pc = "insufficient" => Because(s, s.tokens)
    /\ w # None /\ w.outcome = "INSUFFICIENT_CONTEXT" => Because(s, w.tokens)

Timed(s, t) ==
    Prompt /\ s.pc \notin {"idle", "recorded", "told"} =>
        /\ t <= s.started + Deadline
        /\ s.pc = "sleeping" => s.wakes < s.started + Deadline

RInv == \A r \in Runs : Reasoned(run[r], row[r]) /\ Timed(run[r], now)

(* A step of one request                                                   *)
LEMMA OneMoves ==
    ASSUME IInv, RInv, NEW r \in Runs, NEW s, Becomes(r, s), now' = now,
           Reasoned(s, row'[r]), Timed(s, now),
           \A q \in Runs : q # r => row'[q] = row[q]
    PROVE  RInv'
<1>1. \A q \in Runs : run'[q] = IF q = r THEN s ELSE run[q]
  BY DEF IInv, TypeOK, Becomes
<1>2. \A q \in Runs : Reasoned(run'[q], row'[q]) /\ Timed(run'[q], now')
  BY <1>1 DEF RInv
<1> QED
  BY <1>2 DEF RInv, Reasoned, Because, Timed

(* A step between two states of the same attempts, without a verdict       *)
LEMMA SameAttempt ==
    ASSUME IInv, RInv, NEW r \in Runs, run[r].pc \in AtModel, NEW s, Becomes(r, s),
           UNCHANGED <<now, row>>,
           s.attempts = run[r].attempts, s.final = run[r].final,
           s.started = run[r].started,
           s.pc \in {"calling", "settled", "sleeping", "validate", "discarded"},
           s.pc = "sleeping" => s.wakes < s.started + Deadline
    PROVE  RInv'
<1>1. Reasoned(run[r], row[r]) /\ Timed(run[r], now) /\ row[r] = None
  BY Underway DEF RInv
<1>2. Reasoned(s, row[r])
  BY <1>1 DEF Reasoned, AtModel
<1>3. Timed(s, now)
  BY <1>1 DEF Timed, AtModel
<1> QED
  BY <1>2, <1>3, OneMoves

LEMMA ClassifyReasoned ==
    ASSUME IInv, RInv, NEW r \in Runs, NEW c \in Contracts, classify(r, c)
    PROVE  RInv'
<1> DEFINE s == [Start EXCEPT !.pc = "gate", !.contract = c, !.started = now]
<1>1. /\ s.pc = "gate" /\ s.contract = c /\ s.started = now
      /\ s.attempts = 0 /\ s.tokens = 0 /\ s.final = None
  BY DEF Start
<1>2. Becomes(r, s) /\ UNCHANGED <<now, row>> /\ run[r].pc = "idle"
  BY DEF classify
<1> HIDE DEF s
<1>3. row[r] = None /\ c \in Contract /\ now \in Nat /\ MaxRetries \in Nat /\ Deadline \in Nat
  BY <1>2, DiagnosisAssumption DEF IInv, TypeOK, AllGood, Good, Over
<1>4. Reasoned(s, row[r])
  BY <1>1, <1>3 DEF Reasoned, AtModel
<1>5. Timed(s, now)
  BY <1>1, <1>3 DEF Timed
<1> QED
  BY <1>2, <1>4, <1>5, OneMoves

LEMMA GateReasoned ==
    ASSUME IInv, RInv, NEW r \in Runs, evidence_gate(r)
    PROVE  RInv'
<1> DEFINE s == [run[r] EXCEPT !.pc = IF gate(run[r].contract)
                                      THEN "insufficient" ELSE "diagnose"]
<1>1. /\ run[r] \in Run /\ run[r].pc = "gate" /\ Reasoned(run[r], row[r])
      /\ Timed(run[r], now) /\ MaxRetries \in Nat /\ row[r] = None
  BY DiagnosisAssumption DEF RInv, IInv, TypeOK, AllGood, Good, Over, evidence_gate
<1>2. /\ s.pc = IF gate(run[r].contract) THEN "insufficient" ELSE "diagnose"
      /\ s.contract = run[r].contract /\ s.attempts = run[r].attempts
      /\ s.tokens = run[r].tokens /\ s.final = run[r].final /\ s.started = run[r].started
  BY <1>1 DEF Run
<1>3. Becomes(r, s) /\ UNCHANGED <<now, row>>
  BY DEF evidence_gate
<1> HIDE DEF s
<1>4. s.pc = "insufficient" => NoSignal(s.contract)
  BY <1>1, <1>2, GateIsNoSignal DEF Reasoned
<1>5. s.pc = "diagnose" => s.final = None
  BY <1>1, <1>2 DEF Reasoned
<1>6. Reasoned(s, row[r])
  BY <1>1, <1>2, <1>4, <1>5 DEF Reasoned, Because, AtModel
<1>7. Timed(s, now)
  BY <1>1, <1>2 DEF Timed
<1> QED
  BY <1>3, <1>6, <1>7, OneMoves

(* An attempt is counted when it is begun, and begun only if one is left   *)
(* (_diagnose).                                                            *)
LEMMA DiagnoseReasoned ==
    ASSUME IInv, RInv, NEW r \in Runs, diagnose(r)
    PROVE  RInv'
<1> DEFINE s == IF now < Ends(r)
                THEN [run[r] EXCEPT !.pc = "calling", !.attempts = @ + 1,
                                    !.calls = @ + 1]
                ELSE [run[r] EXCEPT !.pc = "discarded", !.attempts = @ + 1]
<1>1. /\ run[r] \in Run /\ run[r].pc = "diagnose" /\ Reasoned(run[r], row[r])
      /\ Timed(run[r], now) /\ MaxRetries \in Nat /\ row[r] = None
  BY DiagnosisAssumption DEF RInv, IInv, TypeOK, AllGood, Good, Over, diagnose
<1>2. run[r].attempts \in Nat /\ run[r].attempts <= MaxRetries /\ run[r].final = None
  BY <1>1 DEF Reasoned, AtModel, Run
<1>3. /\ s.pc \in {"calling", "discarded"} /\ s.attempts = run[r].attempts + 1
      /\ s.final = run[r].final /\ s.started = run[r].started
  <2>1. CASE now < Ends(r)
    BY <1>1, <2>1 DEF Run
  <2>2. CASE ~(now < Ends(r))
    BY <1>1, <2>2 DEF Run
  <2> QED
    BY <2>1, <2>2
<1>4. Becomes(r, s) /\ UNCHANGED <<now, row>>
  BY DEF diagnose
<1> HIDE DEF s
<1>5. Reasoned(s, row[r])
  BY <1>1, <1>2, <1>3 DEF Reasoned
<1>6. Timed(s, now)
  BY <1>1, <1>3 DEF Timed
<1> QED
  BY <1>4, <1>5, <1>6, OneMoves

LEMMA SettledReasoned ==
    ASSUME IInv, RInv, NEW r \in Runs, run[r].pc = "calling", NEW error, NEW wait, NEW text,
           Becomes(r, Settled(r, error, wait, text)), UNCHANGED <<now, row>>
    PROVE  RInv'
<1> DEFINE s == Settled(r, error, wait, text)
<1>1. run[r] \in Run /\ run[r].pc \in AtModel
  BY DEF IInv, TypeOK, AtModel
<1>2. /\ s.pc = "settled" /\ s.attempts = run[r].attempts /\ s.final = run[r].final
      /\ s.started = run[r].started
  BY <1>1 DEF Settled, Run
<1>3. Becomes(r, s)
  OBVIOUS
<1> HIDE DEF s
<1> QED
  BY <1>1, <1>2, <1>3, SameAttempt

LEMMA DiscardedReasoned ==
    ASSUME IInv, RInv, NEW r \in Runs, run[r].pc \in AtModel,
           Becomes(r, Discarded(r)), UNCHANGED <<now, row>>
    PROVE  RInv'
<1>1. run[r] \in Run
  BY DEF IInv, TypeOK
<1>2. PICK n : n = run[r].tokens + usage
  OBVIOUS
<1>3. PICK s : s = [run[r] EXCEPT !.pc = "discarded", !.result = None, !.tokens = n]
  OBVIOUS
<1>4. /\ s.pc = "discarded" /\ s.attempts = run[r].attempts /\ s.final = run[r].final
      /\ s.started = run[r].started
  BY <1>1, <1>3 DEF Run
<1>5. Becomes(r, s)
  BY <1>2, <1>3 DEF Discarded
<1> QED
  BY <1>4, <1>5, SameAttempt

(* An answer is parsed, or the run waits, if the wait fits the deadline    *)
(* (_call_with_deadline).                                                  *)
LEMMA ReceiveReasoned ==
    ASSUME IInv, RInv, NEW r \in Runs, receive(r)
    PROVE  RInv'
<1> DEFINE res == run[r].result
<1>0. /\ run[r].pc = "settled" /\ run[r].pc \in AtModel /\ res \in Result /\ run[r] \in Run
      /\ UNCHANGED <<now, row>> /\ now \in Nat
  BY DEF receive, AtModel, IInv, AllGood, Good, TypeOK
<1>1. CASE ~res.error
  <2>1. Becomes(r, Parsed(r, res.text))
    BY <1>1 DEF receive
  <2>2. PICK d, f, n :
            /\ Parsed(r, res.text)
                 = [run[r] EXCEPT !.pc = "validate", !.result = None, !.tokens = n,
                                  !.diagnosis = d, !.failures = f]
    BY Zenon DEF Parsed
  <2>3. PICK s : s = [run[r] EXCEPT !.pc = "validate", !.result = None, !.tokens = n,
                                    !.diagnosis = d, !.failures = f]
    OBVIOUS
  <2>4. /\ s.pc = "validate" /\ s.attempts = run[r].attempts /\ s.final = run[r].final
        /\ s.started = run[r].started
    BY <1>0, <2>3 DEF Run
  <2>5. Becomes(r, s)
    BY <2>1, <2>2, <2>3
  <2> QED
    BY <1>0, <2>4, <2>5, SameAttempt
<1>2. CASE res.error /\ Waitable(r, res.wait)
  <2>1. PICK t : t = now + res.wait + Pad
    OBVIOUS
  <2>2. t < run[r].started + Deadline
    <3>1. res.wait \in Nat
      BY <1>0, <1>2 DEF Result, Waitable
    <3>2. now + res.wait + Margin <= run[r].started + Deadline
      BY <1>2 DEF Waitable, Ends
    <3>3. run[r].started \in Nat /\ Deadline \in Nat
      BY <1>0, DiagnosisAssumption DEF Run
    <3> HIDE DEF res
    <3> QED
      BY <1>0, <2>1, <3>1, <3>2, <3>3 DEF Margin, Pad
  <2>3. PICK s : s = [run[r] EXCEPT !.pc = "sleeping", !.result = None, !.wakes = t]
    OBVIOUS
  <2>4. /\ s.pc = "sleeping" /\ s.attempts = run[r].attempts /\ s.final = run[r].final
        /\ s.started = run[r].started /\ s.wakes = t
    BY <1>0, <2>3 DEF Run
  <2>5. Becomes(r, s)
    BY <1>2, <2>1, <2>3 DEF receive
  <2> QED
    BY <1>0, <2>2, <2>4, <2>5, SameAttempt
<1>3. CASE res.error /\ ~Waitable(r, res.wait)
  <2>1. Becomes(r, Discarded(r))
    BY <1>3 DEF receive
  <2> QED
    BY <1>0, <2>1, DiscardedReasoned
<1> QED
  BY <1>1, <1>2, <1>3

LEMMA WakeReasoned ==
    ASSUME IInv, RInv, NEW r \in Runs, wake(r)
    PROVE  RInv'
<1>1. /\ run[r].pc \in AtModel /\ run[r] \in Run /\ UNCHANGED <<now, row>>
  BY DEF wake, AtModel, IInv, TypeOK
<1>2. CASE now < Ends(r)
  <2>1. PICK n : n = run[r].calls + 1
    OBVIOUS
  <2>2. PICK s : s = [run[r] EXCEPT !.pc = "calling", !.calls = n]
    OBVIOUS
  <2>3. /\ s.pc = "calling" /\ s.attempts = run[r].attempts /\ s.final = run[r].final
        /\ s.started = run[r].started
    BY <1>1, <2>2 DEF Run
  <2>4. Becomes(r, s)
    BY <1>2, <2>1, <2>2 DEF wake
  <2> QED
    BY <1>1, <2>3, <2>4, SameAttempt
<1>3. CASE ~(now < Ends(r))
  BY <1>1, <1>3, DiscardedReasoned DEF wake
<1> QED
  BY <1>2, <1>3

(* What fails validation is tried again while an attempt is left, and has  *)
(* no final confidence; what passes is not (_after_validate).              *)
LEMMA ValidateReasoned ==
    ASSUME IInv, RInv, NEW r \in Runs, validate_node(r)
    PROVE  RInv'
<1> DEFINE v == Validated(r)
           s == [v EXCEPT !.pc = AfterValidate(v)]
<1>1. /\ run[r] \in Run /\ run[r].pc = "validate" /\ run[r].pc \in AtModel
      /\ Reasoned(run[r], row[r]) /\ Timed(run[r], now)
      /\ MaxRetries \in Nat /\ row[r] = None /\ run[r].contract \in Contract
      /\ UNCHANGED <<now, row>>
  BY Underway, DiagnosisAssumption DEF RInv, IInv, TypeOK, validate_node, AtModel
<1>2. run[r].attempts \in Nat /\ run[r].attempts <= MaxRetries + 1 /\ run[r].final = None
  BY <1>1 DEF Reasoned, AtModel, Run
<1>3. /\ v \in Run /\ v.attempts = run[r].attempts /\ v.started = run[r].started
      /\ v.diagnosis = None \/ v.failures => v.final = None
      /\ v.final = None => v.diagnosis = None \/ v.failures
  <2>1. v \in Run
    BY <1>1, ValidatedGood
  <2>2. CASE run[r].diagnosis = None
    BY <1>1, <1>2, <2>2 DEF Validated
  <2>3. CASE run[r].diagnosis # None /\ ~verified(r)
    <3>1. v = [run[r] EXCEPT !.failures = TRUE]
      BY <2>3 DEF Validated
    <3>2. [run[r] EXCEPT !.failures = TRUE].attempts = run[r].attempts
          /\ [run[r] EXCEPT !.failures = TRUE].started = run[r].started
          /\ [run[r] EXCEPT !.failures = TRUE].final = run[r].final
          /\ [run[r] EXCEPT !.failures = TRUE].failures = TRUE
      BY <1>1 DEF Run
    <3> HIDE DEF v
    <3> QED
      BY <1>2, <2>1, <3>1, <3>2
  <2>4. CASE run[r].diagnosis # None /\ verified(r)
    <3>1. PICK f : f = MinOf(run[r].diagnosis.confidence, Cap(r))
      OBVIOUS
    <3>2. f # None
      <4>1. run[r].diagnosis.confidence \in 0 .. 100 /\ Cap(r) \in 0 .. 100
        BY <1>1, <2>4, CeilingType DEF Run, DiagnosisOutput, Cap
      <4> QED
        BY <3>1, <4>1, DiagnosisAssumption DEF MinOf
    <3>3. v = [run[r] EXCEPT !.failures = FALSE, !.final = f]
      BY <2>4, <3>1 DEF Validated
    <3> HIDE DEF v
    <3>4. /\ v.attempts = run[r].attempts /\ v.started = run[r].started
          /\ v.failures = FALSE /\ v.final = f /\ v.diagnosis = run[r].diagnosis
      BY <1>1, <3>3 DEF Run
    <3> QED
      BY <2>1, <2>4, <3>2, <3>4
  <2> QED
    BY <2>2, <2>3, <2>4
<1>4. Becomes(r, s)
  BY DEF validate_node
<1> HIDE DEF v
<1>5. /\ s.pc = AfterValidate(v) /\ s.attempts = run[r].attempts /\ s.final = v.final
      /\ s.started = run[r].started
  BY <1>3 DEF Run
<1> HIDE DEF s
<1>6. /\ s.pc \in {"diagnose", "insufficient", "diagnosed"}
      /\ s.pc = "diagnose" => s.final = None /\ s.attempts <= MaxRetries
      /\ s.pc = "insufficient" => Because(s, s.tokens)
  <2>1. CASE v.diagnosis = None \/ v.failures
    <3>1. s.final = None /\ s.attempts = v.attempts
      BY <1>3, <1>5, <2>1
    <3>2. s.pc = IF s.attempts <= MaxRetries THEN "diagnose" ELSE "insufficient"
      BY <1>5, <2>1, <3>1 DEF AfterValidate
    <3>3. s.attempts <= MaxRetries \/ s.attempts = MaxRetries + 1
      BY <1>1, <1>2, <1>5
    <3> QED
      BY <3>1, <3>2, <3>3 DEF Because
  <2>2. CASE ~(v.diagnosis = None \/ v.failures)
    BY <1>2, <1>3, <1>5, <2>2 DEF AfterValidate, Because
  <2> QED
    BY <2>1, <2>2
<1>7. Reasoned(s, row[r])
  BY <1>1, <1>2, <1>5, <1>6 DEF Reasoned, AtModel
<1>8. Timed(s, now)
  BY <1>1, <1>5, <1>6 DEF Timed
<1> QED
  BY <1>1, <1>4, <1>7, <1>8, OneMoves

LEMMA RecordReasoned ==
    ASSUME IInv, RInv, NEW r \in Runs, record(r)
    PROVE  RInv'
<1> DEFINE e == Entry(run[r])
           s == [run[r] EXCEPT !.pc = "recorded"]
<1>1. /\ run[r] \in Run /\ Reasoned(run[r], row[r]) /\ run[r].pc \in Terminals
      /\ row \in [Runs -> LedgerEntry \cup {None}]
  BY DEF RInv, IInv, TypeOK, record
<1>2. e.outcome = Outcome(run[r].pc) /\ e.tokens = run[r].tokens
  BY DEF Entry
<1>3. e.outcome = "INSUFFICIENT_CONTEXT" => run[r].pc = "insufficient"
  BY <1>1, <1>2 DEF Outcome, Terminals
<1>4. row' = [row EXCEPT ![r] = e] /\ Becomes(r, s) /\ now' = now
  BY DEF record
<1> HIDE DEF e
<1>5. /\ s.pc = "recorded" /\ s.contract = run[r].contract /\ s.final = run[r].final
      /\ s.attempts = run[r].attempts
  BY <1>1 DEF Run
<1> HIDE DEF s
<1>6. row'[r] = e /\ \A q \in Runs : q # r => row'[q] = row[q]
  BY <1>1, <1>4
<1>7. Reasoned(s, row'[r])
  BY <1>1, <1>2, <1>3, <1>5, <1>6 DEF Reasoned, Because, AtModel
<1>8. Timed(s, now)
  BY <1>5 DEF Timed
<1> QED
  BY <1>4, <1>6, <1>7, <1>8, OneMoves

LEMMA ResponseReasoned ==
    ASSUME IInv, RInv, NEW r \in Runs, build_response(r)
    PROVE  RInv'
<1> DEFINE s == [run[r] EXCEPT !.pc = "told"]
<1>1. /\ run[r] \in Run /\ Reasoned(run[r], row[r])
      /\ Becomes(r, s) /\ UNCHANGED <<now, row>>
  BY DEF RInv, IInv, TypeOK, build_response
<1>2. /\ s.pc = "told" /\ s.contract = run[r].contract /\ s.final = run[r].final
      /\ s.attempts = run[r].attempts
  BY <1>1 DEF Run
<1> HIDE DEF s
<1>3. Reasoned(s, row[r])
  BY <1>1, <1>2 DEF Reasoned, Because, AtModel
<1>4. Timed(s, now)
  BY <1>2 DEF Timed
<1> QED
  BY <1>1, <1>3, <1>4, OneMoves

(* The clock does not move while the pipeline has something to do, so it   *)
(* moves only where the deadline or a shorter wait is still ahead.         *)
LEMMA TickReasoned ==
    ASSUME IInv, RInv, Tick
    PROVE  RInv'
<1>1. UNCHANGED <<run, row>> /\ now' = now + 1 /\ now \in Nat
  BY DEF Tick, IInv, TypeOK
<1>2. ASSUME NEW r \in Runs
      PROVE  Timed(run[r], now + 1)
  <2>1. /\ Timed(run[r], now)
        /\ Prompt => ~Busy(r)
        /\ run[r] \in Run
    BY DEF RInv, Tick, IInv, TypeOK
  <2>2. run[r].started \in Nat /\ run[r].wakes \in Nat /\ Deadline \in Nat
    BY <2>1, DiagnosisAssumption DEF Run
  <2>3. run[r].pc \in {"idle", "gate", "diagnose", "calling", "settled", "sleeping",
                       "validate", "recorded", "told", "diagnosed", "insufficient",
                       "discarded"}
    BY <2>1 DEF Run, Terminals
  <2>4. PICK e : e = run[r].started + Deadline
    OBVIOUS
  <2>5. e \in Nat
    BY <2>2, <2>4
  <2>6. ASSUME Prompt, run[r].pc \notin {"idle", "recorded", "told"}
        PROVE  /\ now + 1 <= e
               /\ run[r].pc = "sleeping" => run[r].wakes < e
    <3>1. ~Busy(r) /\ (run[r].pc = "sleeping" => run[r].wakes < e)
      BY <2>1, <2>4, <2>6 DEF Timed
    <3>2. run[r].pc = "calling" \/ run[r].pc = "sleeping"
      BY <2>3, <2>6, <3>1 DEF Busy, Terminals
    <3>3. CASE run[r].pc = "calling"
      <4>1. ~(now >= e)
        BY <2>4, <3>1, <3>3 DEF Busy, Ends
      <4> QED
        BY <1>1, <2>5, <3>1, <4>1
    <3>4. CASE run[r].pc = "sleeping"
      <4>1. ~(now >= run[r].wakes)
        BY <3>1, <3>4 DEF Busy
      <4> QED
        BY <1>1, <2>2, <2>5, <3>1, <3>4, <4>1
    <3> QED
      BY <3>2, <3>3, <3>4
  <2> QED
    BY <2>4, <2>6 DEF Timed
<1> QED
  BY <1>1, <1>2 DEF RInv, Reasoned, Because, Timed

LEMMA RInvInit == Init => RInv
<1> SUFFICES ASSUME Init, NEW r \in Runs
             PROVE  Reasoned(run[r], row[r]) /\ Timed(run[r], now)
  BY DEF RInv
<1>1. run[r] = Start /\ row[r] = None
  BY DEF Init
<1> QED
  BY <1>1, DiagnosisAssumption DEF Start, Reasoned, Timed, AtModel

LEMMA RInvStep == IInv /\ RInv /\ [Next]_vars => RInv'
<1> SUFFICES ASSUME IInv, RInv, [Next]_vars
             PROVE  RInv'
  OBVIOUS
<1>1. ASSUME NEW r \in Runs, NEW c \in Contracts, classify(r, c)
      PROVE  RInv'
  BY <1>1, ClassifyReasoned
<1>2. ASSUME NEW r \in Runs, Proceed(r)
      PROVE  RInv'
  <2>1. CASE abandon(r)
    BY <2>1, DiscardedReasoned DEF abandon, AtModel
  <2> QED
    BY <1>2, <2>1, GateReasoned, DiagnoseReasoned, ReceiveReasoned, WakeReasoned,
       ValidateReasoned, RecordReasoned, ResponseReasoned DEF Proceed
<1>3. ASSUME NEW r \in Runs, NEW text \in Answers \cup {Malformed},
             NEW u \in Usages, complete_json(r, text, u)
      PROVE  RInv'
  BY <1>3, SettledReasoned DEF complete_json
<1>4. ASSUME NEW r \in Runs, NEW wait \in Waits \cup {None}, refuse(r, wait)
      PROVE  RInv'
  BY <1>4, SettledReasoned DEF refuse
<1>5. CASE Tick
  BY <1>5, TickReasoned
<1>6. CASE UNCHANGED <<now, run, row>>
  BY <1>6 DEF RInv, Reasoned, Because, Timed
<1>7. QED BY <1>1, <1>2, <1>3, <1>4, <1>5, <1>6 DEF Next, lateAnswer, vars

LEMMA ReasonInvariance == Spec => [](IInv /\ RInv)
BY Initially, Inductive, RInvInit, RInvStep, PTL DEF Spec

(* A run is abstained on only without a signal, after its last attempt, or *)
(* below the threshold, and makes no attempt too many (_after_validate).   *)
THEOREM AbstentionSafety == Spec => []AbstainsForAReason
<1>1. RInv => AbstainsForAReason
  BY DEF RInv, Reasoned, Because, AbstainsForAReason
<1>2. QED BY <1>1, ReasonInvariance, PTL

(* With code that takes no time, no run is on the model after its deadline *)
(* (_call_with_deadline).                                                  *)
THEOREM DeadlineSafety == Spec => []EndsByDeadline
<1>1. RInv => EndsByDeadline
  BY DEF RInv, Timed, EndsByDeadline, Ends
<1>2. QED BY <1>1, ReasonInvariance, PTL

-----------------------------------------------------------------------------
(***************************************************************************)
(* The pipeline implements Verdicts. classify is its Request, record its   *)
(* Conclude and build_response its Tell; every other step is a stutter,    *)
(* for it changes no run's contract and writes neither row nor response.   *)
(***************************************************************************)
LEMMA Stutter ==
    ASSUME IInv, NEW r \in Runs, NEW s, s.contract = run[r].contract,
           Becomes(r, s), UNCHANGED <<row, reply>>
    PROVE  UNCHANGED V!verdictVars
<1>1. \A q \in Runs : run'[q].contract = run[q].contract
  BY DEF IInv, TypeOK, Becomes
<1>2. QED BY <1>1 DEF V!verdictVars, Cap

LEMMA ProceedStutters ==
    ASSUME IInv, NEW r \in Runs,
           \/ evidence_gate(r) \/ diagnose(r) \/ abandon(r) \/ receive(r)
           \/ wake(r) \/ validate_node(r)
    PROVE  UNCHANGED V!verdictVars
<1>0. run[r] \in Run
  BY DEF IInv, TypeOK
<1>1. CASE evidence_gate(r)
  BY <1>1, Stutter, <1>0 DEF evidence_gate, Run
<1>2. CASE diagnose(r)
  <2>1. \E s : s.contract = run[r].contract /\ Becomes(r, s)
    BY <1>2, <1>0 DEF diagnose, Run
  <2>2. QED BY <1>2, <2>1, Stutter DEF diagnose
<1>3. CASE abandon(r)
  <2>1. Discarded(r).contract = run[r].contract
    BY <1>0 DEF Discarded, Run
  <2>2. QED BY <1>3, <2>1, Stutter DEF abandon
<1>4. CASE receive(r)
  <2>1. \E s : s.contract = run[r].contract /\ Becomes(r, s)
    BY <1>4, <1>0 DEF receive, Parsed, Discarded, Run
  <2>2. QED BY <1>4, <2>1, Stutter DEF receive
<1>5. CASE wake(r)
  <2>1. \E s : s.contract = run[r].contract /\ Becomes(r, s)
    BY <1>5, <1>0 DEF wake, Discarded, Run
  <2>2. QED BY <1>5, <2>1, Stutter DEF wake
<1>6. CASE validate_node(r)
  <2>1. Validated(r) \in Run /\ Validated(r).contract = run[r].contract
    BY <1>6, Underway, ValidatedGood DEF validate_node, AtModel
  <2>2. QED BY <1>6, <2>1, Stutter DEF validate_node, Run
<1>7. QED BY <1>1, <1>2, <1>3, <1>4, <1>5, <1>6

LEMMA CallStutters ==
    ASSUME IInv, NEW r \in Runs, NEW error \in BOOLEAN, NEW wait, NEW text,
           Becomes(r, Settled(r, error, wait, text)), UNCHANGED <<row, reply>>
    PROVE  UNCHANGED V!verdictVars
<1>1. run[r] \in Run
  BY DEF IInv, TypeOK
<1>2. Settled(r, error, wait, text).contract = run[r].contract
  BY <1>1 DEF Settled, Run
<1>3. QED BY <1>2, Stutter

LEMMA ClassifyRequests ==
    ASSUME IInv, NEW r \in Runs, NEW c \in Contracts, classify(r, c)
    PROVE  V!Request(r)
<1> DEFINE cap == ceiling(classify_evidence(c))
<1>1. c \in Contract /\ c # None /\ cap \in 0 .. 100
  BY CeilingType, DiagnosisAssumption
<1>2. run[r].contract = None
  BY DEF IInv, AllGood, Good, classify
<1>3. \A q \in Runs : run'[q].contract = IF q = r THEN c ELSE run[q].contract
  BY DEF IInv, TypeOK, classify, Becomes, Start
<1>4. UNCHANGED <<row, reply>>
  BY DEF classify
<1>5. [q \in Runs |-> IF run'[q].contract = None THEN None ELSE Cap(q)']
        = [[q \in Runs |-> IF run[q].contract = None THEN None ELSE Cap(q)]
             EXCEPT ![r] = cap]
  BY <1>1, <1>3 DEF Cap
<1>6. QED BY <1>1, <1>2, <1>4, <1>5 DEF V!Request, V!Percent

LEMMA RecordConcludes ==
    ASSUME IInv, NEW r \in Runs, record(r)
    PROVE  V!Conclude(r)
<1> DEFINE e == Entry(run[r])
           v == [outcome |-> e.outcome, final |-> e.final]
           verdicts == [q \in Runs |-> IF row[q] = None THEN None
                                       ELSE [outcome |-> row[q].outcome,
                                             final |-> row[q].final]]
<1>1. /\ run[r] \in Run /\ Good(run[r], row[r], reply[r])
      /\ run[r].pc \in Terminals
  BY DEF IInv, AllGood, TypeOK, record
<1>2. /\ e \in LedgerEntry /\ e # None
      /\ e.outcome = "DIAGNOSED" => Backed(run[r].contract, e.diagnosis, e.final)
  BY <1>1, EntryGood, DiagnosisAssumption DEF Good
<1>3. run[r].contract \in Contract /\ run[r].contract # None /\ row[r] = None
  BY <1>1, DiagnosisAssumption DEF Good, Run, Terminals, Over
<1>4. Cap(r) \in 0 .. 100 /\ Cap(r) # None
  BY <1>3, CeilingType, DiagnosisAssumption DEF Cap
<1>5. v \in V!Verdict(Cap(r))
  <2>1. CASE e.outcome = "DIAGNOSED"
    <3>1. e.final \in 0 .. 100 /\ e.final >= Threshold /\ e.final <= Cap(r)
      BY <1>2, <2>1 DEF Backed, LedgerEntry, Cap
    <3>2. e.final \in Threshold .. Cap(r)
      BY <3>1, <1>4, DiagnosisAssumption
    <3>3. QED BY <2>1, <3>2 DEF V!Verdict
  <2>2. CASE e.outcome # "DIAGNOSED"
    <3>1. e.final = None /\ e.outcome \in {"INSUFFICIENT_CONTEXT", "DISCARDED"}
      BY <2>2, <1>2 DEF Entry, Outcome, Outcomes, LedgerEntry
    <3>2. QED BY <3>1 DEF V!Verdict
  <2>3. QED BY <2>1, <2>2
<1>6. row' = [row EXCEPT ![r] = e] /\ row \in [Runs -> LedgerEntry \cup {None}]
  BY DEF record, IInv, TypeOK
<1> HIDE DEF e
<1>7. verdicts' = [verdicts EXCEPT ![r] = v]
  BY <1>2, <1>6
<1>8. \A q \in Runs : run'[q].contract = run[q].contract
  BY DEF IInv, TypeOK, record, Becomes, Run
<1>9. UNCHANGED reply
  BY DEF record
<1>10. [q \in Runs |-> IF run'[q].contract = None THEN None ELSE Cap(q)']
         = [q \in Runs |-> IF run[q].contract = None THEN None ELSE Cap(q)]
  BY <1>8 DEF Cap
<1>11. QED BY <1>3, <1>4, <1>5, <1>7, <1>9, <1>10 DEF V!Conclude

LEMMA ResponseTells ==
    ASSUME IInv, NEW r \in Runs, build_response(r)
    PROVE  V!Tell(r)
<1>1. /\ run[r] \in Run /\ Good(run[r], row[r], reply[r])
      /\ run[r].pc = "recorded"
  BY DEF IInv, AllGood, TypeOK, build_response
<1>2. row[r] # None /\ reply[r] = None
  BY <1>1 DEF Good, Over
<1>3. (/\ row[r].outcome = "DIAGNOSED" /\ run[r].final # None
       /\ run[r].final >= Threshold) = (row[r].outcome = "DIAGNOSED")
  BY <1>1, <1>2 DEF Good, Backed
<1>4. reply' = [reply EXCEPT ![r] = [approvable |-> row[r].outcome = "DIAGNOSED"]]
  BY <1>3, Zenon DEF build_response
<1>5. [approvable |-> row[r].outcome = "DIAGNOSED"] # None
  <2> DEFINE a == row[r].outcome = "DIAGNOSED"
  <2>1. a \in BOOLEAN
    OBVIOUS
  <2> HIDE DEF a
  <2>2. [approvable |-> a] \in [approvable: BOOLEAN]
    BY <2>1
  <2>3. [approvable |-> a] # None
    BY <2>2, DiagnosisAssumption
  <2>4. QED BY <2>3 DEF a
<1>6. [q \in Runs |-> IF reply'[q] = None THEN None ELSE reply'[q].approvable]
        = [[q \in Runs |-> IF reply[q] = None THEN None ELSE reply[q].approvable]
             EXCEPT ![r] = (row[r].outcome = "DIAGNOSED")]
  BY <1>4, <1>5 DEF IInv, TypeOK
<1>7. \A q \in Runs : run'[q].contract = run[q].contract
  BY DEF IInv, TypeOK, build_response, Becomes, Run
<1>8. UNCHANGED row
  BY DEF build_response
<1>9. [q \in Runs |-> IF run'[q].contract = None THEN None ELSE Cap(q)']
        = [q \in Runs |-> IF run[q].contract = None THEN None ELSE Cap(q)]
  BY <1>7 DEF Cap
<1>10. [outcome |-> row[r].outcome, final |-> row[r].final] # None
  <2>1. row[r] \in LedgerEntry
    BY <1>2 DEF IInv, TypeOK
  <2>2. [outcome |-> row[r].outcome, final |-> row[r].final]
          \in [outcome: Outcomes, final: 0 .. 100 \cup {None}]
    BY <2>1 DEF LedgerEntry
  <2>3. QED BY <2>2, DiagnosisAssumption
<1>11. QED BY <1>2, <1>6, <1>8, <1>9, <1>10 DEF V!Tell

LEMMA StepRefines == IInv /\ [Next]_vars => [V!Next]_V!verdictVars
<1> SUFFICES ASSUME IInv, [Next]_vars
             PROVE  [V!Next]_V!verdictVars
  OBVIOUS
<1>1. ASSUME NEW r \in Runs, NEW c \in Contracts, classify(r, c)
      PROVE  V!Next
  BY <1>1, ClassifyRequests DEF V!Next
<1>2. ASSUME NEW r \in Runs, Proceed(r)
      PROVE  [V!Next]_V!verdictVars
  BY <1>2, ProceedStutters, RecordConcludes, ResponseTells DEF Proceed, V!Next
<1>3. ASSUME NEW r \in Runs, NEW text \in Answers \cup {Malformed},
             NEW u \in Usages, complete_json(r, text, u)
      PROVE  UNCHANGED V!verdictVars
  BY <1>3, CallStutters DEF complete_json
<1>4. ASSUME NEW r \in Runs, NEW wait \in Waits \cup {None}, refuse(r, wait)
      PROVE  UNCHANGED V!verdictVars
  BY <1>4, CallStutters DEF refuse
<1>5. CASE (Tick \/ \E u \in Usages : lateAnswer(u)) \/ UNCHANGED vars
  <2>1. UNCHANGED <<run, row, reply>>
    BY <1>5 DEF Tick, lateAnswer, vars
  <2>2. QED BY <2>1 DEF V!verdictVars, Cap
<1>6. QED BY <1>1, <1>2, <1>3, <1>4, <1>5 DEF Next

(* One verdict a request, on record before its caller hears of it, never   *)
(* revised, and offered for approval exactly when it is a diagnosis: for   *)
(* any number of requests (_record, build_response).                       *)
THEOREM Refinement == Spec => KeepsItsPromise
<1>1. Init => V!Init
  BY DEF Init, V!Init, Start
<1>2. QED BY <1>1, Invariance, StepRefines, PTL DEF Spec, V!Spec, KeepsItsPromise
=============================================================================
