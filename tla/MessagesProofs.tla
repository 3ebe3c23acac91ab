--------------------------- MODULE MessagesProofs ---------------------------
(***************************************************************************)
(* For any incidents, threads, messages, clicks, labels and restarts: what *)
(* a message has told is not taken back, a record offers nothing, Slack    *)
(* rates once, refuses an approval only for a reason, and a type that is   *)
(* not promoted is never decided.                                          *)
(***************************************************************************)
EXTENDS Messages, SequenceTheorems, TLAPS

Types ==
    /\ promoted \subseteq Incidents
    /\ rows \in [Incidents -> SlackRow \cup {None}]
    /\ parked \in [Incidents -> {None, "open", "late"}]
    /\ deciders \in [Deciders -> Decider \cup {None}]
    /\ overdue \subseteq Incidents /\ overlapped \subseteq Incidents
    /\ works \subseteq Work
    /\ messages \in Seq(Message)
    /\ modals \subseteq [ts: DOMAIN messages, view: Views]
    /\ inbox \subseteq Interaction
    /\ handlers \subseteq Handler
    /\ labels \subseteq [incident: Incidents, label: Ratings \cup {"cause"}]

(* Whatever is about an incident is about one that has a row, and about a  *)
(* message that was sent                                                   *)
Known ==
    /\ \A i \in Incidents : parked[i] # None => rows[i] # None
    /\ \A t \in Deciders : deciders[t] # None => rows[deciders[t].incident] # None
    /\ \A i \in overdue : rows[i] # None
    /\ \A w \in works : /\ rows[w.incident] # None
                         /\ 0 < w.serial /\ w.serial <= Serial(w.incident)
    /\ \A l \in labels : rows[l.incident] # None
    /\ \A ts \in DOMAIN messages : rows[messages[ts].incident] # None
    /\ \A request \in inbox : request.ts \in DOMAIN messages
    /\ \A h \in handlers : h.request.ts \in DOMAIN messages
    /\ \A h \in handlers :
          h.stage = "write" => h.request.action \in Ratings \cup {"cause"}

OneAtATime == \A g, h \in handlers : g = h

(* The loop decides about the message that was clicked                     *)
SlackDecides ==
    \A h \in handlers : h.stage = "decide" =>
        /\ deciders["slack"] # None
        /\ deciders["slack"].incident = IncidentOf(h.request)

(* A message, a reading of a row, and the row itself: each later one tells *)
(* all that the earlier one does                                           *)
Tells(serial, status, row) ==
    /\ serial <= row.serial
    /\ serial = row.serial => status \ {"recorded"} \subseteq render_status(row)

MessagesTold ==
    \A ts \in DOMAIN messages :
        Tells(messages[ts].serial, messages[ts].status, rows[messages[ts].incident])

ReadingTells ==
    \A h \in handlers : h.stage = "update" =>
        /\ h.row # None
        /\ Tells(messages[h.request.ts].serial, messages[h.request.ts].status, h.row)
        /\ Tells(h.row.serial, render_status(h.row), rows[IncidentOf(h.request)])

(* Without the JSON endpoints a rating that is to be written is the first  *)
RatesFirst ==
    ~posted =>
        /\ labels = {}
        /\ \A h \in handlers : h.stage = "write" /\ h.request.action \in Ratings =>
               rows[IncidentOf(h.request)].rating = None

(* Nobody is about to decide what is not asked                             *)
ShadowIsNotAsked ==
    /\ \A i \in Incidents \ promoted :
          parked[i] = None /\ (rows[i] # None => rows[i].decision = None)
    /\ \A t \in Deciders :
          deciders[t] # None /\ deciders[t].stage \in {"read", "write"}
          => deciders[t].incident \in promoted

Inv ==
    /\ Types /\ Known /\ OneAtATime /\ SlackDecides
    /\ MessagesTold /\ ReadingTells
    /\ RatesFirst /\ ShadowIsNotAsked

-----------------------------------------------------------------------------
(* What may become of a row: a fresh verdict replaces it, or a label joins *)
(* those it has                                                            *)
Grows(row, next) ==
    /\ next \in SlackRow
    /\ row # None => Tells(row.serial, render_status(row), next)

(* A row tells of itself, and telling is transitive (render_status).       *)
LEMMA TellsSelf == ASSUME NEW row \in SlackRow PROVE Grows(row, row)
BY DEF Grows, Tells, SlackRow

LEMMA TellsOn ==
    ASSUME NEW serial \in Nat, NEW status, NEW row \in SlackRow, NEW next,
           Tells(serial, status, row), Grows(row, next)
    PROVE  Tells(serial, status, next)
<1>1. /\ row # None /\ row.serial \in Nat /\ next.serial \in Nat
  BY MessagesAssumption DEF SlackRow, Grows
<1>2. "recorded" \notin render_status(row)
  BY DEF render_status
<1> QED
  BY <1>1, <1>2 DEF Tells, Grows

(* A decision, a rating or a cause, whatever the row says already          *)
(* (Ledger.label).                                                         *)
LEMMA DecidedGrows ==
    ASSUME NEW row \in SlackRow, NEW d \in Decisions
    PROVE  /\ Grows(row, [row EXCEPT !.decision = d])
           /\ [row EXCEPT !.decision = d].serial = row.serial
           /\ [row EXCEPT !.decision = d].rating = row.rating
           /\ [row EXCEPT !.decision = d].decision # None
<1>1. [row EXCEPT !.decision = d] \in SlackRow
  BY DEF SlackRow
<1> DEFINE next == [row EXCEPT !.decision = d]
<1>2. /\ next.serial = row.serial /\ next.rating = row.rating /\ next.cause = row.cause
      /\ next.decision = d
  BY DEF SlackRow
<1> HIDE DEF next
<1>3. render_status(row) \subseteq render_status(next)
  BY <1>2, MessagesAssumption DEF render_status
<1>4. next.serial \in Nat
  BY <1>2 DEF SlackRow
<1> QED
  BY <1>1, <1>2, <1>3, <1>4, MessagesAssumption DEF Grows, Tells, next

LEMMA RatedGrows ==
    ASSUME NEW row \in SlackRow, NEW r \in Ratings
    PROVE  /\ Grows(row, [row EXCEPT !.rating = r])
           /\ [row EXCEPT !.rating = r].serial = row.serial
           /\ [row EXCEPT !.rating = r].decision = row.decision
<1>1. [row EXCEPT !.rating = r] \in SlackRow
  BY DEF SlackRow
<1> DEFINE next == [row EXCEPT !.rating = r]
<1>2. /\ next.serial = row.serial /\ next.decision = row.decision
      /\ next.cause = row.cause /\ next.rating = r
  BY DEF SlackRow
<1> HIDE DEF next
<1>3. render_status(row) \subseteq render_status(next)
  BY <1>2, MessagesAssumption DEF render_status
<1>4. next.serial \in Nat
  BY <1>2 DEF SlackRow
<1> QED
  BY <1>1, <1>2, <1>3, <1>4 DEF Grows, Tells, next

LEMMA CauseGrows ==
    ASSUME NEW row \in SlackRow
    PROVE  /\ Grows(row, [row EXCEPT !.cause = TRUE])
           /\ [row EXCEPT !.cause = TRUE].serial = row.serial
           /\ [row EXCEPT !.cause = TRUE].decision = row.decision
           /\ [row EXCEPT !.cause = TRUE].rating = row.rating
<1> DEFINE next == [row EXCEPT !.cause = TRUE]
<1>1. next \in SlackRow
  BY DEF SlackRow
<1>2. /\ next.serial = row.serial /\ next.decision = row.decision
      /\ next.rating = row.rating
  BY DEF SlackRow
<1>3. next.cause
  BY DEF SlackRow
<1> HIDE DEF next
<1>4. render_status(row) \subseteq render_status(next)
  BY <1>2, <1>3 DEF render_status
<1>5. Grows(row, next)
  BY <1>1, <1>2, <1>4 DEF Grows, Tells, SlackRow
<1> QED
  BY <1>2, <1>5, Zenon DEF next

(* A message of a record never has a button (SlackSink.refresh).           *)
LEMMA RecordOffersNothing ==
    ASSUME NEW i \in Incidents, NEW row \in SlackRow
    PROVE  /\ refresh(i, row) \in Message
           /\ refresh(i, row).incident = i /\ refresh(i, row).serial = row.serial
           /\ refresh(i, row).buttons = {}
           /\ refresh(i, row).status \ {"recorded"} = render_status(row)
<1> DEFINE status == IF render_status(row) = {} THEN {"recorded"} ELSE render_status(row)
<1>1. /\ status # {} /\ status \subseteq Status
      /\ status \ {"recorded"} = render_status(row)
  BY DEF render_status, Status
<1>2. refresh(i, row) = [incident |-> i, serial |-> row.serial, status |-> status,
                         buttons |-> render_blocks(i \in promoted, row.outcome, status)]
  BY DEF refresh
<1> HIDE DEF status
<1>3. render_blocks(i \in promoted, row.outcome, status) = {}
  BY <1>1 DEF render_blocks
<1> QED
  BY <1>1, <1>2, <1>3 DEF Message, SlackRow

-----------------------------------------------------------------------------
(* Nothing is there at first (build_services).                             *)
LEMMA InvInit == MessagesInit => Inv
<1> SUFFICES ASSUME MessagesInit PROVE Inv
  OBVIOUS
<1>1. Types
  BY EmptySeq DEF MessagesInit, Types
<1>2. messages = <<>> /\ DOMAIN messages = {}
  BY DEF MessagesInit
<1> QED
  BY <1>1, <1>2 DEF MessagesInit, Inv, Known, OneAtATime, MessagesTold, ReadingTells,
                    SlackDecides, RatesFirst, ShadowIsNotAsked

LEMMA MessageAt ==
    ASSUME Types, NEW ts \in DOMAIN messages
    PROVE  /\ messages[ts] \in Message
           /\ messages[ts].incident \in Incidents /\ messages[ts].serial \in Nat
<1>1. messages[ts] \in Message
  BY ElementOfSeq, LenProperties DEF Types
<1> QED
  BY <1>1 DEF Message

(* What a step may do that neither sends nor draws a message, reads a row  *)
(* to draw it, records a verdict or puts a question: every other step.     *)
LEMMA InvFrame ==
    ASSUME Inv, Types', messages' = messages, promoted' = promoted,
           \A i \in Incidents :
              \/ rows'[i] = rows[i]
              \/ /\ rows[i] # None /\ Grows(rows[i], rows'[i])
                 /\ rows'[i].serial = rows[i].serial,
           \A i \in Incidents : parked'[i] # None => parked[i] # None,
           \A t \in Deciders : deciders'[t] # None =>
              /\ rows[deciders'[t].incident] # None
              /\ deciders'[t].stage \in {"read", "write"}
                 => deciders'[t].incident \in promoted,
           \A i \in overdue' : rows[i] # None,
           \A i \in Incidents \ promoted : rows'[i] # None => rows'[i].decision = None,
           works' \subseteq works,
           \A l \in labels' : rows[l.incident] # None,
           ~posted' => ~posted /\ labels' = {},
           OneAtATime',
           \A h \in handlers' : h.stage = "decide" =>
              /\ deciders'["slack"] # None
              /\ deciders'["slack"].incident = IncidentOf(h.request),
           \A h \in handlers' :
              \/ /\ h \in handlers
                 /\ ~posted /\ h.stage = "write" /\ h.request.action \in Ratings =>
                       rows'[IncidentOf(h.request)].rating
                          = rows[IncidentOf(h.request)].rating
              \/ /\ h.stage # "update" /\ h.request.ts \in DOMAIN messages
                 /\ h.stage = "write" => h.request.action \in Ratings \cup {"cause"}
                 /\ h.stage = "write" /\ h.request.action \in Ratings =>
                       rows'[IncidentOf(h.request)].rating = None,
           \A request \in inbox' : request.ts \in DOMAIN messages
    PROVE  Inv'
<1>1. \A i \in Incidents : rows[i] # None => rows'[i] # None
  BY MessagesAssumption DEF Grows
<1>2. \A ts \in DOMAIN messages : messages[ts].incident \in Incidents
                                  /\ messages[ts].serial \in Nat
  BY MessageAt DEF Inv
<1>3. \A i \in Incidents : rows[i] # None => rows[i] \in SlackRow
  BY DEF Inv, Types
<1>4. Known'
  <2>1. \A w \in works : w.incident \in Incidents
    BY DEF Inv, Types, Work
  <2>2. \A l \in labels' : l.incident \in Incidents
    BY DEF Types
  <2>3. \A h \in handlers' :
           /\ h.request.ts \in DOMAIN messages
           /\ h.stage = "write" => h.request.action \in Ratings \cup {"cause"}
    BY DEF Inv, Known
  <2>4. \A w \in works : /\ rows'[w.incident] # None
                         /\ 0 < w.serial /\ w.serial <= Serial(w.incident)'
    <3>1. \A i \in Incidents : rows[i] # None => Serial(i)' = Serial(i)
      BY <1>1 DEF Serial
    <3> QED
      BY <1>1, <2>1, <3>1 DEF Inv, Known
  <2>5. /\ \A t \in Deciders : deciders'[t] # None => deciders'[t].incident \in Incidents
        /\ \A i \in overdue' : i \in Incidents
    BY DEF Types, Decider
  <2>6. \A t \in Deciders : deciders'[t] # None => rows'[deciders'[t].incident] # None
    BY <1>1, <2>5
  <2>7. /\ \A i \in overdue' : rows'[i] # None
        /\ \A i \in Incidents : parked'[i] # None => rows'[i] # None
    BY <1>1, <2>5 DEF Inv, Known
  <2>8. /\ \A l \in labels' : rows'[l.incident] # None
        /\ \A ts \in DOMAIN messages : rows'[messages[ts].incident] # None
    BY <1>1, <1>2, <2>2 DEF Inv, Known
  <2> QED
    BY <2>3, <2>4, <2>6, <2>7, <2>8 DEF Known
<1>5. MessagesTold'
  <2> SUFFICES ASSUME NEW ts \in DOMAIN messages
               PROVE  Tells(messages[ts].serial, messages[ts].status,
                            rows'[messages[ts].incident])
    BY DEF MessagesTold
  <2>1. rows[messages[ts].incident] # None
    BY DEF Inv, Known
  <2>2. Tells(messages[ts].serial, messages[ts].status, rows[messages[ts].incident])
    BY DEF Inv, MessagesTold
  <2> QED
    BY <1>2, <1>3, <2>1, <2>2, TellsOn
<1>6. ReadingTells'
  <2> SUFFICES ASSUME NEW h \in handlers', h.stage = "update"
               PROVE  /\ h.row # None
                      /\ Tells(messages[h.request.ts].serial,
                               messages[h.request.ts].status, h.row)
                      /\ Tells(h.row.serial, render_status(h.row),
                               rows'[messages[h.request.ts].incident])
    BY DEF ReadingTells, IncidentOf
  <2>1. h \in handlers /\ h.request.ts \in DOMAIN messages
    BY DEF Inv, Known
  <2> DEFINE i == messages[h.request.ts].incident
  <2>2. i \in Incidents /\ rows[i] # None /\ rows[i] \in SlackRow
    BY <1>2, <1>3, <2>1 DEF Inv, Known
  <2>3. /\ h.row # None
        /\ Tells(messages[h.request.ts].serial, messages[h.request.ts].status, h.row)
        /\ Tells(h.row.serial, render_status(h.row), rows[i])
    BY <2>1 DEF Inv, ReadingTells, IncidentOf
  <2>4. h.row.serial \in Nat
    BY <2>1, <2>3 DEF Inv, Types, Handler, SlackRow
  <2>5. Tells(h.row.serial, render_status(h.row), rows'[i])
    BY <2>2, <2>3, <2>4, TellsOn
  <2> QED
    BY <2>3, <2>5
<1>7. RatesFirst'
  BY DEF Inv, RatesFirst, IncidentOf
<1>8. SlackDecides'
  BY DEF SlackDecides, IncidentOf
<1>9. ShadowIsNotAsked'
  BY DEF Inv, ShadowIsNotAsked
<1> QED
  BY <1>4, <1>5, <1>6, <1>7, <1>8, <1>9 DEF Inv

-----------------------------------------------------------------------------
(* The loop's one handler is about a message that was sent and an incident *)
(* that has a row (slack_interactions).                                    *)
LEMMA TheHandler ==
    ASSUME Inv, NEW h \in handlers
    PROVE  /\ handlers \ {h} = {} /\ h \in Handler
           /\ h.request.ts \in DOMAIN messages
           /\ IncidentOf(h.request) \in Incidents
           /\ rows[IncidentOf(h.request)] # None
           /\ rows[IncidentOf(h.request)] \in SlackRow
<1>1. handlers \ {h} = {}
  BY DEF Inv, OneAtATime
<1>2. h \in Handler
  BY DEF Inv, Types
<1>3. h.request.ts \in DOMAIN messages
  BY DEF Inv, Known
<1>4. IncidentOf(h.request) \in Incidents
  BY <1>3, MessageAt DEF Inv, IncidentOf
<1>5. rows[IncidentOf(h.request)] # None
  BY <1>3 DEF Inv, Known, IncidentOf
<1> QED
  BY <1>1, <1>2, <1>3, <1>4, <1>5 DEF Inv, Types

(* It goes to its next stage or ends                                       *)
LEMMA HandlerGoes ==
    ASSUME Inv, NEW h \in handlers,
           NEW stage \in {"act", "decide", "write", "refresh", "update", "note"}
    PROVE  /\ Goes(h, stage) =>
                 /\ handlers' = {[h EXCEPT !.stage = stage]}
                 /\ [h EXCEPT !.stage = stage] \in Handler
                 /\ [h EXCEPT !.stage = stage].request = h.request
                 /\ [h EXCEPT !.stage = stage].stage = stage
           /\ Ends(h) => handlers' = {}
<1>1. handlers \ {h} = {} /\ h \in Handler
  BY TheHandler
<1>2. /\ [h EXCEPT !.stage = stage] \in Handler
      /\ [h EXCEPT !.stage = stage].request = h.request
      /\ [h EXCEPT !.stage = stage].stage = stage
  BY <1>1 DEF Handler
<1> QED
  BY <1>1, <1>2 DEF Goes, Ends

LEMMA GoesOn ==
    ASSUME Inv, NEW h \in handlers,
           NEW stage \in {"act", "decide", "write", "refresh", "update", "note"},
           Goes(h, stage)
    PROVE  \A k \in handlers' : k.stage = stage /\ k.request = h.request
<1>1. /\ handlers' = {[h EXCEPT !.stage = stage]}
      /\ [h EXCEPT !.stage = stage].request = h.request
      /\ [h EXCEPT !.stage = stage].stage = stage
  BY HandlerGoes
<1> QED
  BY <1>1

(* What a label does to the rows (Ledger.label).                           *)
LEMMA LabelRows ==
    ASSUME Inv, NEW i \in Incidents, NEW label \in Ratings \cup {"cause"},
           rows[i] # None, Label(i, label)
    PROVE  /\ rows' \in [Incidents -> SlackRow \cup {None}]
           /\ \A j \in Incidents :
                 \/ rows'[j] = rows[j]
                 \/ /\ rows[j] # None /\ Grows(rows[j], rows'[j])
                    /\ rows'[j].serial = rows[j].serial
           /\ \A j \in Incidents : rows[j] # None => rows'[j].decision = rows[j].decision
           /\ \A j \in Incidents \ promoted : rows'[j] # None => rows'[j].decision = None
<1>1. rows \in [Incidents -> SlackRow \cup {None}] /\ rows[i] \in SlackRow
  BY DEF Inv, Types
<1>2. PICK next : /\ rows' = [rows EXCEPT ![i] = next]
                  /\ Grows(rows[i], next) /\ next.serial = rows[i].serial
                  /\ next.decision = rows[i].decision
  <2>1. CASE label = "cause"
    <3>1. rows' = [rows EXCEPT ![i] = [rows[i] EXCEPT !.cause = TRUE]]
      BY <2>1 DEF Label
    <3> QED
      BY <1>1, <3>1, CauseGrows
  <2>2. CASE label # "cause"
    <3>1. rows' = [rows EXCEPT ![i] = [rows[i] EXCEPT !.rating = label]]
      BY <2>2 DEF Label
    <3> QED
      BY <1>1, <2>2, <3>1, RatedGrows
  <2> QED
    BY <2>1, <2>2
<1>3. next \in SlackRow
  BY <1>2 DEF Grows
<1>4. rows'[i] = next /\ \A j \in Incidents : j # i => rows'[j] = rows[j]
  BY <1>1, <1>2
<1>5. rows' \in [Incidents -> SlackRow \cup {None}]
  BY <1>1, <1>2, <1>3
<1>6. rows[i] # None /\ \A j \in Incidents : rows[j] # None => rows'[j].decision = rows[j].decision
  BY <1>2, <1>4
<1> QED
  BY <1>2, <1>4, <1>5, <1>6 DEF Inv, ShadowIsNotAsked

-----------------------------------------------------------------------------
(* A fresh verdict replaces the row: what was told is about an older one   *)
(* (Ledger.record).                                                        *)
LEMMA VerdictKeeps ==
    ASSUME Inv, NEW i \in Incidents, NEW outcome \in Outcomes, Verdict(i, outcome)
    PROVE  Inv'
<1> DEFINE next == [serial |-> Serial(i) + 1, outcome |-> outcome, rating |-> None,
                    decision |-> None, cause |-> FALSE]
           w == [incident |-> i, serial |-> Serial(i) + 1,
                 outcome |-> outcome, stage |-> "recorded"]
<1>1. /\ rows \in [Incidents -> SlackRow \cup {None}] /\ Serial(i) \in Nat
  BY DEF Inv, Types, Serial, SlackRow
<1>2. /\ next \in SlackRow /\ next.serial = Serial(i) + 1
      /\ next.rating = None /\ next.decision = None
  BY <1>1 DEF SlackRow
<1>3. w \in Work /\ w.incident = i /\ w.serial = Serial(i) + 1 /\ w.stage = "recorded"
  BY <1>1 DEF Work
<1>4. rows' = [rows EXCEPT ![i] = next] /\ works' = works \cup {w}
  BY DEF Verdict
<1>5. /\ UNCHANGED <<promoted, parked, deciders, overdue, messages, modals, inbox,
                     handlers, labels, posted, restarted>>
      /\ overlapped' = overlapped \ {i}
  BY DEF Verdict
<1> HIDE DEF next, w
<1>6. rows'[i] = next /\ next # None /\ \A j \in Incidents : j # i => rows'[j] = rows[j]
  BY <1>1, <1>2, <1>4, MessagesAssumption
<1>7. Types'
  BY <1>1, <1>2, <1>3, <1>4, <1>5 DEF Inv, Types
<1>8. \A ts \in DOMAIN messages : messages[ts].incident \in Incidents
                                  /\ messages[ts].serial \in Nat
  BY MessageAt DEF Inv
<1>9. /\ \A v \in works : v.incident \in Incidents /\ v.serial \in Nat
      /\ \A l \in labels : l.incident \in Incidents
  BY DEF Inv, Types, Work
<1>10. Known'
  <2>1. Serial(i)' = Serial(i) + 1 /\ \A j \in Incidents : j # i => Serial(j)' = Serial(j)
    BY <1>2, <1>6 DEF Serial
  <2>2. \A v \in works' : /\ rows'[v.incident] # None
                          /\ 0 < v.serial /\ v.serial <= Serial(v.incident)'
    BY <1>1, <1>3, <1>4, <1>6, <1>9, <2>1 DEF Inv, Known
  <2>3. /\ \A t \in Deciders : deciders[t] # None => deciders[t].incident \in Incidents
        /\ \A j \in overdue : j \in Incidents
    BY DEF Inv, Types, Decider
  <2> QED
    BY <1>5, <1>6, <1>8, <1>9, <2>2, <2>3 DEF Inv, Known
<1>11. \A j \in Incidents : rows[j] # None => Grows(rows[j], rows'[j])
  BY <1>1, <1>2, <1>6, TellsSelf DEF Grows, Tells, Serial
<1>12. MessagesTold'
  <2> SUFFICES ASSUME NEW ts \in DOMAIN messages
               PROVE  Tells(messages[ts].serial, messages[ts].status,
                            rows'[messages[ts].incident])
    BY <1>5 DEF MessagesTold
  <2>1. rows[messages[ts].incident] # None
    BY DEF Inv, Known
  <2>2. Tells(messages[ts].serial, messages[ts].status, rows[messages[ts].incident])
    BY DEF Inv, MessagesTold
  <2> QED
    BY <1>1, <1>8, <1>11, <2>1, <2>2, TellsOn
<1>13. ReadingTells'
  <2> SUFFICES ASSUME NEW h \in handlers, h.stage = "update"
               PROVE  Tells(h.row.serial, render_status(h.row), rows'[IncidentOf(h.request)])
    BY <1>5 DEF Inv, ReadingTells, IncidentOf
  <2>1. /\ h.row # None
        /\ Tells(h.row.serial, render_status(h.row), rows[IncidentOf(h.request)])
    BY DEF Inv, ReadingTells
  <2>2. h.row.serial \in Nat
    BY <2>1 DEF Inv, Types, Handler, SlackRow
  <2> QED
    BY <1>11, <2>1, <2>2, TheHandler, TellsOn
<1>14. RatesFirst'
  <2>1. \A h \in handlers : /\ rows[IncidentOf(h.request)].rating = None
                            => rows'[IncidentOf(h.request)].rating = None
    BY <1>2, <1>6, TheHandler
  <2> QED
    BY <1>5, <2>1 DEF Inv, RatesFirst, IncidentOf
<1>15. ShadowIsNotAsked'
  BY <1>2, <1>5, <1>6 DEF Inv, ShadowIsNotAsked
<1>16. OneAtATime' /\ SlackDecides'
  BY <1>5 DEF Inv, OneAtATime, SlackDecides, IncidentOf
<1> QED
  BY <1>7, <1>10, <1>12, <1>13, <1>14, <1>15, <1>16 DEF Inv

(* The question is put before its message is sent (register).              *)
LEMMA RegisterKeeps ==
    ASSUME Inv, NEW w \in works, register(w)
    PROVE  Inv'
<1> DEFINE v == [w EXCEPT !.stage = "registered"]
<1>1. /\ w \in Work /\ w.incident \in Incidents /\ w.serial \in Nat
      /\ rows[w.incident] # None /\ 0 < w.serial /\ w.serial <= Serial(w.incident)
  BY DEF Inv, Types, Work, Known
<1>2. /\ v \in Work /\ v.incident = w.incident /\ v.serial = w.serial
      /\ v.outcome = w.outcome
  BY <1>1 DEF Work
<1>3. works' = (works \ {w}) \cup {v}
  BY DEF register
<1>4. /\ UNCHANGED <<promoted, rows, deciders, overdue, messages, modals, inbox,
                     handlers, labels, posted, restarted>>
      /\ parked' = IF Asks(w) THEN [parked EXCEPT ![w.incident] = "open"] ELSE parked
      /\ overlapped' \subseteq overlapped \cup {w.incident}
  BY DEF register
<1> HIDE DEF v
<1>5. Types'
  BY <1>1, <1>2, <1>3, <1>4 DEF Inv, Types
<1>6. \A i \in Incidents : parked'[i] # parked[i] =>
          i = w.incident /\ Asks(w)
  BY <1>1, <1>4 DEF Inv, Types
<1>7. \A i \in Incidents : Serial(i)' = Serial(i)
  BY <1>4 DEF Serial
<1>8. \A u \in works : u.incident \in Incidents
  BY DEF Inv, Types, Work
<1>9. Known'
  BY <1>1, <1>2, <1>3, <1>4, <1>6, <1>7, <1>8 DEF Inv, Known
<1>10. ShadowIsNotAsked'
  BY <1>4, <1>6 DEF Inv, ShadowIsNotAsked, Asks
<1>11. OneAtATime' /\ SlackDecides' /\ MessagesTold' /\ ReadingTells' /\ RatesFirst'
  BY <1>4 DEF Inv, OneAtATime, SlackDecides, MessagesTold, ReadingTells, RatesFirst,
              IncidentOf
<1> QED
  BY <1>5, <1>9, <1>10, <1>11 DEF Inv

(* A message that is sent tells nothing yet (SlackSink.deliver).           *)
LEMMA DeliverKeeps ==
    ASSUME Inv, NEW w \in works, NEW answered \in BOOLEAN, deliver(w, answered)
    PROVE  Inv'
<1> DEFINE m == [incident |-> w.incident, serial |-> w.serial, status |-> {},
                 buttons |-> render_blocks(w.incident \in promoted, w.outcome, {})]
<1>1. /\ w \in Work /\ w.incident \in Incidents /\ w.serial \in Nat
      /\ w.outcome \in Outcomes
      /\ rows[w.incident] # None /\ w.serial <= Serial(w.incident)
  BY DEF Inv, Types, Work, Known
<1>2. /\ w.stage = "registered" /\ works' = works \ {w}
      /\ messages' = IF ~answered THEN messages ELSE Append(messages, m)
      /\ UNCHANGED <<promoted, rows, decisionVars, modals, inbox, handlers, labels,
                     posted, restarted>>
  BY DEF deliver
<1>3. /\ m \in Message /\ m.incident = w.incident /\ m.serial = w.serial
      /\ m.status = {} /\ m.buttons = render_blocks(w.incident \in promoted, w.outcome, {})
  BY <1>1 DEF Message, render_blocks, Buttons, Ratings
<1> HIDE DEF m
<1>5. /\ messages' \in Seq(Message) /\ DOMAIN messages \subseteq DOMAIN messages'
      /\ \A ts \in DOMAIN messages : messages'[ts] = messages[ts]
      /\ \A ts \in DOMAIN messages' : ts \in DOMAIN messages \/ messages'[ts] = m
  <2>1. messages \in Seq(Message)
    BY DEF Inv, Types
  <2>2. /\ Append(messages, m) \in Seq(Message)
        /\ Len(Append(messages, m)) = Len(messages) + 1
        /\ \A ts \in 1 .. Len(messages) : Append(messages, m)[ts] = messages[ts]
        /\ Append(messages, m)[Len(messages) + 1] = m
    BY <1>3, <2>1, AppendProperties
  <2>3. DOMAIN messages = 1 .. Len(messages) /\ Len(messages) \in Nat
        /\ DOMAIN Append(messages, m) = 1 .. (Len(messages) + 1)
    BY <2>1, <2>2, LenProperties
  <2> QED
    BY <1>2, <2>1, <2>2, <2>3
<1>6. \A ts \in DOMAIN messages : messages[ts].incident \in Incidents
                                  /\ messages[ts].serial \in Nat
  BY MessageAt DEF Inv
<1>7. Types'
  BY <1>2, <1>5 DEF Inv, Types, decisionVars
<1>8. Known'
  BY <1>1, <1>2, <1>3, <1>5 DEF Inv, Known, Serial, decisionVars
<1>9. MessagesTold'
  <2>1. Tells(m.serial, m.status, rows[m.incident])
    BY <1>1, <1>3 DEF Tells, Serial
  <2> QED
    BY <1>2, <1>5, <2>1 DEF Inv, MessagesTold
<1>10. ReadingTells'
  BY <1>2, <1>5 DEF Inv, Known, ReadingTells, IncidentOf
<1>11. RatesFirst'
  BY <1>2, <1>5 DEF Inv, Known, RatesFirst, IncidentOf
<1>12. ShadowIsNotAsked' /\ OneAtATime'
  BY <1>2 DEF Inv, ShadowIsNotAsked, OneAtATime, decisionVars
<1>13. SlackDecides'
  BY <1>2, <1>5 DEF Inv, Known, SlackDecides, IncidentOf, decisionVars
<1> QED
  BY <1>7, <1>8, <1>9, <1>10, <1>11, <1>12, <1>13 DEF Inv

(* What the handler reads of the row tells what its message does           *)
(* (_slack_refresh).                                                       *)
LEMMA ReadRowKeeps ==
    ASSUME Inv, NEW h \in handlers, ReadRow(h)
    PROVE  Inv'
<1>1. PICK i : i = IncidentOf(h.request)
  OBVIOUS
<1>2. /\ handlers \ {h} = {} /\ h \in Handler /\ h.request.ts \in DOMAIN messages
      /\ i \in Incidents /\ rows[i] # None /\ rows[i] \in SlackRow
  BY <1>1, TheHandler
<1>3. PICK g : g = [h EXCEPT !.stage = "update", !.row = rows[i]]
  OBVIOUS
<1>4. /\ g \in Handler /\ g.request = h.request /\ g.stage = "update" /\ g.row = rows[i]
      /\ handlers' = {g}
      /\ UNCHANGED <<promoted, rows, decisionVars, works, messages, modals, inbox,
                     labels, posted, restarted>>
  <2>1. /\ g \in Handler /\ g.request = h.request /\ g.stage = "update"
        /\ g.row = rows[i]
    BY <1>2, <1>3 DEF Handler
  <2> QED
    BY <1>1, <1>2, <1>3, <2>1 DEF ReadRow, otherVars
<1>5. Types' /\ Known' /\ OneAtATime' /\ SlackDecides'
  <2>1. Types'
    BY <1>2, <1>4 DEF Inv, Types, decisionVars
  <2> QED
    BY <1>2, <1>4, <2>1 DEF Inv, Known, OneAtATime, SlackDecides, Serial, decisionVars
<1>6. ReadingTells'
  <2>1. Tells(messages[h.request.ts].serial, messages[h.request.ts].status, rows[i])
    BY <1>1, <1>2 DEF Inv, MessagesTold, IncidentOf
  <2>2. Tells(rows[i].serial, render_status(rows[i]), rows[i])
    BY <1>2, TellsSelf DEF Grows
  <2>3. IncidentOf(g.request)' = i
    BY <1>1, <1>4 DEF IncidentOf
  <2> QED
    BY <1>2, <1>4, <2>1, <2>2, <2>3 DEF ReadingTells
<1>7. RatesFirst'
  BY <1>4 DEF Inv, RatesFirst
<1>8. MessagesTold' /\ ShadowIsNotAsked'
  BY <1>4 DEF Inv, MessagesTold, ShadowIsNotAsked, decisionVars
<1> QED
  BY <1>5, <1>6, <1>7, <1>8 DEF Inv

(* The message that is redrawn tells what was read, and offers nothing     *)
(* (SlackSink.refresh).                                                    *)
LEMMA UpdateKeeps ==
    ASSUME Inv, NEW h \in handlers, NEW answered \in BOOLEAN, Update(h, answered)
    PROVE  Inv'
<1> DEFINE i == IncidentOf(h.request)
           at == h.request.ts
           m == refresh(i, h.row)
<1>1. /\ handlers \ {h} = {} /\ h \in Handler /\ at \in DOMAIN messages
      /\ i \in Incidents /\ rows[i] # None
  BY TheHandler
<1>2. /\ h.stage = "update" /\ handlers' = {}
      /\ messages' = IF answered THEN [messages EXCEPT ![at] = m] ELSE messages
      /\ modals' \subseteq modals
      /\ UNCHANGED <<promoted, rows, decisionVars, works, inbox, labels, posted,
                     restarted>>
  BY <1>1 DEF Update, Ends, Close
<1>3. h.row # None /\ h.row \in SlackRow
      /\ Tells(h.row.serial, render_status(h.row), rows[i])
  BY <1>1, <1>2 DEF Inv, ReadingTells, Handler
<1>4. /\ m \in Message /\ m.incident = i /\ m.serial = h.row.serial /\ m.buttons = {}
      /\ m.status \ {"recorded"} = render_status(h.row)
  BY <1>1, <1>3, RecordOffersNothing
<1>5. i = messages[at].incident
  BY DEF IncidentOf
<1>6. \A s : s \in render_status(h.row) => s # "recorded"
  BY DEF render_status
<1> HIDE DEF m, i
<1>7. messages \in Seq(Message)
  BY DEF Inv, Types
<1>8. /\ messages' \in Seq(Message) /\ DOMAIN messages' = DOMAIN messages
      /\ \A ts \in DOMAIN messages : messages'[ts] = messages[ts]
            \/ (ts = at /\ messages'[ts] = m)
  <2>1. [messages EXCEPT ![at] = m] \in Seq(Message)
    BY <1>1, <1>4, <1>7, ExceptSeq
  <2> QED
    BY <1>1, <1>2, <1>7, <2>1
<1>9. Types'
  BY <1>2, <1>8 DEF Inv, Types, decisionVars
<1>10. Known'
  BY <1>2, <1>4, <1>5, <1>8 DEF Inv, Known, Serial, decisionVars
<1>11. MessagesTold'
  <2>1. Tells(m.serial, m.status, rows[m.incident])
    BY <1>3, <1>4 DEF Tells
  <2> QED
    BY <1>2, <1>8, <2>1 DEF Inv, MessagesTold
<1>12. OneAtATime' /\ SlackDecides' /\ ReadingTells' /\ RatesFirst'
  BY <1>2 DEF Inv, OneAtATime, SlackDecides, ReadingTells, RatesFirst
<1>13. ShadowIsNotAsked'
  BY <1>2 DEF Inv, ShadowIsNotAsked, decisionVars
<1> QED
  BY <1>9, <1>10, <1>11, <1>12, <1>13 DEF Inv

-----------------------------------------------------------------------------
(* Who decides, and what about (ApprovalPipeline.decide).                  *)
LEMMA TheDecider ==
    ASSUME Inv, NEW t \in Deciders, deciders[t] # None
    PROVE  /\ deciders[t] \in Decider /\ deciders[t].incident \in Incidents
           /\ rows[deciders[t].incident] # None
           /\ rows[deciders[t].incident] \in SlackRow
<1>1. deciders[t] \in Decider
  BY DEF Inv, Types
<1>2. deciders[t].incident \in Incidents /\ rows[deciders[t].incident] # None
  BY <1>1 DEF Decider, Inv, Known
<1> QED
  BY <1>1, <1>2 DEF Inv, Types

(* A decision that goes on is about the same incident                      *)
LEMMA DeciderGoes ==
    ASSUME NEW d \in Decider, NEW stage \in {"read", "write", "clear", "discard", "done"}
    PROVE  /\ [d EXCEPT !.stage = stage] \in Decider
           /\ [d EXCEPT !.stage = stage].incident = d.incident
           /\ [d EXCEPT !.stage = stage].refused = d.refused
           /\ [d EXCEPT !.stage = stage].stage = stage
BY DEF Decider

(* What the store answers: nothing is parked, or too late, or go on (load).*)
LEMMA LoadGives ==
    ASSUME Inv, NEW t \in Deciders, NEW i \in Incidents, NEW decision \in Decisions,
           load(t, i, decision)
    PROVE  \E e \in Decider \cup {None} :
              /\ deciders' = [deciders EXCEPT ![t] = e]
              /\ t = "slack" => e # None
              /\ e # None =>
                    /\ e.incident = i
                    /\ \/ e.stage = "read" /\ parked[i] # None
                       \/ e.stage = "done" /\ t = "slack"
                          /\ (decision = "human" => parked[i] = None)
                       \/ e.stage = "discard" /\ t = "sweeper"
                          /\ parked[i] # "late"
<1>1. PICK r \in BOOLEAN : r = (decision # "expired" /\ parked[i] = "late")
  OBVIOUS
<1>2. PICK d : d = [incident |-> i, refused |-> r,
                    decision |-> IF parked[i] = "late" THEN "expired" ELSE decision,
                    stage |-> "read"]
  OBVIOUS
<1>3. PICK f : f = [d EXCEPT !.refused = TRUE]
  OBVIOUS
<1>4. d \in Decider /\ d.incident = i /\ d.stage = "read"
  BY <1>1, <1>2 DEF Decider, Decisions
<1>5. f \in Decider /\ f.incident = i /\ f.refused = TRUE
  BY <1>3, <1>4 DEF Decider
<1>6. deciders' = [deciders EXCEPT ![t] =
          IF parked[i] = "late" \/ (parked[i] = "open" /\ decision # "expired") THEN d
          ELSE Ended(t, f)]
  BY <1>1, <1>2, <1>3, Zenon DEF load
<1>7. CASE parked[i] = "late" \/ (parked[i] = "open" /\ decision # "expired")
  <2>1. deciders' = [deciders EXCEPT ![t] = d]
    BY <1>6, <1>7
  <2>2. parked[i] # None
    BY <1>7, MessagesAssumption
  <2> QED
    BY <1>4, <2>1, <2>2, DeciderAssumption
<1>8. CASE ~(parked[i] = "late" \/ (parked[i] = "open" /\ decision # "expired"))
  <2>1. deciders' = [deciders EXCEPT ![t] = Ended(t, f)]
    BY <1>6, <1>8
  <2>2. parked[i] # "late" /\ (decision = "human" => parked[i] = None)
    BY <1>8 DEF Inv, Types
  <2>3. CASE t = "slack"
    <3>1. Ended(t, f) = [f EXCEPT !.stage = "done"]
      BY <2>3 DEF Ended
    <3>2. /\ [f EXCEPT !.stage = "done"] \in Decider
          /\ [f EXCEPT !.stage = "done"].incident = i
          /\ [f EXCEPT !.stage = "done"].stage = "done"
      BY <1>5, DeciderGoes
    <3> QED
      BY <2>1, <2>2, <2>3, <3>1, <3>2, DeciderAssumption
  <2>4. CASE t = "sweeper"
    <3>1. Ended(t, f) = [f EXCEPT !.stage = "discard"]
      BY <1>5, <2>4 DEF Ended
    <3>2. /\ [f EXCEPT !.stage = "discard"] \in Decider
          /\ [f EXCEPT !.stage = "discard"].incident = i
          /\ [f EXCEPT !.stage = "discard"].stage = "discard"
      BY <1>5, DeciderGoes
    <3> QED
      BY <2>1, <2>2, <2>4, <3>1, <3>2
  <2>5. CASE t # "slack" /\ t # "sweeper"
    BY <2>1, <2>5 DEF Ended
  <2> QED
    BY <2>3, <2>4, <2>5
<1> QED
  BY <1>7, <1>8

(* A row that is not decided may be written, whatever it says then; one    *)
(* that is refuses (Ledger.label).                                         *)
LEMMA ReadGives ==
    ASSUME Inv, NEW t \in Deciders, labelRead(t)
    PROVE  /\ deciders[t] # None /\ deciders[t].stage = "read"
           /\ UNCHANGED <<rows, parked, overdue, overlapped, handlers, otherVars>>
           /\ \E e \in Decider :
                 /\ deciders' = [deciders EXCEPT ![t] = e]
                 /\ e.incident = deciders[t].incident
                 /\ \/ e.stage = "write"
                    \/ e.stage = "clear" /\ rows[e.incident].decision # None
<1>1. deciders[t] # None /\ deciders[t].stage = "read" /\ deciders[t] \in Decider
  BY TheDecider DEF labelRead
<1>2. PICK d : d = deciders[t]
  OBVIOUS
<1>3. deciders' = [deciders EXCEPT ![t] =
          IF rows[d.incident].decision = None THEN [d EXCEPT !.stage = "write"]
          ELSE [d EXCEPT !.stage = "clear", !.refused = TRUE]]
  BY <1>2 DEF labelRead, Inv, Types
<1>4. CASE rows[d.incident].decision = None
  <2>1. deciders' = [deciders EXCEPT ![t] = [d EXCEPT !.stage = "write"]]
    BY <1>3, <1>4
  <2>2. PICK e : e = [d EXCEPT !.stage = "write"]
    OBVIOUS
  <2>3. e \in Decider /\ e.incident = d.incident /\ e.stage = "write"
    BY <1>1, <1>2, <2>2 DEF Decider
  <2> QED
    BY <1>1, <1>2, <2>1, <2>2, <2>3 DEF labelRead
<1>5. CASE rows[d.incident].decision # None
  <2>1. deciders' = [deciders EXCEPT ![t] = [d EXCEPT !.stage = "clear", !.refused = TRUE]]
    BY <1>3, <1>5
  <2>2. PICK e : e = [d EXCEPT !.stage = "clear", !.refused = TRUE]
    OBVIOUS
  <2>3. e \in Decider /\ e.incident = d.incident /\ e.stage = "clear"
    BY <1>1, <1>2, <2>2 DEF Decider
  <2> QED
    BY <1>1, <1>2, <1>5, <2>1, <2>2, <2>3 DEF labelRead
<1> QED
  BY <1>4, <1>5

LEMMA WriteGives ==
    ASSUME Inv, NEW t \in Deciders, labelWrite(t)
    PROVE  /\ deciders[t] # None /\ deciders[t].stage = "write"
           /\ UNCHANGED <<parked, overdue, overlapped, handlers, otherVars>>
           /\ \E e \in Decider, next \in SlackRow :
                 /\ deciders' = [deciders EXCEPT ![t] = e]
                 /\ e.incident = deciders[t].incident /\ e.stage = "clear"
                 /\ rows' = [rows EXCEPT ![e.incident] = next]
                 /\ Grows(rows[e.incident], next)
                 /\ next.serial = rows[e.incident].serial
                 /\ next.rating = rows[e.incident].rating
                 /\ next.decision # None
<1>1. /\ deciders[t] # None /\ deciders[t].stage = "write" /\ deciders[t] \in Decider
      /\ deciders[t].incident \in Incidents /\ rows[deciders[t].incident] \in SlackRow
  BY TheDecider DEF labelWrite
<1>2. PICK d : d = deciders[t]
  OBVIOUS
<1>3. d.decision \in Decisions
  BY <1>1, <1>2 DEF Decider
<1>4. PICK e : e = [d EXCEPT !.stage = "clear"]
  OBVIOUS
<1>5. e \in Decider /\ e.incident = d.incident /\ e.stage = "clear"
  BY <1>1, <1>2, <1>4 DEF Decider
<1>6. deciders' = [deciders EXCEPT ![t] = e]
  BY <1>2, <1>4 DEF labelWrite, Inv, Types
<1>7. PICK next : next = [rows[d.incident] EXCEPT !.decision = d.decision]
  OBVIOUS
<1>8. rows' = [rows EXCEPT ![d.incident] = next]
  BY <1>1, <1>2, <1>7 DEF labelWrite, Inv, Types
<1>9. /\ Grows(rows[d.incident], next) /\ next.serial = rows[d.incident].serial
      /\ next.rating = rows[d.incident].rating /\ next.decision # None
  BY <1>1, <1>2, <1>3, <1>7, DecidedGrows
<1>10. next \in SlackRow
  BY <1>9 DEF Grows
<1>11. UNCHANGED <<parked, overdue, overlapped, handlers, otherVars>>
  BY DEF labelWrite
<1> QED
  BY <1>1, <1>2, <1>5, <1>6, <1>8, <1>9, <1>10, <1>11

(* Whatever is parked by then is deleted (decide).                         *)
LEMMA ClearGives ==
    ASSUME Inv, NEW t \in Deciders, clear(t)
    PROVE  /\ deciders[t] # None /\ deciders[t].stage = "clear"
           /\ UNCHANGED <<rows, overdue, overlapped, handlers, otherVars>>
           /\ parked' = [parked EXCEPT ![deciders[t].incident] = None]
           /\ \E e \in Decider \cup {None} :
                 /\ deciders' = [deciders EXCEPT ![t] = e]
                 /\ t = "slack" => e # None
                 /\ e # None =>
                       /\ e.incident = deciders[t].incident
                       /\ e.refused = deciders[t].refused
                       /\ \/ e.stage = "done" /\ t = "slack"
                          \/ e.stage = "discard" /\ t = "sweeper"
<1>1. deciders[t] # None /\ deciders[t].stage = "clear" /\ deciders[t] \in Decider
  BY TheDecider DEF clear
<1>2. PICK d : d = deciders[t]
  OBVIOUS
<1>3. deciders' = [deciders EXCEPT ![t] = Ended(t, d)]
  BY <1>2 DEF clear, Inv, Types
<1>4. /\ UNCHANGED <<rows, overdue, overlapped, handlers, otherVars>>
      /\ parked' = [parked EXCEPT ![deciders[t].incident] = None]
  BY DEF clear
<1>5. CASE t = "slack"
  <2>1. Ended(t, d) = [d EXCEPT !.stage = "done"]
    BY <1>5 DEF Ended
  <2> QED
    <3>1. PICK e : e = [d EXCEPT !.stage = "done"]
      OBVIOUS
    <3>2. /\ e \in Decider /\ e.incident = d.incident /\ e.refused = d.refused
          /\ e.stage = "done"
      BY <1>1, <1>2, <3>1 DEF Decider
    <3>3. deciders' = [deciders EXCEPT ![t] = e] /\ e # None
      BY <1>3, <2>1, <3>1, <3>2, DeciderAssumption
    <3> QED
      BY <1>1, <1>2, <1>4, <1>5, <3>2, <3>3
<1>6. CASE t = "sweeper" /\ d.refused
  <2>1. Ended(t, d) = [d EXCEPT !.stage = "discard"]
    BY <1>6 DEF Ended
  <2> QED
    <3>1. PICK e : e = [d EXCEPT !.stage = "discard"]
      OBVIOUS
    <3>2. /\ e \in Decider /\ e.incident = d.incident /\ e.refused = d.refused
          /\ e.stage = "discard"
      BY <1>1, <1>2, <3>1 DEF Decider
    <3>3. deciders' = [deciders EXCEPT ![t] = e]
      BY <1>3, <2>1, <3>1
    <3> QED
      BY <1>1, <1>2, <1>4, <1>6, <3>2, <3>3
<1>7. CASE t # "slack" /\ ~(t = "sweeper" /\ d.refused)
  BY <1>1, <1>3, <1>4, <1>7 DEF Ended
<1> QED
  BY <1>5, <1>6, <1>7

(* What a step of a decision or of the sweep may do to the rest.           *)
LEMMA MoveKeeps ==
    ASSUME Inv, NEW t \in Deciders, NEW e \in Decider \cup {None},
           deciders' = [deciders EXCEPT ![t] = e],
           e # None => /\ rows[e.incident] # None
                       /\ e.stage \in {"read", "write"} => e.incident \in promoted,
           UNCHANGED <<promoted, overlapped, works, messages, modals, inbox, labels,
                       posted, restarted>>,
           \/ rows' = rows
           \/ \E i \in promoted, next \in SlackRow :
                 /\ rows' = [rows EXCEPT ![i] = next]
                 /\ rows[i] # None /\ Grows(rows[i], next)
                 /\ next.serial = rows[i].serial /\ next.rating = rows[i].rating,
           parked' \in [Incidents -> {None, "open", "late"}],
           \A i \in Incidents : parked'[i] # None => parked[i] # None,
           \A i \in overdue' : i \in Incidents /\ rows[i] # None,
           \/ handlers' = handlers
           \/ /\ handlers' \subseteq Handler /\ OneAtATime'
              /\ \A g \in handlers' : /\ g.stage \notin {"update", "write"}
                                      /\ g.request.ts \in DOMAIN messages,
           \A g \in handlers' : g.stage = "decide" =>
              /\ deciders'["slack"] # None
              /\ deciders'["slack"].incident = IncidentOf(g.request)
    PROVE  Inv'
<1>1. /\ rows \in [Incidents -> SlackRow \cup {None}]
      /\ \A i \in Incidents \ promoted : rows[i] # None => rows[i].decision = None
      /\ promoted \subseteq Incidents
  BY DEF Inv, Types, ShadowIsNotAsked
<1>2. /\ rows' \in [Incidents -> SlackRow \cup {None}]
      /\ \A i \in Incidents :
            \/ rows'[i] = rows[i]
            \/ /\ rows[i] # None /\ Grows(rows[i], rows'[i])
               /\ rows'[i].serial = rows[i].serial
      /\ \A i \in Incidents \ promoted : rows'[i] # None => rows'[i].decision = None
      /\ \A i \in Incidents : rows'[i].rating = rows[i].rating
  <2>1. CASE rows' = rows
    BY <1>1, <2>1
  <2>2. CASE \E i \in promoted, next \in SlackRow :
                /\ rows' = [rows EXCEPT ![i] = next]
                /\ rows[i] # None /\ Grows(rows[i], next)
                /\ next.serial = rows[i].serial /\ next.rating = rows[i].rating
    <3>1. PICK i \in promoted, next \in SlackRow :
                /\ rows' = [rows EXCEPT ![i] = next]
                /\ rows[i] # None /\ Grows(rows[i], next)
                /\ next.serial = rows[i].serial /\ next.rating = rows[i].rating
      BY <2>2
    <3>2. rows'[i] = next /\ \A j \in Incidents : j # i => rows'[j] = rows[j]
      BY <1>1, <3>1
    <3>3. rows' \in [Incidents -> SlackRow \cup {None}]
      BY <1>1, <3>1
    <3> QED
      BY <1>1, <3>1, <3>2, <3>3
  <2> QED
    BY <2>1, <2>2
<1>3. deciders \in [Deciders -> Decider \cup {None}]
  BY DEF Inv, Types
<1>4. deciders' \in [Deciders -> Decider \cup {None}]
  BY <1>3
<1>5. Types'
  BY <1>2, <1>4 DEF Inv, Types
<1>6. \A u \in Deciders : deciders'[u] = deciders[u] \/ deciders'[u] = e
  BY <1>3
<1>7. \A u \in Deciders : deciders'[u] # None =>
          /\ rows[deciders'[u].incident] # None
          /\ deciders'[u].stage \in {"read", "write"} => deciders'[u].incident \in promoted
  BY <1>6 DEF Inv, Known, ShadowIsNotAsked
<1>8. OneAtATime'
  BY DEF Inv, OneAtATime
<1>9. \A h \in handlers' :
         \/ /\ h \in handlers
            /\ ~posted /\ h.stage = "write" /\ h.request.action \in Ratings =>
                  rows'[IncidentOf(h.request)].rating = rows[IncidentOf(h.request)].rating
         \/ /\ h.stage # "update" /\ h.request.ts \in DOMAIN messages
            /\ h.stage = "write" => h.request.action \in Ratings \cup {"cause"}
            /\ h.stage = "write" /\ h.request.action \in Ratings =>
                  rows'[IncidentOf(h.request)].rating = None
  <2>1. CASE handlers' = handlers
    BY <1>2, <2>1, TheHandler
  <2>2. CASE \A g \in handlers' : /\ g.stage \notin {"update", "write"}
                                  /\ g.request.ts \in DOMAIN messages
    BY <2>2
  <2> QED
    BY <2>1, <2>2
<1>10. /\ \A l \in labels' : rows[l.incident] # None
       /\ ~posted' => ~posted /\ labels' = {}
       /\ \A request \in inbox' : request.ts \in DOMAIN messages
       /\ \A i \in overdue' : rows[i] # None
  BY DEF Inv, Known, RatesFirst
<1> QED
  BY <1>2, <1>5, <1>7, <1>8, <1>9, <1>10, InvFrame

-----------------------------------------------------------------------------
(* A step of a decision: who decides, and the sweep (decide,               *)
(* expire_overdue, slack_interactions).                                    *)
DecisionStep ==
    \/ \E i \in Incidents : lapse(i)
    \/ \E t \in Threads, i \in Incidents : PostDecision(t, i)
    \/ \E t \in Deciders : labelRead(t) \/ labelWrite(t) \/ clear(t)
    \/ list \/ discard \/ \E i \in Incidents : expire(i)
    \/ \E h \in handlers : Decide(h) \/ Resume(h)

LEMMA DecisionKeeps == ASSUME Inv, DecisionStep PROVE Inv'
<1>1. /\ rows \in [Incidents -> SlackRow \cup {None}]
      /\ parked \in [Incidents -> {None, "open", "late"}]
      /\ deciders \in [Deciders -> Decider \cup {None}] /\ overdue \subseteq Incidents
  BY DEF Inv, Types
<1>2. /\ \A h \in handlers : h.stage = "decide" =>
            /\ deciders["slack"] # None
            /\ deciders["slack"].incident = IncidentOf(h.request)
      /\ \A i \in overdue : i \in Incidents /\ rows[i] # None
      /\ \A i \in Incidents : parked[i] # None => rows[i] # None /\ i \in promoted
      /\ "slack" \in Deciders /\ "sweeper" \in Deciders /\ Threads \subseteq Deciders
  BY DEF Inv, Types, SlackDecides, Known, ShadowIsNotAsked, Deciders
<1>3. ASSUME NEW t \in Deciders, NEW e \in Decider \cup {None},
             deciders' = [deciders EXCEPT ![t] = e], messages' = messages,
             handlers' = handlers,
             t = "slack" => e # None /\ e.incident = deciders["slack"].incident
      PROVE  \A g \in handlers' : g.stage = "decide" =>
                /\ deciders'["slack"] # None
                /\ deciders'["slack"].incident = IncidentOf(g.request)
  BY <1>1, <1>2, <1>3
<1>4. ASSUME NEW i \in Incidents, lapse(i) PROVE Inv'
  <2>1. /\ UNCHANGED <<promoted, rows, deciders, overdue, overlapped, works, messages,
                       modals, inbox, handlers, labels, posted, restarted>>
        /\ parked[i] = "open" /\ parked' = [parked EXCEPT ![i] = "late"]
    BY <1>4 DEF lapse
  <2>2. /\ parked' \in [Incidents -> {None, "open", "late"}]
        /\ \A j \in Incidents : parked'[j] # None => parked[j] # None
    BY <1>1, <2>1, MessagesAssumption
  <2>3. PICK e : e = deciders["slack"]
    OBVIOUS
  <2>4. /\ e \in Decider \cup {None} /\ deciders' = [deciders EXCEPT !["slack"] = e]
        /\ e # None => /\ rows[e.incident] # None
                       /\ e.stage \in {"read", "write"} => e.incident \in promoted
    BY <1>1, <1>2, <2>1, <2>3 DEF Inv, Known, ShadowIsNotAsked
  <2>5. /\ "slack" \in Deciders /\ rows' = rows /\ handlers' = handlers
        /\ \A j \in overdue' : j \in Incidents /\ rows[j] # None
        /\ \A g \in handlers' : g.stage = "decide" =>
              /\ deciders'["slack"] # None
              /\ deciders'["slack"].incident = IncidentOf(g.request)
    BY <1>2, <2>1
  <2> QED
    BY <2>1, <2>2, <2>4, <2>5, MoveKeeps
<1>5. ASSUME NEW t \in Threads, NEW i \in Incidents, PostDecision(t, i) PROVE Inv'
  <2>1. /\ UNCHANGED <<promoted, rows, parked, overdue, overlapped, works, messages,
                       modals, inbox, handlers, labels, posted, restarted>>
        /\ load(t, i, "human") /\ t # "slack" /\ t # "sweeper" /\ t \in Deciders
    BY <1>2, <1>5, MessagesAssumption DEF PostDecision
  <2>2. PICK e \in Decider \cup {None} :
            /\ deciders' = [deciders EXCEPT ![t] = e]
            /\ e # None => e.incident = i /\ parked[i] # None
    BY <2>1, LoadGives DEF Decisions
  <2>3. e # None => /\ rows[e.incident] # None
                    /\ e.stage \in {"read", "write"} => e.incident \in promoted
    BY <1>2, <2>2
  <2> QED
    BY <1>1, <1>2, <1>3, <2>1, <2>2, <2>3, MoveKeeps
<1>6. ASSUME NEW t \in Deciders, labelRead(t) PROVE Inv'
  <2>1. /\ deciders[t] # None /\ deciders[t].stage = "read"
        /\ UNCHANGED <<rows, parked, overdue, overlapped, handlers, otherVars>>
    BY <1>6, ReadGives
  <2>2. PICK e \in Decider : /\ deciders' = [deciders EXCEPT ![t] = e]
                             /\ e.incident = deciders[t].incident
    BY <1>6, ReadGives
  <2>3. rows[e.incident] # None /\ e.incident \in promoted
    BY <2>1, <2>2 DEF Inv, Known, ShadowIsNotAsked
  <2>4. \A g \in handlers' : g.stage = "decide" =>
           /\ deciders'["slack"] # None
           /\ deciders'["slack"].incident = IncidentOf(g.request)
    BY <1>3, <2>1, <2>2, DeciderAssumption DEF otherVars
  <2> QED
    BY <1>1, <1>2, <2>1, <2>2, <2>3, <2>4, MoveKeeps DEF otherVars
<1>7. ASSUME NEW t \in Deciders, labelWrite(t) PROVE Inv'
  <2>1. /\ deciders[t] # None /\ deciders[t].stage = "write"
        /\ UNCHANGED <<parked, overdue, overlapped, handlers, otherVars>>
    BY <1>7, WriteGives
  <2>2. PICK e \in Decider, next \in SlackRow :
                 /\ deciders' = [deciders EXCEPT ![t] = e]
                 /\ e.incident = deciders[t].incident
                 /\ rows' = [rows EXCEPT ![e.incident] = next]
                 /\ Grows(rows[e.incident], next)
                 /\ next.serial = rows[e.incident].serial
                 /\ next.rating = rows[e.incident].rating
    BY <1>7, WriteGives
  <2>3. rows[e.incident] # None /\ e.incident \in promoted
    BY <2>1, <2>2 DEF Inv, Known, ShadowIsNotAsked
  <2>4. \A g \in handlers' : g.stage = "decide" =>
           /\ deciders'["slack"] # None
           /\ deciders'["slack"].incident = IncidentOf(g.request)
    BY <1>3, <2>1, <2>2, DeciderAssumption DEF otherVars
  <2> QED
    BY <1>1, <1>2, <2>1, <2>2, <2>3, <2>4, MoveKeeps DEF otherVars
<1>8. ASSUME NEW t \in Deciders, clear(t) PROVE Inv'
  <2>1. /\ deciders[t] # None
        /\ UNCHANGED <<rows, overdue, overlapped, handlers, otherVars>>
        /\ parked' = [parked EXCEPT ![deciders[t].incident] = None]
    BY <1>8, ClearGives
  <2>2. PICK e \in Decider \cup {None} :
            /\ deciders' = [deciders EXCEPT ![t] = e]
            /\ t = "slack" => e # None
            /\ e # None => /\ e.incident = deciders[t].incident
                           /\ e.stage \in {"done", "discard"}
    BY <1>8, ClearGives
  <2>3. e # None => rows[e.incident] # None /\ e.stage \notin {"read", "write"}
    BY <2>1, <2>2 DEF Inv, Known
  <2>4. \A g \in handlers' : g.stage = "decide" =>
           /\ deciders'["slack"] # None
           /\ deciders'["slack"].incident = IncidentOf(g.request)
    BY <1>3, <2>1, <2>2 DEF otherVars
  <2>5. /\ parked' \in [Incidents -> {None, "open", "late"}]
        /\ \A i \in Incidents : parked'[i] # None => parked[i] # None
    BY <1>1, <2>1
  <2> QED
    BY <1>1, <1>2, <2>1, <2>2, <2>3, <2>4, <2>5, MoveKeeps DEF otherVars
<1>9. CASE list
  <2>1. /\ UNCHANGED <<rows, parked, deciders, overlapped, handlers, otherVars>>
        /\ overdue' = {i \in Incidents : parked[i] = "late"}
    BY <1>9 DEF list, Overdue
  <2>2. \A i \in overdue' : i \in Incidents /\ rows[i] # None
    BY <1>2, <2>1, MessagesAssumption
  <2>3. PICK e : e = deciders["slack"]
    OBVIOUS
  <2>4. /\ e \in Decider \cup {None} /\ deciders' = [deciders EXCEPT !["slack"] = e]
        /\ e # None => /\ rows[e.incident] # None
                       /\ e.stage \in {"read", "write"} => e.incident \in promoted
    BY <1>1, <1>2, <2>1, <2>3 DEF Inv, Known, ShadowIsNotAsked
  <2> QED
    BY <1>1, <1>2, <2>1, <2>2, <2>4, MoveKeeps DEF otherVars
<1>10. ASSUME NEW i \in Incidents, expire(i) PROVE Inv'
  <2>1. /\ i \in overdue /\ overdue' = overdue \ {i} /\ load("sweeper", i, "expired")
        /\ UNCHANGED <<rows, parked, overlapped, handlers, otherVars>>
    BY <1>10 DEF expire
  <2>2. PICK e \in Decider \cup {None} :
            /\ deciders' = [deciders EXCEPT !["sweeper"] = e]
            /\ e # None => /\ e.incident = i
                           /\ e.stage \in {"read", "write"} => parked[i] # None
    BY <1>2, <2>1, LoadGives DEF Decisions
  <2>3. e # None => /\ rows[e.incident] # None
                    /\ e.stage \in {"read", "write"} => e.incident \in promoted
    BY <1>2, <2>1, <2>2
  <2>4. \A g \in handlers' : g.stage = "decide" =>
           /\ deciders'["slack"] # None
           /\ deciders'["slack"].incident = IncidentOf(g.request)
    BY <1>2, <1>3, <2>1, <2>2 DEF otherVars
  <2> QED
    BY <1>1, <1>2, <2>1, <2>2, <2>3, <2>4, MoveKeeps DEF otherVars
<1>11. CASE discard
  <2>1. /\ deciders["sweeper"] # None
        /\ parked' = [parked EXCEPT ![deciders["sweeper"].incident] = None]
        /\ deciders' = [deciders EXCEPT !["sweeper"] = None]
        /\ UNCHANGED <<rows, overdue, overlapped, handlers, otherVars>>
    BY <1>11 DEF discard
  <2>2. PICK e : e \in Decider \cup {None} /\ e = None
    OBVIOUS
  <2>3. deciders' = [deciders EXCEPT !["sweeper"] = e]
    BY <2>1, <2>2
  <2>4. \A g \in handlers' : g.stage = "decide" =>
           /\ deciders'["slack"] # None
           /\ deciders'["slack"].incident = IncidentOf(g.request)
    BY <1>2, <1>3, <2>1, <2>2, <2>3 DEF otherVars
  <2>5. /\ parked' \in [Incidents -> {None, "open", "late"}]
        /\ \A i \in Incidents : parked'[i] # None => parked[i] # None
    BY <1>1, <2>1
  <2> QED
    BY <1>1, <1>2, <2>1, <2>2, <2>3, <2>4, <2>5, MoveKeeps DEF otherVars
<1>12. ASSUME NEW h \in handlers, Decide(h) PROVE Inv'
  <2>1. PICK i : i = IncidentOf(h.request)
    OBVIOUS
  <2>2. /\ i \in Incidents /\ rows[i] # None /\ h.request.ts \in DOMAIN messages
    BY <2>1, TheHandler
  <2>3. /\ load("slack", i, "human") /\ Goes(h, "decide")
        /\ UNCHANGED <<rows, parked, overdue, overlapped, otherVars>>
    BY <1>12, <2>1 DEF Decide
  <2>4. PICK e \in Decider \cup {None} :
            /\ deciders' = [deciders EXCEPT !["slack"] = e] /\ e # None
            /\ e.incident = i /\ (e.stage \in {"read", "write"} => parked[i] # None)
    BY <1>2, <2>2, <2>3, LoadGives DEF Decisions
  <2>5. PICK g : /\ handlers' = {g} /\ g \in Handler /\ g.request = h.request
                 /\ g.stage = "decide"
    BY <2>3, HandlerGoes
  <2>6. \A k \in handlers' : k.stage = "decide" =>
           /\ deciders'["slack"] # None
           /\ deciders'["slack"].incident = IncidentOf(k.request)
    BY <1>1, <1>2, <2>1, <2>4, <2>5
  <2>7. /\ handlers' \subseteq Handler /\ OneAtATime'
        /\ \A k \in handlers' : /\ k.stage \notin {"update", "write"}
                                /\ k.request.ts \in DOMAIN messages
    BY <2>2, <2>5 DEF OneAtATime
  <2>8. /\ rows[e.incident] # None
        /\ e.stage \in {"read", "write"} => e.incident \in promoted
    BY <1>2, <2>2, <2>4
  <2> QED
    BY <1>1, <1>2, <2>3, <2>4, <2>6, <2>7, <2>8, MoveKeeps DEF otherVars
<1>13. ASSUME NEW h \in handlers, Resume(h) PROVE Inv'
  <2>1. /\ deciders' = [deciders EXCEPT !["slack"] = None]
        /\ UNCHANGED <<rows, parked, overdue, overlapped, otherVars>>
        /\ Goes(h, "refresh") \/ Goes(h, "note") \/ Ends(h)
    BY <1>13 DEF Resume
  <2>2. h.request.ts \in DOMAIN messages
    BY TheHandler
  <2>3. /\ handlers' \subseteq Handler /\ OneAtATime'
        /\ \A k \in handlers' : /\ k.stage \notin {"update", "write", "decide"}
                                /\ k.request.ts \in DOMAIN messages
    <3>1. CASE Goes(h, "refresh") \/ Goes(h, "note")
      <4>1. PICK g : /\ handlers' = {g} /\ g \in Handler /\ g.request = h.request
                     /\ g.stage \in {"refresh", "note"}
        BY <3>1, HandlerGoes
      <4> QED
        BY <2>2, <4>1 DEF OneAtATime
    <3>2. CASE Ends(h)
      BY <3>2, HandlerGoes DEF OneAtATime
    <3> QED
      BY <2>1, <3>1, <3>2
  <2>4. PICK e : e \in Decider \cup {None} /\ e = None
    OBVIOUS
  <2>5. deciders' = [deciders EXCEPT !["slack"] = e]
    BY <2>1, <2>4
  <2> QED
    BY <1>1, <1>2, <2>1, <2>3, <2>4, <2>5, MoveKeeps DEF otherVars
<1> QED
  BY <1>4, <1>5, <1>6, <1>7, <1>8, <1>9, <1>10, <1>11, <1>12, <1>13 DEF DecisionStep

-----------------------------------------------------------------------------
(* Every other step of the loop's handler (slack_interactions).            *)
LEMMA HandlerKeeps ==
    ASSUME Inv, NEW h \in handlers,
           \/ AskAgain(h) \/ CheckLabel(h) \/ UpdateLabel(h) \/ Note(h)
           \/ \E answered \in BOOLEAN : OpenView(h, answered)
    PROVE  Inv'
<1>1. PICK i : i = IncidentOf(h.request)
  OBVIOUS
<1>2. /\ h \in Handler /\ h.request.ts \in DOMAIN messages
      /\ i \in Incidents /\ rows[i] # None /\ rows[i] \in SlackRow
  BY <1>1, TheHandler
<1>3. /\ promoted' = promoted /\ messages' = messages /\ works' = works
      /\ inbox' = inbox /\ labels' = labels /\ posted' = posted
      /\ restarted' = restarted /\ parked' = parked /\ deciders' = deciders
      /\ overdue' = overdue /\ overlapped' = overlapped
  BY DEF AskAgain, CheckLabel, UpdateLabel, Note, OpenView, otherVars, decisionVars
<1>4. modals' \subseteq [ts: DOMAIN messages, view: Views]
  BY <1>2 DEF AskAgain, CheckLabel, UpdateLabel, Note, OpenView, otherVars, Inv, Types
<1>5. /\ Inv /\ Types /\ \A request \in inbox' : request.ts \in DOMAIN messages
      /\ \A l \in labels' : rows[l.incident] # None
      /\ ~posted' => ~posted /\ labels' = {}
      /\ \A t \in Deciders : deciders'[t] # None =>
            /\ rows[deciders'[t].incident] # None
            /\ deciders'[t].stage \in {"read", "write"} => deciders'[t].incident \in promoted
      /\ \A j \in overdue' : rows[j] # None
      /\ \A j \in Incidents : parked'[j] # None => parked[j] # None
  BY <1>3 DEF Inv, Known, RatesFirst, ShadowIsNotAsked
<1>6. ASSUME rows' = rows,
             handlers' = {} \/ (Goes(h, "note") /\ handlers' # {})
                \/ /\ Goes(h, "write") /\ Labelable(i, h.request.action)
                   /\ h.request.action \in Ratings \cup {"cause"}
      PROVE  Inv'
  <2>1. /\ Types' /\ OneAtATime'
        /\ \A g \in handlers' :
              /\ g.stage # "update" /\ g.stage # "decide"
              /\ g.request.ts \in DOMAIN messages
              /\ g.stage = "write" => g.request.action \in Ratings \cup {"cause"}
              /\ g.stage = "write" /\ g.request.action \in Ratings =>
                    rows'[IncidentOf(g.request)].rating = None
    <3>1. CASE handlers' = {}
      BY <1>3, <1>4, <1>6, <3>1 DEF Inv, Types, OneAtATime
    <3>2. CASE Goes(h, "note")
      <4>1. PICK g : /\ handlers' = {g} /\ g \in Handler /\ g.request = h.request
                     /\ g.stage = "note"
        BY <3>2, HandlerGoes
      <4> QED
        BY <1>2, <1>3, <1>4, <1>6, <4>1 DEF Inv, Types, OneAtATime
    <3>3. CASE /\ Goes(h, "write") /\ Labelable(i, h.request.action)
               /\ h.request.action \in Ratings \cup {"cause"}
      <4>1. PICK g : /\ handlers' = {g} /\ g \in Handler /\ g.request = h.request
                     /\ g.stage = "write"
        BY <3>3, HandlerGoes
      <4>2. h.request.action \in Ratings => rows[i].rating = None
        BY <3>3 DEF Labelable, Ratings
      <4>3. Types' /\ OneAtATime'
        BY <1>3, <1>4, <1>6, <4>1 DEF Inv, Types, OneAtATime
      <4> QED
        BY <1>1, <1>2, <1>3, <1>6, <3>3, <4>1, <4>2, <4>3 DEF IncidentOf
    <3> QED
      BY <1>6, <3>1, <3>2, <3>3
  <2>2. \A j \in Incidents \ promoted : rows'[j] # None => rows'[j].decision = None
    BY <1>6 DEF Inv, ShadowIsNotAsked
  <2> QED
    BY <1>3, <1>5, <1>6, <2>1, <2>2, InvFrame
<1>7. CASE AskAgain(h) \/ Note(h) \/ \E answered \in BOOLEAN : OpenView(h, answered)
  BY <1>6, <1>7, HandlerGoes DEF AskAgain, Note, OpenView
<1>8. CASE CheckLabel(h)
  BY <1>1, <1>6, <1>8, HandlerGoes DEF CheckLabel
<1>9. CASE UpdateLabel(h)
  <2>1. /\ h.stage = "write" /\ Label(i, h.request.action) /\ Goes(h, "refresh")
        /\ h.request.action \in Ratings \cup {"cause"}
    BY <1>1, <1>9 DEF UpdateLabel, Inv, Known
  <2>2. PICK g : /\ handlers' = {g} /\ g \in Handler /\ g.request = h.request
                 /\ g.stage = "refresh"
    BY <2>1, HandlerGoes
  <2>3. /\ OneAtATime'
        /\ \A k \in handlers' : /\ k.stage = "refresh" /\ k.request.ts \in DOMAIN messages
    BY <1>2, <2>2 DEF OneAtATime
  <2>4. Types'
    BY <1>2, <1>3, <1>4, <2>1, <2>2, LabelRows DEF Inv, Types
  <2> QED
    BY <1>2, <1>3, <1>5, <2>1, <2>3, <2>4, LabelRows, InvFrame
<1> QED
  BY <1>7, <1>8, <1>9

(* Every other step: the JSON endpoints, humans, Slack, a restart.         *)
LEMMA OthersKeep ==
    ASSUME Inv,
           \/ \E i \in Incidents, label \in Ratings \cup {"cause"} : PostLabel(i, label)
           \/ \E l \in labels : WriteLabel(l)
           \/ \E ts \in DOMAIN messages, button \in Buttons : Click(ts, button)
           \/ \E m \in modals, blank \in BOOLEAN : Submit(m, blank)
           \/ \E request \in inbox : Refuse(request) \/ Take(request)
           \/ Restart
    PROVE  Inv'
<1>1. \A j \in Incidents \ promoted : rows[j] # None => rows[j].decision = None
  BY DEF Inv, ShadowIsNotAsked
<1>2. /\ \A request \in inbox : request.ts \in DOMAIN messages
      /\ \A l \in labels : rows[l.incident] # None /\ l.incident \in Incidents
                           /\ l.label \in Ratings \cup {"cause"}
      /\ ~posted => labels = {}
  BY DEF Inv, Known, RatesFirst, Types
<1>3. decisionVars' = decisionVars =>
         /\ \A t \in Deciders : deciders'[t] # None =>
               /\ rows[deciders'[t].incident] # None
               /\ deciders'[t].stage \in {"read", "write"}
                  => deciders'[t].incident \in promoted
         /\ \A i \in overdue' : rows[i] # None
         /\ \A i \in Incidents : parked'[i] # None => parked[i] # None
  BY DEF Inv, Known, ShadowIsNotAsked, decisionVars
<1>4. decisionVars' = decisionVars =>
         \A h \in handlers : h.stage = "decide" =>
            /\ deciders'["slack"] # None
            /\ deciders'["slack"].incident = IncidentOf(h.request)
  BY DEF Inv, SlackDecides, decisionVars
<1>6. ASSUME NEW i \in Incidents, NEW label \in Ratings \cup {"cause"},
             PostLabel(i, label)
      PROVE  Inv'
  <2>1. /\ UNCHANGED <<promoted, rows, decisionVars, works, messages, modals, inbox,
                       handlers, restarted>>
        /\ posted' = TRUE /\ rows[i] # None
        /\ labels' = labels \cup {[incident |-> i, label |-> label]}
    BY <1>6 DEF PostLabel, Labelable
  <2>2. Types' /\ OneAtATime'
    BY <2>1 DEF Inv, Types, OneAtATime, decisionVars
  <2> QED
    BY <1>1, <1>2, <1>3, <1>4, <2>1, <2>2, InvFrame
<1>7. ASSUME NEW l \in labels, WriteLabel(l)
      PROVE  Inv'
  <2>1. /\ UNCHANGED <<promoted, decisionVars, works, messages, modals, inbox, handlers,
                       posted, restarted>>
        /\ Label(l.incident, l.label) /\ labels' \subseteq labels /\ posted
    BY <1>2, <1>7 DEF WriteLabel
  <2>2. Types' /\ OneAtATime'
    BY <1>2, <2>1, LabelRows DEF Inv, Types, OneAtATime, decisionVars
  <2>3. \A k \in labels' : rows[k.incident] # None
    BY <1>2, <2>1
  <2> QED
    BY <1>2, <1>3, <1>4, <2>1, <2>2, <2>3, LabelRows, InvFrame
<1>8. ASSUME NEW request \in Interaction, request.ts \in DOMAIN messages, Sent(request)
      PROVE  Inv'
  <2>1. /\ UNCHANGED <<promoted, rows, decisionVars, works, messages, modals, handlers,
                       labels, posted, restarted>>
        /\ inbox' = inbox \cup {request}
    BY <1>8 DEF Sent
  <2>2. Types' /\ OneAtATime'
    BY <1>8, <2>1 DEF Inv, Types, OneAtATime, decisionVars
  <2> QED
    BY <1>1, <1>2, <1>3, <1>4, <1>8, <2>1, <2>2, InvFrame
<1>9. \A ts \in DOMAIN messages : ts \in Nat
  BY LenProperties DEF Inv, Types
<1>10. ASSUME NEW ts \in DOMAIN messages, NEW button \in Buttons, Click(ts, button)
       PROVE  Inv'
  <2>1. [ts |-> ts, action |-> button, view |-> FALSE, blank |-> FALSE] \in Interaction
    BY <1>9 DEF Interaction
  <2> QED
    BY <1>8, <1>10, <2>1 DEF Click
<1>11. ASSUME NEW m \in modals, NEW blank \in BOOLEAN, Submit(m, blank)
       PROVE  Inv'
  <2>1. m.ts \in DOMAIN messages /\ m.view \in Views
    BY DEF Inv, Types
  <2>2. [ts |-> m.ts, action |-> m.view, view |-> TRUE, blank |-> blank] \in Interaction
    BY <1>9, <2>1 DEF Interaction, Buttons, Views
  <2> QED
    BY <1>8, <1>11, <2>1, <2>2 DEF Submit
<1>12. ASSUME NEW request \in inbox, Refuse(request) \/ Take(request)
       PROVE  Inv'
  <2>1. /\ UNCHANGED <<promoted, rows, decisionVars, works, messages, modals, labels,
                       posted, restarted>>
        /\ inbox' \subseteq inbox
    BY <1>12 DEF Refuse, Take
  <2>2. \/ handlers' = handlers
        \/ \E h \in Handler : handlers' = {h} /\ h.stage = "act" /\ h.request = request
    <3>1. CASE Refuse(request)
      BY <3>1 DEF Refuse
    <3>2. CASE Take(request)
      <4>1. [request |-> request, stage |-> "act", row |-> None] \in Handler
        BY DEF Inv, Types, Handler
      <4> QED
        BY <3>2, <4>1 DEF Take, LoopIsFree
    <3> QED
      BY <1>12, <3>1, <3>2
  <2>3. Types' /\ OneAtATime'
    BY <2>1, <2>2 DEF Inv, Types, OneAtATime, decisionVars
  <2>4. \A h \in handlers' : h \in handlers
           \/ (h.stage = "act" /\ h.request.ts \in DOMAIN messages)
    BY <1>2, <2>2
  <2> QED
    BY <1>1, <1>2, <1>3, <1>4, <2>1, <2>3, <2>4, InvFrame
<1>13. CASE Restart
  <2>1. /\ UNCHANGED <<promoted, rows, messages, modals, posted>>
        /\ works' = {} /\ inbox' = {} /\ handlers' = {} /\ labels' = {}
        /\ deciders' = [t \in Deciders |-> None] /\ overdue' = {}
        /\ overlapped' = overlapped
        /\ parked' = IF Durable THEN parked ELSE [i \in Incidents |-> None]
    BY <1>13 DEF Restart
  <2>2. Types' /\ OneAtATime'
    BY <2>1 DEF Inv, Types, OneAtATime
  <2>3. /\ \A i \in Incidents : parked'[i] # None => parked[i] # None
        /\ \A t \in Deciders : deciders'[t] = None
    BY <2>1
  <2> QED
    BY <1>1, <1>2, <2>1, <2>2, <2>3, InvFrame
<1> QED
  BY <1>6, <1>7, <1>10, <1>11, <1>12, <1>13

-----------------------------------------------------------------------------
(* The steps of MessagesNext, one disjunct for each kind                   *)
LEMMA Steps ==
    ASSUME [MessagesNext]_slackVars
    PROVE  \/ \E i \in Incidents, outcome \in Outcomes : Verdict(i, outcome)
           \/ \E w \in works : register(w)
           \/ \E w \in works, answered \in BOOLEAN : deliver(w, answered)
           \/ \E h \in handlers : ReadRow(h)
           \/ \E h \in handlers, answered \in BOOLEAN : Update(h, answered)
           \/ \E h \in handlers :
                 \/ AskAgain(h) \/ CheckLabel(h) \/ UpdateLabel(h) \/ Note(h)
                 \/ \E answered \in BOOLEAN : OpenView(h, answered)
           \/ DecisionStep
           \/ \E i \in Incidents, label \in Ratings \cup {"cause"} : PostLabel(i, label)
           \/ \E l \in labels : WriteLabel(l)
           \/ \E ts \in DOMAIN messages, button \in Buttons : Click(ts, button)
           \/ \E m \in modals, blank \in BOOLEAN : Submit(m, blank)
           \/ \E request \in inbox : Refuse(request) \/ Take(request)
           \/ Restart
           \/ UNCHANGED slackVars
<1>1. "slack" \in Deciders /\ "sweeper" \in Deciders /\ Threads \subseteq Deciders
  BY DEF Deciders
<1>2. CASE sweep
  BY <1>1, <1>2, Zenon DEF sweep, Decides, DecisionStep
<1>3. CASE \E t \in Threads : Decides(t)
  BY <1>1, <1>3 DEF Decides, DecisionStep
<1>4. CASE HandleAny
  <2>1. PICK h \in handlers : Handle(h)
    BY <1>4 DEF HandleAny
  <2>2. Decides("slack") => DecisionStep
    BY <1>1, Zenon DEF Decides, DecisionStep
  <2>3. Decide(h) \/ Resume(h) => DecisionStep
    BY Zenon DEF DecisionStep
  <2> QED
    BY <2>1, <2>2, <2>3, Zenon DEF Handle
<1>5. CASE (\E i \in Incidents : lapse(i))
           \/ \E t \in Threads, i \in Incidents : PostDecision(t, i)
  BY <1>5, Zenon DEF DecisionStep
<1> QED
  BY <1>2, <1>3, <1>4, <1>5, Zenon DEF MessagesNext, TakeAny

LEMMA InvStep == Inv /\ [MessagesNext]_slackVars => Inv'
<1> SUFFICES ASSUME Inv, [MessagesNext]_slackVars PROVE Inv'
  OBVIOUS
<1>1. CASE UNCHANGED slackVars
  BY <1>1 DEF slackVars, decisionVars, Inv, Types, Known, OneAtATime, SlackDecides,
              MessagesTold, ReadingTells, RatesFirst, ShadowIsNotAsked, Serial, IncidentOf
<1>2. CASE \E i \in Incidents, outcome \in Outcomes : Verdict(i, outcome)
  BY <1>2, VerdictKeeps
<1>3. CASE \E w \in works : register(w)
  BY <1>3, RegisterKeeps
<1>4. CASE \E w \in works, answered \in BOOLEAN : deliver(w, answered)
  BY <1>4, DeliverKeeps
<1>5. CASE \E h \in handlers : ReadRow(h)
  BY <1>5, ReadRowKeeps
<1>6. CASE \E h \in handlers, answered \in BOOLEAN : Update(h, answered)
  BY <1>6, UpdateKeeps
<1>7. CASE \E h \in handlers :
              \/ AskAgain(h) \/ CheckLabel(h) \/ UpdateLabel(h) \/ Note(h)
              \/ \E answered \in BOOLEAN : OpenView(h, answered)
  BY <1>7, HandlerKeeps
<1> QED
  BY <1>1, <1>2, <1>3, <1>4, <1>5, <1>6, <1>7, Steps, OthersKeep, DecisionKeeps, Zenon

(* The invariant holds in every state, whoever clicks and whatever fails.  *)
THEOREM MessagesInvariant == MessagesSpec => []Inv
<1> QED
  BY InvInit, InvStep, PTL DEF MessagesSpec

(* What is parked, shown, sent, handled and recorded has its type.         *)
THEOREM MessagesTypes == MessagesSpec => []MessagesTypeOK
<1>1. Inv => MessagesTypeOK
  BY DEF Inv, Types, MessagesTypeOK
<1> QED
  BY <1>1, MessagesInvariant, PTL

(* Nothing is ever decided about a type that is not promoted: no question  *)
(* is put about it (register), and nobody is about to write a decision of  *)
(* what was not asked (decide).                                            *)
THEOREM ShadowSafety == MessagesSpec => []ShadowIsNeverDecided
<1>1. Inv => ShadowIsNeverDecided
  BY DEF Inv, ShadowIsNotAsked, ShadowIsNeverDecided
<1> QED
  BY <1>1, MessagesInvariant, PTL

(* A decision sends and redraws nothing, and records no rating.            *)
LEMMA DecisionSends ==
    ASSUME Inv, DecisionStep
    PROVE  /\ UNCHANGED <<promoted, works, messages, restarted, overlapped>>
           /\ \A i \in Incidents : /\ rows[i] # None => rows'[i].serial = rows[i].serial
                                  /\ rows'[i].rating = rows[i].rating
<1>1. rows \in [Incidents -> SlackRow \cup {None}]
  BY DEF Inv, Types
<1>2. ASSUME NEW t \in Deciders, labelWrite(t)
      PROVE  \A i \in Incidents : /\ rows[i] # None => rows'[i].serial = rows[i].serial
                                 /\ rows'[i].rating = rows[i].rating
  <2>1. PICK i, next : /\ rows' = [rows EXCEPT ![i] = next]
                       /\ next.serial = rows[i].serial /\ next.rating = rows[i].rating
    BY <1>2, WriteGives
  <2> QED
    BY <1>1, <2>1
<1>3. CASE \E t \in Deciders : labelWrite(t)
  BY <1>2, <1>3 DEF labelWrite, otherVars
<1>4. CASE \/ \E i \in Incidents : lapse(i)
           \/ \E t \in Threads, i \in Incidents : PostDecision(t, i)
           \/ \E t \in Deciders : labelRead(t) \/ clear(t)
           \/ list \/ discard \/ \E i \in Incidents : expire(i)
           \/ \E h \in handlers : Decide(h) \/ Resume(h)
  BY <1>4 DEF lapse, PostDecision, labelRead, clear, list, discard, expire, Decide, Resume,
              otherVars
<1> QED
  BY <1>3, <1>4, Zenon DEF DecisionStep

(* What a step does to the messages: they stay, one is added, or one is    *)
(* redrawn from what was read (SlackSink.deliver, SlackSink.refresh).      *)
LEMMA MessagesStep ==
    ASSUME Inv, [MessagesNext]_slackVars, NEW ts \in DOMAIN messages
    PROVE  \/ messages'[ts] = messages[ts]
           \/ /\ messages'[ts].buttons = {}
              /\ messages'[ts].serial = messages[ts].serial =>
                    messages[ts].status \ {"recorded"} \subseteq messages'[ts].status
<1>1. messages \in Seq(Message)
  BY DEF Inv, Types
<1>2. CASE \E w \in works, answered \in BOOLEAN : deliver(w, answered)
  <2>1. PICK m : messages' = messages \/ messages' = Append(messages, m)
    BY <1>2 DEF deliver
  <2> QED
    BY <1>1, <2>1
<1>3. CASE \E h \in handlers, answered \in BOOLEAN : Update(h, answered)
  <2>1. PICK h \in handlers, answered \in BOOLEAN : Update(h, answered)
    BY <1>3
  <2>2. PICK m : m = refresh(IncidentOf(h.request), h.row)
    OBVIOUS
  <2>3. /\ h.request.ts \in DOMAIN messages /\ IncidentOf(h.request) \in Incidents
        /\ h.row # None /\ h.row \in SlackRow
        /\ Tells(messages[h.request.ts].serial, messages[h.request.ts].status, h.row)
    BY <2>1, TheHandler DEF Update, Inv, ReadingTells, Handler
  <2>4. /\ m.buttons = {} /\ m.serial = h.row.serial
        /\ m.status \ {"recorded"} = render_status(h.row)
    BY <2>2, <2>3, RecordOffersNothing
  <2>5. messages' = messages \/ messages' = [messages EXCEPT ![h.request.ts] = m]
    BY <2>1, <2>2 DEF Update
  <2>6. messages'[ts] = messages[ts] \/ (ts = h.request.ts /\ messages'[ts] = m)
    BY <1>1, <2>3, <2>5
  <2> QED
    BY <2>3, <2>4, <2>6 DEF Tells
<1>4. ASSUME messages' = messages
      PROVE  messages'[ts] = messages[ts]
  BY <1>4
<1>5. CASE UNCHANGED slackVars
  BY <1>5 DEF slackVars
<1>6. CASE \/ \E i \in Incidents, outcome \in Outcomes : Verdict(i, outcome)
           \/ \E w \in works : register(w)
           \/ \E h \in handlers :
                 \/ ReadRow(h) \/ AskAgain(h) \/ CheckLabel(h)
                 \/ UpdateLabel(h) \/ Note(h)
                 \/ \E answered \in BOOLEAN : OpenView(h, answered)
           \/ \E i \in Incidents, label \in Ratings \cup {"cause"} : PostLabel(i, label)
           \/ \E l \in labels : WriteLabel(l)
           \/ \E t \in DOMAIN messages, button \in Buttons : Click(t, button)
           \/ \E m \in modals, blank \in BOOLEAN : Submit(m, blank)
           \/ \E request \in inbox : Refuse(request) \/ Take(request)
           \/ Restart
  BY <1>4, <1>6 DEF Verdict, register, ReadRow, AskAgain, CheckLabel, UpdateLabel,
        Note, OpenView, PostLabel, WriteLabel, Click, Submit, Sent, Refuse, Take, Restart,
        otherVars
<1>7. CASE DecisionStep
  BY <1>4, <1>7, DecisionSends
<1> QED
  BY <1>2, <1>3, <1>5, <1>6, <1>7, Steps, Zenon

(* A message that is redrawn offers nothing any more.                      *)
THEOREM RecordSafety == MessagesSpec => RecordsOfferNothing
<1>1. Inv /\ [MessagesNext]_slackVars =>
          [\A ts \in DOMAIN messages :
              messages'[ts] # messages[ts] => messages'[ts].buttons = {}]_slackVars
  BY MessagesStep
<1> QED
  BY <1>1, MessagesInvariant, PTL DEF MessagesSpec, RecordsOfferNothing

(* A message never takes back what it told of a verdict.                   *)
THEOREM TellingSafety == MessagesSpec => NothingIsUntold
<1>1. Inv /\ [MessagesNext]_slackVars =>
          [\A ts \in DOMAIN messages :
              messages'[ts].serial = messages[ts].serial =>
                  messages[ts].status \ {"recorded"} \subseteq messages'[ts].status]_slackVars
  BY MessagesStep
<1> QED
  BY <1>1, MessagesInvariant, PTL DEF MessagesSpec, NothingIsUntold

(* Through Slack alone a rating that is given stays: the check of the one  *)
(* that is written and its UPDATE are not separated by another's.          *)
THEOREM RatingSafety == MessagesSpec => RatedOnce
<1>1. ASSUME Inv, [MessagesNext]_slackVars, ~posted, NEW i \in Incidents,
             rows[i] # None, rows[i].rating # None, rows'[i].serial = rows[i].serial
      PROVE  rows'[i].rating = rows[i].rating
  <2>1. rows \in [Incidents -> SlackRow \cup {None}] /\ rows[i] \in SlackRow
    BY <1>1 DEF Inv, Types
  <2>3. CASE \E j \in Incidents, outcome \in Outcomes : Verdict(j, outcome)
    <3>1. PICK j, next : /\ j \in Incidents /\ rows' = [rows EXCEPT ![j] = next]
                         /\ next.serial = Serial(j) + 1
      <4>1. PICK j \in Incidents, outcome \in Outcomes : Verdict(j, outcome)
        BY <2>3
      <4>2. PICK next : next = [serial |-> Serial(j) + 1, outcome |-> outcome,
                                rating |-> None, decision |-> None, cause |-> FALSE]
        OBVIOUS
      <4>3. next.serial = Serial(j) + 1
        BY <4>2
      <4>4. rows' = [rows EXCEPT ![j] = next]
        BY <4>1, <4>2, Zenon DEF Verdict
      <4> QED
        BY <4>3, <4>4
    <3>2. Serial(i) = rows[i].serial /\ rows[i].serial \in Nat
      BY <1>1, <2>1 DEF Serial, SlackRow
    <3> QED
      BY <1>1, <2>1, <3>1, <3>2
  <2>4. CASE DecisionStep
    BY <1>1, <2>4, DecisionSends
  <2>6. CASE \E h \in handlers : UpdateLabel(h)
    <3>1. PICK h \in handlers : UpdateLabel(h)
      BY <2>6
    <3>2. PICK j : j = IncidentOf(h.request)
      OBVIOUS
    <3>3. /\ j \in Incidents /\ rows[j] \in SlackRow /\ h.stage = "write"
          /\ h.request.action \in Ratings \cup {"cause"} /\ Label(j, h.request.action)
      BY <1>1, <3>1, <3>2, TheHandler DEF UpdateLabel, Inv, Known
    <3>4. CASE h.request.action = "cause"
      <4>1. PICK next : next = [rows[j] EXCEPT !.cause = TRUE]
        OBVIOUS
      <4>2. next.rating = rows[j].rating
        BY <3>3, <4>1, CauseGrows
      <4>3. rows' = [rows EXCEPT ![j] = next]
        BY <3>3, <3>4, <4>1 DEF Label
      <4> QED
        BY <2>1, <4>2, <4>3
    <3>5. CASE h.request.action \in Ratings
      <4>1. rows[j].rating = None
        BY <1>1, <3>2, <3>3, <3>5 DEF Inv, RatesFirst
      <4>2. PICK next : rows' = [rows EXCEPT ![j] = next]
        BY <3>3 DEF Label
      <4> QED
        BY <1>1, <2>1, <4>1, <4>2
    <3> QED
      BY <3>3, <3>4, <3>5
  <2>7. CASE \E l \in labels : WriteLabel(l)
    BY <1>1, <2>7 DEF Inv, RatesFirst
  <2>8. CASE \/ \E w \in works : register(w)
             \/ \E w \in works, answered \in BOOLEAN : deliver(w, answered)
             \/ \E h \in handlers, answered \in BOOLEAN : Update(h, answered)
             \/ \E h \in handlers :
                   \/ ReadRow(h) \/ AskAgain(h) \/ CheckLabel(h) \/ Note(h)
                   \/ \E answered \in BOOLEAN : OpenView(h, answered)
             \/ \E j \in Incidents, label \in Ratings \cup {"cause"} : PostLabel(j, label)
             \/ \E t \in DOMAIN messages, button \in Buttons : Click(t, button)
             \/ \E m \in modals, blank \in BOOLEAN : Submit(m, blank)
             \/ \E request \in inbox : Refuse(request) \/ Take(request)
             \/ Restart
             \/ UNCHANGED slackVars
    <3>1. rows' = rows
      BY <2>8 DEF register, deliver, Update, ReadRow, AskAgain, CheckLabel, Note, OpenView,
            PostLabel, Click, Submit, Sent, Refuse, Take, Restart, slackVars, otherVars
    <3> QED
      BY <3>1
  <2> QED
    BY <1>1, <2>3, <2>4, <2>6, <2>7, <2>8, Steps, Zenon
<1>2. Inv /\ [MessagesNext]_slackVars =>
          [~posted => \A i \in Incidents :
              /\ rows[i] # None /\ rows[i].rating # None
              /\ rows'[i].serial = rows[i].serial
              => rows'[i].rating = rows[i].rating]_slackVars
  BY <1>1
<1> QED
  BY <1>2, MessagesInvariant, PTL DEF MessagesSpec, RatedOnce

-----------------------------------------------------------------------------
(***************************************************************************)
(* Why an offer is kept. The question of a message that offers an approval *)
(* was put, and whoever deletes a question deletes one that is decided, or *)
(* that is not asked yet, or began before it was put.                      *)
(***************************************************************************)
Excused(i) ==
    \/ rows[i].decision # None
    \/ restarted /\ ~Durable
    \/ i \in overlapped

Put(i) == parked[i] # None \/ Excused(i)

(* The latest verdict has yet to be registered *)
Unput(i) ==
    \E w \in works : w.incident = i /\ w.serial = Serial(i) /\ w.stage = "recorded"

Closed(i) == parked[i] = None \/ Excused(i) \/ Unput(i)

WorksDiffer ==
    \A v, w \in works : v.incident = w.incident /\ v.serial = w.serial => v = w

WorksWerePut ==
    \A w \in works :
        w.stage = "registered" /\ Asks(w) /\ w.serial = Serial(w.incident)
        => Put(w.incident)

OffersWerePut ==
    \A ts \in DOMAIN messages : "approve" \in messages[ts].buttons =>
        /\ \A w \in works :
              w.incident = messages[ts].incident => w.serial # messages[ts].serial
        /\ messages[ts].serial = Serial(messages[ts].incident)
           => Put(messages[ts].incident)

DeletesClosed ==
    \A t \in Deciders :
        deciders[t] # None /\ deciders[t].stage \in {"clear", "discard"}
        => Closed(deciders[t].incident)

ListedLate == \A i \in overdue : parked[i] = "open" => Excused(i) \/ Unput(i)

Refusing == deciders["slack"].refused /\ deciders["slack"].stage \in {"clear", "done"}

RefusesExcused ==
    \A h \in handlers :
        /\ h.stage = "decide" /\ Refusing
        /\ "approve" \in messages[h.request.ts].buttons
        /\ messages[h.request.ts].serial = Serial(IncidentOf(h.request))
        => Excused(IncidentOf(h.request))

Offers ==
    /\ WorksDiffer /\ WorksWerePut /\ OffersWerePut
    /\ DeletesClosed /\ ListedLate /\ RefusesExcused

(* What a step may do that neither records, registers nor sends a verdict. *)
LEMMA OffersFrame ==
    ASSUME Inv, Inv', Offers,
           UNCHANGED <<promoted, works, restarted, overlapped>>,
           \A i \in Incidents : rows[i] # None =>
              /\ rows'[i] # None /\ rows'[i].serial = rows[i].serial
              /\ rows[i].decision # None => rows'[i].decision # None,
           DOMAIN messages' = DOMAIN messages,
           \A ts \in DOMAIN messages :
              \/ messages'[ts] = messages[ts]
              \/ messages'[ts].buttons = {}
                 /\ messages'[ts].incident = messages[ts].incident,
           \A i \in Incidents :
              /\ parked'[i] = "open" => parked[i] = "open"
              /\ parked[i] = None => parked'[i] = None
              /\ parked[i] # None /\ parked'[i] = None => Excused(i) \/ Unput(i),
           \A t \in Deciders :
              deciders'[t] # None /\ deciders'[t].stage \in {"clear", "discard"} =>
                 /\ rows[deciders'[t].incident] # None
                 /\ \/ parked'[deciders'[t].incident] = None
                    \/ rows'[deciders'[t].incident].decision # None
                    \/ Closed(deciders'[t].incident),
           \A i \in overdue' : i \in overdue \/ parked'[i] # "open",
           \A h \in handlers' : h.stage = "decide" /\ Refusing' =>
              \/ rows'[IncidentOf(h.request)].decision # None
              \/ parked[IncidentOf(h.request)] = None
              \/ h \in handlers /\ Refusing
    PROVE  Offers'
<1>1. /\ \A w \in works : /\ w.incident \in Incidents /\ rows[w.incident] # None
                          /\ w.serial \in Nat
      /\ \A ts \in DOMAIN messages :
            /\ messages[ts].incident \in Incidents
            /\ rows[messages[ts].incident] # None
      /\ \A i \in overdue : i \in Incidents /\ rows[i] # None
      /\ \A t \in Deciders : deciders'[t] # None => deciders'[t].incident \in Incidents
  <2>1. \A i \in overdue : i \in Incidents /\ rows[i] # None
    BY DEF Inv, Types, Known
  <2>2. \A t \in Deciders : deciders'[t] # None => deciders'[t].incident \in Incidents
    BY DEF Inv, Types, Decider
  <2>3. \A w \in works : /\ w.incident \in Incidents /\ rows[w.incident] # None
                         /\ w.serial \in Nat
    BY DEF Inv, Types, Work, Known
  <2>4. \A ts \in DOMAIN messages : messages[ts].incident \in Incidents
                                    /\ rows[messages[ts].incident] # None
    BY MessageAt DEF Inv, Known
  <2> QED
    BY <2>1, <2>2, <2>3, <2>4
<1>2. \A i \in Incidents : rows[i] # None =>
         /\ Serial(i)' = Serial(i)
         /\ Excused(i) => Excused(i)'
         /\ Unput(i)' <=> Unput(i)
  BY DEF Serial, Excused, Unput
<1>3. \A w \in works : Asks(w)' <=> Asks(w)
  BY DEF Asks
<1>4. WorksDiffer'
  BY DEF Offers, WorksDiffer
<1>5. WorksWerePut'
  <2> SUFFICES ASSUME NEW w \in works, w.stage = "registered", Asks(w),
                      w.serial = Serial(w.incident)
               PROVE  Put(w.incident)'
    BY <1>1, <1>2, <1>3 DEF WorksWerePut
  <2>1. Put(w.incident)
    BY DEF Offers, WorksWerePut
  <2>2. ~Unput(w.incident)
    BY <1>1 DEF Offers, WorksDiffer, Unput
  <2> QED
    BY <1>1, <1>2, <2>1, <2>2 DEF Put
<1>6. OffersWerePut'
  <2> SUFFICES ASSUME NEW ts \in DOMAIN messages', "approve" \in messages'[ts].buttons
               PROVE  /\ \A w \in works : w.incident = messages'[ts].incident
                                          => w.serial # messages'[ts].serial
                      /\ messages'[ts].serial = Serial(messages[ts].incident)'
                         => Put(messages[ts].incident)'
    BY DEF OffersWerePut
  <2>1. messages'[ts] = messages[ts] /\ ts \in DOMAIN messages
    OBVIOUS
  <2>2. PICK i : i = messages[ts].incident
    OBVIOUS
  <2>3. i \in Incidents /\ rows[i] # None
    BY <1>1, <2>1, <2>2
  <2>4. \A w \in works : w.incident = i => w.serial # messages[ts].serial
    BY <2>1, <2>2 DEF Offers, OffersWerePut
  <2>5. messages[ts].serial = Serial(i) => Put(i) /\ ~Unput(i)
    BY <2>1, <2>2, <2>4 DEF Offers, OffersWerePut, Unput
  <2>6. messages[ts].serial = Serial(i)' => Put(i)'
    BY <1>2, <2>3, <2>5 DEF Put
  <2>7. Serial(messages[ts].incident)' = Serial(i)' /\ Put(messages[ts].incident)' = Put(i)'
    BY <2>1, <2>2
  <2> QED
    BY <2>1, <2>2, <2>4, <2>6, <2>7
<1>7. DeletesClosed'
  BY <1>1, <1>2 DEF DeletesClosed, Closed, Excused
<1>8. ListedLate'
  <2> SUFFICES ASSUME NEW i \in overdue', parked'[i] = "open"
               PROVE  Excused(i)' \/ Unput(i)'
    BY DEF ListedLate
  <2>1. Excused(i) \/ Unput(i)
    BY <1>1 DEF Offers, ListedLate
  <2> QED
    BY <1>1, <1>2, <2>1
<1>9. RefusesExcused'
  <2> SUFFICES ASSUME NEW h \in handlers', h.stage = "decide", Refusing',
                      "approve" \in messages'[h.request.ts].buttons,
                      messages'[h.request.ts].serial = Serial(IncidentOf(h.request))'
               PROVE  Excused(IncidentOf(h.request))'
    BY DEF RefusesExcused
  <2>1. PICK ts : ts = h.request.ts
    OBVIOUS
  <2>2. ts \in DOMAIN messages
    BY <2>1 DEF Inv, Known
  <2>3. messages'[ts] = messages[ts]
    BY <2>1, <2>2
  <2>4. PICK i : i = messages[ts].incident
    OBVIOUS
  <2>5. /\ i \in Incidents /\ rows[i] # None
        /\ IncidentOf(h.request) = i /\ IncidentOf(h.request)' = i
    BY <1>1, <2>1, <2>2, <2>3, <2>4 DEF IncidentOf
  <2>6. Serial(i)' = Serial(i) /\ messages[ts].serial = Serial(i)
    BY <1>2, <2>1, <2>3, <2>5
  <2>7. CASE rows'[i].decision # None
    BY <2>5, <2>7 DEF Excused
  <2>8. CASE parked[i] = None
    BY <1>2, <2>1, <2>2, <2>3, <2>4, <2>5, <2>6, <2>8 DEF Offers, OffersWerePut, Put
  <2>9. CASE h \in handlers /\ Refusing
    BY <1>2, <2>1, <2>3, <2>5, <2>6, <2>9 DEF Offers, RefusesExcused
  <2> QED
    BY <2>5, <2>7, <2>8, <2>9
<1> QED
  BY <1>4, <1>5, <1>6, <1>7, <1>8, <1>9 DEF Offers

LEMMA OffersInit == MessagesInit => Offers
<1> SUFFICES ASSUME MessagesInit PROVE Offers
  OBVIOUS
<1>1. messages = <<>> /\ DOMAIN messages = {} /\ works = {} /\ overdue = {}
      /\ handlers = {} /\ \A t \in Deciders : deciders[t] = None
  BY DEF MessagesInit
<1> QED
  BY <1>1 DEF Offers, WorksDiffer, WorksWerePut, OffersWerePut, DeletesClosed,
              ListedLate, RefusesExcused

(* No question of the verdict that is recorded has been put (Ledger.record)*)
LEMMA OffersVerdict ==
    ASSUME Inv, Offers, NEW i \in Incidents, NEW outcome \in Outcomes, Verdict(i, outcome)
    PROVE  Offers'
<1>1. PICK next : next = [serial |-> Serial(i) + 1, outcome |-> outcome,
                          rating |-> None, decision |-> None, cause |-> FALSE]
  OBVIOUS
<1>2. PICK w : w = [incident |-> i, serial |-> Serial(i) + 1, outcome |-> outcome,
                    stage |-> "recorded"]
  OBVIOUS
<1>3. /\ w.incident = i /\ w.serial = Serial(i) + 1 /\ w.stage = "recorded"
      /\ next.serial = Serial(i) + 1 /\ Serial(i) \in Nat
      /\ rows \in [Incidents -> SlackRow \cup {None}]
  BY <1>1, <1>2 DEF Inv, Types, Serial, SlackRow
<1>4. /\ rows' = [rows EXCEPT ![i] = next] /\ works' = works \cup {w}
      /\ overlapped' = overlapped \ {i}
      /\ UNCHANGED <<promoted, parked, deciders, overdue, messages, handlers, restarted>>
  BY <1>1, <1>2, Zenon DEF Verdict
<1>5. next # None
  <2>1. next \in SlackRow
    BY <1>1, <1>3 DEF SlackRow
  <2> QED
    BY <2>1, MessagesAssumption
<1>6. /\ Serial(i)' = Serial(i) + 1
      /\ \A j \in Incidents : j # i => Serial(j)' = Serial(j) /\ (Excused(j) <=> Excused(j)')
      /\ \A j \in Incidents : j # i /\ Unput(j) => Unput(j)'
      /\ Unput(i)'
  <2>1. /\ Serial(i)' = Serial(i) + 1
        /\ \A j \in Incidents : j # i => Serial(j)' = Serial(j)
    BY <1>3, <1>4, <1>5 DEF Serial
  <2>2. \A j \in Incidents : j # i => (Excused(j) <=> Excused(j)')
    BY <1>3, <1>4 DEF Excused
  <2>3. \A j \in Incidents : j # i /\ Unput(j) => Unput(j)'
    BY <1>4, <2>1 DEF Unput
  <2>4. Unput(i)'
    BY <1>3, <1>4, <2>1 DEF Unput
  <2> QED
    BY <2>1, <2>2, <2>3, <2>4
<1>7. /\ \A v \in works : /\ v.incident \in Incidents /\ v.serial \in Nat
                          /\ v.serial <= Serial(v.incident)
      /\ \A ts \in DOMAIN messages :
            /\ messages[ts].incident \in Incidents /\ messages[ts].serial \in Nat
            /\ messages[ts].serial <= Serial(messages[ts].incident)
  <2>1. \A v \in works : /\ v.incident \in Incidents /\ v.serial \in Nat
                         /\ v.serial <= Serial(v.incident)
    BY DEF Inv, Types, Work, Known
  <2>2. \A ts \in DOMAIN messages :
            /\ messages[ts].incident \in Incidents /\ messages[ts].serial \in Nat
            /\ messages[ts].serial <= Serial(messages[ts].incident)
    BY MessageAt DEF Inv, Known, MessagesTold, Tells, Serial
  <2> QED
    BY <2>1, <2>2
<1>8. WorksDiffer'
  <2>1. \A v \in works : v.incident = i => v.serial # w.serial
    BY <1>3, <1>7
  <2> QED
    BY <1>3, <1>4, <2>1 DEF Offers, WorksDiffer
<1>9. WorksWerePut'
  <2> SUFFICES ASSUME NEW v \in works', v.stage = "registered", Asks(v)',
                      v.serial = Serial(v.incident)'
               PROVE  Put(v.incident)'
    BY DEF WorksWerePut
  <2>1. v \in works /\ Asks(v)
    BY <1>3, <1>4 DEF Asks
  <2>2. v.incident \in Incidents /\ v.incident # i
    BY <1>3, <1>6, <1>7, <2>1
  <2> QED
    BY <1>4, <1>6, <2>1, <2>2 DEF Offers, WorksWerePut, Put
<1>10. OffersWerePut'
  <2> SUFFICES ASSUME NEW ts \in DOMAIN messages, "approve" \in messages[ts].buttons
               PROVE  /\ \A v \in works' : v.incident = messages[ts].incident
                                           => v.serial # messages[ts].serial
                      /\ messages[ts].serial = Serial(messages[ts].incident)'
                         => Put(messages[ts].incident)'
    BY <1>4 DEF OffersWerePut
  <2>1. PICK j : j = messages[ts].incident
    OBVIOUS
  <2>2. j \in Incidents /\ messages[ts].serial <= Serial(j) /\ messages[ts].serial \in Nat
    BY <1>7, <2>1
  <2>3. \A v \in works' : v.incident = messages[ts].incident
                          => v.serial # messages[ts].serial
    BY <1>3, <1>4, <2>1, <2>2 DEF Offers, OffersWerePut
  <2>4. messages[ts].serial = Serial(j)' => Put(j)'
    BY <1>3, <1>4, <1>6, <2>1, <2>2 DEF Offers, OffersWerePut, Put
  <2>5. Serial(messages[ts].incident)' = Serial(j)' /\ Put(messages[ts].incident)' = Put(j)'
    BY <1>4, <2>1
  <2> QED
    BY <2>3, <2>4, <2>5
<1>11. DeletesClosed'
  <2>1. \A t \in Deciders : deciders[t] # None => deciders[t].incident \in Incidents
    BY DEF Inv, Types, Decider
  <2>2. \A j \in Incidents : Closed(j) => Closed(j)'
    BY <1>4, <1>6 DEF Closed
  <2> QED
    BY <1>4, <2>1, <2>2 DEF Offers, DeletesClosed
<1>12. ListedLate'
  BY <1>4, <1>6 DEF Offers, ListedLate, Inv, Types
<1>13. RefusesExcused'
  <2> SUFFICES ASSUME NEW h \in handlers, h.stage = "decide", Refusing,
                      "approve" \in messages[h.request.ts].buttons,
                      messages[h.request.ts].serial = Serial(IncidentOf(h.request))'
               PROVE  Excused(IncidentOf(h.request))'
    BY <1>4 DEF RefusesExcused, Refusing
  <2>1. PICK j : j = IncidentOf(h.request)
    OBVIOUS
  <2>2. h.request.ts \in DOMAIN messages /\ j = messages[h.request.ts].incident
    BY <2>1, TheHandler DEF IncidentOf
  <2>3. IncidentOf(h.request)' = j
    BY <1>4, <2>1 DEF IncidentOf
  <2>4. messages[h.request.ts].serial = Serial(j)'
    BY <2>3
  <2>5. j \in Incidents /\ j # i
    BY <1>3, <1>6, <1>7, <2>2, <2>4
  <2>6. messages[h.request.ts].serial = Serial(j)
    BY <1>6, <2>4, <2>5
  <2>7. Excused(j)
    BY <2>1, <2>6 DEF Offers, RefusesExcused
  <2> QED
    BY <1>6, <2>3, <2>5, <2>7
<1> QED
  BY <1>8, <1>9, <1>10, <1>11, <1>12, <1>13 DEF Offers

(* A question that is put while a decision on an earlier one is under way  *)
(* may be deleted by it; else it is there before its message (register).   *)
LEMMA OffersRegister ==
    ASSUME Inv, Offers, NEW w \in works, register(w)
    PROVE  Offers'
<1>1. PICK v : v = [w EXCEPT !.stage = "registered"]
  OBVIOUS
<1>2. PICK i : i = w.incident
  OBVIOUS
<1>3. /\ w \in Work /\ i \in Incidents /\ w.stage = "recorded"
      /\ v.incident = i /\ v.serial = w.serial /\ v.outcome = w.outcome
      /\ v.stage = "registered" /\ rows[i] # None
  BY <1>1, <1>2 DEF Inv, Types, Work, Known, register
<1>4. /\ works' = (works \ {w}) \cup {v}
      /\ parked' = IF Asks(w) THEN [parked EXCEPT ![i] = "open"] ELSE parked
      /\ overlapped' = overlapped \cup {j \in {i} : InHand(j)}
      /\ UNCHANGED <<promoted, rows, deciders, overdue, messages, handlers, restarted>>
  BY <1>1, <1>2 DEF register
<1>5. parked \in [Incidents -> {None, "open", "late"}]
  BY DEF Inv, Types
<1>6. /\ \A j \in Incidents : Serial(j)' = Serial(j)
      /\ \A j \in Incidents : Excused(j) => Excused(j)'
      /\ \A j \in Incidents : Put(j) => Put(j)'
      /\ Asks(w) => Put(i)'
      /\ InHand(i) => Excused(i)'
      /\ \A u \in works : Asks(u)' <=> Asks(u)
      /\ Asks(v)' <=> Asks(w)
      /\ \A j \in Incidents : j # i => parked'[j] = parked[j]
  <2>1. /\ \A j \in Incidents : Serial(j)' = Serial(j)
        /\ \A j \in Incidents : Excused(j) => Excused(j)'
        /\ \A j \in Incidents : j # i => parked'[j] = parked[j]
    BY <1>3, <1>4, <1>5 DEF Serial, Excused
  <2>2. (Asks(w) => parked'[i] # None) /\ (parked[i] # None => parked'[i] # None)
    BY <1>3, <1>4, <1>5, MessagesAssumption
  <2>3. (\A j \in Incidents : Put(j) => Put(j)') /\ (Asks(w) => Put(i)')
    BY <2>1, <2>2 DEF Put
  <2>4. InHand(i) => Excused(i)'
    BY <1>4 DEF Excused
  <2>5. (\A u \in works : Asks(u)' <=> Asks(u)) /\ (Asks(v)' <=> Asks(w))
    BY <1>2, <1>3, <1>4 DEF Asks
  <2> QED
    BY <2>1, <2>2, <2>3, <2>4, <2>5
<1>7. /\ \A u \in works : u.incident \in Incidents
      /\ \A ts \in DOMAIN messages : messages[ts].incident \in Incidents
  BY MessageAt DEF Inv, Types, Work
<1>8. WorksDiffer'
  BY <1>2, <1>3, <1>4 DEF Offers, WorksDiffer
<1>9. WorksWerePut'
  <2> SUFFICES ASSUME NEW u \in works', u.stage = "registered", Asks(u)',
                      u.serial = Serial(u.incident)'
               PROVE  Put(u.incident)'
    BY DEF WorksWerePut
  <2>1. CASE u = v
    BY <1>3, <1>6, <2>1
  <2>2. CASE u \in works
    BY <1>6, <1>7, <2>2 DEF Offers, WorksWerePut
  <2> QED
    BY <1>4, <2>1, <2>2
<1>10. OffersWerePut'
  <2> SUFFICES ASSUME NEW ts \in DOMAIN messages, "approve" \in messages[ts].buttons
               PROVE  /\ \A u \in works' : u.incident = messages[ts].incident
                                           => u.serial # messages[ts].serial
                      /\ messages[ts].serial = Serial(messages[ts].incident)'
                         => Put(messages[ts].incident)'
    BY <1>4 DEF OffersWerePut
  <2>1. PICK j : j = messages[ts].incident
    OBVIOUS
  <2>2. \A u \in works' : u.incident = messages[ts].incident
                          => u.serial # messages[ts].serial
    BY <1>2, <1>3, <1>4 DEF Offers, OffersWerePut
  <2>3. messages[ts].serial = Serial(j)' => Put(j)'
    BY <1>6, <1>7, <2>1 DEF Offers, OffersWerePut
  <2>4. Serial(messages[ts].incident)' = Serial(j)' /\ Put(messages[ts].incident)' = Put(j)'
    BY <1>4, <2>1
  <2> QED
    BY <2>2, <2>3, <2>4
<1>11. \A j \in Incidents : InHand(j) /\ Closed(j) => Closed(j)'
  <2>1. \A j \in Incidents : j # i /\ Unput(j) => Unput(j)'
    BY <1>2, <1>4, <1>6 DEF Unput
  <2> QED
    BY <1>6, <2>1 DEF Closed
<1>12. DeletesClosed'
  <2> SUFFICES ASSUME NEW t \in Deciders, deciders[t] # None,
                      deciders[t].stage \in {"clear", "discard"}
               PROVE  Closed(deciders[t].incident)'
    BY <1>4 DEF DeletesClosed
  <2>1. PICK j : j = deciders[t].incident
    OBVIOUS
  <2>2. j \in Incidents
    BY <2>1 DEF Inv, Types, Decider
  <2>3. InHand(j) /\ Closed(j)
    BY <2>1 DEF InHand, Offers, DeletesClosed
  <2>4. Closed(deciders[t].incident)' = Closed(j)'
    BY <1>4, <2>1
  <2> QED
    BY <1>11, <2>2, <2>3, <2>4
<1>13. ListedLate'
  <2> SUFFICES ASSUME NEW j \in overdue, parked'[j] = "open"
               PROVE  Excused(j)' \/ Unput(j)'
    BY <1>4 DEF ListedLate
  <2>1. InHand(j) /\ j \in Incidents
    BY DEF InHand, Inv, Types
  <2>2. j # i /\ Unput(j) => Unput(j)'
    BY <1>2, <1>4, <1>6, <2>1 DEF Unput
  <2> QED
    BY <1>6, <2>1, <2>2 DEF Offers, ListedLate
<1>14. RefusesExcused'
  <2> SUFFICES ASSUME NEW h \in handlers, h.stage = "decide", Refusing,
                      "approve" \in messages[h.request.ts].buttons,
                      messages[h.request.ts].serial = Serial(IncidentOf(h.request))'
               PROVE  Excused(IncidentOf(h.request))'
    BY <1>4 DEF RefusesExcused, Refusing
  <2>1. PICK j : j = IncidentOf(h.request) /\ j \in Incidents
    BY TheHandler
  <2>2. IncidentOf(h.request)' = j
    BY <1>4, <2>1 DEF IncidentOf
  <2>3. Excused(j)
    BY <1>6, <2>1, <2>2 DEF Offers, RefusesExcused
  <2> QED
    BY <1>6, <2>1, <2>2, <2>3
<1> QED
  BY <1>8, <1>9, <1>10, <1>12, <1>13, <1>14 DEF Offers

(* A message offers an approval only if its question was put               *)
(* (SlackSink.deliver).                                                    *)
LEMMA OffersDeliver ==
    ASSUME Inv, Offers, NEW w \in works, NEW answered \in BOOLEAN, deliver(w, answered)
    PROVE  Offers'
<1>1. PICK m : m = [incident |-> w.incident, serial |-> w.serial, status |-> {},
                    buttons |-> render_blocks(w.incident \in promoted, w.outcome, {})]
  OBVIOUS
<1>2. /\ w \in Work /\ w.stage = "registered" /\ works' = works \ {w}
      /\ messages' = IF ~answered THEN messages ELSE Append(messages, m)
      /\ UNCHANGED <<promoted, rows, parked, deciders, overdue, overlapped, handlers,
                     restarted>>
  BY <1>1 DEF deliver, decisionVars, Inv, Types
<1>3. "approve" \in m.buttons => Asks(w)
  BY <1>1, <1>2 DEF render_blocks, Asks, Ratings, Outcomes, Work
<1>4. m.incident = w.incident /\ m.serial = w.serial
  BY <1>1
<1>5. messages \in Seq(Message)
  BY DEF Inv, Types
<1>6. /\ \A ts \in DOMAIN messages : ts \in DOMAIN messages' /\ messages'[ts] = messages[ts]
      /\ \A ts \in DOMAIN messages' : ts \in DOMAIN messages \/ messages'[ts] = m
  BY <1>2, <1>5
<1>7. /\ \A j \in Incidents : /\ Serial(j)' = Serial(j)
                              /\ Excused(j)' <=> Excused(j)
                              /\ Put(j)' <=> Put(j)
                              /\ Unput(j) => Unput(j)'
      /\ \A u \in works : u.incident \in Incidents /\ (Asks(u)' <=> Asks(u))
  BY <1>2 DEF Serial, Excused, Put, Unput, Asks, Inv, Types, Work
<1>8. WorksDiffer' /\ WorksWerePut'
  BY <1>2, <1>7 DEF Offers, WorksDiffer, WorksWerePut
<1>9. OffersWerePut'
  <2> SUFFICES ASSUME NEW ts \in DOMAIN messages', "approve" \in messages'[ts].buttons
               PROVE  /\ \A u \in works' : u.incident = messages'[ts].incident
                                           => u.serial # messages'[ts].serial
                      /\ messages'[ts].serial = Serial(messages[ts].incident)'
                         => Put(messages[ts].incident)'
    BY DEF OffersWerePut
  <2>1. PICK j : j = messages'[ts].incident
    OBVIOUS
  <2>2. Serial(messages[ts].incident)' = Serial(j)' /\ Put(messages[ts].incident)' = Put(j)'
    BY <2>1
  <2>3. CASE ts \in DOMAIN messages
    <3>1. messages'[ts] = messages[ts] /\ j \in Incidents
      BY <1>6, <2>1, <2>3, MessageAt DEF Inv
    <3> QED
      BY <1>2, <1>7, <2>1, <2>2, <2>3, <3>1 DEF Offers, OffersWerePut
  <2>4. CASE messages'[ts] = m
    <3>1. Asks(w) /\ j = w.incident /\ j \in Incidents
      BY <1>3, <1>4, <1>7, <2>1, <2>4
    <3>2. \A u \in works' : u.incident = j => u.serial # w.serial
      BY <1>2, <3>1 DEF Offers, WorksDiffer
    <3>3. w.serial = Serial(j) => Put(j)
      BY <1>2, <3>1 DEF Offers, WorksWerePut
    <3> QED
      BY <1>4, <1>7, <2>1, <2>2, <2>4, <3>1, <3>2, <3>3
  <2> QED
    BY <1>6, <2>3, <2>4
<1>10. DeletesClosed'
  <2>1. \A t \in Deciders : deciders[t] # None => deciders[t].incident \in Incidents
    BY DEF Inv, Types, Decider
  <2>2. \A j \in Incidents : Closed(j) => Closed(j)'
    BY <1>2, <1>7 DEF Closed
  <2> QED
    BY <1>2, <2>1, <2>2 DEF Offers, DeletesClosed
<1>11. ListedLate'
  BY <1>2, <1>7 DEF Offers, ListedLate, Inv, Types
<1>12. RefusesExcused'
  <2> SUFFICES ASSUME NEW h \in handlers, h.stage = "decide", Refusing,
                      "approve" \in messages'[h.request.ts].buttons,
                      messages'[h.request.ts].serial = Serial(IncidentOf(h.request))'
               PROVE  Excused(IncidentOf(h.request))'
    BY <1>2 DEF RefusesExcused, Refusing
  <2>1. PICK j : j = IncidentOf(h.request) /\ j \in Incidents
    BY TheHandler
  <2>2. messages'[h.request.ts] = messages[h.request.ts]
    BY <1>6, TheHandler
  <2>3. IncidentOf(h.request)' = j
    BY <2>1, <2>2 DEF IncidentOf
  <2>4. Excused(j)
    BY <1>7, <2>1, <2>2, <2>3 DEF Offers, RefusesExcused
  <2> QED
    BY <1>7, <2>1, <2>3, <2>4
<1> QED
  BY <1>8, <1>9, <1>10, <1>11, <1>12 DEF Offers

(* A restart decides nothing further, and what it loses is excused         *)
LEMMA OffersRestart == ASSUME Inv, Offers, Restart PROVE Offers'
<1>1. /\ UNCHANGED <<promoted, rows, overlapped, messages>>
      /\ works' = {} /\ handlers' = {} /\ overdue' = {} /\ restarted' = TRUE
      /\ deciders' = [t \in Deciders |-> None]
      /\ parked' = IF Durable THEN parked ELSE [i \in Incidents |-> None]
  BY DEF Restart
<1>2. \A j \in Incidents : Serial(j)' = Serial(j) /\ (Put(j) => Put(j)')
  BY <1>1, MessagesAssumption DEF Serial, Put, Excused
<1>3. OffersWerePut'
  <2> SUFFICES ASSUME NEW ts \in DOMAIN messages, "approve" \in messages[ts].buttons
               PROVE  messages[ts].serial = Serial(messages[ts].incident)'
                      => Put(messages[ts].incident)'
    BY <1>1 DEF OffersWerePut
  <2>1. PICK j : j = messages[ts].incident /\ j \in Incidents
    BY MessageAt DEF Inv
  <2>2. Serial(messages[ts].incident)' = Serial(j)' /\ Put(messages[ts].incident)' = Put(j)'
    BY <1>1, <2>1
  <2> QED
    BY <1>2, <2>1, <2>2 DEF Offers, OffersWerePut
<1> QED
  BY <1>1, <1>3 DEF Offers, WorksDiffer, WorksWerePut, DeletesClosed, ListedLate,
                    RefusesExcused

(* A decision deletes a question that is decided, or that was put while it *)
(* was under way, or none; the sweep deletes none that is open and was not *)
(* put after it was listed (decide, expire_overdue).                       *)
LEMMA OffersDecision == ASSUME Inv, Inv', Offers, DecisionStep PROVE Offers'
<1>1. /\ rows \in [Incidents -> SlackRow \cup {None}]
      /\ parked \in [Incidents -> {None, "open", "late"}]
      /\ deciders \in [Deciders -> Decider \cup {None}] /\ overdue \subseteq Incidents
      /\ "slack" \in Deciders /\ "sweeper" \in Deciders /\ Threads \subseteq Deciders
  BY DEF Inv, Types, Deciders
<1>2. /\ UNCHANGED <<promoted, works, messages, restarted, overlapped>>
      /\ \A i \in Incidents : rows[i] # None => rows'[i].serial = rows[i].serial
  BY DecisionSends
<1>3. \A t \in Deciders : deciders[t] # None =>
         /\ rows[deciders[t].incident] # None /\ deciders[t].incident \in Incidents
         /\ deciders[t].stage \in {"clear", "discard"} => Closed(deciders[t].incident)
  BY TheDecider DEF Offers, DeletesClosed
<1>4. \A h \in handlers : h.stage = "decide" =>
         /\ deciders["slack"] # None
         /\ deciders["slack"].incident = IncidentOf(h.request)
  BY DEF Inv, SlackDecides
<1>5. \A h \in handlers' : IncidentOf(h.request)' = IncidentOf(h.request)
  BY <1>2 DEF IncidentOf
\* Rows that stay, and one decider that moves
<1>6. ASSUME NEW t \in Deciders, NEW e \in Decider \cup {None}, rows' = rows,
             deciders' = [deciders EXCEPT ![t] = e],
             \A i \in Incidents :
                /\ parked'[i] = "open" => parked[i] = "open"
                /\ parked[i] = None => parked'[i] = None
                /\ parked[i] # None /\ parked'[i] = None => Excused(i) \/ Unput(i),
             e # None /\ e.stage \in {"clear", "discard"} =>
                /\ rows[e.incident] # None
                /\ \/ parked'[e.incident] = None \/ rows[e.incident].decision # None
                   \/ Closed(e.incident),
             \A i \in overdue' : i \in overdue \/ parked'[i] # "open",
             \A h \in handlers' : h.stage = "decide" /\ Refusing' =>
                \/ rows[IncidentOf(h.request)].decision # None
                \/ parked[IncidentOf(h.request)] = None
                \/ h \in handlers /\ Refusing
      PROVE  Offers'
  <2>1. \A u \in Deciders : deciders'[u] = deciders[u] \/ deciders'[u] = e
    BY <1>1, <1>6
  <2>2. \A u \in Deciders :
           deciders'[u] # None /\ deciders'[u].stage \in {"clear", "discard"} =>
              /\ rows[deciders'[u].incident] # None
              /\ \/ parked'[deciders'[u].incident] = None
                 \/ rows'[deciders'[u].incident].decision # None
                 \/ Closed(deciders'[u].incident)
    BY <1>3, <1>6, <2>1
  <2>3. \A i \in Incidents : rows[i] # None =>
           /\ rows'[i] # None /\ rows'[i].serial = rows[i].serial
           /\ rows[i].decision # None => rows'[i].decision # None
    BY <1>6
  <2> QED
    BY <1>2, <1>6, <2>2, <2>3, OffersFrame
<1>7. ASSUME NEW i \in Incidents, lapse(i) PROVE Offers'
  <2>1. /\ UNCHANGED <<rows, deciders, overdue, handlers>>
        /\ parked[i] = "open" /\ parked' = [parked EXCEPT ![i] = "late"]
    BY <1>7 DEF lapse
  <2>2. PICK e : e = deciders["slack"]
    OBVIOUS
  <2>3. e \in Decider \cup {None} /\ deciders' = [deciders EXCEPT !["slack"] = e]
    BY <1>1, <2>1, <2>2
  <2>4. Refusing' = Refusing
    BY <2>1 DEF Refusing
  <2>5. \A j \in Incidents :
           /\ parked'[j] = "open" => parked[j] = "open"
           /\ parked[j] = None => parked'[j] = None
           /\ parked[j] # None /\ parked'[j] = None => Excused(j) \/ Unput(j)
    BY <1>1, <2>1, MessagesAssumption
  <2>6. e # None /\ e.stage \in {"clear", "discard"} =>
           rows[e.incident] # None /\ Closed(e.incident)
    BY <1>1, <1>3, <2>2
  <2> QED
    BY <1>1, <1>6, <2>1, <2>3, <2>4, <2>5, <2>6
<1>8. ASSUME NEW t \in Threads, NEW i \in Incidents, PostDecision(t, i) PROVE Offers'
  <2>1. /\ UNCHANGED <<rows, parked, overdue, handlers>>
        /\ load(t, i, "human") /\ t # "slack" /\ t # "sweeper" /\ t \in Deciders
    BY <1>1, <1>8, MessagesAssumption DEF PostDecision
  <2>2. PICK e \in Decider \cup {None} :
            /\ deciders' = [deciders EXCEPT ![t] = e]
            /\ e # None => e.stage = "read"
    BY <2>1, LoadGives DEF Decisions
  <2>3. Refusing' = Refusing
    BY <1>1, <2>1, <2>2 DEF Refusing
  <2> QED
    BY <1>6, <2>1, <2>2, <2>3
<1>9. ASSUME NEW t \in Deciders, labelRead(t) PROVE Offers'
  <2>1. /\ deciders[t] # None /\ deciders[t].stage = "read"
        /\ UNCHANGED <<rows, parked, overdue, handlers>>
    BY <1>9, ReadGives
  <2>2. PICK e \in Decider : /\ deciders' = [deciders EXCEPT ![t] = e]
                             /\ e.incident = deciders[t].incident
                             /\ \/ e.stage = "write"
                                \/ e.stage = "clear" /\ rows[e.incident].decision # None
    BY <1>9, ReadGives
  <2>3. rows[e.incident] # None
    BY <1>3, <2>1, <2>2
  <2>4. \A h \in handlers' : h.stage = "decide" /\ Refusing' =>
           \/ rows[IncidentOf(h.request)].decision # None
           \/ h \in handlers /\ Refusing
    <3>1. CASE t = "slack"
      BY <1>1, <1>4, <2>1, <2>2, <3>1 DEF Refusing
    <3>2. CASE t # "slack"
      BY <1>1, <2>1, <2>2, <3>2 DEF Refusing
    <3> QED
      BY <3>1, <3>2
  <2> QED
    BY <1>6, <2>1, <2>2, <2>3, <2>4
<1>10. ASSUME NEW t \in Deciders, labelWrite(t) PROVE Offers'
  <2>1. /\ deciders[t] # None /\ deciders[t].stage = "write"
        /\ UNCHANGED <<parked, overdue, handlers>>
    BY <1>10, WriteGives
  <2>2. PICK e \in Decider, next \in SlackRow :
                 /\ deciders' = [deciders EXCEPT ![t] = e]
                 /\ e.incident = deciders[t].incident
                 /\ rows' = [rows EXCEPT ![e.incident] = next]
                 /\ next.decision # None
    BY <1>10, WriteGives
  <2>3. e.incident \in Incidents /\ rows[e.incident] # None /\ next # None
        /\ rows'[e.incident].decision # None
    BY <1>1, <1>3, <2>1, <2>2, MessagesAssumption
  <2>4. \A i \in Incidents : rows[i] # None =>
           /\ rows'[i] # None /\ rows'[i].serial = rows[i].serial
           /\ rows[i].decision # None => rows'[i].decision # None
    BY <1>1, <1>2, <2>2, <2>3
  <2>5. \A u \in Deciders :
           deciders'[u] # None /\ deciders'[u].stage \in {"clear", "discard"} =>
              /\ rows[deciders'[u].incident] # None
              /\ \/ rows'[deciders'[u].incident].decision # None
                 \/ Closed(deciders'[u].incident)
    <3>1. \A u \in Deciders : deciders'[u] = deciders[u] \/ deciders'[u] = e
      BY <1>1, <2>2
    <3> QED
      BY <1>3, <2>3, <3>1
  <2>6. \A h \in handlers' : h.stage = "decide" /\ Refusing' =>
           \/ rows'[IncidentOf(h.request)].decision # None
           \/ h \in handlers /\ Refusing
    <3>1. CASE t = "slack"
      BY <1>1, <1>4, <2>1, <2>2, <2>3, <3>1
    <3>2. CASE t # "slack"
      BY <1>1, <2>1, <2>2, <3>2 DEF Refusing
    <3> QED
      BY <3>1, <3>2
  <2> QED
    BY <1>2, <2>1, <2>4, <2>5, <2>6, OffersFrame
<1>11. ASSUME NEW t \in Deciders, NEW i \in Incidents,
              deciders[t] # None, deciders[t].stage \in {"clear", "discard"},
              i = deciders[t].incident, parked' = [parked EXCEPT ![i] = None]
       PROVE  \A j \in Incidents :
                 /\ parked'[j] = "open" => parked[j] = "open"
                 /\ parked[j] = None => parked'[j] = None
                 /\ parked[j] # None /\ parked'[j] = None => Excused(j) \/ Unput(j)
  <2>1. Closed(i)
    BY <1>3, <1>11
  <2> QED
    BY <1>1, <1>11, <2>1, MessagesAssumption DEF Closed
<1>12. ASSUME NEW t \in Deciders, clear(t) PROVE Offers'
  <2>1. /\ deciders[t] # None /\ deciders[t].stage = "clear"
        /\ UNCHANGED <<rows, overdue, handlers>>
        /\ parked' = [parked EXCEPT ![deciders[t].incident] = None]
    BY <1>12, ClearGives
  <2>2. PICK e \in Decider \cup {None} :
                 /\ deciders' = [deciders EXCEPT ![t] = e]
                 /\ t = "slack" => e # None
                 /\ e # None => /\ e.incident = deciders[t].incident
                                /\ e.refused = deciders[t].refused
    BY <1>12, ClearGives
  <2>3. \A j \in Incidents :
           /\ parked'[j] = "open" => parked[j] = "open"
           /\ parked[j] = None => parked'[j] = None
           /\ parked[j] # None /\ parked'[j] = None => Excused(j) \/ Unput(j)
    BY <1>3, <1>11, <2>1
  <2>4. e # None => rows[e.incident] # None /\ parked'[e.incident] = None
    BY <1>1, <1>3, <2>1, <2>2
  <2>5. \A h \in handlers' : h.stage = "decide" /\ Refusing' => h \in handlers /\ Refusing
    <3>1. CASE t = "slack"
      BY <1>1, <2>1, <2>2, <3>1 DEF Refusing
    <3>2. CASE t # "slack"
      BY <1>1, <2>1, <2>2, <3>2 DEF Refusing
    <3> QED
      BY <3>1, <3>2
  <2> QED
    BY <1>6, <2>1, <2>2, <2>3, <2>4, <2>5
<1>13. CASE list
  <2>1. /\ UNCHANGED <<rows, parked, deciders, handlers>>
        /\ overdue' = {i \in Incidents : parked[i] = "late"}
    BY <1>13 DEF list, Overdue
  <2>2. PICK e : e = deciders["slack"]
    OBVIOUS
  <2>3. e \in Decider \cup {None} /\ deciders' = [deciders EXCEPT !["slack"] = e]
    BY <1>1, <2>1, <2>2
  <2>4. Refusing' = Refusing
    BY <2>1 DEF Refusing
  <2>5. e # None /\ e.stage \in {"clear", "discard"} =>
           rows[e.incident] # None /\ Closed(e.incident)
    BY <1>1, <1>3, <2>2
  <2> QED
    BY <1>1, <1>6, <2>1, <2>3, <2>4, <2>5
<1>14. ASSUME NEW i \in Incidents, expire(i) PROVE Offers'
  <2>1. /\ i \in overdue /\ overdue' = overdue \ {i} /\ load("sweeper", i, "expired")
        /\ UNCHANGED <<rows, parked, handlers>>
    BY <1>14 DEF expire
  <2>2. PICK e \in Decider \cup {None} :
            /\ deciders' = [deciders EXCEPT !["sweeper"] = e]
            /\ e # None => /\ e.incident = i
                           /\ e.stage = "read" \/ (e.stage = "discard" /\ parked[i] # "late")
    BY <1>1, <2>1, LoadGives DEF Decisions
  <2>3. Refusing' = Refusing
    BY <1>1, <2>2 DEF Refusing
  <2>4. parked[i] # "late" => Closed(i)
    BY <1>1, <2>1 DEF Offers, ListedLate, Closed
  <2>5. e # None /\ e.stage \in {"clear", "discard"} =>
           rows[e.incident] # None /\ Closed(e.incident)
    BY <2>1, <2>2, <2>4 DEF Inv, Known
  <2> QED
    BY <1>1, <1>6, <2>1, <2>2, <2>3, <2>5
<1>15. CASE discard
  <2>1. /\ deciders["sweeper"] # None /\ deciders["sweeper"].stage = "discard"
        /\ parked' = [parked EXCEPT ![deciders["sweeper"].incident] = None]
        /\ deciders' = [deciders EXCEPT !["sweeper"] = None]
        /\ UNCHANGED <<rows, overdue, handlers>>
    BY <1>15 DEF discard
  <2>2. \A j \in Incidents :
           /\ parked'[j] = "open" => parked[j] = "open"
           /\ parked[j] = None => parked'[j] = None
           /\ parked[j] # None /\ parked'[j] = None => Excused(j) \/ Unput(j)
    BY <1>1, <1>3, <1>11, <2>1
  <2>3. Refusing' = Refusing
    BY <1>1, <2>1 DEF Refusing
  <2>4. PICK e : e \in Decider \cup {None} /\ e = None
    OBVIOUS
  <2>5. deciders' = [deciders EXCEPT !["sweeper"] = e]
    BY <2>1, <2>4
  <2> QED
    BY <1>1, <1>6, <2>1, <2>2, <2>3, <2>4, <2>5
<1>16. ASSUME NEW h \in handlers, Decide(h) PROVE Offers'
  <2>1. PICK i : i = IncidentOf(h.request) /\ i \in Incidents
    BY TheHandler
  <2>2. /\ load("slack", i, "human") /\ Goes(h, "decide")
        /\ UNCHANGED <<rows, parked, overdue>>
    BY <1>16, <2>1 DEF Decide
  <2>3. PICK e \in Decider \cup {None} :
            /\ deciders' = [deciders EXCEPT !["slack"] = e] /\ e # None
            /\ e.stage = "read" \/ (e.stage = "done" /\ parked[i] = None)
    BY <1>1, <2>1, <2>2, LoadGives DEF Decisions
  <2>4. \A k \in handlers' : k.request = h.request
    BY <2>2, GoesOn
  <2>5. \A k \in handlers' : k.stage = "decide" /\ Refusing' =>
           parked[IncidentOf(k.request)] = None
    <3>1. Refusing' => parked[i] = None
      BY <1>1, <2>3 DEF Refusing
    <3> QED
      BY <2>1, <2>4, <3>1
  <2>6. /\ "slack" \in Deciders /\ rows' = rows /\ parked' = parked
        /\ overdue' = overdue /\ e.stage \notin {"clear", "discard"}
    BY <1>1, <2>2, <2>3
  <2> QED
    BY <1>6, <2>3, <2>5, <2>6
<1>17. ASSUME NEW h \in handlers, Resume(h) PROVE Offers'
  <2>1. /\ deciders' = [deciders EXCEPT !["slack"] = None]
        /\ UNCHANGED <<rows, parked, overdue>>
        /\ Goes(h, "refresh") \/ Goes(h, "note") \/ Ends(h)
    BY <1>17 DEF Resume
  <2>2. \A k \in handlers' : k.stage # "decide"
    <3>1. CASE Goes(h, "refresh")
      BY <3>1, GoesOn
    <3>2. CASE Goes(h, "note")
      BY <3>2, GoesOn
    <3>3. CASE Ends(h)
      <4>1. handlers' = {}
        BY <3>3, HandlerGoes
      <4> QED
        BY <4>1
    <3> QED
      BY <2>1, <3>1, <3>2, <3>3
  <2>3. PICK e : e \in Decider \cup {None} /\ e = None
    OBVIOUS
  <2>4. deciders' = [deciders EXCEPT !["slack"] = e]
    BY <2>1, <2>3
  <2> QED
    BY <1>1, <1>6, <2>1, <2>2, <2>3, <2>4
<1> QED
  BY <1>7, <1>8, <1>9, <1>10, <1>12, <1>13, <1>14, <1>15, <1>16, <1>17 DEF DecisionStep

LEMMA OffersStep == Inv /\ Inv' /\ Offers /\ [MessagesNext]_slackVars => Offers'
<1> SUFFICES ASSUME Inv, Inv', Offers, [MessagesNext]_slackVars PROVE Offers'
  OBVIOUS
<1>1. CASE \E i \in Incidents, outcome \in Outcomes : Verdict(i, outcome)
  BY <1>1, OffersVerdict
<1>2. CASE \E w \in works : register(w)
  BY <1>2, OffersRegister
<1>3. CASE \E w \in works, answered \in BOOLEAN : deliver(w, answered)
  BY <1>3, OffersDeliver
<1>4. CASE Restart
  BY <1>4, OffersRestart
<1>5. CASE DecisionStep
  BY <1>5, OffersDecision
<1>6. CASE \/ \E h \in handlers : ReadRow(h)
           \/ \E h \in handlers, answered \in BOOLEAN : Update(h, answered)
           \/ \E h \in handlers :
                 \/ AskAgain(h) \/ CheckLabel(h) \/ UpdateLabel(h) \/ Note(h)
                 \/ \E answered \in BOOLEAN : OpenView(h, answered)
           \/ \E i \in Incidents, label \in Ratings \cup {"cause"} : PostLabel(i, label)
           \/ \E l \in labels : WriteLabel(l)
           \/ \E ts \in DOMAIN messages, button \in Buttons : Click(ts, button)
           \/ \E m \in modals, blank \in BOOLEAN : Submit(m, blank)
           \/ \E request \in inbox : Refuse(request) \/ Take(request)
           \/ UNCHANGED slackVars
  <2>1. UNCHANGED <<promoted, works, restarted, parked, deciders, overdue, overlapped>>
    BY <1>6 DEF ReadRow, Update, AskAgain, CheckLabel, UpdateLabel, Note, OpenView,
          PostLabel, WriteLabel, Click, Submit, Sent, Refuse, Take, otherVars, decisionVars,
          slackVars
  <2>2. \A i \in Incidents : rows[i] # None =>
           /\ rows'[i] # None /\ rows'[i].serial = rows[i].serial
           /\ rows[i].decision # None => rows'[i].decision # None
    <3>1. ASSUME NEW j \in Incidents, NEW label \in Ratings \cup {"cause"},
                 rows[j] # None, Label(j, label)
          PROVE  \A i \in Incidents : rows[i] # None =>
                    /\ rows'[i] # None /\ rows'[i].serial = rows[i].serial
                    /\ rows[i].decision # None => rows'[i].decision # None
      <4>1. \A i \in Incidents : Grows(rows[i], rows'[i]) => rows'[i] # None
        BY MessagesAssumption DEF Grows
      <4> QED
        BY <3>1, <4>1, LabelRows
    <3>2. CASE \E h \in handlers : UpdateLabel(h)
      BY <3>1, <3>2, TheHandler DEF UpdateLabel, Inv, Known
    <3>3. CASE \E l \in labels : WriteLabel(l)
      BY <3>1, <3>3 DEF WriteLabel, Inv, Types, Known
    <3>4. CASE rows' = rows
      BY <3>4
    <3> QED
      BY <1>6, <3>2, <3>3, <3>4 DEF ReadRow, Update, AskAgain, CheckLabel, Note, OpenView,
            PostLabel, Click, Submit, Sent, Refuse, Take, slackVars, otherVars
  <2>3. DOMAIN messages' = DOMAIN messages
        /\ \A ts \in DOMAIN messages :
              \/ messages'[ts] = messages[ts]
              \/ messages'[ts].buttons = {} /\ messages'[ts].incident = messages[ts].incident
    <3>1. CASE \E h \in handlers, answered \in BOOLEAN : Update(h, answered)
      <4>1. PICK h \in handlers, answered \in BOOLEAN : Update(h, answered)
        BY <3>1
      <4>2. PICK m : m = refresh(IncidentOf(h.request), h.row)
        OBVIOUS
      <4>3. /\ h.request.ts \in DOMAIN messages /\ IncidentOf(h.request) \in Incidents
            /\ h.row # None /\ h.row \in SlackRow
        BY <4>1, TheHandler DEF Update, Inv, ReadingTells, Handler
      <4>4. m.buttons = {} /\ m.incident = messages[h.request.ts].incident
        BY <4>2, <4>3, RecordOffersNothing DEF IncidentOf
      <4>5. messages' = messages \/ messages' = [messages EXCEPT ![h.request.ts] = m]
        BY <4>1, <4>2 DEF Update
      <4> QED
        BY <4>3, <4>4, <4>5
    <3>2. CASE messages' = messages
      BY <3>2
    <3> QED
      BY <1>6, <3>1, <3>2 DEF ReadRow, AskAgain, CheckLabel, UpdateLabel, Note, OpenView,
            PostLabel, WriteLabel, Click, Submit, Sent, Refuse, Take, slackVars, otherVars
  <2>4. \A h \in handlers' : h.stage = "decide" => h \in handlers
    <3>1. CASE \E h \in handlers : ReadRow(h)
      <4>1. PICK h \in handlers : ReadRow(h)
        BY <3>1
      <4>2. PICK g : g = [h EXCEPT !.stage = "update", !.row = rows[IncidentOf(h.request)]]
        OBVIOUS
      <4>3. g.stage = "update"
        BY <4>2, TheHandler DEF Handler
      <4> QED
        BY <4>1, <4>2, <4>3 DEF ReadRow
    <3>2. CASE \E h \in handlers : CheckLabel(h) \/ UpdateLabel(h)
      <4>1. PICK h \in handlers : CheckLabel(h) \/ UpdateLabel(h)
        BY <3>2
      <4>2. Goes(h, "write") \/ Goes(h, "note") \/ Goes(h, "refresh") \/ Ends(h)
        BY <4>1 DEF CheckLabel, UpdateLabel
      <4> QED
        BY <4>2, HandlerGoes
    <3>3. CASE \E request \in inbox : Take(request)
      BY <3>3 DEF Take
    <3>4. CASE handlers' \subseteq handlers
      BY <3>4
    <3> QED
      BY <1>6, <3>1, <3>2, <3>3, <3>4 DEF AskAgain, Note, OpenView, Update, Ends,
            PostLabel, WriteLabel, Click, Submit, Sent, Refuse, slackVars
  <2>5. \A t \in Deciders :
           deciders'[t] # None /\ deciders'[t].stage \in {"clear", "discard"} =>
              rows[deciders'[t].incident] # None /\ Closed(deciders'[t].incident)
    BY <2>1, TheDecider DEF Offers, DeletesClosed
  <2>6. Refusing' = Refusing
    BY <2>1 DEF Refusing
  <2>7. /\ \A i \in Incidents :
              /\ parked'[i] = "open" => parked[i] = "open"
              /\ parked[i] = None => parked'[i] = None
              /\ parked[i] # None /\ parked'[i] = None => Excused(i) \/ Unput(i)
        /\ \A i \in overdue' : i \in overdue
    BY <2>1
  <2> QED
    BY <2>1, <2>2, <2>3, <2>4, <2>5, <2>6, <2>7, OffersFrame
<1> QED
  BY <1>1, <1>2, <1>3, <1>4, <1>5, <1>6, Steps, Zenon

(* The offers are kept in every state.                                     *)
LEMMA OffersKept == MessagesSpec => []Offers
BY OffersInit, OffersStep, MessagesInvariant, PTL DEF MessagesSpec

(* An approval of the latest verdict, clicked where it is offered, is      *)
(* refused only if the incident is decided, the question was lost with the *)
(* process, or it was put while a decision on an earlier one was under     *)
(* way: whoever deletes a question has decided it, or began before it was  *)
(* put (decide, expire_overdue).                                           *)
THEOREM RefusalSafety == MessagesSpec => RefusedForAReason
<1>1. ASSUME Inv, Offers, [MessagesNext]_slackVars, NEW h \in handlers,
             h.request.action = "approve", h.stage = "decide",
             [h EXCEPT !.stage = "note"] \in handlers',
             "approve" \in messages[h.request.ts].buttons,
             messages[h.request.ts].serial = Serial(IncidentOf(h.request))
      PROVE  \/ rows[IncidentOf(h.request)].decision # None
             \/ restarted /\ ~Durable
             \/ IncidentOf(h.request) \in overlapped
  <2>1. PICK g : g = [h EXCEPT !.stage = "note"]
    OBVIOUS
  <2>2. /\ h \in Handler /\ h.request.ts \in DOMAIN messages
        /\ \A k \in handlers : k = h
    BY <1>1, TheHandler DEF Inv, OneAtATime
  <2>3. g \in handlers' /\ g.stage = "note"
    BY <1>1, <2>1, <2>2 DEF Handler
  <2>4. g \notin handlers
    BY <1>1, <2>2, <2>3
  <2>5. CASE Resume(h)
    <3>1. deciders["slack"].stage = "done" /\ deciders["slack"].refused
      <4>1. SUFFICES ASSUME ~deciders["slack"].refused PROVE FALSE
        BY <2>5 DEF Resume
      <4>2. Goes(h, "refresh")
        BY <2>5, <4>1 DEF Resume
      <4>3. \A k \in handlers' : k.stage = "refresh"
        BY <1>1, <4>2, GoesOn
      <4> QED
        BY <2>3, <4>3
    <3>2. Refusing
      BY <3>1 DEF Refusing
    <3> QED
      BY <1>1, <3>2 DEF Offers, RefusesExcused, Excused
  <2>6. CASE DecisionStep /\ ~Resume(h)
    <3>1. CASE Decide(h)
      BY <1>1, <3>1 DEF Decide
    <3>2. CASE \E k \in handlers : Decide(k) \/ Resume(k)
      BY <2>2, <2>6, <3>1, <3>2
    <3>3. CASE handlers' = handlers
      BY <2>3, <2>4, <3>3
    <3> QED
      BY <2>6, <3>2, <3>3 DEF DecisionStep, lapse, PostDecision, labelRead, labelWrite,
            clear, list, discard, expire
  <2>7. CASE \/ \E k \in handlers : ReadRow(k)
             \/ \E k \in handlers, answered \in BOOLEAN : Update(k, answered)
             \/ \E k \in handlers :
                   \/ AskAgain(k) \/ CheckLabel(k) \/ UpdateLabel(k) \/ Note(k)
                   \/ \E answered \in BOOLEAN : OpenView(k, answered)
    <3>1. ~ReadRow(h) /\ ~CheckLabel(h) /\ ~UpdateLabel(h)
      BY <1>1 DEF ReadRow, CheckLabel, UpdateLabel
    <3>2. handlers' = {}
      BY <1>1, <2>2, <2>7, <3>1, HandlerGoes DEF AskAgain, Note, OpenView, Update
    <3> QED
      BY <2>3, <3>2
  <2>8. CASE \E request \in inbox : Take(request)
    BY <2>8 DEF Take, LoopIsFree
  <2>9. CASE Restart
    BY <2>3, <2>9 DEF Restart
  <2>10. CASE \/ \E i \in Incidents, outcome \in Outcomes : Verdict(i, outcome)
              \/ \E w \in works : register(w)
              \/ \E w \in works, answered \in BOOLEAN : deliver(w, answered)
              \/ \E i \in Incidents, label \in Ratings \cup {"cause"} : PostLabel(i, label)
              \/ \E l \in labels : WriteLabel(l)
              \/ \E t \in DOMAIN messages, button \in Buttons : Click(t, button)
              \/ \E m \in modals, blank \in BOOLEAN : Submit(m, blank)
              \/ \E request \in inbox : Refuse(request)
              \/ UNCHANGED slackVars
    <3>1. handlers' = handlers
      BY <2>10 DEF Verdict, register, deliver, PostLabel, WriteLabel,
            Click, Submit, Sent, Refuse, slackVars
    <3> QED
      BY <2>3, <2>4, <3>1
  <2> QED
    BY <1>1, <2>5, <2>6, <2>7, <2>8, <2>9, <2>10, Steps, Zenon
<1>2. Inv /\ Offers /\ [MessagesNext]_slackVars =>
          [\A h \in handlers :
              /\ h.request.action = "approve" /\ h.stage = "decide"
              /\ [h EXCEPT !.stage = "note"] \in handlers'
              /\ "approve" \in messages[h.request.ts].buttons
              /\ messages[h.request.ts].serial = Serial(IncidentOf(h.request))
              => \/ rows[IncidentOf(h.request)].decision # None
                 \/ restarted /\ ~Durable
                 \/ IncidentOf(h.request) \in overlapped]_slackVars
  BY <1>1
<1> QED
  BY <1>2, MessagesInvariant, OffersKept, PTL DEF MessagesSpec, RefusedForAReason
=============================================================================
