------------------------------ MODULE Messages ------------------------------
(***************************************************************************)
(* Slack: a verdict becomes a message with buttons, a click becomes a      *)
(* decision, a rating or the actual cause, and the message is redrawn as   *)
(* the record of it.                                                       *)
(*                                                                         *)
(* Handlers of clicks run on the event loop, which they do not yield: one  *)
(* at a time. Verdicts and the JSON endpoints run on threads, the sweeper  *)
(* on its own, so what others do comes between any two calls of a decision *)
(* to the store and the ledger. A label is checked and written in two      *)
(* transactions. The store keeps a question until it is deleted; its own   *)
(* time to live and the contents of a decision are in Approvals.           *)
(***************************************************************************)
EXTENDS Naturals, Sequences

CONSTANTS
    Incidents,
    None,
    Threads,   \* of the pool, that serve POST /decision
    Durable,   \* TRUE: parked questions survive a restart (Redis)
    MaxVerdicts,  \* bound on the verdicts on one incident
    MaxEvents  \* bound on verdicts, deadlines, clicks, JSON requests, restarts

VARIABLES
    promoted,  \* incidents whose failure type is live; the others are shadow
    rows,      \* incident -> what its ledger row says, or None
    parked,    \* incident -> whether its question is open or late, or None
    deciders,  \* who decides: a thread, the loop, the sweeper -> how far it is
    overdue,   \* incidents the sweep that runs has listed and not come to
    works,     \* /diagnose requests whose verdict is recorded
    messages,  \* what the channel shows; a message's ts is its place
    modals,    \* input views that are open
    inbox,     \* interactions Slack has sent and the loop has not taken
    handlers,  \* interactions being handled
    labels,    \* JSON requests past the check of Ledger.label
    posted,    \* history: a JSON endpoint was asked for a label
    overlapped,  \* history: incidents whose latest verdict was registered
                 \* while a decision on an earlier one was under way
    restarted, \* history: the brain was restarted
    events     \* counter for the bound

decisionVars == <<parked, deciders, overdue, overlapped>>
otherVars    == <<promoted, works, messages, modals, inbox, labels, posted, restarted,
                  events>>

slackVars == <<promoted, rows, decisionVars, works, messages, modals, inbox, handlers,
               labels, posted, restarted, events>>

Outcomes == {"DIAGNOSED", "INSUFFICIENT_CONTEXT", "DISCARDED"}
Ratings  == {"would_approve", "would_reject"}
Views    == {"reject", "edit", "cause"}
Buttons  == {"approve", "reject", "edit", "cause"} \cup Ratings

(* Whichever way a human decides, and the expiry                           *)
Decisions == {"human", "expired"}

(* serial tells the verdicts of one incident apart; cause is TRUE when an  *)
(* actual cause is recorded                                                *)
SlackRow ==
    [serial: Nat, outcome: Outcomes, rating: Ratings \cup {None},
     decision: Decisions \cup {None}, cause: BOOLEAN]

ASSUME MessagesAssumption ==
    /\ Durable \in BOOLEAN
    /\ MaxVerdicts \in Nat /\ MaxEvents \in Nat
    /\ {"slack", "sweeper"} \cap Threads = {}
    /\ None \notin Ratings \cup Decisions \cup {"open", "late"}
    /\ None \notin SlackRow

(* Lines of a redrawn message about what was recorded *)
Status == {"decision", "rating", "cause", "recorded"}

Message ==
    [incident: Incidents, serial: Nat, buttons: SUBSET Buttons,
     status: SUBSET Status]

Work == [incident: Incidents, serial: Nat, outcome: Outcomes,
         stage: {"recorded", "registered"}]

(* view: FALSE for a click on a button, TRUE for the submission of a modal *)
Interaction ==
    [ts: Nat, action: Buttons, view: BOOLEAN, blank: BOOLEAN]

Handler ==
    [request: Interaction,
     stage: {"act", "decide", "write", "refresh", "update", "note"},
     row: SlackRow \cup {None}]

(* refused: the answer is a refusal, as it is to a human who is too late   *)
Decider ==
    [incident: Incidents, decision: Decisions, refused: BOOLEAN,
     stage: {"read", "write", "clear", "discard", "done"}]

Deciders == Threads \cup {"slack", "sweeper"}

ASSUME DeciderAssumption == None \notin Decider

MessagesTypeOK ==
    /\ promoted \subseteq Incidents
    /\ rows \in [Incidents -> SlackRow \cup {None}]
    /\ parked \in [Incidents -> {None, "open", "late"}]
    /\ deciders \in [Deciders -> Decider \cup {None}]
    /\ overdue \subseteq Incidents /\ overlapped \subseteq Incidents
    /\ works \subseteq Work
    /\ messages \in Seq(Message)
    /\ modals \subseteq [ts: DOMAIN messages, view: Views]
    /\ inbox \subseteq Interaction
    /\ handlers \subseteq Handler
    /\ labels \subseteq [incident: Incidents, label: Ratings \cup {"cause"}]

MessagesInit ==
    /\ promoted \in SUBSET Incidents
    /\ rows = [i \in Incidents |-> None]
    /\ parked = [i \in Incidents |-> None]
    /\ deciders = [t \in Deciders |-> None] /\ overdue = {} /\ overlapped = {}
    /\ works = {} /\ messages = <<>> /\ modals = {}
    /\ inbox = {} /\ handlers = {} /\ labels = {}
    /\ posted = FALSE /\ restarted = FALSE /\ events = 0

-----------------------------------------------------------------------------
(***************************************************************************)
(* The content of a message: render_status of the row, and the buttons of  *)
(* render_blocks, which a message with a status never has.                 *)
(***************************************************************************)
render_status(row) ==
    {s \in {"decision", "rating", "cause"} :
        \/ s = "decision" /\ row.decision # None
        \/ s = "rating" /\ row.rating # None
        \/ s = "cause" /\ row.cause}

render_blocks(live, outcome, status) ==
    IF status # {} \/ outcome = "DISCARDED" THEN {}
    ELSE IF outcome = "INSUFFICIENT_CONTEXT" THEN {"cause"} \cup Ratings
    ELSE IF ~live THEN Ratings ELSE {"approve", "reject", "edit"}

(* Fault: a row without labels is redrawn as it was first drawn *)
refreshPlain(i, row) ==
    LET status == render_status(row)
    IN  [incident |-> i, serial |-> row.serial, status |-> status,
         buttons |-> render_blocks(i \in promoted, row.outcome, status)]

(* The verdict is rebuilt from the row, so a redrawn message is about the  *)
(* row's verdict and no longer about the one it announced                  *)
refresh(i, row) ==
    LET status == IF render_status(row) = {} THEN {"recorded"} ELSE render_status(row)
    IN  [incident |-> i, serial |-> row.serial, status |-> status,
         buttons |-> render_blocks(i \in promoted, row.outcome, status)]

-----------------------------------------------------------------------------
(***************************************************************************)
(* Verdicts: the row first, then the question, then the message.           *)
(***************************************************************************)
Event == events < MaxEvents /\ events' = events + 1

Serial(i) == IF rows[i] = None THEN 0 ELSE rows[i].serial

Verdict(i, outcome) ==
    /\ Event
    /\ Serial(i) < MaxVerdicts
    /\ rows' = [rows EXCEPT ![i] =
           [serial |-> Serial(i) + 1, outcome |-> outcome, rating |-> None,
            decision |-> None, cause |-> FALSE]]
    /\ works' = works \cup {[incident |-> i, serial |-> Serial(i) + 1,
                             outcome |-> outcome, stage |-> "recorded"]}
    /\ overlapped' = overlapped \ {i}
    /\ UNCHANGED <<promoted, parked, deciders, overdue, messages, modals, inbox,
                   handlers, labels, posted, restarted>>

(* Fault: a verdict of a type that is not promoted is asked about *)
AsksAlways(w) == w.outcome = "DIAGNOSED"

Asks(w) == w.outcome = "DIAGNOSED" /\ w.incident \in promoted

(* A decision on the incident is under way, or the sweeper will come to it *)
InHand(i) ==
    \/ i \in overdue
    \/ \E t \in Deciders : /\ deciders[t] # None /\ deciders[t].incident = i
                          /\ deciders[t].stage # "done"

register(w) ==
    /\ w.stage = "recorded"
    /\ parked' = IF Asks(w) THEN [parked EXCEPT ![w.incident] = "open"] ELSE parked
    /\ works' = (works \ {w}) \cup {[w EXCEPT !.stage = "registered"]}
    /\ overlapped' = overlapped \cup {i \in {w.incident} : InHand(i)}
    /\ UNCHANGED <<promoted, rows, deciders, overdue, messages, modals, inbox,
                   handlers, labels, posted, restarted, events>>

(* answered: whether Slack does; a message that fails is given up *)
deliver(w, answered) ==
    /\ w.stage = "registered"
    /\ works' = works \ {w}
    /\ messages' =
           IF ~answered THEN messages
           ELSE Append(messages,
                       [incident |-> w.incident, serial |-> w.serial, status |-> {},
                        buttons |-> render_blocks(w.incident \in promoted, w.outcome, {})])
    /\ UNCHANGED <<promoted, rows, decisionVars, modals, inbox, handlers,
                   labels, posted, restarted, events>>

-----------------------------------------------------------------------------
(***************************************************************************)
(* ApprovalPipeline.decide. Only a parked question can be decided; the     *)
(* ledger is read, then written whatever it says by then, and whatever is  *)
(* parked by then is deleted.                                              *)
(***************************************************************************)
lapse(i) ==
    /\ Event
    /\ parked[i] = "open"
    /\ parked' = [parked EXCEPT ![i] = "late"]
    /\ UNCHANGED <<promoted, rows, deciders, overdue, overlapped, works, messages,
                   modals, inbox, handlers, labels, posted, restarted>>

(* Slack and the JSON endpoint are told; a sweep discards what is refused  *)
Ended(t, d) ==
    IF t = "slack" THEN [d EXCEPT !.stage = "done"]
    ELSE IF t = "sweeper" /\ d.refused THEN [d EXCEPT !.stage = "discard"]
    ELSE None

(* load and check: a human who is too late records the expiry; the clock   *)
(* is refused as long as the question is open                              *)
load(t, i, decision) ==
    LET d == [incident |-> i, refused |-> decision # "expired" /\ parked[i] = "late",
              decision |-> IF parked[i] = "late" THEN "expired" ELSE decision,
              stage |-> "read"]
    IN  deciders' = [deciders EXCEPT ![t] =
            IF parked[i] = "late" \/ (parked[i] = "open" /\ decision # "expired") THEN d
            ELSE Ended(t, [d EXCEPT !.refused = TRUE])]

PostDecision(t, i) ==
    /\ Event
    /\ deciders[t] = None
    /\ load(t, i, "human")
    /\ UNCHANGED <<promoted, rows, parked, overdue, overlapped, works, messages,
                   modals, inbox, handlers, labels, posted, restarted>>

(* Ledger.label: the row is read *)
labelRead(t) ==
    /\ deciders[t] # None /\ deciders[t].stage = "read"
    /\ deciders' = [deciders EXCEPT ![t] =
           IF rows[@.incident].decision = None THEN [@ EXCEPT !.stage = "write"]
           ELSE [@ EXCEPT !.stage = "clear", !.refused = TRUE]]
    /\ UNCHANGED <<rows, parked, overdue, overlapped, handlers, otherVars>>

(* and written *)
labelWrite(t) ==
    /\ deciders[t] # None /\ deciders[t].stage = "write"
    /\ rows' = [rows EXCEPT ![deciders[t].incident].decision = deciders[t].decision]
    /\ deciders' = [deciders EXCEPT ![t].stage = "clear"]
    /\ UNCHANGED <<parked, overdue, overlapped, handlers, otherVars>>

clear(t) ==
    /\ deciders[t] # None /\ deciders[t].stage = "clear"
    /\ parked' = [parked EXCEPT ![deciders[t].incident] = None]
    /\ deciders' = [deciders EXCEPT ![t] = Ended(t, @)]
    /\ UNCHANGED <<rows, overdue, overlapped, handlers, otherVars>>

Decides(t) == labelRead(t) \/ labelWrite(t) \/ clear(t)

-----------------------------------------------------------------------------
(***************************************************************************)
(* expire_overdue: what is late is listed, then each is decided, and what  *)
(* could not be decided is deleted.                                        *)
(***************************************************************************)
(* Fault: whatever is parked is listed *)
OverdueAll == {i \in Incidents : parked[i] # None}

Overdue == {i \in Incidents : parked[i] = "late"}

list ==
    /\ overdue = {} /\ deciders["sweeper"] = None
    /\ overdue' = Overdue
    /\ UNCHANGED <<rows, parked, deciders, overlapped, handlers, otherVars>>

expire(i) ==
    /\ i \in overdue /\ deciders["sweeper"] = None
    /\ overdue' = overdue \ {i}
    /\ load("sweeper", i, "expired")
    /\ UNCHANGED <<rows, parked, overlapped, handlers, otherVars>>

discard ==
    LET d == deciders["sweeper"] IN
    /\ d # None /\ d.stage = "discard"
    /\ parked' = [parked EXCEPT ![d.incident] = None]
    /\ deciders' = [deciders EXCEPT !["sweeper"] = None]
    /\ UNCHANGED <<rows, overdue, overlapped, handlers, otherVars>>

sweep == list \/ (\E i \in Incidents : expire(i)) \/ discard \/ Decides("sweeper")

-----------------------------------------------------------------------------
(***************************************************************************)
(* Ledger.label for a rating or an actual cause: the check, and the UPDATE *)
(* of whatever row is there by then. Through the JSON endpoints:           *)
(***************************************************************************)
Labelable(i, label) ==
    /\ rows[i] # None
    /\ IF label = "cause" THEN ~rows[i].cause
       ELSE rows[i].rating = None /\ rows[i].outcome # "DISCARDED"

Label(i, label) ==
    rows' = [rows EXCEPT ![i] = IF label = "cause" THEN [@ EXCEPT !.cause = TRUE]
                                ELSE [@ EXCEPT !.rating = label]]

PostLabel(i, label) ==
    /\ Event
    /\ posted' = TRUE
    /\ Labelable(i, label)
    /\ labels' = labels \cup {[incident |-> i, label |-> label]}
    /\ UNCHANGED <<promoted, rows, decisionVars, works, messages, modals, inbox,
                   handlers, restarted>>

WriteLabel(l) ==
    /\ Label(l.incident, l.label)
    /\ labels' = labels \ {l}
    /\ UNCHANGED <<promoted, decisionVars, works, messages, modals, inbox,
                   handlers, posted, restarted, events>>

-----------------------------------------------------------------------------
(***************************************************************************)
(* Humans in Slack: a click on a button that is shown, a modal submitted.  *)
(***************************************************************************)
Sent(request) ==
    /\ Event
    /\ inbox' = inbox \cup {request}
    /\ UNCHANGED <<promoted, rows, decisionVars, works, messages, modals,
                   handlers, labels, posted, restarted>>

Click(ts, button) ==
    /\ button \in messages[ts].buttons
    /\ Sent([ts |-> ts, action |-> button, view |-> FALSE, blank |-> FALSE])

Submit(m, blank) ==
    Sent([ts |-> m.ts, action |-> m.view, view |-> TRUE, blank |-> blank])

(* A signature that is too old, or a request lost on its way *)
Refuse(request) ==
    /\ inbox' = inbox \ {request}
    /\ UNCHANGED <<promoted, rows, decisionVars, works, messages, modals,
                   handlers, labels, posted, restarted, events>>

-----------------------------------------------------------------------------
(***************************************************************************)
(* slack_interactions, one handler at a time on the event loop.            *)
(***************************************************************************)
(* Fault: handlers run on threads, as the JSON endpoints do *)
LoopIsFreeAlways == TRUE

LoopIsFree == handlers = {}

Take(request) ==
    /\ LoopIsFree
    /\ inbox' = inbox \ {request}
    /\ handlers' = handlers \cup {[request |-> request, stage |-> "act", row |-> None]}
    /\ UNCHANGED <<promoted, rows, decisionVars, works, messages, modals,
                   labels, posted, restarted, events>>

IncidentOf(request) == messages[request.ts].incident

Goes(h, stage) == handlers' = (handlers \ {h}) \cup {[h EXCEPT !.stage = stage]}
Ends(h)        == handlers' = handlers \ {h}

(* The buttons that ask for a text open a modal, if Slack answers *)
OpenView(h, answered) ==
    /\ h.stage = "act"
    /\ h.request.action \in Views /\ ~h.request.view
    /\ Ends(h)
    /\ modals' = IF answered
                 THEN modals \cup {[ts |-> h.request.ts, view |-> h.request.action]}
                 ELSE modals
    /\ UNCHANGED <<promoted, rows, decisionVars, works, messages, inbox, labels,
                   posted, restarted, events>>

Close(h) == modals \ {[ts |-> h.request.ts, view |-> h.request.action]}

(* An empty text leaves the modal open *)
AskAgain(h) ==
    /\ h.stage = "act"
    /\ h.request.view /\ h.request.blank
    /\ Ends(h)
    /\ UNCHANGED <<rows, decisionVars, otherVars>>

(* approve, or a submitted rejection or edit *)
Decide(h) ==
    /\ h.stage = "act"
    /\ h.request.action \in {"approve", "reject", "edit"}
    /\ h.request.view = (h.request.action # "approve")
    /\ ~h.request.blank
    /\ load("slack", IncidentOf(h.request), "human")
    /\ Goes(h, "decide")
    /\ UNCHANGED <<rows, parked, overdue, overlapped, otherVars>>

(* A refusal becomes a note in the channel after a click, and an error in  *)
(* the modal after a submission                                            *)
Resume(h) ==
    LET d == deciders["slack"] IN
    /\ h.stage = "decide" /\ d # None /\ d.stage = "done"
    /\ IF ~d.refused THEN Goes(h, "refresh")
       ELSE IF h.request.view THEN Ends(h) ELSE Goes(h, "note")
    /\ deciders' = [deciders EXCEPT !["slack"] = None]
    /\ UNCHANGED <<rows, parked, overdue, overlapped, otherVars>>

(* A rating, or a submitted cause *)
CheckLabel(h) ==
    LET i == IncidentOf(h.request) IN
    /\ h.stage = "act"
    /\ \/ h.request.action \in Ratings
       \/ h.request.action = "cause" /\ h.request.view /\ ~h.request.blank
    /\ IF Labelable(i, h.request.action) THEN Goes(h, "write")
       ELSE IF h.request.view THEN Ends(h) ELSE Goes(h, "note")
    /\ UNCHANGED <<rows, decisionVars, otherVars>>

UpdateLabel(h) ==
    /\ h.stage = "write"
    /\ Label(IncidentOf(h.request), h.request.action)
    /\ Goes(h, "refresh")
    /\ UNCHANGED <<decisionVars, otherVars>>

(* _slack_refresh: the row is read, then Slack is called *)
ReadRow(h) ==
    /\ h.stage = "refresh"
    /\ handlers' = (handlers \ {h}) \cup
           {[h EXCEPT !.stage = "update", !.row = rows[IncidentOf(h.request)]]}
    /\ UNCHANGED <<rows, decisionVars, otherVars>>

(* Fault: a redraw that fails is tried again *)
UpdateRetried(h, answered) ==
    /\ h.stage = "update"
    /\ IF answered
       THEN /\ messages' = [messages EXCEPT ![h.request.ts] =
                                refresh(IncidentOf(h.request), h.row)]
            /\ Ends(h)
            /\ modals' = Close(h)
       ELSE Goes(h, "refresh") /\ UNCHANGED <<messages, modals>>
    /\ UNCHANGED <<promoted, rows, decisionVars, works, inbox, labels, posted,
                   restarted, events>>

(* A redraw that fails is logged: the label stays recorded *)
Update(h, answered) ==
    /\ h.stage = "update"
    /\ messages' = IF answered
                   THEN [messages EXCEPT ![h.request.ts] =
                            refresh(IncidentOf(h.request), h.row)]
                   ELSE messages
    /\ Ends(h)
    /\ modals' = Close(h)
    /\ UNCHANGED <<promoted, rows, decisionVars, works, inbox, labels, posted,
                   restarted, events>>

(* A note is a message of its own, without buttons, and leaves no trace    *)
Note(h) ==
    /\ h.stage = "note"
    /\ Ends(h)
    /\ UNCHANGED <<rows, decisionVars, otherVars>>

Handle(h) ==
    \/ AskAgain(h) \/ Decide(h) \/ (h.stage = "decide" /\ Decides("slack")) \/ Resume(h)
    \/ CheckLabel(h) \/ UpdateLabel(h) \/ ReadRow(h) \/ Note(h)
    \/ \E answered \in BOOLEAN : OpenView(h, answered) \/ Update(h, answered)

-----------------------------------------------------------------------------
Restart ==
    /\ Event
    /\ restarted' = TRUE
    /\ works' = {} /\ inbox' = {} /\ handlers' = {} /\ labels' = {}
    /\ deciders' = [t \in Deciders |-> None] /\ overdue' = {}
    /\ parked' = IF Durable THEN parked ELSE [i \in Incidents |-> None]
    /\ UNCHANGED <<promoted, rows, overlapped, messages, modals, posted>>

TakeAny   == \E request \in inbox : Take(request)
HandleAny == \E h \in handlers : Handle(h)

MessagesNext ==
    \/ \E i \in Incidents, outcome \in Outcomes : Verdict(i, outcome)
    \/ \E w \in works : register(w) \/ \E answered \in BOOLEAN : deliver(w, answered)
    \/ \E t \in Threads, i \in Incidents : PostDecision(t, i)
    \/ \E t \in Threads : Decides(t)
    \/ \E i \in Incidents : lapse(i)
    \/ sweep
    \/ \E i \in Incidents, label \in Ratings \cup {"cause"} : PostLabel(i, label)
    \/ \E l \in labels : WriteLabel(l)
    \/ \E ts \in DOMAIN messages, button \in Buttons : Click(ts, button)
    \/ \E m \in modals, blank \in BOOLEAN : Submit(m, blank)
    \/ \E request \in inbox : Refuse(request)
    \/ TakeAny
    \/ HandleAny
    \/ Restart

(***************************************************************************)
(* The event loop runs. Nobody need click, and Slack need not answer.      *)
(***************************************************************************)
MessagesSpec ==
    /\ MessagesInit /\ [][MessagesNext]_slackVars
    /\ WF_slackVars(TakeAny) /\ WF_slackVars(HandleAny)

-----------------------------------------------------------------------------
(* A message that tells of anything recorded offers nothing any more, even *)
(* if the row was replaced by a fresh verdict before it was redrawn        *)
(* (render_blocks, SlackSink.refresh).                                     *)
RecordsOfferNothing ==
    [][\A ts \in DOMAIN messages :
          messages'[ts] # messages[ts] => messages'[ts].buttons = {}]_slackVars

(* A message never takes back what it told of a verdict: a redraw from an  *)
(* older reading of the row cannot overtake one from a newer               *)
(* (slack_interactions, _slack_refresh).                                   *)
NothingIsUntold ==
    [][\A ts \in DOMAIN messages :
          messages'[ts].serial = messages[ts].serial =>
              messages[ts].status \ {"recorded"} \subseteq messages'[ts].status]_slackVars

(* Through Slack alone a rating is given once: no second click, however    *)
(* close, replaces it (Ledger.label, slack_interactions).                  *)
RatedOnce ==
    [][~posted => \A i \in Incidents :
          /\ rows[i] # None /\ rows[i].rating # None
          /\ rows'[i].serial = rows[i].serial
          => rows'[i].rating = rows[i].rating]_slackVars

(* Whoever clicks approve on a message that still offers it and is about   *)
(* the latest verdict is refused only if the incident is decided, a        *)
(* restart lost the question, or a decision on an earlier verdict or a     *)
(* sweep was under way when the question was parked, and deleted it: the   *)
(* question is there before its message is, and the sweeper does not give  *)
(* up what it has not decided (deliver, decide, expire_overdue).           *)
RefusedForAReason ==
    [][\A h \in handlers :
          /\ h.request.action = "approve" /\ h.stage = "decide"
          /\ [h EXCEPT !.stage = "note"] \in handlers'
          /\ "approve" \in messages[h.request.ts].buttons
          /\ messages[h.request.ts].serial = Serial(IncidentOf(h.request))
          => \/ rows[IncidentOf(h.request)].decision # None
             \/ restarted /\ ~Durable
             \/ IncidentOf(h.request) \in overlapped]_slackVars

(* Nothing is ever decided about an incident whose type is not promoted,   *)
(* whatever is clicked, posted or expires (register, render_blocks).       *)
ShadowIsNeverDecided ==
    \A i \in Incidents \ promoted : rows[i] # None => rows[i].decision = None

(* Every interaction is handled or refused in the end and the event loop   *)
(* is free again, whether Slack answers or not (_slack_refresh).           *)
EveryClickIsAnswered == inbox # {} ~> inbox = {} /\ handlers = {}
=============================================================================
