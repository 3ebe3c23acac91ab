------------------------------- MODULE Ledger -------------------------------
(***************************************************************************)
(* The brain's SQLite ledger: one row per incident id, holding the verdict *)
(* and, later, the decision on it and what became of that decision.        *)
(*                                                                         *)
(* This module gives the rows and what each Ledger method reads and        *)
(* writes; who calls the methods, and what happens between the read and    *)
(* the write of one call, is the business of the modules that extend it.   *)
(* Every method opens its own connection, so a read and a write of the     *)
(* same call are two transactions.                                         *)
(***************************************************************************)
EXTENDS Naturals

CONSTANTS
    Incidents,  \* incident ids: one per pod, container, restart and type
    Hashes,     \* context hashes: the evidence a contract carried
    Actions,    \* remediation texts, proposed by the model or typed by a human
    None        \* SQL NULL, a missing row or record

NoRecord == {None}

Human      == {"approved", "rejected", "edited"}
Authorises == {"approved", "edited"}
Decisions  == Human \cup {"expired"}
Terminal   == {"executed", "failed", "refused"}
Statuses   == Terminal \cup {"proposed"}

(***************************************************************************)
(* The approval token: an HMAC over exactly these fields. The secret is    *)
(* not modelled: equal tokens are equal records, which is what a MAC that  *)
(* nobody forges provides.                                                 *)
(***************************************************************************)
Token == [incident: Incidents, hash: Hashes, decision: Authorises,
          action: Actions, at: Nat]

sign(i, h, d, a, t) ==
    [incident |-> i, hash |-> h, decision |-> d, action |-> a, at |-> t]

Row == [hash: Hashes, proposed: Actions \cup NoRecord,
        decision: Decisions \cup NoRecord, decisionAt: Nat \cup NoRecord,
        decisionAction: Actions \cup NoRecord, token: Token \cup NoRecord,
        execution: Statuses \cup NoRecord, resolved: BOOLEAN \cup NoRecord]

ASSUME LedgerAssumption ==
    /\ None \notin Row
    /\ None \notin Token
    /\ None \notin Decisions \cup Statuses \cup Actions \cup Nat \cup BOOLEAN

VARIABLE ledger  \* incident id -> row, or None

LedgerTypeOK == ledger \in [Incidents -> Row \cup NoRecord]

LedgerInit == ledger = [i \in Incidents |-> None]

Recorded(i) == ledger[i] # None
Decided(i)  == Recorded(i) /\ ledger[i].decision # None
Authorised(i) == Recorded(i) /\ ledger[i].decision \in Authorises

(***************************************************************************)
(* Ledger.record. INSERT OR REPLACE with the columns of a diagnosis: on a  *)
(* row that exists every other column goes back to NULL. The proposal is   *)
(* None for a verdict that offers nothing to approve: abstained, discarded *)
(* or below the threshold.                                                 *)
(***************************************************************************)
FreshRow(h, a) ==
    [hash |-> h, proposed |-> a,
     decision |-> None, decisionAt |-> None, decisionAction |-> None,
     token |-> None, execution |-> None, resolved |-> None]

record(i, h, a) == ledger' = [ledger EXCEPT ![i] = FreshRow(h, a)]

(* Fault: a column is filled once and never overwritten *)
KeepFirst(new, old) == IF old = None THEN new ELSE old

(***************************************************************************)
(* The UPDATE of Ledger.label for a decision. decision and decision_at are *)
(* always written, decision_at with the ledger's own reading of the clock; *)
(* decision_action and approval_token only when the caller has one, so a   *)
(* decision that carries none leaves what the columns held.                *)
(***************************************************************************)
KeepIfNone(new, old) == IF new = None THEN old ELSE new

Labelled(row, d, a, tok, t) ==
    [row EXCEPT !.decision = d,
                !.decisionAt = t,
                !.decisionAction = KeepIfNone(a, row.decisionAction),
                !.token = KeepIfNone(tok, row.token)]

label(i, d, a, tok, t) ==
    ledger' = [ledger EXCEPT ![i] =
                  IF @ = None THEN @ ELSE Labelled(@, d, a, tok, t)]

(* Fault: an agent that executes is given every authorising row again *)
approvedAgain(include_proposed) ==
    {i \in Incidents :
        Authorised(i) /\ (include_proposed \/ ledger[i].execution = None)}

(* Fault: an agent that executes is given the proposed rows only *)
approvedProposedOnly(include_proposed) ==
    {i \in Incidents :
        /\ Authorised(i)
        /\ ledger[i].execution = IF include_proposed THEN "proposed" ELSE None}

(***************************************************************************)
(* What the agent may act on: authorising rows it has not finished with.   *)
(* An agent that executes also wants those it has only proposed so far.    *)
(***************************************************************************)
approved(include_proposed) ==
    {i \in Incidents :
        /\ Authorised(i)
        /\ \/ ledger[i].execution = None
           \/ include_proposed /\ ledger[i].execution = "proposed"}

(***************************************************************************)
(* record_execution and record_resolution: what the call finds out before  *)
(* it writes, and the UPDATE itself.                                       *)
(***************************************************************************)
MayRecordExecution(i, status) ==
    /\ Authorised(i)
    /\ ledger[i].execution \in Terminal => status = ledger[i].execution

record_execution(i, status) ==
    ledger' = [ledger EXCEPT ![i] =
                  IF @ = None THEN @ ELSE [@ EXCEPT !.execution = status]]

MayRecordResolution(i) ==
    /\ Recorded(i)
    /\ ledger[i].execution = "executed"
    /\ ledger[i].resolved = None

record_resolution(i, resolved) ==
    ledger' = [ledger EXCEPT ![i] =
                  IF @ = None THEN @ ELSE [@ EXCEPT !.resolved = resolved]]
=============================================================================
