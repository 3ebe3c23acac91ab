----------------------------- MODULE Validator -----------------------------
(***************************************************************************)
(* The mechanical check of a diagnosis against the contract the model was  *)
(* shown: every citation must name a field and repeat what stands there,   *)
(* every long quotation must be in the text the agent collected.           *)
(*                                                                         *)
(* A text is a sequence of letters; a letter is a run of characters that   *)
(* nothing here takes apart, " " any white space, "\n" and "\q" the two    *)
(* characters of an escaped line break and quote, and "\" a backslash that *)
(* escapes nothing. Case is folded before and after alike and left out.    *)
(***************************************************************************)
EXTENDS Integers, SequencesExt


CONSTANTS
    SCALAR_MAX_LENGTH,  \* the length up to which a value is a scalar
    MIN_QUOTED_LENGTH   \* the least length of a quotation that is checked

ASSUME ValidatorAssumption ==
    SCALAR_MAX_LENGTH \in Nat /\ MIN_QUOTED_LENGTH \in Nat

Text == Seq(STRING)

NoIndex == -1

(* A segment of a dotted path: a name, an index, or both                   *)
Segment == [name: STRING, index: Nat \cup {NoIndex}]

Citation == [source: Seq(Segment), field: Seq(Segment) \ {<<>>}, value: Text]

(***************************************************************************)
(* A node of the contract as JSON. Its text is what _render gives: strings *)
(* as they are, everything else as JSON, in which strings are quoted.      *)
(***************************************************************************)
String(t)  == [kind |-> "string", text |-> t]
Scalar(t)  == [kind |-> "scalar", text |-> t]  \* a number, true, false or null
Absent     == [kind |-> "absent", text |-> <<>>]

Json(node) ==
    IF node.kind # "string" THEN node.text
    ELSE <<"quote">> \o [k \in DOMAIN node.text |->
                             IF node.text[k] = "quote" THEN "\\q" ELSE node.text[k]]
         \o <<"quote">>

Commas(parts) ==
    FoldLeft(LAMBDA t, p : IF t = <<>> THEN p ELSE t \o <<",", " ">> \o p, <<>>, parts)

List(s) ==
    [kind |-> "list", items |-> s,
     text |-> <<"[">> \o Commas([k \in DOMAIN s |-> Json(s[k])]) \o <<"]">>]

Object(keys, o) ==
    [kind |-> "object", members |-> o,
     text |-> <<"{">>
              \o Commas([k \in DOMAIN keys |->
                            <<"quote", keys[k], "quote", ":", " ">> \o Json(o[keys[k]])])
              \o <<"}">>]

(***************************************************************************)
(* resolve_path and resolve_citation: a path may be split between the      *)
(* citation's source and its field; it is tried whole first, then joined.  *)
(***************************************************************************)
Member(node, name) ==
    IF name = "" THEN node
    ELSE IF node.kind = "object" /\ name \in DOMAIN node.members
    THEN node.members[name] ELSE Absent

Item(node, index) ==
    IF index = NoIndex THEN node
    ELSE IF node.kind = "list" /\ index < Len(node.items)
    THEN node.items[index + 1] ELSE Absent

Blank == [name |-> "", index |-> NoIndex]

resolve_path(payload, path) ==
    FoldLeft(LAMBDA node, s : IF s = Blank THEN Absent
                              ELSE Item(Member(node, s.name), s.index),
             payload, path)

resolve_citation(payload, c) ==
    LET whole == resolve_path(payload, c.field) IN
    IF whole.kind # "absent" \/ c.source = <<>> THEN whole
    ELSE resolve_path(payload, c.source \o c.field)

(***************************************************************************)
(* collected_text: what the workload and the cluster said, in this order.  *)
(***************************************************************************)
Path(names) == [k \in DOMAIN names |-> [name |-> names[k], index |-> NoIndex]]

Said(node) == IF node.kind = "string" THEN node.text ELSE <<>>

Fields(node, names) ==
    [k \in DOMAIN names |-> Said(Member(node, names[k]))]

Items(node) == IF node.kind = "list" THEN node.items ELSE <<>>

collected_text(payload) ==
    LET at(names) == resolve_path(payload, Path(names))
        said(node) == [k \in DOMAIN Items(node) |-> Said(Items(node)[k])]
        events == Items(at(<<"events">>))
        parts ==
            Fields(at(<<"logs">>), <<"content">>)
            \o Fields(at(<<"container">>), <<"waiting_message", "waiting_reason", "image">>)
            \o Fields(at(<<"container", "last_terminated">>), <<"message", "reason">>)
            \o said(at(<<"container", "command">>)) \o said(at(<<"container", "args">>))
            \o FlattenSeq([k \in DOMAIN events |->
                              Fields(events[k], <<"message", "reason">>)])
            \o Fields(at(<<"owner">>), <<"name", "image", "kind">>)
            \o Fields(at(<<"pod">>), <<"name", "namespace", "node_name">>)
    IN  FlattenSeq([k \in DOMAIN parts |-> parts[k] \o <<" ">>])

-----------------------------------------------------------------------------
(* Runs of white space become one space, and none is left at either end    *)
normalise(t) ==
    LET kept(k) == \/ t[k] # " "
                   \/ /\ k > 1 /\ t[k - 1] # " "
                      /\ \E m \in k + 1 .. Len(t) : t[m] # " "
        upto[k \in 0 .. Len(t)] == IF k = 0 THEN <<>>
                                  ELSE IF kept(k) THEN Append(upto[k - 1], t[k])
                                  ELSE upto[k - 1]
    IN  upto[Len(t)]

(* JSON escapes are undone, unless one of them is none                     *)
unescape(t) ==
    IF \E k \in DOMAIN t : t[k] = "\\" THEN t
    ELSE [k \in DOMAIN t |-> IF t[k] = "\\n" THEN " "
                             ELSE IF t[k] = "\\q" THEN "quote" ELSE t[k]]

Excerpt(a, b) ==
    \E k \in 0 .. Len(b) - Len(a) : \A j \in DOMAIN a : a[j] = b[k + j]

(* Fault: any value may be cited by a part of it *)
value_matches_part(cited, actual) == Excerpt(cited, actual)

value_matches(cited, actual) ==
    \/ cited = actual
    \/ Len(actual) > SCALAR_MAX_LENGTH /\ Excerpt(cited, actual)

citation_ok(payload, c) ==
    LET node   == resolve_citation(payload, c)
        actual == normalise(node.text)
        raw    == normalise(c.value)
        cited  == IF value_matches(raw, actual) THEN raw
                  ELSE normalise(unescape(c.value))
    IN  node.kind # "absent" /\ cited # <<>> /\ value_matches(cited, actual)

(***************************************************************************)
(* The quotations re.findall finds in the prose, which quote marks cut     *)
(* into spans. Mark k, between spans k and k + 1, opens a quotation if it  *)
(* does not close one, if another mark follows, and if what is in between  *)
(* is long enough. After a short quotation the closing mark is tried next. *)
(***************************************************************************)
Quoted(prose) ==
    LET opens[k \in 0 .. Len(prose)] ==
            /\ k > 0
            /\ ~opens[k - 1]
            /\ k + 1 < Len(prose)
            /\ Len(prose[k + 1]) >= MIN_QUOTED_LENGTH
    IN  {prose[k + 1] : k \in {k \in 1 .. Len(prose) : opens[k]}}

(* Fault: the prose is not looked at *)
validate_citations(d, payload) ==
    /\ d.evidence # <<>>
    /\ \A k \in DOMAIN d.evidence : citation_ok(payload, d.evidence[k])

validate(d, payload) ==
    /\ d.evidence # <<>>
    /\ \A k \in DOMAIN d.evidence : citation_ok(payload, d.evidence[k])
    /\ \A q \in Quoted(d.prose) :
          Excerpt(normalise(q), normalise(collected_text(payload)))

-----------------------------------------------------------------------------
(***************************************************************************)
(* What validation is to ensure, said without its order of attempts.       *)
(***************************************************************************)

(* A citation stands in the contract: at its path, with its source in      *)
(* front or without, there is a value, and what is cited is all of it, or  *)
(* an excerpt of it where it is long text.                                 *)
Stands(payload, c) ==
    \E path \in {c.field, c.source \o c.field}, v \in {c.value, unescape(c.value)} :
        LET node   == resolve_path(payload, path)
            actual == normalise(node.text)
            cited  == normalise(v)
        IN  /\ node.kind # "absent"
            /\ cited # <<>>
            /\ cited # actual => Len(actual) > SCALAR_MAX_LENGTH /\ Excerpt(cited, actual)

(* Every second span of the prose is quoted. If none of them is too short  *)
(* to be looked at, no word in them is made up.                            *)
NothingMadeUp(payload, prose) ==
    LET spans    == {k \in 1 .. Len(prose) - 1 : k % 2 = 0}
        words(t) == {t[k] : k \in DOMAIN t} \ {" "}
    IN  (\A k \in spans : Len(prose[k]) >= MIN_QUOTED_LENGTH) =>
            \A k \in spans : words(prose[k]) \subseteq words(collected_text(payload))
=============================================================================
