---------------------------- MODULE MCDiagnosis ----------------------------
(***************************************************************************)
(* Instances of Diagnosis for TLC.                                         *)
(***************************************************************************)
EXTENDS Diagnosis, TLC

Basis(f) ==
    [failure |-> f, logs |-> "unavailable", fatalLine |-> FALSE,
     registryError |-> FALSE, memoryLimit |-> TRUE, oomMarker |-> FALSE,
     exit |-> "generic"]

(* One contract the model is asked about and believed, one it can only be  *)
(* half believed on, and three it is not asked about, each for a reason of *)
(* its own: generic exit, weak class, no word of memory                    *)
FewContracts ==
    {Basis("OOMKilled"), Basis("other"), Basis("CrashLoopBackOff"),
     [Basis("CrashLoopBackOff") EXCEPT !.exit = "informative"],
     Basis("OOMKilledDuringInit")}

OneContract == {Basis("OOMKilled")}

(***************************************************************************)
(* The JSON of a contract, the same for all: a bare pod whose container    *)
(* exited with code 137, and an event that says why.                       *)
(***************************************************************************)
Exit == Object(<<"exit_code", "reason">>,
               [exit_code |-> Scalar(<<"1", "37">>), reason |-> String(<<"killed">>)])

Event == Object(<<"message", "reason">>,
                [message |-> String(<<"out", " ", "of", " ", "quote", "mem", "quote">>),
                 reason |-> String(<<"killed">>)])

Sent ==
    Object(<<"container", "events", "logs", "owner", "pod">>,
           [container |-> Object(<<"command", "last_terminated">>,
                                 [command |-> List(<<String(<<"run">>)>>),
                                  last_terminated |-> Exit]),
            events |-> List(<<Event>>),
            logs   |-> Object(<<"content">>, [content |-> String(<<>>)]),
            owner  |-> Scalar(<<"null">>),
            pod    |-> Object(<<"name">>, [name |-> String(<<"web">>)])])

FewPayloads == [c \in FewContracts |-> Sent]
OnePayload  == [c \in OneContract |-> Sent]

Answer(conf, evidence, prose) ==
    [confidence |-> conf, evidence |-> evidence, prose |-> prose]

Cite(source, field, value) ==
    [source |-> source, field |-> field, value |-> value]

Indexed == <<[name |-> "events", index |-> 0]>>

ExitCode(value) ==
    Cite(Path(<<"container">>), Path(<<"container", "last_terminated", "exit_code">>), value)

(* A path split between source and field, an excerpt, escapes and a null   *)
Message == Cite(Indexed, Path(<<"message">>), <<"of", "\\n", "\\q", "mem", "\\q">>)
Owner   == Cite(<<>>, Path(<<"owner">>), <<" ", "null">>)

Plain == <<<<"text">>>>
Quoting(t) == <<<<"says">>, t, <<"then">>>>

SoundAnswers == {Answer(100, <<ExitCode(<<"1", "37">>)>>, Plain)}

BriefAnswers == SoundAnswers \cup {Answer(90, <<>>, Plain)}

(* Sound, with citations of every kind; sound but doubtful; and unsound in *)
(* each way the validator knows: no evidence, a part of a scalar, a field  *)
(* that does not exist, a quotation made up                                *)
FewAnswers ==
    {Answer(100, <<ExitCode(<<"1", "37">>), Message, Owner>>,
            Quoting(<<"out", " ", "of">>)),
     Answer(40, <<Message>>, Plain),
     Answer(90, <<>>, Plain),
     Answer(90, <<ExitCode(<<"1">>)>>, Plain),
     Answer(90, <<Owner, Cite(<<>>, Path(<<"owner", "name">>), <<"web">>)>>, Plain),
     Answer(90, <<Owner>>, Quoting(<<"heap", " ", "space">>))}

Symmetry == Permutations(Runs)
=============================================================================
