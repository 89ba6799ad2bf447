---- MODULE Reviewer ----
(***************************************************************************)
(* The reviewer as a process: what it takes to start one, and what of its  *)
(* output is an answer (src/src/review/claude-reviewer.ts).                *)
(*                                                                         *)
(* An ending is [kind, exit, truncated, printed]; what is printed is an    *)
(* envelope [kind, errored, structured, result], whose two last fields are *)
(* absent or a payload.  A payload is [valid, output]: text that is not    *)
(* JSON and an object that does not match the schema are not valid.        *)
(***************************************************************************)
EXTENDS Integers, Sequences

CONSTANT Outputs    \* what a reviewer may answer: sequences of candidates

NoAnswer == [kind |-> "error", output |-> <<>>]

\* A probe is [kind, exit, systemPromptFile, flags] of the help the program prints.
IsolationAvailable(probe) ==
  probe.kind = "ended" /\ probe.exit = 0 /\ probe.systemPromptFile /\ probe.flags

ValidateAnswer(payload) ==
  IF payload.valid THEN [kind |-> "ok", output |-> payload.output] ELSE NoAnswer

\* The structured output is the answer when there is one; the result only without it.
ParseReviewerOutput(printed) ==
  CASE printed.kind # "envelope" \/ printed.errored -> NoAnswer
    [] printed.kind = "envelope" /\ ~ printed.errored /\ printed.structured # <<>> -> ValidateAnswer(printed.structured[1])
    [] OTHER -> IF printed.result # <<>> THEN ValidateAnswer(printed.result[1]) ELSE NoAnswer

\* What a process that failed printed only names the failure.
Invocation(ending) ==
  IF ending.kind # "ended" \/ ending.truncated \/ ending.exit # 0 THEN NoAnswer
  ELSE ParseReviewerOutput(ending.printed)

Payloads ==
  {[valid |-> TRUE, output |-> o] : o \in Outputs} \union {[valid |-> FALSE, output |-> <<>>]}
Optional == {<<>>} \union {<<p>> : p \in Payloads}
Printed ==
  [kind : {"envelope"}, errored : BOOLEAN, structured : Optional, result : Optional]
    \union {[kind |-> "garbage", errored |-> FALSE, structured |-> <<>>, result |-> <<>>]}
Endings == [kind : {"spawn-failed", "timed-out", "ended"}, exit : {0, 1}, truncated : BOOLEAN, printed : Printed]

Probes == [kind : {"spawn-failed", "timed-out", "ended"}, exit : {0, 1}, systemPromptFile : BOOLEAN, flags : BOOLEAN]

\* What a probe and an invocation can come to.
Isolations == {IsolationAvailable(probe) : probe \in Probes}
Invocations == {Invocation(ending) : ending \in Endings}
====
