--------------------------- MODULE ModelAdapters ---------------------------
(***************************************************************************)
(* What one call of a provider adapter (packages/models/adapters.py) comes *)
(* to: a turn, a ModelProviderError of some kind, or another exception,    *)
(* which nobody above the adapter has a branch for.  A reply of the        *)
(* provider is abstracted to what the three wire formats have in common    *)
(* and the adapters look at.                                               *)
(***************************************************************************)
EXTENDS Integers, Sequences, SequencesExt

FailureKinds ==
  {"rate_limit", "timeout", "quota", "auth", "schema", "server", "transport"}

\* A wire call: whether it has the fields of a call, arguments that decode to
\* an object and a name that is a tool name; and, once it is decoded, the tool
\* and whether its input model accepts the arguments.
WireCall(fields, decodes, named, tool, accepted) ==
  [fields |-> fields, decodes |-> decodes, named |-> named,
   call |-> [tool |-> tool, accepted |-> accepted]]

Turn(calls, output, usage, model) ==
  [is |-> "turn", calls |-> calls, output |-> output, usage |-> usage, model |-> model]
Failure(kind) == [is |-> "failure", kind |-> kind]
Escape == [is |-> "escape"]

-----------------------------------------------------------------------------
StatusKind(code) ==
  CASE code = 429 -> "rate_limit"
    [] code \in {402, 403} -> "quota"
    [] code = 401 -> "auth"
    [] code >= 500 -> "server"
    [] OTHER -> "schema"

\* _post: a timeout, a status, a broken connection or text that is not JSON,
\* JSON that is not an object.
PostKind(reply) ==
  CASE reply.post = "timeout" -> "timeout"
    [] reply.post = "status" -> StatusKind(reply.code)
    [] reply.post \in {"broken", "not_json"} -> "transport"
    [] reply.post = "not_object" -> "schema"

\* Without a key that the provider requires nothing is sent.
SendsNothing(key) == key = "missing"

\* Decoding stops at the first call that is not one: for lack of a field or of
\* an object as a ModelProviderError, for its name as a ValidationError.
Faulty(wire) == ~ (wire.fields /\ wire.decodes /\ wire.named)
CallFault(wire) == IF wire.fields /\ wire.decodes THEN Escape ELSE Failure("schema")

\* Several text parts are joined, and two objects on two lines are no JSON.
StructuredOutput(texts) ==
  IF Len(texts) = 1 /\ texts[1] # "prose" THEN texts[1] ELSE "none"

\* A negative counter is refused by ModelUsage, before the text is looked at.
CountersValid(usage) == usage.input >= 0 /\ usage.cached >= 0 /\ usage.output >= 0

\* The three _parse functions: the list of items or choices, the calls in it,
\* the counters, and the text only if there is no call.
Parse(body) ==
  LET faulty == SelectSeq(body.calls, Faulty) IN
  CASE ~ body.listed -> Failure("schema")
    [] body.listed /\ faulty # <<>> -> CallFault(faulty[1])
    [] body.listed /\ faulty = <<>> /\ ~ CountersValid(body.usage) -> Escape
    [] body.listed /\ faulty = <<>> /\ CountersValid(body.usage) ->
         IF body.calls # <<>>
         THEN Turn([i \in DOMAIN body.calls |-> body.calls[i].call], "none",
                   body.usage, body.model)
         ELSE IF StructuredOutput(body.texts) = "none"
              THEN Failure("schema")
              ELSE Turn(<<>>, StructuredOutput(body.texts), body.usage, body.model)

\* generate of an adapter.  A content encoding that cannot be undone and too
\* many redirects are neither timeouts nor transport errors of httpx: _post has
\* no branch for them.
Outcome(key, reply) ==
  CASE SendsNothing(key) -> Failure("auth")
    [] ~ SendsNothing(key) /\ reply.post = "body" -> Parse(reply.body)
    [] ~ SendsNothing(key) /\ reply.post = "undecodable" -> Escape
    [] ~ SendsNothing(key) /\ reply.post \notin {"body", "undecodable"} ->
         Failure(PostKind(reply))
=============================================================================
