----------------------------- MODULE HttpResponse -----------------------------
(***************************************************************************)
(* How the outcome of an invocation travels back: the service's result or  *)
(* error (error/invocation.rs) is written as an HTTP response, with        *)
(* Problem Details for errors (wire/mod.rs, wire/problem.rs), read by the  *)
(* client, classified for its policies (resilience/classify.rs), and may   *)
(* then be returned by a service that is itself the server of another      *)
(* call.  A peer that is not a Fusen server may answer anything.           *)
(*                                                                         *)
(* Bodies have a form and a size; the texts of messages and details are    *)
(* their lengths.  An option is a set of at most one value, a header the   *)
(* sequence of its values.  Delays are counted in half seconds, Retry-     *)
(* After in seconds.                                                       *)
(***************************************************************************)
EXTENDS Naturals, Sequences, FiniteSets, TLC

CONSTANTS Statuses,        \* statuses applications and other peers choose
          Delays,          \* delays of RetryHint::After, in half seconds
          Sizes,           \* sizes of the results of services
          ServerLimit,     \* max_response_body of the servers
          ClientLimit,     \* max_response_body of the clients
          FreeBytes,       \* what may be left of a client's response budget
          Chunk,           \* CHUNK_RESERVATION
          EmergencyLimit,  \* EMERGENCY_PROBLEM_LIMIT
          MaxSeconds,      \* bound on Retry-After values
          MaxHops          \* bound on the servers in a row

VARIABLES
  call,    \* the call: HEAD, invocation controls, the client's free bytes
  raised,  \* what the first service returned, {} when the peer is foreign
  outcome, \* what the server at hand has to answer
  sent,    \* the response on its way
  got,     \* what the client's caller is given
  hops,    \* how many responses were decoded
  intact,  \* no decoded response was to HEAD, or broken, or too large
  pc

vars == <<call, raised, outcome, sent, got, hops, intact, pc>>

-----------------------------------------------------------------------------
(***************************************************************************)
(* Errors                                                                  *)
(***************************************************************************)

\* ErrorCategory::canonical_status; Unknown has none.
Canonical ==
  [InvalidArgument |-> 400, NotFound |-> 404, Conflict |-> 409, Unauthenticated |-> 401,
   PermissionDenied |-> 403, PayloadTooLarge |-> 413, ResourceExhausted |-> 429,
   Unavailable |-> 503, DeadlineExceeded |-> 504, Cancelled |-> 499,
   Unimplemented |-> 501, Internal |-> 500, DataLoss |-> 502]

CategoryFromStatus(status) ==
  CASE status = 405 -> "InvalidArgument"
    [] status = 408 -> "DeadlineExceeded"
    [] \E c \in DOMAIN Canonical : Canonical[c] = status ->
         CHOOSE c \in DOMAIN Canonical : Canonical[c] = status
    [] OTHER -> "Unknown"

IsSuccess(status) == status \in 200 .. 299
IsClientError(status) == status \in 400 .. 499
IsServerError(status) == status \in 500 .. 599
IsTransientStatus(status) == status \in {408, 425, 429, 500, 502, 503, 504}

Never == [retryable |-> FALSE, after |-> {}]
Retryable == [retryable |-> TRUE, after |-> {}]
After(delay) == [retryable |-> TRUE, after |-> {delay}]

HeaderNames == {"connection", "content-type", "content-length", "x-request-id",
                "retry-after", "x-application"}
NoHeaders == [n \in HeaderNames |-> <<>>]

\* response_headers_without_control and response_headers_for_decoder
WithoutControl(headers) ==
  [n \in HeaderNames |-> IF n \in {"retry-after", "x-application"} THEN headers[n] ELSE <<>>]
ForDecoder(headers) ==
  [n \in HeaderNames |-> IF n \in {"connection", "x-request-id"} THEN <<>> ELSE headers[n]]

\* An error, or with kind Success a response with a body of that size.
Outcome(kind, category, status, code, message, details, origin, hint) ==
  [kind |-> kind, category |-> category, status |-> status, code |-> code,
   message |-> message, details |-> details, origin |-> origin, hint |-> hint,
   headers |-> NoHeaders, size |-> 0]

\* Error::framework and Error::local
FrameworkError(category, code) ==
  Outcome("Framework", category, Canonical[category], code, "short", "none", "Local", Never)

\* Error::application_parts
ApplicationError(category, status) ==
  Outcome("Application", category, status, "app", "short", "none", "Local", Never)

\* Error::from_remote_parts
RemoteError(kind, category, status, code, message, details, hint) ==
  Outcome(kind, category, status, code, message, details, "Remote",
          IF kind = "Application" THEN Never ELSE hint)

\* remote_protocol_error
ProtocolError(code) ==
  RemoteError("Framework", "DataLoss", 502, code, "short", "none", Never)

SuccessOf(status, size) ==
  [Outcome("Success", "none", status, "none", "none", "none", "Local", Never) EXCEPT !.size = size]

\* with_retry_hint: an application error keeps its own.
WithRetryHint(error, hint) ==
  [error EXCEPT !.hint = IF error.kind = "Application" THEN @ ELSE hint]

\* What services return: Error::application, Error::application_status,
\* Error::local and the framework's own, with headers, details and hints, and
\* results.
OwnHeaders ==
  {NoHeaders,
   [NoHeaders EXCEPT !["x-application"] = <<"v">>, !["connection"] = <<"close">>,
                     !["x-request-id"] = <<"theirs">>],
   [NoHeaders EXCEPT !["retry-after"] = <<"1">>]}

Hints == {Never, Retryable} \cup {After(d) : d \in Delays}

ApplicationErrors ==
  {ApplicationError(c, Canonical[c]) : c \in DOMAIN Canonical}
    \cup {ApplicationError(CategoryFromStatus(s), s) :
            s \in {s \in Statuses : IsClientError(s) \/ IsServerError(s)}}

Worded(error, message, details, headers) ==
  [error EXCEPT !.message = message, !.details = details, !.headers = headers]

Errors ==
  {Worded(e, m, d, h) :
     e \in ApplicationErrors, m \in {"short", "long"}, d \in {"none", "small", "large"},
     h \in OwnHeaders}
  \cup {Worded(WithRetryHint(FrameworkError(c, "local"), hint), m, "none", h) :
          c \in DOMAIN Canonical, m \in {"short", "long"}, hint \in Hints, h \in OwnHeaders}

Results == {[SuccessOf(s, n) EXCEPT !.headers = h] :
              s \in {200, 204, 205}, n \in Sizes, h \in OwnHeaders}

-----------------------------------------------------------------------------
(***************************************************************************)
(* Problem Details                                                         *)
(***************************************************************************)

Weight(text) == CASE text = "none" -> 0 [] text = "long" -> EmergencyLimit
                  [] text = "large" -> EmergencyLimit [] OTHER -> 1

ProblemSize(problem) == 1 + Weight(problem.message) + Weight(problem.details)

\* A type is a URN of Fusen's and its parts, or another URI.
FusenType(category, code) == [uri |-> "fusen", parts |-> <<category, code>>]

\* The status of the error, the canonical one for every kind.
ProblemFromErrorCanonical(error) ==
  LET category == IF error.category \in DOMAIN Canonical THEN error.category ELSE "Internal" IN
  [type |-> FusenType(IF error.kind = "Application" THEN "application" ELSE category, error.code),
   status |-> Canonical[category],
   message |-> error.message,
   code |-> {error.code},
   requestId |-> {"ours"},
   retryable |-> error.kind = "Framework" /\ error.hint.retryable,
   details |-> error.details]

\* problem_from_error
ProblemFromError(error) ==
  LET application == error.kind = "Application"
      category == IF application THEN "application"
                  ELSE IF error.category \in DOMAIN Canonical THEN error.category
                  ELSE "Internal"
  IN [type |-> FusenType(category, error.code),
      status |-> IF application THEN error.status ELSE Canonical[category],
      message |-> IF category = "Internal" THEN "scrubbed" ELSE error.message,
      code |-> {error.code},
      requestId |-> {"ours"},
      retryable |-> ~application /\ error.hint.retryable,
      details |-> IF application /\ error.origin = "Local" THEN error.details ELSE "none"]

\* bounded_problem: what does not fit goes without its optional fields.
BoundedProblem(problem) ==
  IF ProblemSize(problem) <= EmergencyLimit THEN problem
  ELSE [problem EXCEPT !.message = "none", !.details = "none"]

Body(form, size, problem) == [form |-> form, size |-> size, problem |-> problem]
NoProblem == {}

\* Whole seconds, the rest of a second dropped.
RetryAfterSecondsDown(delay) == ToString(delay \div 2)

\* encode_problem: a started second counts.
RetryAfterSeconds(delay) == ToString((delay + 1) \div 2)

\* encode_problem
EncodeProblem(error, controls) ==
  LET full == ProblemFromError(error)
      problem == BoundedProblem([full EXCEPT !.requestId = IF controls THEN @ ELSE {}])
      kept == IF error.origin = "Local" THEN WithoutControl(error.headers) ELSE NoHeaders
      retryAfter == IF error.kind = "Framework" /\ error.origin = "Local"
                      THEN {RetryAfterSeconds(d) : d \in error.hint.after} ELSE {}
  IN [version |-> "1.1", status |-> full.status, whole |-> TRUE,
      headers |-> [kept EXCEPT
                     !["retry-after"] = IF retryAfter = {} THEN @
                                        ELSE <<CHOOSE s \in retryAfter : TRUE>>,
                     !["content-type"] = <<"problem+json">>,
                     !["content-length"] = <<ToString(ProblemSize(problem))>>,
                     !["x-request-id"] = IF controls THEN <<"ours">> ELSE <<>>],
      body |-> Body("problem", ProblemSize(problem), {problem})]

\* parse_retry_after: delta-seconds or a date, given once.
Dates == [past |-> 0, soon |-> 1]
ParseRetryAfter(headers) ==
  LET values == headers["retry-after"] IN
  IF Len(values) # 1 THEN {}
  ELSE {2 * s : s \in {s \in 0 .. MaxSeconds : ToString(s) = values[1]}}
         \cup {2 * Dates[d] : d \in {d \in DOMAIN Dates : d = values[1]}}

NormalizedRetryHint(kind, status, headers) ==
  IF kind = "Application" \/ ~IsTransientStatus(status) THEN Never
  ELSE [retryable |-> TRUE, after |-> ParseRetryAfter(headers)]

\* status_error
StatusError(status, headers) ==
  LET kind == IF IsClientError(status) THEN "Application" ELSE "Framework" IN
  RemoteError(kind, CategoryFromStatus(status), status, "remote_http_error", "short", "none",
              NormalizedRetryHint(kind, status, headers))

\* decode_head_error
HeadError(status, headers) ==
  RemoteError("Framework", CategoryFromStatus(status), status, "remote_head_error", "short",
              "none", NormalizedRetryHint("Framework", status, headers))

\* parse_problem_type: the kind and the category, {} when the type is not valid.
ParseProblemType(problem) ==
  LET parts == problem.type.parts IN
  CASE problem.type.uri = "fusen" ->
         IF Len(parts) # 2 \/ parts[1] = "" \/ parts[2] = "" \/ problem.code # {parts[2]} THEN {}
         ELSE IF parts[1] = "application"
           THEN {[kind |-> "Application", category |-> CategoryFromStatus(problem.status)]}
         ELSE {[kind |-> "Framework", category |-> c] : c \in {parts[1]} \cap DOMAIN Canonical}
    [] problem.type.uri = "uri" ->
         {[kind |-> IF problem.status < 500 THEN "Application" ELSE "Framework",
           category |-> CategoryFromStatus(problem.status)]}
    [] OTHER -> {}  \* Fusen's prefix in other letters, or no URI reference

\* decode_problem for a body that is Problem Details, with validate_problem.
DecodeProblem(status, problem, headers, controls) ==
  LET semantics == ParseProblemType(problem)
      meaning == CHOOSE m \in semantics : TRUE
  IN IF ~IsClientError(status) /\ ~IsServerError(status)
       THEN ProtocolError("invalid_problem_status")
     ELSE IF problem.status # status
       THEN IF problem.type.uri = "fusen" THEN ProtocolError("invalid_problem_status")
            ELSE StatusError(status, NoHeaders)
     ELSE IF controls /\ problem.requestId # {"ours"}
       THEN ProtocolError("invalid_problem_request_id")
     ELSE IF semantics = {} THEN ProtocolError("invalid_problem_type")
     ELSE IF /\ meaning.kind = "Framework" /\ problem.type.uri = "fusen"
             /\ Canonical[meaning.category] # status
       THEN ProtocolError("invalid_problem_status")
     ELSE   RemoteError(meaning.kind, meaning.category, status,
                        IF problem.code = {} THEN "remote_http_error"
                          ELSE CHOOSE c \in problem.code : TRUE,
                        IF problem.message = "none" THEN "fallback" ELSE problem.message,
                        IF meaning.kind = "Application" THEN problem.details ELSE "none",
                        NormalizedRetryHint(meaning.kind, status, headers))

\* The error decoder of JsonCodec.
DecodeError(response, controls) ==
  IF response.body.form = "problem"
    THEN DecodeProblem(response.status, CHOOSE p \in response.body.problem : TRUE,
                       ForDecoder(response.headers), controls)
    ELSE StatusError(response.status, ForDecoder(response.headers))

-----------------------------------------------------------------------------
(***************************************************************************)
(* What the client's policies make of an error                             *)
(***************************************************************************)

ClassifyError(error) ==
  LET local == error.origin = "Local" IN
  IF error.kind = "Framework" /\ ~local /\ error.category = "DataLoss" THEN "Protocol"
  ELSE IF error.kind = "Application"
    THEN IF local THEN "InvalidRequest"
         ELSE IF IsServerError(error.status) THEN "RemoteFailure"
         ELSE "Application"
  ELSE IF local
    THEN IF error.hint.retryable THEN "Transport" ELSE
         (CASE error.category = "DeadlineExceeded" -> "Timeout"
            [] error.category = "Cancelled" -> "Cancelled"
            [] error.category = "DataLoss" -> "Protocol"
            [] error.category \in {"PayloadTooLarge", "ResourceExhausted", "Unavailable"} ->
                 "LocalRejection"
            [] OTHER -> "InvalidRequest")
  ELSE IF IsTransientStatus(error.status)
    THEN (CASE ~error.hint.retryable -> "RemoteFailure"
            [] error.hint.retryable /\ error.status = 408 -> "Timeout"
            [] error.hint.retryable /\ error.status = 429 -> "Overloaded"
            [] error.hint.retryable /\ error.status \in 502 .. 504 -> "Unavailable"
            [] OTHER -> "RemoteServer")
  ELSE IF IsServerError(error.status) THEN "RemoteFailure"
  ELSE "InvalidRequest"

\* FailureClass::is_retryable
IsRetryable(class) ==
  class \in {"Connect", "Transport", "Timeout", "Unavailable", "Overloaded", "RemoteServer"}

-----------------------------------------------------------------------------
(***************************************************************************)
(* The server                                                              *)
(***************************************************************************)

NoOutcome == SuccessOf(0, 0)
NoResponse == [version |-> "none", status |-> 0, whole |-> TRUE, headers |-> NoHeaders,
               body |-> Body("empty", 0, NoProblem)]

Suppressed(status) == call.head \/ status \in {204, 205}

\* encode_success
EncodeSuccess ==
  LET total == IF Suppressed(outcome.status) THEN 0 ELSE outcome.size IN
  /\ pc = "serving"
  /\ outcome.kind = "Success"
  /\ IF total > ServerLimit
       THEN /\ outcome' = FrameworkError("Internal", "response_too_large")
            /\ raised' = {outcome'}
            /\ UNCHANGED <<sent, pc>>
       ELSE /\ sent' = [version |-> "1.1", status |-> outcome.status, whole |-> TRUE,
                        headers |-> [WithoutControl(outcome.headers) EXCEPT
                          !["content-type"] = IF Suppressed(outcome.status) THEN @ ELSE <<"json">>,
                          !["content-length"] = <<ToString(total)>>,
                          !["x-request-id"] = IF call.controls THEN <<"ours">> ELSE <<>>],
                        body |-> Body(IF total = 0 THEN "empty" ELSE "value", total, NoProblem)]
            /\ pc' = "sent"
            /\ UNCHANGED <<outcome, raised>>
  /\ UNCHANGED <<call, got, hops, intact>>

AnswerProblem ==
  /\ pc = "serving"
  /\ outcome.kind # "Success"
  /\ sent' = EncodeProblem(outcome, call.controls)
  /\ pc' = "sent"
  /\ UNCHANGED <<call, raised, outcome, got, hops, intact>>

\* The connection fails while the body is on its way.
BreakStream ==
  /\ pc = "sent"
  /\ sent.whole
  /\ sent' = [sent EXCEPT !.whole = FALSE]
  /\ UNCHANGED <<call, raised, outcome, got, hops, intact, pc>>

-----------------------------------------------------------------------------
(***************************************************************************)
(* The client: decode_http_response                                        *)
(***************************************************************************)

\* The response is answered with this, and is as good as it was sent.
Decoded(result, kept) ==
  /\ got' = result
  /\ hops' = hops + 1
  /\ intact' = (intact /\ kept)
  /\ pc' = "decoded"
  /\ UNCHANGED <<call, raised, outcome, sent>>

\* The first of the values is looked at, whatever follows it.
RequestIdMatchesFirst ==
  LET values == sent.headers["x-request-id"] IN ~call.controls \/ (values # <<>> /\ values[1] = "ours")

\* validate_response_request_id
RequestIdMatches == ~call.controls \/ sent.headers["x-request-id"] = <<"ours">>

VersionSupported == sent.version \in {"1.1", "2"}

RejectHead ==
  /\ pc = "sent"
  /\ ~VersionSupported \/ ~RequestIdMatches
  /\ LET error == ProtocolError(IF VersionSupported THEN "invalid_response_request_id"
                                ELSE "invalid_http_version")
     IN Decoded([error EXCEPT !.headers = WithoutControl(sent.headers)], FALSE)

HeadAccepted == pc = "sent" /\ VersionSupported /\ RequestIdMatches

NullResponse == [SuccessOf(sent.status, 0) EXCEPT !.headers = WithoutControl(sent.headers),
                                                  !.origin = "Remote"]

DecodeHead ==
  /\ HeadAccepted
  /\ call.head
  /\ IF IsSuccess(sent.status) THEN Decoded(NullResponse, TRUE)
     ELSE Decoded([HeadError(sent.status, ForDecoder(sent.headers)) EXCEPT
                     !.headers = WithoutControl(sent.headers)], FALSE)

DecodeNoContent ==
  /\ HeadAccepted
  /\ ~call.head
  /\ sent.status \in {204, 205}
  /\ Decoded(NullResponse, TRUE)

HasBody == HeadAccepted /\ ~call.head /\ sent.status \notin {204, 205}

\* parse_response_content_length
Length == LET values == sent.headers["content-length"] IN
          {n \in 0 .. 2 * EmergencyLimit : Len(values) = 1 /\ ToString(n) = values[1]}
LengthIsValid == sent.headers["content-length"] = <<>> \/ Length # {}

\* read_body_with_role: what is reserved to hold the body.
CeilChunk(n) == ((n + Chunk - 1) \div Chunk) * Chunk
Reserved == LET announced == IF Length = {} THEN 0 ELSE CHOOSE n \in Length : TRUE
            IN announced + (IF sent.body.size <= announced THEN 0
                            ELSE CeilChunk(sent.body.size - announced))

TooLarge == FrameworkError("PayloadTooLarge", "response_too_large")
Exhausted == FrameworkError("ResourceExhausted", "response_byte_budget_exhausted")

\* Why the body cannot be read, in the order in which it is found out; a stream may
\* break before or after too much was read of it.
BodyFailure ==
  IF ~LengthIsValid THEN {ProtocolError("invalid_content_length")}
  ELSE IF \E n \in Length : n > ClientLimit THEN {TooLarge}
  ELSE IF \E n \in Length : n > call.free THEN {Exhausted}
  ELSE IF ~sent.whole
    THEN {ProtocolError("response_body_stream_failed")}
           \cup (IF sent.body.size > ClientLimit THEN {TooLarge} ELSE {})
           \cup (IF Reserved > call.free THEN {Exhausted} ELSE {})
  ELSE IF sent.body.size > ClientLimit THEN {TooLarge}
  ELSE IF Reserved > call.free THEN {Exhausted}
  ELSE IF Length # {} /\ Length # {sent.body.size}
    THEN {ProtocolError("content_length_mismatch")}
  ELSE {}

RejectBody ==
  /\ HasBody
  /\ \E error \in BodyFailure :
       Decoded([error EXCEPT !.headers = IF error.origin = "Remote" THEN WithoutControl(sent.headers)
                                         ELSE @], FALSE)

\* The error decoder, and what decode_http_response adds.
DecodeFailure ==
  /\ HasBody
  /\ BodyFailure = {}
  /\ ~IsSuccess(sent.status)
  /\ Decoded([DecodeError(sent, call.controls) EXCEPT !.headers = WithoutControl(sent.headers)], TRUE)

\* media_type_matches with the media type the operation produces.
IsJson(values) == Len(values) = 1 /\ values[1] \in {"json", "problem+json"}

\* The response decoder of JsonCodec.
DecodeSuccess ==
  /\ HasBody
  /\ BodyFailure = {}
  /\ IsSuccess(sent.status)
  /\ IF IsJson(sent.headers["content-type"])
       THEN Decoded([NullResponse EXCEPT !.size = sent.body.size], TRUE)
       ELSE Decoded([ProtocolError("invalid_content_type") EXCEPT
                       !.headers = WithoutControl(sent.headers)], FALSE)

\* The caller is a service, and returns what it was given to its own caller.
Relay(next) ==
  /\ pc = "decoded"
  /\ hops < MaxHops
  /\ raised # {}
  /\ outcome' = got
  /\ call' = next
  /\ sent' = NoResponse /\ got' = NoOutcome
  /\ pc' = "serving"
  /\ UNCHANGED <<raised, hops, intact>>

-----------------------------------------------------------------------------
(***************************************************************************)
(* Other peers                                                             *)
(***************************************************************************)

Calls == [head : BOOLEAN, controls : BOOLEAN, free : FreeBytes]

Problems ==
  {[type |-> t, status |-> s, message |-> "short", code |-> c, requestId |-> id,
    retryable |-> FALSE, details |-> "small"] :
     t \in {FusenType("application", "app"), FusenType("Unavailable", "app"),
            FusenType("odd", "app"), FusenType("", "app"), [uri |-> "fusen", parts |-> <<"Internal">>],
            [uri |-> "Fusen", parts |-> <<"Internal", "app">>],
            [uri |-> "uri", parts |-> <<>>], [uri |-> "invalid", parts |-> <<>>]},
     s \in {404, 503}, c \in {{}, {"app"}}, id \in {{}, {"ours"}, {"theirs"}}}

Bodies == {Body("problem", 3, {p}) : p \in Problems}
            \cup {Body("empty", 0, NoProblem), Body("value", 2, NoProblem)}

Foreign(version, status, headers, body) ==
  [version |-> version, status |-> status, whole |-> TRUE, headers |-> headers, body |-> body]

Polite(retryAfter) ==
  [NoHeaders EXCEPT !["x-request-id"] = <<"ours">>, !["content-type"] = <<"json">>,
                    !["retry-after"] = retryAfter]

Odd(id, type, length) ==
  [NoHeaders EXCEPT !["x-request-id"] = id, !["content-type"] = type, !["content-length"] = length]

\* Any body with any status, and any head with a value or a problem.
ForeignResponses ==
  {Foreign("1.1", s, Polite(r), b) :
     s \in Statuses \cup {200, 204}, b \in Bodies,
     r \in {<<>>, <<"2">>, <<"soon">>, <<"past">>, <<"never">>, <<"1", "2">>}}
  \cup
  {Foreign(v, s, Odd(id, t, l), b) :
     v \in {"1.0", "1.1", "2"}, s \in {200, 204, 404},
     id \in {<<>>, <<"ours">>, <<"theirs">>, <<"ours", "theirs">>},
     t \in {<<>>, <<"json">>, <<"text">>, <<"json", "json">>},
     l \in {<<>>, <<"2">>, <<"1">>, <<"x">>, <<"2", "2">>},
     b \in {Body("value", 2, NoProblem), Body("empty", 0, NoProblem)}}

Init ==
  /\ call \in Calls
  /\ got = NoOutcome /\ hops = 0 /\ intact = TRUE
  /\ \/ /\ outcome \in Errors \cup Results
        /\ raised = {outcome} /\ sent = NoResponse /\ pc = "serving"
     \/ /\ sent \in ForeignResponses
        /\ raised = {} /\ outcome = NoOutcome /\ pc = "sent"

Next ==
  \/ EncodeSuccess \/ AnswerProblem
  \/ BreakStream
  \/ RejectHead \/ DecodeHead \/ DecodeNoContent
  \/ RejectBody \/ DecodeFailure \/ DecodeSuccess
  \/ \E next \in Calls : Relay(next)

Spec == Init /\ [][Next]_vars

-----------------------------------------------------------------------------
(***************************************************************************)
(* Properties                                                              *)
(***************************************************************************)

First == CHOOSE o \in raised : TRUE
HasArrived == pc = "decoded" /\ raised # {} /\ intact

\* What a service returned is what the caller at the end of any number of servers
\* is told: a result as a result, an application error with its category, status
\* and code and never as one to retry, a framework error with its category and
\* code; messages and details as far as problem_from_error and bounded_problem let
\* them pass.  No answer of a Fusen server is taken for a protocol error unless it
\* reports lost data.
OutcomeArrives ==
  HasArrived =>
    /\ got.kind = First.kind /\ got.code = First.code
    /\ got.category = First.category /\ got.status = First.status
    /\ got.kind = "Application" => ~IsRetryable(ClassifyError(got))
    /\ got.kind # "Success" /\ First.category # "DataLoss" => ClassifyError(got) # "Protocol"
    /\ got.kind = "Application" /\ hops = 1 /\ First.message = "short" /\ First.details # "large" =>
         got.details = First.details /\ got.message = First.message
    /\ got.kind = "Framework" /\ First.category = "Internal" => got.message # First.message
    /\ got.kind = "Success" /\ hops = 1 /\ ~Suppressed(got.status) => got.size = First.size
    /\ hops = 1 => got.headers["x-application"] = First.headers["x-application"]

\* A client waits at least as long as the server asked: the delay of a framework
\* error with a transient status arrives, in whole seconds, as no less than it was.
WaitsAsTold ==
  HasArrived /\ hops = 1 /\ First.kind = "Framework" /\ First.hint.after # {}
    /\ IsTransientStatus(First.status) =>
      \E d \in got.hint.after : \A asked \in First.hint.after : asked <= d

\* The head names another call, or a problem of this status in its body does.
IsAnothers ==
  \/ sent.headers["x-request-id"] # <<"ours">>
  \/ /\ ~call.head /\ sent.status \notin {204, 205} /\ ~IsSuccess(sent.status)
     /\ \E p \in sent.body.problem : p.status = sent.status /\ p.requestId # {"ours"}

\* With invocation controls a response that does not carry the call's request id
\* once, in its head and in the Problem Details that decode, is nobody's answer: it
\* is neither a result nor an application's error, and it is not tried again.
NotAnothersAnswer ==
  pc = "decoded" /\ call.controls /\ IsAnothers =>
    /\ got.kind = "Framework"
    /\ got.origin = "Remote" => ClassifyError(got) = "Protocol"

\* Retry-After is the least a client waits before it tries again, whatever the body
\* that comes with it says.
RetryAfterIsMinimum ==
  pc = "decoded" /\ IsRetryable(ClassifyError(got)) =>
    \A d \in ParseRetryAfter(sent.headers) : \E w \in got.hint.after : d <= w
=============================================================================
