------------------------------- MODULE HTTPTask -------------------------------
(****************************************************************************)
(* HTTPTask.Run with makeHTTPRequest and SendRequest, attempted again by    *)
(* the scheduler while it fails and has retries left.                       *)
(*                                                                          *)
(* External: the server and the transport, which answer in any way, and the *)
(* context, which may end while a request is under way.                     *)
(****************************************************************************)
EXTENDS TaskSemantics

CONSTANTS
  Statuses,  \* the status codes a server may answer with
  SizeLimit  \* DefaultHTTPLimit

ASSUME HTTPAssumption == Statuses \subseteq 100..599 /\ SizeLimit \in Nat

VARIABLES
  phase,      \* "resolving", "requesting" or "reported"; "none" for other tasks
  request,    \* the request that is sent
  answer,     \* how it was answered
  retryable,  \* RunInfo.IsRetryable
  attempts    \* the attempts that have reported

callVars == <<phase, request, answer, retryable, attempts>>
httpVars == <<taskVars, callVars>>

None == [kind |-> "none"]

\* The server fails to answer, or answers with a status and a body of a size,
\* which can be read to its end or not; meanwhile the context may have ended.
NoAnswer == [status |-> 0, size |-> 0, complete |-> FALSE, interrupted |-> FALSE]
Answers == [status : Statuses \cup {0}, size : 0..SizeLimit + 1, complete : BOOLEAN, interrupted : BOOLEAN]

HTTPInit ==
  /\ TaskInit
  /\ phase = (IF case.task.type = "http" THEN "resolving" ELSE "none") /\ attempts = 0
  /\ request = None /\ answer = NoAnswer /\ retryable = FALSE

IsRetryableHTTPError(status, failed) == status >= 500 \/ (status < 400 /\ failed)

Reported(r, isRetryable) ==
  /\ phase' = "reported" /\ attempts' = attempts + 1
  /\ result' = r /\ retryable' = isRetryable
  /\ UNCHANGED <<case, bound, request>>

-----------------------------------------------------------------------------
(* The parameters *)

\* variableRegexp finds every expression here: see PipelineGraph for names that
\* it does not know.
RequestParams ==
  LET t == case.task IN
  [method |-> ResolveParam(StringParam, <<NonemptyString(t.method), Found(Str(Plain(3)))>>),
   url |-> ResolveParam(URLParam, <<VarExpr(t.url, case.vars), NonemptyString(t.url)>>),
   body |-> ResolveParam(MapParam, <<VarExpr(t.requestData, case.vars),
                                     JSONWithVarExprs(t.requestData, case.vars, NoErrors), Found(Nil)>>),
   unrestricted |-> ResolveParam(BoolParam, <<NonemptyString(t.allow), Found(Bool(t.url.form # "expr"))>>),
   headers |-> ResolveParam(StringSliceParam, <<NonemptyString(t.headers), Found(Str(JSON(Slice(<<>>))))>>)]

Acceptable(p) == (\A k \in DOMAIN p : p[k] # Bad) /\ Len(Elements(p.headers)) % 2 = 0

FailedInputs == \E k \in DOMAIN case.inputs : case.inputs[k] = Error

\* json.Marshal of the request data: a channel, a function or a number that is not
\* finite, which a variable may hold, cannot be encoded.
Encodable(body) == body.kind = "map" => \A k \in DOMAIN body.m : body.m[k].kind # "unencodable"

\* http.NewRequestWithContext: a method is a token.
ValidMethod(m) == m.text.form \in {"plain", "number", "boolean", "hex"}

Resolve ==
  /\ phase = "resolving"
  /\ ~FailedInputs /\ Acceptable(RequestParams) /\ Encodable(RequestParams.body) /\ ValidMethod(RequestParams.method)
  /\ request' = [kind |-> "request", method |-> RequestParams.method, url |-> RequestParams.url, body |-> RequestParams.body,
                 headers |-> Elements(RequestParams.headers),
                 client |-> IF RequestParams.unrestricted.b THEN "unrestricted" ELSE "restricted"]
  /\ phase' = "requesting"
  /\ UNCHANGED <<taskVars, answer, retryable, attempts>>

ResolveFails ==
  /\ phase = "resolving"
  /\ \/ FailedInputs \/ ~Acceptable(RequestParams)
     \/ ~Encodable(RequestParams.body) \/ ~ValidMethod(RequestParams.method)
  /\ Reported(Error, ~FailedInputs /\ Acceptable(RequestParams) /\ Encodable(RequestParams.body))
  /\ UNCHANGED answer

-----------------------------------------------------------------------------
(* makeHTTPRequest *)

\* http.MaxBytesReader fails once it has read more than the limit.
BodyReadTruncated(a) == a.status # 0 /\ a.complete  \* mutant: io.LimitReader, which just stops
BodyRead(a) == a.status # 0 /\ a.complete /\ a.size <= SizeLimit

SendRequest ==
  /\ phase = "requesting"
  /\ \E a \in Answers :
       /\ answer' = a
       /\ CASE a.interrupted \/ ~BodyRead(a) -> Reported(Error, IsRetryableHTTPError(0, TRUE))
            [] ~a.interrupted /\ BodyRead(a) /\ a.status >= 400 ->
                 Reported(Error, IsRetryableHTTPError(a.status, TRUE))
            [] OTHER -> Reported(Str(Plain(a.size)), FALSE)

-----------------------------------------------------------------------------
(* The scheduler: RunInfo.IsRetryable is not looked at. *)

WantsRetry == result = Error /\ attempts < case.retries

Retry ==
  /\ phase = "reported" /\ WantsRetry
  /\ phase' = "resolving"
  /\ UNCHANGED <<taskVars, request, answer, retryable, attempts>>

OtherTask == TaskNext /\ UNCHANGED callVars

HTTPNext == Resolve \/ ResolveFails \/ SendRequest \/ Retry \/ OtherTask

HTTPSpec == HTTPInit /\ [][HTTPNext]_httpVars

-----------------------------------------------------------------------------
(* Properties *)

\* What the task results in is the whole body of a successful response, and
\* never a part of one that was too long or cut off (http.go:74-79,
\* common_http.go:54-66).
OnlyWholeResponses ==
  case.task.type = "http" /\ result.kind = "string" =>
    /\ answer.complete /\ ~answer.interrupted /\ answer.size <= SizeLimit
    /\ answer.status \in 100..399 /\ result = Str(Plain(answer.size))

\* "headers must have an even number of elements" (task.http.go:80 is there for
\* common_http.go:40 not to panic), and a request that goes out is the one the
\* attributes, the inputs and the variables ask for.
RequestsAreComplete ==
  request # None =>
    /\ ~FailedInputs /\ Len(request.headers) % 2 = 0
    /\ request.url.text.form = "url" /\ request.body.kind \in {"nil", "map"} /\ Encodable(request.body)
    /\ request.body = Nil => case.task.requestData.form \in {"blank", "json", "expr"}

\* The two together: whole requests and whole responses only.
ExchangesAreWhole == OnlyWholeResponses /\ RequestsAreComplete

-----------------------------------------------------------------------------
(* What a comment of the code says and the task does not keep *)

\* "Client errors are not likely to succeed by resubmitting the exact same
\* information again" (common.go:116): they are not resubmitted.
ClientError == answer.status \in 400..499
ClientErrorsAreFinal == [][phase = "requesting" /\ phase' = "reported" => ~ClientError]_httpVars

\* The same: a client error is not marked as retryable.
ClientErrorsNotRetryable == phase = "reported" /\ ClientError => ~retryable
=============================================================================
