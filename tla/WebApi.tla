------------------------------- MODULE WebApi -------------------------------
(***************************************************************************)
(* What one request to the website's API is answered with: the             *)
(* configuration, the checks that come before every endpoint               *)
(* (src/server/router.ts, middleware.ts, config.ts), the judge's errors on *)
(* their way to the browser (judge/rpc.go, judge-client/client.ts), and    *)
(* what the browser makes of the answer (src/lib/api.ts).                  *)
(*                                                                         *)
(* Nothing here keeps state: the API handles each request on its own.      *)
(* Runner composes it with the page and the judge.                         *)
(***************************************************************************)
EXTENDS Naturals, Sequences

----------------------------------------------------------------------------
(* The configuration, read once per warm function.                         *)

Environment == [VERCEL : BOOLEAN, VERCEL_ENV : {"production", "preview"},
                VERCEL_AUTHENTICATION_CONFIRMED : BOOLEAN, origin : {"https", "other"},
                POSTGRES_URL : BOOLEAN, JUDGE_TOKEN : {"short", "long"},
                JUDGE_URL : {"https", "loopback", "plain", "missing"}]

readAppOrigin(env) ==
    env.VERCEL => /\ env.VERCEL_ENV = "production"
                  /\ env.VERCEL_AUTHENTICATION_CONFIRMED
                  /\ env.origin = "https"

\* The token travels only over HTTPS, or to this machine.
createJudgeClient(env) == env.JUDGE_URL \in {"https", "loopback"}

readJudge(env) == env.JUDGE_TOKEN = "long" /\ env.JUDGE_URL # "missing" /\ createJudgeClient(env)

\* Whether there are services at all; each request asks again until there are.
loadConfig(env) == readAppOrigin(env) /\ env.POSTGRES_URL /\ readJudge(env)

----------------------------------------------------------------------------
(* What comes before every endpoint.                                       *)

\* A host or an origin is the application's, another name of the same machine, another site or,
\* for an origin, not sent.
Request == [method : {"GET", "POST"}, host : {"app", "alias", "other"},
            origin : {"none", "app", "alias", "other"}, crossSite : BOOLEAN,
            client : BOOLEAN, body : {"none", "json", "large", "broken"}, signedIn : BOOLEAN]

hosts(env) == IF env.VERCEL THEN {"app"} ELSE {"app", "alias"}

\* Wrong checks: any other site's request passes, or any host name.
protectAnyOrigin(request, env) == request.host \in hosts(env)

protect(request, env) ==
    /\ request.host \in hosts(env)
    /\ request.origin \in {"none", "app"}
    /\ ~request.crossSite
    /\ request.method = "GET" \/ request.client

bodyStatus == [none |-> 400, json |-> 0, large |-> 413, broken |-> 400]

jsonBody(request) == IF request.method = "GET" THEN 0 ELSE bodyStatus[request.body]

\* The status of a request that gets no further, 0 for one that reaches its endpoint. Vercel asks
\* for a session before the hosted API sees the request.
refusal(request, env) ==
    IF env.VERCEL /\ ~request.signedIn THEN 401
    ELSE IF ~loadConfig(env) THEN 503
    ELSE IF ~protect(request, env) THEN 403
    ELSE jsonBody(request)

----------------------------------------------------------------------------
(* Errors of the judge.                                                    *)

\* Sets of the judge's errors, by their gRPC status; any other error is Unavailable.
statusCodes ==
    [Canceled |-> {"context.Canceled"},
     DeadlineExceeded |-> {"context.DeadlineExceeded"},
     NotFound |-> {"errProblemNotFound", "errJobNotFound"},
     AlreadyExists |-> {"errSubmissionReused"},
     FailedPrecondition |-> {"errProblemChanged", "errInvalidSpec", "errInvalidResult"},
     ResourceExhausted |-> {"errSlotsBusy"},
     Unavailable |-> {"errRuntimeUnavailable", "errShuttingDown", "errContainerFailed", "errDatabase"}]

rpcError(error) ==
    IF \E code \in DOMAIN statusCodes : error \in statusCodes[code]
    THEN CHOOSE code \in DOMAIN statusCodes : error \in statusCodes[code]
    ELSE "Unavailable"

JUDGE_ERRORS ==
    [InvalidArgument |-> 400, NotFound |-> 404, AlreadyExists |-> 409, FailedPrecondition |-> 409,
     ResourceExhausted |-> 429, Canceled |-> 499, DeadlineExceeded |-> 504]

judgeError(code) == IF code \in DOMAIN JUDGE_ERRORS THEN JUDGE_ERRORS[code] ELSE 503

OK == 200

\* The status of an endpoint that asked the judge, which answered with an error or with "ok".
judgeStatus(error) == IF error = "ok" THEN OK ELSE judgeError(rpcError(error))

----------------------------------------------------------------------------
(* The state of a job, by its name, its number in judge.proto and its name again. *)

jobStates ==
    [queued |-> 1, running |-> 2, canceling |-> 3, completed |-> 4, failed |-> 5, canceled |-> 6]

\* A wrong list: two states swapped.
JOB_STATESSwapped == <<"queued", "running", "canceling", "failed", "completed", "canceled">>

JOB_STATES == <<"queued", "running", "canceling", "completed", "failed", "canceled">>

snapshot(state) == JOB_STATES[jobStates[state]]

Watched == {"queued", "running", "canceling"}

----------------------------------------------------------------------------
(* What the browser makes of an answer.                                    *)

NoStatus == 0   \* no answer in time, a broken connection, or a page that is not JSON

SignIn == {401, 403}

\* An error after which the page does not try again.
final(status) == status \notin {NoStatus, OK, 429} /\ status < 500

=============================================================================
