------------------------------- MODULE HttpApi -------------------------------
(***************************************************************************)
(* The HTTP server of `monit-docker serve`: which requests reach a         *)
(* handler, with whose secret, and how the server is taken down.           *)
(*                                                                         *)
(* CommandLine assembles the server's services and secrets.  A request     *)
(* passes the server's own route guard, then HTTPdis (outside src/), which *)
(* authenticates and reads the body with the server's methods, then its    *)
(* handler.  Requests share nothing but the services, so the workers'      *)
(* requests are followed one at a time; what concurrent requests do in the *)
(* services is the subject of ManualActions and AuditReaders.              *)
(* Sources: adapters/http.py, adapters/http_routes.py, audit_http.py.      *)
(***************************************************************************)
EXTENDS CommandLine

CONSTANTS Secrets,  \* what a client may present
          Offered   \* the requests that clients make

VARIABLES server,   \* "off", "listening", "closing", "closed"
          signals,  \* are the handlers of SIGINT and SIGTERM the server's
          request,  \* the request under way, or Unset
          response  \* the last request with its status and handler

hvars == <<server, signals, request, response>>
vars == <<cvars, hvars>>

Routes == [health |-> {"GET", "HEAD"}, readiness |-> {"GET", "HEAD"}, status |-> {"GET", "HEAD"},
           metrics |-> {"GET", "HEAD"}, audit |-> {"GET", "HEAD"}, notifications |-> {"POST"},
           actions |-> {"POST"}, other |-> {}]
ToAuth == {"audit", "notifications", "status", "metrics", "actions"}

(* A secret is presented in one header, once or twice; origin and actor    *)
(* say whether these headers are as the server wants them.                 *)
Headers == {"Authorization", "X-Monit-Audit-Token", "X-Monit-Action-Token"}
Bodies == {"json", "malformed", "no_length", "too_large", "not_json"}
Requests ==
  [path : DOMAIN Routes, method : {"GET", "POST", "OPTIONS"}, header : Headers, secret : Secrets,
   copies : {1, 2}, origin : BOOLEAN, actor : BOOLEAN, body : Bodies]

ASSUME OfferedAssumption == Offered \subseteq Requests

NoAnswer == [request |-> Unset, status |-> 0, handled |-> FALSE]
HInit == server = "off" /\ signals = FALSE /\ request = Unset /\ response = NoAnswer
Init == CInit /\ HInit

-----------------------------------------------------------------------------
Hidden(path) ==
  \/ path = "other"
  \/ path = "audit" /\ ~built.reader
  \/ path = "actions" /\ ~built.actions
  \/ path = "notifications" /\ ~built.notifications

(* A header that must come once, with the secret of its role. *)
Presents(r, header, secret) ==
  Given(secret) /\ r.header = header /\ r.copies = 1 /\ r.secret = secret
ActorSound(r) == security.trust => r.actor

(* authenticate *)
Authenticated(r) ==
  CASE r.path = "metrics" -> Given(security.metrics) => Presents(r, "Authorization", security.metrics)
    [] r.path = "status" -> Given(security.status) => Presents(r, "Authorization", security.status)
    [] r.path = "audit" -> Presents(r, "X-Monit-Audit-Token", security.audit) /\ ActorSound(r)
    [] r.path = "notifications" -> Presents(r, "Authorization", security.notification)
    [] r.path = "actions" ->
         Presents(r, "X-Monit-Action-Token", security.action) /\ r.origin /\ ActorSound(r)

(* data_from_payload and HTTPdis' limits on the body. *)
BodyError(r) ==
  CASE r.body = "not_json" -> 415 [] r.body = "no_length" -> 400
    [] r.body = "too_large" -> 413 [] r.body = "malformed" -> 400 [] OTHER -> 0

Statuses(path) ==
  CASE path \in {"health", "status", "metrics"} -> {200}
    [] path = "readiness" -> {200, 503}
    [] path = "audit" -> {200, 400, 410, 503}
    [] path = "notifications" -> {202, 400, 503}
    [] path = "actions" -> {202, 400, 403, 409, 503}

Respond(status, handled) ==
  /\ response' = [request |-> request, status |-> status, handled |-> handled]
  /\ request' = Unset
  /\ UNCHANGED <<cvars, server, signals>>

Receive(r) ==
  /\ server = "listening" /\ request = Unset
  /\ request' = r /\ response' = NoAnswer
  /\ UNCHANGED <<cvars, server, signals>>

(* common_req *)
Passed(r) == ~Hidden(r.path) /\ r.method \in Routes[r.path]
Guarded ==
  /\ request # Unset /\ ~Passed(request)
  /\ Respond(IF Hidden(request.path) THEN 404 ELSE 405, FALSE)

Refuse ==
  /\ request # Unset /\ Passed(request)
  /\ request.path \in ToAuth /\ ~Authenticated(request)
  /\ Respond(403, FALSE)

(* Whether before or after the authentication is HTTPdis' choice. *)
RefuseBody ==
  /\ request # Unset /\ Passed(request)
  /\ request.method = "POST" /\ BodyError(request) # 0
  /\ Respond(BodyError(request), FALSE)

Handle(status) ==
  /\ request # Unset /\ Passed(request)
  /\ request.path \in ToAuth => Authenticated(request)
  /\ request.method = "POST" => BodyError(request) = 0
  /\ status \in Statuses(request.path)
  /\ Respond(status, TRUE)

-----------------------------------------------------------------------------
(* run_server: the listener comes before anything to undo; an address that *)
(* is taken ends the operation with nothing started.                       *)
IsServer == phase = "run" /\ JobKind = "serve" /\ IsRuntime

Listen ==
  /\ IsServer /\ server = "off"
  /\ server' = "listening" /\ signals' = TRUE
  /\ UNCHANGED <<cvars, request, response>>

(* A signal sets stop, or monitor.run raises; then the finally block: the  *)
(* thread is joined once a request under way has been answered.            *)
Shutdown ==
  /\ server = "listening"
  /\ server' = "closing"
  /\ UNCHANGED <<cvars, signals, request, response>>
Close ==
  /\ server = "closing" /\ request = Unset
  /\ server' = "closed" /\ signals' = FALSE
  /\ UNCHANGED <<cvars, request, response>>

(* The operation of the other subcommands, or of a server that has closed. *)
Command ==
  /\ phase = "run" /\ (IsServer => server = "closed")
  /\ Completes \/ \E e \in DOMAIN Ancestors, own \in Codes \cup Results : Raises(e, own)
  /\ UNCHANGED hvars
BindFails == IsServer /\ server = "off" /\ (\E own \in Codes : Raises("OSError", own)) /\ UNCHANGED hvars

Next ==
  \/ (Parse \/ ResolveScenario \/ Build \/ Serve) /\ UNCHANGED hvars
  \/ Listen \/ BindFails \/ Shutdown \/ Close \/ Command
  \/ \E r \in Offered : Receive(r)
  \/ Guarded \/ Refuse \/ RefuseBody \/ \E status \in {200, 202, 400, 403, 409, 410, 503} : Handle(status)

Spec == Init /\ [][Next]_vars

-----------------------------------------------------------------------------
(***************************************************************************)
(* CredentialsSeparate: what a handler is asked for with a secret, it is   *)
(* asked for with the secret of its own role, presented once, and with one *)
(* that opens nothing else on this server; status and metrics are open     *)
(* only where no secret was configured for them.                           *)
(***************************************************************************)
Role == [actions |-> "action", audit |-> "audit", notifications |-> "notification",
         status |-> "status", metrics |-> "metrics"]
CredentialsSeparate ==
  response.handled /\ response.request.path \in ToAuth =>
    LET own == Role[response.request.path]
    IN /\ own \in {"action", "audit", "notification"} => Given(security[own])
       /\ Given(security[own]) =>
            /\ response.request.secret = security[own] /\ response.request.copies = 1
            /\ \A q \in DOMAIN security \ {own, "trust"} : security[q] # security[own]
=============================================================================
