----------------------------- MODULE LlmProvider -----------------------------
(***************************************************************************)
(* OpenAiCompatibleLlmProvider: a request with its frozen route is         *)
(* registered, reads the key of its route from the secret store when it    *)
(* runs, is sent and answered; a cancellation finds it while it is         *)
(* registered.  Two callers have at most one request each: the session and *)
(* the connection test.                                                    *)
(***************************************************************************)
EXTENDS SecretStore

Callers == {"session", "probe"}

VARIABLES
  req     \* per caller: its request

NoRequest == [step |-> "none", endpoint |-> None, stay |-> 0, key |-> None,
              cancelled |-> FALSE]

ProviderTypeOK ==
  req \in [Callers ->
    [step : {"none", "registered", "sent"}, endpoint : Endpoints \cup {None},
     stay : 0..MaxVersion, key : Secrets \cup {None}, cancelled : BOOLEAN]]

ProviderInit == req = [c \in Callers |-> NoRequest]

(* resolve_route: the endpoint's record is inspected; an endpoint without  *)
(* a usable key still is a route.                                          *)
Resolution(e, result) ==
  IF e = None
  THEN result = "NoConfiguration" /\ UNCHANGED secretVars
  ELSE \E m \in {"Configured", "NotConfigured", "RecoveryRequired", "error"} :
         /\ Inspect(e, m)
         /\ result = IF m = "Configured" THEN "Ready"
                     ELSE IF m = "NotConfigured" THEN "MissingSecret" ELSE "Unavailable"

Waiting(c) == req[c].step # "none"

(* process and probe_connection register the request. *)
Process(c, e, stay) ==
  req' = [req EXCEPT ![c] = [NoRequest EXCEPT !.step = "registered", !.endpoint = e,
                                              !.stay = stay]]

(* The request leaves the table of active requests.  Its outcome - a text, *)
(* an error, cancelled - is its caller's business.                         *)
Return(c) == req' = [req EXCEPT ![c] = NoRequest]

(* execute: the route is validated, its key read, the cancellation looked  *)
(* at, and the request sent to the route's endpoint with that key.         *)
SendRequest(c) ==
  /\ req[c].step = "registered"
  /\ \E result \in Secrets \cup {None, Failed} :
       /\ Read(req[c].endpoint, result)
       /\ IF result \in {None, Failed} \/ req[c].cancelled THEN Return(c)
          ELSE req' = [req EXCEPT ![c].step = "sent", ![c].key = result]

(* An answer, a refusal, a timeout or an unusable body; whichever select   *)
(* polls, a request that has been cancelled returns that it was.           *)
Answered(c) == req[c].step = "sent" /\ Return(c) /\ UNCHANGED secretVars
WakeCancelled(c) == Waiting(c) /\ req[c].cancelled /\ Return(c) /\ UNCHANGED secretVars

(* cancel: a request that is not registered, or no longer, is not found. *)
CancelRequest(c) == req' = IF Waiting(c) THEN [req EXCEPT ![c].cancelled = TRUE] ELSE req

ProviderStep == \E c \in Callers :
  SendRequest(c) \/ Answered(c) \/ WakeCancelled(c)

=============================================================================
