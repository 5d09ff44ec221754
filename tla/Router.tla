------------------------------- MODULE Router -------------------------------
(***************************************************************************)
(* core/api: Router.Dispatch takes a request through its policy and, when  *)
(* all of it holds, through the handler of its operation, and answers with *)
(* one envelope.  Handlers are code of the embedding program: what one     *)
(* returns is free, and it may have taken effect whatever it returns.      *)
(***************************************************************************)
EXTENDS FiniteSets

readOnlyOps == {"api.capabilities", "status.get", "profiles.list", "protocols.list", "doctor.run"}

mutationOps == {"connect", "disconnect", "reconnect", "quick"}

(* form: a whole object, one that repeats a key of its top level, or one   *)
(* the decoder refuses (no object, an unknown field, a wrong type).        *)
Request ==
  [form : {"whole", "repeated key", "undecodable"}, version : {"1.0", "other"},
   operation : readOnlyOps \union mutationOps \union {"", "unlisted"},
   actionID : BOOLEAN, authorization : BOOLEAN]

(* What a handler may give as the code of its error: the codes of the      *)
(* router itself, or one of its own.                                       *)
HandlerCodes ==
  {"invalid-request", "permission-denied", "backend-unavailable", "unsupported-version",
   "conflict", "internal", "its own"}

Returned(how, code, retryable) == [how |-> how, code |-> code, retryable |-> retryable]

NotCalled == Returned("not called", "none", FALSE)

NoAnswer == [status |-> "none", code |-> "none", retryable |-> FALSE]

VARIABLES
  request,  \* the request
  handlers, \* operations that have a handler
  stage,    \* how far Dispatch is with it
  result,   \* what the handler returned
  envelope  \* the answer

routerVars == <<request, handlers, stage, result, envelope>>

RouterInit ==
  /\ request \in Request
  /\ handlers \in {{}, {request.operation}}
  /\ stage = "received"
  /\ result = NotCalled
  /\ envelope = NoAnswer

-----------------------------------------------------------------------------
OK == [status |-> "ok", code |-> "none", retryable |-> FALSE]

Err(code, retryable) == [status |-> "error", code |-> code, retryable |-> retryable]

AnswersWith(e) == envelope' = e /\ stage' = "answered" /\ UNCHANGED <<request, handlers, result>>

PassesTo(next) == stage' = next /\ UNCHANGED <<request, handlers, result, envelope>>

(* rejectDuplicateKeys, then a decoder that disallows unknown fields.      *)
Decode ==
  /\ stage = "received"
  /\ IF request.form = "whole" THEN PassesTo("decoded") ELSE AnswersWith(Err("invalid-request", FALSE))

isRead == request.operation \in readOnlyOps
isMutation == request.operation \in mutationOps

CheckOperation ==
  /\ stage = "decoded"
  /\ IF request.version # "1.0" THEN AnswersWith(Err("unsupported-version", FALSE))
     ELSE IF ~isRead /\ ~isMutation THEN AnswersWith(Err("invalid-request", FALSE))
     ELSE PassesTo("known")

(* Mutant: one credential is enough for a mutation.                        *)
CheckOneCredential ==
  /\ stage = "known"
  /\ IF isRead /\ (request.actionID \/ request.authorization)
     THEN AnswersWith(Err("invalid-request", FALSE))
     ELSE IF isMutation /\ ~request.actionID /\ ~request.authorization
     THEN AnswersWith(Err("permission-denied", FALSE))
     ELSE PassesTo("allowed")

CheckCredentials ==
  /\ stage = "known"
  /\ IF isRead /\ (request.actionID \/ request.authorization)
     THEN AnswersWith(Err("invalid-request", FALSE))
     ELSE IF isMutation /\ (~request.actionID \/ ~request.authorization)
     THEN AnswersWith(Err("permission-denied", FALSE))
     ELSE PassesTo("allowed")

(* Only the missing handler is reported as worth a retry by the router.    *)
CallHandler ==
  /\ stage = "allowed"
  /\ \/ request.operation \notin handlers /\ AnswersWith(Err("backend-unavailable", TRUE))
     \/ /\ request.operation \in handlers
        /\ \/ \E how \in {"result", "unmarshalable", "error"} : result' = Returned(how, "none", FALSE)
           \/ \E code \in HandlerCodes, retryable \in BOOLEAN :
                result' = Returned("handler error", code, retryable)
        /\ stage' = "handled"
        /\ UNCHANGED <<request, handlers, envelope>>

(* A HandlerError is passed on as it is.                                   *)
WrapResult ==
  /\ stage = "handled"
  /\ AnswersWith(CASE result.how = "result" -> OK
                   [] result.how = "handler error" -> Err(result.code, result.retryable)
                   [] OTHER -> Err("internal", FALSE))

RouterNext == Decode \/ CheckOperation \/ CheckCredentials \/ CallHandler \/ WrapResult

RouterSpec == RouterInit /\ [][RouterNext]_routerVars

-----------------------------------------------------------------------------
(* The handler gave this code itself.                                      *)
SaidSo(code) == result.how = "handler error" /\ result.code = code

(* A handler sees only a request the policy lets through: decodable, of    *)
(* this version, for a listed operation, a mutation with both credentials  *)
(* and a read with none.  And a client may trust the answer: ok means the  *)
(* handler ran to its result; "retryable" never invites a client to repeat *)
(* a mutation that ran, unless its handler itself said so; and whoever is  *)
(* told "permission-denied" sent a mutation without its credentials, which *)
(* no handler has seen, or was told so by the handler itself.              *)
AnswersRight ==
  /\ result # NotCalled =>
       /\ request.form = "whole" /\ request.version = "1.0"
       /\ request.operation \in readOnlyOps \union mutationOps
       /\ (request.actionID <=> isMutation) /\ (request.authorization <=> isMutation)
  /\ stage = "answered" =>
       /\ envelope.status = "ok" <=> result.how = "result"
       /\ envelope.retryable => result = NotCalled \/ (SaidSo(envelope.code) /\ result.retryable)
       /\ envelope.code = "permission-denied" =>
            \/ SaidSo("permission-denied")
            \/ isMutation /\ ~(request.actionID /\ request.authorization) /\ result = NotCalled

=============================================================================
