------------------------------ MODULE FilesApi -------------------------------
(***************************************************************************)
(* One request to the files API on its way through the body limit, the     *)
(* introspection of its token, an operation of the service and the         *)
(* exception handlers, which audit what they answer in transactions of     *)
(* their own.  PostgreSQL may fail and recover between any two steps.      *)
(* Sizes are in units of which Limit stands for 6 MiB.                     *)
(***************************************************************************)
EXTENDS Naturals, Sequences, SequencesExt

CONSTANTS
    Limit,       \* bytes BodyLimitMiddleware lets through
    MaxBody,     \* bound: the largest body a client sends
    MaxSources,  \* the most files one merge names
    Messages,    \* what the clients of this instance send
    True,        \* the JSON literal in the place of an id
    None         \* nothing, or JSON null

(* A merge names its sources in a list or as a pair. *)
MergeBody ==
    LET Id == Nat \cup {True} IN
    [list: Seq(Id) \cup {None}, first: Id \cup {None}, second: Id \cup {None}]

(* size is what the client sends, declared its Content-Length, None when    *)
(* absent or no number; refusal is the status with which FastAPI turns down *)
(* a path, a method or a form it cannot read, before any dependency runs;   *)
(* header tells whether the body is JSON where it has to be and the Auth    *)
(* header has a legal length, input whether path and payload satisfy the    *)
(* schema, as far as merge does not tell; merge is the body of a merge.     *)
Message ==
    [size: 0..MaxBody, declared: 0..MaxBody \cup {None},
     refusal: {400, 404, 405, None}, header: BOOLEAN, input: BOOLEAN,
     merge: MergeBody \cup {None}]

(* What the authentication service makes of the call: a well-formed active  *)
(* session, a 200 that breaks the contract, a refusal, or no answer at all. *)
AuthAnswers == {"active", "malformed", "401", "422", "error", "unreachable"}

(* The exceptions; "refused" stands for every refusal of the service.       *)
Codes == {"upload_too_large", "validation_error", "invalid_session",
          "authentication_unavailable", "content_unavailable", "refused",
          "bad_request", "not_found", "method_not_allowed"}

ASSUME ConstantsAssumption ==
    /\ Limit \in Nat /\ MaxBody \in Nat /\ MaxSources \in Nat
    /\ True \notin Nat
    /\ None \notin Nat \cup {True} \cup AuthAnswers \cup Codes
    /\ None \notin MergeBody \cup Seq(Nat \cup {True})
    /\ Messages \subseteq Message

VARIABLES
    db,      \* whether PostgreSQL answers
    message, \* what the client sends
    pc,      \* where the request is
    body,    \* bytes buffered by the middleware
    auth,    \* how the authentication service answered, None before
    error,   \* the code of the exception raised, None before
    effect,  \* whether the operation has been committed
    audits,  \* outcomes of the audit rows with this request's id
    answer   \* the HTTP status, None before

vars == <<db, message, pc, body, auth, error, effect, audits, answer>>

-----------------------------------------------------------------------------
Raise(code) ==
    /\ error' = code
    /\ pc' = "reject"

(* Mutant: only the declared length is compared with the limit. *)
TooLargeDeclared(m, bytes) == m.declared # None /\ m.declared > Limit

(* Once when the headers are in, and again after every chunk. *)
TooLarge(m, bytes) == (m.declared # None /\ m.declared > Limit) \/ bytes > Limit

Arrive ==
    /\ pc = "arrive"
    /\ \/ TooLarge(message, body) /\ Raise("upload_too_large")
       \/ ~TooLarge(message, body) /\ pc' = "receive" /\ UNCHANGED error
    /\ UNCHANGED <<db, message, body, auth, effect, audits, answer>>

(* One ASGI message.  The body comes in chunks of any size, and the last    *)
(* one may be empty.                                                        *)
Receive(n) ==
    LET got == body + n IN
    /\ pc = "receive"
    /\ got <= message.size
    /\ body' = got
    /\ \/ TooLarge(message, got) /\ Raise("upload_too_large")
       \/ ~TooLarge(message, got) /\ UNCHANGED <<pc, error>>
       \/ /\ ~TooLarge(message, got)
          /\ got = message.size
          /\ pc' = "route"
          /\ UNCHANGED error
    /\ UNCHANGED <<db, message, auth, effect, audits, answer>>

Disconnect ==
    /\ pc = "receive"
    /\ pc' = "gone"
    /\ UNCHANGED <<db, message, body, auth, error, effect, audits, answer>>

-----------------------------------------------------------------------------
(* HTTP_ERROR_RESPONSES; no other status is raised here. *)
HttpCode(status) ==
    CASE status = 400 -> "bad_request"
      [] status = 404 -> "not_found"
      [] status = 405 -> "method_not_allowed"

HttpCodes == {"bad_request", "not_found", "method_not_allowed"}

Route ==
    /\ pc = "route"
    /\ \/ message.refusal = None /\ pc' = "header" /\ UNCHANGED error
       \/ message.refusal # None /\ Raise(HttpCode(message.refusal))
    /\ UNCHANGED <<db, message, body, auth, effect, audits, answer>>

(* The Auth header is validated before current_user is called, the path and *)
(* the payload after it.                                                    *)
CheckHeader ==
    /\ pc = "header"
    /\ \/ message.header /\ pc' = "introspect" /\ UNCHANGED error
       \/ ~message.header /\ Raise("validation_error")
    /\ UNCHANGED <<db, message, body, auth, effect, audits, answer>>

(* Mutant: a 200 is believed whatever it says. *)
VerdictOnStatus(a) ==
    CASE a \in {"active", "malformed"} -> "actor"
      [] a \in {"401", "422"} -> "invalid_session"
      [] OTHER -> "authentication_unavailable"

Verdict(a) ==
    CASE a = "active" -> "actor"
      [] a \in {"401", "422"} -> "invalid_session"
      [] OTHER -> "authentication_unavailable"

(* Mutant: the status is passed on as the error code. *)
IntrospectRaw(a) ==
    /\ pc = "introspect"
    /\ auth' = a
    /\ \/ Verdict(a) = "actor" /\ pc' = "input" /\ UNCHANGED error
       \/ Verdict(a) # "actor" /\ Raise(a)
    /\ UNCHANGED <<db, message, body, effect, audits, answer>>

Introspect(a) ==
    /\ pc = "introspect"
    /\ auth' = a
    /\ \/ Verdict(a) = "actor" /\ pc' = "input" /\ UNCHANGED error
       \/ Verdict(a) # "actor" /\ Raise(Verdict(a))
    /\ UNCHANGED <<db, message, body, effect, audits, answer>>

(* Pydantic makes a number of every id, of JSON true the number 1. *)
Number(id) == IF id = True THEN 1 ELSE id

SourceIds(merge) ==
    IF merge.list # None THEN [k \in DOMAIN merge.list |-> Number(merge.list[k])]
                         ELSE <<Number(merge.first), Number(merge.second)>>

(* Mutant: the ids are compared as the client wrote them. *)
DistinctAsWritten(merge) ==
    IF merge.list # None THEN IsInjective(merge.list)
                         ELSE merge.first # merge.second

Distinct(merge) == IsInjective(SourceIds(merge))

(* The constraints of the fields, then validate_sources. *)
ValidMerge(merge) ==
    /\ \/ /\ merge.list # None
          /\ Len(merge.list) \in 2..MaxSources
          /\ merge.first = None /\ merge.second = None
       \/ /\ merge.list = None
          /\ merge.first # None /\ merge.second # None
    /\ \A k \in DOMAIN SourceIds(merge) : SourceIds(merge)[k] >= 1
    /\ Distinct(merge)

ValidInput(m) == m.input /\ (m.merge # None => ValidMerge(m.merge))

CheckInput ==
    /\ pc = "input"
    /\ \/ ValidInput(message) /\ pc' = "operate" /\ UNCHANGED error
       \/ ~ValidInput(message) /\ Raise("validation_error")
    /\ UNCHANGED <<db, message, body, auth, effect, audits, answer>>

-----------------------------------------------------------------------------
(* The operation commits its changes with its audit row, raises a           *)
(* DomainError before that, or fails; without PostgreSQL it cannot commit.  *)
Operate ==
    /\ pc = "operate"
    /\ db = "up"
    /\ effect' = TRUE
    /\ audits' = Append(audits, "success")
    /\ pc' = "finish"
    /\ UNCHANGED <<db, message, body, auth, error, answer>>

(* An upload that is too large is refused without a question to PostgreSQL. *)
Refuse ==
    /\ pc = "operate"
    /\ Raise("refused")
    /\ UNCHANGED <<db, message, body, auth, effect, audits, answer>>

Fail ==
    /\ pc = "operate"
    /\ pc' = "crash"
    /\ UNCHANGED <<db, message, body, auth, error, effect, audits, answer>>

(* A deletion still has to remove its blob after the commit.  A store that  *)
(* fails is content_unavailable; a directory that fails raises an OSError,  *)
(* which is no DomainError.                                                 *)
Finish ==
    /\ pc = "finish"
    /\ \/ pc' = "answered" /\ answer' = 200 /\ UNCHANGED error
       \/ Raise("content_unavailable") /\ UNCHANGED answer
       \/ pc' = "crash" /\ UNCHANGED <<error, answer>>
    /\ UNCHANGED <<db, message, body, auth, effect, audits>>

-----------------------------------------------------------------------------
Status(code) ==
    CASE code = "upload_too_large" -> 413
      [] code = "validation_error" -> 422
      [] code = "invalid_session" -> 401
      [] code \in {"authentication_unavailable", "content_unavailable"} -> 503
      [] code = "refused" -> 404
      [] OTHER -> message.refusal

(* Mutant: a rejection that cannot be audited is answered all the same. *)
AnswerRejectionAnyway ==
    /\ pc = "reject"
    /\ audits' = IF db = "up" THEN Append(audits, "rejected") ELSE audits
    /\ pc' = "answered" /\ answer' = Status(error)
    /\ UNCHANGED <<db, message, body, auth, error, effect>>

(* A rejection is audited before it is answered; when the row cannot be     *)
(* written, the exception goes on to the handler of last resort.            *)
AnswerRejection ==
    /\ pc = "reject"
    /\ \/ /\ db = "up"
          /\ audits' = Append(audits, "rejected")
          /\ pc' = "answered" /\ answer' = Status(error)
       \/ /\ db = "down"
          /\ pc' = "crash"
          /\ UNCHANGED <<audits, answer>>
    /\ UNCHANGED <<db, message, body, auth, error, effect>>

(* Three handlers do so: the middleware itself, and one for each of the     *)
(* exceptions that reach FastAPI.                                           *)
RejectBody == error = "upload_too_large" /\ AnswerRejection
RejectInput == error = "validation_error" /\ AnswerRejection
RejectDomain ==
    /\ error \notin {"upload_too_large", "validation_error"} \cup HttpCodes
    /\ AnswerRejection

(* http_exception_handler answers what never reached an operation without   *)
(* an audit row, whether PostgreSQL answers or not.                         *)
RejectHttp ==
    /\ pc = "reject"
    /\ error \in HttpCodes
    /\ pc' = "answered" /\ answer' = Status(error)
    /\ UNCHANGED <<db, message, body, auth, error, effect, audits>>

(* unhandled_exception_handler: its own audit row is written if possible.   *)
(* The body limit sits outside the middleware that assigns the request id,  *)
(* so after it there is no id to write one with.                            *)
Crash ==
    /\ pc = "crash"
    /\ audits' = IF db = "up" /\ error # "upload_too_large"
                   THEN Append(audits, "failed") ELSE audits
    /\ pc' = "answered" /\ answer' = 500
    /\ UNCHANGED <<db, message, body, auth, error, effect>>

Outage ==
    /\ db' = IF db = "up" THEN "down" ELSE "up"
    /\ UNCHANGED <<message, pc, body, auth, error, effect, audits, answer>>

-----------------------------------------------------------------------------
Init ==
    /\ db \in {"up", "down"}
    /\ message \in Messages
    /\ pc = "arrive"
    /\ body = 0
    /\ auth = None /\ error = None /\ answer = None
    /\ effect = FALSE
    /\ audits = <<>>

Next ==
    \/ Arrive \/ Disconnect \/ (\E n \in 0..MaxBody : Receive(n))
    \/ Route \/ CheckHeader \/ CheckInput \/ (\E a \in AuthAnswers : Introspect(a))
    \/ Operate \/ Refuse \/ Fail \/ Finish
    \/ RejectBody \/ RejectInput \/ RejectDomain \/ RejectHttp \/ Crash
    \/ Outage

Spec == Init /\ [][Next]_vars

-----------------------------------------------------------------------------
(* Properties. *)

(* Every variable holds values of its kind. *)
TypeOK ==
    /\ db \in {"up", "down"}
    /\ message \in Messages
    /\ pc \in {"arrive", "receive", "gone", "route", "header", "introspect", "input",
               "operate", "finish", "reject", "crash", "answered"}
    /\ body \in 0..message.size
    /\ auth \in AuthAnswers \cup {None}
    /\ error \in Codes \cup {None}
    /\ effect \in BOOLEAN
    /\ audits \in Seq({"success", "rejected", "failed"})
    /\ answer \in {200, 400, 401, 404, 405, 413, 422, 500, 503, None}

(* Whether a body is too large depends on its size and its Content-Length   *)
(* alone, not on how it is cut into chunks; and one that is goes no further.*)
SizeDecides ==
    pc \notin {"arrive", "receive", "gone"} =>
        (error = "upload_too_large" <=>
            message.size > Limit \/ (message.declared # None /\ message.declared > Limit))

(* An operation is carried out only for a session the authentication        *)
(* service has confirmed in a well-formed answer, whatever fails on the     *)
(* way; and no outage or odd answer ever tells a client that its session    *)
(* is invalid.                                                              *)
FailsClosed ==
    /\ effect => /\ auth = "active"
                 /\ message.refusal = None /\ message.header /\ ValidInput(message)
    /\ answer = 200 => effect
    /\ answer = 401 => auth \in {"401", "422"}

(* A merge that is carried out names 2 to MaxSources different positive ids *)
(* in exactly one of the two forms, once they are numbers: what the service *)
(* demands of them again, so that it never refuses what the schema let pass.*)
(* And one that is turned down as invalid could not be read that way.       *)
MergeNamesItsSources ==
    LET merge == message.merge
        ids == SourceIds(merge)
        oneForm == (merge.list = None) # (merge.first = None /\ merge.second = None)
        whole == merge.list = None => None \notin {merge.first, merge.second}
        named == /\ oneForm /\ whole
                 /\ ids \in Seq(Nat \ {0})
                 /\ Len(ids) >= 2 /\ (merge.list # None => Len(ids) <= MaxSources)
                 /\ \A j, k \in DOMAIN ids : ids[j] = ids[k] => j = k
    IN merge # None =>
          /\ effect => named
          /\ error = "validation_error" /\ auth = "active" /\ message.input => ~named

(* The audit tells what the client was told: a success or a rejection is    *)
(* the last row of the request, and is missing only when the client got a   *)
(* 500, which is never recorded as a rejection.  PostgreSQL may go and come *)
(* between the operation, the first handler and the second.  What           *)
(* http_exception_handler answers has no row by design and is left out.     *)
AuditTellsTheAnswer ==
    answer # None =>
        /\ answer = 200 => audits = <<"success">>
        /\ answer \notin {200, 500} /\ error \notin HttpCodes =>
              audits = (IF effect THEN <<"success">> ELSE <<>>) \o <<"rejected">>
        /\ answer = 500 => "rejected" \notin Range(audits)
=============================================================================
