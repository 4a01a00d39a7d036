--------------------------- MODULE FilesApiProofs ----------------------------
(***************************************************************************)
(* Theorems about FilesApi, for any limit and bodies of any size.          *)
(***************************************************************************)
EXTENDS FilesApi, TLAPS

Ended == {"reject", "crash", "answered"}
Inside == {"route", "header", "introspect", "input", "operate", "finish"}

-----------------------------------------------------------------------------
(* Typing, and which exception can be under way where. *)

ErrorInv ==
    /\ pc \in {"arrive", "receive"} \cup Inside => error = None
    /\ pc = "reject" => error \in Codes
    /\ pc # "answered" => answer = None
    /\ error \in HttpCodes =>
          message.refusal \in {400, 404, 405} /\ pc \in {"reject", "answered"}

TypeInv == TypeOK /\ ErrorInv

LEMMA StatusTyped ==
  ASSUME NEW code \in Codes
  PROVE  /\ code \notin HttpCodes => Status(code) \in {401, 404, 413, 422, 503}
         /\ code \notin HttpCodes => (Status(code) = 401 <=> code = "invalid_session")
         /\ code \in HttpCodes => Status(code) = message.refusal
BY DEF Codes, HttpCodes, Status

(* Only the three handlers that audit use AnswerRejection. *)
LEMMA WhoAudits ==
  ASSUME RejectBody \/ RejectInput \/ RejectDomain
  PROVE  AnswerRejection /\ error \notin HttpCodes
BY DEF RejectBody, RejectInput, RejectDomain, HttpCodes

LEMMA HttpTyped ==
  ASSUME NEW status \in {400, 404, 405}
  PROVE  HttpCode(status) \in HttpCodes /\ HttpCode(status) \in Codes
BY DEF HttpCode, HttpCodes, Codes

LEMMA MessageTyped ==
  ASSUME NEW m \in Messages
  PROVE  /\ m.size \in 0..MaxBody
         /\ m.refusal \in {400, 404, 405, None}
         /\ m.merge \in MergeBody \cup {None}
         /\ m.declared \in 0..MaxBody \cup {None}
<1>1. m \in Message
  BY ConstantsAssumption
<1> QED
  BY ONLY <1>1 DEF Message

LEMMA VerdictTyped ==
  ASSUME NEW a \in AuthAnswers
  PROVE  /\ Verdict(a) \in {"actor", "invalid_session", "authentication_unavailable"}
         /\ Verdict(a) = "actor" <=> a = "active"
         /\ Verdict(a) = "invalid_session" <=> a \in {"401", "422"}
BY DEF AuthAnswers, Verdict

LEMMA Appended ==
  ASSUME NEW S, NEW s \in Seq(S), NEW x \in S
  PROVE  Append(s, x) \in Seq(S)
OBVIOUS

LEMMA TypeStep ==
  ASSUME TypeInv, [Next]_vars
  PROVE  TypeInv'
<1> USE DEF TypeInv, ErrorInv, Inside
<1>0. (\A c \in Codes : c # None) /\ None \notin HttpCodes
  BY ConstantsAssumption DEF Codes, HttpCodes
<1>1. CASE Arrive
  BY <1>1 DEF Arrive, Raise, TypeOK, Codes, HttpCodes
<1>2. ASSUME NEW n \in 0..MaxBody, Receive(n) PROVE TypeInv'
  <2>1. message.size \in Nat /\ body \in 0..message.size /\ body + n <= message.size
    BY <1>2, MessageTyped, ConstantsAssumption DEF Receive, TypeOK
  <2>2. body' \in 0..message.size
    BY <1>2, <2>1 DEF Receive
  <2> QED
    BY <1>2, <2>2 DEF Receive, Raise, TypeOK, Codes, HttpCodes
<1>12. CASE Route
  <2>1. CASE message.refusal = None
    BY <1>12, <2>1 DEF Route, Raise, TypeOK
  <2>2. CASE message.refusal # None
    <3>1. message.refusal \in {400, 404, 405}
      BY <2>2, MessageTyped DEF TypeOK
    <3> QED
      BY <1>12, <2>2, <3>1, HttpTyped DEF Route, Raise, TypeOK
  <2> QED
    BY <2>1, <2>2
<1>3. CASE Disconnect
  BY <1>3 DEF Disconnect, TypeOK
<1>4. CASE CheckHeader \/ CheckInput
  BY <1>4 DEF CheckHeader, CheckInput, Raise, TypeOK, Codes, HttpCodes
<1>5. ASSUME NEW a \in AuthAnswers, Introspect(a) PROVE TypeInv'
  BY <1>5, VerdictTyped DEF Introspect, Raise, TypeOK, Codes, HttpCodes
<1>6. CASE Operate
  BY <1>6, Appended DEF Operate, TypeOK
<1>7. CASE Refuse \/ Fail
  BY <1>7 DEF Refuse, Fail, Raise, TypeOK, Codes, HttpCodes
<1>8. CASE Finish
  BY <1>8 DEF Finish, Raise, TypeOK, Codes, HttpCodes
<1>9. CASE RejectBody \/ RejectInput \/ RejectDomain
  BY <1>9, WhoAudits, Appended, StatusTyped DEF AnswerRejection, TypeOK
<1>13. CASE RejectHttp
  BY <1>13, StatusTyped DEF RejectHttp, TypeOK
<1>10. CASE Crash
  BY <1>10, Appended DEF Crash, TypeOK
<1>11. CASE Outage \/ UNCHANGED vars
  BY <1>11 DEF Outage, vars, TypeOK
<1> QED
  BY <1>1, <1>2, <1>3, <1>4, <1>5, <1>6, <1>7, <1>8, <1>9, <1>10, <1>11, <1>12, <1>13
     DEF Next

LEMMA TypeAlways == Spec => []TypeInv
<1>1. ASSUME Init PROVE TypeInv
  <2>0. None \notin HttpCodes
    BY ConstantsAssumption DEF Codes, HttpCodes
  <2>1. body \in 0..message.size
    BY <1>1, MessageTyped DEF Init
  <2>2. audits \in Seq({"success", "rejected", "failed"})
    BY <1>1 DEF Init
  <2> QED
    BY <1>1, <2>0, <2>1, <2>2 DEF Init, TypeInv, TypeOK, ErrorInv
<1>2. Init => TypeInv
  BY <1>1
<1>3. TypeInv /\ [Next]_vars => TypeInv'
  BY TypeStep
<1> QED
  BY <1>2, <1>3, PTL DEF Spec

(* Every variable always holds values of its kind.                          *)
THEOREM TypeCorrect == Spec => []TypeOK
BY TypeAlways, PTL DEF TypeInv

-----------------------------------------------------------------------------
(* The body limit.  What has been let through so far is not too large, and  *)
(* the comparison of the last chunk is about the whole body.                *)

SizeInv ==
    /\ pc = "arrive" => body = 0
    /\ pc = "receive" => ~TooLarge(message, body)
    /\ SizeDecides

(* The body never depends on its chunks: it is too large iff its size is.   *)
THEOREM ChunksDoNotMatter == Spec => []SizeDecides
<1> USE DEF TypeInv, ErrorInv, SizeInv, SizeDecides, Inside
<1>1. Init => SizeInv
  BY DEF Init
<1>2. TypeInv /\ SizeInv /\ [Next]_vars => SizeInv'
  <2> SUFFICES ASSUME TypeInv, SizeInv, [Next]_vars PROVE SizeInv'
    OBVIOUS
  <2>0. /\ message.size \in Nat /\ body \in Nat /\ body <= message.size
        /\ \A c \in Codes : c # None
    BY MessageTyped, ConstantsAssumption DEF TypeOK
  <2>1. CASE Arrive
    BY <2>0, <2>1, ConstantsAssumption DEF Arrive, Raise, TooLarge
  <2>2. ASSUME NEW n \in 0..MaxBody, Receive(n) PROVE SizeInv'
    <3>1. body' = body + n /\ body' <= message.size /\ body' \in Nat /\ message' = message
      BY <2>0, <2>2, ConstantsAssumption DEF Receive
    <3>2. CASE TooLarge(message, body')
      <4>1. pc' = "reject" /\ error' = "upload_too_large"
        BY <2>2, <3>1, <3>2 DEF Receive, Raise
      <4> QED
        BY <2>0, <3>1, <3>2, <4>1, ConstantsAssumption DEF TooLarge
    <3>3. CASE ~TooLarge(message, body')
      <4>1. /\ error' = None
            /\ pc' = "receive" \/ (pc' = "route" /\ body' = message.size)
        BY <2>2, <3>1, <3>3 DEF Receive, Raise
      <4>2. None # "upload_too_large"
        BY <2>0 DEF Codes
      <4> QED
        BY <2>0, <3>1, <3>3, <4>1, <4>2 DEF TooLarge
    <3> QED
      BY <3>2, <3>3
  <2>3. CASE Disconnect \/ CheckHeader \/ CheckInput
    BY <2>0, <2>3 DEF Disconnect, CheckHeader, CheckInput, Raise, Codes
  <2>8. CASE Route
    <3>1. message.refusal # None => HttpCode(message.refusal) \in HttpCodes
      BY MessageTyped, HttpTyped DEF TypeOK
    <3> QED
      BY <2>0, <2>8, <3>1 DEF Route, Raise, HttpCodes, Codes
  <2>4. ASSUME NEW a \in AuthAnswers, Introspect(a) PROVE SizeInv'
    BY <2>0, <2>4, VerdictTyped DEF Introspect, Raise, Codes
  <2>5. CASE Operate \/ Refuse \/ Fail \/ Finish
    BY <2>0, <2>5 DEF Operate, Refuse, Fail, Finish, Raise, Codes
  <2>6. CASE RejectBody \/ RejectInput \/ RejectDomain \/ RejectHttp \/ Crash
    BY <2>6, WhoAudits DEF AnswerRejection, RejectHttp, Crash
  <2>7. CASE Outage \/ UNCHANGED vars
    BY <2>7 DEF Outage, vars, TooLarge
  <2> QED
    BY <2>1, <2>2, <2>3, <2>4, <2>5, <2>6, <2>7, <2>8
       DEF Next
<1>3. SizeInv => SizeDecides
  OBVIOUS
<1> QED
  BY <1>1, <1>2, <1>3, TypeAlways, PTL DEF Spec

-----------------------------------------------------------------------------
(* The way to an operation, and from one.  What a request has passed is     *)
(* remembered by where it is, and its audit rows by whether it took effect. *)

PassedInv ==
    /\ pc \in {"header", "introspect", "input", "operate", "finish"} =>
          message.refusal = None
    /\ pc \in {"introspect", "input", "operate", "finish"} => message.header
    /\ pc \in {"input", "operate", "finish"} => auth = "active"
    /\ pc \in {"arrive", "receive", "route", "header", "introspect"} => auth = None
    /\ pc \in {"operate", "finish"} => ValidInput(message)
    /\ effect => /\ auth = "active"
                 /\ message.refusal = None /\ message.header /\ ValidInput(message)
    /\ effect => pc \in {"finish"} \cup Ended
    /\ pc = "finish" => effect
    /\ error = "invalid_session" => auth \in {"401", "422"}
    /\ error = "validation_error" /\ auth = "active" => ~ValidInput(message)
    /\ answer = 200 => effect
    /\ answer = 401 => auth \in {"401", "422"}

AuditInv ==
    /\ pc # "answered" => audits = IF effect THEN <<"success">> ELSE <<>>
    /\ AuditTellsTheAnswer

LEMMA PassedStep ==
  ASSUME TypeInv, PassedInv, [Next]_vars
  PROVE  PassedInv'
<1> USE DEF TypeInv, ErrorInv, PassedInv, Inside, Ended
<1>0. /\ None # 200 /\ None # 401 /\ None # "active"
      /\ None # "invalid_session" /\ None # "validation_error"
  BY ConstantsAssumption DEF Codes, AuthAnswers
<1>1. CASE Arrive
  BY <1>0, <1>1 DEF Arrive, Raise, TypeOK
<1>2. ASSUME NEW n \in 0..MaxBody, Receive(n) PROVE PassedInv'
  BY <1>0, <1>2 DEF Receive, Raise
<1>10. CASE Route
  <2>1. message.refusal # None => HttpCode(message.refusal) \in HttpCodes
    BY MessageTyped, HttpTyped DEF TypeOK
  <2> QED
    BY <1>0, <1>10, <2>1 DEF Route, Raise, HttpCodes
<1>3. CASE Disconnect \/ CheckHeader \/ CheckInput
  BY <1>0, <1>3 DEF Disconnect, CheckHeader, CheckInput, Raise
<1>4. ASSUME NEW a \in AuthAnswers, Introspect(a) PROVE PassedInv'
  BY <1>0, <1>4, VerdictTyped DEF Introspect, Raise
<1>5. CASE Operate \/ Refuse \/ Fail
  BY <1>5 DEF Operate, Refuse, Fail, Raise
<1>6. CASE Finish
  BY <1>6 DEF Finish, Raise
<1>7. CASE RejectBody \/ RejectInput \/ RejectDomain
  BY <1>7, WhoAudits, StatusTyped DEF AnswerRejection
<1>11. CASE RejectHttp
  BY <1>11, StatusTyped DEF RejectHttp
<1>8. CASE Crash
  BY <1>8 DEF Crash
<1>9. CASE Outage \/ UNCHANGED vars
  BY <1>9 DEF Outage, vars
<1> QED
  BY <1>1, <1>2, <1>3, <1>4, <1>5, <1>6, <1>7, <1>8, <1>9, <1>10, <1>11
     DEF Next

LEMMA PassedAlways == Spec => [](TypeInv /\ PassedInv)
<1>1. Init => PassedInv
  <2>1. /\ None # 200 /\ None # 401
        /\ None # "invalid_session" /\ None # "validation_error"
    BY ConstantsAssumption DEF Codes
  <2> QED
    BY <2>1 DEF Init, PassedInv
<1>2. TypeInv /\ PassedInv /\ [Next]_vars => PassedInv'
  BY PassedStep
<1> QED
  BY <1>1, <1>2, TypeAlways, PTL DEF Spec

(* Nothing is done without a confirmed session, and no failure is answered  *)
(* as if the session were over.                                             *)
THEOREM DoubtsAreRefused == Spec => []FailsClosed
<1>1. PassedInv => FailsClosed
  BY DEF PassedInv, FailsClosed
<1> QED
  BY <1>1, PassedAlways, PTL

(* The sequences of audit rows that occur. *)
LEMMA Rows ==
  /\ Append(<<>>, "success") = <<"success">>
  /\ Append(<<>>, "rejected") = <<>> \o <<"rejected">>
  /\ Append(<<"success">>, "rejected") = <<"success">> \o <<"rejected">>
  /\ "rejected" \notin Range(<<>>) /\ "rejected" \notin Range(<<"success">>)
  /\ "rejected" \notin Range(Append(<<>>, "failed"))
  /\ "rejected" \notin Range(Append(<<"success">>, "failed"))
BY DEF Range

LEMMA Positive ==
  ASSUME NEW s \in Seq(Nat)
  PROVE  s \in Seq(Nat \ {0}) <=> \A k \in DOMAIN s : s[k] >= 1
<1>1. ASSUME s \in Seq(Nat \ {0}) PROVE \A k \in DOMAIN s : s[k] >= 1
  <2> SUFFICES ASSUME NEW k \in DOMAIN s PROVE s[k] >= 1
    OBVIOUS
  <2>1. s[k] \in Nat \ {0}
    BY <1>1
  <2> QED
    BY <2>1
<1>2. ASSUME \A k \in DOMAIN s : s[k] >= 1 PROVE s \in Seq(Nat \ {0})
  <2>1. \A k \in 1..Len(s) : s[k] \in Nat \ {0}
    BY <1>2
  <2>2. s \in [1..Len(s) -> Nat \ {0}] /\ Len(s) \in Nat
    BY <2>1
  <2> QED
    BY ONLY <2>2
<1> QED
  BY <1>1, <1>2

(* What the schema lets through is a merge as the service wants it, and only*)
(* that.                                                                    *)
LEMMA ValidNamesItsSources ==
  ASSUME NEW b \in MergeBody,
         NEW ids, ids = SourceIds(b)
  PROVE  ValidMerge(b) <=>
           /\ (b.list = None) # (b.first = None /\ b.second = None)
           /\ b.list = None => None \notin {b.first, b.second}
           /\ ids \in Seq(Nat \ {0})
           /\ Len(ids) >= 2 /\ (b.list # None => Len(ids) <= MaxSources)
           /\ \A j, k \in DOMAIN ids : ids[j] = ids[k] => j = k
<1>0. MaxSources \in Nat /\ None \notin Nat
  BY ConstantsAssumption
<1>1. \A i \in Nat \cup {True} : Number(i) \in Nat
  BY DEF Number
<1>2. CASE b.list # None
  <2>1. b.list \in Seq(Nat \cup {True})
    BY <1>2 DEF MergeBody
  <2>2. /\ ids = [k \in 1..Len(b.list) |-> Number(b.list[k])]
        /\ Len(b.list) \in Nat
    BY <1>2, <2>1 DEF SourceIds
  <2>3. \A k \in 1..Len(b.list) : ids[k] \in Nat
    <3> SUFFICES ASSUME NEW k \in 1..Len(b.list) PROVE ids[k] \in Nat
      OBVIOUS
    <3>1. b.list[k] \in Nat \cup {True}
      BY <2>1
    <3> QED
      BY <1>1, <2>2, <3>1
  <2>4. ids \in Seq(Nat) /\ Len(ids) = Len(b.list) /\ DOMAIN ids = 1..Len(b.list)
    BY <2>2, <2>3
  <2>5. ids \in Seq(Nat \ {0}) <=> \A k \in DOMAIN ids : ids[k] >= 1
    BY ONLY <2>4, Positive
  <2>6. ValidMerge(b) <=>
           /\ Len(ids) \in 2..MaxSources
           /\ b.first = None /\ b.second = None
           /\ \A k \in DOMAIN ids : ids[k] >= 1
           /\ \A j, k \in DOMAIN ids : ids[j] = ids[k] => j = k
    BY <1>2, <2>4 DEF ValidMerge, Distinct, IsInjective
  <2>7. Len(ids) \in 2..MaxSources <=> Len(ids) >= 2 /\ Len(ids) <= MaxSources
    BY ONLY <1>0, <2>2, <2>4
  <2> QED
    BY ONLY <1>2, <2>5, <2>6, <2>7
<1>3. CASE b.list = None
  <2>1. ids = <<Number(b.first), Number(b.second)>>
    BY <1>3 DEF SourceIds
  <2>2. CASE b.first = None \/ b.second = None
    BY <1>3, <2>2 DEF ValidMerge
  <2>3. CASE b.first # None /\ b.second # None
    <3>1. Number(b.first) \in Nat /\ Number(b.second) \in Nat
      BY <1>1, <2>3 DEF MergeBody
    <3>2. ids \in Seq(Nat \ {0}) <=> \A k \in DOMAIN ids : ids[k] >= 1
      BY <2>1, <3>1
    <3> QED
      BY <1>3, <2>1, <2>3, <3>2 DEF ValidMerge, Distinct, IsInjective
  <2> QED
    BY <2>2, <2>3
<1> QED
  BY <1>2, <1>3

(* The merges carried out are the well-formed ones, and none of those is    *)
(* turned down as invalid.                                                  *)
THEOREM MergesAreWellFormed == Spec => []MergeNamesItsSources
<1>1. TypeInv /\ PassedInv => MergeNamesItsSources
  <2> SUFFICES ASSUME TypeInv, PassedInv, message.merge # None PROVE MergeNamesItsSources
    BY DEF MergeNamesItsSources
  <2>1. message.merge \in MergeBody
    BY MessageTyped DEF TypeInv, TypeOK
  <2>2. effect => ValidMerge(message.merge)
    BY DEF PassedInv, ValidInput
  <2>3. error = "validation_error" /\ auth = "active" /\ message.input =>
            ~ValidMerge(message.merge)
    BY DEF PassedInv, ValidInput
  <2> QED
    BY ONLY <2>1, <2>2, <2>3, ValidNamesItsSources DEF MergeNamesItsSources
<1> QED
  BY <1>1, PassedAlways, PTL

(* The audit rows of a request agree with what its client was told, however *)
(* the database comes and goes.                                             *)
THEOREM AuditIsTruthful == Spec => []AuditTellsTheAnswer
<1> USE DEF TypeInv, ErrorInv, AuditInv, AuditTellsTheAnswer, Inside, Ended
<1>1. Init => AuditInv
  BY DEF Init
<1>2. TypeInv /\ PassedInv /\ AuditInv /\ [Next]_vars => AuditInv'
  <2> SUFFICES ASSUME TypeInv, PassedInv, AuditInv, [Next]_vars PROVE AuditInv'
    OBVIOUS
  <2>1. CASE Arrive
    BY <2>1 DEF Arrive, Raise
  <2>2. ASSUME NEW n \in 0..MaxBody, Receive(n) PROVE AuditInv'
    BY <2>2 DEF Receive, Raise
  <2>3. CASE Disconnect \/ Route \/ CheckHeader \/ CheckInput
    BY <2>3 DEF Disconnect, Route, CheckHeader, CheckInput, Raise
  <2>4. ASSUME NEW a \in AuthAnswers, Introspect(a) PROVE AuditInv'
    BY <2>4 DEF Introspect, Raise
  <2>5. CASE Operate
    <3>1. pc' = "finish" /\ answer' = None /\ effect' /\ audits' = Append(audits, "success")
      BY <2>5 DEF Operate
    <3>2. audits = <<>>
      BY <2>5 DEF Operate, PassedInv
    <3> QED
      BY ONLY <3>1, <3>2, Rows DEF AuditInv, AuditTellsTheAnswer
  <2>6. CASE Refuse \/ Fail
    BY <2>6 DEF Refuse, Fail, Raise
  <2>7. CASE Finish
    BY <2>7 DEF Finish, Raise, PassedInv
  <2>11. CASE RejectHttp
    <3>1. /\ answer' = message.refusal /\ message.refusal \in {400, 404, 405}
          /\ error' = error /\ error \in HttpCodes
      BY <2>11, StatusTyped DEF RejectHttp
    <3>2. ~effect /\ effect' = effect /\ audits' = audits /\ message' = message
      BY <2>11, <3>1, ConstantsAssumption DEF RejectHttp, PassedInv
    <3> QED
      BY <2>11, <3>1, <3>2 DEF RejectHttp
  <2>8. CASE RejectBody \/ RejectInput \/ RejectDomain
    <3>0. AnswerRejection /\ error \notin HttpCodes
      BY <2>8, WhoAudits
    <3>1. CASE db = "up"
      <4>1. /\ answer' \notin {200, 500}
            /\ audits' = Append(audits, "rejected")
            /\ audits = IF effect THEN <<"success">> ELSE <<>>
            /\ pc' = "answered" /\ effect' = effect /\ error' = error
        BY <3>0, <3>1, StatusTyped DEF AnswerRejection
      <4> HIDE DEF TypeInv
      <4> QED
        BY <3>0, <4>1, Rows
    <3>2. CASE db # "up"
      BY <3>0, <3>2 DEF AnswerRejection
    <3> QED
      BY <3>1, <3>2
  <2>9. CASE Crash
    <3>1. audits \in {<<>>, <<"success">>}
      BY <2>9 DEF Crash
    <3>2. audits' = audits \/ audits' = Append(audits, "failed")
      BY <2>9 DEF Crash
    <3>3. "rejected" \notin Range(audits')
      BY ONLY <3>1, <3>2, Rows
    <3>4. pc' = "answered" /\ answer' = 500 /\ error' = error /\ error \notin HttpCodes
      BY <2>9 DEF Crash
    <3> QED
      BY <3>3, <3>4
  <2>10. CASE Outage \/ UNCHANGED vars
    BY <2>10 DEF Outage, vars
  <2> QED
    BY <2>1, <2>2, <2>3, <2>4, <2>5, <2>6, <2>7, <2>8, <2>9, <2>10, <2>11
       DEF Next
<1>3. AuditInv => AuditTellsTheAnswer
  OBVIOUS
<1> QED
  BY <1>1, <1>2, <1>3, PassedAlways, PTL DEF Spec
=============================================================================
