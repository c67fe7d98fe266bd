----------------------------- MODULE ReplyProofs ----------------------------
(* Proofs of what replies tell, for any number of requests at once. *)
EXTENDS ReplyAudit, TLAPS

LEMMA ReplyInit ==
    ASSUME AuditInit
    PROVE  ReplyIInv
  BY DEF AuditInit, Init, Idle, Arrived, Request, Route, Form, Result, ReplyIInv, AuditTypeOK, TypeOK,
     ReadsAgree, Progress, Answered

\* The records of the requests that do not take the step are as they were.
LEMMA ReplyStep ==
    ASSUME ReplyIInv, [AuditNext]_auditVars
    PROVE  ReplyIInv'
  <1>. USE DEF ReplyIInv, AuditTypeOK, TypeOK
  <1>1. ASSUME NEW r \in Req, Arrives(r)
        PROVE  ReplyIInv'
    <2>1. PICK route \in Route, cipher \in BOOLEAN : req' = [req EXCEPT ![r] = Arrived(route, cipher)]
      BY <1>1 DEF Arrives, Arrive, Goto
    <2>2. Arrived(route, cipher) \in Request
      BY DEF Arrived, Request, Form, Result
    <2>3. enabled' = enabled /\ crossed' = crossed \ {r}
      BY <1>1 DEF Arrives, Arrive
    <2>4. AuditTypeOK'
      BY <2>1, <2>2, <2>3
    <2>5. ReadsAgree'
      BY <2>1, <2>3 DEF ReadsAgree, Answered, Arrived
    <2>6. Progress'
      BY <2>1 DEF Progress, Answered, Arrived
    <2>. QED
      BY <2>4, <2>5, <2>6
  <1>2. ASSUME NEW r \in Req, Handles(r)
        PROVE  ReplyIInv'
    <2>1. PICK result \in Outcome(req[r].route) :
            /\ enabled' = IF result = "data" THEN Target(req[r].route) ELSE enabled
            /\ req' = [req EXCEPT ![r] = [req[r] EXCEPT !.pc = "reply", !.result = result]]
      BY <1>2 DEF Handles, Handle, Goto
    <2>2. req[r] \in Request /\ req[r].pc = "handle"
      BY <1>2 DEF Handles, Handle
    <2>3. req'[r] \in Request /\ req'[r].pc = "reply" /\ req'[r].result = result
          /\ req'[r].outer = req[r].outer /\ req'[r].inner = req[r].inner
          /\ result \in Result \ {"none", "undecryptable"}
          /\ req'[r].route = req[r].route /\ (result = "null" => req[r].route = "json")
      BY <2>1, <2>2 DEF Request, Result, Outcome
    <2>4. enabled' \in BOOLEAN
      BY <2>1 DEF Target
    <2>5. crossed' = crossed \cup {s \in Req : req[s].pc = "innerRead" /\ enabled' # enabled}
      BY <1>2 DEF Handles
    <2>6. \A s \in Req \ {r} : req'[s] = req[s]
      BY <2>1
    <2>7. AuditTypeOK'
      BY <2>1, <2>2, <2>3, <2>4, <2>5
    <2>8. ReadsAgree'
      BY <2>2, <2>3, <2>5, <2>6 DEF ReadsAgree, Answered
    <2>9. Progress'
      BY <2>2, <2>3, <2>6 DEF Progress, Answered
    <2>. QED
      BY <2>7, <2>8, <2>9
  <1>3. ASSUME NEW r \in Req, Others(r)
        PROVE  ReplyIInv'
    <2>1. req[r] \in Request /\ enabled' = enabled /\ crossed' = crossed
      BY <1>3 DEF Others, Refuse, Admit, OuterRead, InnerRead, Reply
    <2>2. \A q : Goto(r, q) => req'[r] = q /\ \A s \in Req \ {r} : req'[s] = req[s]
      BY DEF Goto
    <2>3. \A q \in Request : Goto(r, q) => req' \in [Req -> Request]
      BY DEF Goto
    <2>4. CASE Refuse(r)
      <3>. DEFINE q == [req[r] EXCEPT !.pc = "done", !.reply = "failure"]
      <3>1. q \in Request /\ q.pc = "done" /\ q.result = req[r].result /\ q.route = req[r].route
        BY <2>1 DEF Request, Form
      <3>2. Goto(r, q) /\ req[r].pc = "guards"
        BY <2>4 DEF Refuse
      <3>. HIDE DEF q
      <3>. QED
        BY <2>1, <2>2, <2>3, <3>1, <3>2 DEF ReadsAgree, Progress, Answered
    <2>5. CASE Admit(r)
      <3>. DEFINE q == [req[r] EXCEPT !.pc = "outerRead"]
      <3>1. q \in Request /\ q.pc = "outerRead" /\ q.result = req[r].result /\ q.route = req[r].route
        BY <2>1 DEF Request
      <3>2. Goto(r, q) /\ req[r].pc = "guards"
        BY <2>5 DEF Admit
      <3>. HIDE DEF q
      <3>. QED
        BY <2>1, <2>2, <2>3, <3>1, <3>2 DEF ReadsAgree, Progress, Answered
    <2>6. CASE OuterRead(r)
      <3>. DEFINE q == [req[r] EXCEPT !.pc = "innerRead", !.outer = enabled]
      <3>1. q \in Request /\ q.pc = "innerRead" /\ q.result = req[r].result /\ q.outer = enabled
        BY <2>1 DEF Request
      <3>2. Goto(r, q) /\ req[r].pc = "outerRead"
        BY <2>6 DEF OuterRead
      <3>. HIDE DEF q
      <3>. QED
        BY <2>1, <2>2, <2>3, <3>1, <3>2 DEF ReadsAgree, Progress, Answered
    <2>7. CASE InnerRead(r)
      <3>. DEFINE refused == enabled /\ req[r].route \in Encrypted /\ ~req[r].cipher
      <3>. DEFINE q == [req[r] EXCEPT !.pc = IF refused THEN "reply" ELSE "handle",
                             !.inner = enabled,
                             !.result = IF refused THEN "undecryptable" ELSE "none"]
      <3>1. /\ q \in Request /\ q.pc \in {"reply", "handle"} /\ q.inner = enabled
            /\ q.outer = req[r].outer
            /\ q.pc = "reply" => q.result = "undecryptable" /\ q.inner /\ q.route \in Encrypted /\ ~q.cipher
            /\ q.pc = "handle" => q.result = "none"
        BY <2>1 DEF Request, Result
      <3>2. Goto(r, q) /\ req[r].pc = "innerRead"
        BY <2>7 DEF InnerRead
      <3>. HIDE DEF q
      <3>. QED
        BY <2>1, <2>2, <2>3, <3>1, <3>2 DEF ReadsAgree, Progress, Answered
    <2>8. CASE Reply(r)
      <3>. DEFINE form == Sent(req[r])
      <3>. DEFINE q == [req[r] EXCEPT !.pc = "done", !.reply = form]
      <3>1. form \in Form
        BY DEF Sent, ToClient, Form
      <3>2. /\ q \in Request /\ q.pc = "done" /\ q.reply = form
            /\ q.result = req[r].result /\ q.outer = req[r].outer /\ q.inner = req[r].inner
            /\ q.route = req[r].route /\ q.cipher = req[r].cipher
        BY <2>1, <3>1 DEF Request
      <3>3. Goto(r, q) /\ req[r].pc = "reply"
        BY <2>8 DEF Reply
      <3>. HIDE DEF q
      <3>4. q.reply = Sent(q)
        BY <3>2 DEF Sent, ToClient, FromInner
      <3>. HIDE DEF form
      <3>. QED
        BY <2>1, <2>2, <2>3, <3>2, <3>3, <3>4 DEF ReadsAgree, Progress, Answered
    <2>. QED
      BY <1>3, <2>4, <2>5, <2>6, <2>7, <2>8 DEF Others
  <1>4. CASE UNCHANGED auditVars
    BY <1>4 DEF auditVars, vars, ReadsAgree, Progress, Answered
  <1>. QED
    BY <1>1, <1>2, <1>3, <1>4 DEF AuditNext

\* The two reads of the flag and the stages of a request are as ReplyIInv says.
THEOREM ReplyInductive == AuditSpec => []ReplyIInv
  BY ReplyInit, ReplyStep, PTL DEF AuditSpec

\* The flag, the requests and the history keep their types.
THEOREM RepliesTypeCorrect == AuditSpec => []AuditTypeOK
  <1>1. ReplyIInv => AuditTypeOK
    BY DEF ReplyIInv
  <1>. QED
    BY <1>1, ReplyInductive, PTL

\* For any number of requests: one under which encryption was not switched
\* between the two reads of the flag gets a reply that tells success from
\* failure and keeps what the handler returned, with the two exceptions that
\* ReplyTruthful names (loose values in the envelope, a failed download).
THEOREM RepliesAreTruthful == AuditSpec => []ReplyTruthful
  <1>1. ReplyIInv => ReplyTruthful
    <2>. SUFFICES ASSUME ReplyIInv, NEW r \in Req, r \notin crossed, Answered(r)
                  PROVE  /\ Failed(r) => req[r].reply \in {"failure", "sealed", "unanswered"}
                         /\ req[r].result \in {"data", "null"} /\ ~Dropped(r) =>
                              req[r].reply \in {"sealed", "bare", "envelope", "file"}
                         /\ req[r].reply = "unanswered" =>
                              Failed(r) /\ req[r].route = "download" /\ req[r].outer
      BY DEF ReplyTruthful
    <2>1. req[r] \in Request /\ req[r].outer = req[r].inner
      BY DEF ReplyIInv, AuditTypeOK, TypeOK, ReadsAgree
    <2>2. /\ req[r].reply = Sent(req[r])
          /\ req[r].result = "undecryptable" => req[r].inner /\ req[r].route \in Encrypted
          /\ req[r].result = "null" => req[r].route = "json"
      BY DEF ReplyIInv, Progress
    <2>3. CASE req[r].route = "download"
      BY <2>1, <2>2, <2>3 DEF Sent, FromInner, Request, Result, Failed, Answered, Encrypted
    <2>4. CASE req[r].route # "download"
      BY <2>1, <2>2, <2>4 DEF Sent, ToClient, FromInner, Request, Failed, Dropped
    <2>. QED
      BY <2>3, <2>4
  <1>. QED
    BY <1>1, ReplyInductive, PTL

\* The reply to a request that was decrypted never leaves in the clear, on any
\* route but the download of the APK, whose only replies are the file and
\* that it is missing.
THEOREM DecryptedIsSealed == AuditSpec => []SealedOnceDecrypted
  <1>1. ReplyIInv => SealedOnceDecrypted
    <2>. SUFFICES ASSUME ReplyIInv, NEW r \in Req, Answered(r),
                         req[r].inner, req[r].route \in Encrypted, req[r].cipher
                  PROVE  IF req[r].route = "download"
                         THEN req[r].reply \in {"file", "failure", "unanswered"}
                              /\ (req[r].reply = "failure" => req[r].result = "nofile")
                         ELSE req[r].reply \in {"sealed", "hollow"}
      BY DEF SealedOnceDecrypted
    <2>1. /\ req[r].reply = Sent(req[r])
          /\ req[r].result # "undecryptable"
      BY DEF ReplyIInv, Progress
    <2>. QED
      BY <2>1 DEF Sent, ToClient, FromInner
  <1>. QED
    BY <1>1, ReplyInductive, PTL

=============================================================================
