----------------------------- MODULE ReplyAudit -----------------------------
(***************************************************************************)
(* What a client may conclude from the form of a reply.  The flag is read  *)
(* twice per request; the history variable holds the requests for which it *)
(* was switched between the two reads.                                     *)
(***************************************************************************)
EXTENDS ReplyPipeline

VARIABLE crossed

auditVars == <<vars, crossed>>

AuditInit == Init /\ crossed = {}

Arrives(r) == Arrive(r) /\ crossed' = crossed \ {r}

\* A switch crosses the requests that have read the flag once.
Handles(r) ==
    /\ Handle(r)
    /\ crossed' = crossed \cup {s \in Req : req[s].pc = "innerRead" /\ enabled' # enabled}

Others(r) ==
    /\ Refuse(r) \/ Admit(r) \/ OuterRead(r) \/ InnerRead(r) \/ Reply(r)
    /\ UNCHANGED crossed

AuditNext == \E r \in Req : Arrives(r) \/ Handles(r) \/ Others(r)

AuditSpec == AuditInit /\ [][AuditNext]_auditVars

-----------------------------------------------------------------------------
\* Type invariant of the flag, the requests and the history.
AuditTypeOK == TypeOK /\ crossed \subseteq Req

\* r is over and its guard had let it in.
Answered(r) == req[r].pc = "done" /\ req[r].result # "none"

\* The handler or the decryption failed.
Failed(r) == req[r].result \in {"error", "undecryptable"}

\* With encryption off the envelope cannot hold what this handler returns.
Dropped(r) == req[r].route \in {"text", "json"} /\ ~req[r].outer

\* A client can tell success from failure and gets what the handler returned,
\* unless the flag was switched under the request: no error is reported as a
\* success; no data is dropped from a success, but for the strings and the
\* decrypted JSON that the envelope drops while encryption is off; and no
\* request stays without an answer, but for a failed APK download while
\* encryption is on.
ReplyTruthful == \A r \in Req \ crossed : Answered(r) =>
    /\ Failed(r) => req[r].reply \in {"failure", "sealed", "unanswered"}
    /\ req[r].result \in {"data", "null"} /\ ~Dropped(r) =>
         req[r].reply \in {"sealed", "bare", "envelope", "file"}
    /\ req[r].reply = "unanswered" => Failed(r) /\ req[r].route = "download" /\ req[r].outer

\* No handler's reply to a decrypted request leaves in the clear, whatever
\* happens to the flag afterwards, because the body that was decrypted decides.
\* GET /apks/download is the one exception: it sends the APK as it is, or that
\* the file is missing, and is otherwise not answered.
SealedOnceDecrypted == \A r \in Req :
    Answered(r) /\ req[r].inner /\ req[r].route \in Encrypted /\ req[r].cipher =>
        IF req[r].route = "download" THEN req[r].reply \in {"file", "failure", "unanswered"}
                                                /\ (req[r].reply = "failure" => req[r].result = "nofile")
        ELSE req[r].reply \in {"sealed", "hollow"}

-----------------------------------------------------------------------------
(* The inductive invariant. *)

\* After its second read, an uncrossed request has read the same flag twice.
ReadsAgree == \A r \in Req \ crossed :
    /\ req[r].pc = "innerRead" => req[r].outer = enabled
    /\ req[r].pc \in {"handle", "reply"} \/ Answered(r) => req[r].outer = req[r].inner

\* What is known of a request at each pc.
Progress == \A r \in Req :
    /\ req[r].pc = "reply" => req[r].result # "none"
    /\ req[r].pc \in {"idle", "guards", "outerRead", "innerRead", "handle"} => req[r].result = "none"
    /\ req[r].result = "undecryptable" => req[r].inner /\ req[r].route \in Encrypted /\ ~req[r].cipher
    /\ req[r].result = "null" => req[r].route = "json"
    /\ Answered(r) => req[r].reply = Sent(req[r])

ReplyIInv == AuditTypeOK /\ ReadsAgree /\ Progress

=============================================================================
