---------------------------- MODULE ReplyPipeline ---------------------------
(***************************************************************************)
(* What a request passes through around its handler: the guards, then      *)
(* ResponseInterceptor (registered first, so the outer one), then          *)
(* EncryptionInterceptor, then the handler, and the two interceptors'      *)
(* continuations in the reverse order.  Each interceptor reads the flag    *)
(* encryption.enabled with a query of its own before it calls the next.    *)
(* Ciphers and JSON are abstracted to the form of a body.                  *)
(***************************************************************************)
EXTENDS Naturals, FiniteSets

CONSTANT Req   \* slots for requests being served at the same time

VARIABLES
    enabled,   \* encryption.enabled, of the row with id '1'
    req        \* the request in each slot

vars == <<enabled, req>>

\* What a route's handler is: "api" (encrypted, answers { message, data }),
\* "download" (encrypted, but sends the APK itself through @Res), or marked
\* with @ExcludeInterceptor and answering { message, data }, a bare string
\* ("text": checkHealth, encrypt), any JSON value ("json": decrypt), or
\* switching the flag.
Route == {"api", "download", "excluded", "text", "json", "toggleOn", "toggleOff"}

\* The routes whose requests are decrypted while encryption is on.
Encrypted == {"api", "download"}

\* The forms of a reply: "sealed" (a ciphertext), "bare" (the handler's data as
\* it is), "envelope" ({ status: true, message, data }), "hollow" (an envelope
\* without what the handler returned), "failure" ({ status: false, message } in
\* the clear), "file" (the APK), "unanswered" (nothing is ever sent).
Form == {"none", "sealed", "bare", "envelope", "hollow", "failure", "file", "unanswered"}

\* What the handler or the inner interceptor made.  A decrypted text may hold
\* null, and the file of the APK may be missing when it is to be sent.
Result == {"none", "data", "null", "nofile", "error", "undecryptable"}

Request == [pc     : {"idle", "guards", "outerRead", "innerRead", "handle", "reply", "done"},
            route  : Route,
            cipher : BOOLEAN,    \* the client sent a ciphertext (or x-metadata)
            outer  : BOOLEAN,    \* the flag as ResponseInterceptor read it
            inner  : BOOLEAN,    \* the flag as EncryptionInterceptor read it
            result : Result,
            reply  : Form]

Arrived(route, cipher) ==
    [pc |-> "guards", route |-> route, cipher |-> cipher, outer |-> FALSE, inner |-> FALSE,
     result |-> "none", reply |-> "none"]

Idle == [Arrived("api", FALSE) EXCEPT !.pc = "idle"]

TypeOK == enabled \in BOOLEAN /\ req \in [Req -> Request]

\* The seeder inserts the row with enabled: true.
Init == enabled = TRUE /\ req = [r \in Req |-> Idle]

-----------------------------------------------------------------------------
Goto(r, q) == req' = [req EXCEPT ![r] = q]

Arrive(r) == \E route \in Route, cipher \in BOOLEAN :
    /\ req[r].pc \in {"idle", "done"}
    /\ Goto(r, Arrived(route, cipher))
    /\ UNCHANGED enabled

\* A guard throws: ExceptionHandler answers, no interceptor has run.
Refuse(r) ==
    /\ req[r].pc = "guards"
    /\ Goto(r, [req[r] EXCEPT !.pc = "done", !.reply = "failure"])
    /\ UNCHANGED enabled

Admit(r) ==
    /\ req[r].pc = "guards"
    /\ Goto(r, [req[r] EXCEPT !.pc = "outerRead"])
    /\ UNCHANGED enabled

OuterRead(r) ==
    /\ req[r].pc = "outerRead"
    /\ Goto(r, [req[r] EXCEPT !.pc = "innerRead", !.outer = enabled])
    /\ UNCHANGED enabled

\* Only now does the request become one to be decrypted, or not.
InnerRead(r) ==
    LET q == req[r]
        refused == enabled /\ q.route \in Encrypted /\ ~q.cipher
    IN  /\ q.pc = "innerRead"
        /\ Goto(r, [q EXCEPT !.pc = IF refused THEN "reply" ELSE "handle",
                             !.inner = enabled,
                             !.result = IF refused THEN "undecryptable" ELSE "none"])
        /\ UNCHANGED enabled

Target(route) == IF route = "toggleOn" THEN TRUE
                 ELSE IF route = "toggleOff" THEN FALSE ELSE enabled

Outcome(route) == {"data", "error"} \cup {o \in {"null"} : route = "json"}
                                    \cup {o \in {"nofile"} : route = "download"}

Handle(r) == \E o \in Outcome(req[r].route) :
    /\ req[r].pc = "handle"
    /\ Goto(r, [req[r] EXCEPT !.pc = "reply", !.result = o])
    /\ enabled' = IF o = "data" THEN Target(req[r].route) ELSE enabled

\* Mutant: without catchError, the error of an encrypted handler passes by.
FromInnerUncaught(q) ==
    IF q.result = "undecryptable" THEN "fault"
    ELSE IF q.result = "error" THEN "error"
    ELSE IF q.inner /\ q.route \in Encrypted THEN "cipher"
    ELSE IF q.result = "null" THEN "null"
    ELSE IF q.route \in {"text", "json"} THEN "loose" ELSE "data"

\* The body EncryptionInterceptor hands out: catchError turns an error of an
\* encrypted handler into a body that is encrypted like any other.
FromInner(q) ==
    IF q.result = "undecryptable" THEN "fault"
    ELSE IF q.inner /\ q.route \in Encrypted THEN "cipher"
    ELSE IF q.result = "error" THEN "error"
    ELSE IF q.result = "null" THEN "null"
    ELSE IF q.route \in {"text", "json"} THEN "loose" ELSE "data"

\* Mutant: every reply gets an envelope, as without encryption.
ToClientAlways(body, outer) ==
    IF body = "error" THEN "failure" ELSE IF body = "data" THEN "envelope" ELSE "hollow"

\* Mutant: without ExceptionHandler, an error goes out as it was thrown.
ToClientUnhandled(body, outer) ==
    IF outer THEN (IF body = "cipher" THEN "sealed" ELSE IF body = "error" THEN body ELSE "bare")
    ELSE IF body = "data" THEN "envelope" ELSE "hollow"

\* What ResponseInterceptor makes of it.  It does not see an error, which goes
\* to ExceptionHandler.  Of a string, of JSON that is no { message, data } and of
\* a body without data, the envelope keeps nothing but a message; looking for
\* one in null throws.
ToClient(body, outer) ==
    IF body = "error" THEN "failure"
    ELSE IF outer THEN (IF body = "cipher" THEN "sealed" ELSE IF body = "fault" THEN "failure" ELSE "bare")
    ELSE IF body = "null" THEN "failure"
    ELSE IF body = "data" THEN "envelope" ELSE "hollow"

\* With @Res, Nest leaves the reply to the handler and drops what the
\* interceptors made: a body they return instead of an error is never sent.
Sent(q) ==
    IF q.route # "download" THEN ToClient(FromInner(q), q.outer)
    ELSE IF q.result = "data" THEN "file"
    ELSE IF q.result = "nofile" \/ FromInner(q) = "error" THEN "failure" ELSE "unanswered"

Reply(r) ==
    /\ req[r].pc = "reply"
    /\ Goto(r, [req[r] EXCEPT !.pc = "done", !.reply = Sent(req[r])])
    /\ UNCHANGED enabled

Next == \E r \in Req :
    \/ Arrive(r) \/ Refuse(r) \/ Admit(r) \/ OuterRead(r) \/ InnerRead(r) \/ Handle(r) \/ Reply(r)

Spec == Init /\ [][Next]_vars

=============================================================================
