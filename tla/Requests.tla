------------------------------ MODULE Requests ------------------------------
(***************************************************************************)
(* What a browser gets from the handler chain of web/router.go, with       *)
(* several requests of one session in flight: the same-origin gate, the    *)
(* user, the forms, the flash and the page to return to after sign-in      *)
(* (kept in the session, which is copied as a request begins and saved as  *)
(* it is answered), and the errors, which errorHandler is called with      *)
(* twice: by the request logger (HandleError) and again by Echo.           *)
(***************************************************************************)
EXTENDS Integers

CONSTANTS
    Slots,      \* requests at a time
    MaxIds,     \* bound: session tokens drawn
    MaxFlashes, \* bound: flashes set
    Uris        \* bound: request URIs of "/", "http://ours/", which proxies are sent, among them

Nowhere == ""   \* no URI

ASSUME RequestParameters == MaxIds \in Nat /\ MaxFlashes \in Nat /\ Nowhere \notin Uris

VARIABLES
    rows,       \* the stored sessions by token
    cookie,     \* the browser's token
    req,        \* the requests
    flashes,    \* flashes set so far, each with its number
    fate,       \* history: what became of each
    last,       \* history: the answer that the last step gave
    wanted      \* history: the page RequireUser last sent to sign-in from, or AnyPage:
                \* requests overlapped since

vars == <<rows, cookie, req, flashes, fate, last, wanted>>

-----------------------------------------------------------------------------
(* secure.go.                                                              *)

\* How the server is reached: the browser's scheme, whether the last hop is TLS,
\* what the proxies on the way say of the scheme (in X-Forwarded-Proto and in the
\* request URI, which most leave without one), and the Host they send.
Schemes == {"http", "https"}
Deployments == [scheme : Schemes, tls : BOOLEAN, proto : Schemes \cup {""},
                uri : Schemes \cup {""}, host : {"ours", "inner"}]

\* Where the form that posts was: on a page of ours, on one of our host but
\* another scheme, elsewhere.
Origins == {[scheme |-> s, host |-> "ours"] : s \in Schemes} \cup
              {[scheme |-> "https", host |-> "theirs"]}
SameOrigin(d, o) == o.host = "ours" /\ o.scheme = d.scheme

\* A browser sends Origin; where that is stripped or not known to it, the
\* verdict of Sec-Fetch-Site; another client may send neither.
Headers(d, o) ==
    {[origin |-> TRUE, site |-> ""], [origin |-> FALSE, site |-> ""],
     [origin |-> FALSE, site |-> IF SameOrigin(d, o) THEN "same-origin" ELSE "cross-site"]}

IgnoreProxy(d) == IF d.tls THEN "https" ELSE "http"  \* (fault)
RequestScheme(d) ==
    IF d.proto /= "" THEN d.proto
    ELSE IF d.uri /= "" THEN d.uri
    ELSE IF d.tls THEN "https" ELSE "http"

\* flows - the path begins with /api/inngest, where the Inngest server posts.
SameOriginPost(d, o, h, flows) ==
    \/ flows
    \/ IF h.origin THEN o.scheme = RequestScheme(d) /\ o.host = d.host
       ELSE h.site \in {"same-origin", "none"}

\* Whether it can be told what page a form was on: by the browser, or where the
\* proxies say of the way in what the browser sees.
Told(d, h) ==
    IF h.origin
    THEN /\ d.host = "ours" /\ {d.proto, d.uri} \subseteq {"", d.scheme}
         /\ d.proto /= "" \/ d.uri /= "" \/ (d.tls <=> d.scheme = "https")
    ELSE h.site /= ""

\* Whether a post is to be refused: one from a foreign page, but for those of the
\* Inngest server.  Nothing is asked of a post of our host's that cannot be told.
Barred(d, o, h, flows) ==
    /\ ~flows
    /\ IF o.host = "ours" /\ ~Told(d, h) THEN ~SameOriginPost(d, o, h, flows) ELSE ~SameOrigin(d, o)

\* The verdicts there are, each with what it should have been.
Verdicts ==
    UNION {UNION {{[barred |-> Barred(d, o, h, flows), flows |-> flows,
                    passes |-> SameOriginPost(d, o, h, flows)] :
                      h \in Headers(d, o), flows \in BOOLEAN} : o \in Origins} : d \in Deployments}

Root == "/"
SafeRedirectPath(path) == path \notin {Nowhere, "http://ours/"}
SafeRedirect(path) == IF SafeRedirectPath(path) THEN path ELSE Root

-----------------------------------------------------------------------------

Ids == 1..MaxIds
NoRow == [used |-> FALSE, user |-> FALSE, flash |-> 0, after |-> Nowhere]
NewRow == [NoRow EXCEPT !.used = TRUE]

\* A request: at - where it is; post - its method; flows - it posts under
\* /api/inngest; inside - it is past LoadAndSave, whose copy of the session is
\* id, data and session ("unmodified", "modified" or "destroyed"); seen - the
\* flash its page takes; sent - the page RequireUser sends it to sign-in from;
\* err - the error on its way out; status, loc - the answer, 0 if none is
\* written; reports - its events in Sentry; byOther - scs or the Inngest SDK
\* answers; barred, due - history: the gate owes the post a refusal, and where a
\* sign-in owes the browser to go.  Its other routes are chosen when it is handled.
Idle == [at |-> "idle", post |-> FALSE, flows |-> FALSE, inside |-> FALSE, id |-> 0, data |-> NewRow,
         session |-> "unmodified", seen |-> 0, sent |-> Nowhere, err |-> 0, status |-> 0, loc |-> Nowhere,
         reports |-> 0, byOther |-> FALSE, barred |-> FALSE, due |-> Nowhere]

\* Of an answer: what it was, and what became known of it elsewhere.
Outcome(q) == [status |-> q.status, loc |-> q.loc, due |-> q.due,
               reports |-> q.reports, byOther |-> q.byOther]

Init ==
    /\ rows = [i \in Ids |-> NoRow] /\ cookie = 0
    /\ req = [r \in Slots |-> Idle]
    /\ flashes = 0
    /\ fate = [f \in 1..MaxFlashes |-> "unset"]
    /\ last = Outcome(Idle) /\ wanted = Nowhere

\* A sign-in or the end of its session uses up the page to return to.
AnyPage == "any"
Forget == wanted' = IF wanted = AnyPage THEN AnyPage ELSE Nowhere

Active(r) == req[r].at /= "idle"
Others(r) == {o \in Slots \ {r} : Active(o)}

Becomes(r, q) == req' = [req EXCEPT ![r] = q]

Failing(q, status) == [q EXCEPT !.at = "failed", !.err = status]

Goes(r, q) ==
    /\ Becomes(r, IF q.at \in {"in", "handler"} THEN q ELSE [q EXCEPT !.post = FALSE, !.flows = FALSE])
    /\ last' = Outcome(Idle)
Done(r, q) == Becomes(r, Idle) /\ last' = Outcome(q)

\* A flash is "live" until it is "shown", and then shown "again"; or it is
\* "void": replaced, destroyed with its session, lost by an error, or in
\* sight of two requests at once.
Mark(which, what) ==
    fate' = [f \in DOMAIN fate |-> IF f \in which /\ fate[f] /= "void" THEN what ELSE fate[f]]

-----------------------------------------------------------------------------
(* The way in.                                                             *)

\* Every flash in sight of two requests is out of a single one's control.
InSight == {req[o].data.flash : o \in {s \in Slots : Active(s)}} \cup
           (IF cookie = 0 THEN {} ELSE {rows[cookie].flash})

\* SecureHeaders and BodyLimit can refuse, outside the logger; scs answers
\* itself when it cannot load the session; then the gate.
Arrive(r, post) ==
    LET known == cookie /= 0 /\ rows[cookie].used
        new   == [Idle EXCEPT !.post = post]
        in    == [new EXCEPT !.inside = TRUE, !.at = "in", !.session = IF known THEN "modified" ELSE "unmodified",
                     !.id = IF known THEN cookie ELSE 0,
                     !.data = IF known THEN rows[cookie] ELSE NewRow]
    IN  /\ ~Active(r)
        /\ \/ \E s \in {413, 500} : Goes(r, [new EXCEPT !.at = "unwound", !.err = s])
           \/ Done(r, [new EXCEPT !.status = 500, !.byOther = TRUE])
           \/ ~post /\ Goes(r, in)
           \/ /\ post
              /\ \E v \in Verdicts :
                    LET posted == [in EXCEPT !.barred = v.barred, !.flows = v.flows]
                    IN  Goes(r, IF v.passes THEN posted ELSE Failing(posted, 403))
        /\ Mark(IF Others(r) = {} THEN {} ELSE InSight, "void")
        /\ wanted' = IF Others(r) = {} THEN wanted ELSE AnyPage
        /\ UNCHANGED <<rows, cookie, flashes>>

\* A token of its own, any of those not in use being as good as another.
Unused == {i \in Ids : ~rows[i].used /\ \A s \in Slots : req[s].id /= i}
Beyond == {MaxIds + 1}  \* (fault)
Fresh == {i \in Unused : \A j \in Unused : i <= j}

Destroyed(q) == [q EXCEPT !.id = 0, !.data = NewRow, !.session = "destroyed"]
DropRow(i) == rows' = IF i = 0 THEN rows ELSE [rows EXCEPT ![i] = NoRow]

\* LoadUser: no user, the user, an account that vanished, a database error,
\* or a password changed since (the session is destroyed).
LoadUser(r) ==
    LET q == req[r]
        on == [q EXCEPT !.at = "handler"]
    IN  /\ q.at = "in"
        /\ \/ Goes(r, on) /\ UNCHANGED <<rows, fate, wanted>>
           \/ /\ q.data.user
              /\ \/ Goes(r, [on EXCEPT !.data.user = FALSE])
                 \/ Goes(r, Failing(q, 500))
              /\ UNCHANGED <<rows, fate, wanted>>
           \/ /\ q.data.user
              /\ Goes(r, Destroyed(on))
              /\ DropRow(q.id) /\ Mark({q.data.flash}, "void") /\ Forget
        /\ UNCHANGED <<cookie, flashes>>

-----------------------------------------------------------------------------
(* Handlers.                                                               *)

\* What a handler makes of the request: a page, after a flash or without,
\* a redirect, or an error.  TakeFlash pops the flash before the page is
\* rendered, and a page that fails to render is a 500.
KeepFlash(q, flash) ==  \* (fault)
    {[q EXCEPT !.at = "write", !.status = 200, !.session = "modified", !.data.flash = flash, !.seen = flash]}

Page(q, flash) ==
    LET taken == [q EXCEPT !.data.flash = 0, !.session = IF flash /= 0 THEN "modified" ELSE q.session]
    IN  {[taken EXCEPT !.at = "write", !.status = 200, !.seen = flash], Failing(taken, 500)}

\* Where to is told for the redirect that does not always go to one page.
Redirect(q, path) == {[q EXCEPT !.at = "write", !.status = 303, !.loc = SafeRedirect(path)]}
Away(q) == {[q EXCEPT !.at = "write", !.status = 303]}

Plain(r, answers) ==
    /\ \E q \in answers :
         /\ Goes(r, q)
         /\ Mark(IF q.at = "failed" /\ q.data.flash = 0 THEN {req[r].data.flash} ELSE {}, "void")
    /\ UNCHANGED <<rows, flashes, wanted>>

\* A handler that sets a flash: it replaces the one there is.
NextFlash == flashes + 1
SetFlash(r) == [req[r] EXCEPT !.data.flash = NextFlash, !.session = "modified"]

Flashing(r, answers) ==
    /\ flashes < MaxFlashes
    /\ flashes' = NextFlash
    /\ \E q \in answers :
         /\ Goes(r, q)
         /\ fate' = [f \in DOMAIN fate |->
                IF f = flashes' THEN IF Others(r) /= {} \/ q.at = "failed" THEN "void" ELSE "live"
                ELSE IF f = req[r].data.flash THEN "void" ELSE fate[f]]
    /\ UNCHANGED <<rows, wanted>>

\* RequireUser and Home.
Home(r) ==
    LET q == req[r]
    IN  Plain(r, IF q.data.user THEN Page(q, q.data.flash)
                 ELSE UNION {Away([q EXCEPT !.data.after = uri, !.sent = uri, !.session = "modified"]) : uri \in Uris})

SigninForm(r) ==
    LET q == req[r]
    IN  Plain(r, IF q.data.user THEN Away(q) ELSE Page(q, q.data.flash))

\* PasswordResetRequestForm, and PasswordResetConfirmForm on a live token.
Form(r) == Plain(r, Page(req[r], req[r].data.flash))

\* Credentials accepted: RenewToken deletes the stored session, the copy goes
\* on under a new token, and after_signin is popped.
PeekAfter(q) == q.data.after  \* (fault)
PopAfter(q) == Nowhere

Signin(r) ==
    LET q == req[r]
    IN  /\ \E i \in Fresh :
              \E a \in Redirect([q EXCEPT !.id = i, !.data.user = TRUE, !.data.after = PopAfter(q), !.session = "modified",
                                           !.due = IF wanted = AnyPage THEN AnyPage ELSE SafeRedirect(wanted)],
                                q.data.after) : Goes(r, a)
        /\ DropRow(q.id)
        /\ Forget
        /\ UNCHANGED <<flashes, fate>>

\* A request that the throttle or the password policy refuses, or whose
\* password is wrong, renders its form again with a flash.
Refused(r) == Flashing(r, Page(SetFlash(r), NextFlash))

\* The reset forms on the way elsewhere, to /signin when done and to
\* /password-reset when the link is dead, with a flash for the next page.
Flashed(r) == Flashing(r, Away(SetFlash(r)))

Signout(r) ==
    /\ \E a \in Away(Destroyed(req[r])) : Goes(r, a)
    /\ DropRow(req[r].id) /\ Mark({req[r].data.flash}, "void") /\ Forget
    /\ UNCHANGED flashes

\* A malformed form (400), a route that is not there (404, as good as 400), a
\* failing query (500), a database that does not answer /ready (503, as good as
\* 500), or a panic, which Recover turns into an error outside the logger.
\* /health and a good /ready are plain text.
Panicked(q) == [q EXCEPT !.at = "unwound", !.err = 500]

Fails(r) ==
    LET q == req[r]
    IN  Plain(r, {Failing(q, 400), Failing(q, 500), Panicked(q)} \cup
                 IF q.post THEN {} ELSE {[q EXCEPT !.at = "write", !.status = 200]})

\* /api/inngest: the SDK answers itself, what it makes a 500 of included.  A
\* longer path is a route that is not there.
OwnFailure(q) == [q EXCEPT !.at = "write", !.status = 500, !.byOther = TRUE]

Flows(r) ==
    LET q == req[r]
    IN  Plain(r, {[q EXCEPT !.at = "write", !.status = 200], OwnFailure(q), Failing(q, 400), Panicked(q)})

Handle(r) ==
    /\ req[r].at = "handler"
    /\ \/ ~req[r].post /\ (Home(r) \/ SigninForm(r) \/ Form(r))
       \/ req[r].post /\ ~req[r].flows /\ (Signin(r) \/ Refused(r) \/ Signout(r))
       \/ ~req[r].flows /\ (Flashed(r) \/ Fails(r))
       \/ (req[r].post => req[r].flows) /\ Flows(r)
    /\ UNCHANGED cookie

-----------------------------------------------------------------------------
(* The way out.                                                            *)

\* The session is saved before the first byte is written, under a token of
\* its own if it has none yet.
Save(q) ==
    IF q.session = "modified"
    THEN \E i \in IF q.id /= 0 THEN {q.id} ELSE Fresh :
            rows' = [rows EXCEPT ![i] = q.data] /\ cookie' = i
    ELSE rows' = rows /\ cookie' = IF q.session = "destroyed" THEN 0 ELSE cookie

\* An answer: the first write commits the session and the response.
Write(r) ==
    LET q == req[r]
    IN  /\ q.at = "write"
        /\ Save(q)
        /\ Done(r, q)
        /\ Mark({q.seen}, IF q.seen /= 0 /\ fate[q.seen] \in {"shown", "again"} THEN "again" ELSE "shown")
        /\ wanted' = IF q.sent = Nowhere THEN wanted ELSE IF Others(r) = {} THEN q.sent ELSE AnyPage
        /\ UNCHANGED flashes

\* The store refuses the session: scs answers 500 itself, and the handler's
\* answer is lost.
SaveFails(r) ==
    LET q == req[r]
    IN  /\ q.at = "write" /\ q.session = "modified"
        /\ Done(r, [q EXCEPT !.status = 500, !.byOther = TRUE])
        /\ Mark({q.data.flash, q.seen} \ {rows[i].flash : i \in {q.id} \cap Ids}, "void")
        /\ UNCHANGED <<rows, cookie, flashes, wanted>>

\* errorHandler: not twice, and a report for what is the server's own fault.
Reported(q) ==  \* (fault)
    [q EXCEPT !.status = q.err, !.reports = IF q.err >= 500 THEN @ + 1 ELSE @]

ErrorHandler(q) ==
    IF q.status /= 0 THEN q
    ELSE [q EXCEPT !.status = q.err, !.reports = IF q.err >= 500 THEN @ + 1 ELSE @]

\* With an answer written the copy of the session is done with.
Answered(q) == [Idle EXCEPT !.at = "unwound", !.err = q.err, !.status = q.status,
                            !.reports = q.reports, !.byOther = q.byOther]

\* The logger handles the error of the inner chain and hands it on; outside
\* of it Echo handles what it is handed.  A store that refuses the session
\* answers 500 before the error page does.
Unwind(r) ==
    \E unsaved \in {FALSE, req[r].session = "modified" /\ req[r].status = 0} :
        LET q == req[r]
            e == [ErrorHandler(q) EXCEPT !.byOther = q.byOther \/ unsaved]
        IN  /\ IF q.status = 0 /\ ~unsaved THEN Save(q) ELSE UNCHANGED <<rows, cookie>>
            /\ \/ q.at = "failed" /\ Goes(r, Answered(e))
               \/ q.at = "unwound" /\ Done(r, e)
            /\ UNCHANGED <<flashes, fate, wanted>>

Next ==
    \E r \in Slots :
        \/ \E post \in BOOLEAN : Arrive(r, post)
        \/ LoadUser(r) \/ Handle(r) \/ Write(r) \/ SaveFails(r) \/ Unwind(r)

Spec == Init /\ [][Next]_vars

-----------------------------------------------------------------------------

TypeOK ==
    /\ \A i \in Ids : rows[i].flash \in 0..flashes
    /\ cookie \in 0..MaxIds /\ flashes \in 0..MaxFlashes
    /\ \A r \in Slots : /\ req[r].at \in {"idle", "in", "handler", "write", "failed", "unwound"}
                        /\ req[r].id \in 0..MaxIds /\ req[r].data.flash \in 0..flashes
    /\ wanted \in Uris \cup {Nowhere, AnyPage}

\* "captureError reports a 5xx to Sentry" (web/errors.go:79): each once, though
\* errorHandler has two callers, and no other answer; what scs or the Inngest SDK
\* answers itself never gets there.
FailuresHeardOnce ==
    IF last.byOther THEN last.reports <= 1 ELSE last.reports = IF last.status >= 500 THEN 1 ELSE 0

\* "SameOriginPost rejects cross-origin POSTs" (web/secure.go:52) and no others:
\* a form of another host's in every deployment, one of our host's under another
\* scheme wherever the proxies, or the browser itself, tell what the browser
\* sees; there ours are let in, and everywhere the Inngest server, whose path is
\* exempt (web/secure.go:69-75).
GateMatchesOrigin ==
    \A r \in Slots : req[r].inside =>
        (req[r].barred <=> req[r].err = 403)

\* A flash is "a one-shot message for the next render" (web/flash.go:9): on
\* one page at most, and until then in the browser's session or on its way
\* there - unless requests overlapped, or it was replaced, its session was
\* destroyed, or an error page came in its stead.
FlashShownOnce ==
    \A f \in DOMAIN fate :
        /\ fate[f] /= "again"
        /\ fate[f] = "live" => \/ cookie /= 0 /\ rows[cookie].flash = f
                              \/ \E r \in Slots : Active(r) /\ f \in {req[r].data.flash, req[r].seen}

\* "signin can bounce the user back" (web/auth.go:60): to the page that the
\* browser was last sent away from, and to "/" if there was none, or none of
\* ours - unless requests overlapped since.
BouncedReturns ==
    last.due /= Nowhere /\ last.status = 303 => last.due \in {last.loc, AnyPage}
=============================================================================
