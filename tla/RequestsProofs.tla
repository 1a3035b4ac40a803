--------------------------- MODULE RequestsProofs ---------------------------
(***************************************************************************)
(* The handler chain for any number of requests, tokens, flashes and URIs. *)
(* The invariant follows the copy that a request has of the session: what  *)
(* its fields can be at each place (Sound), which of the rows and the      *)
(* copies hold a flash (Flashes), and that the page to return to is the    *)
(* same in the row and in the copy as long as one request at a time runs   *)
(* (Bounces).  Two lemmas do most of the work on the way in and in the     *)
(* handlers, whatever the route: Moves, for a step that leaves the stored  *)
(* session alone, and Parts, for one that drops it; and two on the way     *)
(* out: Leaves, which saves the copy, and Lost, which does not.            *)
(***************************************************************************)
EXTENDS Requests, TLAPS

\* What the records are.
Places == {"idle", "in", "handler", "write", "failed", "unwound"}
Session == [used: BOOLEAN, user: BOOLEAN, flash: Nat, after: Uris \cup {Nowhere}]
Locations == Uris \cup {Nowhere, Root}
Request == [at: Places, post: BOOLEAN, flows: BOOLEAN, inside: BOOLEAN, id: 0..MaxIds, data: Session,
            session: {"unmodified", "modified", "destroyed"}, seen: Nat, sent: Uris \cup {Nowhere},
            err: Nat, status: Nat, loc: Locations, reports: Nat,
            byOther: BOOLEAN, barred: BOOLEAN, due: Uris \cup {Nowhere, Root, AnyPage}]

Fates == {"unset", "live", "shown", "again", "void"}

Types ==
    /\ rows \in [Ids -> Session] /\ cookie \in 0..MaxIds
    /\ req \in [Slots -> Request]
    /\ flashes \in 0..MaxFlashes
    /\ fate \in [1..MaxFlashes -> Fates]
    /\ wanted \in Uris \cup {Nowhere, AnyPage}

\* The answer, the error and the reports of a request.
Counted(q) == q.reports = IF q.status >= 500 THEN 1 ELSE 0

Accounted(q) ==
    /\ q.at = "write" => /\ q.status \in {200, 303} \/ (q.status = 500 /\ q.byOther)
                         /\ q.reports = 0 /\ q.err = 0
    /\ q.at /= "write" => Counted(q)
    /\ q.at \in {"idle", "in", "handler"} => q.status = 0 /\ q.err = 0
    /\ q.at = "failed" => q.status = 0 /\ q.err /= 0
    /\ q.at = "unwound" => q.status \in {0, q.err} /\ q.err /= 0
    /\ q.at \in {"idle", "in", "handler", "failed"} => ~q.byOther

Judged(q) == q.inside => (q.barred <=> q.err = 403)

\* The copy of the session.
Copied(q) ==
    /\ q.at = "idle" => ~q.inside
    /\ q.at \in {"in", "handler", "write", "failed"} => q.inside
    /\ q.data.used
    /\ ~q.inside => q.session = "unmodified" /\ q.id = 0
    /\ q.session = "destroyed" => q.id = 0
    /\ q.data.flash /= 0 => q.session = "modified"

Answering(q) ==
    /\ q.seen /= 0 => q.at = "write" /\ q.session = "modified" /\ q.data.flash = 0
    /\ q.sent /= Nowhere => q.at = "write" /\ q.session = "modified" /\ q.data.after = q.sent
    /\ q.due /= Nowhere => q.at = "write" /\ q.due \in {q.loc, AnyPage}

Sound(q) == Accounted(q) /\ Judged(q) /\ Copied(q) /\ Answering(q)

\* No flash is from the future, and a row that is not in use has none.
Bounded ==
    /\ \A i \in Ids : rows[i].flash <= flashes /\ (rows[i].flash /= 0 => rows[i].used)
    /\ \A r \in Slots : req[r].data.flash <= flashes /\ req[r].seen <= flashes

\* Requests come one at a time, and what the browser's session says.
Single == \A r, s \in Slots : Active(r) /\ Active(s) => r = s

Known == cookie /= 0 /\ rows[cookie].used
ReturnTo == IF Known THEN rows[cookie].after ELSE Nowhere

\* While they do, "wanted" is the page in the stored session, and in the copy
\* of the request that is in flight, which is of that session.
Bounces ==
    wanted /= AnyPage =>
        /\ Single
        /\ ReturnTo = wanted
        /\ \A r \in Slots : req[r].inside =>
              /\ req[r].sent = Nowhere => req[r].data.after = wanted
              /\ ~Known \/ req[r].id = cookie

\* Where a flash is.
Kept(f) == cookie /= 0 /\ rows[cookie].flash = f
Held(r, f) == Active(r) /\ req[r].data.flash = f
Seen(r, f) == Active(r) /\ req[r].seen = f

\* A flash that waits to be shown: in the stored session or with a request;
\* if it is not yet on a page, only one request runs; one page has it; a copy
\* has what the stored session has; and until the answer is ready the
\* stored session has what the copy has.
Live(f) ==
    /\ Kept(f) \/ \E r \in Slots : Held(r, f) \/ Seen(r, f)
    /\ Kept(f) \/ (\E r \in Slots : Held(r, f)) => Single
    /\ \A r, s \in Slots : Seen(r, f) /\ Seen(s, f) => r = s
    /\ Kept(f) => \A r \in Slots : req[r].inside => Held(r, f) \/ Seen(r, f)
    /\ \A r \in Slots :
          /\ Held(r, f) /\ req[r].at /= "write" => Kept(f)
          /\ (Held(r, f) \/ Seen(r, f)) /\ req[r].id /= 0 /\ rows[req[r].id].flash = f => req[r].id = cookie

\* One that was shown, or is yet to be set.
Gone(f) == ~Kept(f) /\ \A r \in Slots : ~Held(r, f) /\ ~Seen(r, f)

Flashes ==
    \A f \in 1..MaxFlashes :
        /\ fate[f] = "live" => Live(f)
        /\ fate[f] \in {"unset", "shown"} => Gone(f)
        /\ fate[f] /= "again"

\* What is said of the last answer, and what is carried from step to step.
LastOK == FailuresHeardOnce /\ BouncedReturns
State == Types /\ (\A r \in Slots : Sound(req[r])) /\ Bounded /\ Bounces /\ Flashes
Inv == State /\ LastOK

-----------------------------------------------------------------------------
(* What the records of the model are.                                      *)

\* An unused row and the values of a new session.
LEMMA NewRowType ==
  /\ NoRow \in Session /\ ~NoRow.used /\ NoRow.flash = 0
  /\ NewRow \in Session /\ NewRow.used /\ NewRow.flash = 0 /\ NewRow.after = Nowhere
<1>1. NoRow \in Session /\ ~NoRow.used /\ NoRow.flash = 0 /\ NoRow.after = Nowhere
  BY DEF NoRow, Session
<1> QED
  BY <1>1 DEF NewRow, Session

\* A slot without a request meets all that is said of requests.
LEMMA IdleSound ==
  /\ Idle \in Request /\ Sound(Idle)
  /\ Idle.at = "idle" /\ ~Idle.inside /\ Idle.data = NewRow /\ Idle.seen = 0 /\ Idle.sent = Nowhere /\ Idle.id = 0
  /\ Idle.status = 0 /\ Idle.reports = 0 /\ ~Idle.byOther /\ Idle.due = Nowhere /\ Idle.session = "unmodified"
  /\ ~Idle.barred /\ Idle.err = 0
<1>1. /\ Idle.at = "idle" /\ ~Idle.inside /\ Idle.data = NewRow /\ Idle.seen = 0 /\ Idle.sent = Nowhere /\ Idle.id = 0
      /\ Idle.status = 0 /\ Idle.reports = 0 /\ ~Idle.byOther /\ Idle.due = Nowhere /\ Idle.session = "unmodified"
      /\ ~Idle.barred /\ Idle.err = 0
  BY DEF Idle
<1>2. Idle \in Request
  <2>1. NewRow \in Session
    BY NewRowType
  <2> QED
    <3> HIDE DEF NewRow
    <3>1. 0 \in 0..MaxIds
      BY RequestParameters
    <3> QED
      BY <2>1, <3>1 DEF Idle, Request, Places, Locations
<1>3. Sound(Idle)
  <2>1. Accounted(Idle)
    <3>1. Counted(Idle)
      BY <1>1 DEF Counted
    <3> QED
      BY <1>1, <3>1 DEF Accounted
  <2>2. Judged(Idle) /\ Copied(Idle) /\ Answering(Idle)
    BY <1>1, NewRowType DEF Judged, Copied, Answering
  <2> QED
    BY <2>1, <2>2 DEF Sound
<1> QED
  BY <1>1, <1>2, <1>3

\* Behind proxies that say what the browser sees, requestScheme is its scheme.
LEMMA SchemeTold ==
  ASSUME NEW d \in Deployments, d.proto \in {"", d.scheme}, d.uri \in {"", d.scheme},
         d.proto /= "" \/ d.uri /= "" \/ (d.tls <=> d.scheme = "https")
  PROVE  RequestScheme(d) = d.scheme
<1>1. d.scheme \in {"http", "https"} /\ d.tls \in BOOLEAN
  BY DEF Deployments, Schemes
<1>2. CASE d.proto /= ""
  BY <1>2 DEF RequestScheme
<1>3. CASE d.proto = "" /\ d.uri /= ""
  BY <1>3 DEF RequestScheme
<1>4. CASE d.proto = "" /\ d.uri = ""
  <2>1. d.tls <=> d.scheme = "https"
    BY <1>4
  <2> QED
    BY <1>1, <1>4, <2>1 DEF RequestScheme
<1> QED
  BY <1>2, <1>3, <1>4

\* What a post has to tell by.
LEMMA HeaderForms ==
  ASSUME NEW d, NEW o, NEW h \in Headers(d, o), ~h.origin
  PROVE  h.site = "" \/ h.site = IF SameOrigin(d, o) THEN "same-origin" ELSE "cross-site"
<1> DEFINE site == IF SameOrigin(d, o) THEN "same-origin" ELSE "cross-site"
           named == [origin |-> TRUE, site |-> ""]
           bare == [origin |-> FALSE, site |-> ""]
           known == [origin |-> FALSE, site |-> site]
<1>1. h = named \/ h = bare \/ h = known
  BY DEF Headers
<1>2. named.origin /\ bare.site = "" /\ known.site = site
  OBVIOUS
<1> HIDE DEF named, bare, known, site
<1>3. h.site = "" \/ h.site = site
  BY <1>1, <1>2
<1> QED
  BY <1>3 DEF site

\* sameOriginPost lets in exactly what is not barred: by flows, by Origin and
\* without.
LEMMA VerdictsSound ==
  \A v \in Verdicts : v.barred \in BOOLEAN /\ v.flows \in BOOLEAN /\ (v.passes <=> ~v.barred)
<1>1. ASSUME NEW d \in Deployments, NEW o \in Origins, NEW h \in Headers(d, o), NEW flows \in BOOLEAN
      PROVE  SameOriginPost(d, o, h, flows) <=> ~Barred(d, o, h, flows)
  <2>1. CASE flows
    BY <2>1 DEF SameOriginPost, Barred
  <2>2. CASE ~flows /\ o.host = "ours" /\ ~Told(d, h)
    BY <2>2 DEF Barred
  <2>3. CASE ~flows /\ o.host = "ours" /\ Told(d, h) /\ h.origin
    <3>1. d.host = "ours" /\ RequestScheme(d) = d.scheme
      <4>1. /\ d.host = "ours" /\ d.proto \in {"", d.scheme} /\ d.uri \in {"", d.scheme}
            /\ d.proto /= "" \/ d.uri /= "" \/ (d.tls <=> d.scheme = "https")
        BY <2>3 DEF Told
      <4> QED
        BY <4>1, SchemeTold
    <3>2. SameOriginPost(d, o, h, flows) <=> o.scheme = d.scheme
      BY <2>3, <3>1 DEF SameOriginPost
    <3>3. Barred(d, o, h, flows) <=> o.scheme /= d.scheme
      BY <2>3 DEF Barred, SameOrigin
    <3> QED
      BY <3>2, <3>3
  <2>4. CASE ~flows /\ o.host = "ours" /\ Told(d, h) /\ ~h.origin
    <3>1. h.site = IF SameOrigin(d, o) THEN "same-origin" ELSE "cross-site"
      BY <2>4, HeaderForms DEF Told
    <3>2. SameOriginPost(d, o, h, flows) <=> h.site \in {"same-origin", "none"}
      BY <2>4 DEF SameOriginPost
    <3>3. Barred(d, o, h, flows) <=> ~SameOrigin(d, o)
      BY <2>4 DEF Barred
    <3> QED
      BY <3>1, <3>2, <3>3
  <2>5. CASE ~flows /\ o.host /= "ours"
    <3>1. o.host = "theirs" /\ d.host \in {"ours", "inner"} /\ ~SameOrigin(d, o)
      <4>1. o.host = "theirs"
        <5> DEFINE own(s) == [scheme |-> s, host |-> "ours"]
                   other == [scheme |-> "https", host |-> "theirs"]
        <5>1. \A s : own(s).host = "ours"
          OBVIOUS
        <5>2. other.host = "theirs"
          OBVIOUS
        <5> HIDE DEF own, other
        <5>3. o = other \/ \E s \in Schemes : o = own(s)
          BY Zenon DEF Origins, own, other
        <5> QED
          BY <2>5, <5>1, <5>2, <5>3
      <4>2. d.host \in {"ours", "inner"}
        BY DEF Deployments
      <4> QED
        BY <2>5, <4>1, <4>2 DEF SameOrigin
    <3>2. ~h.origin => h.site \in {"", "cross-site"}
      BY <3>1, HeaderForms
    <3>3. Barred(d, o, h, flows)
      BY <2>5, <3>1 DEF Barred
    <3>4. ~SameOriginPost(d, o, h, flows)
      BY <2>5, <3>1, <3>2 DEF SameOriginPost
    <3> QED
      BY <3>3, <3>4
  <2> QED
    BY <2>1, <2>2, <2>3, <2>4, <2>5
<1>2. ASSUME NEW d, NEW o, NEW h, NEW flows \in BOOLEAN PROVE Barred(d, o, h, flows) \in BOOLEAN
  BY <1>2 DEF Barred
<1> QED
  BY <1>1, <1>2 DEF Verdicts

\* Goes forgets the method where it no longer matters: what it makes of a
\* request is the request in all that counts.
Like(p, q) ==
    /\ p.at = q.at /\ p.inside = q.inside /\ p.id = q.id /\ p.data = q.data
    /\ p.session = q.session /\ p.seen = q.seen /\ p.sent = q.sent

\* A step of a request that is not answered yet says nothing of an answer.
LEMMA GoesTo ==
  ASSUME NEW r \in Slots, NEW q \in Request, Sound(q), Goes(r, q)
  PROVE  /\ LastOK'
         /\ \E p \in Request : Sound(p) /\ Like(p, q) /\ req' = [req EXCEPT ![r] = p]
<1>1. LastOK'
  <2>1. last'.status = 0 /\ last'.reports = 0 /\ ~last'.byOther /\ last'.due = Nowhere
    BY IdleSound DEF Goes, Outcome
  <2> QED
    <3>1. FailuresHeardOnce'
      BY <2>1 DEF FailuresHeardOnce
    <3>2. BouncedReturns'
      BY <2>1 DEF BouncedReturns
    <3> QED
      BY <3>1, <3>2 DEF LastOK
<1>2. q \in Request /\ Sound(q) /\ Like(q, q)
  BY DEF Like
<1> DEFINE u == [q EXCEPT !.post = FALSE, !.flows = FALSE]
<1>3. u \in Request /\ Like(u, q)
  BY DEF Request, Like
<1>4. Sound(u)
  <2>1. Accounted(u)
    <3>1. /\ u.at = q.at /\ u.err = q.err /\ u.status = q.status /\ u.reports = q.reports
          /\ u.byOther = q.byOther
      BY DEF Request
    <3> QED
      BY <3>1 DEF Sound, Accounted, Counted
  <2>2. Judged(u)
    BY DEF Request, Sound, Judged
  <2>3. Copied(u)
    BY DEF Request, Sound, Copied
  <2>4. Answering(u)
    BY DEF Request, Sound, Answering
  <2> QED
    BY <2>1, <2>2, <2>3, <2>4 DEF Sound
<1> QED
  BY <1>1, <1>2, <1>3, <1>4 DEF Goes, Becomes

\* What becomes of a request in LoadUser or a handler, but for its session.
Kin(p, q) == p.inside /\ p.id = q.id /\ p.at \in {"handler", "write", "failed", "unwound"}

Stays(p, q) == Kin(p, q) /\ p.data.flash = q.data.flash /\ p.seen = 0 /\ p.sent = Nowhere /\ p.data.after = q.data.after
Sends(p, q) == Kin(p, q) /\ p.data.flash = q.data.flash /\ p.seen = 0 /\ p.sent /= Nowhere /\ p.at = "write"
Shows(p, q) == /\ Kin(p, q) /\ p.data.flash = 0 /\ p.seen = q.data.flash /\ p.sent = Nowhere
               /\ p.data.after = q.data.after /\ p.at = "write"
Loses(p, q) == Kin(p, q) /\ p.data.flash = 0 /\ p.seen = 0 /\ p.sent = Nowhere /\ p.data.after = q.data.after

\* Before a handler is done nothing is answered, failed or reported.
LEMMA AtHandler ==
  ASSUME NEW q \in Request, Sound(q), q.at \in {"in", "handler"}
  PROVE  /\ q.status = 0 /\ q.err = 0 /\ q.reports = 0 /\ ~q.byOther /\ q.inside /\ ~q.barred /\ q.data.used
         /\ q.seen = 0 /\ q.sent = Nowhere /\ q.due = Nowhere
         /\ (q.session = "destroyed" => q.id = 0) /\ (q.data.flash /= 0 => q.session = "modified")
<1>1. q.status = 0 /\ q.err = 0 /\ ~q.byOther
  BY DEF Sound, Accounted
<1>2. q.reports = 0
  BY <1>1 DEF Sound, Accounted, Counted
<1> QED
  BY <1>1, <1>2 DEF Sound, Judged, Copied, Answering

-----------------------------------------------------------------------------
(* What LoadUser and the handlers make of a request.                       *)

\* An error on its way out; an answer, in text, as a page and as a redirect;
\* and the verdict on a post.
Erring(q, at, status) == [q EXCEPT !.at = at, !.err = status]
Written(q, status) == [q EXCEPT !.at = "write", !.status = status]

Shown(q, flash) == [Written(q, 200) EXCEPT !.seen = flash]
Posted(q, barred, flows) == [q EXCEPT !.barred = barred, !.flows = flows]
Sent(q, loc) == [Written(q, 303) EXCEPT !.loc = loc]

\* These are requests again.
LEMMA EndTypes ==
  ASSUME NEW q \in Request, NEW n \in Nat
  PROVE  /\ \A at \in Places : Erring(q, at, n) \in Request
         /\ Written(q, n) \in Request
<1>1. "write" \in Places
  BY DEF Places
<1>2. ASSUME NEW at \in Places PROVE Erring(q, at, n) \in Request
  BY DEF Request, Erring
<1>3. Written(q, n) \in Request
  BY <1>1 DEF Request, Written
<1> QED
  BY <1>2, <1>3

LEMMA ShownType == ASSUME NEW q \in Request, NEW flash \in Nat PROVE Shown(q, flash) \in Request
<1> DEFINE w == Written(q, 200)
<1>1. w \in Request
  BY EndTypes
<1>2. Shown(q, flash) = [w EXCEPT !.seen = flash]
  BY DEF Shown
<1> HIDE DEF w
<1>3. [w EXCEPT !.seen = flash] \in Request
  BY <1>1 DEF Request
<1> QED
  BY <1>2, <1>3

LEMMA SentType == ASSUME NEW q \in Request, NEW loc \in Locations PROVE Sent(q, loc) \in Request
<1> DEFINE w == Written(q, 303)
<1>1. w \in Request
  BY EndTypes
<1>2. Sent(q, loc) = [w EXCEPT !.loc = loc]
  BY DEF Sent
<1> HIDE DEF w
<1>3. [w EXCEPT !.loc = loc] \in Request
  BY <1>1 DEF Request
<1> QED
  BY <1>2, <1>3

\* An error changes nothing else.
LEMMA ErringFields ==
  ASSUME NEW q \in Request, NEW at, NEW n, NEW a, a = Erring(q, at, n)
  PROVE  /\ a.at = at /\ a.err = n /\ a.status = q.status /\ a.reports = q.reports /\ a.byOther = q.byOther
         /\ a.inside = q.inside /\ a.barred = q.barred /\ a.id = q.id /\ a.data = q.data /\ a.session = q.session
         /\ a.seen = q.seen /\ a.sent = q.sent /\ a.due = q.due
BY DEF Request, Erring

\* The forms in which the model writes them.
LEMMA Ends ==
  ASSUME NEW q, NEW status
  PROVE  Failing(q, status) = Erring(q, "failed", status) /\ Away(q) = {Written(q, 303)}
BY DEF Failing, Away, Erring, Written

\* An error, with the session as it was.
LEMMA FailingSound ==
  ASSUME NEW q \in Request, Sound(q), q.at \in {"in", "handler"}, NEW s \in {400, 500},
         NEW at \in {"failed", "unwound"}, NEW a, a = Erring(q, at, s)
  PROVE  a \in Request /\ Sound(a) /\ Stays(a, q) /\ a.at = at
<1>1. /\ a.at = at /\ a.err = s /\ a.status = q.status /\ a.reports = q.reports /\ a.byOther = q.byOther
      /\ a.inside = q.inside /\ a.barred = q.barred /\ a.id = q.id /\ a.data = q.data /\ a.session = q.session
      /\ a.seen = q.seen /\ a.sent = q.sent /\ a.due = q.due
  BY ErringFields
<1>2. a \in Request
  <2>1. at \in Places /\ s \in Nat
    BY DEF Places
  <2> QED
    BY <2>1, EndTypes
<1>3. Accounted(a)
  BY <1>1, AtHandler DEF Accounted, Counted
<1>4. Judged(a) /\ Copied(a) /\ Answering(a)
  BY <1>1, AtHandler DEF Judged, Copied, Answering
<1> QED
  BY <1>1, <1>2, <1>3, <1>4, AtHandler DEF Sound, Stays, Kin

\* A page takes the flash of the copy, whether it renders or not.
LEMMA PageSound ==
  ASSUME NEW q \in Request, Sound(q), q.at = "handler", NEW a \in Page(q, q.data.flash)
  PROVE  /\ a \in Request /\ Sound(a)
         /\ Shows(a, q) \/ (a.at = "failed" /\ Loses(a, q))
<1> DEFINE session == IF q.data.flash /= 0 THEN "modified" ELSE q.session
<1> DEFINE taken == [q EXCEPT !.data.flash = 0, !.session = session]
<1>1. /\ taken \in Request /\ taken.data.flash = 0 /\ taken.data.after = q.data.after /\ taken.data.used = q.data.used
      /\ taken.session = session /\ taken.at = "handler" /\ taken.id = q.id /\ taken.inside = q.inside
      /\ taken.barred = q.barred /\ taken.err = q.err /\ taken.status = q.status /\ taken.reports = q.reports
      /\ taken.byOther = q.byOther /\ taken.seen = q.seen /\ taken.sent = q.sent /\ taken.due = q.due
  BY DEF Request, Session
<1>2. Sound(taken)
  <2>1. Accounted(taken) /\ Judged(taken)
    BY <1>1, AtHandler DEF Accounted, Counted, Judged
  <2>2. Copied(taken) /\ Answering(taken)
    BY <1>1, AtHandler DEF Copied, Answering
  <2> QED
    BY <2>1, <2>2 DEF Sound
<1>3. a = Shown(taken, q.data.flash) \/ a = Failing(taken, 500)
  BY DEF Page, Shown, Written
<1> HIDE DEF taken
<1>4. CASE a = Shown(taken, q.data.flash)
  <2>1. /\ a.at = "write" /\ a.status = 200 /\ a.seen = q.data.flash
        /\ a.err = taken.err /\ a.reports = taken.reports /\ a.byOther = taken.byOther
        /\ a.inside = taken.inside /\ a.barred = taken.barred /\ a.id = taken.id /\ a.data = taken.data
        /\ a.session = taken.session /\ a.sent = taken.sent /\ a.due = taken.due
    BY <1>1, <1>4 DEF Request, Shown, Written
  <2>2. a \in Request
    <3>1. q.data.flash \in Nat
      BY DEF Request, Session
    <3> QED
      BY <1>1, <1>4, <3>1, ShownType
  <2>3. Accounted(a)
    BY <1>1, <2>1, AtHandler DEF Accounted, Counted
  <2>4. Judged(a) /\ Copied(a) /\ Answering(a)
    BY <1>1, <2>1, AtHandler DEF Judged, Copied, Answering
  <2> QED
    BY <1>1, <2>1, <2>2, <2>3, <2>4, AtHandler DEF Sound, Shows, Kin
<1>5. CASE a = Failing(taken, 500)
  <2>1. a \in Request /\ Sound(a) /\ Stays(a, taken) /\ a.at = "failed"
    BY <1>1, <1>2, <1>5, FailingSound, Ends
  <2> QED
    BY <1>1, <2>1 DEF Stays, Loses, Kin
<1> QED
  BY <1>3, <1>4, <1>5

\* A redirect, or plain text.
LEMMA WrittenSound ==
  ASSUME NEW q \in Request, Sound(q), q.at = "handler", NEW status \in {200, 303},
         NEW a, a = Written(q, status)
  PROVE  a \in Request /\ Sound(a) /\ Stays(a, q) /\ a.at = "write"
<1>1. /\ a.at = "write" /\ a.status = status
      /\ a.err = q.err /\ a.reports = q.reports /\ a.byOther = q.byOther
      /\ a.inside = q.inside /\ a.barred = q.barred /\ a.id = q.id /\ a.data = q.data
      /\ a.session = q.session /\ a.seen = q.seen /\ a.sent = q.sent /\ a.due = q.due
  BY DEF Request, Written
<1>2. a \in Request
  BY EndTypes
<1>3. Accounted(a)
  BY <1>1, AtHandler DEF Accounted, Counted
<1>4. Judged(a) /\ Copied(a) /\ Answering(a)
  BY <1>1, AtHandler DEF Judged, Copied, Answering
<1> QED
  BY <1>1, <1>2, <1>3, <1>4, AtHandler DEF Sound, Stays, Kin

\* The Inngest SDK's own 500 is none of errorHandler's.
LEMMA OwnFailureSound ==
  ASSUME NEW q \in Request, Sound(q), q.at = "handler",
         NEW a, a = OwnFailure(q)
  PROVE  a \in Request /\ Sound(a) /\ Stays(a, q)
<1>1. /\ a.at = "write" /\ a.status = 500 /\ a.byOther /\ a.err = q.err /\ a.reports = q.reports
      /\ a.inside = q.inside /\ a.barred = q.barred /\ a.id = q.id /\ a.data = q.data
      /\ a.session = q.session /\ a.seen = q.seen /\ a.sent = q.sent /\ a.due = q.due
  BY DEF Request, OwnFailure
<1>2. a \in Request
  <2> DEFINE w == Written(q, 500)
  <2>1. w \in Request
    BY EndTypes
  <2>2. a = [w EXCEPT !.byOther = TRUE]
    BY DEF Written, OwnFailure
  <2> HIDE DEF w
  <2> QED
    BY <2>1, <2>2 DEF Request
<1>3. Accounted(a)
  BY <1>1, AtHandler DEF Accounted, Counted
<1>4. Judged(a) /\ Copied(a) /\ Answering(a)
  BY <1>1, AtHandler DEF Judged, Copied, Answering
<1> QED
  BY <1>1, <1>2, <1>3, <1>4, AtHandler DEF Sound, Stays, Kin

\* The redirect of RequireUser notes the page that was asked for.
LEMMA SentSound ==
  ASSUME NEW q \in Request, Sound(q), q.at = "handler", NEW uri \in Uris,
         NEW a \in Away([q EXCEPT !.data.after = uri, !.sent = uri, !.session = "modified"])
  PROVE  a \in Request /\ Sound(a) /\ Sends(a, q)
<1> DEFINE noted == [q EXCEPT !.data.after = uri, !.sent = uri, !.session = "modified"]
<1>0. /\ noted \in Request /\ noted.data.after = uri /\ noted.sent = uri /\ noted.session = "modified"
      /\ noted.err = q.err /\ noted.reports = q.reports /\ noted.byOther = q.byOther
      /\ noted.inside = q.inside /\ noted.barred = q.barred /\ noted.id = q.id
      /\ noted.data.used = q.data.used /\ noted.data.flash = q.data.flash
      /\ noted.seen = q.seen /\ noted.due = q.due
  BY DEF Request, Session
<1>2. a = [noted EXCEPT !.at = "write", !.status = 303]
  BY DEF Away
<1> HIDE DEF noted
<1>1. /\ a.at = "write" /\ a.status = 303 /\ a.data.after = uri /\ a.sent = uri /\ a.session = "modified"
      /\ a.err = q.err /\ a.reports = q.reports /\ a.byOther = q.byOther
      /\ a.inside = q.inside /\ a.barred = q.barred /\ a.id = q.id /\ a.data.used = q.data.used /\ a.data.flash = q.data.flash
      /\ a.seen = q.seen /\ a.due = q.due
  BY <1>0, <1>2 DEF Request
<1>3. a \in Request
  <2>1. a = Written(noted, 303)
    BY <1>2 DEF Written
  <2> QED
    BY <1>0, <2>1, EndTypes
<1>4. Accounted(a)
  BY <1>1, AtHandler DEF Accounted, Counted
<1>5. uri /= Nowhere
  BY RequestParameters
<1>6. Judged(a) /\ Copied(a) /\ Answering(a)
  BY <1>1, <1>5, AtHandler DEF Judged, Copied, Answering
<1> QED
  BY <1>1, <1>3, <1>4, <1>5, <1>6, AtHandler DEF Sound, Sends, Kin

-----------------------------------------------------------------------------
(* The way in and the handlers.                                            *)

\* Mark changes the fates it is given and no others.
LEMMA Marks ==
  ASSUME Types, NEW which, NEW what \in Fates, Mark(which, what)
  PROVE  /\ fate' \in [1..MaxFlashes -> Fates]
         /\ \A f \in 1..MaxFlashes :
               fate'[f] = IF f \in which /\ fate[f] /= "void" THEN what ELSE fate[f]
BY DEF Types, Mark

\* A request moves on in LoadUser or a handler, and the session's row, the
\* page to return to and the other requests stay as they are.
LEMMA Moves ==
  ASSUME State, NEW r \in Slots, req[r].at \in {"in", "handler"},
         NEW p \in Request, Sound(p), req' = [req EXCEPT ![r] = p],
         UNCHANGED <<rows, cookie, flashes, wanted>>,
         fate' \in [1..MaxFlashes -> Fates],
         \A f \in 1..MaxFlashes : fate'[f] \in {fate[f], "void"},
         \/ Stays(p, req[r]) \/ Sends(p, req[r]) \/ Shows(p, req[r])
         \/ Loses(p, req[r]) /\ \A f \in 1..MaxFlashes : f = req[r].data.flash => fate'[f] = "void"
  PROVE  State'
<1> DEFINE q == req[r]
<1>0. q \in Request /\ Sound(q) /\ Kin(p, q)
  BY DEF State, Types, Stays, Sends, Shows, Loses
<1>1. /\ q.seen = 0 /\ q.sent = Nowhere /\ q.inside
      /\ Active(r)
  BY <1>0, AtHandler DEF Active
<1>2. \A s \in Slots : /\ req'[s] = IF s = r THEN p ELSE req[s]
                       /\ Active(s)' <=> Active(s)
  BY <1>0, <1>1 DEF State, Types, Active, Kin
<1>3. Types'
  BY DEF State, Types
<1>4. \A s \in Slots : Sound(req'[s])
  BY <1>2 DEF State
<1>5. Bounded'
  BY <1>2, <1>1 DEF State, Types, Bounded, Stays, Sends, Shows, Loses, Request, Session
<1>6. Bounces'
  <2>1. Single => Single'
    BY <1>2 DEF Single
  <2>2. p.id = q.id /\ p.inside /\ (p.sent = Nowhere => p.data.after = q.data.after)
    BY DEF Stays, Sends, Shows, Loses, Kin
  <2> QED
    BY <1>1, <1>2, <2>1, <2>2 DEF State, Bounces, ReturnTo, Known
<1>7. Flashes'
  <2> SUFFICES ASSUME NEW f \in 1..MaxFlashes, fate'[f] = fate[f], fate[f] /= "void"
               PROVE  /\ fate[f] = "live" => Live(f)'
                      /\ fate[f] \in {"unset", "shown"} => Gone(f)'
                      /\ fate[f] /= "again"
    BY DEF Flashes
  <2>1. /\ \A s \in Slots \ {r} : (Held(s, f)' <=> Held(s, f)) /\ (Seen(s, f)' <=> Seen(s, f))
        /\ Kept(f)' <=> Kept(f)
        /\ Single' <=> Single
    BY <1>2 DEF Held, Seen, Kept, Single
  <2>2. \/ (Held(r, f)' <=> Held(r, f)) /\ ~Seen(r, f)' /\ ~Seen(r, f)
        \/ ~Held(r, f)' /\ (Seen(r, f)' <=> Held(r, f)) /\ ~Seen(r, f) /\ p.at = "write"
    BY <1>1, <1>2 DEF Stays, Sends, Shows, Loses, Held, Seen, Kin
  <2>3. /\ fate[f] = "live" => Live(f)
        /\ fate[f] \in {"unset", "shown"} => Gone(f)
        /\ fate[f] /= "again"
    BY DEF State, Flashes
  <2>4. ASSUME fate[f] \in {"unset", "shown"} PROVE Gone(f)'
    BY <2>1, <2>2, <2>3, <2>4 DEF Gone
  <2>5. ASSUME fate[f] = "live" PROVE Live(f)'
    <3> USE <2>1, <2>2, <2>3, <2>5
    <3>1. Kept(f)' \/ \E s \in Slots : Held(s, f)' \/ Seen(s, f)'
      BY DEF Live
    <3>2. Kept(f)' \/ (\E s \in Slots : Held(s, f)') => Single'
      BY DEF Live
    <3>3. \A s, t \in Slots : Seen(s, f)' /\ Seen(t, f)' => s = t
      BY <1>1 DEF Live, Seen, Held, Single
    <3>4. Kept(f)' => \A s \in Slots : req'[s].inside => Held(s, f)' \/ Seen(s, f)'
      BY <1>1, <1>2 DEF Live
    <3>5. \A s \in Slots :
             /\ Held(s, f)' /\ req'[s].at /= "write" => Kept(f)'
             /\ (Held(s, f)' \/ Seen(s, f)') /\ req'[s].id /= 0 /\ rows'[req'[s].id].flash = f => req'[s].id = cookie'
      BY <1>0, <1>1, <1>2 DEF Live, Kin
    <3> QED
      BY <3>1, <3>2, <3>3, <3>4, <3>5 DEF Live
  <2> QED
    BY <2>3, <2>4, <2>5
<1> QED
  BY <1>3, <1>4, <1>5, <1>6, <1>7 DEF State

\* The row that RenewToken or Destroy deletes is empty, and no other changes.
LEMMA Drops ==
  ASSUME Types, NEW i \in 0..MaxIds, DropRow(i)
  PROVE  rows' \in [Ids -> Session] /\ \A j \in Ids : rows'[j] = IF j = i THEN NoRow ELSE rows[j]
<1> USE RequestParameters DEF Types, DropRow, Ids
<1>1. CASE i = 0
  BY <1>1
<1>2. CASE i /= 0
  BY <1>2, NewRowType
<1> QED
  BY <1>1, <1>2

\* A request gives up the stored session, for a new one or for none.
LEMMA Parts ==
  ASSUME State, NEW r \in Slots, req[r].at \in {"in", "handler"},
         NEW p \in Request, Sound(p), req' = [req EXCEPT ![r] = p],
         DropRow(req[r].id), Forget, UNCHANGED <<cookie, flashes>>,
         fate' \in [1..MaxFlashes -> Fates],
         \A f \in 1..MaxFlashes : fate'[f] \in {fate[f], "void"},
         p.inside, p.at \in {"handler", "write"}, p.seen = 0, p.sent = Nowhere, p.data.after = Nowhere,
         \/ /\ p.id = 0 /\ p.data.flash = 0
            /\ \A f \in 1..MaxFlashes : f = req[r].data.flash => fate'[f] = "void"
         \/ /\ p.id \in Ids /\ ~rows[p.id].used /\ p.at = "write"
            /\ p.data.flash = req[r].data.flash
  PROVE  State'
<1> DEFINE q == req[r]
<1>0. q \in Request /\ Sound(q) /\ q.id \in 0..MaxIds
  BY DEF State, Types, Request
<1>1. /\ q.seen = 0 /\ q.sent = Nowhere /\ q.inside
      /\ Active(r)
  BY <1>0, AtHandler DEF Active
<1>2. \A s \in Slots : /\ req'[s] = IF s = r THEN p ELSE req[s]
                       /\ Active(s)' <=> Active(s)
  BY <1>0, <1>1 DEF State, Types, Active
<1>3. rows' \in [Ids -> Session] /\ \A j \in Ids : rows'[j] = IF j = q.id THEN NoRow ELSE rows[j]
  BY <1>0, Drops DEF State
<1>4. Types'
  BY <1>3 DEF State, Types, Forget
<1>5. \A s \in Slots : Sound(req'[s])
  BY <1>2 DEF State
<1>6. Bounded'
  <2>1. \A i \in Ids : rows'[i].flash <= flashes' /\ (rows'[i].flash /= 0 => rows'[i].used)
    BY <1>3, NewRowType, RequestParameters DEF State, Types, Bounded
  <2>2. p.data.flash <= flashes /\ p.seen <= flashes
    BY RequestParameters DEF State, Types, Bounded
  <2> QED
    BY <1>2, <2>1, <2>2 DEF State, Bounded
<1>7. Bounces'
  <2> SUFFICES ASSUME wanted' /= AnyPage PROVE Bounces'
    BY DEF Bounces
  <2>1. wanted /= AnyPage /\ wanted' = Nowhere
    BY DEF Forget
  <2>2. Single /\ (~Known \/ q.id = cookie)
    BY <1>1, <2>1 DEF State, Bounces
  <2>3. Single' /\ \A s \in Slots : req'[s].inside => s = r
    BY <1>1, <1>2, <2>2 DEF State, Single, Sound, Copied, Active
  <2>4. ~Known'
    BY <1>3, <2>2, NewRowType DEF State, Types, Known, Ids
  <2> QED
    BY <1>2, <2>1, <2>3, <2>4 DEF Bounces, ReturnTo
<1>8. Flashes'
  <2> SUFFICES ASSUME NEW f \in 1..MaxFlashes, fate'[f] = fate[f], fate[f] /= "void"
               PROVE  /\ fate[f] = "live" => Live(f)'
                      /\ fate[f] \in {"unset", "shown"} => Gone(f)'
                      /\ fate[f] /= "again"
    BY DEF Flashes
  <2>1. /\ \A s \in Slots \ {r} : (Held(s, f)' <=> Held(s, f)) /\ (Seen(s, f)' <=> Seen(s, f))
        /\ Kept(f)' => Kept(f)
        /\ Single' <=> Single
    BY <1>2, <1>3, NewRowType DEF State, Types, Ids, Held, Seen, Kept, Single
  <2>2. ~Seen(r, f)' /\ ~Seen(r, f)
    BY <1>1, <1>2 DEF Seen
  <2>3. \/ ~Held(r, f)' /\ ~Held(r, f)
        \/ /\ Held(r, f)' <=> Held(r, f)
           /\ p.id \in Ids /\ ~rows[p.id].used /\ p.at = "write"
    BY <1>1, <1>2 DEF Held
  <2>4. /\ fate[f] = "live" => Live(f)
        /\ fate[f] \in {"unset", "shown"} => Gone(f)
        /\ fate[f] /= "again"
    BY DEF State, Flashes
  <2>5. ASSUME fate[f] \in {"unset", "shown"} PROVE Gone(f)'
    BY <2>1, <2>2, <2>3, <2>4, <2>5 DEF Gone
  <2>6. ASSUME fate[f] = "live" PROVE Live(f)'
    <3>1. Live(f)
      BY <2>4, <2>6
    <3>2. Kept(f) => Held(r, f)
      BY <1>1, <2>2, <3>1 DEF Live
    <3>3. Kept(f)' \/ \E s \in Slots : Held(s, f)' \/ Seen(s, f)'
      BY <2>1, <2>2, <2>3, <3>1, <3>2 DEF Live
    <3>4. Kept(f)' \/ (\E s \in Slots : Held(s, f)') => Single'
      BY <2>1, <2>2, <2>3, <3>1 DEF Live
    <3>5. \A s, t \in Slots : Seen(s, f)' /\ Seen(t, f)' => s = t
      BY <2>1, <2>2, <3>1 DEF Live
    <3>6. Kept(f)' => \A s \in Slots : req'[s].inside => Held(s, f)' \/ Seen(s, f)'
      BY <1>2, <2>1, <2>3, <3>1, <3>2 DEF Live
    <3>7. ASSUME NEW s \in Slots, Held(s, f)', req'[s].at /= "write" PROVE Kept(f)'
      BY <1>1, <1>2, <2>1, <2>3, <3>1, <3>2, <3>7 DEF Live, Single, Held
    <3>8. ASSUME NEW s \in Slots, Held(s, f)' \/ Seen(s, f)', req'[s].id /= 0, rows'[req'[s].id].flash = f
          PROVE  req'[s].id = cookie'
      <4>1. req'[s].id \in Ids
        BY <1>2, <3>8 DEF State, Types, Request, Ids
      <4>2. rows[req'[s].id].flash = f
        BY <1>3, <3>8, <4>1, NewRowType
      <4>3. s /= r
        BY <1>2, <2>2, <2>3, <3>8, <4>1, <4>2 DEF State, Bounded
      <4> QED
        BY <1>2, <2>1, <3>1, <3>8, <4>2, <4>3 DEF Live
    <3> QED
      BY <3>3, <3>4, <3>5, <3>6, <3>7, <3>8 DEF Live
  <2> QED
    BY <2>4, <2>5, <2>6
<1> QED
  BY <1>4, <1>5, <1>6, <1>7, <1>8 DEF State

\* A request sets a flash, or shows it at once, or fails to.
LEMMA FlashSet ==
  ASSUME State, NEW r \in Slots, req[r].at = "handler",
         NEW p \in Request, Sound(p), req' = [req EXCEPT ![r] = p],
         Kin(p, req[r]), p.sent = Nowhere, p.data.after = req[r].data.after,
         UNCHANGED <<rows, cookie, wanted>>, flashes < MaxFlashes, flashes' = NextFlash,
         \/ p.at = "write" /\ p.data.flash = NextFlash /\ p.seen = 0
         \/ p.at = "write" /\ p.data.flash = 0 /\ p.seen = NextFlash
         \/ p.at = "failed" /\ p.data.flash = 0 /\ p.seen = 0,
         fate' = [f \in DOMAIN fate |->
                IF f = flashes' THEN IF Others(r) /= {} \/ p.at = "failed" THEN "void" ELSE "live"
                ELSE IF f = req[r].data.flash THEN "void" ELSE fate[f]]
  PROVE  State'
<1> DEFINE q == req[r]
<1>0. q \in Request /\ Sound(q) /\ flashes \in Nat /\ NextFlash = flashes + 1
  BY RequestParameters DEF State, Types, NextFlash
<1>1. /\ q.seen = 0 /\ q.sent = Nowhere /\ q.inside
      /\ Active(r)
  BY <1>0, AtHandler DEF Active
<1>2. \A s \in Slots : /\ req'[s] = IF s = r THEN p ELSE req[s]
                       /\ Active(s)' <=> Active(s)
  BY <1>0, <1>1 DEF State, Types, Active
<1>3. Types'
  <2>1. fate' \in [1..MaxFlashes -> Fates]
    BY DEF State, Types, Fates
  <2>2. flashes' \in 0..MaxFlashes
    BY <1>0 , RequestParameters DEF State, Types
  <2> QED
    BY <2>1, <2>2 DEF State, Types
<1>4. \A s \in Slots : Sound(req'[s])
  BY <1>2 DEF State
<1>5. Bounded'
  <2>1. \A i \in Ids : rows'[i].flash \in Nat /\ rows'[i].flash <= flashes'
    BY <1>0 DEF State, Types, Bounded, Session
  <2>2. \A s \in Slots : req'[s].data.flash <= flashes' /\ req'[s].seen <= flashes'
    <3>1. p.data.flash <= flashes' /\ p.seen <= flashes'
      BY <1>0
    <3>2. \A s \in Slots : /\ req[s].data.flash \in Nat /\ req[s].data.flash <= flashes
                          /\ req[s].seen \in Nat /\ req[s].seen <= flashes
      BY DEF State, Types, Bounded, Request, Session
    <3> QED
      BY <1>0, <1>2, <3>1, <3>2
  <2> QED
    BY <2>1, <2>2 DEF State, Bounded
<1>6. Bounces'
  <2>1. Single => Single'
    BY <1>2 DEF Single
  <2> QED
    BY <1>1, <1>2, <2>1 DEF State, Bounces, ReturnTo, Known, Kin
<1>7. Flashes'
  <2> SUFFICES ASSUME NEW f \in 1..MaxFlashes, fate'[f] /= "void"
               PROVE  /\ fate'[f] = "live" => Live(f)'
                      /\ fate'[f] \in {"unset", "shown"} => Gone(f)'
                      /\ fate'[f] /= "again"
    BY DEF Flashes
  <2>1. /\ \A s \in Slots \ {r} : (Held(s, f)' <=> Held(s, f)) /\ (Seen(s, f)' <=> Seen(s, f))
        /\ Kept(f)' <=> Kept(f)
        /\ Single' <=> Single
    BY <1>2 DEF Held, Seen, Kept, Single
  <2>2. CASE f = NextFlash
    <3>1. fate'[f] = "live" /\ Others(r) = {} /\ p.at = "write"
      BY <2>2 DEF State, Types
    <3>2. ~Kept(f)' /\ \A s \in Slots \ {r} : ~Held(s, f)' /\ ~Seen(s, f)'
      <4>1. \A i \in Ids : rows[i].flash /= f
        BY <1>0, <2>2 DEF State, Types, Bounded, Session
      <4>2. \A s \in Slots : req[s].data.flash /= f /\ req[s].seen /= f
        <5>1. \A s \in Slots : /\ req[s].data.flash \in Nat /\ req[s].data.flash <= flashes
                              /\ req[s].seen \in Nat /\ req[s].seen <= flashes
          BY DEF State, Types, Bounded, Request, Session
        <5> QED
          BY <1>0, <2>2, <5>1
      <4>3. cookie /= 0 => cookie \in Ids
        BY RequestParameters DEF State, Types, Ids
      <4> QED
        BY <2>1, <4>1, <4>2, <4>3 DEF Kept, Held, Seen
    <3>3. Held(r, f)' \/ Seen(r, f)'
      BY <1>1, <1>2, <2>2, <3>1 DEF Held, Seen
    <3>4. Single'
      BY <1>2, <3>1 DEF Single, Others
    <3>5. \A i \in Ids : rows'[i].flash /= f
      BY <1>0, <2>2 DEF State, Types, Bounded, Session
    <3>6. \A s \in Slots : req'[s].id \in 0..MaxIds
      BY <1>3 DEF Types, Request
    <3>7. Live(f)'
      BY <1>2, <3>1, <3>2, <3>3, <3>4, <3>5, <3>6 DEF Live, Ids
    <3> QED
      BY <3>1, <3>7
  <2>3. CASE f /= NextFlash
    <3>1. fate'[f] = fate[f] /\ f /= q.data.flash
      BY <2>3 DEF State, Types
    <3>2. ~Held(r, f) /\ ~Seen(r, f) /\ ~Held(r, f)' /\ ~Seen(r, f)'
      BY <1>1, <1>2, <2>3, <3>1 DEF Held, Seen
    <3>3. /\ fate[f] = "live" => Live(f)
          /\ fate[f] \in {"unset", "shown"} => Gone(f)
          /\ fate[f] /= "again"
      BY DEF State, Flashes
    <3>4. ASSUME fate[f] \in {"unset", "shown"} PROVE Gone(f)'
      BY <2>1, <3>2, <3>3, <3>4 DEF Gone
    <3>5. ASSUME fate[f] = "live" PROVE Live(f)'
      BY <1>1, <1>2, <2>1, <3>2, <3>3, <3>5 DEF Live
    <3> QED
      BY <3>1, <3>3, <3>4, <3>5
  <2> QED
    BY <2>2, <2>3
<1> QED
  BY <1>3, <1>4, <1>5, <1>6, <1>7 DEF State

\* LoadUser hands the request on, with its user or without.
LEMMA HandedOn ==
  ASSUME NEW q \in Request, Sound(q), q.at = "in", NEW user \in BOOLEAN, NEW a,
         a = [q EXCEPT !.at = "handler"] \/ a = [[q EXCEPT !.at = "handler"] EXCEPT !.data.user = user]
  PROVE  a \in Request /\ Sound(a) /\ Stays(a, q) /\ a.at = "handler"
<1> DEFINE on == [q EXCEPT !.at = "handler"]
<1>1. /\ on \in Request /\ on.at = "handler" /\ on.status = q.status
      /\ on.err = q.err /\ on.reports = q.reports /\ on.byOther = q.byOther
      /\ on.inside = q.inside /\ on.barred = q.barred /\ on.id = q.id /\ on.data = q.data
      /\ on.session = q.session /\ on.seen = q.seen /\ on.sent = q.sent /\ on.due = q.due
  <2>1. "handler" \in Places
    BY DEF Places
  <2> QED
    BY <2>1 DEF Request
<1>2. a = on \/ a = [on EXCEPT !.data.user = user]
  OBVIOUS
<1> HIDE DEF on
<1>3. /\ a \in Request /\ a.at = "handler" /\ a.status = q.status
      /\ a.err = q.err /\ a.reports = q.reports /\ a.byOther = q.byOther
      /\ a.inside = q.inside /\ a.barred = q.barred /\ a.id = q.id
      /\ a.data.used = q.data.used /\ a.data.flash = q.data.flash /\ a.data.after = q.data.after
      /\ a.session = q.session /\ a.seen = q.seen /\ a.sent = q.sent /\ a.due = q.due
  <2>1. CASE a = on
    BY <1>1, <2>1
  <2>2. CASE a = [on EXCEPT !.data.user = user]
    <3>1. /\ a.at = on.at /\ a.status = on.status
          /\ a.err = on.err /\ a.reports = on.reports /\ a.byOther = on.byOther
          /\ a.inside = on.inside /\ a.barred = on.barred /\ a.id = on.id
          /\ a.data.used = on.data.used /\ a.data.flash = on.data.flash /\ a.data.after = on.data.after
          /\ a.session = on.session /\ a.seen = on.seen /\ a.sent = on.sent /\ a.due = on.due
      BY <1>1, <2>2 DEF Request, Session
    <3>2. a \in Request
      BY <1>1, <2>2 DEF Request, Session
    <3> QED
      BY <1>1, <3>1, <3>2
  <2> QED
    BY <1>2, <2>1, <2>2
<1>4. Accounted(a)
  BY <1>3, AtHandler DEF Accounted, Counted
<1>5. Judged(a) /\ Copied(a) /\ Answering(a)
  BY <1>3, AtHandler DEF Judged, Copied, Answering
<1> QED
  BY <1>3, <1>4, <1>5, AtHandler DEF Sound, Stays, Kin

\* The copy of a session that is destroyed is as good as new.
LEMMA DestroyedSound ==
  ASSUME NEW q \in Request, Sound(q), q.at = "handler"
  PROVE  /\ Destroyed(q) \in Request /\ Sound(Destroyed(q)) /\ Destroyed(q).at = "handler"
         /\ Destroyed(q).id = 0 /\ Destroyed(q).data = NewRow
<1> DEFINE a == Destroyed(q)
<1>1. /\ a.at = q.at /\ a.status = q.status /\ a.id = 0 /\ a.data = NewRow /\ a.session = "destroyed"
      /\ a.err = q.err /\ a.reports = q.reports /\ a.byOther = q.byOther
      /\ a.inside = q.inside /\ a.barred = q.barred
      /\ a.seen = q.seen /\ a.sent = q.sent /\ a.due = q.due
  BY DEF Request, Destroyed
<1>2. a \in Request
  <2>1. 0 \in 0..MaxIds /\ NewRow \in Session
    BY NewRowType, RequestParameters
  <2> QED
    BY <2>1 DEF Request, Destroyed
<1>3. Accounted(a)
  BY <1>1, AtHandler DEF Accounted, Counted
<1>4. Judged(a) /\ Copied(a) /\ Answering(a)
  BY <1>1, AtHandler, NewRowType DEF Judged, Copied, Answering
<1> QED
  BY <1>1, <1>2, <1>3, <1>4 DEF Sound

\* LoadUser preserves the invariant.
LEMMA LoadUserStep ==
  ASSUME State, NEW r \in Slots, LoadUser(r)
  PROVE  State' /\ LastOK'
<1> DEFINE q == req[r]
           on == [q EXCEPT !.at = "handler"]
           off == [on EXCEPT !.data.user = FALSE]
<1>0. q \in Request /\ Sound(q) /\ q.at = "in"
  BY DEF State, Types, LoadUser
<1>1. fate \in [1..MaxFlashes -> Fates]
  BY DEF State, Types
<1>2. ASSUME NEW a \in Request, Sound(a), Stays(a, q), Goes(r, a), UNCHANGED <<rows, cookie, flashes, fate, wanted>>
      PROVE  State' /\ LastOK'
  <2>1. PICK p \in Request : Sound(p) /\ Like(p, a) /\ req' = [req EXCEPT ![r] = p]
    BY <1>2, GoesTo
  <2>2. Stays(p, q)
    BY <1>2, <2>1 DEF Like, Stays, Kin
  <2> QED
    BY <1>0, <1>1, <1>2, <2>1, <2>2, Moves, GoesTo
<1>3. CASE Goes(r, on) /\ UNCHANGED <<rows, cookie, flashes, fate, wanted>>
  BY <1>0, <1>2, <1>3, HandedOn
<1>4. CASE Goes(r, off) /\ UNCHANGED <<rows, cookie, flashes, fate, wanted>>
  BY <1>0, <1>2, <1>4, HandedOn
<1>5. CASE Goes(r, Failing(q, 500)) /\ UNCHANGED <<rows, cookie, flashes, fate, wanted>>
  BY <1>0, <1>2, <1>5, FailingSound, Ends
<1>6. CASE /\ Goes(r, Destroyed(on)) /\ DropRow(q.id) /\ Mark({q.data.flash}, "void") /\ Forget
           /\ UNCHANGED <<cookie, flashes>>
  <2>1. on \in Request /\ Sound(on) /\ on.at = "handler" /\ on.data = q.data
    BY <1>0, HandedOn DEF Request
  <2> DEFINE a == Destroyed(on)
  <2>2. a \in Request /\ Sound(a) /\ a.at = "handler" /\ a.id = 0 /\ a.data = NewRow
    BY <2>1, DestroyedSound
  <2>3. PICK p \in Request : Sound(p) /\ Like(p, a) /\ req' = [req EXCEPT ![r] = p]
    BY <1>6, <2>2, GoesTo
  <2>4. /\ p.inside /\ p.at = "handler" /\ p.seen = 0 /\ p.sent = Nowhere
        /\ p.data.after = Nowhere /\ p.id = 0 /\ p.data.flash = 0
    BY <2>2, <2>3, AtHandler, NewRowType DEF Like
  <2>5. /\ fate' \in [1..MaxFlashes -> Fates]
        /\ \A f \in 1..MaxFlashes : fate'[f] \in {fate[f], "void"} /\ (f = q.data.flash => fate'[f] = "void")
    BY <1>6, Marks DEF Fates, State
  <2> QED
    BY <1>0, <1>6, <2>2, <2>3, <2>4, <2>5, Parts, GoesTo
<1> QED
  BY <1>3, <1>4, <1>5, <1>6 DEF LoadUser

\* So does a handler that sets no flash, if its answers are of these kinds.
LEMMA PlainStep ==
  ASSUME State, NEW r \in Slots, req[r].at = "handler", NEW answers, Plain(r, answers), UNCHANGED cookie,
         \A a \in answers :
            /\ a \in Request /\ Sound(a)
            /\ Stays(a, req[r]) \/ Sends(a, req[r]) \/ Shows(a, req[r]) \/ (a.at = "failed" /\ Loses(a, req[r]))
  PROVE  State' /\ LastOK'
<1> DEFINE q == req[r]
<1>1. PICK a \in answers :
         /\ Goes(r, a)
         /\ Mark(IF a.at = "failed" /\ a.data.flash = 0 THEN {q.data.flash} ELSE {}, "void")
  BY DEF Plain
<1>2. PICK p \in Request : Sound(p) /\ Like(p, a) /\ req' = [req EXCEPT ![r] = p]
  BY <1>1, GoesTo
<1>3. Stays(p, q) \/ Sends(p, q) \/ Shows(p, q) \/ (a.at = "failed" /\ Loses(p, q))
  BY <1>2 DEF Like, Stays, Sends, Shows, Loses, Kin
<1>4. /\ fate' \in [1..MaxFlashes -> Fates]
      /\ \A f \in 1..MaxFlashes : fate'[f] \in {fate[f], "void"}
      /\ a.at = "failed" /\ a.data.flash = 0 => \A f \in 1..MaxFlashes : f = q.data.flash => fate'[f] = "void"
  <2> DEFINE which == IF a.at = "failed" /\ a.data.flash = 0 THEN {q.data.flash} ELSE {}
  <2>1. /\ fate' \in [1..MaxFlashes -> Fates]
        /\ \A f \in 1..MaxFlashes : fate'[f] = IF f \in which /\ fate[f] /= "void" THEN "void" ELSE fate[f]
    <3> HIDE DEF which
    <3>1. Mark(which, "void") /\ "void" \in Fates
      BY <1>1 DEF which, Fates
    <3> QED
      BY <3>1, Marks DEF State
  <2> QED
    BY <2>1
<1>5. \/ Stays(p, q) \/ Sends(p, q) \/ Shows(p, q)
      \/ Loses(p, q) /\ \A f \in 1..MaxFlashes : f = q.data.flash => fate'[f] = "void"
  BY <1>2, <1>3, <1>4 DEF Like, Loses
<1>6. State'
  BY <1>2, <1>4, <1>5, Moves DEF Plain
<1> QED
  BY <1>1, <1>6, GoesTo

\* The handlers that set none: Home, the forms, errors, plain text and the flows.
LEMMA PageStep ==
  ASSUME State, NEW r \in Slots, req[r].at = "handler", UNCHANGED cookie,
         Home(r) \/ SigninForm(r) \/ Form(r) \/ Fails(r) \/ Flows(r)
  PROVE  State' /\ LastOK'
<1> DEFINE q == req[r]
           Fits(a) == /\ a \in Request /\ Sound(a)
                      /\ Stays(a, q) \/ Sends(a, q) \/ Shows(a, q) \/ (a.at = "failed" /\ Loses(a, q))
<1>0. q \in Request /\ Sound(q)
  BY DEF State, Types
<1>1. \A a \in Page(q, q.data.flash) : Fits(a)
  BY <1>0, PageSound
<1>2. \A a \in Away(q) : Fits(a)
  BY <1>0, WrittenSound, Ends
<1>3. \A uri \in Uris : \A a \in Away([q EXCEPT !.data.after = uri, !.sent = uri, !.session = "modified"]) : Fits(a)
  BY <1>0, SentSound
<1>4. (\A s \in {400, 500} : Fits(Failing(q, s))) /\ Fits(Erring(q, "unwound", 500))
  BY <1>0, FailingSound, Ends
<1>5. Fits(Written(q, 200))
  BY <1>0, WrittenSound
<1>6. ASSUME NEW answers, Plain(r, answers), \A a \in answers : Fits(a)
      PROVE  State' /\ LastOK'
  BY <1>6, PlainStep
<1> HIDE DEF Fits
<1>7. CASE Home(r)
  <2> DEFINE notes == UNION {Away([q EXCEPT !.data.after = uri, !.sent = uri, !.session = "modified"]) : uri \in Uris}
  <2>1. \A a \in notes : Fits(a)
    BY <1>3
  <2>2. CASE q.data.user
    BY <1>1, <1>6, <1>7, <2>2 DEF Home
  <2>3. CASE ~q.data.user
    <3>1. Plain(r, notes)
      BY <1>7, <2>3 DEF Home
    <3> HIDE DEF notes
    <3> QED
      BY <1>6, <2>1, <3>1
  <2> QED
    BY <2>2, <2>3
<1>8. CASE SigninForm(r)
  <2>1. CASE q.data.user
    BY <1>2, <1>6, <1>8, <2>1 DEF SigninForm
  <2>2. CASE ~q.data.user
    BY <1>1, <1>6, <1>8, <2>2 DEF SigninForm
  <2> QED
    BY <2>1, <2>2
<1>9. CASE Form(r)
  BY <1>1, <1>6, <1>9 DEF Form
<1>10. CASE Fails(r)
  <2> DEFINE always == {Failing(q, 400), Failing(q, 500), Erring(q, "unwound", 500)}
             others == IF q.post THEN {} ELSE {Written(q, 200)}
  <2>1. \A a \in always : Fits(a)
    BY <1>4
  <2>2. \A a \in others : Fits(a)
    BY <1>5
  <2>3. Plain(r, always \cup others)
    BY <1>10, Zenon DEF Fails, Panicked, Erring, Written
  <2> HIDE DEF always, others
  <2> QED
    BY <1>6, <2>1, <2>2, <2>3
<1>11. CASE Flows(r)
  <2> DEFINE answers == {Written(q, 200), OwnFailure(q), Failing(q, 400), Erring(q, "unwound", 500)}
  <2>1. Fits(OwnFailure(q))
    BY <1>0, OwnFailureSound DEF Fits
  <2>2. \A a \in answers : Fits(a)
    BY <1>4, <1>5, <2>1
  <2>3. Plain(r, answers)
    BY <1>11, Zenon DEF Flows, Panicked, Erring, Written
  <2> HIDE DEF answers
  <2> QED
    BY <1>6, <2>2, <2>3
<1> QED
  BY <1>7, <1>8, <1>9, <1>10, <1>11

\* Those that set one: the refusals and the reset forms.
LEMMA FlashingStep ==
  ASSUME State, NEW r \in Slots, req[r].at = "handler", UNCHANGED cookie, Refused(r) \/ Flashed(r)
  PROVE  State' /\ LastOK'
<1> DEFINE q == req[r]
           set == SetFlash(r)
<1>0. q \in Request /\ Sound(q) /\ NextFlash \in Nat /\ NextFlash /= 0
  BY RequestParameters DEF State, Types, NextFlash
<1>1. set \in Request /\ Sound(set) /\ set.at = "handler" /\ Kin(set, q) /\ set.data.flash = NextFlash
      /\ set.data.after = q.data.after
  <2>1. /\ set.at = q.at /\ set.status = q.status /\ set.session = "modified"
        /\ set.err = q.err /\ set.reports = q.reports /\ set.byOther = q.byOther
        /\ set.inside = q.inside /\ set.barred = q.barred /\ set.id = q.id
        /\ set.data.used = q.data.used /\ set.data.flash = NextFlash /\ set.data.after = q.data.after
        /\ set.seen = q.seen /\ set.sent = q.sent /\ set.due = q.due
    BY <1>0 DEF Request, Session, SetFlash
  <2>2. set \in Request
    BY <1>0 DEF Request, Session, SetFlash
  <2>3. Accounted(set)
    BY <1>0, <2>1, AtHandler DEF Accounted, Counted
  <2>4. Judged(set) /\ Copied(set) /\ Answering(set)
    BY <1>0, <2>1, AtHandler DEF Judged, Copied, Answering
  <2> QED
    BY <1>0, <2>1, <2>2, <2>3, <2>4, AtHandler DEF Sound, Kin
<1> HIDE DEF set
<1>2. PICK answers : Flashing(r, answers) /\ answers \in {Page(set, NextFlash), Away(set)}
  BY DEF Refused, Flashed, set
<1>3. PICK a \in answers :
         /\ Goes(r, a)
         /\ fate' = [f \in DOMAIN fate |->
                IF f = flashes' THEN IF Others(r) /= {} \/ a.at = "failed" THEN "void" ELSE "live"
                ELSE IF f = q.data.flash THEN "void" ELSE fate[f]]
  BY <1>2 DEF Flashing
<1>4. /\ a \in Request /\ Sound(a) /\ Kin(a, q) /\ a.sent = Nowhere /\ a.data.after = q.data.after
      /\ \/ a.at = "write" /\ a.data.flash = NextFlash /\ a.seen = 0
         \/ a.at = "write" /\ a.data.flash = 0 /\ a.seen = NextFlash
         \/ a.at = "failed" /\ a.data.flash = 0 /\ a.seen = 0
  <2>1. CASE answers = Page(set, NextFlash)
    BY <1>1, <1>3, <2>1, PageSound DEF Shows, Loses, Kin
  <2>2. CASE answers = Away(set)
    BY <1>1, <1>3, <2>2, WrittenSound, Ends DEF Stays, Kin
  <2> QED
    BY <1>2, <2>1, <2>2
<1>5. PICK p \in Request : Sound(p) /\ Like(p, a) /\ req' = [req EXCEPT ![r] = p]
  BY <1>3, <1>4, GoesTo
<1>6. /\ Kin(p, q) /\ p.sent = Nowhere /\ p.data.after = q.data.after
      /\ \/ p.at = "write" /\ p.data.flash = NextFlash /\ p.seen = 0
         \/ p.at = "write" /\ p.data.flash = 0 /\ p.seen = NextFlash
         \/ p.at = "failed" /\ p.data.flash = 0 /\ p.seen = 0
      /\ p.at = a.at
  BY <1>4, <1>5 DEF Like, Kin
<1>7. UNCHANGED <<rows, wanted>> /\ flashes < MaxFlashes /\ flashes' = NextFlash
  BY <1>2 DEF Flashing
<1>8. State'
  BY <1>3, <1>5, <1>6, <1>7, FlashSet
<1> QED
  BY <1>3, <1>4, <1>8, GoesTo

\* Signout destroys the session.
LEMMA SignoutStep ==
  ASSUME State, NEW r \in Slots, req[r].at = "handler", UNCHANGED cookie, Signout(r)
  PROVE  State' /\ LastOK'
<1> DEFINE q == req[r]
           d == Destroyed(q)
<1>0. q \in Request /\ Sound(q)
  BY DEF State, Types
<1>1. d \in Request /\ Sound(d) /\ d.at = "handler" /\ d.id = 0 /\ d.data = NewRow
  BY <1>0, DestroyedSound
<1> HIDE DEF d
<1>2. PICK a \in Away(d) : Goes(r, a)
  BY DEF Signout, d
<1>3. a \in Request /\ Sound(a) /\ Stays(a, d) /\ a.at = "write"
  BY <1>1, <1>2, WrittenSound, Ends
<1>4. PICK p \in Request : Sound(p) /\ Like(p, a) /\ req' = [req EXCEPT ![r] = p]
  BY <1>2, <1>3, GoesTo
<1>5. /\ p.inside /\ p.at = "write" /\ p.seen = 0 /\ p.sent = Nowhere
      /\ p.data.after = Nowhere /\ p.id = 0 /\ p.data.flash = 0
  BY <1>1, <1>3, <1>4, NewRowType DEF Like, Stays, Kin
<1>6. /\ fate' \in [1..MaxFlashes -> Fates]
      /\ \A f \in 1..MaxFlashes : fate'[f] \in {fate[f], "void"} /\ (f = q.data.flash => fate'[f] = "void")
  BY Marks DEF Fates, State, Signout
<1>7. DropRow(q.id) /\ Forget /\ UNCHANGED flashes
  BY DEF Signout
<1>8. State'
  BY <1>4, <1>5, <1>6, <1>7, Parts
<1> QED
  BY <1>2, <1>3, <1>8, GoesTo

\* Signin goes on under a new token, and to the page that is owed.
LEMMA SigninStep ==
  ASSUME State, NEW r \in Slots, req[r].at = "handler", UNCHANGED cookie, Signin(r)
  PROVE  State' /\ LastOK'
<1> DEFINE q == req[r]
           due == IF wanted = AnyPage THEN AnyPage ELSE SafeRedirect(wanted)
           loc == SafeRedirect(q.data.after)
<1>0. q \in Request /\ Sound(q) /\ q.data.after \in Uris \cup {Nowhere} /\ wanted \in Uris \cup {Nowhere, AnyPage}
  BY DEF State, Types, Request, Session
<1>1. PICK i \in Fresh : \E a \in Redirect([q EXCEPT !.id = i, !.data.user = TRUE, !.data.after = Nowhere,
                                                    !.session = "modified", !.due = due], q.data.after) : Goes(r, a)
  BY DEF Signin, PopAfter
<1>2. i \in Ids /\ i \in 0..MaxIds /\ i /= 0 /\ ~rows[i].used
  BY <1>1, RequestParameters DEF Fresh, Unused, Ids
<1>3. due \in {loc, AnyPage} /\ due \in Uris \cup {Nowhere, Root, AnyPage} /\ loc \in Locations
  <2>1. wanted /= AnyPage => q.data.after = wanted
    BY <1>0, AtHandler DEF State, Bounces
  <2> QED
    BY <1>0, <2>1 DEF SafeRedirect, Locations
<1> HIDE DEF due, loc
<1> DEFINE new == [q EXCEPT !.id = i, !.data.user = TRUE, !.data.after = Nowhere, !.session = "modified", !.due = due]
<1>4. /\ new \in Request /\ new.id = i /\ new.session = "modified" /\ new.due = due
      /\ new.err = q.err /\ new.reports = q.reports /\ new.byOther = q.byOther
      /\ new.inside = q.inside /\ new.barred = q.barred /\ new.seen = q.seen /\ new.sent = q.sent
      /\ new.data.used = q.data.used /\ new.data.flash = q.data.flash /\ new.data.after = Nowhere
  BY <1>0, <1>2, <1>3 DEF Request, Session
<1> HIDE DEF new
<1>5. PICK a : a = Sent(new, loc) /\ Goes(r, a)
  BY <1>1 DEF Redirect, Sent, Written, new, loc
<1>6. /\ a.at = "write" /\ a.status = 303 /\ a.loc = loc /\ a.id = i /\ a.session = "modified" /\ a.due = due
      /\ a.err = q.err /\ a.reports = q.reports /\ a.byOther = q.byOther
      /\ a.inside = q.inside /\ a.barred = q.barred /\ a.seen = q.seen /\ a.sent = q.sent
      /\ a.data.used = q.data.used /\ a.data.flash = q.data.flash /\ a.data.after = Nowhere
  BY <1>4, <1>5 DEF Request, Sent, Written
<1>7. a \in Request
  BY <1>3, <1>4, <1>5, SentType
<1>8. Accounted(a)
  BY <1>0, <1>6, AtHandler DEF Accounted, Counted
<1>9. Judged(a) /\ Copied(a) /\ Answering(a)
  BY <1>0, <1>2, <1>3, <1>6, AtHandler DEF Judged, Copied, Answering
<1>10. Sound(a)
  BY <1>8, <1>9 DEF Sound
<1>11. PICK p \in Request : Sound(p) /\ Like(p, a) /\ req' = [req EXCEPT ![r] = p]
  BY <1>5, <1>7, <1>10, GoesTo
<1>12. /\ p.inside /\ p.at = "write" /\ p.seen = 0 /\ p.sent = Nowhere
       /\ p.data.after = Nowhere /\ p.id = i /\ p.data.flash = q.data.flash
  BY <1>0, <1>6, <1>11, AtHandler DEF Like
<1>13. DropRow(q.id) /\ Forget /\ UNCHANGED <<flashes, fate>>
  BY DEF Signin
<1>14. fate' \in [1..MaxFlashes -> Fates] /\ \A f \in 1..MaxFlashes : fate'[f] \in {fate[f], "void"}
  BY <1>13 DEF State, Types
<1>15. State'
  BY <1>2, <1>11, <1>12, <1>13, <1>14, Parts
<1> QED
  BY <1>5, <1>7, <1>10, <1>15, GoesTo

\* Every handler preserves the invariant.
LEMMA HandleStep ==
  ASSUME State, NEW r \in Slots, Handle(r)
  PROVE  State' /\ LastOK'
BY PageStep, FlashingStep, SignoutStep, SigninStep DEF Handle

\* The way in, whatever becomes of the request: it has a copy of the
\* browser's session, or none and never will.
LEMMA Enters ==
  ASSUME State, NEW r \in Slots, ~Active(r), UNCHANGED <<rows, cookie, flashes>>,
         Mark(IF Others(r) = {} THEN {} ELSE InSight, "void"),
         wanted' = IF Others(r) = {} THEN wanted ELSE AnyPage,
         NEW p \in Request, Sound(p), req' = [req EXCEPT ![r] = p], p.seen = 0, p.sent = Nowhere,
         \/ p.inside /\ p.id = (IF Known THEN cookie ELSE 0) /\ p.data = (IF Known THEN rows[cookie] ELSE NewRow)
         \/ ~p.inside /\ p.data = NewRow
  PROVE  State'
<1> DEFINE which == IF Others(r) = {} THEN {} ELSE InSight
<1>1. \A s \in Slots : /\ req'[s] = IF s = r THEN p ELSE req[s]
                       /\ s /= r => (Active(s)' <=> Active(s))
  BY DEF State, Types, Active
<1>2. /\ fate' \in [1..MaxFlashes -> Fates]
      /\ \A f \in 1..MaxFlashes : fate'[f] = IF f \in which /\ fate[f] /= "void" THEN "void" ELSE fate[f]
  <2> HIDE DEF which
  <2>1. Mark(which, "void") /\ "void" \in Fates
    BY DEF which, Fates
  <2> QED
    BY <2>1, Marks DEF State
<1>3. Types'
  BY <1>2 DEF State, Types
<1>4. \A s \in Slots : Sound(req'[s])
  BY <1>1 DEF State
<1>5. p.data.flash /= 0 => p.inside /\ Known /\ p.data = rows[cookie] /\ p.id = cookie
  BY NewRowType
<1>6. Bounded'
  BY <1>1, <1>5, RequestParameters DEF State, Types, Bounded, Known, Ids
<1>7. Others(r) = {} => /\ \A s \in Slots : Active(s)' => s = r
                        /\ \A s \in Slots : req'[s].inside => s = r
                        /\ \A s \in Slots : ~Active(s)
  BY <1>1 DEF State, Sound, Copied, Others, Active
<1>8. Bounces'
  <2> SUFFICES ASSUME wanted' /= AnyPage PROVE Bounces'
    BY DEF Bounces
  <2>1. Others(r) = {} /\ wanted' = wanted /\ wanted /= AnyPage
    OBVIOUS
  <2>2. Single'
    BY <1>7, <2>1 DEF Single
  <2>3. ReturnTo = wanted
    BY <2>1 DEF State, Bounces
  <2>4. p.inside => p.data.after = wanted /\ (~Known \/ p.id = cookie)
    BY <2>3, NewRowType DEF ReturnTo
  <2> QED
    BY <1>1, <1>7, <2>1, <2>2, <2>3, <2>4 DEF Bounces, ReturnTo, Known
<1>9. Flashes'
  <2> SUFFICES ASSUME NEW f \in 1..MaxFlashes, fate'[f] = fate[f], fate[f] /= "void"
               PROVE  /\ fate[f] = "live" => Live(f)'
                      /\ fate[f] \in {"unset", "shown"} => Gone(f)'
                      /\ fate[f] /= "again"
    BY <1>2 DEF Flashes
  <2>1. /\ \A s \in Slots \ {r} : (Held(s, f)' <=> Held(s, f)) /\ (Seen(s, f)' <=> Seen(s, f))
        /\ Kept(f)' <=> Kept(f)
        /\ ~Held(r, f) /\ ~Seen(r, f) /\ ~Seen(r, f)'
    BY <1>1 DEF Held, Seen, Kept, Active
  <2>2. Held(r, f)' => Kept(f) /\ p.id = cookie
    BY <1>1, <1>5 DEF Held, Kept, Known
  <2>3. /\ fate[f] = "live" => Live(f)
        /\ fate[f] \in {"unset", "shown"} => Gone(f)
        /\ fate[f] /= "again"
    BY DEF State, Flashes
  <2>4. ASSUME fate[f] \in {"unset", "shown"} PROVE Gone(f)'
    BY <2>1, <2>2, <2>3, <2>4 DEF Gone
  <2>5. ASSUME fate[f] = "live" PROVE Live(f)'
    <3>0. Live(f)
      BY <2>3, <2>5
    <3>1. CASE Others(r) = {}
      <4>1. Kept(f) /\ Kept(f)'
        BY <1>7, <2>1, <3>0, <3>1 DEF Live, Held, Seen
      <4>2. Single'
        BY <1>7, <3>1 DEF Single
      <4>3. Known /\ rows[cookie].flash = f
        BY <4>1 DEF Kept, Known, State, Types, Bounded, Ids
      <4>4. \A s \in Slots : req'[s].inside => Held(s, f)'
        BY <1>1, <1>4, <1>7, <3>1, <4>3 DEF Held, Active, Sound, Copied
      <4>5. \A s \in Slots : Held(s, f)' \/ Seen(s, f)' => s = r /\ req'[s].id = cookie'
        BY <1>1, <1>7, <2>1, <2>2, <3>1 DEF Held, Seen
      <4> QED
        BY <4>1, <4>2, <4>4, <4>5 DEF Live
    <3>2. CASE Others(r) /= {}
      <4>1. f \notin InSight
        BY <1>2, <3>2
      <4>2. ~Kept(f) /\ \A s \in Slots : ~Held(s, f)
        BY <4>1 DEF InSight, Kept, Held
      <4> QED
        BY <1>1, <2>1, <2>2, <3>0, <4>2 DEF Live
    <3> QED
      BY <3>1, <3>2
  <2> QED
    BY <2>3, <2>4, <2>5
<1> QED
  BY <1>3, <1>4, <1>6, <1>8, <1>9 DEF State

\* With the answer out the request is done, and what it was is known.
LEMMA DoneWith ==
  ASSUME NEW r \in Slots, NEW q, Done(r, q), q.due = Nowhere \/ q.status /= 303 \/ q.due \in {q.loc, AnyPage},
         IF q.byOther THEN q.reports <= 1 ELSE Counted(q)
  PROVE  LastOK' /\ req' = [req EXCEPT ![r] = Idle]
<1>1. /\ last'.status = q.status /\ last'.loc = q.loc /\ last'.due = q.due
      /\ last'.reports = q.reports /\ last'.byOther = q.byOther
  BY DEF Done, Outcome
<1>2. FailuresHeardOnce'
  BY <1>1 DEF FailuresHeardOnce, Counted
<1>3. BouncedReturns'
  BY <1>1 DEF BouncedReturns
<1> QED
  BY <1>2, <1>3 DEF LastOK, Done, Becomes

\* The arrival of a request preserves the invariant.
LEMMA ArriveStep ==
  ASSUME State, NEW r \in Slots, NEW post \in BOOLEAN, Arrive(r, post)
  PROVE  State' /\ LastOK'
<1> DEFINE known == cookie /= 0 /\ rows[cookie].used
           new == [Idle EXCEPT !.post = post]
           in == [new EXCEPT !.inside = TRUE, !.at = "in", !.session = IF known THEN "modified" ELSE "unmodified",
                             !.id = IF known THEN cookie ELSE 0,
                             !.data = IF known THEN rows[cookie] ELSE NewRow]
           Fits(a) == /\ a \in Request /\ Sound(a) /\ a.seen = 0 /\ a.sent = Nowhere
                      /\ \/ a.inside /\ a.id = (IF Known THEN cookie ELSE 0) /\ a.data = (IF Known THEN rows[cookie] ELSE NewRow)
                         \/ ~a.inside /\ a.data = NewRow
<1>1. /\ ~Active(r) /\ UNCHANGED <<rows, cookie, flashes>>
      /\ Mark(IF Others(r) = {} THEN {} ELSE InSight, "void")
      /\ wanted' = IF Others(r) = {} THEN wanted ELSE AnyPage
  BY DEF Arrive
<1>2. ASSUME NEW a, Fits(a), Goes(r, a) PROVE State' /\ LastOK'
  <2>1. PICK p \in Request : Sound(p) /\ Like(p, a) /\ req' = [req EXCEPT ![r] = p]
    BY <1>2, GoesTo
  <2>2. Fits(p)
    BY <1>2, <2>1 DEF Like
  <2> QED
    BY <1>1, <1>2, <2>1, <2>2, Enters, GoesTo
<1>3. /\ new \in Request /\ new.at = "idle" /\ ~new.inside /\ new.data = NewRow /\ new.seen = 0 /\ new.sent = Nowhere
      /\ new.id = 0 /\ new.status = 0 /\ new.reports = 0 /\ ~new.byOther /\ new.due = Nowhere
      /\ new.session = "unmodified" /\ ~new.barred /\ new.err = 0
  <2> HIDE DEF Idle
  <2> QED
    BY IdleSound DEF Request
<1> HIDE DEF new
<1>4. ASSUME NEW s \in {413, 500}, Goes(r, Erring(new, "unwound", s))
      PROVE  State' /\ LastOK'
  <2> DEFINE a == Erring(new, "unwound", s)
  <2>1. /\ a.at = "unwound" /\ a.err = s /\ ~a.inside /\ a.data = NewRow /\ a.seen = 0 /\ a.sent = Nowhere
        /\ a.id = 0 /\ a.status = 0 /\ a.reports = 0 /\ ~a.byOther /\ a.due = Nowhere /\ a.session = "unmodified"
    BY <1>3 DEF Request, Erring
  <2>2. a \in Request
    BY <1>3, EndTypes DEF Places
  <2>3. Accounted(a)
    BY <2>1 DEF Accounted, Counted
  <2>4. Judged(a) /\ Copied(a) /\ Answering(a)
    BY <2>1, NewRowType DEF Judged, Copied, Answering
  <2> HIDE DEF a
  <2>5. Fits(a)
    BY <2>1, <2>2, <2>3, <2>4 DEF Sound
  <2> QED
    BY <1>2, <1>4, <2>5 DEF a
<1>5. ASSUME Done(r, [new EXCEPT !.status = 500, !.byOther = TRUE])
      PROVE  State' /\ LastOK'
  <2> DEFINE a == [new EXCEPT !.status = 500, !.byOther = TRUE]
  <2>1. a.status = 500 /\ a.byOther /\ a.reports = 0 /\ a.due = Nowhere
    BY <1>3 DEF Request
  <2> HIDE DEF a
  <2>2. Done(r, a)
    BY <1>5 DEF a
  <2>3. LastOK' /\ req' = [req EXCEPT ![r] = Idle]
    BY <2>1, <2>2, DoneWith
  <2> QED
    BY <1>1, <2>3, Enters, IdleSound
<1>6. /\ in \in Request /\ in.at = "in" /\ in.inside /\ in.seen = 0 /\ in.sent = Nowhere
      /\ in.session = (IF Known THEN "modified" ELSE "unmodified")
      /\ in.id = (IF Known THEN cookie ELSE 0) /\ in.data = (IF Known THEN rows[cookie] ELSE NewRow)
      /\ in.status = 0 /\ in.reports = 0 /\ ~in.byOther /\ in.due = Nowhere /\ ~in.barred /\ in.err = 0
  <2> DEFINE session == IF Known THEN "modified" ELSE "unmodified"
             id == IF Known THEN cookie ELSE 0
             data == IF Known THEN rows[cookie] ELSE NewRow
  <2>1. id \in 0..MaxIds /\ data \in Session /\ session \in {"modified", "unmodified"}
    BY NewRowType, RequestParameters DEF State, Types, Known, Ids
  <2>2. in = [new EXCEPT !.inside = TRUE, !.at = "in", !.session = session, !.id = id, !.data = data]
    BY DEF Known
  <2> HIDE DEF session, id, data, in
  <2>3. /\ in \in Request /\ in.at = "in" /\ in.inside /\ in.seen = 0 /\ in.sent = Nowhere
        /\ in.session = session /\ in.id = id /\ in.data = data
        /\ in.status = 0 /\ in.reports = 0 /\ ~in.byOther /\ in.due = Nowhere /\ ~in.barred /\ in.err = 0
    BY <1>3, <2>1, <2>2 DEF Request, Places
  <2> QED
    BY <2>3 DEF session, id, data
<1> HIDE DEF in
<1>7. in.data.used /\ (in.data.flash /= 0 => in.session = "modified")
  BY <1>6, NewRowType DEF Known
<1>8. ASSUME NEW barred \in BOOLEAN, NEW flows \in BOOLEAN, NEW a,
             a = IF barred THEN Failing(Posted(in, barred, flows), 403) ELSE Posted(in, barred, flows)
      PROVE  Fits(a)
  <2> DEFINE posted == Posted(in, barred, flows)
  <2>0. posted \in Request
    BY <1>6 DEF Request, Posted
  <2>2. /\ posted.at = "in" /\ posted.inside /\ posted.seen = 0 /\ posted.sent = Nowhere
        /\ posted.session = in.session /\ posted.id = in.id /\ posted.data = in.data
        /\ posted.status = 0 /\ posted.reports = 0 /\ ~posted.byOther /\ posted.due = Nowhere
        /\ posted.barred <=> barred
        /\ posted.err = 0
    BY <1>6 DEF Request, Posted
  <2> HIDE DEF posted
  <2>1. /\ a \in Request /\ a.inside /\ a.seen = 0 /\ a.sent = Nowhere
        /\ a.session = in.session /\ a.id = in.id /\ a.data = in.data
        /\ a.status = 0 /\ a.reports = 0 /\ ~a.byOther /\ a.due = Nowhere
        /\ a.barred <=> barred
        /\ a.err = IF barred THEN 403 ELSE 0
        /\ a.at = IF barred THEN "failed" ELSE "in"
    <3>1. CASE ~barred
      BY <1>8, <2>0, <2>2, <3>1 DEF posted
    <3>2. CASE barred
      <4>1. a = Erring(posted, "failed", 403)
        <5>1. a = Failing(posted, 403)
          BY <1>8, <3>2, Zenon DEF posted
        <5> QED
          BY <5>1, Ends
      <4>2. a \in Request
        <5>1. "failed" \in Places /\ 403 \in Nat
          BY DEF Places
        <5> QED
          BY <2>0, <4>1, <5>1, EndTypes
      <4>3. /\ a.at = "failed" /\ a.err = 403 /\ a.inside = posted.inside /\ a.seen = posted.seen /\ a.sent = posted.sent
            /\ a.session = posted.session /\ a.id = posted.id /\ a.data = posted.data
            /\ a.status = posted.status /\ a.reports = posted.reports /\ a.byOther = posted.byOther
            /\ a.due = posted.due /\ a.barred = posted.barred
        BY <2>0, <4>1, ErringFields
      <4> QED
        BY <2>2, <3>2, <4>2, <4>3
    <3> QED
      BY <3>1, <3>2
  <2>3. Accounted(a)
    BY <2>1 DEF Accounted, Counted
  <2>4. Judged(a) /\ Copied(a) /\ Answering(a)
    BY <1>6, <1>7, <2>1 DEF Judged, Copied, Answering
  <2> QED
    BY <1>6, <2>1, <2>3, <2>4 DEF Sound
<1>9. Fits(in)
  <2>1. Accounted(in)
    BY <1>6 DEF Accounted, Counted
  <2>2. Judged(in) /\ Copied(in) /\ Answering(in)
    BY <1>6, <1>7 DEF Judged, Copied, Answering
  <2> QED
    BY <1>6, <2>1, <2>2 DEF Sound
<1>10. ASSUME NEW v \in Verdicts, NEW a, Goes(r, a),
              a = IF v.passes THEN Posted(in, v.barred, v.flows) ELSE Failing(Posted(in, v.barred, v.flows), 403)
       PROVE  State' /\ LastOK'
  <2>1. v.barred \in BOOLEAN /\ v.flows \in BOOLEAN /\ (v.passes <=> ~v.barred)
    BY VerdictsSound
  <2>2. a = IF v.barred THEN Failing(Posted(in, v.barred, v.flows), 403) ELSE Posted(in, v.barred, v.flows)
    BY <1>10, <2>1
  <2>3. Fits(a)
    BY <1>8, <2>1, <2>2
  <2> QED
    BY <1>2, <1>10, <2>3
<1> HIDE DEF Fits
<1>11. \/ \E s \in {413, 500} : Goes(r, Erring(new, "unwound", s))
       \/ Done(r, [new EXCEPT !.status = 500, !.byOther = TRUE])
       \/ Goes(r, in)
       \/ \E v \in Verdicts : 
             Goes(r, IF v.passes THEN Posted(in, v.barred, v.flows) ELSE Failing(Posted(in, v.barred, v.flows), 403))
  BY Zenon DEF Arrive, new, in, Erring, Posted
<1>12. CASE Done(r, [new EXCEPT !.status = 500, !.byOther = TRUE])
  BY <1>5, <1>12
<1>13. CASE Goes(r, in)
  BY <1>2, <1>9, <1>13
<1> QED
  BY <1>4, <1>10, <1>11, <1>12, <1>13

-----------------------------------------------------------------------------
(* The way out.                                                            *)

\* The commit of scs: the copy becomes the browser's session, or the cookie
\* is cleared, or nothing changes.
LEMMA Saves ==
  ASSUME State, NEW r \in Slots, Save(req[r])
  PROVE  /\ rows' \in [Ids -> Session] /\ cookie' \in 0..MaxIds
         /\ \/ /\ req[r].session = "modified" /\ cookie' \in Ids /\ cookie' /= 0
               /\ \A j \in Ids : rows'[j] = IF j = cookie' THEN req[r].data ELSE rows[j]
            \/ req[r].session = "destroyed" /\ cookie' = 0 /\ rows' = rows
            \/ req[r].session = "unmodified" /\ cookie' = cookie /\ rows' = rows
<1> DEFINE q == req[r]
<1>0. q \in Request /\ q.id \in 0..MaxIds /\ q.data \in Session /\ q.session \in {"unmodified", "modified", "destroyed"}
  BY DEF State, Types, Request
<1>1. CASE q.session = "modified"
  <2>1. PICK i \in (IF q.id /= 0 THEN {q.id} ELSE Fresh) : rows' = [rows EXCEPT ![i] = q.data] /\ cookie' = i
    BY <1>1 DEF Save
  <2>2. i \in Ids /\ i /= 0 /\ i \in 0..MaxIds
    BY <1>0, RequestParameters DEF Fresh, Unused, Ids
  <2> QED
    BY <1>0, <1>1, <2>1, <2>2 DEF State, Types
<1>2. CASE q.session /= "modified"
  BY <1>0, <1>2, RequestParameters DEF Save, State, Types
<1> QED
  BY <1>1, <1>2

\* What is left of a request that was answered.
Spent(p) == /\ p \in Request /\ Sound(p) /\ ~p.inside /\ p.data = NewRow /\ p.seen = 0 /\ p.sent = Nowhere

\* A request is answered and its copy of the session saved.
LEMMA Leaves ==
  ASSUME State, NEW r \in Slots, Active(r), Save(req[r]),
         NEW p, Spent(p), req' = [req EXCEPT ![r] = p], UNCHANGED flashes,
         fate' \in [1..MaxFlashes -> Fates],
         \A f \in 1..MaxFlashes :
            fate'[f] = IF f = req[r].seen /\ fate[f] /= "void"
                       THEN IF fate[f] \in {"shown", "again"} THEN "again" ELSE "shown"
                       ELSE fate[f],
         wanted' = IF req[r].sent = Nowhere THEN wanted ELSE IF Others(r) = {} THEN req[r].sent ELSE AnyPage
  PROVE  State'
<1> DEFINE q == req[r]
<1>0. q \in Request /\ Sound(q) /\ q.data \in Session /\ q.sent \in Uris \cup {Nowhere}
  BY DEF State, Types, Request
<1>1. /\ q.session /= "unmodified" => q.inside
      /\ q.session = "destroyed" => q.id = 0
      /\ q.data.flash /= 0 => q.session = "modified"
      /\ q.seen /= 0 => q.session = "modified" /\ q.data.flash = 0
      /\ q.sent /= Nowhere => q.session = "modified" /\ q.data.after = q.sent
      /\ q.data.used
  BY <1>0 DEF Sound, Copied, Answering
<1>2. \A s \in Slots : /\ req'[s] = IF s = r THEN p ELSE req[s]
                       /\ s /= r => (Active(s)' <=> Active(s))
  BY DEF State, Types, Active
<1>3. p \in Request /\ Sound(p) /\ ~p.inside /\ p.data.flash = 0 /\ p.seen = 0
  BY NewRowType DEF Spent
<1>4. Types'
  BY <1>0, <1>3, Saves DEF State, Types
<1>5. \A s \in Slots : Sound(req'[s])
  BY <1>2, <1>3 DEF State
<1>6. Bounded'
  <2>1. \A j \in Ids : rows'[j] = rows[j] \/ rows'[j] = q.data
    BY Saves
  <2>2. \A j \in Ids : rows'[j].flash <= flashes' /\ (rows'[j].flash /= 0 => rows'[j].used)
    BY <1>1, <2>1 DEF State, Bounded
  <2>3. \A s \in Slots : req'[s].data.flash <= flashes' /\ req'[s].seen <= flashes'
    BY <1>2, <1>3, RequestParameters DEF State, Types, Bounded
  <2> QED
    BY <2>2, <2>3 DEF Bounded
<1>7. \A s \in Slots : req'[s].inside => s /= r /\ Active(s)
  BY <1>2, <1>3 DEF State, Sound, Copied, Active
<1>8. Bounces'
  <2> SUFFICES ASSUME wanted' /= AnyPage PROVE Bounces'
    BY DEF Bounces
  <2>1. CASE q.sent = Nowhere
    <3>1. wanted' = wanted /\ Single /\ ReturnTo = wanted /\ (q.inside => q.data.after = wanted /\ (~Known \/ q.id = cookie))
      BY <2>1 DEF State, Bounces
    <3>2. Single' /\ \A s \in Slots : ~req'[s].inside
      BY <1>2, <1>7, <3>1 DEF Single
    <3>3. CASE q.session = "modified"
      <4>1. cookie' /= 0 /\ rows'[cookie'] = q.data
        BY <3>3, Saves
      <4> QED
        BY <1>1, <3>1, <3>2, <3>3, <4>1 DEF Bounces, ReturnTo, Known
    <3>4. CASE q.session = "destroyed"
      <4>1. ~Known
        BY <1>1, <3>1, <3>4 DEF Known
      <4>2. cookie' = 0
        BY <3>4, Saves
      <4> QED
        BY <3>1, <3>2, <4>1, <4>2 DEF Bounces, ReturnTo, Known
    <3>5. CASE q.session = "unmodified"
      <4>1. cookie' = cookie /\ rows' = rows
        BY <3>5, Saves
      <4> QED
        BY <3>1, <3>2, <4>1 DEF Bounces, ReturnTo, Known
    <3> QED
      BY <3>3, <3>4, <3>5, Saves
  <2>2. CASE q.sent /= Nowhere
    <3>1. wanted' = q.sent /\ Others(r) = {}
      BY <2>2
    <3>2. cookie' /= 0 /\ rows'[cookie'] = q.data
      BY <1>1, <2>2, Saves
    <3>3. Single' /\ \A s \in Slots : ~req'[s].inside
      BY <1>2, <1>7, <3>1 DEF Single, Others
    <3> QED
      BY <1>1, <2>2, <3>1, <3>2, <3>3 DEF Bounces, ReturnTo, Known
  <2> QED
    BY <2>1, <2>2
<1>9. Flashes'
  <2> SUFFICES ASSUME NEW f \in 1..MaxFlashes, fate[f] /= "void"
               PROVE  /\ fate'[f] = "live" => Live(f)'
                      /\ fate'[f] \in {"unset", "shown"} => Gone(f)'
                      /\ fate'[f] /= "again"
    BY DEF Flashes
  <2>1. /\ \A s \in Slots \ {r} : (Held(s, f)' <=> Held(s, f)) /\ (Seen(s, f)' <=> Seen(s, f))
        /\ ~Held(r, f)' /\ ~Seen(r, f)' /\ f /= 0
        /\ Held(r, f) <=> q.data.flash = f
        /\ Seen(r, f) <=> q.seen = f
    BY <1>2, <1>3 DEF Held, Seen
  <2>2. \/ q.session = "modified" /\ (Kept(f)' <=> q.data.flash = f)
        \/ q.session = "destroyed" /\ ~Kept(f)'
        \/ q.session = "unmodified" /\ (Kept(f)' <=> Kept(f))
    BY Saves DEF Kept
  <2>3. /\ fate[f] = "live" => Live(f)
        /\ fate[f] \in {"unset", "shown"} => Gone(f)
        /\ fate[f] /= "again"
    BY DEF State, Flashes
  <2>4. \A s \in Slots : Active(s) /\ Single => s = r
    BY DEF Single
  <2>5. CASE f = q.seen
    <3>1. fate[f] = "live" /\ fate'[f] = "shown"
      BY <2>1, <2>3, <2>5 DEF Gone, State, Types, Fates
    <3>2. ~Kept(f)'
      BY <1>1, <2>1, <2>2, <2>5
    <3>3. ASSUME NEW s \in Slots PROVE ~Held(s, f)' /\ ~Seen(s, f)'
      BY <2>1, <2>3, <2>4, <2>5, <3>1 DEF Live, Held
    <3> QED
      BY <3>1, <3>2, <3>3 DEF Gone
  <2>6. CASE f /= q.seen
    <3>1. fate'[f] = fate[f] /\ ~Seen(r, f)
      BY <2>1, <2>6
    <3>2. ASSUME fate[f] \in {"unset", "shown"} PROVE Gone(f)'
      BY <2>1, <2>2, <2>3, <3>2 DEF Gone
    <3>3. ASSUME fate[f] = "live" PROVE Live(f)'
      <4>1. Live(f)
        BY <2>3, <3>3
      <4>2. Kept(f) /\ q.inside => Held(r, f)
        BY <3>1, <4>1 DEF Live
      <4>3. Kept(f) \/ Held(r, f) => Kept(f)'
        BY <1>1, <2>1, <2>2, <4>2
      <4>4. Kept(f)' => Kept(f) \/ Held(r, f)
        BY <2>1, <2>2
      <4>5. Kept(f) \/ (\E s \in Slots : Held(s, f)) => Single
        BY <4>1 DEF Live
      <4>6. ASSUME NEW s \in Slots, Held(s, f)' PROVE FALSE
        BY <2>1, <2>4, <4>5, <4>6 DEF Held
      <4>7. Single => Single'
        BY <1>2 DEF Single
      <4>8. Kept(f)' \/ \E s \in Slots : Held(s, f)' \/ Seen(s, f)'
        BY <2>1, <3>1, <4>1, <4>3 DEF Live
      <4>9. \A s, t \in Slots : Seen(s, f)' /\ Seen(t, f)' => s = t
        BY <2>1, <4>1 DEF Live
      <4>10. Kept(f)' => \A s \in Slots : ~req'[s].inside
        BY <1>7, <2>4, <4>4, <4>5
      <4>11. ASSUME NEW s \in Slots, Seen(s, f)', req'[s].id /= 0, rows'[req'[s].id].flash = f PROVE FALSE
        <5>1. s /= r /\ Seen(s, f) /\ Active(s) /\ req'[s] = req[s] /\ req[s].id \in Ids
          BY <1>2, <2>1, <4>11 DEF Seen, State, Types, Request, Ids
        <5>2. rows[req[s].id].flash = f \/ q.data.flash = f
          BY <4>11, <5>1, Saves
        <5>3. CASE rows[req[s].id].flash = f
          <6>1. Kept(f)
            BY <4>1, <4>11, <5>1, <5>3 DEF Live, Kept
          <6> QED
            BY <2>4, <4>5, <5>1, <6>1
        <5>4. CASE q.data.flash = f
          BY <2>1, <2>4, <4>5, <5>1, <5>4
        <5> QED
          BY <5>2, <5>3, <5>4
      <4> QED
        BY <4>4, <4>5, <4>6, <4>7, <4>8, <4>9, <4>10, <4>11 DEF Live
    <3> QED
      BY <2>3, <3>1, <3>2, <3>3
  <2> QED
    BY <2>5, <2>6
<1> QED
  BY <1>4, <1>5, <1>6, <1>8, <1>9 DEF State

\* A request is done and its copy of the session lost: what it held was
\* in the stored session as well.
LEMMA Lost ==
  ASSUME State, NEW r \in Slots, Active(r), UNCHANGED <<rows, cookie, flashes, wanted>>,
         NEW p, Spent(p), req' = [req EXCEPT ![r] = p],
         fate' \in [1..MaxFlashes -> Fates],
         \A f \in 1..MaxFlashes :
            \/ fate'[f] = "void"
            \/ fate'[f] = fate[f] /\ (fate[f] = "live" /\ (Held(r, f) \/ Seen(r, f)) => Kept(f))
  PROVE  State'
<1>1. \A s \in Slots : /\ req'[s] = IF s = r THEN p ELSE req[s]
                       /\ s /= r => (Active(s)' <=> Active(s))
  BY DEF State, Types, Active
<1>2. p \in Request /\ Sound(p) /\ ~p.inside /\ p.data.flash = 0 /\ p.seen = 0
  BY NewRowType DEF Spent
<1>3. Types'
  BY <1>2 DEF State, Types
<1>4. \A s \in Slots : Sound(req'[s])
  BY <1>1, <1>2 DEF State
<1>5. Bounded'
  BY <1>1, <1>2, RequestParameters DEF State, Types, Bounded
<1>6. Single => Single'
  BY <1>1 DEF Single
<1>7. Bounces'
  BY <1>1, <1>2, <1>6 DEF State, Bounces, ReturnTo, Known
<1>8. Flashes'
  <2> SUFFICES ASSUME NEW f \in 1..MaxFlashes, fate'[f] = fate[f],
                      fate[f] = "live" /\ (Held(r, f) \/ Seen(r, f)) => Kept(f)
               PROVE  /\ fate[f] = "live" => Live(f)'
                      /\ fate[f] \in {"unset", "shown"} => Gone(f)'
                      /\ fate[f] /= "again"
    BY DEF Flashes
  <2>1. /\ \A s \in Slots \ {r} : (Held(s, f)' <=> Held(s, f)) /\ (Seen(s, f)' <=> Seen(s, f))
        /\ ~Held(r, f)' /\ ~Seen(r, f)'
        /\ Kept(f)' <=> Kept(f)
    BY <1>1, <1>2 DEF Held, Seen, Kept
  <2>2. /\ fate[f] = "live" => Live(f)
        /\ fate[f] \in {"unset", "shown"} => Gone(f)
        /\ fate[f] /= "again"
    BY DEF State, Flashes
  <2>3. ASSUME fate[f] \in {"unset", "shown"} PROVE Gone(f)'
    BY <2>1, <2>2, <2>3 DEF Gone
  <2>4. ASSUME fate[f] = "live" PROVE Live(f)'
    BY <1>1, <1>2, <1>6, <2>1, <2>2, <2>4 DEF Live
  <2> QED
    BY <2>2, <2>3, <2>4
<1> QED
  BY <1>3, <1>4, <1>5, <1>7, <1>8 DEF State

\* An answer preserves the invariant.
LEMMA WriteStep ==
  ASSUME State, NEW r \in Slots, Write(r)
  PROVE  State' /\ LastOK'
<1> DEFINE q == req[r]
           what == IF q.seen /= 0 /\ fate[q.seen] \in {"shown", "again"} THEN "again" ELSE "shown"
<1>0. q \in Request /\ Sound(q) /\ q.at = "write" /\ Active(r) /\ Done(r, q) /\ Save(q) /\ UNCHANGED flashes
  BY DEF State, Types, Write, Active
<1>1. /\ q.due \in {Nowhere, q.loc, AnyPage}
      /\ IF q.byOther THEN q.reports <= 1 ELSE Counted(q)
  <2>1. q.status \in {200, 303} \/ (q.status = 500 /\ q.byOther)
    BY <1>0 DEF Sound, Accounted
  <2>2. q.reports = 0 /\ q.due \in {Nowhere, q.loc, AnyPage}
    BY <1>0 DEF Sound, Accounted, Answering
  <2> QED
    BY <2>1, <2>2 DEF Counted
<1>2. LastOK' /\ req' = [req EXCEPT ![r] = Idle]
  BY <1>0, <1>1, DoneWith
<1>3. Spent(Idle)
  BY IdleSound DEF Spent
<1>4. /\ fate' \in [1..MaxFlashes -> Fates]
      /\ \A f \in 1..MaxFlashes : fate'[f] = IF f \in {q.seen} /\ fate[f] /= "void" THEN what ELSE fate[f]
  <2>1. what \in Fates /\ Mark({q.seen}, what)
    BY DEF Fates, Write
  <2> HIDE DEF what
  <2> QED
    BY <2>1, Marks DEF State
<1>5. \A f \in 1..MaxFlashes :
         fate'[f] = IF f = q.seen /\ fate[f] /= "void"
                    THEN IF fate[f] \in {"shown", "again"} THEN "again" ELSE "shown"
                    ELSE fate[f]
  BY <1>4
<1>6. wanted' = IF q.sent = Nowhere THEN wanted ELSE IF Others(r) = {} THEN q.sent ELSE AnyPage
  BY DEF Write
<1>7. State'
  BY <1>0, <1>2, <1>3, <1>4, <1>5, <1>6, Leaves
<1> QED
  BY <1>2, <1>7

\* So does one that the store refuses: what it held is void or still stored.
LEMMA SaveFailsStep ==
  ASSUME State, NEW r \in Slots, SaveFails(r)
  PROVE  State' /\ LastOK'
<1> DEFINE q == req[r]
           a == [q EXCEPT !.status = 500, !.byOther = TRUE]
           which == {q.data.flash, q.seen} \ {rows[i].flash : i \in {q.id} \cap Ids}
<1>0. /\ q \in Request /\ Sound(q) /\ q.at = "write" /\ Active(r)
      /\ Done(r, a) /\ UNCHANGED <<rows, cookie, flashes, wanted>>
  BY DEF State, Types, SaveFails, Active
<1>1. a.status = 500 /\ a.byOther /\ a.reports = q.reports /\ q.reports = 0
  BY <1>0 DEF Request, Sound, Accounted, Counted
<1> HIDE DEF a
<1>2. LastOK' /\ req' = [req EXCEPT ![r] = Idle]
  BY <1>0, <1>1, DoneWith
<1>3. Spent(Idle)
  BY IdleSound DEF Spent
<1>4. /\ fate' \in [1..MaxFlashes -> Fates]
      /\ \A f \in 1..MaxFlashes : fate'[f] = IF f \in which /\ fate[f] /= "void" THEN "void" ELSE fate[f]
  <2>1. "void" \in Fates /\ Mark(which, "void")
    BY DEF Fates, SaveFails
  <2> HIDE DEF which
  <2> QED
    BY <2>1, Marks DEF State
<1>5. ASSUME NEW f \in 1..MaxFlashes, f \notin which, fate[f] = "live", Held(r, f) \/ Seen(r, f)
      PROVE  Kept(f)
  <2>1. q.id \in Ids /\ rows[q.id].flash = f /\ q.id /= 0
    BY <1>5, RequestParameters DEF Held, Seen, Ids
  <2>2. Live(f)
    BY <1>5 DEF State, Flashes
  <2>3. q.id = cookie
    BY <1>5, <2>1, <2>2 DEF Live
  <2> QED
    BY <2>1, <2>3 DEF Kept
<1>6. \A f \in 1..MaxFlashes :
         \/ fate'[f] = "void"
         \/ fate'[f] = fate[f] /\ (fate[f] = "live" /\ (Held(r, f) \/ Seen(r, f)) => Kept(f))
  <2> HIDE DEF which
  <2> QED
    BY <1>4, <1>5
<1>7. State'
  BY <1>0, <1>2, <1>3, <1>4, <1>6, Lost
<1> QED
  BY <1>2, <1>7

\* An error page preserves it, from the logger and from Echo.
LEMMA UnwindStep ==
  ASSUME State, NEW r \in Slots, Unwind(r)
  PROVE  State' /\ LastOK'
<1> DEFINE q == req[r]
<1>0. PICK unsaved \in BOOLEAN :
         LET e == [ErrorHandler(q) EXCEPT !.byOther = q.byOther \/ unsaved]
         IN  /\ IF q.status = 0 /\ ~unsaved THEN Save(q) ELSE UNCHANGED <<rows, cookie>>
             /\ \/ q.at = "failed" /\ Goes(r, Answered(e))
                \/ q.at = "unwound" /\ Done(r, e)
             /\ UNCHANGED <<flashes, fate, wanted>>
  BY DEF Unwind
<1> DEFINE e == [ErrorHandler(q) EXCEPT !.byOther = q.byOther \/ unsaved]
<1>1. q \in Request /\ Sound(q) /\ q.at \in {"failed", "unwound"} /\ Active(r)
  BY <1>0 DEF State, Types, Active
<1>2. /\ q.status \in {0, q.err} /\ q.err /= 0 /\ Counted(q)
      /\ q.seen = 0 /\ q.sent = Nowhere /\ q.due = Nowhere
  BY <1>1 DEF Sound, Accounted, Answering
<1>3. /\ e.status = q.err /\ e.err = q.err /\ e.reports = (IF q.err >= 500 THEN 1 ELSE 0) /\ e.due = Nowhere
      /\ e.byOther \in BOOLEAN
  BY <1>1, <1>2 DEF Request, ErrorHandler, Counted
<1>4. fate \in [1..MaxFlashes -> Fates] /\ fate' = fate
  BY <1>0 DEF State, Types
<1>5. ASSUME NEW p, Spent(p), req' = [req EXCEPT ![r] = p]
      PROVE  State'
  <2>1. CASE q.status = 0 /\ ~unsaved
    <3>1. Save(q) /\ UNCHANGED <<flashes, wanted>>
      BY <1>0, <2>1
    <3>2. \A f \in 1..MaxFlashes : f /= q.seen
      BY <1>2
    <3> QED
      BY <1>1, <1>2, <1>4, <1>5, <3>1, <3>2, Leaves
  <2>2. CASE ~(q.status = 0 /\ ~unsaved)
    <3>1. UNCHANGED <<rows, cookie, flashes, wanted>>
      BY <1>0, <2>2
    <3>2. ASSUME NEW f \in 1..MaxFlashes, fate[f] = "live", Held(r, f) \/ Seen(r, f)
          PROVE  Kept(f)
      BY <1>1, <1>2, <3>2 DEF State, Flashes, Live, Seen
    <3> QED
      BY <1>1, <1>4, <1>5, <3>1, <3>2, Lost
  <2> QED
    BY <2>1, <2>2
<1>6. (q.at = "failed" /\ Goes(r, Answered(e))) \/ Done(r, e)
  BY <1>0
<1> HIDE DEF e
<1>7. CASE Goes(r, Answered(e))
  <2> DEFINE a == Answered(e)
  <2>1. /\ a.at = "unwound" /\ a.err = q.err /\ a.status = q.err /\ a.reports = (IF q.err >= 500 THEN 1 ELSE 0)
        /\ ~a.inside /\ a.data = NewRow /\ a.seen = 0 /\ a.sent = Nowhere /\ a.id = 0
        /\ a.due = Nowhere /\ a.session = "unmodified" /\ a \in Request
    <3>1. e.status \in Nat /\ e.err \in Nat /\ e.reports \in Nat /\ e.byOther \in BOOLEAN
      BY <1>1, <1>3 DEF Request
    <3> HIDE DEF Idle
    <3>2. /\ a.at = "unwound" /\ a.err = e.err /\ a.status = e.status /\ a.reports = e.reports
          /\ a.inside = Idle.inside /\ a.data = Idle.data /\ a.seen = Idle.seen /\ a.sent = Idle.sent /\ a.id = Idle.id
          /\ a.due = Idle.due /\ a.session = Idle.session /\ a \in Request
      BY <3>1, IdleSound DEF Answered, Request, Places
    <3> QED
      BY <1>3, <3>2, IdleSound
  <2> HIDE DEF a
  <2>2. Accounted(a)
    BY <1>2, <2>1 DEF Accounted, Counted
  <2>3. Judged(a) /\ Copied(a) /\ Answering(a)
    BY <2>1, NewRowType DEF Judged, Copied, Answering
  <2>4. Goes(r, a) /\ Sound(a)
    BY <1>7, <2>2, <2>3 DEF Sound, a
  <2>5. PICK p \in Request : Sound(p) /\ Like(p, a) /\ req' = [req EXCEPT ![r] = p]
    BY <2>1, <2>4, GoesTo
  <2>6. Spent(p)
    BY <2>1, <2>5 DEF Like, Spent
  <2> QED
    BY <1>5, <2>1, <2>4, <2>5, <2>6, GoesTo
<1>8. CASE Done(r, e)
  <2>1. LastOK' /\ req' = [req EXCEPT ![r] = Idle]
    BY <1>1, <1>3, <1>8, DoneWith DEF Counted, Request
  <2>2. Spent(Idle)
    BY IdleSound DEF Spent
  <2> QED
    BY <1>5, <2>1, <2>2
<1> QED
  BY <1>6, <1>7, <1>8

-----------------------------------------------------------------------------
(* The theorems.                                                           *)

\* No step breaks the invariant.
LEMMA Step == State /\ LastOK /\ [Next]_vars => (State /\ LastOK)'
<1> SUFFICES ASSUME State, LastOK, [Next]_vars PROVE State' /\ LastOK'
  OBVIOUS
<1>1. CASE Next
  <2>1. PICK r \in Slots :
           \/ \E post \in BOOLEAN : Arrive(r, post)
           \/ LoadUser(r) \/ Handle(r) \/ Write(r) \/ SaveFails(r) \/ Unwind(r)
    BY <1>1 DEF Next
  <2> QED
    BY <2>1, ArriveStep, LoadUserStep, HandleStep, WriteStep, SaveFailsStep, UnwindStep
<1>2. CASE UNCHANGED vars
  <2>1. UNCHANGED <<rows, cookie, req, flashes, fate, wanted>> /\ last' = last
    BY <1>2 DEF vars
  <2>2. LastOK'
    BY <2>1 DEF LastOK, FailuresHeardOnce, BouncedReturns
  <2>3. Types' /\ Bounded' /\ \A r \in Slots : Sound(req[r])'
    BY <2>1 DEF State, Types, Bounded
  <2>4. Bounces'
    BY <2>1 DEF State, Bounces, Single, Active, ReturnTo, Known
  <2>5. ASSUME NEW f \in 1..MaxFlashes PROVE (Live(f)' <=> Live(f)) /\ (Gone(f)' <=> Gone(f))
    BY <2>1 DEF Live, Gone, Kept, Held, Seen, Single, Active
  <2>6. Flashes'
    BY <2>1, <2>5 DEF State, Flashes
  <2> QED
    BY <2>2, <2>3, <2>4, <2>6 DEF State
<1> QED
  BY <1>1, <1>2

\* It holds at first.
LEMMA InitInv == Init => Inv
<1> SUFFICES ASSUME Init PROVE Inv
  OBVIOUS
<1>1. \A r \in Slots : req[r] = Idle /\ ~Active(r)
  BY IdleSound DEF Init, Active
<1>2. \A i \in Ids : rows[i] = NoRow
  BY DEF Init
<1>3. cookie = 0 /\ flashes = 0 /\ wanted = Nowhere /\ 0 \in 0..MaxIds /\ 0 \in 0..MaxFlashes
  BY RequestParameters DEF Init
<1>4. fate \in [1..MaxFlashes -> Fates] /\ \A f \in 1..MaxFlashes : fate[f] = "unset"
  BY DEF Init, Fates
<1>5. rows \in [Ids -> Session] /\ req \in [Slots -> Request]
  BY IdleSound, NewRowType DEF Init
<1>6. Types
  BY <1>3, <1>4, <1>5 DEF Types
<1>7. \A r \in Slots : Sound(req[r])
  BY <1>1, IdleSound
<1>8. Bounded
  BY <1>1, <1>2, <1>3, IdleSound, NewRowType DEF Bounded
<1>9. Bounces
  BY <1>1, <1>3, IdleSound DEF Bounces, Single, ReturnTo, Known
<1>10. Flashes
  BY <1>1, <1>3, <1>4 DEF Flashes, Gone, Kept, Held, Seen
<1>11. LastOK
  <2>1. last.status = 0 /\ last.reports = 0 /\ ~last.byOther /\ last.due = Nowhere
    BY IdleSound DEF Init, Outcome
  <2> QED
    BY <2>1 DEF LastOK, FailuresHeardOnce, BouncedReturns
<1> QED
  BY <1>6, <1>7, <1>8, <1>9, <1>10, <1>11 DEF Inv, State

\* The invariant holds throughout, of every handler chain of web/router.go and
\* every interleaving of its requests.
THEOREM Invariant == Spec => []Inv
<1>1. Init => Inv
  BY InitInv
<1>2. Inv /\ [Next]_vars => Inv'
  BY Step DEF Inv
<1> QED
  BY <1>1, <1>2, PTL DEF Spec

\* The variables have their types, and no flash or token is out of range.
THEOREM TypeCorrect == Spec => []TypeOK
<1>1. ASSUME Inv PROVE TypeOK
  <2>1. \A i \in Ids : rows[i].flash \in 0..flashes
    BY <1>1, RequestParameters DEF Inv, State, Types, Bounded, Session
  <2>2. cookie \in 0..MaxIds /\ flashes \in 0..MaxFlashes /\ wanted \in Uris \cup {Nowhere, AnyPage}
    BY <1>1 DEF Inv, State, Types
  <2>3. \A r \in Slots : /\ req[r].at \in Places /\ req[r].id \in 0..MaxIds /\ req[r].data.flash \in Nat
                         /\ req[r].data.flash <= flashes
    BY <1>1 DEF Inv, State, Types, Bounded, Request, Session
  <2> QED
    BY <2>1, <2>2, <2>3 DEF TypeOK, Places
<1> QED
  BY Invariant, <1>1, PTL

\* Every 5xx of errorHandler (web/errors.go) is reported once, from whichever of
\* its two callers, and nothing else is.
THEOREM HeardOnce == Spec => []FailuresHeardOnce
<1>1. Inv => FailuresHeardOnce
  BY DEF Inv, LastOK
<1> QED
  BY Invariant, <1>1, PTL

\* The same-origin gate (web/secure.go) refuses the posts of other hosts' pages
\* in every deployment, those of our host under another scheme wherever it can be
\* told, and there no post of ours, and never one of the Inngest server.
THEOREM GateMatches == Spec => []GateMatchesOrigin
<1>1. Inv => GateMatchesOrigin
  BY DEF Inv, State, Sound, Judged, GateMatchesOrigin
<1> QED
  BY Invariant, <1>1, PTL

\* A flash (web/flash.go) is on one page at most, and not lost before, unless
\* requests overlapped, it was replaced, or its session or its page failed.
THEOREM ShownOnce == Spec => []FlashShownOnce
<1>1. ASSUME Inv PROVE FlashShownOnce
  <2>1. DOMAIN fate = 1..MaxFlashes
    BY <1>1 DEF Inv, State, Types
  <2> QED
    BY <1>1, <2>1 DEF Inv, State, Flashes, FlashShownOnce, Live, Kept, Held, Seen
<1> QED
  BY Invariant, <1>1, PTL

\* A sign-in (web/auth.go) returns the browser to the page it was last sent
\* away from, or to "/", unless requests overlapped since.
THEOREM Bounced == Spec => []BouncedReturns
<1>1. Inv => BouncedReturns
  BY DEF Inv, LastOK
<1> QED
  BY Invariant, <1>1, PTL
=============================================================================
