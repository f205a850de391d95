-------------------------------- MODULE WebApp --------------------------------
(***************************************************************************)
(* The web front end: src/m365_review/web/app.py (the handlers), sessions.py *)
(* (the in-memory session store) and the EventSource script of running.html.*)
(* One browser with several tabs shares one cookie; one asyncio process     *)
(* serves it.  Every handler is one action, cut where it waits: a stream    *)
(* captures its session when it is requested (OpenStream), looks at it when *)
(* its generator first runs (BeginStream), and its task reads the token     *)
(* when it is first scheduled (StartAudit).                                 *)
(*                                                                         *)
(* Left out: what the audit fetches and computes, display names, formats,   *)
(* the saved profiles (login's upsert, the run's touch) and the index, help *)
(* and download pages, none of which changes a session.                     *)
(***************************************************************************)
EXTENDS Naturals, Sequences

CONSTANTS Sids,         \* session ids that secrets.token_urlsafe can draw
          Tenants,      \* Microsoft tenants the operator can sign in to
          Tabs,         \* tabs of the operator's one browser
          Runs,         \* progress streams that may be asked for (a bound)
          Steps,        \* progress reports of one audit
          MaxRestarts,  \* restarts of the process (a bound)
          NoSid, NoTenant, NoRun   \* Python's None, for each kind of value

ASSUME NoneAssumption == /\ NoSid \notin Sids
                         /\ NoTenant \notin Tenants
                         /\ NoRun \notin Runs
ASSUME BoundAssumption == Steps \in Nat /\ MaxRestarts \in Nat

VARIABLES
  \* The server's memory.
  store,      \* sids in SessionStore._sessions
  auth_flow,  \* auth_flow[s]: session s keeps an unused MSAL flow
  tenant,     \* tenant[s]: tenant whose token session s holds, or NoTenant
  reports,    \* reports[s]: the run whose report files session s offers
  \* The audit tasks, one for every stream that was asked for.
  stage,      \* stage[r]: how far the stream and its audit have come
  owner,      \* owner[r]: the session the stream captured
  steps,      \* steps[r]: progress reports made
  events,     \* events[r]: events on their way to the page
  \* The browser.
  cookie,     \* the session the m365_sid cookie names
  login,      \* login[t]: session whose Microsoft page tab t has been to
  page,       \* page[t]: what tab t shows
  shown,      \* what the confirm pages said that the browser has shown
  \* What has happened so far.
  created,    \* sids drawn so far
  audited,    \* audited[r]: tenant run r has fetched with
  approved,   \* approved[r]: what the confirm page that led to run r said
  restarts    \* restarts of the process so far

session == <<store, auth_flow, tenant, reports, created>>
browser == <<cookie, login, page, shown>>
run     == <<stage, owner, steps, events, audited, approved>>
vars    == <<session, browser, run, restarts>>

Stages == {"none", "asked", "opened", "started", "fetching",
           "done", "failed", "refused", "gone"}
Ended  == {"done", "failed", "refused", "gone"}
Events == {"progress", "done", "error"}
\* "other": a page about no audit, such as the index, Microsoft's page, an error
\* message, or a redirect on its way.
Views  == {"other", "confirm", "running", "finished", "results"}
\* What a confirm page says: the tenant, and whose token it is for.
Approvals == [sid : Sids, tenant : Tenants]
NoApproval == [sid |-> NoSid, tenant |-> NoTenant]
Pages == [at : Views, approval : Approvals \cup {NoApproval}, run : Runs \cup {NoRun}]

TypeOK ==
  /\ store \subseteq Sids /\ created \subseteq Sids
  /\ auth_flow \in [Sids -> BOOLEAN]
  /\ tenant \in [Sids -> Tenants \cup {NoTenant}]
  /\ reports \in [Sids -> Runs \cup {NoRun}]
  /\ stage \in [Runs -> Stages]
  /\ owner \in [Runs -> Sids \cup {NoSid}]
  /\ steps \in [Runs -> 0 .. Steps]
  /\ events \in [Runs -> Seq(Events)]
  /\ audited \in [Runs -> Tenants \cup {NoTenant}]
  /\ approved \in [Runs -> Approvals \cup {NoApproval}]
  /\ cookie \in Sids \cup {NoSid}
  /\ login \in [Tabs -> Sids \cup {NoSid}]
  /\ page \in [Tabs -> Pages]
  /\ shown \subseteq Approvals
  /\ restarts \in 0 .. MaxRestarts

Plain(at) == [at |-> at, approval |-> NoApproval, run |-> NoRun]

Init ==
  /\ store = {} /\ created = {}
  /\ auth_flow = [s \in Sids |-> FALSE]
  /\ tenant = [s \in Sids |-> NoTenant]
  /\ reports = [s \in Sids |-> NoRun]
  /\ stage = [r \in Runs |-> "none"]
  /\ owner = [r \in Runs |-> NoSid]
  /\ steps = [r \in Runs |-> 0]
  /\ events = [r \in Runs |-> <<>>]
  /\ audited = [r \in Runs |-> NoTenant]
  /\ approved = [r \in Runs |-> NoApproval]
  /\ cookie = NoSid
  /\ login = [t \in Tabs |-> NoSid]
  /\ page = [t \in Tabs |-> Plain("other")]
  /\ shown = {}
  /\ restarts = 0

-----------------------------------------------------------------------------
(* The session store *)

\* get_by_cookie: a cookie that names no live session finds None.
GetByCookie == IF cookie \in store THEN cookie ELSE NoSid

SignedIn(s) == s # NoSid /\ tenant[s] # NoTenant

\* clear_sensitive, on the sessions of S.
ClearSensitive(S) ==
  /\ auth_flow' = [s \in Sids |-> s \notin S /\ auth_flow[s]]
  /\ tenant' = [s \in Sids |-> IF s \in S THEN NoTenant ELSE tenant[s]]

\* Mutant: the store forgets the session without wiping it.
DestroyUnwiped(S) == store' = store \ S /\ UNCHANGED <<auth_flow, tenant>>

\* destroy: the session object is wiped before it is forgotten, since a
\* stream may still hold it.
Destroy(S) == ClearSensitive(S) /\ store' = store \ S

Show(t, p) == page' = [page EXCEPT ![t] = p]

-----------------------------------------------------------------------------
(* Signing in *)

\* GET /auth/login with an unknown profile, or with a name upsert rejects.
LoginRefused(t) == /\ Show(t, Plain("other"))
                   /\ UNCHANGED <<session, run, cookie, login, shown, restarts>>

\* Mutant: a login may take over a session that already exists.
LoginReusesSession(t, s) ==
  /\ created' = created \cup {s}
  /\ store' = store \cup {s}
  /\ auth_flow' = [auth_flow EXCEPT ![s] = TRUE]
  /\ cookie' = s
  /\ login' = [login EXCEPT ![t] = s]
  /\ Show(t, Plain("other"))
  /\ UNCHANGED <<tenant, reports, run, shown, restarts>>

\* GET /auth/login: a new session waits for Microsoft's answer.  The old
\* session of the browser stays in the store; the cookie forgets it.
Login(t, s) ==
  /\ s \notin created
  /\ created' = created \cup {s}
  /\ store' = store \cup {s}
  /\ auth_flow' = [auth_flow EXCEPT ![s] = TRUE]
  /\ cookie' = s
  /\ login' = [login EXCEPT ![t] = s]
  /\ Show(t, Plain("other"))
  /\ UNCHANGED <<tenant, reports, run, shown, restarts>>

\* GET /auth/login when begin_web_auth raises: an AuthError destroys the new
\* session, any other exception leaves it in the store, empty and unnamed.
LoginFails(t, s) ==
  /\ s \notin created
  /\ created' = created \cup {s}
  /\ store' \in {store, store \cup {s}}
  /\ Show(t, Plain("other"))
  /\ UNCHANGED <<auth_flow, tenant, reports, run, cookie, login, shown, restarts>>

\* GET /auth/callback with no session or flow left, with an "error" answer,
\* with the answer of another login (MSAL's state check) or with a code that
\* cannot be exchanged.  The flow, if there is one, is kept.
CallbackRefused(t) ==
  /\ login[t] # NoSid
  /\ Show(t, Plain("other"))
  /\ UNCHANGED <<session, run, cookie, login, shown, restarts>>

\* Mutant: the flow is not dropped after its use.
CallbackKeepsFlow(t, x) ==
  LET s == GetByCookie IN
  /\ s # NoSid /\ auth_flow[s]
  /\ login[t] = s
  /\ tenant' = [tenant EXCEPT ![s] = x]
  /\ Show(t, Plain("other"))
  /\ UNCHANGED <<store, auth_flow, reports, created, run, cookie, login, shown, restarts>>

\* GET /auth/callback, from the Microsoft page of the login the cookie names:
\* the code is exchanged for the token of tenant x.  The page may be older,
\* reached by Back or a reload.
CallbackAccepted(t, x) ==
  LET s == GetByCookie IN
  /\ s # NoSid /\ auth_flow[s]
  /\ login[t] = s
  /\ tenant' = [tenant EXCEPT ![s] = x]
  /\ auth_flow' = [auth_flow EXCEPT ![s] = FALSE]
  /\ Show(t, Plain("other"))
  /\ UNCHANGED <<store, reports, created, run, cookie, login, shown, restarts>>

ConfirmPage(approval) == [Plain("confirm") EXCEPT !.approval = approval]

\* GET /confirm: the page names the tenant of the cookie's session.
Confirm(t) ==
  LET s == GetByCookie
      approval == [sid |-> s, tenant |-> tenant[s]]
  IN
  /\ SignedIn(s)
  /\ Show(t, ConfirmPage(approval))
  /\ shown' = shown \cup {approval}
  /\ UNCHANGED <<session, run, cookie, login, restarts>>

\* GET /confirm without a signed-in session.
ConfirmRefused(t) ==
  /\ ~SignedIn(GetByCookie)
  /\ Show(t, Plain("other"))
  /\ UNCHANGED <<session, run, cookie, login, shown, restarts>>

\* The browser shows a confirm page again, by Back or in a duplicate of its
\* tab: what it says is as old as the page.
Back(t) ==
  /\ \E approval \in shown : Show(t, ConfirmPage(approval))
  /\ UNCHANGED <<session, run, cookie, login, shown, restarts>>

-----------------------------------------------------------------------------
(* Running an audit *)

\* POST /run, from a confirm page of whatever age or by reloading the progress
\* page: what the page says is not looked at.  The progress page is served and
\* will open its own stream, r.
Proceed(t, r) ==
  /\ page[t].at \in {"confirm", "running"}
  /\ stage[r] = "none"
  /\ SignedIn(GetByCookie)
  /\ stage' = [stage EXCEPT ![r] = "asked"]
  /\ Show(t, [page[t] EXCEPT !.at = "running", !.run = r])
  /\ UNCHANGED <<session, owner, steps, events, audited, approved,
                 cookie, login, shown, restarts>>

\* POST /run without a signed-in session.
ProceedRefused(t) ==
  /\ page[t].at \in {"confirm", "running"}
  /\ ~SignedIn(GetByCookie)
  /\ Show(t, Plain("other"))
  /\ UNCHANGED <<session, run, cookie, login, shown, restarts>>

\* GET /run/stream: the handler captures the session the cookie names now.
OpenStream(t) ==
  LET r == page[t].run IN
  /\ page[t].at = "running"
  /\ stage[r] = "asked"
  /\ stage' = [stage EXCEPT ![r] = "opened"]
  /\ owner' = [owner EXCEPT ![r] = GetByCookie]
  /\ approved' = [approved EXCEPT ![r] = page[t].approval]
  /\ UNCHANGED <<session, steps, events, audited, browser, restarts>>

\* The generator's first step checks the captured session, and creates the
\* audit task or says that the session has expired.
BeginStream(r) ==
  /\ stage[r] = "opened"
  /\ IF SignedIn(owner[r])
     THEN stage' = [stage EXCEPT ![r] = "started"] /\ UNCHANGED events
     ELSE /\ stage' = [stage EXCEPT ![r] = "refused"]
          /\ events' = [events EXCEPT ![r] = Append(@, "error")]
  /\ UNCHANGED <<session, owner, steps, audited, approved, browser, restarts>>

\* The browser went away before the generator's first step.
AbandonStream(r) ==
  /\ stage[r] = "opened"
  /\ \A t \in Tabs : page[t].run # r
  /\ stage' = [stage EXCEPT ![r] = "gone"]
  /\ UNCHANGED <<session, owner, steps, events, audited, approved, browser,
                 restarts>>

\* The task's first step reads session.tenant again, unchecked.
StartAudit(r) ==
  /\ stage[r] = "started"
  /\ tenant[owner[r]] # NoTenant
  /\ stage' = [stage EXCEPT ![r] = "fetching"]
  /\ audited' = [audited EXCEPT ![r] = tenant[owner[r]]]
  /\ UNCHANGED <<session, owner, steps, events, approved, browser, restarts>>

\* Mutant: one progress report too many.
FetchStepOnceMore(r) ==
  /\ stage[r] = "fetching"
  /\ steps[r] <= Steps
  /\ steps' = [steps EXCEPT ![r] = @ + 1]
  /\ events' = [events EXCEPT ![r] = Append(@, "progress")]
  /\ UNCHANGED <<session, stage, owner, audited, approved, browser, restarts>>

\* Graph answers, and the audit reports progress.
FetchStep(r) ==
  /\ stage[r] = "fetching"
  /\ steps[r] < Steps
  /\ steps' = [steps EXCEPT ![r] = @ + 1]
  /\ events' = [events EXCEPT ![r] = Append(@, "progress")]
  /\ UNCHANGED <<session, stage, owner, audited, approved, browser, restarts>>

\* Mutant: the token is not dropped after the run.
FinishAuditKeepsToken(r) ==
  /\ stage[r] = "fetching"
  /\ steps[r] = Steps
  /\ reports' = [reports EXCEPT ![owner[r]] = r]
  /\ stage' = [stage EXCEPT ![r] = "done"]
  /\ events' = [events EXCEPT ![r] = Append(@, "done")]
  /\ UNCHANGED <<store, auth_flow, tenant, created, owner, steps, audited,
                 approved, browser, restarts>>

\* After the last answer nothing waits any more: the reports are written and
\* registered, the token is dropped and the end is announced in one step.
FinishAudit(r) ==
  /\ stage[r] = "fetching"
  /\ steps[r] = Steps
  /\ reports' = [reports EXCEPT ![owner[r]] = r]
  /\ ClearSensitive({owner[r]})
  /\ stage' = [stage EXCEPT ![r] = "done"]
  /\ events' = [events EXCEPT ![r] = Append(@, "done")]
  /\ UNCHANGED <<store, created, owner, steps, audited, approved, browser,
                 restarts>>

\* Mutant: "done" is put on the queue in every case.
FailAuditSaysDone(r) ==
  /\ \/ stage[r] = "started" /\ tenant[owner[r]] = NoTenant
     \/ stage[r] = "fetching"
  /\ stage' = [stage EXCEPT ![r] = "failed"]
  /\ events' = [events EXCEPT ![r] = Append(@, "done")]
  /\ UNCHANGED <<session, owner, steps, audited, approved, browser, restarts>>

\* Mutant: the exception is logged and nothing is put on the queue.
FailAuditSilent(r) ==
  /\ \/ stage[r] = "started" /\ tenant[owner[r]] = NoTenant
     \/ stage[r] = "fetching"
  /\ stage' = [stage EXCEPT ![r] = "failed"]
  /\ UNCHANGED <<session, owner, steps, events, audited, approved, browser,
                 restarts>>

\* Mutant: a token that is gone when the task starts is not noticed.
FailAuditOnlyWhileFetching(r) ==
  /\ stage[r] = "fetching"
  /\ stage' = [stage EXCEPT ![r] = "failed"]
  /\ events' = [events EXCEPT ![r] = Append(@, "error")]
  /\ UNCHANGED <<session, owner, steps, audited, approved, browser, restarts>>

\* Any exception of run_audit, or no token left to start it with: the error
\* is announced and nothing else is done.
FailAudit(r) ==
  /\ \/ stage[r] = "started" /\ tenant[owner[r]] = NoTenant
     \/ stage[r] = "fetching"
  /\ stage' = [stage EXCEPT ![r] = "failed"]
  /\ events' = [events EXCEPT ![r] = Append(@, "error")]
  /\ UNCHANGED <<session, owner, steps, audited, approved, browser, restarts>>

\* running.html receives the next event of its stream.
Deliver(t) ==
  LET r == page[t].run IN
  /\ page[t].at = "running" /\ stage[r] # "asked" /\ events[r] # <<>>
  /\ events' = [events EXCEPT ![r] = Tail(@)]
  /\ page' = CASE Head(events[r]) = "progress" -> page
               [] Head(events[r]) = "done" -> [page EXCEPT ![t].at = "finished"]
               [] Head(events[r]) = "error" -> [page EXCEPT ![t] = Plain("other")]
  /\ UNCHANGED <<session, stage, owner, steps, audited, approved, cookie,
                 login, shown, restarts>>

\* The connection of the stream breaks: the script shows its error banner and
\* does not connect again.  The audit task goes on.
ConnectionLost(t) ==
  /\ page[t].at = "running" /\ stage[page[t].run] # "asked"
  /\ Show(t, Plain("other"))
  /\ UNCHANGED <<session, run, cookie, login, shown, restarts>>

\* GET /results, by the redirect or on its own.
Results(t) ==
  LET s == GetByCookie IN
  /\ Show(t, IF s # NoSid /\ reports[s] # NoRun
             THEN [Plain("results") EXCEPT !.run = reports[s]]
             ELSE Plain("other"))
  /\ UNCHANGED <<session, run, cookie, login, shown, restarts>>

-----------------------------------------------------------------------------
(* Ending a session *)

\* The tab goes elsewhere.  A stream it was reading is cancelled; the audit
\* task goes on.
Leave(t) == /\ Show(t, Plain("other"))
            /\ UNCHANGED <<session, run, cookie, login, shown, restarts>>

\* GET /logout
Logout(t) == /\ Destroy({GetByCookie})
             /\ cookie' = NoSid
             /\ Show(t, Plain("other"))
             /\ UNCHANGED <<reports, created, run, login, shown, restarts>>

\* The cookie lives for an hour; nothing on the server expires with it.
CookieExpires == /\ cookie' = NoSid
                 /\ UNCHANGED <<session, run, login, page, shown, restarts>>

\* The process dies and comes back: sessions, streams and tasks are lost, and
\* every page that follows a stream loses its connection.
Restart ==
  /\ restarts < MaxRestarts
  /\ restarts' = restarts + 1
  /\ store' = {}
  /\ ClearSensitive(Sids)
  /\ reports' = [s \in Sids |-> NoRun]
  /\ events' = [r \in Runs |-> <<>>]
  /\ stage' = [r \in Runs |-> IF stage[r] \in {"opened", "started", "fetching"}
                              THEN "gone" ELSE stage[r]]
  /\ page' = [t \in Tabs |-> IF /\ page[t].at = "running"
                                /\ stage[page[t].run] # "asked"
                             THEN Plain("other") ELSE page[t]]
  /\ UNCHANGED <<created, owner, steps, audited, approved, cookie, login, shown>>

-----------------------------------------------------------------------------
ServerStep(r) == \/ BeginStream(r) \/ StartAudit(r) \/ FetchStep(r)
                 \/ FinishAudit(r) \/ FailAudit(r)

ScriptStep(t) == OpenStream(t) \/ Deliver(t)

UserStep(t) ==
  \/ LoginRefused(t)
  \/ \E s \in Sids : Login(t, s) \/ LoginFails(t, s)
  \/ CallbackRefused(t)
  \/ \E x \in Tenants : CallbackAccepted(t, x)
  \/ Confirm(t) \/ ConfirmRefused(t) \/ Back(t)
  \/ \E r \in Runs : Proceed(t, r)
  \/ ProceedRefused(t)
  \/ Results(t)
  \/ ConnectionLost(t)
  \/ Leave(t)
  \/ Logout(t)

Next == \/ \E t \in Tabs : UserStep(t) \/ ScriptStep(t)
        \/ \E r \in Runs : ServerStep(r) \/ AbandonStream(r)
        \/ CookieExpires
        \/ Restart

Spec == Init /\ [][Next]_vars

\* The event loop runs every task that can go on, Graph answers or times out,
\* and the page's script follows its stream.  The operator owes nothing.
Fairness == /\ \A r \in Runs : WF_vars(ServerStep(r))
            /\ \A t \in Tabs : WF_vars(ScriptStep(t))

FairSpec == Spec /\ Fairness

-----------------------------------------------------------------------------
(* Properties *)

\* sessions.py's docstring: "the tool audits ONE tenant per session".  Two
\* audits of one session, in whatever tabs and order they ran, fetched from
\* the same tenant, and the session holds no other tenant's token.
OneTenantPerSession ==
  \A r \in Runs : audited[r] # NoTenant =>
    /\ tenant[owner[r]] \in {NoTenant, audited[r]}
    /\ \A q \in Runs : (owner[q] = owner[r] /\ audited[q] # NoTenant)
                          => audited[q] = audited[r]

\* A session that offers report files holds no token and no flow to get one
\* with, and the files are those of a finished audit of that very session:
\* what clear_sensitive after the run (app.py) is for, also when several
\* streams of the session overlap.
ReportMeansNoToken ==
  \A s \in Sids : reports[s] # NoRun =>
    /\ tenant[s] = NoTenant /\ ~auth_flow[s]
    /\ stage[reports[s]] = "done" /\ owner[reports[s]] = s

\* A session the store has forgotten holds no token, although a stream may
\* still hold the session: destroy wipes it first.
ForgottenMeansNoToken ==
  \A s \in Sids \ store : tenant[s] = NoTenant /\ ~auth_flow[s]

\* A page that says the audit is finished, or shows results, is about an audit
\* that did finish, whatever was lost, left or restarted on the way; and only
\* the last event of a stream ends it.
PageTellsTruth ==
  /\ \A t \in Tabs : page[t].at \in {"finished", "results"} =>
       page[t].run \in Runs /\ stage[page[t].run] = "done"
  /\ \A r \in Runs : \A i \in 1 .. Len(events[r]) :
       events[r][i] # "progress" => i = Len(events[r]) /\ stage[r] \in Ended

\* docs/ARCHITECTURE.md: "the operator visually verifies the correct tenant
\* before any audit runs".  An audit runs on the tenant that the confirm page
\* it was started from showed.
AuditsApprovedTenant ==
  \A r \in Runs : audited[r] # NoTenant => audited[r] = approved[r].tenant

\* What does hold of it: the cookie is the only thing that can come between the
\* confirm page and the audit.  However old the page is, and whatever tabs,
\* reloads, second callbacks and logouts came after it, an audit on the session
\* the page was for runs on the tenant the page showed.
ApprovedUnlessCookieMoved ==
  \A r \in Runs : (audited[r] # NoTenant /\ owner[r] = approved[r].sid)
                     => audited[r] = approved[r].tenant

\* README.md: the tool "drops the token as soon as the audit finishes".
TokenDroppedAfterAudit ==
  \A r \in Runs : stage[r] \in {"done", "failed"} => tenant[owner[r]] = NoTenant

\* Every stream that was opened comes to an end.
EveryStreamEnds ==
  \A r \in Runs : (stage[r] \in {"opened", "started", "fetching"})
                    ~> (stage[r] \in Ended)

\* A progress page does not wait forever: it is told of the end, or it is left.
ProgressPageEnds ==
  \A t \in Tabs : (page[t].at = "running") ~> (page[t].at # "running")

\* The life of a session as SessionLife promises it.
Phase == [s \in Sids |-> IF s \notin created THEN "unused"
                         ELSE IF auth_flow[s] THEN "pending"
                         ELSE IF tenant[s] # NoTenant THEN "signedIn"
                         ELSE "over"]
Served == [s \in Sids |-> {audited[r] : r \in {q \in Runs :
                             owner[q] = s /\ audited[q] # NoTenant}}]

Life == INSTANCE SessionLife WITH phase <- Phase, who <- tenant,
                                  served <- Served

\* The handlers implement SessionLife: one sign-in per session, audits only
\* while it is signed in, nothing after it is over.
ImplementsSessionLife == Life!Spec

-----------------------------------------------------------------------------
(* The inductive invariant behind the safety properties *)

\* What the session store keeps true.
SessionInv ==
  /\ store \subseteq created
  /\ cookie \in created \cup {NoSid}
  /\ \A s \in Sids : auth_flow[s] => s \in store /\ tenant[s] = NoTenant
  /\ \A s \in Sids : tenant[s] # NoTenant => s \in store

\* What a stream has, stage by stage.
RunInv ==
  \A r \in Runs :
    /\ owner[r] \in created \cup {NoSid}
    /\ stage[r] \in {"started", "fetching", "done", "failed"} => owner[r] # NoSid
    /\ stage[r] \in {"none", "asked", "opened", "started", "refused"}
         => audited[r] = NoTenant
    /\ stage[r] = "fetching" => audited[r] # NoTenant
    /\ audited[r] # NoTenant => owner[r] # NoSid /\ ~auth_flow[owner[r]]

\* A terminal event comes last and only after the stage it announces.
EventInv ==
  \A r \in Runs : \A i \in 1 .. Len(events[r]) :
    /\ events[r][i] = "done" => stage[r] = "done"
    /\ events[r][i] # "progress" => i = Len(events[r]) /\ stage[r] \in Ended

PageInv == \A t \in Tabs : page[t].at \in {"running", "finished", "results"}
                             => page[t].run \in Runs

IInv == /\ TypeOK
        /\ SessionInv
        /\ RunInv
        /\ EventInv
        /\ PageInv
        /\ OneTenantPerSession
        /\ ReportMeansNoToken
        /\ PageTellsTruth
=============================================================================
