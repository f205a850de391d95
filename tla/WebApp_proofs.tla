---------------------------- MODULE WebApp_proofs ----------------------------
(***************************************************************************)
(* Theorems about WebApp, for every number of sessions, tenants, tabs,     *)
(* streams, progress reports and restarts.                                 *)
(***************************************************************************)
EXTENDS WebApp, TLAPS

\* Every handler keeps the types.  RunInv and PageInv are needed where a
\* handler goes through a stream to a session, or through a page to a stream.
LEMMA TypeNext == TypeOK /\ RunInv /\ PageInv /\ [Next]_vars => TypeOK'
<1> SUFFICES ASSUME TypeOK, RunInv, PageInv, [Next]_vars PROVE TypeOK'
  OBVIOUS
<1> USE DEF TypeOK
<1>0. /\ \A at \in Views : Plain(at) \in Pages
      /\ \A t \in Tabs : page[t] \in Pages
  BY DEF Plain, Pages, NoApproval
<1>1. ASSUME NEW t \in Tabs, LoginRefused(t) PROVE TypeOK'
  BY <1>1, <1>0 DEF LoginRefused, Show, session, run, Views
<1>2. ASSUME NEW t \in Tabs, NEW s \in Sids, Login(t, s) PROVE TypeOK'
  BY <1>2, <1>0 DEF Login, Show, run, Views
<1>3. ASSUME NEW t \in Tabs, NEW s \in Sids, LoginFails(t, s) PROVE TypeOK'
  BY <1>3, <1>0 DEF LoginFails, Show, run, Views
<1>4. ASSUME NEW t \in Tabs, CallbackRefused(t) PROVE TypeOK'
  BY <1>4, <1>0 DEF CallbackRefused, Show, session, run, Views
<1>5. ASSUME NEW t \in Tabs, NEW x \in Tenants, CallbackAccepted(t, x) PROVE TypeOK'
  BY <1>5, <1>0 DEF CallbackAccepted, GetByCookie, Show, run, Views
<1>6. ASSUME NEW t \in Tabs, Confirm(t) PROVE TypeOK'
  <2> DEFINE a == [sid |-> GetByCookie, tenant |-> tenant[GetByCookie]]
  <2>1. a \in Approvals
    BY <1>6 DEF Confirm, GetByCookie, SignedIn, Approvals
  <2>2. ConfirmPage(a) \in Pages
    BY <2>1 DEF ConfirmPage, Plain, Pages, Views
  <2> QED
    BY <1>6, <2>1, <2>2 DEF Confirm, Show, session, run
<1>24. ASSUME NEW t \in Tabs, ConfirmRefused(t) PROVE TypeOK'
  BY <1>24, <1>0 DEF ConfirmRefused, Show, session, run, Views
<1>25. ASSUME NEW t \in Tabs, Back(t) PROVE TypeOK'
  <2>1. \A a \in shown : ConfirmPage(a) \in Pages
    BY DEF ConfirmPage, Plain, Pages, Views
  <2> QED
    BY <1>25, <2>1 DEF Back, Show, session, run
<1>7. ASSUME NEW t \in Tabs, NEW r \in Runs, Proceed(t, r) PROVE TypeOK'
  BY <1>7, <1>0 DEF Proceed, Show, session, Views, Pages, Stages
<1>8. ASSUME NEW t \in Tabs, ProceedRefused(t) PROVE TypeOK'
  BY <1>8, <1>0 DEF ProceedRefused, Show, session, run, Views
<1>9. ASSUME NEW t \in Tabs, OpenStream(t) PROVE TypeOK'
  BY <1>9, <1>0 DEF OpenStream, GetByCookie, session, browser, Pages, Stages
<1>10. ASSUME NEW r \in Runs, BeginStream(r) PROVE TypeOK'
  <2>1. CASE SignedIn(owner[r])
    BY <1>10, <2>1 DEF BeginStream, session, browser, Stages
  <2>2. CASE ~SignedIn(owner[r])
    <3>1. Append(events[r], "error") \in Seq(Events)
      BY DEF Events
    <3> QED
      BY <1>10, <2>2, <3>1 DEF BeginStream, session, browser, Stages
  <2> QED
    BY <2>1, <2>2
<1>11. ASSUME NEW r \in Runs, AbandonStream(r) PROVE TypeOK'
  BY <1>11 DEF AbandonStream, session, browser, Stages
<1>12. ASSUME NEW r \in Runs, StartAudit(r) PROVE TypeOK'
  <2>1. tenant[owner[r]] \in Tenants
    BY <1>12 DEF StartAudit, RunInv
  <2> QED
    BY <1>12, <2>1 DEF StartAudit, session, browser, Stages
<1>13. ASSUME NEW r \in Runs, FetchStep(r) PROVE TypeOK'
  BY <1>13, BoundAssumption DEF FetchStep, session, browser, Events
<1>14. ASSUME NEW r \in Runs, FinishAudit(r) PROVE TypeOK'
  <2>1. auth_flow' \in [Sids -> BOOLEAN] /\ tenant' \in [Sids -> Tenants \cup {NoTenant}]
    BY <1>14 DEF FinishAudit, ClearSensitive
  <2>2. Append(events[r], "done") \in Seq(Events)
    BY DEF Events
  <2>3. reports' \in [Sids -> Runs \cup {NoRun}]
    BY <1>14 DEF FinishAudit
  <2> QED
    BY <1>14, <2>1, <2>2, <2>3 DEF FinishAudit, browser, Stages
<1>15. ASSUME NEW r \in Runs, FailAudit(r) PROVE TypeOK'
  BY <1>15 DEF FailAudit, session, browser, Stages, Events
<1>16. ASSUME NEW t \in Tabs, Deliver(t) PROVE TypeOK'
  <2> DEFINE r == page[t].run
  <2>1. r \in Runs /\ events[r] # <<>> /\ events[r] \in Seq(Events)
    BY <1>16 DEF Deliver, PageInv
  <2>2. Head(events[r]) \in Events /\ Tail(events[r]) \in Seq(Events)
    BY <2>1
  <2>3. events' \in [Runs -> Seq(Events)]
    BY <1>16, <2>1, <2>2 DEF Deliver
  <2>4. page' \in [Tabs -> Pages]
    BY <1>16, <1>0, <2>2 DEF Deliver, Events, Views, Pages
  <2> QED
    BY <1>16, <2>3, <2>4 DEF Deliver, session
<1>17. ASSUME NEW t \in Tabs, ConnectionLost(t) PROVE TypeOK'
  BY <1>17, <1>0 DEF ConnectionLost, Show, session, run, Views
<1>18. ASSUME NEW t \in Tabs, Results(t) PROVE TypeOK'
  BY <1>18, <1>0 DEF Results, GetByCookie, Show, session, run, Views, Plain, Pages
<1>19. ASSUME NEW t \in Tabs, Leave(t) PROVE TypeOK'
  BY <1>19, <1>0 DEF Leave, Show, session, run, Views
<1>20. ASSUME NEW t \in Tabs, Logout(t) PROVE TypeOK'
  BY <1>20, <1>0 DEF Logout, Destroy, ClearSensitive, Show, run, Views
<1>21. CASE CookieExpires
  BY <1>21 DEF CookieExpires, session, run
<1>22. CASE Restart
  BY <1>22, <1>0, BoundAssumption DEF Restart, ClearSensitive, Stages, Views
<1>23. CASE UNCHANGED vars
  BY <1>23 DEF vars, session, browser, run
<1> QED
  BY <1>1, <1>2, <1>3, <1>4, <1>5, <1>6, <1>7, <1>8, <1>9, <1>10, <1>11, <1>12,
     <1>13, <1>14, <1>15, <1>16, <1>17, <1>18, <1>19, <1>20, <1>21, <1>22, <1>23,
     <1>24, <1>25
     DEF Next, UserStep, ScriptStep, ServerStep

-----------------------------------------------------------------------------
(* Which actions touch what: every other step leaves it alone. *)

\* Only these handlers change a session or the cookie.
LEMMA SessionFrame ==
  ASSUME [Next]_vars
  PROVE  \/ \E t \in Tabs, s \in Sids : Login(t, s) \/ LoginFails(t, s)
         \/ \E t \in Tabs, x \in Tenants : CallbackAccepted(t, x)
         \/ \E r \in Runs : FinishAudit(r)
         \/ \E t \in Tabs : Logout(t)
         \/ CookieExpires
         \/ Restart
         \/ UNCHANGED <<session, cookie>>
  BY DEF Next, UserStep, ScriptStep, ServerStep, vars, browser, LoginRefused,
     CallbackRefused, Confirm, Proceed, ProceedRefused, OpenStream, BeginStream,
     AbandonStream, StartAudit, FetchStep, FailAudit, Deliver, ConnectionLost,
     Results, Leave, ConfirmRefused, Back

\* Only these steps change a stream; an event is taken from the front of its
\* queue without touching the rest.
LEMMA RunFrame ==
  ASSUME [Next]_vars
  PROVE  \/ \E t \in Tabs, r \in Runs : Proceed(t, r)
         \/ \E t \in Tabs : OpenStream(t) \/ Deliver(t)
         \/ \E r \in Runs : ServerStep(r) \/ AbandonStream(r)
         \/ Restart
         \/ UNCHANGED run
  BY DEF Next, UserStep, ScriptStep, vars, LoginRefused, Login, LoginFails,
     CallbackRefused, CallbackAccepted, Confirm, ConfirmRefused, Back, ProceedRefused,
     ConnectionLost, Results, Leave, Logout, CookieExpires

-----------------------------------------------------------------------------
(* The parts of the inductive invariant *)

\* Every handler keeps the session store consistent.
LEMMA SessionNext == IInv /\ [Next]_vars => SessionInv'
<1> SUFFICES ASSUME IInv, [Next]_vars PROVE SessionInv'
  OBVIOUS
<1> USE DEF SessionInv
<1>0. TypeOK /\ SessionInv
  BY DEF IInv
<1>1. ASSUME NEW t \in Tabs, NEW s \in Sids, Login(t, s) PROVE SessionInv'
  BY <1>0, <1>1 DEF Login, TypeOK
<1>2. ASSUME NEW t \in Tabs, NEW s \in Sids, LoginFails(t, s) PROVE SessionInv'
  BY <1>0, <1>2 DEF LoginFails, TypeOK
<1>3. ASSUME NEW t \in Tabs, NEW x \in Tenants, CallbackAccepted(t, x)
      PROVE  SessionInv'
  BY <1>0, <1>3, NoneAssumption DEF CallbackAccepted, GetByCookie, TypeOK
<1>4. ASSUME NEW r \in Runs, FinishAudit(r) PROVE SessionInv'
  BY <1>0, <1>4 DEF FinishAudit, ClearSensitive, browser, TypeOK
<1>5. ASSUME NEW t \in Tabs, Logout(t) PROVE SessionInv'
  BY <1>0, <1>5 DEF Logout, Destroy, ClearSensitive, TypeOK
<1>6. CASE CookieExpires
  BY <1>0, <1>6 DEF CookieExpires, session
<1>7. CASE Restart
  BY <1>0, <1>7 DEF Restart, ClearSensitive, browser, TypeOK
<1>8. CASE UNCHANGED <<session, cookie>>
  BY <1>0, <1>8 DEF session
<1> QED
  BY <1>1, <1>2, <1>3, <1>4, <1>5, <1>6, <1>7, <1>8, SessionFrame

\* A session id that was drawn never gets a sign-in flow again, and once the
\* flow is used or gone its session can lose its token but get no other one.
LEMMA NoRevival ==
  ASSUME IInv, [Next]_vars
  PROVE  /\ created \subseteq created'
         /\ \A s \in created : auth_flow'[s] => auth_flow[s]
         /\ \A s \in created : ~auth_flow[s] => tenant'[s] \in {NoTenant, tenant[s]}
<1> DEFINE Goal == /\ created \subseteq created'
                   /\ \A s \in created : auth_flow'[s] => auth_flow[s]
                   /\ \A s \in created :
                        ~auth_flow[s] => tenant'[s] \in {NoTenant, tenant[s]}
<1>0. TypeOK /\ SessionInv
  BY DEF IInv
<1>1. ASSUME NEW t \in Tabs, NEW s \in Sids, Login(t, s) PROVE Goal
  BY <1>0, <1>1 DEF Login, TypeOK
<1>2. ASSUME NEW t \in Tabs, NEW s \in Sids, LoginFails(t, s) PROVE Goal
  BY <1>0, <1>2 DEF LoginFails, TypeOK
<1>3. ASSUME NEW t \in Tabs, NEW x \in Tenants, CallbackAccepted(t, x) PROVE Goal
  BY <1>0, <1>3 DEF CallbackAccepted, GetByCookie, TypeOK
<1>4. ASSUME NEW r \in Runs, FinishAudit(r) PROVE Goal
  BY <1>0, <1>4 DEF FinishAudit, ClearSensitive, TypeOK
<1>5. ASSUME NEW t \in Tabs, Logout(t) PROVE Goal
  BY <1>0, <1>5 DEF Logout, Destroy, ClearSensitive, TypeOK
<1>6. CASE CookieExpires
  BY <1>0, <1>6 DEF CookieExpires, session
<1>7. CASE Restart
  BY <1>0, <1>7 DEF Restart, ClearSensitive, TypeOK
<1>8. CASE UNCHANGED <<session, cookie>>
  BY <1>0, <1>8 DEF session
<1> QED
  BY <1>1, <1>2, <1>3, <1>4, <1>5, <1>6, <1>7, <1>8, SessionFrame

\* What one step can make of one stream.
RunStep(r) ==
  \/ UNCHANGED <<stage[r], owner[r], audited[r]>>
  \/ /\ stage[r] = "none" /\ stage'[r] = "asked"
     /\ UNCHANGED <<owner[r], audited[r]>>
  \/ /\ stage[r] = "asked" /\ stage'[r] = "opened"
     /\ owner'[r] \in store \cup {NoSid}
     /\ UNCHANGED audited[r]
  \/ /\ stage[r] = "opened" /\ stage'[r] = "started"
     /\ SignedIn(owner[r])
     /\ UNCHANGED <<owner[r], audited[r]>>
  \/ /\ stage[r] = "opened" /\ stage'[r] \in {"refused", "gone"}
     /\ UNCHANGED <<owner[r], audited[r]>>
  \/ /\ stage[r] = "started" /\ stage'[r] = "fetching"
     /\ tenant[owner[r]] # NoTenant /\ audited'[r] = tenant[owner[r]]
     /\ UNCHANGED <<owner[r], tenant>>
  \/ /\ stage[r] \in {"started", "fetching"} /\ stage'[r] \in {"failed", "gone"}
     /\ UNCHANGED <<owner[r], audited[r]>>
  \/ /\ stage[r] = "fetching" /\ stage'[r] = "done"
     /\ UNCHANGED <<owner[r], audited[r]>>

\* The handlers move each stream along these steps only.
LEMMA EachRunStep ==
  ASSUME TypeOK, PageInv, [Next]_vars
  PROVE  \A q \in Runs : RunStep(q)
<1> USE DEF RunStep
<1> TAKE q \in Runs
<1>1. ASSUME NEW t \in Tabs, NEW r \in Runs, Proceed(t, r) PROVE RunStep(q)
  BY <1>1 DEF Proceed, TypeOK
<1>2. ASSUME NEW t \in Tabs, OpenStream(t) PROVE RunStep(q)
  BY <1>2 DEF OpenStream, GetByCookie, TypeOK, PageInv
<1>3. ASSUME NEW t \in Tabs, Deliver(t) PROVE RunStep(q)
  BY <1>3 DEF Deliver, TypeOK
<1>4. ASSUME NEW r \in Runs, BeginStream(r) PROVE RunStep(q)
  BY <1>4 DEF BeginStream, TypeOK
<1>5. ASSUME NEW r \in Runs, AbandonStream(r) PROVE RunStep(q)
  BY <1>5 DEF AbandonStream, TypeOK
<1>6. ASSUME NEW r \in Runs, StartAudit(r) PROVE RunStep(q)
  BY <1>6 DEF StartAudit, session, TypeOK
<1>7. ASSUME NEW r \in Runs, FetchStep(r) PROVE RunStep(q)
  BY <1>7 DEF FetchStep, TypeOK
<1>8. ASSUME NEW r \in Runs, FinishAudit(r) PROVE RunStep(q)
  BY <1>8 DEF FinishAudit, TypeOK
<1>9. ASSUME NEW r \in Runs, FailAudit(r) PROVE RunStep(q)
  BY <1>9 DEF FailAudit, TypeOK
<1>10. CASE Restart
  BY <1>10 DEF Restart, TypeOK
<1>11. CASE UNCHANGED run
  BY <1>11 DEF run
<1> QED
  BY <1>1, <1>2, <1>3, <1>4, <1>5, <1>6, <1>7, <1>8, <1>9, <1>10, <1>11, RunFrame
     DEF ServerStep

\* Every stream keeps what its stage needs.
LEMMA RunNext == IInv /\ [Next]_vars => RunInv'
<1> SUFFICES ASSUME IInv, [Next]_vars, NEW r \in Runs
             PROVE  RunInv!(r)'
  BY DEF RunInv
<1>0. TypeOK /\ SessionInv /\ RunInv /\ PageInv
  BY DEF IInv
<1>1. RunStep(r)
  BY <1>0, EachRunStep
<1>2. RunInv!(r) /\ store \subseteq created /\ stage[r] \in Stages
  BY <1>0 DEF RunInv, SessionInv, TypeOK
<1>3. owner'[r] \in created' \cup {NoSid}
  BY <1>1, <1>2, NoRevival DEF RunStep
<1>4. stage'[r] \in {"started", "fetching", "done", "failed"} => owner'[r] # NoSid
  BY <1>1, <1>2 DEF RunStep, SignedIn
<1>5. stage'[r] \in {"none", "asked", "opened", "started", "refused"}
        => audited'[r] = NoTenant
  BY <1>1, <1>2 DEF RunStep
<1>6. stage'[r] = "fetching" => audited'[r] # NoTenant
  BY <1>1, <1>2 DEF RunStep
<1>7. ASSUME audited'[r] # NoTenant
      PROVE  owner'[r] # NoSid /\ ~auth_flow'[owner'[r]]
  <2>1. owner'[r] = owner[r] /\ owner[r] # NoSid /\ ~auth_flow[owner[r]]
    BY <1>0, <1>1, <1>2, <1>7 DEF RunStep, SessionInv, TypeOK
  <2> QED
    BY <2>1, <1>2, NoRevival
<1> QED
  BY <1>3, <1>4, <1>5, <1>6, <1>7

\* Two audits of one session fetch from one tenant: the second to start reads
\* a token that can only be the one the first read.
LEMMA OneTenantNext == IInv /\ [Next]_vars => OneTenantPerSession'
<1> SUFFICES ASSUME IInv, [Next]_vars, NEW r \in Runs, audited'[r] # NoTenant
             PROVE  /\ tenant'[owner'[r]] \in {NoTenant, audited'[r]}
                    /\ \A q \in Runs :
                         (owner'[q] = owner'[r] /\ audited'[q] # NoTenant)
                           => audited'[q] = audited'[r]
  BY DEF OneTenantPerSession
<1>0. TypeOK /\ SessionInv /\ RunInv /\ PageInv /\ OneTenantPerSession
  BY DEF IInv
<1> DEFINE Starts(q) == /\ audited[q] = NoTenant
                        /\ tenant[owner[q]] # NoTenant
                        /\ audited'[q] = tenant[owner[q]]
                        /\ UNCHANGED <<owner[q], tenant>>
           Keeps(q) == UNCHANGED <<owner[q], audited[q]>>
<1>1. \A q \in Runs : audited'[q] # NoTenant =>
        /\ owner[q] \in created /\ ~auth_flow[owner[q]]
        /\ Starts(q) \/ Keeps(q)
  <2> SUFFICES ASSUME NEW q \in Runs, audited'[q] # NoTenant
               PROVE  /\ owner[q] \in created /\ ~auth_flow[owner[q]]
                      /\ Starts(q) \/ Keeps(q)
    OBVIOUS
  <2>1. RunStep(q)
    BY <1>0, EachRunStep
  <2>2. Starts(q) \/ Keeps(q)
    BY <1>0, <2>1 DEF RunStep, RunInv
  <2>3. owner[q] # NoSid
    BY <1>0, <2>1 DEF RunStep, RunInv
  <2>4. owner[q] \in created /\ owner[q] \in Sids
    BY <1>0, <2>3 DEF RunInv, TypeOK
  <2>5. ~auth_flow[owner[q]]
    BY <1>0, <2>2, <2>4 DEF RunInv, SessionInv
  <2> QED
    BY <2>2, <2>4, <2>5
<1>2. tenant'[owner'[r]] \in {NoTenant, audited'[r]}
  BY <1>0, <1>1, NoRevival DEF OneTenantPerSession
<1>3. ASSUME NEW q \in Runs, owner'[q] = owner'[r], audited'[q] # NoTenant
      PROVE  audited'[q] = audited'[r]
  BY <1>0, <1>1, <1>3 DEF OneTenantPerSession
<1> QED
  BY <1>2, <1>3

\* A session that offers reports has given up its token for good.
LEMMA ReportNext == IInv /\ [Next]_vars => ReportMeansNoToken'
<1> SUFFICES ASSUME IInv, [Next]_vars, NEW s \in Sids, reports'[s] # NoRun
             PROVE  /\ tenant'[s] = NoTenant /\ ~auth_flow'[s]
                    /\ stage'[reports'[s]] = "done" /\ owner'[reports'[s]] = s
  BY DEF ReportMeansNoToken
<1>0. TypeOK /\ SessionInv /\ RunInv /\ PageInv /\ ReportMeansNoToken
  BY DEF IInv
<1>1. CASE reports'[s] = reports[s]
  <2>1. reports[s] \in Runs /\ stage[reports[s]] = "done" /\ owner[reports[s]] = s
    BY <1>0, <1>1 DEF ReportMeansNoToken, TypeOK
  <2>2. stage'[reports[s]] = "done" /\ owner'[reports[s]] = s
    BY <1>0, <2>1, EachRunStep DEF RunStep
  <2>3. s \in created /\ tenant[s] = NoTenant /\ ~auth_flow[s]
    BY <1>0, <1>1, <2>1, NoneAssumption DEF RunInv, ReportMeansNoToken, TypeOK
  <2> QED
    BY <1>1, <2>2, <2>3, NoRevival
<1>2. ASSUME NEW r \in Runs, FinishAudit(r), reports'[s] # reports[s]
      PROVE  /\ tenant'[s] = NoTenant /\ ~auth_flow'[s]
             /\ stage'[reports'[s]] = "done" /\ owner'[reports'[s]] = s
  BY <1>0, <1>2 DEF FinishAudit, ClearSensitive, TypeOK
<1>3. \/ reports'[s] = reports[s]
      \/ \E r \in Runs : FinishAudit(r)
  BY SessionFrame DEF Login, LoginFails, CallbackAccepted, Logout, CookieExpires,
     Restart, session
<1> QED
  BY <1>1, <1>2, <1>3

\* Before a stream's stage has ended, it has only progress to tell.
LEMMA OnlyProgress ==
  ASSUME EventInv, NEW r \in Runs, stage[r] \notin Ended
  PROVE  \A i \in 1 .. Len(events[r]) : events[r][i] = "progress"
  BY DEF EventInv

\* Events are announced in order, the last one with the stage it is about.
LEMMA EventNext == IInv /\ [Next]_vars => EventInv'
<1> SUFFICES ASSUME IInv, [Next]_vars, NEW q \in Runs PROVE EventInv!(q)'
  BY DEF EventInv
<1>0. TypeOK /\ EventInv /\ PageInv /\ EventInv!(q) /\ events[q] \in Seq(Events)
  BY DEF IInv, EventInv, TypeOK
<1> DEFINE Told(e) ==
      /\ stage[q] \notin Ended /\ events'[q] = Append(events[q], e)
      /\ \/ e = "done" /\ stage'[q] = "done"
         \/ e = "error" /\ stage'[q] \in Ended
         \/ e = "progress"
<1>1. ASSUME NEW e \in Events, Told(e) PROVE EventInv!(q)'
  <2>1. \A i \in 1 .. Len(events[q]) : events[q][i] = "progress"
    BY <1>0, <1>1, OnlyProgress
  <2>2. /\ Len(events'[q]) = Len(events[q]) + 1
        /\ events'[q][Len(events[q]) + 1] = e
        /\ \A i \in 1 .. Len(events[q]) : events'[q][i] = "progress"
    BY <1>0, <1>1, <2>1
  <2> QED
    BY <1>0, <1>1, <2>2 DEF Ended, Events
<1>2. ASSUME events'[q] = events[q], stage[q] \in Ended => stage'[q] = stage[q]
      PROVE  EventInv!(q)'
  BY <1>0, <1>2
<1>3. ASSUME NEW t \in Tabs, NEW r \in Runs, Proceed(t, r) PROVE EventInv!(q)'
  BY <1>0, <1>2, <1>3 DEF Proceed, TypeOK, Ended
<1>4. ASSUME NEW t \in Tabs, OpenStream(t) PROVE EventInv!(q)'
  BY <1>0, <1>2, <1>4 DEF OpenStream, TypeOK, Ended
<1>5. ASSUME NEW t \in Tabs, Deliver(t) PROVE EventInv!(q)'
  <2>1. CASE page[t].run = q
    <3>1. events[q] # <<>> /\ events'[q] = Tail(events[q]) /\ stage'[q] = stage[q]
      BY <1>0, <1>5, <2>1 DEF Deliver, TypeOK
    <3>2. /\ Len(events'[q]) = Len(events[q]) - 1
          /\ \A i \in 1 .. Len(events'[q]) : events'[q][i] = events[q][i + 1]
      BY <1>0, <3>1
    <3>3. Len(events[q]) \in Nat /\ Len(events'[q]) \in Nat
      BY <1>0, <3>1
    <3> QED
      BY <1>0, <3>1, <3>2, <3>3
  <2>2. CASE page[t].run # q
    BY <1>0, <1>2, <1>5, <2>2 DEF Deliver, TypeOK
  <2> QED
    BY <2>1, <2>2
<1>6. ASSUME NEW r \in Runs, BeginStream(r) PROVE EventInv!(q)'
  <2>1. Told("error") \/ (events'[q] = events[q] /\ (stage[q] \in Ended => stage'[q] = stage[q]))
    BY <1>0, <1>6 DEF BeginStream, TypeOK, Ended
  <2> QED
    BY <2>1, <1>1, <1>2 DEF Events
<1>7. ASSUME NEW r \in Runs, AbandonStream(r) PROVE EventInv!(q)'
  BY <1>0, <1>2, <1>7 DEF AbandonStream, TypeOK, Ended
<1>8. ASSUME NEW r \in Runs, StartAudit(r) PROVE EventInv!(q)'
  BY <1>0, <1>2, <1>8 DEF StartAudit, TypeOK, Ended
<1>9. ASSUME NEW r \in Runs, FetchStep(r) PROVE EventInv!(q)'
  <2>1. Told("progress") \/ (events'[q] = events[q] /\ stage'[q] = stage[q])
    BY <1>0, <1>9 DEF FetchStep, TypeOK, Ended
  <2> QED
    BY <2>1, <1>1, <1>2 DEF Events
<1>10. ASSUME NEW r \in Runs, FinishAudit(r) PROVE EventInv!(q)'
  <2>1. Told("done") \/ (events'[q] = events[q] /\ stage'[q] = stage[q])
    BY <1>0, <1>10 DEF FinishAudit, TypeOK, Ended
  <2> QED
    BY <2>1, <1>1, <1>2 DEF Events
<1>11. ASSUME NEW r \in Runs, FailAudit(r) PROVE EventInv!(q)'
  <2>1. Told("error") \/ (events'[q] = events[q] /\ stage'[q] = stage[q])
    BY <1>0, <1>11 DEF FailAudit, TypeOK, Ended
  <2> QED
    BY <2>1, <1>1, <1>2 DEF Events
<1>12. CASE Restart
  BY <1>12 DEF Restart
<1>13. CASE UNCHANGED run
  BY <1>2, <1>13 DEF run
<1> QED
  BY <1>3, <1>4, <1>5, <1>6, <1>7, <1>8, <1>9, <1>10, <1>11, <1>12, <1>13, RunFrame
     DEF ServerStep

\* What one step can make of one tab's page: it keeps it, turns it into a page
\* that speaks of no audit, opens a progress page, or reports a finished audit.
PageStep(t) ==
  \/ UNCHANGED page[t]
  \/ page'[t].at \in {"other", "confirm"}
  \/ page'[t].at = "running" /\ page'[t].run \in Runs
  \/ /\ page'[t].at \in {"finished", "results"}
     /\ page'[t].run \in Runs /\ stage[page'[t].run] = "done"

\* No handler and no event does anything else to a page.
LEMMA EachPageStep ==
  ASSUME IInv, [Next]_vars
  PROVE  \A u \in Tabs : PageStep(u)
<1> USE DEF PageStep
<1>0. TypeOK /\ EventInv /\ PageInv /\ ReportMeansNoToken
  BY DEF IInv
<1> TAKE u \in Tabs
<1>1. ASSUME NEW t \in Tabs, Show(t, Plain("other"))
      PROVE  PageStep(u)
  BY <1>0, <1>1 DEF Show, Plain, TypeOK
<1>2. ASSUME NEW t \in Tabs, Confirm(t) \/ Back(t) PROVE PageStep(u)
  BY <1>0, <1>2 DEF Confirm, Back, ConfirmPage, Show, Plain, TypeOK
<1>3. ASSUME NEW t \in Tabs, NEW r \in Runs, Proceed(t, r) PROVE PageStep(u)
  BY <1>0, <1>3 DEF Proceed, Show, TypeOK, Pages
<1>4. ASSUME NEW t \in Tabs, Deliver(t) PROVE PageStep(u)
  <2> DEFINE r == page[t].run
  <2>1. r \in Runs /\ events[r] # <<>> /\ events[r] \in Seq(Events)
    BY <1>0, <1>4 DEF Deliver, PageInv, TypeOK
  <2>2. Head(events[r]) \in Events /\ 1 \in 1 .. Len(events[r])
    BY <2>1
  <2>3. Head(events[r]) = "done" => stage[r] = "done"
    BY <1>0, <2>1, <2>2 DEF EventInv
  <2> QED
    BY <1>0, <1>4, <2>1, <2>2, <2>3 DEF Deliver, Plain, TypeOK, Pages, Events
<1>5. ASSUME NEW t \in Tabs, Results(t) PROVE PageStep(u)
  <2> DEFINE s == GetByCookie
  <2>1. CASE s # NoSid /\ reports[s] # NoRun
    <3>1. reports[s] \in Runs /\ stage[reports[s]] = "done"
      BY <1>0, <2>1 DEF GetByCookie, ReportMeansNoToken, TypeOK
    <3> QED
      BY <1>0, <1>5, <2>1, <3>1 DEF Results, Show, Plain, TypeOK
  <2>2. CASE ~(s # NoSid /\ reports[s] # NoRun)
    BY <1>0, <1>1, <1>5, <2>2 DEF Results
  <2> QED
    BY <2>1, <2>2
<1>6. CASE Restart
  BY <1>0, <1>6 DEF Restart, Plain, TypeOK
<1>7. CASE UNCHANGED page
  BY <1>7
<1> QED
  BY <1>1, <1>2, <1>3, <1>4, <1>5, <1>6, <1>7
     DEF Next, UserStep, ScriptStep, ServerStep, vars, browser, LoginRefused,
         Login, LoginFails, CallbackRefused, CallbackAccepted, ProceedRefused,
         OpenStream, BeginStream, AbandonStream, StartAudit, FetchStep,
         FinishAudit, FailAudit, ConnectionLost, Leave, Logout, CookieExpires,
         ConfirmRefused

\* What a page says of an audit stays true: a finished audit stays finished.
LEMMA PageNext == IInv /\ [Next]_vars => PageInv' /\ PageTellsTruth'
<1> SUFFICES ASSUME IInv, [Next]_vars PROVE PageInv' /\ PageTellsTruth'
  OBVIOUS
<1>0. TypeOK /\ PageInv /\ PageTellsTruth
  BY DEF IInv
<1>1. \A r \in Runs : stage[r] = "done" => stage'[r] = "done"
  BY <1>0, EachRunStep DEF RunStep
<1>2. ASSUME NEW t \in Tabs
      PROVE  /\ page'[t].at \in {"running", "finished", "results"}
                  => page'[t].run \in Runs
             /\ page'[t].at \in {"finished", "results"}
                  => stage'[page'[t].run] = "done"
  BY <1>0, <1>1, EachPageStep DEF PageStep, PageInv, PageTellsTruth
<1>3. EventInv'
  BY EventNext
<1> QED
  BY <1>2, <1>3 DEF PageInv, PageTellsTruth, EventInv

-----------------------------------------------------------------------------
(* Safety *)

\* The initial state has no session, no stream and no event.
LEMMA InitIInv == Init => IInv
<1> SUFFICES ASSUME Init PROVE IInv
  OBVIOUS
<1> USE DEF Init
<1>1. TypeOK
  <2>1. \A t \in Tabs : Plain("other") \in Pages
    BY DEF Plain, Pages, Views, NoApproval
  <2>2. 0 \in 0 .. Steps /\ 0 \in 0 .. MaxRestarts
    BY BoundAssumption
  <2> QED
    BY <2>1, <2>2 DEF TypeOK, Stages, Events
<1>2. SessionInv /\ RunInv /\ EventInv /\ OneTenantPerSession /\ ReportMeansNoToken
  BY DEF SessionInv, RunInv, EventInv, OneTenantPerSession, ReportMeansNoToken, Ended
<1>3. PageInv /\ PageTellsTruth
  BY DEF PageInv, PageTellsTruth, Plain
<1> QED
  BY <1>1, <1>2, <1>3 DEF IInv

\* Every step of the handlers, the streams and the browser keeps IInv.
LEMMA NextIInv == IInv /\ [Next]_vars => IInv'
<1> SUFFICES ASSUME IInv, [Next]_vars PROVE IInv'
  OBVIOUS
<1>1. TypeOK'
  BY TypeNext DEF IInv
<1> QED
  BY <1>1, SessionNext, RunNext, EventNext, PageNext, OneTenantNext, ReportNext
     DEF IInv

\* IInv holds of the web application, for any numbers of sessions, tabs, streams.
THEOREM Invariant == Spec => []IInv
  BY InitIInv, NextIInv, PTL DEF Spec

\* Every variable keeps its type.
THEOREM TypeCorrect == Spec => []TypeOK
  BY Invariant, PTL DEF IInv

\* sessions.py: one tenant per session, for overlapping audits too.
THEOREM OneTenant == Spec => []OneTenantPerSession
  BY Invariant, PTL DEF IInv

\* A session with reports to offer has neither token nor flow.
THEOREM ReportWithoutToken == Spec => []ReportMeansNoToken
  BY Invariant, PTL DEF IInv

\* A session object that a stream still holds after logout has no token.
THEOREM ForgottenWithoutToken == Spec => []ForgottenMeansNoToken
<1>1. IInv => ForgottenMeansNoToken
  BY DEF IInv, SessionInv, ForgottenMeansNoToken
<1> QED
  BY <1>1, Invariant, PTL

\* A page that reports an audit as finished is right.
THEOREM PageIsRight == Spec => []PageTellsTruth
  BY Invariant, PTL DEF IInv

-----------------------------------------------------------------------------
(* The tenant a confirm page shows stays that of its session *)

\* The approvals that are around: on pages, old and new, and with streams.
Approved == shown \cup {page[t].approval : t \in Tabs} \cup {approved[r] : r \in Runs}

\* What an approval says is what its session can still audit, if it can audit
\* at all; and so is what has been audited.
ApprovedInv ==
  /\ \A a \in Approved : a.sid # NoSid =>
       /\ a.sid \in created /\ ~auth_flow[a.sid]
       /\ tenant[a.sid] \in {NoTenant, a.tenant}
  /\ ApprovedUnlessCookieMoved

\* Approvals come from /confirm only, and say what the session's tenant is then.
LEMMA EachApproval ==
  ASSUME TypeOK, PageInv, [Next]_vars, NEW a \in Approved', a.sid # NoSid
  PROVE  \/ a \in Approved
         \/ /\ a.sid \in store /\ tenant[a.sid] # NoTenant
            /\ a.tenant = tenant[a.sid]
            /\ UNCHANGED <<session, cookie>>
<1> DEFINE New == /\ a.sid \in store /\ tenant[a.sid] # NoTenant
                  /\ a.tenant = tenant[a.sid]
                  /\ UNCHANGED <<session, cookie>>
<1>1. ASSUME NEW t \in Tabs, Show(t, Plain("other")), UNCHANGED <<shown, approved>>
      PROVE  a \in Approved
  BY <1>1 DEF Show, Plain, NoApproval, Approved, TypeOK
<1>2. ASSUME NEW t \in Tabs, Confirm(t) PROVE a \in Approved \/ New
  <2> DEFINE b == [sid |-> GetByCookie, tenant |-> tenant[GetByCookie]]
  <2>1. a \in Approved \/ a = b
    BY <1>2 DEF Confirm, ConfirmPage, Show, Plain, Approved, TypeOK, run
  <2>2. a = b => New
    BY <1>2 DEF Confirm, SignedIn, GetByCookie
  <2> QED
    BY <2>1, <2>2
<1>3. ASSUME NEW t \in Tabs, Back(t) PROVE a \in Approved
  BY <1>3 DEF Back, ConfirmPage, Show, Plain, Approved, TypeOK, run
<1>4. ASSUME NEW t \in Tabs, NEW r \in Runs, Proceed(t, r) PROVE a \in Approved
  BY <1>4 DEF Proceed, Show, Approved, TypeOK, Pages
<1>5. ASSUME NEW t \in Tabs, OpenStream(t) PROVE a \in Approved
  BY <1>5 DEF OpenStream, Approved, browser, TypeOK, PageInv
<1>6. ASSUME NEW t \in Tabs, Deliver(t) PROVE a \in Approved
  <2>1. page[t].run \in Runs /\ events[page[t].run] \in Seq(Events)
    BY <1>6 DEF Deliver, PageInv, TypeOK
  <2>2. Head(events[page[t].run]) \in Events
    BY <1>6, <2>1 DEF Deliver
  <2>3. \A u \in Tabs : page'[u].approval \in {page[u].approval, NoApproval}
    BY <1>6, <2>1, <2>2 DEF Deliver, Events, Plain, TypeOK, Pages
  <2>4. a # NoApproval /\ UNCHANGED <<shown, approved>>
    BY <1>6 DEF Deliver, NoApproval
  <2> QED
    BY <2>3, <2>4 DEF Approved
<1>7. ASSUME NEW r \in Runs, ServerStep(r) \/ AbandonStream(r) PROVE a \in Approved
  BY <1>7 DEF ServerStep, BeginStream, StartAudit, FetchStep, FinishAudit, FailAudit,
     AbandonStream, browser, Approved
<1>8. ASSUME NEW t \in Tabs, Results(t) PROVE a \in Approved
  BY <1>8 DEF Results, Show, Plain, NoApproval, Approved, TypeOK, run
<1>9. CASE Restart
  BY <1>9 DEF Restart, Plain, NoApproval, Approved, TypeOK
<1>10. CASE UNCHANGED <<page, shown, approved>>
  BY <1>10 DEF Approved
<1> QED
  BY <1>1, <1>2, <1>3, <1>4, <1>5, <1>6, <1>7, <1>8, <1>9, <1>10
     DEF Next, UserStep, ScriptStep, vars, browser, run, LoginRefused, Login,
         LoginFails, CallbackRefused, CallbackAccepted, ConfirmRefused,
         ProceedRefused, ConnectionLost, Leave, Logout, CookieExpires

\* An approval is recorded with a stream when it is opened, and not again.
LEMMA ApprovalStays ==
  ASSUME TypeOK, PageInv, [Next]_vars, NEW r \in Runs, stage[r] # "asked"
  PROVE  UNCHANGED approved[r]
<1>1. ASSUME NEW t \in Tabs, OpenStream(t) PROVE UNCHANGED approved[r]
  BY <1>1 DEF OpenStream, TypeOK, PageInv
<1>2. ASSUME NEW t \in Tabs, NEW q \in Runs, Proceed(t, q) PROVE UNCHANGED approved[r]
  BY <1>2 DEF Proceed
<1>3. ASSUME NEW t \in Tabs, Deliver(t) PROVE UNCHANGED approved[r]
  BY <1>3 DEF Deliver
<1>4. ASSUME NEW q \in Runs, ServerStep(q) \/ AbandonStream(q)
      PROVE  UNCHANGED approved[r]
  BY <1>4 DEF ServerStep, BeginStream, StartAudit, FetchStep, FinishAudit, FailAudit,
     AbandonStream
<1>5. CASE Restart
  BY <1>5 DEF Restart
<1>6. CASE UNCHANGED run
  BY <1>6 DEF run
<1> QED
  BY <1>1, <1>2, <1>3, <1>4, <1>5, <1>6, RunFrame

\* A session that was confirmed never gets another tenant, so that every approval
\* stays right, and an audit of its session reads the tenant it names.
LEMMA ApprovedNext == IInv /\ ApprovedInv /\ [Next]_vars => ApprovedInv'
<1> SUFFICES ASSUME IInv, ApprovedInv, [Next]_vars PROVE ApprovedInv'
  OBVIOUS
<1>0. TypeOK /\ SessionInv /\ RunInv /\ PageInv
  BY DEF IInv
<1>1. ASSUME NEW a \in Approved', a.sid # NoSid
      PROVE  /\ a.sid \in created' /\ ~auth_flow'[a.sid]
             /\ tenant'[a.sid] \in {NoTenant, a.tenant}
  <2>1. CASE a \in Approved
    <3>1. /\ a.sid \in created /\ ~auth_flow[a.sid]
          /\ tenant[a.sid] \in {NoTenant, a.tenant}
      BY <1>1, <2>1 DEF ApprovedInv
    <3> QED
      BY <3>1, NoRevival
  <2>2. CASE /\ a.sid \in store /\ tenant[a.sid] # NoTenant
             /\ a.tenant = tenant[a.sid]
             /\ UNCHANGED <<session, cookie>>
    <3>1. a.sid \in Sids /\ a.sid \in created /\ ~auth_flow[a.sid]
      BY <1>0, <2>2 DEF SessionInv, TypeOK
    <3> QED
      BY <2>2, <3>1 DEF session
  <2> QED
    BY <1>0, <1>1, <2>1, <2>2, EachApproval
<1>2. ASSUME NEW r \in Runs, audited'[r] # NoTenant, owner'[r] = approved'[r].sid
      PROVE  audited'[r] = approved'[r].tenant
  <2>1. RunStep(r)
    BY <1>0, EachRunStep
  <2>2. stage[r] # "asked" /\ owner'[r] = owner[r]
    BY <1>0, <1>2, <2>1 DEF RunStep, RunInv
  <2>3. approved'[r] = approved[r]
    BY <1>0, <2>2, ApprovalStays
  <2>4. CASE audited'[r] = audited[r]
    BY <1>2, <2>2, <2>3, <2>4 DEF ApprovedInv, ApprovedUnlessCookieMoved
  <2>5. CASE audited'[r] # audited[r]
    <3>1. stage[r] = "started" /\ tenant[owner[r]] # NoTenant
          /\ audited'[r] = tenant[owner[r]]
      BY <2>1, <2>5 DEF RunStep
    <3>2. owner[r] # NoSid
      BY <1>0, <3>1 DEF RunInv
    <3>3. approved[r] \in Approved
      BY DEF Approved
    <3>4. tenant[owner[r]] \in {NoTenant, approved[r].tenant}
      BY <1>2, <2>2, <2>3, <3>2, <3>3 DEF ApprovedInv
    <3> QED
      BY <2>3, <3>1, <3>4
  <2> QED
    BY <2>4, <2>5
<1> QED
  BY <1>1, <1>2 DEF ApprovedInv, ApprovedUnlessCookieMoved

\* docs/ARCHITECTURE.md: the operator verifies the tenant before any audit.  For
\* any number of tabs, and confirm pages of any age, an audit on the session a
\* confirm page was for runs on the tenant the page showed: a wrong tenant takes
\* another session under the cookie.
THEOREM ApprovedOrMoved == Spec => []ApprovedUnlessCookieMoved
<1>1. Init => ApprovedInv
  BY DEF Init, ApprovedInv, ApprovedUnlessCookieMoved, Approved, Plain, NoApproval
<1>2. ApprovedInv => ApprovedUnlessCookieMoved
  BY DEF ApprovedInv
<1>3. IInv /\ ApprovedInv /\ [Next]_vars => ApprovedInv'
  BY ApprovedNext
<1> QED
  BY <1>1, <1>2, <1>3, Invariant, PTL DEF Spec

-----------------------------------------------------------------------------
(* What README.md says of the token does hold of an audit that succeeds *)

\* A stream whose audit is finished leaves its session without a token, and
\* without a flow to get one.
DoneInv == \A r \in Runs : stage[r] = "done" =>
             tenant[owner[r]] = NoTenant /\ ~auth_flow[owner[r]]

\* Only FinishAudit makes a stream's stage "done".
LEMMA DoneByFinish ==
  ASSUME TypeOK, PageInv, [Next]_vars, NEW q \in Runs, stage[q] # "done", stage'[q] = "done"
  PROVE  FinishAudit(q)
<1>1. ASSUME NEW t \in Tabs, NEW r \in Runs, Proceed(t, r) PROVE FALSE
  BY <1>1 DEF Proceed, TypeOK
<1>2. ASSUME NEW t \in Tabs, OpenStream(t) \/ Deliver(t) PROVE FALSE
  BY <1>2 DEF OpenStream, Deliver, TypeOK, PageInv
<1>3. ASSUME NEW r \in Runs,
             \/ BeginStream(r) \/ StartAudit(r) \/ FetchStep(r) \/ FailAudit(r)
             \/ AbandonStream(r)
      PROVE  FALSE
  BY <1>3 DEF BeginStream, StartAudit, FetchStep, FailAudit, AbandonStream, TypeOK
<1>4. ASSUME NEW r \in Runs, FinishAudit(r) PROVE FinishAudit(q)
  BY <1>4 DEF FinishAudit, TypeOK
<1>5. ASSUME Restart PROVE FALSE
  BY <1>5 DEF Restart, TypeOK
<1>6. ASSUME UNCHANGED run PROVE FALSE
  BY <1>6 DEF run
<1> QED
  BY <1>1, <1>2, <1>3, <1>4, <1>5, <1>6, RunFrame DEF ServerStep

\* A session that a finished audit left keeps no token.
LEMMA DoneNext == IInv /\ DoneInv /\ [Next]_vars => DoneInv'
<1> SUFFICES ASSUME IInv, DoneInv, [Next]_vars, NEW r \in Runs, stage'[r] = "done"
             PROVE  tenant'[owner'[r]] = NoTenant /\ ~auth_flow'[owner'[r]]
  BY DEF DoneInv
<1>0. TypeOK /\ RunInv /\ PageInv
  BY DEF IInv
<1>1. CASE stage[r] = "done"
  <2>1. owner'[r] = owner[r]
    BY <1>0, <1>1, EachRunStep DEF RunStep
  <2>2. owner[r] \in created /\ tenant[owner[r]] = NoTenant /\ ~auth_flow[owner[r]]
    BY <1>0, <1>1 DEF RunInv, DoneInv
  <2> QED
    BY <2>1, <2>2, NoRevival
<1>2. CASE stage[r] # "done"
  <2>1. FinishAudit(r)
    BY <1>0, <1>2, DoneByFinish
  <2>2. owner'[r] = owner[r] /\ owner[r] \in Sids
    BY <1>0, <2>1 DEF FinishAudit, RunInv, TypeOK
  <2> QED
    BY <2>1, <2>2 DEF FinishAudit, ClearSensitive
<1> QED
  BY <1>1, <1>2

\* README.md: the tool "drops the token as soon as the audit finishes".  It does
\* so for good when the audit succeeds, whatever other streams of the session,
\* logins or reloads there are: a token that is kept is that of a failed audit.
THEOREM DoneDropsToken ==
  Spec => [](\A r \in Runs : stage[r] = "done" => tenant[owner[r]] = NoTenant)
<1>1. Init => DoneInv
  BY DEF Init, DoneInv
<1>2. DoneInv => \A r \in Runs : stage[r] = "done" => tenant[owner[r]] = NoTenant
  BY DEF DoneInv
<1>3. IInv /\ DoneInv /\ [Next]_vars => DoneInv'
  BY DoneNext
<1> QED
  BY <1>1, <1>2, <1>3, Invariant, PTL DEF Spec

-----------------------------------------------------------------------------
(* Refinement: the handlers implement SessionLife *)

\* An audit that starts adds its tenant to those its session has served; no
\* other step does.
LEMMA ServedStep ==
  ASSUME IInv, [Next]_vars
  PROVE  \/ UNCHANGED Served
         \/ \E r \in Runs : StartAudit(r)
<1>0. TypeOK /\ RunInv /\ PageInv
  BY DEF IInv
<1>1. ASSUME ~ \E r \in Runs : StartAudit(r), NEW q \in Runs
      PROVE  UNCHANGED audited[q]
  <2>1. UNCHANGED audited \/ \E r \in Runs : StartAudit(r)
    BY RunFrame DEF Proceed, OpenStream, Deliver, ServerStep, BeginStream, FetchStep,
       FinishAudit, FailAudit, AbandonStream, Restart, run
  <2> QED
    BY <1>1, <2>1
<1>2. ASSUME ~ \E r \in Runs : StartAudit(r), NEW q \in Runs, audited[q] # NoTenant
      PROVE  UNCHANGED owner[q]
  <2>1. RunStep(q) /\ stage[q] # "asked"
    BY <1>0, <1>2, EachRunStep DEF RunInv
  <2> QED
    BY <2>1 DEF RunStep
<1>3. ASSUME ~ \E r \in Runs : StartAudit(r) PROVE UNCHANGED Served
  <2>1. \A s \in Sids : {q \in Runs : owner'[q] = s /\ audited'[q] # NoTenant}
                      = {q \in Runs : owner[q] = s /\ audited[q] # NoTenant}
    BY <1>1, <1>2, <1>3
  <2>2. \A s \in Sids :
          {audited'[r] : r \in {q \in Runs : owner'[q] = s /\ audited'[q] # NoTenant}}
            = {audited[r] : r \in {q \in Runs : owner[q] = s /\ audited[q] # NoTenant}}
    BY <1>1, <1>3, <2>1
  <2> QED
    BY <2>2 DEF Served
<1> QED
  BY <1>3

\* Wiping sessions ends those of them that were still alive.
LEMMA ClearEnds ==
  ASSUME IInv, NEW S, ClearSensitive(S), UNCHANGED <<created, Served>>
  PROVE  \E E \in SUBSET Sids : Life!End(E)
<1> DEFINE E == {s \in Sids : s \in S /\ Phase[s] \in {"pending", "signedIn"}}
<1>0. TypeOK /\ SessionInv
  BY DEF IInv
<1>1. Phase' = [s \in Sids |-> IF s \in E THEN "over" ELSE Phase[s]]
  <2>1. \A s \in Sids : Phase'[s] = IF s \in E THEN "over" ELSE Phase[s]
    BY <1>0 DEF ClearSensitive, Phase, TypeOK, SessionInv
  <2> QED
    BY <2>1 DEF Phase
<1>2. tenant' = [s \in Sids |-> IF s \in E THEN NoTenant ELSE tenant[s]]
  <2>1. \A s \in Sids : tenant'[s] = IF s \in E THEN NoTenant ELSE tenant[s]
    BY <1>0 DEF ClearSensitive, Phase, TypeOK, SessionInv
  <2> QED
    BY <2>1 DEF ClearSensitive
<1> QED
  BY <1>1, <1>2 DEF Life!End

\* Every step of the web application is a step of SessionLife, or none.
LEMMA LifeStep == IInv /\ [Next]_vars => [Life!Next]_(Life!vars)
<1> SUFFICES ASSUME IInv, [Next]_vars
             PROVE  Life!Next \/ UNCHANGED <<Phase, tenant, Served>>
  BY DEF Life!vars
<1> USE DEF Life!Next
<1>0. TypeOK /\ SessionInv /\ RunInv /\ PageInv
  BY DEF IInv
<1>1. ASSUME NEW t \in Tabs, NEW s \in Sids, Login(t, s), UNCHANGED Served
      PROVE  Life!Begin(s)
  <2>1. Phase[s] = "unused" /\ tenant' = tenant
    BY <1>1 DEF Login, Phase
  <2>2. \A z \in Sids : Phase'[z] = IF z = s THEN "pending" ELSE Phase[z]
    BY <1>0, <1>1 DEF Login, Phase, TypeOK
  <2>3. Phase' = [Phase EXCEPT ![s] = "pending"]
    BY <2>2 DEF Phase
  <2> QED
    BY <1>1, <2>1, <2>3 DEF Life!Begin
<1>2. ASSUME NEW t \in Tabs, NEW s \in Sids, LoginFails(t, s), UNCHANGED Served
      PROVE  Life!Abort(s)
  <2>1. Phase[s] = "unused" /\ tenant' = tenant
    BY <1>2 DEF LoginFails, Phase
  <2>2. \A z \in Sids : Phase'[z] = IF z = s THEN "over" ELSE Phase[z]
    BY <1>0, <1>2 DEF LoginFails, Phase, TypeOK, SessionInv
  <2>3. Phase' = [Phase EXCEPT ![s] = "over"]
    BY <2>2 DEF Phase
  <2> QED
    BY <1>2, <2>1, <2>3 DEF Life!Abort
<1>3. ASSUME NEW t \in Tabs, NEW x \in Tenants, CallbackAccepted(t, x), UNCHANGED Served
      PROVE  \E s \in Sids : Life!SignIn(s, x)
  <2> DEFINE s == GetByCookie
  <2>1. s \in Sids /\ s \in created /\ auth_flow[s] /\ x # NoTenant
    BY <1>0, <1>3, NoneAssumption DEF CallbackAccepted, GetByCookie, TypeOK, SessionInv
  <2>2. Phase[s] = "pending" /\ tenant' = [tenant EXCEPT ![s] = x]
    BY <1>3, <2>1 DEF CallbackAccepted, Phase
  <2>3. \A z \in Sids : Phase'[z] = IF z = s THEN "signedIn" ELSE Phase[z]
    BY <1>0, <1>3, <2>1 DEF CallbackAccepted, Phase, TypeOK
  <2>4. Phase' = [Phase EXCEPT ![s] = "signedIn"]
    BY <2>1, <2>3 DEF Phase
  <2>5. Life!SignIn(s, x)
    BY <1>3, <2>2, <2>4 DEF Life!SignIn
  <2> QED
    BY <2>1, <2>5
<1>4. ASSUME NEW r \in Runs, StartAudit(r)
      PROVE  \E s \in Sids : Life!Audit(s)
  <2> DEFINE s == owner[r]
  <2>1. s \in Sids /\ s \in created /\ tenant[s] # NoTenant /\ ~auth_flow[s]
    BY <1>0, <1>4 DEF StartAudit, RunInv, SessionInv, TypeOK
  <2>2. Phase[s] = "signedIn" /\ UNCHANGED <<Phase, tenant>>
    BY <1>4, <2>1 DEF StartAudit, session, Phase
  <2>3. /\ audited' = [audited EXCEPT ![r] = tenant[s]] /\ owner' = owner
        /\ audited[r] = NoTenant
    BY <1>0, <1>4 DEF StartAudit, RunInv
  <2>4. \A z \in Sids : Served'[z] = IF z = s THEN Served[z] \cup {tenant[s]}
                                   ELSE Served[z]
    <3> TAKE z \in Sids
    <3>1. \A q \in Runs : audited'[q] = IF q = r THEN tenant[s] ELSE audited[q]
      BY <1>0, <2>3 DEF TypeOK
    <3>2. {q \in Runs : owner'[q] = z /\ audited'[q] # NoTenant}
            = {q \in Runs : owner[q] = z /\ audited[q] # NoTenant}
              \cup (IF z = s THEN {r} ELSE {})
      BY <2>1, <2>3, <3>1
    <3> QED
      BY <2>3, <3>1, <3>2 DEF Served
  <2>5. Served' = [Served EXCEPT ![s] = @ \cup {tenant[s]}]
    BY <2>1, <2>4 DEF Served
  <2>6. Life!Audit(s)
    BY <2>2, <2>5 DEF Life!Audit
  <2> QED
    BY <2>1, <2>6
<1>5. ASSUME NEW r \in Runs, FinishAudit(r), UNCHANGED Served
      PROVE  \E E \in SUBSET Sids : Life!End(E)
  BY <1>5, ClearEnds DEF FinishAudit
<1>6. ASSUME NEW t \in Tabs, Logout(t), UNCHANGED Served
      PROVE  \E E \in SUBSET Sids : Life!End(E)
  BY <1>6, ClearEnds DEF Logout, Destroy
<1>7. ASSUME Restart, UNCHANGED Served
      PROVE  \E E \in SUBSET Sids : Life!End(E)
  BY <1>7, ClearEnds DEF Restart
<1>8. ASSUME CookieExpires \/ UNCHANGED <<session, cookie>>, UNCHANGED Served
      PROVE  UNCHANGED <<Phase, tenant, Served>>
  BY <1>8 DEF CookieExpires, session, Phase
<1> QED
  BY <1>1, <1>2, <1>3, <1>4, <1>5, <1>6, <1>7, <1>8, SessionFrame, ServedStep

\* The handlers, streams and tabs of the web application implement the life of
\* a session that SessionLife states.
THEOREM SessionLifeImplemented == Spec => ImplementsSessionLife
<1>1. Init => Life!Init
  BY DEF Init, Life!Init, Phase, Served
<1> QED
  BY <1>1, LifeStep, Invariant, PTL DEF Spec, Life!Spec, ImplementsSessionLife
=============================================================================
