# TLA+ models of m365-license-review

The program signs an operator in to a client's Microsoft 365 tenant, reads
licensing and security data from Microsoft Graph, runs the selected audits on
it and writes a report.  This directory models the parts of it where order,
failure and sharing matter, checks them with TLC on small instances and proves
the main results for every instance with TLAPS.  Paths below are relative to
`src/m365_review/` of the repository.

## The system

| Part | State | Operations | Talks to |
|---|---|---|---|
| Web application, `web/app.py` | none of its own; one stream task and queue per `/run/stream` | login, callback, confirm, run, stream, results, download, logout; index, help, error and health pages | session store, MSAL, engine, profile store, the browser's one cookie |
| Session store, `web/sessions.py` | a dict of sessions: flow, token and tenant, options, reports | create, get_by_cookie, clear_sensitive, destroy | cookie signed with the session secret |
| Authentication, `core/auth.py` | MSAL's flow | begin and complete the web flow; the CLI's browser or device-code flow | MSAL (external) |
| Graph client, `core/graph_client.py` | an HTTP connection, the attempts of a GET | `_request` with retries, `paged`, `get_json` | Microsoft Graph (external) |
| Fetchers, `core/fetchers/` | the rows of the unit being read | one per unit of tenant data | Graph client |
| Audit catalog, `core/audits.py` | constant | resolve a selection, required data, required scopes | web, CLI, engine |
| Engine, `core/engine.py` | the tenant's data of one audit | `fetch_tenant_data`, `build_result`, `run_audit` | fetchers, rules, pricing, writers |
| Rules, `core/rules/` | none | one `evaluate` per rule | data models, pricing |
| Pricing, `core/pricing.py` | price cache file, yaml maps | load, parse, look up | online rate card |
| Profile store, `core/profiles.py` | SQLite table | list, get, upsert, touch, delete | web and CLI processes |
| Settings, `settings.py` | secret file, environment | resolve the session secret | both |
| Report writers, `core/report/` | files named after tenant and day | write xlsx, docx, json | output directory |
| Command line, `cli.py` | none | run, list, check, profiles | everything above |

What is hard about it, and what makes each part correct:

* **Web and sessions.**  All tabs of the browser share one cookie, a stream
  captures its session when it is requested and its audit task reads the token
  when it is first scheduled, streams may overlap, connections break, users
  leave and log out, the process restarts.  A session must audit one tenant
  and give up its token with its report; a page must not claim what did not
  happen; a stream must end.
* **Graph client and fetchers.**  Each GET may be throttled, fail on the server
  or be refused on any page of a collection.  Data that is incomplete must not
  pass for complete, a fallback must not count rows twice, and the fetch must end.
* **Catalog and engine.**  The scopes are fixed at sign-in, the audits when they
  run.  A rule that reports an absence must not fire on data that nobody read,
  and a check that could not be made must be told.
* **Profiles, pricing, secret, report files** are shared by processes or
  outlive them: lost updates, stale labels, half-written files.
* **Rules and models** are arithmetic with edges (slack, ratios, expiry days,
  overlaps).

`PROJECT.json` lists each such hazard at its line.

## Modules

| Module | What it is | Models |
|---|---|---|
| `SessionLife` | abstract: the life of one session | what web/ promises |
| `WebApp` | the handlers, the store, the stream tasks, the tabs | `web/app.py`, `web/sessions.py`, the script of `running.html` |
| `MCWebApp` | constants and symmetry of its runs | |
| `WebApp_proofs` | theorems about `WebApp` | |
| `TenantUnits` | the units of tenant data and their order | `core/engine.py` |
| `TenantFetch` | abstract: what a fetch may end in | `core/engine.py`, `core/fetchers/` |
| `GraphFetch` | the fetchers on the client with pages and retries | `core/graph_client.py`, `core/fetchers/` |
| `MCGraphFetch` | constants of its run | |
| `GraphFetch_proofs` | theorems about `GraphFetch` | |
| `AuditCatalog` | the audits, their data and scopes, resolve | `core/audits.py` |
| `AuditRun` | a selection, the CLI's sign-in, the fetch, the report | `core/engine.py`, `core/auth.py`, `web/app.py`, `cli.py`, `core/rules/` |
| `MCAuditRun` | constants of its runs | |
| `AuditRun_proofs` | theorems about `AuditRun` | |
| `ProfileBook` | abstract: what saved profiles keep | what `core/profiles.py` promises |
| `Profiles` | web logins and commands on one database | `core/profiles.py`, `cli.py`, `web/app.py` |
| `MCProfiles` | symmetry of its runs | |
| `Profiles_proofs` | theorems about `Profiles` | |
| `SecretFile` | the secret of the session cookie and its file | `settings.py`, `web/sessions.py` |
| `PriceCache` | the rate card and the copy of it all audits share | `core/pricing.py` |
| `ReportFiles` | report files, downloads and zip archives | `core/report/`, `core/models.py`, `web/app.py` |
| `AuditSet` | the audits the last two are about | |
| `Host` | the processes on one machine: the three above, composed | `core/engine.py`, `cli.py`, `web/app.py` |
| `MCHost` | constants and symmetry of its run | |
| `Host_proofs` | theorems about `Host` | |
| `TenantModel` | a tenant's data and the values derived from it | `core/models.py`, `core/rules/base.py`, `core/pricing.py` |
| `LicenseRules`, `SecurityRules` | the rules as functions of a tenant | `core/rules/` |
| `ReportSheets` | what workbook, document and JSON file show | `core/engine.py`, `core/report/` |
| `Analysis` | rules, report and sheets of one tenant | `core/engine.py`, `core/models.py` |
| `MCAnalysis` | the tenants of its runs | |
| `Analysis_proofs` | theorems about `Analysis`: who and what is reported | |
| `SumTheorems` | facts about sums over finite sets | |
| `Savings_proofs` | theorems about `Analysis`: seats and money | |

How they fit together: `GraphFetch` implements `TenantFetch`, and `AuditRun` is
built on `TenantFetch`: what holds of a report in `AuditRun` holds for whatever
the client and the fetchers can deliver.  `AuditRun` knows of the data only what
can be missing; `Analysis` is the same step, `build_result`, and the writers
after it, on the data itself.  `WebApp` sees an audit as a number of progress
reports and an end; `AuditRun` is what happens between them.  `Host` sees it as
prices, a fetch and a number of files, and puts several of them into several
processes.

### WebApp

The server's memory is `store`, `auth_flow`, `tenant` and `reports`, indexed by
session id, because a stream keeps a session object that the store has
forgotten.  A stream `r` goes through `stage[r]`: asked for by the page
(`Proceed`), opened (`OpenStream`: the handler captures the session of the
cookie), started (`BeginStream`: the generator checks it and creates the task),
fetching (`StartAudit`: the task reads the token, unchecked), and an end.
`cookie`, `login` and `page` are the browser.  A handler without an `await` is
one action, as the event loop cannot interrupt it; the cuts are exactly where
the code waits.  `audited`, `approved` and `created` record what has happened
for the properties.

A confirm page is of a session and names its tenant.  `shown` are the pages the
browser has shown, and `Back` shows any of them again, in whatever tab; `Proceed`
posts from the page that is there, of whatever age, and `POST /run` looks at the
cookie only.  That is why one tab is enough to audit a tenant that nobody confirmed
(confirm the first, log in to the second, go back, proceed), and why
`ApprovedUnlessCookieMoved`, which does hold, is about the cookie and not about tabs.

Fairness (`FairSpec`) is weak fairness of the stream's server steps and of the
page's script: the event loop runs every task that is ready, each GET ends by an
answer or by the client's timeout, and the script handles the events it is sent.
The operator owes nothing.

### GraphFetch

`todo` holds the units left; `page`, `attempt` and `last` are the state of
`_request` for the current page (or user); `rows` are the rows of the unit read
so far and `data` and `available` what has been handed to `TenantData`.  A row
is its number and, for users, which of the two queries brought it.  One GET and
its answer is one action: `Retry` (429 and 5xx), `Refused`, `Exhausted`,
`Broken` (an httpx error), `NextPage`, `LastAnswer`, `LastUsers`.  Weak fairness
of `Next`: the httpx timeout bounds every GET.  Collections are finite: a server
that sends `nextLink` for ever is outside the model, and the code would follow it.

### AuditRun

A tenant is the set of checks that would find something on complete data.  A
selection says who makes it: the web application signs in with it at once
(`SignIn`); the CLI refuses one that matches nothing (`NothingMatches`), checks
that it has a client ID and, for a device code, a tenant (`CliConnect`), tries
the browser and falls back to a device code (`CliBrowser`, `CliDevice`), and asks
the operator to confirm the organization (`CliConfirm`).  Scopes are fixed at
sign-in; `Start` resolves the remembered ids again, `Fetching` is `TenantFetch`,
`Build` decides which checks report for each result of their unit, and which
units have a caveat.  `broken` are the rules that raised an exception, which
`run_rules` logs and skips.

### Profiles

A job is a login of the web application with the audit that follows, or a
command.  `at[p]` is the place in its code, `args[p]` the row it holds in local
variables.  Each method of the store opens a connection of its own, so that a
statement is a step: `upsert` is `CallUpsert`, `Look` (its `get`) and `Put` (the
`INSERT ... ON CONFLICT`), with other processes in between; `Free` keeps the
handlers of the web process apart, which share one event loop.  `WriteBack` is
the CLI's "for next time".  `saved` records what the operator last saved.

### Host

Processes share no memory, only files.  Two of them meet in three places:

* `SecretFile`: each process that starts reads the secret or, if there is none,
  draws one and writes it.  `write_text` is two steps, opening the file (which
  empties it) and writing on closing; other processes run, and this one may be
  stopped, in between.  An `OSError` leaves a secret for this run only.
* `PriceCache`: an audit reads the rate card of `PRICE_SOURCE_URL` and copies it,
  or reads the last copy.  Two writers of rows of different length may leave a
  mixture (`Garbled`), a stopped one an empty file (`Blank`).
* `ReportFiles`: two audits with one file name write the same files and the same
  zip archive.  A file is the set of audits that wrote to it since it was last
  emptied, and whether it is torn.  An archive is made in two steps, opening it
  (`OpenZip`, which empties it) and packing the files (`CloseZip`), and sent in a
  third (`SendZip`); the processes of other audits may do the same in between.

`Host` runs `run_audit` on top: prices, fetch, files.  Prices, files and archives are
handled without an `await`, so that a process in the middle of either does
nothing else (`Free`), while the others do.  `Start` reads an environment, which
may have changed since the last start; `Stop` ends a process anywhere.  The
variables `drawn`, `ephemeral`, `raced`, `asked`, `received` and `disturbed` record
what has happened, for the properties: each says under which circumstances the
sharing is harmless (nobody raced, one URL, no other audit of the name at work
meanwhile), and what then holds.

### Analysis

Pure functions, one per rule, over a record for the tenant; `RunRules` and
`Assemble` are the two halves of `build_result`, `WriteReports` makes the three
files.  `ReportSheets` has what the writers work out on their own: the workbook
colours expirations and accounts, the JSON file counts them, the document lists
them, and each separates paid from free products and unread from empty sections.
Times are counted in half days
from now, so that rounding of days shows.  Amounts are sums of numbers of cents over
sets of users, SKUs and findings.  The properties do not repeat the
rules: they relate the results of several of them, or compare them with what
they are about (`Challenged` is what Conditional Access does when somebody
signs in, below; `Consistent` is what Graph says of seats that users hold; `Bill` is
what they cost).  `NoSeatSavedTwice` says which savings never exceed the bill, and
`SavingsBounded` what the savings of all rules, as every file shows them, may count
once more: R7 a guest's licenses, R4 a redundant one for each overlap.

A Conditional Access policy has the lists of words that `from_graph` reads: users and
roles with their exclusions, groups, applications, client types, controls.  A sign-in
(`SignIns`) is the set of words that fit it, of each kind: "All" and the ids of an
account, its roles and groups, an application, a client.  A policy `Applies` if it
lists a word of the account and one of the application, and does not let the sign-in
off (`Exempts`: an excluded account or role, a client that is not listed).  R11 and R15
read neither exclusions nor groups nor clients, and recommend to exclude break-glass
accounts, so that their silence does not mean that every sign-in is challenged;
`CaFindingsRight` says what it does mean.  A policy has no excluded groups or
applications, locations, platforms or authentication strengths, which the models do not
read, and controls count as if each had to be met.

## Runs

| Run | Instance | Shows |
|---|---|---|
| `web_two_tabs` | 2 tabs, 2 sessions, 2 tenants, 2 streams, 1 restart, no progress reports | one tenant per session, and the one its confirm page showed; no token beside a report or in a forgotten session; pages tell the truth; `WebApp` implements `SessionLife` |
| `web_one_tab` | 1 tab, 2 sessions, 1 tenant, 2 streams, 1 restart, 1 progress report, fair | streams and progress pages end |
| `web_token_after_failure` | as `web_two_tabs`, 1 progress report | **violated**: a failed audit leaves its token in the session |
| `web_tenant_mixup` | as `web_two_tabs`, 1 progress report | **violated**: a later login, in another tab or before going back to the confirm page, changes the tenant its audit runs on |
| `graph_fetch` | 7 selections of units, up to 3 pages, 5 attempts | users of one query, per-user states of known users, `GraphFetch` implements `TenantFetch`, the fetch is bounded and ends |
| `audit_run` | web: every audit, every pair, unknown ids; CLI: every category, every way to connect; 4 tenants; every outcome of every unit; up to one broken rule | no invented and no overlooked finding, hidden issues are told, scopes suffice (but for ids sent to the web that name no audit) and are minimal |
| `audit_caveat_gaps` | the same | **violated**: four units have no caveat when they could not be read |
| `host` | 2 web processes, 2 audits with one file name, 3 secrets, 2 URLs, 2 formats, 3 starts | cookies survive restarts, prices name their source, downloads are the audit's own, each unless two processes meet in the way the property names |
| `profiles` | 1 profile, 1 web login and 2 commands at a time, any number in sequence, 3 ticks of the clock | `Profiles` implements `ProfileBook`: creation date and record of use survive; nothing is used before it was created |
| `profiles_write_back` | the same with 2 client IDs | **violated**: the write-back wipes the notes |
| `analysis` | 15,782 tenants in nine families: seats, one account, two accounts, duplicates, subscriptions, registrations, policies, settings, unread units | rules, inventory, totals, summary and the three files agree; no seat saved twice, and the savings in every file bounded; administrators covered and shown; Conditional Access findings mean what they say; every SKU is told; unread is never empty; duplicates are bounded; a quarter unused is high |
| `analysis_inactive` | the same | **violated**: savings on licenses of suspended subscriptions |

The violations are disagreements between the code and its documentation; each is
quoted in `PROJECT.json` under `findings`.

Why the bounds are enough.

* Web: every hazard listed concerns two logins, two tabs or two streams on one or
  two sessions, and one restart separates a cookie from its session.  A task is
  between its start and its end with or without a progress report; the one of
  `web_one_tab` is what a stream delivers before it ends.
* Graph: three pages give a first, a middle and a last one to fail on, the number
  of attempts is the code's.  The selections put each kind of fetcher alone and
  next to the one it depends on (per-user MFA states need users).
* Audits: findings depend on one unit, or two, at a time, so that pairs of audits,
  the categories and the whole catalog reach every combination a rule can tell
  apart.  `MaxBroken` is 1: a broken rule must not disturb the others, and no rule
  sees another's exception.
* Host: a file is shared by a writer and one other process.  Three starts
  (`MaxStarts`) are a process that is stopped anywhere, its successor and one beside
  that, and three secrets one for each.  What follows the last start or the last secret
  is explored without audits (the constraint `MCSecretsAlone`): it is there for the
  secret file, after a process has left it empty; audits are explored with two
  starts and two secrets.  Two URLs are the one before and after a change.  The two audits have one
  format in common and one of their own.
* Profiles: the database is one row per name and no statement names two, so one
  profile is enough; two commands and a login give each statement of one job two
  others to be interrupted by.
* Analysis: each family takes the values on both sides of every comparison in the
  code (2 spare seats, ratios, 10,000 seats, 30 and 90 days, 4 administrators), two
  rows at a time where rules relate rows.  Policies take every combination of states,
  users, roles, exclusions, groups, applications, clients and controls, alone and beside
  four others; duplicates are held by guests and members, in seats that add up, so
  that R4 saves something where the savings are bounded.  The last one leaves out
  every subset of the units that may be unavailable.

The theorems below remove these bounds for all safety properties that hold.

The configurations `MCGraphFetch`, `MCAuditRun*`, `MCHost` and `MCAnalysis*` switch
off deadlock checking because a fetch, an audit or a report that is over, or a
machine on which nothing is started any more, takes no more steps.

More disagreements were seen while modelling and have no run:

* ids that match no audit run all audits: the selection resolves to nothing, and
  nothing, resolved again, to everything (`audits.py:152`, `Resolve` of `options`
  in `AuditRun`), where `CHANGELOG.md:10` says that operators choose what runs.  The
  CLI refuses such a selection, the web does not and asks for the scopes of none;
  `ScopesSuffice` exempts it by name;
* a price copy is labelled with the URL now configured, whichever card it came
  from (`pricing.py:212`; `CHANGELOG.md:52`; the formula is `SourceToldAlways` in
  `PriceCache`), and reports of tenants with one file name overwrite each other,
  also while they are downloaded (`DownloadsOwn` in `ReportFiles`); TLC refutes both
  in the `host` instance;
* after a restart the browser's cookie verifies but names no session, although
  `settings.py:142` wants sessions to survive (`WebApp`, action `Restart`);
* R8 runs before `engine.py:199` fills in display names and so shows part numbers,
  which `pricing.py:80-82` excludes;
* when all seats of an active product are in grace, R3 calls them all unused a low
  severity (`r3_unassigned_licenses.py:46` divides by the seats enabled, line 25 takes
  no seats for a ratio of 0), where line 18 says "of purchased" and `engine.py:211` that
  purchased includes grace; `QuarterUnusedIsHigh` is what holds of all other products;
* two overlaps with the same redundant product count one license twice
  (`r4_duplicate_skus.py:31`); `DuplicatesBounded` and `SavingsBounded` are the bounds
  that do hold;
* a browser sign-in without a tenant falls back to a device code (`auth.py:163`),
  which `cli.py:221` says needs one;
* a rule that raises an exception is skipped and the report does not say so;
  sections of units that were never asked for look empty, not left out; the
  document calls a tenant well managed when no rule reported, also if little could
  be read.

## Proofs

`WebApp_proofs` proves, for all sets of sessions, tenants, tabs and streams and
all numbers of steps and restarts, from the two assumptions in `WebApp`
(`NoneAssumption`, `BoundAssumption`):

* `Invariant`: `IInv` is an invariant.  `OneTenantPerSession`,
  `ReportMeansNoToken` and `PageTellsTruth` are not inductive alone.  They need
  that a session with a token or flow is in the store and never has both
  (`SessionInv`), that a stream past its check has a session, has fetched only
  after `StartAudit`, and that a session something was fetched with has no flow
  left, so that nobody signs in to it again (`RunInv`), that a terminal
  event comes last (`EventInv`), and that a page showing a stream names one
  (`PageInv`).  The proof of each part has one step per action.
* `TypeCorrect`, `OneTenant`, `ReportWithoutToken`, `ForgottenWithoutToken`,
  `PageIsRight`: the properties of `web_two_tabs`.
* `ApprovedOrMoved`: what does hold of the property that `web_tenant_mixup` refutes.
  For any number of tabs and confirm pages of any age, an audit on the session its
  confirm page was of runs on the tenant the page showed; a wrong tenant takes a cookie
  that names another session.  It takes `ApprovedInv`: what any confirm page says that
  was shown, is on a page or led to a stream is still so of its session, or the session
  holds no token any more, because a session that has been signed in to is never signed
  in to again (`NoRevival`).
* `DoneDropsToken`: what does hold of the property that `web_token_after_failure`
  refutes.  Once a stream is done, its session has no token for good: only
  `FinishAudit` makes it done (`DoneByFinish`), which wipes the session, and
  `NoRevival` keeps it wiped while other streams of it go on.
* `SessionLifeImplemented`: every step of `WebApp` is a step of `SessionLife` or
  leaves it unchanged, under the refinement mapping `Phase`, `tenant`, `Served`.

`Profiles_proofs` proves, for all sets of names, web jobs and commands and any
last tick of the clock:

* `Invariant`, `TypeCorrect`, `UsedAfterCreated`.  `CreatedBeforeUse` alone is not
  inductive: a row is dated in `Look` and written in `Put`, so that it takes that
  what is about to be stored is dated in the past and unused (`StoringInv`) and
  that no stored row is dated in the future (`DatedInv`).
* `ProfileBookImplemented`: `Put` creates a row or changes one
  (`StoreCreatesOrChanges`), `Touch` uses one or none, every other step maps to
  itself or to nothing.
* `OnlyKeepingTenantLoses`: `profiles_write_back` refutes `KeepsWhatWasSaved`; the
  theorem says who is to blame.  Of all statements of all jobs, only the `Put` of the
  command line's write-back can take the property from true to false.

`GraphFetch_proofs` proves, for any number of attempts (`MaxRetriesAssumption`),
collections of any size (`MaxSizeAssumption`) and any units asked for
(`NeededAssumption`):

* `TypeCorrect`, `UsersAlwaysOfOneQuery`, `MfaAlwaysOfKnownUsers`.  The inductive
  invariant says what the rows read so far are when page `p` is asked for: the
  first `p - 1` rows of the current query (`RowsInv`), in order for per-user states;
  what a unit may be once it was handed over (`ReadInv`); and that units are read in
  their order (`OrderInv`), without which users could come after their MFA states.
* `TenantFetchImplemented`: three lemmas say what a step can do, go on
  (`Continues`), hand over a unit (`HandsOver`, which is `ReadUnit`) or end
  (`Stops`); each action is one of them.
* `FetchAlwaysBounded`: the half of `FetchEnds` that needs no fairness.  `Fuel` is a
  number, and each step makes it smaller: an attempt leaves fewer attempts, a page
  fewer pages (`PageInv`: no page is asked for that is not there), a unit, or the
  fallback of the users query, fewer queries (`StepAdvances`, `AdvanceBurns`).  With n
  units a fetch takes at most (n + 2) * pages * (attempts + 1) steps.

`AuditRun_proofs` proves, for every set of selections and of tenants
(`SelectionsAssumption`, `IssueSetsAssumption`) and any number of broken rules:

* `TypeCorrect`, `ScopesAlwaysSuffice`, `ScopesAlwaysMinimal`, `FindingsAlwaysRight`,
  `HiddenIssueAlwaysTold`.  They need that scopes and options come from one
  selection, with which the CLI goes on only if it names an audit (`ScopesInv`), that
  what was to be read has been read with a possible result (`ReadInv`), and that
  findings are those of the rules that ran on what was read (`FoundInv`); and facts
  about the catalog: every check looks at data its own audit declares
  (`LooksAtDeclared`), every extra scope is one of its data (`ExtraScopesNeeded`).

`Host_proofs` proves, for any number of processes, audits, secrets, URLs, formats
and starts:

* `TypeCorrect`, `CookieSafe`, `SourceSafe`, `ReportsSafe`.  Each shared file has an
  inductive invariant in its own module.  `SecretInv`: the file holds what any
  process has taken from it, and is empty while one creates it.  `PriceInv`: only
  cards that were asked for get into the copy.  `FileInv`: what an undisturbed audit
  has written is its own, so is the archive on its way, and nobody else has a file
  of that name open or packs one; an archive it is packing is empty until it is closed.

`Analysis_proofs` proves, for every set of tenants and selection of rules, under
`TenantSetAssumption` (the shape of a tenant's record), `RuleIdsAssumption` and
`NoneAssumption`:

* `AdminsAlwaysCovered`, `CaFindingsAlwaysRight`, `UnverifiedAlwaysListed` and
  `DuplicatesAlwaysBounded`, from `RuleOfFinding` (a finding names the rule that made
  it) and `FindingsInvariant`;
* `ExpirationsAlwaysAgree`, `AdminsAlwaysShown`, `EverySkuAlwaysTold` and
  `UnreadAlwaysTold`, from `SheetsInvariant` as well: the report and the files are made
  of the same tenant and findings.

`SumTheorems` proves what sums over finite sets obey: `SumFunctionOnSet` takes away
an element of its own choice at a time, by a recursive function on the subsets of a
set.  Induction is over these subsets: strict inclusion is well-founded, so that a
set of subsets has a minimal one (`SubsetInduction`).  From it follow that the function
exists and is unique, that any element may be taken away (`SumRemove`), that sums
of disjoint sets, of sums and of renamed elements are what they should be, and that
adding up by users or by SKUs is the same (`SumByHolders`).

`Savings_proofs` proves, under the same assumptions and `PriceAssumption` and
`OverlapsAssumption`, of all sets of tenants with finitely many SKUs and users:

* `NoSeatEverSavedTwice`: no user is both disabled and inactive (`LongLived` is false of
  disabled users), so that both groups cost at most what all users do
  (`IdleUsersCost`).  That is the price of each SKU for each of its holders
  (`CostByHolders`), and holders and unused seats together are the usable seats of the
  bill (`BillIs`).
* `SavingsAlwaysBounded`: the findings are those of five rules with prices and of rules
  that save nothing (`TotalOfFive`); R4 counts a holder once for each overlap
  (`SavingsOfR4`), R7 each guest.
* `NumbersAlwaysAgree`: the rows R3 looks at are the paid rows with seats to spare, and
  rows without any add nothing to the column of the workbook or of the document
  (`UnusedColumn`), nor more than what the row was bought for to the subtotal.
* `TypeCorrect`: all seats, costs and savings are natural numbers.
* `HighUnlessAllInGrace`: the ratio R3 computes is never less than that of the usable
  seats, as long as a seat is enabled.

Only model-checked: liveness (`EveryStreamEnds`, `ProgressPageEnds`, `FetchEnds`), as
fairness and ENABLED are out of the prover's reach.  Of `FetchEnds`, what is left to
TLC is that a fetch which has not ended can take a step.

## Not modelled

* Microsoft Graph, MSAL and the browser are there only as the code meets them.
* Names: display names of products and users, and what a finding says.
* How JSON, a rate card or a yaml file is parsed; what is modelled starts with the
  rows, and whether they could be had.
* Of the web application: the index, help, error and health pages, which change
  nothing.  Of the client: the usage-report helper, which no fetcher calls, and how
  long it sleeps between attempts.
* Of the writers: a format they do not know, which they skip and no form or option
  offers.
* Layout, wording and order of the workbook, the document and the JSON file, and
  the hidden sheet of raw data.
* Launchers, the container image, notebooks and the script that updates product
  names: they hold no state that another part reads.

What would come next, in this order: names (R8 and the caveats), so that the order
of naming and rules is a property; the parsing of a rate card with its currencies and
periods.
