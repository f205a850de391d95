------------------------------ MODULE GraphFetch ------------------------------
(***************************************************************************)
(* The fetchers of core/fetchers/ and the Graph client under them           *)
(* (core/graph_client.py), driven by engine.fetch_tenant_data: one HTTP GET *)
(* and its answer is one step, with the retry loop, the pages of a          *)
(* collection and what each fetcher makes of a GraphError.                  *)
(*                                                                         *)
(* A collection has the same `size' rows during the whole audit, one to a   *)
(* page, on max(1, size) pages; the rows themselves are their numbers.      *)
(* Left out: URLs, headers, delays, the rows' content, and the usage-report *)
(* CSV helper, which no fetcher calls.                                      *)
(***************************************************************************)
EXTENDS TenantUnits, FiniteSets, Sequences

CONSTANTS NeededSets,   \* the sets of units an audit may ask for
          MaxRetries,   \* _MAX_RETRIES: attempts per GET, 5 in the code
          MaxSize       \* largest collection (a bound)

ASSUME NeededAssumption == NeededSets \subseteq SUBSET Units
ASSUME MaxRetriesAssumption == MaxRetries \in Nat \ {0}
ASSUME MaxSizeAssumption == MaxSize \in Nat \ {0}

\* Units read with one get_json instead of following nextLink.
Singles == {"organization", "auth_methods"}

\* HTTP statuses that the client or a fetcher tells apart.
None     == 0                     \* of a GraphError without a status
Refusals == {400, 401, 403, 404}  \* raised at once; 404 stands for the rest

VARIABLES
  needed,    \* the units the audit asked for
  size,      \* rows of every collection of the tenant
  todo,      \* units still to be read
  page,      \* the page, or the user, the current GET is for
  attempt,   \* GETs of that page that were answered with 429 or 5xx
  last,      \* status of last_exc, or None
  activity,  \* fetch_users still asks for signInActivity
  rows,      \* rows of the current unit so far
  data,      \* data[u]: rows handed to TenantData
  available, \* available[u]: the unit's availability flag
  outcome    \* "fetching", "fetched" or "failed"

request == <<page, attempt, last>>
vars    == <<needed, size, todo, page, attempt, last, activity, rows, data, available,
             outcome>>
fixed   == <<needed, size>>

\* A row remembers which of the two users queries brought it.
Row(n, a) == [n |-> n, activity |-> a]
AllRows   == [n : Nat, activity : BOOLEAN]
RowsUpTo(k, a) == [n \in 1 .. k |-> Row(n, a)]

TypeOK ==
  /\ needed \subseteq Units
  /\ size \in 0 .. MaxSize
  /\ todo \subseteq Units
  /\ page \in Nat \ {0}
  /\ attempt \in 0 .. MaxRetries
  /\ last \in {None, 500}
  /\ activity \in BOOLEAN
  /\ rows \in Seq(AllRows)
  /\ data \in [Units -> Seq(AllRows)]
  /\ available \in [Units -> BOOLEAN]
  /\ outcome \in {"fetching", "fetched", "failed"}

Init ==
  /\ size \in 0 .. MaxSize
  /\ needed \in NeededSets
  /\ todo = needed \cup {"organization"}
  /\ page = 1 /\ attempt = 0 /\ last = None
  /\ activity = TRUE
  /\ rows = <<>>
  /\ data = [u \in Units |-> <<>>]
  /\ available = [u \in Units |-> TRUE]
  /\ outcome = "fetching"

-----------------------------------------------------------------------------
(* The pieces of a request *)

Reading(u) == outcome = "fetching" /\ FirstOf(u, todo)

\* fetch_per_user_mfa with no users makes no request at all.
NoUsersFor(u) == u = "per_user_mfa" /\ data["users"] = <<>>

\* _request is about to send its next GET.
Asking(u) == Reading(u) /\ ~NoUsersFor(u) /\ attempt < MaxRetries

\* This is the last request of the fetcher's loop.
LastPage(u) == \/ u \in Singles
               \/ u = "per_user_mfa" /\ page >= Len(data["users"])
               \/ u \notin Singles \cup {"per_user_mfa"} /\ page >= size

NewRequest(n) == page' = n /\ attempt' = 0 /\ last' = None

\* The fetcher of u returns rs and the flag ok; the engine goes on.
Return(u, rs, ok) ==
  /\ data' = [data EXCEPT ![u] = rs]
  /\ available' = [available EXCEPT ![u] = ok]
  /\ rows' = <<>>
  /\ todo' = todo \ {u}
  /\ NewRequest(1)
  /\ UNCHANGED <<fixed, activity, outcome>>

GoOn(rs) == /\ rows' = rs
            /\ NewRequest(page + 1)
            /\ UNCHANGED <<fixed, todo, activity, data, available, outcome>>

\* An exception that no fetcher catches ends the audit.
Abort == /\ outcome' = "failed"
         /\ UNCHANGED <<fixed, todo, request, activity, rows, data, available>>

-----------------------------------------------------------------------------
(* What each fetcher makes of a GraphError with status s *)

\* Mutant: the pages read before the refusal are kept.
UsersErrorKeepsRows(s) ==
  \/ /\ activity /\ s \in {400, 403}
     /\ activity' = FALSE
     /\ NewRequest(1)
     /\ UNCHANGED <<fixed, todo, rows, data, available, outcome>>
  \/ ~(activity /\ s \in {400, 403}) /\ Abort

\* Mutant: every refusal of the users is answered with the simpler query.
UsersErrorAlways(s) == /\ activity' = FALSE
                       /\ rows' = <<>>
                       /\ NewRequest(1)
                       /\ UNCHANGED <<fixed, todo, data, available, outcome>>

\* fetch_users, refused its signInActivity query, starts again without it.
UsersError(s) ==
  \/ /\ activity /\ s \in {400, 403}
     /\ activity' = FALSE
     /\ rows' = <<>>
     /\ NewRequest(1)
     /\ UNCHANGED <<fixed, todo, data, available, outcome>>
  \/ ~(activity /\ s \in {400, 403}) /\ Abort

\* Mutant: the states read before the refusal are handed over.
PerUserErrorKeepsRows(u, s) ==
  \/ s \in {401, 403} /\ Return(u, rows, FALSE)
  \/ s \notin {401, 403} /\ LastPage(u) /\ Return(u, rows, rows # <<>>)
  \/ s \notin {401, 403} /\ ~LastPage(u) /\ GoOn(rows)

\* Mutant: a user whose state is refused is asked for again.
PerUserErrorRepeats(u, s) ==
  \/ s \in {401, 403} /\ Return(u, <<>>, FALSE)
  \/ s \notin {401, 403} /\ LastPage(u) /\ Return(u, rows, rows # <<>>)
  \/ /\ s \notin {401, 403} /\ ~LastPage(u)
     /\ NewRequest(page)
     /\ UNCHANGED <<fixed, todo, activity, rows, data, available, outcome>>

\* fetch_per_user_mfa gives up without permission and skips a user otherwise;
\* the states are available if any could be read.
PerUserError(u, s) ==
  \/ s \in {401, 403} /\ Return(u, <<>>, FALSE)
  \/ s \notin {401, 403} /\ LastPage(u) /\ Return(u, rows, rows # <<>>)
  \/ s \notin {401, 403} /\ ~LastPage(u) /\ GoOn(rows)

\* Mutant: an optional collection keeps the pages it has and stays available.
GraphErrorKeepsPages(u, s) ==
  \/ u \in {"organization", "skus"} /\ Abort
  \/ u = "users" /\ UsersError(s)
  \/ u = "per_user_mfa" /\ PerUserError(u, s)
  \/ u \notin Essential \cup {"per_user_mfa"} /\ Return(u, rows, TRUE)

GraphErrorRaised(u, s) ==
  \/ u \in {"organization", "skus"} /\ Abort
  \/ u = "users" /\ UsersError(s)
  \/ u = "per_user_mfa" /\ PerUserError(u, s)
  \/ u \notin Essential \cup {"per_user_mfa"} /\ Return(u, <<>>, FALSE)

\* _request gives up after its last attempt, with the last 5xx it has seen.
Exhausted(u) == /\ Reading(u) /\ ~NoUsersFor(u) /\ attempt = MaxRetries
                /\ GraphErrorRaised(u, last)

-----------------------------------------------------------------------------
(* The answers to a GET *)

\* Mutant: the loop does not count its attempts.
RetryOnceMore(u, s) == /\ Reading(u) /\ ~NoUsersFor(u) /\ attempt <= MaxRetries
                       /\ attempt' = attempt + 1
                       /\ last' = IF s = 429 THEN last ELSE s
                       /\ UNCHANGED <<fixed, todo, page, activity, rows, data,
                                      available, outcome>>

\* 429, or a 5xx, which is remembered: the client sleeps and asks again.
Retry(u, s) == /\ Asking(u)
               /\ attempt' = attempt + 1
               /\ last' = IF s = 429 THEN last ELSE s
               /\ UNCHANGED <<fixed, todo, page, activity, rows, data, available,
                              outcome>>

Refused(u, s) == Asking(u) /\ GraphErrorRaised(u, s)

\* An httpx error (no connection, a timeout) is not a GraphError, and an
\* /organization answer without a record raises RuntimeError.
Broken(u) == Asking(u) /\ Abort

\* The rows of u after a good answer.
Brought(u) == CASE u = "organization" -> RowsUpTo(1, TRUE)
                [] u = "auth_methods" -> RowsUpTo(size, TRUE)
                [] u = "users" /\ page <= size -> Append(rows, Row(page, activity))
                [] u = "per_user_mfa" -> Append(rows, Row(page, TRUE))
                [] u \notin Singles \cup {"users", "per_user_mfa"} /\ page <= size ->
                     Append(rows, Row(page, TRUE))
                [] OTHER -> rows

\* 200, and the loop goes on with nextLink or the next user.
NextPage(u) == Asking(u) /\ ~LastPage(u) /\ GoOn(Brought(u))

\* 200 on the last page: the unit is complete.
LastAnswer(u) == /\ Asking(u) /\ LastPage(u) /\ u # "users"
                 /\ Return(u, Brought(u), TRUE)

\* The same for users: the flag says whether sign-in activity was asked for
\* and at least one of the users, if there are any, brought some.
LastUsers(u) == /\ Asking(u) /\ LastPage(u) /\ u = "users"
                /\ \E seen \in BOOLEAN :
                     /\ (size = 0 => seen)
                     /\ Return(u, Brought(u), activity /\ seen)

NoUsers(u) == /\ Reading(u) /\ NoUsersFor(u)
              /\ Return(u, <<>>, TRUE)

Done == /\ outcome = "fetching" /\ todo = {}
        /\ outcome' = "fetched"
        /\ UNCHANGED <<fixed, todo, request, activity, rows, data, available>>

Next == \/ \E u \in Units :
             \/ \E s \in {429, 500} : Retry(u, s)
             \/ \E s \in Refusals : Refused(u, s)
             \/ Exhausted(u) \/ Broken(u) \/ NextPage(u) \/ LastAnswer(u)
             \/ LastUsers(u) \/ NoUsers(u)
        \/ Done

\* Graph answers every GET, or httpx's timeout does.
Spec == Init /\ [][Next]_vars /\ WF_vars(Next)

-----------------------------------------------------------------------------
(* Properties *)

\* Unit u has been read.
Read(u) == u \in needed \cup {"organization"} /\ u \notin todo

\* The users all come from one query: those read before fetch_users was refused
\* sign-in activity are not mixed with those of its second attempt, none is
\* there twice, and the flag is off if they come without activity.
UsersOfOneQuery ==
  Read("users") =>
    /\ data["users"] \in {RowsUpTo(size, TRUE), RowsUpTo(size, FALSE)}
    /\ available["users"] => data["users"] = RowsUpTo(size, TRUE)

\* Per-user MFA states are those of different users of the audit, in their
\* order; states that are not available are not shown in part either.
MfaOfKnownUsers ==
  LET mfa == data["per_user_mfa"] IN
  /\ \A i \in 1 .. Len(mfa) : mfa[i].n \in 1 .. Len(data["users"])
  /\ \A i, j \in 1 .. Len(mfa) : i < j => mfa[i].n < mfa[j].n
  /\ ~available["per_user_mfa"] => mfa = <<>>
  /\ (Read("per_user_mfa") /\ data["users"] # <<>> /\ available["per_user_mfa"])
       => mfa # <<>>

\* However Graph answers, the fetch ends: the retries of a GET are bounded, a
\* fallback happens once and the pages of a collection run out.
FetchEnds == <>(outcome # "fetching")

\* The steps a fetch may still take: for each unit left, and for a second query
\* of the users, as many pages as a collection has, with all attempts for each.
Fuel ==
  LET pages == IF size = 0 THEN 1 ELSE size
      queries == Cardinality(todo) + (IF activity THEN 1 ELSE 0)
  IN  (queries * pages + (pages - page)) * (MaxRetries + 1) + (MaxRetries - attempt)
        + (IF outcome = "fetching" THEN 1 ELSE 0)

\* How long a fetch may take: retries, pages, skipped users and the fallback of
\* fetch_users may follow each other in any order, but each uses up some of
\* what the selection and the size of the tenant allow for.
FetchBounded == [][Fuel' \in Nat /\ Fuel' < Fuel]_vars

\* The result of each unit, as TenantFetch names it.
Whole(u) == IF u = "organization" THEN {RowsUpTo(1, TRUE)}
            ELSE IF u = "users" THEN {RowsUpTo(size, a) : a \in BOOLEAN}
            ELSE IF u = "per_user_mfa" THEN {RowsUpTo(Len(data["users"]), TRUE)}
            ELSE {RowsUpTo(size, TRUE)}

ResultOf(u) ==
  IF ~Read(u) THEN "none"
  ELSE IF u # "users" /\ ~available[u] /\ data[u] = <<>> THEN "unavailable"
  ELSE IF u = "users" /\ ~available[u] /\ data[u] \in Whole(u) THEN "bare"
  ELSE IF available[u] /\ data[u] \in Whole(u) THEN "complete"
  ELSE "partial"

Got == [u \in Units |-> ResultOf(u)]

Fetch == INSTANCE TenantFetch WITH got <- Got

\* The fetchers and the client implement TenantFetch: whatever is answered on
\* whichever page, a unit is whole or declared unavailable, and an audit goes
\* on only with whole essential units.
ImplementsTenantFetch == Fetch!FetchSpec
=============================================================================
