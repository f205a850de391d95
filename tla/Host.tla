-------------------------------- MODULE Host --------------------------------
(***************************************************************************)
(* Several processes on one machine: the web application, which audits for  *)
(* many sessions, and runs of the CLI, one audit each.  They share no       *)
(* memory, but the session secret (SecretFile), the copy of the rate card   *)
(* (PriceCache) and the report files (ReportFiles).                        *)
(*                                                                         *)
(* An audit is run_audit of core/engine.py: prices, data, reports.  Prices, *)
(* reports and archives are read and written without an await, so that a    *)
(* process in the middle of one does nothing else: other processes do.      *)
(***************************************************************************)
EXTENDS SecretFile, PriceCache, ReportFiles

CONSTANTS Servers,    \* the processes that are web applications
          ProcessOf,  \* ProcessOf[a]: the process that runs audit a
          Environments,  \* what a process may find in its environment, each a record of
                 \* secret (is SESSION_SECRET set?) and url (PRICE_SOURCE_URL)
          MaxStarts   \* how often processes are started, all in all (a bound)

ASSUME HostAssumption == /\ Servers \subseteq Processes
                         /\ ProcessOf \in [Audits -> Processes]
                         /\ Environments \subseteq [secret : BOOLEAN, url : Urls \cup {NoUrl}]
                         /\ MaxStarts \in Nat

VARIABLES
  stage,   \* stage[a]: how far run_audit has come for audit a
  url,     \* url[p]: PRICE_SOURCE_URL as process p has read it
  starts   \* processes started so far

vars == <<secretVars, priceVars, fileVars, stage, url, starts>>

Stages == {"idle", "pricing", "fetching", "writing", "done", "failed"}

TypeOK ==
  /\ SecretTypeOK /\ PriceTypeOK /\ FileTypeOK
  /\ stage \in [Audits -> Stages]
  /\ url \in [Processes -> Urls \cup {NoUrl}]
  /\ starts \in 0 .. MaxStarts

Init ==
  /\ SecretInit /\ PriceInit /\ FileInit
  /\ stage = [a \in Audits |-> "idle"]
  /\ url = [p \in Processes |-> NoUrl]
  /\ starts = 0

AuditsOf(p) == {a \in Audits : ProcessOf[a] = p}

\* p has read its settings, and is not held up by prices, reports or an archive.
Free(p) == /\ resolving[p] = "ready"
           /\ \A a \in AuditsOf(p) : stage[a] \notin {"pricing", "writing"} /\ ~zipping[a]

SetStage(a, s) == stage' = [stage EXCEPT ![a] = s]

-----------------------------------------------------------------------------
(* Processes *)

\* A process starts, with the environment it finds, and reads its settings.
Start(p) ==
  /\ starts < MaxStarts
  /\ starts' = starts + 1
  /\ \E env \in Environments : /\ CallGetSettings(p, env.secret)
                               /\ url' = [url EXCEPT ![p] = env.url]
  /\ UNCHANGED <<priceVars, fileVars, stage>>

Settle(p) == /\ ResolveSecret(p)
             /\ UNCHANGED <<priceVars, fileVars, stage, url, starts>>

\* It ends: the container is stopped, the run is interrupted.
Stop(p) ==
  /\ EndSecret(p) /\ EndLoading(AuditsOf(p)) /\ EndReports(AuditsOf(p))
  /\ stage' = [a \in Audits |->
                 IF a \in AuditsOf(p) /\ stage[a] \notin {"idle", "done"}
                 THEN "failed" ELSE stage[a]]
  /\ url' = [url EXCEPT ![p] = NoUrl]
  /\ UNCHANGED starts

\* Somebody signs in, and gets a cookie.
Login(p) == /\ p \in Servers /\ Free(p)
            /\ SignCookie(p)
            /\ UNCHANGED <<priceVars, fileVars, stage, url, starts>>

-----------------------------------------------------------------------------
(* Audits *)

Begin(a) ==
  /\ stage[a] = "idle" /\ Free(ProcessOf[a])
  /\ LoadPrices(a, url[ProcessOf[a]])
  /\ SetStage(a, IF url[ProcessOf[a]] = NoUrl THEN "fetching" ELSE "pricing")
  /\ UNCHANGED <<secretVars, fileVars, url, starts>>

Price(a) ==
  /\ LoadStep(a)
  /\ SetStage(a, IF loading'[a] = "loaded" THEN "fetching" ELSE "pricing")
  /\ UNCHANGED <<secretVars, fileVars, url, starts>>

\* The data is there; build_result and write_reports follow without a break.
Fetched(a) == /\ stage[a] = "fetching" /\ Free(ProcessOf[a])
              /\ StartWriting(a)
              /\ SetStage(a, "writing")
              /\ UNCHANGED <<secretVars, priceVars, url, starts>>

FetchFails(a) == /\ stage[a] = "fetching" /\ Free(ProcessOf[a])
                 /\ SetStage(a, "failed")
                 /\ UNCHANGED <<secretVars, priceVars, fileVars, url, starts>>

Write(a) ==
  /\ \/ OpenReport(a) /\ UNCHANGED stage
     \/ CloseReport(a) /\ SetStage(a, IF at'[a] = 0 THEN "done" ELSE "writing")
     \/ WriteFails(a) /\ SetStage(a, "failed")
  /\ UNCHANGED <<secretVars, priceVars, url, starts>>

\* The operator downloads all reports from the results page.
Download(a) == /\ ProcessOf[a] \in Servers
               /\ \/ Free(ProcessOf[a]) /\ (OpenZip(a) \/ SendZip(a))
                  \/ CloseZip(a)
               /\ UNCHANGED <<secretVars, priceVars, stage, url, starts>>

Next ==
  \/ \E p \in Processes : Start(p) \/ Settle(p) \/ Stop(p) \/ Login(p)
  \/ \E a \in Audits : \/ Begin(a) \/ Price(a) \/ Fetched(a) \/ FetchFails(a)
                       \/ Write(a) \/ Download(a)

Spec == Init /\ [][Next]_vars
=============================================================================
