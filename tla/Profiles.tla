------------------------------- MODULE Profiles -------------------------------
(***************************************************************************)
(* The saved profiles: the SQL statements of core/profiles.py as the web    *)
(* application and command-line processes interleave them on one database.  *)
(* Every method of ProfileStore opens a connection per statement, so that a *)
(* statement is one step; upsert looks for the row and writes it in two.    *)
(*                                                                         *)
(* A job is one login of the web application with the audit that follows,   *)
(* or one CLI command.  Left out: names and ids as text, the prompts' other *)
(* answers, runs without a profile (they touch no row), show and list.      *)
(***************************************************************************)
EXTENDS ProfileBook

CONSTANTS Web, Cli,   \* jobs of the web process, and CLI processes
          MaxClock    \* last tick of the clock (a bound)

Jobs == Web \cup Cli

ASSUME JobsAssumption == Web \cap Cli = {}
ASSUME NothingAssumption == /\ Nothing \notin Domains \cup Tenants \cup Rows
                            /\ Never \notin Nat
ASSUME MaxClockAssumption == MaxClock \in Nat

VARIABLES at,     \* at[p]: where job p is
          name,   \* name[p]: the profile it works with
          args,   \* args[p]: the row it is about to save, or has chosen
          then,   \* then[p]: where it goes after upsert
          saved   \* saved[n]: what the operator last saved as profile n

vars == <<db, clock, at, name, args, then, saved>>

Places == {"idle", "saving", "storing", "chosen", "auditing"}

NewRow(c, d, m) == [client |-> c, domain |-> d, notes |-> m, created |-> clock,
                    used |-> Never, tenant |-> Nothing]

TypeOK == /\ db \in [Names -> Rows \cup {Nothing}]
          /\ clock \in 0 .. MaxClock
          /\ at \in [Jobs -> Places]
          /\ name \in [Jobs -> Names \cup {Nothing}]
          /\ args \in [Jobs -> Rows \cup {Nothing}]
          /\ then \in [Jobs -> Places]
          /\ saved \in [Names -> [client : Clients, notes : BOOLEAN] \cup {Nothing}]
          /\ \A p \in Jobs : at[p] # "idle" => name[p] \in Names /\ args[p] \in Rows

Init == /\ BookInit
        /\ at = [p \in Jobs |-> "idle"]
        /\ name = [p \in Jobs |-> Nothing]
        /\ args = [p \in Jobs |-> Nothing]
        /\ then = [p \in Jobs |-> "idle"]
        /\ saved = [n \in Names |-> Nothing]

\* The web process runs a handler to its end before another.
Free(p) == p \in Web => \A q \in Web \ {p} : at[q] \notin {"saving", "storing"}

Go(p, place) == at' = [at EXCEPT ![p] = place]

\* Job p is over and takes its local variables with it.
End(p) == /\ Go(p, "idle")
          /\ name' = [name EXCEPT ![p] = Nothing]
          /\ args' = [args EXCEPT ![p] = Nothing]
          /\ then' = [then EXCEPT ![p] = "idle"]

-----------------------------------------------------------------------------
(* ProfileStore.upsert *)

\* upsert(n, ...) with the values of row is called; the job goes on at place.
CallUpsert(p, n, row, place) ==
  /\ Go(p, "saving")
  /\ name' = [name EXCEPT ![p] = n]
  /\ args' = [args EXCEPT ![p] = row]
  /\ then' = [then EXCEPT ![p] = place]
  /\ UNCHANGED <<db, clock, saved>>

\* upsert's get: the creation date of the row that is there, or now.
Look(p) ==
  /\ at[p] = "saving"
  /\ LET row == db[name[p]] IN
       args' = [args EXCEPT ![p].created = IF row = Nothing THEN clock ELSE row.created]
  /\ Go(p, "storing")
  /\ UNCHANGED <<db, clock, name, then, saved>>

\* Mutant: the row is replaced (INSERT OR REPLACE), and its use forgotten.
StoreReplaces(n, row) == db' = [db EXCEPT ![n] = row]

\* Mutant: the update sets created_at, too, to what the INSERT would have.
StoreRedates(n, row) ==
  db' = [db EXCEPT ![n] = IF @ = Nothing THEN row
                          ELSE [@ EXCEPT !.client = row.client, !.domain = row.domain,
                                         !.notes = row.notes, !.created = clock]]

\* INSERT ... ON CONFLICT(name) DO UPDATE SET client_id, tenant_domain, notes
Store(n, row) ==
  db' = [db EXCEPT ![n] = IF @ = Nothing THEN row
                          ELSE [@ EXCEPT !.client = row.client, !.domain = row.domain,
                                         !.notes = row.notes]]

Put(p) ==
  /\ at[p] = "storing" /\ Free(p)
  /\ Store(name[p], args[p])
  /\ saved' = IF then[p] = "auditing" /\ p \in Cli THEN saved
              ELSE [saved EXCEPT ![name[p]] =
                      [client |-> args[p].client, notes |-> args[p].notes]]
  /\ IF then[p] = "idle" THEN End(p)
     ELSE Go(p, then[p]) /\ UNCHANGED <<name, args, then>>
  /\ UNCHANGED clock

-----------------------------------------------------------------------------
(* The web application *)

\* /auth/login with the name of a new (or of an existing) profile.
WebSave(p, n, c) ==
  /\ p \in Web /\ at[p] = "idle" /\ Free(p)
  /\ CallUpsert(p, n, NewRow(c, Nothing, FALSE), "auditing")

\* Mutant: a name that is not saved is not told from one that is.
ChooseUnchecked(p, n, d, place) ==
  /\ at[p] = "idle" /\ Free(p)
  /\ Go(p, place)
  /\ name' = [name EXCEPT ![p] = n]
  /\ args' = [args EXCEPT ![p] = IF db[n] = Nothing THEN Nothing
                                 ELSE [db[n] EXCEPT !.domain = IF d # Nothing THEN d ELSE @]]
  /\ UNCHANGED <<db, clock, then, saved>>

\* /auth/login with a saved profile, or `run --profile' and the interactive
\* picker: the row is read, and the CLI may have been given a tenant d.
Choose(p, n, d, place) ==
  /\ at[p] = "idle" /\ Free(p) /\ db[n] # Nothing
  /\ Go(p, place)
  /\ name' = [name EXCEPT ![p] = n]
  /\ args' = [args EXCEPT ![p] = [db[n] EXCEPT !.domain = IF d # Nothing THEN d ELSE @]]
  /\ UNCHANGED <<db, clock, then, saved>>

WebLogin(p, n) == p \in Web /\ Choose(p, n, Nothing, "auditing")

-----------------------------------------------------------------------------
(* The command line *)

CliChoose(p, n, d) == p \in Cli /\ Choose(p, n, d, "chosen")

\* The picker's "Enter a new client ID", saved under a name.
CliNew(p, n, c, d) == /\ p \in Cli /\ at[p] = "idle"
                      /\ CallUpsert(p, n, NewRow(c, d, FALSE), "chosen")

\* profiles add
CliAdd(p, n, c, d, m) == /\ p \in Cli /\ at[p] = "idle"
                         /\ CallUpsert(p, n, NewRow(c, d, m), "idle")

\* profiles remove
CliRemove(p, n) == /\ p \in Cli /\ at[p] = "idle"
                   /\ Remove(n)
                   /\ saved' = [saved EXCEPT ![n] = Nothing]
                   /\ UNCHANGED <<at, name, args, then>>

\* A device-code run whose profile has no tenant asks for one.
AskTenant(p, d) ==
  /\ at[p] = "chosen" /\ args[p].domain = Nothing
  /\ args' = [args EXCEPT ![p].domain = d]
  /\ UNCHANGED <<db, clock, at, name, then, saved>>

\* The tenant is kept for next time if the profile is there and has none;
\* a browser run without a tenant has none to keep.
WriteBack(p) ==
  /\ at[p] = "chosen"
  /\ LET row == db[name[p]] IN
       IF args[p].domain # Nothing /\ row # Nothing /\ row.domain = Nothing
       THEN CallUpsert(p, name[p], NewRow(args[p].client, args[p].domain, FALSE), "auditing")
       ELSE Go(p, "auditing") /\ UNCHANGED <<db, clock, name, args, then, saved>>

-----------------------------------------------------------------------------
\* The audit of tenant x is over: touch updates the row, if there is one.
Touch(p, x) ==
  /\ at[p] = "auditing" /\ Free(p)
  /\ db' = [db EXCEPT ![name[p]] = IF @ = Nothing THEN Nothing
                                   ELSE [@ EXCEPT !.used = clock, !.tenant = x]]
  /\ End(p)
  /\ UNCHANGED <<clock, saved>>

\* An error of the write-back, a locked database for one, is swallowed.
SkipWriteBack(p) == /\ p \in Cli /\ then[p] = "auditing" /\ at[p] \in {"saving", "storing"}
                    /\ Go(p, "auditing")
                    /\ UNCHANGED <<db, clock, name, args, then, saved>>

\* The audit fails, the operator stops, the process dies, or the database is
\* locked for too long: what was stored stays.
Quit(p) == at[p] # "idle" /\ End(p) /\ UNCHANGED <<db, clock, saved>>

Tick == /\ clock < MaxClock /\ clock' = clock + 1
        /\ UNCHANGED <<db, at, name, args, then, saved>>

Next ==
  \/ \E p \in Jobs : \/ Look(p) \/ Put(p) \/ WriteBack(p) \/ SkipWriteBack(p) \/ Quit(p)
                     \/ \E x \in Tenants : Touch(p, x)
                     \/ \E d \in Domains : AskTenant(p, d)
  \/ \E p \in Jobs, n \in Names :
       \/ WebLogin(p, n) \/ CliRemove(p, n)
       \/ \E c \in Clients : WebSave(p, n, c)
       \/ \E d \in Domains \cup {Nothing} : CliChoose(p, n, d)
       \/ \E c \in Clients, d \in Domains \cup {Nothing} :
            CliNew(p, n, c, d) \/ \E m \in BOOLEAN : CliAdd(p, n, c, d, m)
  \/ Tick

Spec == Init /\ [][Next]_vars

-----------------------------------------------------------------------------
(* Properties *)

\* upsert "preserves created_at on update", and a record of use, whatever other
\* process saves, removes or uses the profile between its two statements.
ImplementsProfileBook == BookSpec

\* No profile was used before it was created, though upsert dates a row before
\* it writes it and may write it after another process has.
CreatedBeforeUse ==
  \A n \in Names : (db[n] # Nothing /\ db[n].used # Never) => db[n].created <= db[n].used

\* A profile has the client ID and the notes the operator last saved it with:
\* keeping the tenant for next time changes the tenant.
KeepsWhatWasSaved ==
  \A n \in Names : (db[n] # Nothing /\ saved[n] # Nothing) =>
    db[n].client = saved[n].client /\ db[n].notes = saved[n].notes
=============================================================================
