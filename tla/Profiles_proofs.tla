--------------------------- MODULE Profiles_proofs ---------------------------
(***************************************************************************)
(* Theorems about Profiles, for any number of jobs and profiles.           *)
(***************************************************************************)
EXTENDS Profiles, TLAPS

\* What is about to be stored was dated in the past and was never used.
Fresh(row) == row.created <= clock /\ row.used = Never /\ row.tenant = Nothing

StoringInv == \A p \in Jobs : at[p] \in {"saving", "storing"} => Fresh(args[p])

\* No row is dated in the future.
DatedInv == \A n \in Names : db[n] # Nothing => db[n].created <= clock

IInv == TypeOK /\ StoringInv /\ DatedInv /\ CreatedBeforeUse

\* A row of upsert's arguments, as it is first made, is a fresh row.
LEMMA NewRowIsFresh ==
  ASSUME TypeOK, NEW c \in Clients, NEW d \in Domains \cup {Nothing}, NEW m \in BOOLEAN
  PROVE  NewRow(c, d, m) \in Rows /\ Fresh(NewRow(c, d, m))
  BY DEF TypeOK, NewRow, Rows, Fresh

\* Nothing is no row, so that Look and Store can tell whether there is one.
LEMMA NothingIsNoRow == Nothing \notin Rows /\ Nothing \notin Domains /\ Never \notin Nat
  BY NothingAssumption

-----------------------------------------------------------------------------
LEMMA InitOK == Init => IInv
  BY NothingIsNoRow, MaxClockAssumption
  DEF Init, BookInit, NoRows, IInv, TypeOK, StoringInv, DatedInv, CreatedBeforeUse, Places

\* The arguments of upsert are a row: what follows the call is at a place.
LEMMA CallUpsertOK ==
  ASSUME IInv, NEW p \in Jobs, NEW n \in Names, NEW place \in {"idle", "chosen", "auditing"},
         NEW c \in Clients, NEW d \in Domains \cup {Nothing}, NEW m \in BOOLEAN,
         CallUpsert(p, n, NewRow(c, d, m), place)
  PROVE  IInv'
<1> DEFINE row == NewRow(c, d, m)
<1>1. row \in Rows /\ Fresh(row)
  BY NewRowIsFresh DEF IInv
<1> HIDE DEF row
<1>2. CallUpsert(p, n, row, place)
  BY DEF row
<1>3. TypeOK'
  BY <1>1, <1>2 DEF IInv, TypeOK, CallUpsert, Go, Places
<1>4. StoringInv'
  BY <1>1, <1>2 DEF IInv, TypeOK, StoringInv, Fresh, CallUpsert, Go, Places
<1>5. DatedInv' /\ CreatedBeforeUse'
  BY <1>2 DEF IInv, DatedInv, CreatedBeforeUse, CallUpsert
<1> QED BY <1>3, <1>4, <1>5 DEF IInv

LEMMA LookOK == ASSUME IInv, NEW p \in Jobs, Look(p) PROVE IInv'
<1>1. name[p] \in Names /\ args[p] \in Rows /\ Fresh(args[p])
  BY DEF IInv, TypeOK, StoringInv, Look
<1> DEFINE date == IF db[name[p]] = Nothing THEN clock ELSE db[name[p]].created
<1>2. date \in Nat /\ date <= clock
  BY <1>1, NothingIsNoRow, MaxClockAssumption DEF IInv, TypeOK, DatedInv, Rows
<1>3. args' = [args EXCEPT ![p].created = date] /\ at' = [at EXCEPT ![p] = "storing"]
  BY DEF Look, Go
<1> HIDE DEF date
<1>4. [args[p] EXCEPT !.created = date] \in Rows
  BY <1>1, <1>2 DEF Rows
<1>5. TypeOK'
  BY <1>1, <1>3, <1>4 DEF IInv, TypeOK, Look, Places
<1>6. StoringInv'
  BY <1>1, <1>2, <1>3 DEF IInv, TypeOK, StoringInv, Fresh, Look, Places, Rows
<1>7. DatedInv' /\ CreatedBeforeUse'
  BY DEF IInv, DatedInv, CreatedBeforeUse, Look
<1> QED BY <1>5, <1>6, <1>7 DEF IInv

\* Whatever else a step does, a job that is over leaves the invariant as it is.
LEMMA EndOK ==
  ASSUME IInv, NEW p \in Jobs, End(p), UNCHANGED clock
  PROVE  /\ at' \in [Jobs -> Places] /\ then' \in [Jobs -> Places]
         /\ name' \in [Jobs -> Names \cup {Nothing}]
         /\ args' \in [Jobs -> Rows \cup {Nothing}]
         /\ \A q \in Jobs : at'[q] # "idle" => name'[q] \in Names /\ args'[q] \in Rows
         /\ StoringInv'
  BY DEF IInv, TypeOK, StoringInv, Fresh, End, Go, Places

-----------------------------------------------------------------------------
(* upsert's second statement creates a row, or changes one. *)

LEMMA StoreCreatesOrChanges ==
  ASSUME IInv, NEW p \in Jobs, Put(p)
  PROVE  /\ Create(name[p]) \/ Change(name[p])
         /\ db' \in [Names -> Rows \cup {Nothing}]
         /\ DatedInv' /\ CreatedBeforeUse'
<1> DEFINE n == name[p]
<1> DEFINE row == args[p]
<1>1. n \in Names /\ row \in Rows /\ Fresh(row)
  BY DEF IInv, TypeOK, StoringInv, Put
<1>2. db \in [Names -> Rows \cup {Nothing}] /\ clock' = clock /\ clock \in Nat
  BY MaxClockAssumption DEF IInv, TypeOK, Put
<1>3. Store(n, row)
  BY DEF Put
<1> HIDE DEF n, row
<1>4. CASE db[n] = Nothing
  <2>1. db' = [db EXCEPT ![n] = row]
    BY <1>2, <1>3, <1>4 DEF Store
  <2>2. Create(n)
    BY <1>1, <1>2, <1>4, <2>1 DEF Create, Fresh
  <2>3. DatedInv' /\ CreatedBeforeUse'
    BY <1>1, <1>2, <2>1 DEF IInv, DatedInv, CreatedBeforeUse, Fresh
  <2> QED BY <1>1, <1>2, <2>1, <2>2, <2>3 DEF n
<1>5. CASE db[n] # Nothing
  <2> DEFINE new == [db[n] EXCEPT !.client = row.client, !.domain = row.domain,
                                  !.notes = row.notes]
  <2>1. db[n] \in Rows
    BY <1>1, <1>2, <1>5
  <2>2. /\ row.client \in Clients /\ row.domain \in Domains \cup {Nothing}
        /\ row.notes \in BOOLEAN
    BY <1>1 DEF Rows
  <2>3. db' = [db EXCEPT ![n] = new]
    BY <1>2, <1>3, <1>5 DEF Store
  <2>4. new \in Rows /\ new.created = db[n].created /\ new.used = db[n].used
    BY <2>1, <2>2 DEF Rows
  <2>5. db' = [db EXCEPT ![n].client = row.client, ![n].domain = row.domain,
                         ![n].notes = row.notes]
    BY <1>1, <1>2, <2>1, <2>3 DEF Rows
  <2>6. Change(n)
    BY <1>2, <1>5, <2>2, <2>5 DEF Change
  <2> HIDE DEF new
  <2>7. DatedInv' /\ CreatedBeforeUse'
    BY <1>1, <1>2, <1>5, <2>3, <2>4 DEF IInv, DatedInv, CreatedBeforeUse
  <2> QED BY <1>1, <1>2, <2>3, <2>4, <2>6, <2>7 DEF n
<1> QED BY <1>4, <1>5

LEMMA PutOK == ASSUME IInv, NEW p \in Jobs, Put(p) PROVE IInv'
<1>1. name[p] \in Names /\ args[p] \in Rows /\ clock' = clock
  BY DEF IInv, TypeOK, Put
<1>2. saved' \in [Names -> [client : Clients, notes : BOOLEAN] \cup {Nothing}]
  BY <1>1 DEF IInv, TypeOK, Put, Rows
<1>3. /\ at' \in [Jobs -> Places] /\ then' \in [Jobs -> Places]
      /\ name' \in [Jobs -> Names \cup {Nothing}]
      /\ args' \in [Jobs -> Rows \cup {Nothing}]
      /\ \A q \in Jobs : at'[q] # "idle" => name'[q] \in Names /\ args'[q] \in Rows
  <2>1. CASE then[p] = "idle"
    BY <1>1, <2>1, EndOK DEF Put
  <2>2. CASE then[p] # "idle"
    BY <1>1, <2>2 DEF IInv, TypeOK, Put, Go
  <2> QED BY <2>1, <2>2
<1>4. StoringInv'
  <2>1. CASE then[p] = "idle"
    BY <1>1, <2>1, EndOK DEF Put
  <2>2. CASE then[p] # "idle"
    BY <1>1, <2>2 DEF IInv, TypeOK, StoringInv, Fresh, Put, Go
  <2> QED BY <2>1, <2>2
<1> QED BY <1>1, <1>2, <1>3, <1>4, StoreCreatesOrChanges DEF IInv, TypeOK

-----------------------------------------------------------------------------
(* The steps that do not touch a row, and the two that do *)

LEMMA ChooseOK ==
  ASSUME IInv, NEW p \in Jobs, NEW n \in Names, NEW d \in Domains \cup {Nothing},
         NEW place \in {"chosen", "auditing"}, Choose(p, n, d, place)
  PROVE  IInv'
<1> DEFINE row == [db[n] EXCEPT !.domain = IF d # Nothing THEN d ELSE @]
<1>1. db[n] \in Rows
  BY DEF IInv, TypeOK, Choose
<1>2. row \in Rows
  BY <1>1 DEF Rows
<1>3. args' = [args EXCEPT ![p] = row] /\ at' = [at EXCEPT ![p] = place]
  BY DEF Choose, Go
<1> HIDE DEF row
<1>4. TypeOK'
  BY <1>2, <1>3 DEF IInv, TypeOK, Choose, Places
<1>5. StoringInv' /\ DatedInv' /\ CreatedBeforeUse'
  BY <1>3 DEF IInv, TypeOK, StoringInv, Fresh, DatedInv, CreatedBeforeUse, Choose
<1> QED BY <1>4, <1>5 DEF IInv

LEMMA AskTenantOK ==
  ASSUME IInv, NEW p \in Jobs, NEW d \in Domains, AskTenant(p, d) PROVE IInv'
<1>1. args[p] \in Rows /\ [args[p] EXCEPT !.domain = d] \in Rows
  BY DEF IInv, TypeOK, AskTenant, Rows
<1>2. args' = [args EXCEPT ![p] = [args[p] EXCEPT !.domain = d]]
  BY <1>1 DEF IInv, TypeOK, AskTenant
<1>3. TypeOK'
  BY <1>1, <1>2 DEF IInv, TypeOK, AskTenant
<1>4. StoringInv' /\ DatedInv' /\ CreatedBeforeUse'
  BY <1>2 DEF IInv, TypeOK, StoringInv, Fresh, DatedInv, CreatedBeforeUse, AskTenant
<1> QED BY <1>3, <1>4 DEF IInv

\* A job only goes on to its audit, or ends.
LEMMA MoveOK ==
  ASSUME IInv, NEW p \in Jobs, UNCHANGED <<db, clock, saved>>,
         \/ End(p)
         \/ at[p] # "idle" /\ Go(p, "auditing") /\ UNCHANGED <<name, args, then>>
  PROVE  IInv'
<1>1. CASE End(p)
  BY <1>1, EndOK DEF IInv, TypeOK, DatedInv, CreatedBeforeUse
<1>2. CASE at[p] # "idle" /\ Go(p, "auditing") /\ UNCHANGED <<name, args, then>>
  BY <1>2 DEF IInv, TypeOK, StoringInv, Fresh, DatedInv, CreatedBeforeUse, Go, Places
<1> QED BY <1>1, <1>2

LEMMA WriteBackOK == ASSUME IInv, NEW p \in Jobs, WriteBack(p) PROVE IInv'
<1>1. name[p] \in Names /\ args[p].client \in Clients /\ args[p].domain \in Domains \cup {Nothing}
  BY DEF IInv, TypeOK, WriteBack, Rows
<1>2. CASE CallUpsert(p, name[p], NewRow(args[p].client, args[p].domain, FALSE), "auditing")
  BY <1>1, <1>2, CallUpsertOK
<1>3. CASE Go(p, "auditing") /\ UNCHANGED <<db, clock, name, args, then, saved>>
  BY <1>3, MoveOK DEF WriteBack
<1> QED BY <1>2, <1>3 DEF WriteBack

LEMMA TouchOK ==
  ASSUME IInv, NEW p \in Jobs, NEW x \in Tenants, Touch(p, x)
  PROVE  /\ db' = db \/ Use(name[p])
         /\ IInv'
<1> DEFINE n == name[p]
<1>1. n \in Names /\ clock' = clock /\ clock \in Nat /\ db \in [Names -> Rows \cup {Nothing}]
  BY MaxClockAssumption DEF IInv, TypeOK, Touch
<1>2. TypeOK' /\ StoringInv' <=> db' \in [Names -> Rows \cup {Nothing}]
  BY <1>1, EndOK DEF IInv, TypeOK, Touch
<1> HIDE DEF n
<1>3. CASE db[n] = Nothing
  <2>1. db' = db
    BY <1>1, <1>3 DEF Touch, n
  <2> QED BY <1>1, <1>2, <2>1 DEF IInv, TypeOK, DatedInv, CreatedBeforeUse
<1>4. CASE db[n] # Nothing
  <2> DEFINE new == [db[n] EXCEPT !.used = clock, !.tenant = x]
  <2>1. db[n] \in Rows
    BY <1>1, <1>4
  <2>2. new \in Rows /\ new.created = db[n].created /\ new.used = clock
    BY <1>1, <2>1 DEF Rows
  <2>3. db' = [db EXCEPT ![n] = new]
    BY <1>1, <1>4 DEF Touch, n
  <2>4. db' = [db EXCEPT ![n].used = clock, ![n].tenant = x]
    BY <1>1, <2>1, <2>3 DEF Rows
  <2>5. Use(n)
    BY <1>1, <1>4, <2>4 DEF Use
  <2> HIDE DEF new
  <2>6. DatedInv' /\ CreatedBeforeUse'
    BY <1>1, <1>4, <2>2, <2>3 DEF IInv, DatedInv, CreatedBeforeUse
  <2> QED BY <1>1, <1>2, <2>2, <2>3, <2>5, <2>6 DEF IInv, n
<1> QED BY <1>3, <1>4

LEMMA CliRemoveOK ==
  ASSUME IInv, NEW p \in Jobs, NEW n \in Names, CliRemove(p, n) PROVE IInv'
  BY DEF IInv, TypeOK, StoringInv, Fresh, DatedInv, CreatedBeforeUse, CliRemove, Remove

LEMMA TickOK == ASSUME IInv, Tick PROVE IInv'
<1>1. clock \in Nat /\ clock' = clock + 1 /\ clock' \in 0 .. MaxClock
  BY MaxClockAssumption DEF IInv, TypeOK, Tick
<1>2. TypeOK'
  BY <1>1 DEF IInv, TypeOK, Tick
<1>3. StoringInv'
  BY <1>1 DEF IInv, TypeOK, StoringInv, Fresh, Tick, Places, Rows
<1>4. DatedInv' /\ CreatedBeforeUse'
  BY <1>1 DEF IInv, TypeOK, DatedInv, CreatedBeforeUse, Tick, Rows
<1> QED BY <1>2, <1>3, <1>4 DEF IInv

-----------------------------------------------------------------------------
(* The invariant *)

LEMMA StepOK == ASSUME IInv, [Next]_vars PROVE IInv'
<1>1. CASE UNCHANGED vars
  BY <1>1 DEF IInv, TypeOK, StoringInv, Fresh, DatedInv, CreatedBeforeUse, vars
<1>2. ASSUME NEW p \in Jobs,
             \/ Look(p) \/ Put(p) \/ WriteBack(p) \/ SkipWriteBack(p) \/ Quit(p)
             \/ \E x \in Tenants : Touch(p, x)
             \/ \E d \in Domains : AskTenant(p, d)
      PROVE  IInv'
  <2>1. CASE Look(p)
    BY <2>1, LookOK
  <2>2. CASE Put(p)
    BY <2>2, PutOK
  <2>3. CASE WriteBack(p)
    BY <2>3, WriteBackOK
  <2>4. CASE SkipWriteBack(p) \/ Quit(p)
    BY <2>4, MoveOK DEF SkipWriteBack, Quit
  <2>5. CASE \E x \in Tenants : Touch(p, x)
    BY <2>5, TouchOK
  <2>6. CASE \E d \in Domains : AskTenant(p, d)
    BY <2>6, AskTenantOK
  <2> QED BY <1>2, <2>1, <2>2, <2>3, <2>4, <2>5, <2>6
<1>3. ASSUME NEW p \in Jobs, NEW n \in Names, NEW d \in Domains \cup {Nothing},
             WebLogin(p, n) \/ CliChoose(p, n, d)
      PROVE  IInv'
  BY <1>3, ChooseOK DEF WebLogin, CliChoose
<1>4. ASSUME NEW p \in Jobs, NEW n \in Names, NEW c \in Clients,
             NEW d \in Domains \cup {Nothing}, NEW m \in BOOLEAN,
             WebSave(p, n, c) \/ CliNew(p, n, c, d) \/ CliAdd(p, n, c, d, m)
      PROVE  IInv'
  BY <1>4, CallUpsertOK DEF WebSave, CliNew, CliAdd
<1>5. ASSUME NEW p \in Jobs, NEW n \in Names, CliRemove(p, n) PROVE IInv'
  BY <1>5, CliRemoveOK
<1> QED BY <1>1, <1>2, <1>3, <1>4, <1>5, TickOK DEF Next

\* The inductive invariant holds in every reachable state: what upsert is about
\* to write is dated in the past, whatever other processes do in between.
THEOREM Invariant == Spec => []IInv
<1>1. Init => IInv
  BY InitOK
<1>2. IInv /\ [Next]_vars => IInv'
  BY StepOK
<1> QED BY <1>1, <1>2, PTL DEF Spec

\* Every variable of Profiles keeps its type.
THEOREM TypeCorrect == Spec => []TypeOK
<1>1. IInv => TypeOK
  BY DEF IInv
<1> QED BY <1>1, Invariant, PTL

\* No profile is used before it was created (ProfileStore.upsert and touch).
THEOREM UsedAfterCreated == Spec => []CreatedBeforeUse
<1>1. IInv => CreatedBeforeUse
  BY DEF IInv
<1> QED BY <1>1, Invariant, PTL

-----------------------------------------------------------------------------
(* The refinement *)

LEMMA StepRefines == ASSUME IInv, [Next]_vars PROVE [BookNext]_bookVars
<1>1. CASE UNCHANGED vars
  BY <1>1 DEF vars, bookVars
<1>2. ASSUME NEW p \in Jobs, Put(p) PROVE BookNext
  <2>1. name[p] \in Names
    BY <1>2 DEF IInv, TypeOK, Put
  <2> QED BY <1>2, <2>1, StoreCreatesOrChanges DEF BookNext
<1>3. ASSUME NEW p \in Jobs, NEW x \in Tenants, Touch(p, x) PROVE BookNext \/ UNCHANGED bookVars
  <2>1. name[p] \in Names /\ clock' = clock
    BY <1>3 DEF IInv, TypeOK, Touch
  <2> QED BY <1>3, <2>1, TouchOK DEF BookNext, bookVars
<1>4. ASSUME NEW p \in Jobs, NEW n \in Names, CliRemove(p, n) PROVE BookNext
  BY <1>4 DEF CliRemove, BookNext
<1>5. CASE Tick
  BY <1>5, MaxClockAssumption DEF IInv, TypeOK, Tick, BookNext, Pass
<1>6. ASSUME NEW p \in Jobs, NEW n \in Names, NEW d \in Domains \cup {Nothing},
             WebLogin(p, n) \/ CliChoose(p, n, d)
      PROVE  UNCHANGED bookVars
  BY <1>6 DEF WebLogin, CliChoose, Choose, bookVars
<1>7. ASSUME NEW p \in Jobs, NEW n \in Names, NEW c \in Clients,
             NEW d \in Domains \cup {Nothing}, NEW m \in BOOLEAN,
             WebSave(p, n, c) \/ CliNew(p, n, c, d) \/ CliAdd(p, n, c, d, m)
      PROVE  UNCHANGED bookVars
  BY <1>7 DEF WebSave, CliNew, CliAdd, CallUpsert, bookVars
<1>8. ASSUME NEW p \in Jobs, Look(p) \/ WriteBack(p) \/ SkipWriteBack(p) \/ Quit(p)
      PROVE  UNCHANGED bookVars
  BY <1>8 DEF Look, WriteBack, CallUpsert, SkipWriteBack, Quit, bookVars
<1>9. ASSUME NEW p \in Jobs, NEW d \in Domains, AskTenant(p, d) PROVE UNCHANGED bookVars
  BY <1>9 DEF AskTenant, bookVars
<1> QED BY <1>1, <1>2, <1>3, <1>4, <1>5, <1>6, <1>7, <1>8, <1>9 DEF Next

\* Profiles implements ProfileBook: however the statements of its jobs
\* interleave, a profile keeps its creation date and its record of use.
THEOREM ProfileBookImplemented == Spec => ImplementsProfileBook
<1>1. Init => BookInit
  BY DEF Init
<1>2. IInv /\ [Next]_vars => [BookNext]_bookVars
  BY StepRefines
<1> QED BY <1>1, <1>2, Invariant, PTL DEF Spec, ImplementsProfileBook, BookSpec

-----------------------------------------------------------------------------
(* Who can lose what the operator saved *)

\* The command line keeps the tenant of a run for next time: upsert's second
\* statement, with the client ID read before and with no notes.
KeepsTenant(p) == p \in Cli /\ then[p] = "auditing" /\ Put(p)

\* What every other upsert stores is what the operator saves with it.
LEMMA SaveKeeps ==
  ASSUME IInv, KeepsWhatWasSaved, NEW p \in Jobs, Put(p), ~KeepsTenant(p)
  PROVE  KeepsWhatWasSaved'
<1>1. name[p] \in Names /\ args[p] \in Rows
  BY DEF IInv, TypeOK, Put
<1>2. saved' = [saved EXCEPT ![name[p]] = [client |-> args[p].client, notes |-> args[p].notes]]
  BY DEF Put, KeepsTenant
<1>3. db'[name[p]].client = args[p].client /\ db'[name[p]].notes = args[p].notes
  <2>1. CASE db[name[p]] = Nothing
    BY <1>1, <2>1 DEF Put, Store, IInv, TypeOK
  <2>2. CASE db[name[p]] # Nothing
    <3>1. db[name[p]] \in Rows
      BY <1>1, <2>2 DEF IInv, TypeOK
    <3> QED BY <1>1, <2>2, <3>1 DEF Put, Store, IInv, TypeOK, Rows
  <2> QED BY <2>1, <2>2
<1>4. \A n \in Names : n # name[p] => db'[n] = db[n] /\ saved'[n] = saved[n]
  BY <1>2 DEF Put, Store, IInv, TypeOK
<1>5. saved'[name[p]] = [client |-> args[p].client, notes |-> args[p].notes]
  BY <1>1, <1>2 DEF IInv, TypeOK
<1> QED BY <1>3, <1>4, <1>5 DEF KeepsWhatWasSaved

\* touch changes neither the client ID nor the notes.
LEMMA TouchKeeps ==
  ASSUME IInv, KeepsWhatWasSaved, NEW p \in Jobs, NEW x \in Tenants, Touch(p, x)
  PROVE  KeepsWhatWasSaved'
<1>1. saved' = saved
  BY DEF Touch
<1>2. ASSUME NEW n \in Names, db'[n] # Nothing
      PROVE  /\ db[n] # Nothing
             /\ db'[n].client = db[n].client /\ db'[n].notes = db[n].notes
  <2>1. CASE n # name[p]
    BY <1>2, <2>1 DEF Touch, IInv, TypeOK
  <2>2. CASE n = name[p]
    <3>1. db[n] # Nothing
      BY <1>2, <2>2 DEF Touch, IInv, TypeOK
    <3>2. db[n] \in Rows
      BY <3>1 DEF IInv, TypeOK
    <3> QED BY <2>2, <3>1, <3>2 DEF Touch, IInv, TypeOK, Rows
  <2> QED BY <2>1, <2>2
<1> QED BY <1>1, <1>2 DEF KeepsWhatWasSaved

\* Every step but that one keeps what was saved.
LEMMA StepKeeps ==
  ASSUME IInv, [Next]_vars, KeepsWhatWasSaved
  PROVE  KeepsWhatWasSaved' \/ \E p \in Jobs : KeepsTenant(p)
<1>1. CASE UNCHANGED <<db, saved>>
  BY <1>1 DEF KeepsWhatWasSaved
<1>2. ASSUME NEW p \in Jobs, Put(p) PROVE KeepsWhatWasSaved' \/ KeepsTenant(p)
  BY <1>2, SaveKeeps
<1>3. ASSUME NEW p \in Jobs, NEW x \in Tenants, Touch(p, x) PROVE KeepsWhatWasSaved'
  BY <1>3, TouchKeeps
<1>4. ASSUME NEW p \in Jobs, NEW n \in Names, CliRemove(p, n) PROVE KeepsWhatWasSaved'
  <2>1. /\ saved'[n] = Nothing
        /\ \A m \in Names : m # n => db'[m] = db[m] /\ saved'[m] = saved[m]
    BY <1>4 DEF CliRemove, Remove, IInv, TypeOK
  <2> QED BY <2>1 DEF KeepsWhatWasSaved
<1>5. \/ UNCHANGED <<db, saved>>
      \/ \E p \in Jobs : Put(p) \/ \E x \in Tenants : Touch(p, x)
      \/ \E p \in Jobs, n \in Names : CliRemove(p, n)
  BY DEF Next, vars, Look, WriteBack, SkipWriteBack, Quit, AskTenant, WebLogin, CliChoose,
     Choose, WebSave, CliNew, CliAdd, CallUpsert, Tick
<1> QED BY <1>1, <1>2, <1>3, <1>4, <1>5

\* A profile has the client ID and the notes it was last saved with until the
\* command line keeps a tenant: no other statement of any job, in whatever
\* order they run, can lose them.
THEOREM OnlyKeepingTenantLoses ==
  Spec => [][KeepsWhatWasSaved =>
               KeepsWhatWasSaved' \/ \E p \in Jobs : KeepsTenant(p)]_vars
<1>1. IInv /\ [Next]_vars =>
        [KeepsWhatWasSaved => KeepsWhatWasSaved' \/ \E p \in Jobs : KeepsTenant(p)]_vars
  BY StepKeeps
<1> QED BY <1>1, Invariant, PTL DEF Spec
=============================================================================
