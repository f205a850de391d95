----------------------------- MODULE ProfileBook -----------------------------
(***************************************************************************)
(* What the saved profiles promise: a profile is saved and changed as a     *)
(* whole, keeps its creation date and its record of use when it is saved    *)
(* again, and a use is recorded only for a profile that is there.           *)
(*                                                                         *)
(* Profiles.tla, the processes and their SQL statements, implements it.     *)
(***************************************************************************)
EXTENDS Naturals

CONSTANTS Names, Clients, Domains, Tenants,
          Never,     \* the time of what has not happened
          Nothing    \* Python's None for a domain, a tenant or a row

VARIABLES db,        \* db[n]: the row of profile n, or Nothing
          clock

bookVars == <<db, clock>>

Rows == [client  : Clients, domain : Domains \cup {Nothing}, notes : BOOLEAN,
         created : Nat, used : Nat \cup {Never}, tenant : Tenants \cup {Nothing}]

NoRows == db = [n \in Names |-> Nothing]

\* A new profile was created at some time in the past, and never used.
Create(n) == /\ db[n] = Nothing
             /\ db'[n] \in Rows
             /\ db'[n].created <= clock /\ db'[n].used = Never /\ db'[n].tenant = Nothing
             /\ db' = [db EXCEPT ![n] = db'[n]]
             /\ UNCHANGED clock

Change(n) == /\ db[n] # Nothing
             /\ \E c \in Clients, d \in Domains \cup {Nothing}, m \in BOOLEAN :
                  db' = [db EXCEPT ![n].client = c, ![n].domain = d, ![n].notes = m]
             /\ UNCHANGED clock

Use(n) == /\ db[n] # Nothing
          /\ \E x \in Tenants :
               db' = [db EXCEPT ![n].used = clock, ![n].tenant = x]
          /\ UNCHANGED clock

Remove(n) == /\ db' = [db EXCEPT ![n] = Nothing]
             /\ UNCHANGED clock

Pass == clock' > clock /\ UNCHANGED db

BookInit == NoRows /\ clock = 0
BookNext == (\E n \in Names : Create(n) \/ Change(n) \/ Use(n) \/ Remove(n)) \/ Pass

BookSpec == BookInit /\ [][BookNext]_bookVars
=============================================================================
