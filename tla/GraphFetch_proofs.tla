-------------------------- MODULE GraphFetch_proofs --------------------------
(***************************************************************************)
(* Theorems about GraphFetch, for any number of attempts and collections of *)
(* any size: users come from one query, per-user MFA states are those of     *)
(* known users, no fetch sends more requests than FetchBounded allows, and   *)
(* the fetchers implement TenantFetch.                                      *)
(***************************************************************************)
EXTENDS GraphFetch, SequenceTheorems, FiniteSetTheorems, TLAPS

-----------------------------------------------------------------------------
(* Sequences of rows *)

LEMMA RowsUpToZero ==
  ASSUME NEW a \in BOOLEAN
  PROVE  RowsUpTo(0, a) = <<>>
BY DEF RowsUpTo

LEMMA RowsUpToType ==
  ASSUME NEW k \in Nat, NEW a \in BOOLEAN
  PROVE  RowsUpTo(k, a) \in Seq(AllRows) /\ Len(RowsUpTo(k, a)) = k
<1>1. \A n \in 1 .. k : Row(n, a) \in AllRows
  BY DEF Row, AllRows
<1>2. RowsUpTo(k, a) \in [1 .. k -> AllRows]
  BY <1>1 DEF RowsUpTo
<1> QED BY <1>2

LEMMA RowsUpToNext ==
  ASSUME NEW k \in Nat, NEW a \in BOOLEAN
  PROVE  Append(RowsUpTo(k, a), Row(k + 1, a)) = RowsUpTo(k + 1, a)
<1> DEFINE s == RowsUpTo(k, a)
           t == RowsUpTo(k + 1, a)
<1>1. s \in Seq(AllRows) /\ Len(s) = k /\ Row(k + 1, a) \in AllRows
  BY RowsUpToType DEF Row, AllRows
<1>2. t \in Seq(AllRows) /\ Len(t) = k + 1
  BY RowsUpToType
<1>3. \A i \in 1 .. k : s[i] = t[i]
  BY DEF RowsUpTo
<1>4. t[k + 1] = Row(k + 1, a)
  BY DEF RowsUpTo
<1> HIDE DEF s, t
<1>5. Append(s, Row(k + 1, a)) \in Seq(AllRows) /\ Len(Append(s, Row(k + 1, a))) = k + 1
  BY <1>1
<1>6. \A i \in 1 .. k + 1 : Append(s, Row(k + 1, a))[i] = t[i]
  BY <1>1, <1>3, <1>4
<1>7. Append(s, Row(k + 1, a)) = t
  BY <1>2, <1>5, <1>6, SeqEqual
<1> QED BY <1>7 DEF s, t

\* No two units are read at the same place.
LEMMA FirstIsOne ==
  ASSUME NEW S \in SUBSET Units, NEW u, NEW v, FirstOf(u, S), FirstOf(v, S)
  PROVE  u = v
<1>1. u \in Units /\ v \in Units /\ Rank[u] <= Rank[v] /\ Rank[v] <= Rank[u]
  BY DEF FirstOf
<1> QED BY <1>1 DEF Units, Rank

-----------------------------------------------------------------------------
(* The inductive invariant *)

Wanted == needed \cup {"organization"}

\* Per-user states of different users, in their order, of those before user k
Ordered(s, k) ==
  /\ \A i \in 1 .. Len(s) : s[i].n \in 1 .. k - 1
  /\ \A i, j \in 1 .. Len(s) : i < j => s[i].n < s[j].n

\* What may have been read of unit u when page p is asked for, of collections
\* with m rows, or of n users
Begun(u, rs, p, act, m, n) ==
  /\ u = "per_user_mfa" => Ordered(rs, p) /\ (p <= n \/ p = 1)
  /\ u = "users" => rs = RowsUpTo(p - 1, act) /\ (p <= m \/ p = 1)
  /\ u \notin Singles \cup {"users", "per_user_mfa"} =>
       rs = RowsUpTo(p - 1, TRUE) /\ (p <= m \/ p = 1)

RowsInv ==
  outcome = "fetching" =>
    \A u \in Units : FirstOf(u, todo) =>
      Begun(u, rows, page, activity, size, Len(data["users"]))

\* What unit u may be when it has been read, with the flag ok
Final(u, rs, ok, m, n) ==
  /\ u = "organization" => rs = RowsUpTo(1, TRUE) /\ ok
  /\ u = "skus" => rs = RowsUpTo(m, TRUE) /\ ok
  /\ u = "users" => \E a \in BOOLEAN : rs = RowsUpTo(m, a) /\ (ok => a)
  /\ u = "per_user_mfa" => /\ Ordered(rs, n + 1)
                           /\ ~ok => rs = <<>>
                           /\ (n # 0 /\ ok) => rs # <<>>
  /\ u \notin Essential \cup {"per_user_mfa"} =>
       (rs = RowsUpTo(m, TRUE) /\ ok) \/ (rs = <<>> /\ ~ok)

\* Units are read in their order: what has been read comes before what has not.
OrderInv == \A u \in Wanted \ todo, v \in todo : Rank[u] <= Rank[v]

ReadInv ==
  \A u \in Units :
    IF Read(u) THEN Final(u, data[u], available[u], size, Len(data["users"]))
    ELSE data[u] = <<>> /\ available[u]

IInv == TypeOK /\ todo \subseteq Wanted /\ OrderInv /\ RowsInv /\ ReadInv

LEMMA BegunAnew ==
  ASSUME NEW u, NEW act \in BOOLEAN, NEW m, NEW n
  PROVE  Begun(u, <<>>, 1, act, m, n)
<1>1. Ordered(<<>>, 1)
  BY DEF Ordered
<1>2. RowsUpTo(0, act) = <<>> /\ RowsUpTo(0, TRUE) = <<>>
  BY RowsUpToZero, Zenon
<1>3. 1 - 1 = 0
  OBVIOUS
<1> QED BY <1>1, <1>2, <1>3, Zenon DEF Begun

LEMMA InitInv == Init => IInv
<1> SUFFICES ASSUME Init PROVE IInv
  OBVIOUS
<1>1. TypeOK
  <2>1. <<>> \in Seq(AllRows)
    OBVIOUS
  <2> QED BY <2>1, NeededAssumption, MaxRetriesAssumption, MaxSizeAssumption DEF Init, TypeOK, Units
<1>2. todo \subseteq Wanted /\ OrderInv /\ ReadInv
  BY DEF Init, Wanted, OrderInv, ReadInv, Read
<1>3. RowsInv
  BY BegunAnew DEF Init, RowsInv
<1> QED BY <1>1, <1>2, <1>3 DEF IInv

-----------------------------------------------------------------------------
(* What a good answer brings *)

LEMMA OrderedNext ==
  ASSUME NEW s \in Seq(AllRows), NEW k \in Nat \ {0}, Ordered(s, k)
  PROVE  Ordered(s, k + 1) /\ Ordered(Append(s, Row(k, TRUE)), k + 1)
<1> DEFINE t == Append(s, Row(k, TRUE))
           last1 == Len(s) + 1
<1>1. \A i \in 1 .. Len(s) : s[i] \in AllRows /\ s[i].n \in Nat /\ s[i].n < k
  <2>1. \A i \in 1 .. Len(s) : s[i] \in AllRows /\ s[i].n \in 1 .. k - 1
    BY DEF Ordered
  <2> QED BY <2>1
<1>2. Row(k, TRUE) \in AllRows /\ Row(k, TRUE).n = k
  BY DEF Row, AllRows
<1>3. /\ Len(s) \in Nat /\ Len(t) = Len(s) + 1
      /\ t[last1] = Row(k, TRUE)
      /\ \A i \in 1 .. Len(s) : t[i] = s[i]
  <2>1. \A e \in AllRows :
          /\ Len(s) \in Nat /\ Len(Append(s, e)) = Len(s) + 1
          /\ Append(s, e)[Len(s) + 1] = e
          /\ \A i \in 1 .. Len(s) : Append(s, e)[i] = s[i]
    BY AppendProperties
  <2> QED BY <1>2, <2>1, Zenon
<1>4. \A i \in 1 .. Len(s) : t[i].n \in 1 .. k /\ t[i].n < k
  BY <1>1, <1>3 DEF Ordered
<1>5. t[last1].n = k
  BY <1>2, <1>3
<1> HIDE DEF t
<1>6. \A i \in 1 .. Len(t) : i \in 1 .. Len(s) \/ i = last1
  BY <1>3
<1>7. \A i \in 1 .. Len(t) : t[i].n \in 1 .. (k + 1) - 1
  BY <1>4, <1>5, <1>6
<1>8. \A i, j \in 1 .. Len(t) : i < j => t[i].n < t[j].n
  <2>1. SUFFICES ASSUME NEW i \in 1 .. Len(t), NEW j \in 1 .. Len(t), i < j
                 PROVE  t[i].n < t[j].n
    OBVIOUS
  <2>2. i \in 1 .. Len(s)
    BY <1>3, <2>1
  <2>3. CASE j \in 1 .. Len(s)
    <3>1. s[i].n < s[j].n
      BY <2>1, <2>2, <2>3 DEF Ordered
    <3> QED BY <1>3, <2>2, <2>3, <3>1
  <2>4. CASE j = last1
    BY <1>4, <1>5, <2>2, <2>4
  <2> QED BY <1>6, <2>3, <2>4
<1>9. Ordered(t, k + 1)
  BY <1>7, <1>8 DEF Ordered
<1>10. Ordered(s, k + 1)
  BY <1>1 DEF Ordered
<1> QED BY <1>9, <1>10 DEF t

\* The rows of a collection after the answer to its page p
LEMMA PageBrings ==
  ASSUME NEW p \in Nat \ {0}, NEW a \in BOOLEAN, NEW rs, rs = RowsUpTo(p - 1, a)
  PROVE  Append(rs, Row(p, a)) = RowsUpTo(p, a)
<1>1. p - 1 \in Nat /\ (p - 1) + 1 = p
  OBVIOUS
<1>2. Append(RowsUpTo(p - 1, a), Row((p - 1) + 1, a)) = RowsUpTo((p - 1) + 1, a)
  BY <1>1, RowsUpToNext, Zenon
<1> QED BY <1>1, <1>2, Zenon

\* What is read next is not read yet.
LEMMA UnderWay ==
  ASSUME IInv, NEW u \in Units, Reading(u)
  PROVE  /\ u \in todo /\ ~Read(u) /\ outcome = "fetching"
         /\ Begun(u, rows, page, activity, size, Len(data["users"]))
         /\ rows \in Seq(AllRows) /\ page \in Nat \ {0} /\ size \in Nat
         /\ activity \in BOOLEAN
         /\ Len(data["users"]) \in Nat
         /\ data["users"] = <<>> <=> Len(data["users"]) = 0
<1>1. u \in todo /\ outcome = "fetching"
  BY DEF Reading, FirstOf
<1>2. Begun(u, rows, page, activity, size, Len(data["users"]))
  BY DEF Reading, IInv, RowsInv
<1>3. rows \in Seq(AllRows) /\ page \in Nat \ {0} /\ activity \in BOOLEAN
  BY DEF IInv, TypeOK
<1>4. size \in Nat
  BY MaxSizeAssumption DEF IInv, TypeOK
<1>5. data["users"] \in Seq(AllRows)
  BY DEF IInv, TypeOK, Units
<1>6. Len(data["users"]) \in Nat /\ (data["users"] = <<>> <=> Len(data["users"]) = 0)
  BY <1>5
<1> QED BY <1>1, <1>2, <1>3, <1>4, <1>6 DEF Read

LEMMA BroughtIs ==
  ASSUME NEW u
  PROVE  /\ u = "organization" => Brought(u) = RowsUpTo(1, TRUE)
         /\ u = "auth_methods" => Brought(u) = RowsUpTo(size, TRUE)
         /\ u = "per_user_mfa" => Brought(u) = Append(rows, Row(page, TRUE))
         /\ u = "users" => Brought(u) = IF page <= size THEN Append(rows, Row(page, activity))
                                        ELSE rows
         /\ u \notin Singles \cup {"users", "per_user_mfa"} =>
              Brought(u) = IF page <= size THEN Append(rows, Row(page, TRUE)) ELSE rows
BY DEF Brought, Singles

\* After an answer that is not the last one, the next page may be asked for.
LEMMA PageGoesOn ==
  ASSUME IInv, NEW u \in Units, Asking(u), ~LastPage(u)
  PROVE  /\ Begun(u, Brought(u), page + 1, activity, size, Len(data["users"]))
         /\ Brought(u) \in Seq(AllRows)
<1> DEFINE n == Len(data["users"])
<1>1. Reading(u)
  BY DEF Asking
<1>0. /\ Begun(u, rows, page, activity, size, n)
      /\ rows \in Seq(AllRows) /\ page \in Nat \ {0} /\ size \in Nat
      /\ activity \in BOOLEAN /\ n \in Nat
  BY <1>1, UnderWay, Zenon
<1> HIDE DEF n
<1>2. (page + 1) - 1 = page /\ page \in Nat /\ page \in Nat \ {0}
  BY <1>0
<1>3. CASE u = "per_user_mfa"
  <2>0. Ordered(rows, page) /\ rows \in Seq(AllRows)
    BY <1>0, <1>3, Zenon DEF Begun
  <2>5. ~(page >= n)
    BY <1>3, Zenon DEF LastPage, n
  <2>1. page < n /\ Ordered(rows, page) /\ rows \in Seq(AllRows)
    BY <1>0, <2>0, <2>5
  <2>2. Ordered(Brought(u), page + 1)
    BY <1>2, <1>3, <2>1, OrderedNext, BroughtIs
  <2>3. Brought(u) \in Seq(AllRows)
    <3>1. Row(page, TRUE) \in AllRows
      BY <1>2 DEF Row, AllRows
    <3>2. Append(rows, Row(page, TRUE)) \in Seq(AllRows)
      BY <2>1, <3>1, AppendProperties, Zenon
    <3> QED BY <1>3, <3>2, BroughtIs, Zenon
  <2>4. page + 1 <= n
    BY <1>0, <2>1
  <2> QED BY <1>3, <2>2, <2>3, <2>4 DEF Begun, Singles, n
<1>4. CASE u = "users"
  <2>0. rows = RowsUpTo(page - 1, activity) /\ activity \in BOOLEAN
    BY <1>0, <1>4, Zenon DEF Begun
  <2>6. ~(page >= size)
    BY <1>4 DEF LastPage, Singles
  <2>1. page < size /\ rows = RowsUpTo(page - 1, activity) /\ activity \in BOOLEAN
    BY <1>0, <2>0, <2>6
  <2>2. page <= size /\ page + 1 <= size
    BY <1>0, <2>1
  <2>3. Brought(u) = RowsUpTo(page, activity)
    <3>1. Brought(u) = Append(rows, Row(page, activity))
      BY <1>4, <2>2, BroughtIs
    <3> QED BY <1>2, <2>1, <3>1, PageBrings, Zenon
  <2>4. Brought(u) \in Seq(AllRows)
    BY <1>2, <2>1, <2>3, RowsUpToType, Zenon
  <2>5. Brought(u) = RowsUpTo((page + 1) - 1, activity)
    BY <1>2, <2>3, Zenon
  <2> QED BY <1>4, <2>2, <2>4, <2>5 DEF Begun
<1>5. CASE u \notin {"users", "per_user_mfa"}
  <2>1. u \notin Singles \cup {"users", "per_user_mfa"}
    BY <1>5 DEF LastPage
  <2>0. rows = RowsUpTo(page - 1, TRUE)
    BY <1>0, <2>1, Zenon DEF Begun
  <2>7. ~(page >= size)
    BY <2>1 DEF LastPage
  <2>2. page < size /\ rows = RowsUpTo(page - 1, TRUE)
    BY <1>0, <2>0, <2>7
  <2>3. page <= size /\ page + 1 <= size
    BY <1>0, <2>2
  <2>4. Brought(u) = RowsUpTo(page, TRUE)
    <3>1. Brought(u) = Append(rows, Row(page, TRUE))
      BY <2>1, <2>3, BroughtIs
    <3> QED BY <1>2, <2>2, <3>1, PageBrings, Zenon
  <2>5. Brought(u) \in Seq(AllRows)
    BY <1>2, <2>4, RowsUpToType, Zenon
  <2>6. Brought(u) = RowsUpTo((page + 1) - 1, TRUE)
    BY <1>2, <2>4, Zenon
  <2> QED BY <2>1, <2>3, <2>5, <2>6 DEF Begun
<1> QED BY <1>3, <1>4, <1>5

\* After the last answer, the unit is whole.
LEMMA LastIsWhole ==
  ASSUME IInv, NEW u \in Units, Asking(u), LastPage(u)
  PROVE  /\ u # "users" => Final(u, Brought(u), TRUE, size, Len(data["users"]))
         /\ u = "users" => Brought(u) = RowsUpTo(size, activity)
         /\ Brought(u) \in Seq(AllRows)
<1> DEFINE n == Len(data["users"])
<1>1. Reading(u)
  BY DEF Asking
<1>2. size \in Nat /\ 1 \in Nat /\ page \in Nat /\ page \in Nat \ {0} /\ n \in Nat
  BY <1>1, UnderWay
<1>3. CASE u = "organization"
  <2>1. Brought(u) = RowsUpTo(1, TRUE)
    BY <1>3, BroughtIs
  <2>2. Brought(u) \in Seq(AllRows)
    BY <1>2, <2>1, RowsUpToType, Zenon
  <2> QED BY <1>3, <2>1, <2>2 DEF Final, Essential
<1>4. CASE u = "auth_methods"
  <2>1. Brought(u) = RowsUpTo(size, TRUE)
    BY <1>4, BroughtIs
  <2>2. Brought(u) \in Seq(AllRows)
    BY <1>2, <2>1, RowsUpToType, Zenon
  <2> QED BY <1>4, <2>1, <2>2 DEF Final, Essential
<1>5. CASE u = "per_user_mfa"
  <2>1. n # 0 /\ page >= n /\ Ordered(rows, page) /\ rows \in Seq(AllRows)
        /\ (page <= n \/ page = 1)
    BY <1>1, <1>5, UnderWay DEF LastPage, Begun, Asking, NoUsersFor, Singles
  <2>2. page = n
    BY <1>2, <2>1
  <2>3. Ordered(Brought(u), n + 1)
    BY <1>2, <1>5, <2>1, <2>2, OrderedNext, BroughtIs
  <2>4. Row(page, TRUE) \in AllRows
    BY <1>2 DEF Row, AllRows
  <2>6. Brought(u) = Append(rows, Row(page, TRUE))
    BY <1>5, BroughtIs, Zenon
  <2>7. /\ Append(rows, Row(page, TRUE)) \in Seq(AllRows)
        /\ Append(rows, Row(page, TRUE)) # <<>>
    BY <2>1, <2>4, AppendProperties, Zenon
  <2>5. Brought(u) \in Seq(AllRows) /\ Brought(u) # <<>>
    BY <2>6, <2>7
  <2> QED BY <1>5, <2>3, <2>5 DEF Final
<1>6. ASSUME u \notin Singles \cup {"per_user_mfa"}, NEW a \in BOOLEAN,
             rows = RowsUpTo(page - 1, a), page <= size \/ page = 1,
             Brought(u) = IF page <= size THEN Append(rows, Row(page, a)) ELSE rows
      PROVE  Brought(u) = RowsUpTo(size, a) /\ Brought(u) \in Seq(AllRows)
  <2>1. page >= size
    BY <1>6 DEF LastPage
  <2>2. CASE page <= size
    <3>1. page = size
      BY <1>2, <2>1, <2>2
    <3>2. Brought(u) = Append(rows, Row(page, a))
      BY <1>6, <2>2
    <3>3. Brought(u) = RowsUpTo(page, a)
      BY <1>2, <1>6, <3>2, PageBrings, Zenon
    <3> QED BY <1>2, <3>1, <3>3, RowsUpToType, Zenon
  <2>3. CASE ~(page <= size)
    <3>1. page - 1 = size
      BY <1>2, <1>6, <2>1, <2>3
    <3>2. Brought(u) = rows
      BY <1>6, <2>3
    <3> QED BY <1>2, <1>6, <3>1, <3>2, RowsUpToType, Zenon
  <2> QED BY <2>2, <2>3
<1>7. CASE u = "users"
  <2>1. u \notin Singles \cup {"per_user_mfa"}
    BY <1>7 DEF Singles
  <2>2. /\ activity \in BOOLEAN /\ rows = RowsUpTo(page - 1, activity)
        /\ page <= size \/ page = 1
    BY <1>1, <1>7, UnderWay DEF Begun
  <2>3. Brought(u) = IF page <= size THEN Append(rows, Row(page, activity)) ELSE rows
    BY <1>7, BroughtIs
  <2>4. Brought(u) = RowsUpTo(size, activity) /\ Brought(u) \in Seq(AllRows)
    BY <1>6, <2>1, <2>2, <2>3, Zenon
  <2> QED BY <1>7, <2>4
<1>8. CASE u \notin Singles \cup {"users", "per_user_mfa"}
  <2>1. rows = RowsUpTo(page - 1, TRUE) /\ (page <= size \/ page = 1)
    BY <1>1, <1>8, UnderWay DEF Begun
  <2>2. Brought(u) = IF page <= size THEN Append(rows, Row(page, TRUE)) ELSE rows
    BY <1>8, BroughtIs
  <2>3. u \notin Singles \cup {"per_user_mfa"} /\ TRUE \in BOOLEAN
    BY <1>8
  <2>4. Brought(u) = RowsUpTo(size, TRUE) /\ Brought(u) \in Seq(AllRows)
    BY <1>6, <2>1, <2>2, <2>3, Zenon
  <2> QED BY <1>8, <2>4 DEF Final, Essential, Singles
<1> QED BY <1>3, <1>4, <1>5, <1>7, <1>8 DEF Singles

-----------------------------------------------------------------------------
(* Units, their order and their results *)

\* Whole units and declared ones are results TenantFetch allows.
LEMMA FinalIsPossible ==
  ASSUME IInv, NEW u \in Units, Read(u)
  PROVE  ResultOf(u) \in Fetch!Possible(u)
<1> DEFINE n == Len(data["users"])
<1>1. Final(u, data[u], available[u], size, n)
  BY DEF IInv, ReadInv
<1>2. available[u] \in BOOLEAN
  BY DEF IInv, TypeOK
<1> HIDE DEF n
<1>3. CASE u = "organization"
  <2>1. data[u] = RowsUpTo(1, TRUE) /\ available[u]
    BY <1>1, <1>3, Zenon DEF Final
  <2>2. data[u] \in Whole(u)
    BY <1>3, <2>1 DEF Whole
  <2>3. ResultOf(u) = "complete"
    BY <1>3, <2>1, <2>2 DEF ResultOf
  <2> QED BY <1>3, <2>3 DEF Fetch!Possible, Fetch!Essential
<1>4. CASE u = "skus"
  <2>1. data[u] = RowsUpTo(size, TRUE) /\ available[u]
    BY <1>1, <1>4, Zenon DEF Final
  <2>2. data[u] \in Whole(u)
    BY <1>4, <2>1 DEF Whole
  <2>3. ResultOf(u) = "complete"
    BY <1>4, <2>1, <2>2 DEF ResultOf
  <2> QED BY <1>4, <2>3 DEF Fetch!Possible, Fetch!Essential
<1>5. CASE u = "users"
  <2>1. \E a \in BOOLEAN : data[u] = RowsUpTo(size, a)
    BY <1>1, <1>5, Zenon DEF Final
  <2>2. data[u] \in Whole(u)
    BY <1>5, <2>1 DEF Whole
  <2>3. ResultOf(u) \in {"complete", "bare"}
    BY <1>2, <1>5, <2>2 DEF ResultOf
  <2> QED BY <1>5, <2>3 DEF Fetch!Possible
<1>6. CASE u = "per_user_mfa"
  <2>1. ~available[u] => data[u] = <<>>
    BY <1>1, <1>6, Zenon DEF Final
  <2>2. ResultOf(u) \in {"complete", "partial", "unavailable"}
    BY <1>2, <1>6, <2>1 DEF ResultOf
  <2> QED BY <1>6, <2>2 DEF Fetch!Possible, Fetch!Essential
<1>7. CASE u \notin Essential \cup {"per_user_mfa"}
  <2>1. (data[u] = RowsUpTo(size, TRUE) /\ available[u]) \/ (data[u] = <<>> /\ ~available[u])
    BY <1>1, <1>7, Zenon DEF Final
  <2>2. Whole(u) = {RowsUpTo(size, TRUE)}
    BY <1>7 DEF Whole, Essential
  <2>3. ResultOf(u) \in {"complete", "unavailable"}
    BY <1>7, <2>1, <2>2 DEF ResultOf, Essential
  <2> QED BY <1>7, <2>3 DEF Fetch!Possible, Fetch!Essential, Essential
<1> QED BY <1>3, <1>4, <1>5, <1>6, <1>7 DEF Essential

LEMMA ReadIsPossible ==
  IInv => \A u \in Units : Read(u) => ResultOf(u) \in Fetch!Possible(u)
BY FinalIsPossible

\* The same in the state after a step
LEMMA ReadWillBePossible ==
  IInv' => (\A u \in Units : Read(u) => ResultOf(u) \in Fetch!Possible(u))'
BY ReadIsPossible, PTL

\* Only per-user MFA states depend on how many users there are.
LEMMA FinalWithout ==
  ASSUME NEW u, NEW rs, NEW ok, NEW m, NEW n, NEW k,
         u # "per_user_mfa", Final(u, rs, ok, m, n)
  PROVE  Final(u, rs, ok, m, k)
BY Zenon DEF Final

LEMMA OrderedUpTo ==
  ASSUME NEW s \in Seq(AllRows), NEW k \in Nat, NEW m \in Nat, k <= m, Ordered(s, k)
  PROVE  Ordered(s, m)
<1>1. \A i \in 1 .. Len(s) : s[i].n \in 1 .. m - 1
  <2>1. 1 .. k - 1 \subseteq 1 .. m - 1
    OBVIOUS
  <2> QED BY <2>1, Zenon DEF Ordered
<1> QED BY <1>1, Zenon DEF Ordered

\* Users are read before their MFA states.
LEMMA UsersBefore ==
  ASSUME IInv, "users" \in todo
  PROVE  ~Read("per_user_mfa")
<1>1. Rank["per_user_mfa"] = 10 /\ Rank["users"] = 4
  BY DEF Rank
<1>2. Read("per_user_mfa") => Rank["per_user_mfa"] <= Rank["users"]
  BY DEF IInv, OrderInv, Read, Wanted
<1> QED BY <1>1, <1>2

-----------------------------------------------------------------------------
(* What a step does: go on, hand a unit over, or fail *)

LEMMA GotKept ==
  ASSUME UNCHANGED <<needed, size, todo, data, available>>
  PROVE  Got' = Got
BY DEF Got, ResultOf, Read, Whole

\* A step that hands over nothing
LEMMA Continues ==
  ASSUME IInv, NEW u \in Units, Reading(u),
         UNCHANGED <<needed, size, todo, data, available, outcome>>,
         page' \in Nat \ {0}, attempt' \in 0 .. MaxRetries, last' \in {None, 500},
         activity' \in BOOLEAN, rows' \in Seq(AllRows),
         Begun(u, rows', page', activity', size, Len(data["users"]))
  PROVE  IInv' /\ [Fetch!FetchNext]_Fetch!fetchVars
<1>1. TypeOK'
  BY DEF IInv, TypeOK
<1>2. (todo \subseteq Wanted /\ OrderInv)'
  BY DEF IInv, OrderInv, Wanted
<1>3. ReadInv'
  <2>1. ReadInv
    BY DEF IInv
  <2> QED BY <2>1 DEF ReadInv, Read
<1>4. RowsInv'
  <2>1. SUFFICES ASSUME NEW v \in Units, FirstOf(v, todo)
                 PROVE  Begun(v, rows', page', activity', size, Len(data["users"]))
    BY DEF RowsInv
  <2>2. v = u
    <3>1. todo \in SUBSET Units
      BY DEF IInv, TypeOK
    <3> QED BY <2>1, <3>1, FirstIsOne DEF Reading
  <2> QED BY <2>2
<1>5. UNCHANGED Fetch!fetchVars
  BY GotKept DEF Fetch!fetchVars
<1> QED BY <1>1, <1>2, <1>3, <1>4, <1>5 DEF IInv

\* A step that hands over unit u as it may be
LEMMA HandsOver ==
  ASSUME IInv, NEW u \in Units, Reading(u),
         NEW rs \in Seq(AllRows), NEW ok \in BOOLEAN, Return(u, rs, ok),
         Final(u, rs, ok, size, Len(data["users"]))
  PROVE  IInv' /\ [Fetch!FetchNext]_Fetch!fetchVars
<1>1. /\ u \in todo /\ FirstOf(u, todo) /\ outcome = "fetching"
      /\ todo' = todo \ {u} /\ UNCHANGED <<needed, size, activity, outcome>>
      /\ page' = 1 /\ attempt' = 0 /\ last' = None /\ rows' = <<>>
  BY DEF Reading, FirstOf, Return, NewRequest, fixed
<1>2. /\ data \in [Units -> Seq(AllRows)] /\ available \in [Units -> BOOLEAN]
      /\ data' = [data EXCEPT ![u] = rs] /\ available' = [available EXCEPT ![u] = ok]
  BY DEF IInv, TypeOK, Return
<1>3. /\ data'[u] = rs /\ available'[u] = ok
      /\ \A v \in Units \ {u} : data'[v] = data[v] /\ available'[v] = available[v]
  BY <1>2
<1>4. TypeOK'
  <2>1. <<>> \in Seq(AllRows) /\ 1 \in Nat \ {0} /\ 0 \in 0 .. MaxRetries
    BY MaxRetriesAssumption
  <2>2. data' \in [Units -> Seq(AllRows)] /\ available' \in [Units -> BOOLEAN]
    BY <1>2
  <2> QED BY <1>1, <2>1, <2>2 DEF IInv, TypeOK
<1>5. (todo \subseteq Wanted)'
  BY <1>1 DEF IInv, Wanted
<1>6. OrderInv'
  BY <1>1 DEF IInv, OrderInv, Wanted, FirstOf
<1>7. RowsInv'
  <2>1. activity \in BOOLEAN
    BY DEF IInv, TypeOK
  <2>2. \A v : Begun(v, <<>>, 1, activity, size, Len(data'["users"]))
    BY <2>1, BegunAnew, Zenon
  <2> QED BY <1>1, <2>2 DEF RowsInv
<1>8. \A v \in Units \ {u} : Read(v)' <=> Read(v)
  BY <1>1 DEF Read
<1>9. Read(u)' /\ ~Read(u)
  BY <1>1 DEF Read, IInv, Wanted
<1>10. \A v \in Units \ {u} :
         Read(v) => v # "per_user_mfa" \/ data'["users"] = data["users"]
  <2>1. CASE u = "users"
    BY <1>1, <2>1, UsersBefore
  <2>2. CASE u # "users"
    BY <1>3, <2>2 DEF Units
  <2> QED BY <2>1, <2>2
<1>11. ReadInv'
  <2>1. Final(u, data'[u], available'[u], size, Len(data'["users"]))
    <3>1. CASE u = "users"
      <4>1. u # "per_user_mfa"
        BY <3>1
      <4> QED BY <1>3, <4>1, FinalWithout, Zenon
    <3>2. CASE u # "users"
      <4>1. data'["users"] = data["users"]
        BY <1>3, <3>2 DEF Units
      <4> QED BY <1>3, <4>1
    <3> QED BY <3>1, <3>2
  <2>2. ASSUME NEW v \in Units \ {u}, Read(v)
        PROVE  Final(v, data'[v], available'[v], size, Len(data'["users"]))
    <3>1. Final(v, data[v], available[v], size, Len(data["users"]))
      BY <2>2 DEF IInv, ReadInv
    <3>2. data'[v] = data[v] /\ available'[v] = available[v]
      BY <1>3
    <3>3. CASE v # "per_user_mfa"
      BY <3>1, <3>2, <3>3, FinalWithout, Zenon
    <3>4. CASE data'["users"] = data["users"]
      BY <3>1, <3>2, <3>4
    <3> QED BY <1>10, <2>2, <3>3, <3>4
  <2>3. \A v \in Units \ {u} : ~Read(v) => data'[v] = <<>> /\ available'[v]
    BY <1>3 DEF IInv, ReadInv
  <2> QED BY <1>1, <1>8, <1>9, <2>1, <2>2, <2>3 DEF ReadInv
<1>12. IInv'
  BY <1>4, <1>5, <1>6, <1>7, <1>11 DEF IInv
<1>13. \A v \in Units \ {u} : ResultOf(v)' = ResultOf(v)
  <2>1. SUFFICES ASSUME NEW v \in Units \ {u} PROVE ResultOf(v)' = ResultOf(v)
    OBVIOUS
  <2>2. CASE ~Read(v)
    BY <1>8, <2>2 DEF ResultOf
  <2>3. CASE Read(v)
    <3>1. Whole(v)' = Whole(v)
      BY <1>1, <1>10, <2>3 DEF Whole
    <3>2. Read(v)' /\ data'[v] = data[v] /\ available'[v] = available[v]
      BY <1>3, <1>8, <2>3
    <3> QED BY <2>3, <3>1, <3>2 DEF ResultOf
  <2> QED BY <2>2, <2>3
<1>14. Got' = [Got EXCEPT ![u] = ResultOf(u)']
  BY <1>13 DEF Got
<1>15. ResultOf(u)' \in Fetch!Possible(u)
  <2>1. (\A v \in Units : Read(v) => ResultOf(v) \in Fetch!Possible(v))'
    BY <1>12, ReadWillBePossible
  <2> QED BY <1>9, <2>1
<1>16. Fetch!ReadUnit(u, ResultOf(u)')
  BY <1>1, <1>14, <1>15 DEF Fetch!ReadUnit, Fetch!FirstOf, FirstOf, Fetch!Rank, Rank
<1>17. ResultOf(u)' \in Fetch!Results
  BY <1>15 DEF Fetch!Possible, Fetch!Results
<1> QED BY <1>12, <1>16, <1>17 DEF Fetch!FetchNext, Fetch!Units, Units

LEMMA NothingYet == /\ <<>> \in Seq(AllRows)
                     /\ TRUE \in BOOLEAN /\ FALSE \in BOOLEAN
OBVIOUS

\* A step that ends the fetch, one way or the other
LEMMA Stops ==
  ASSUME IInv, outcome = "fetching", outcome' \in {"failed", "fetched"},
         UNCHANGED <<fixed, todo, request, activity, rows, data, available>>,
         outcome' = "failed" <=> todo # {}
  PROVE  IInv' /\ [Fetch!FetchNext]_Fetch!fetchVars
<1>1. TypeOK'
  BY DEF IInv, TypeOK, fixed, request
<1>2. (todo \subseteq Wanted /\ OrderInv /\ RowsInv)'
  BY DEF IInv, OrderInv, RowsInv, Wanted, fixed
<1>3. ReadInv'
  <2>1. ReadInv
    BY DEF IInv
  <2> QED BY <2>1 DEF ReadInv, Read, fixed
<1>4. Got' = Got
  BY GotKept DEF fixed
<1>5. Fetch!FailFetch \/ Fetch!EndFetch
  BY <1>4 DEF Fetch!FailFetch, Fetch!EndFetch
<1> QED BY <1>1, <1>2, <1>3, <1>5 DEF IInv, Fetch!FetchNext

LEMMA AbortStep ==
  ASSUME IInv, NEW u \in Units, Reading(u), Abort
  PROVE  IInv' /\ [Fetch!FetchNext]_Fetch!fetchVars
<1>1. outcome = "fetching" /\ todo # {}
  BY DEF Reading, FirstOf
<1> QED BY <1>1, Stops DEF Abort

LEMMA UsersErrorStep ==
  ASSUME IInv, Reading("users"), NEW s, UsersError(s)
  PROVE  IInv' /\ [Fetch!FetchNext]_Fetch!fetchVars
<1>1. "users" \in Units
  BY DEF Units
<1>2. CASE Abort
  BY <1>1, <1>2, AbortStep
<1>3. CASE /\ activity' = FALSE /\ rows' = <<>> /\ NewRequest(1)
           /\ UNCHANGED <<fixed, todo, data, available, outcome>>
  <2>1. Begun("users", rows', page', activity', size, Len(data["users"]))
    <3>1. \A a \in BOOLEAN : Begun("users", <<>>, 1, a, size, Len(data["users"]))
      BY BegunAnew, Zenon
    <3> QED BY <1>3, <3>1 DEF NewRequest
  <2>2. /\ UNCHANGED <<needed, size, todo, data, available, outcome>>
        /\ page' \in Nat \ {0} /\ attempt' \in 0 .. MaxRetries /\ last' \in {None, 500}
    BY <1>3, MaxRetriesAssumption DEF NewRequest, fixed
  <2>3. activity' \in BOOLEAN /\ rows' \in Seq(AllRows)
    BY <1>3, NothingYet
  <2> QED BY <1>1, <2>1, <2>2, <2>3, Continues
<1> QED BY <1>2, <1>3 DEF UsersError

\* Going on with the next page, or the next user
LEMMA GoOnStep ==
  ASSUME IInv, NEW u \in Units, Reading(u), NEW rs \in Seq(AllRows), GoOn(rs),
         Begun(u, rs, page + 1, activity, size, Len(data["users"]))
  PROVE  IInv' /\ [Fetch!FetchNext]_Fetch!fetchVars
<1>1. /\ UNCHANGED <<needed, size, todo, data, available, outcome>>
      /\ page' = page + 1 /\ rows' = rs /\ UNCHANGED activity
      /\ attempt' = 0 /\ last' = None
  BY DEF GoOn, NewRequest, fixed
<1>2. page' \in Nat \ {0} /\ activity' \in BOOLEAN /\ attempt' \in 0 .. MaxRetries
  BY <1>1, MaxRetriesAssumption DEF IInv, TypeOK
<1>3. Begun(u, rows', page', activity', size, Len(data["users"]))
  BY <1>1
<1> QED BY <1>1, <1>2, <1>3, Continues

LEMMA PerUserErrorStep ==
  ASSUME IInv, NEW s, Reading("per_user_mfa"), ~NoUsersFor("per_user_mfa"),
         PerUserError("per_user_mfa", s)
  PROVE  IInv' /\ [Fetch!FetchNext]_Fetch!fetchVars
<1> DEFINE n == Len(data["users"])
           u == "per_user_mfa"
<1>1. u \in Units
  BY DEF Units
<1>2. /\ Begun(u, rows, page, activity, size, n)
      /\ rows \in Seq(AllRows) /\ page \in Nat \ {0} /\ n \in Nat
  BY <1>1, UnderWay, Zenon
<1>3. Ordered(rows, page) /\ (page <= n \/ page = 1)
  BY <1>2, Zenon DEF Begun
<1>4. CASE Return(u, <<>>, FALSE)
  <2>1. Ordered(<<>>, n + 1)
    BY DEF Ordered
  <2>2. Final(u, <<>>, FALSE, size, n)
    BY <2>1 DEF Final, Essential
  <2> QED BY <1>1, <1>4, <2>2, HandsOver, NothingYet, Zenon
<1>5. CASE Return(u, rows, rows # <<>>)
  <2>1. Ordered(rows, n + 1)
    <3>1. page <= n + 1 /\ page \in Nat /\ n + 1 \in Nat
      BY <1>2, <1>3
    <3> QED BY <1>2, <1>3, <3>1, OrderedUpTo
  <2>2. Final(u, rows, rows # <<>>, size, n)
    <3> HIDE DEF n
    <3> QED BY <2>1, Zenon DEF Final, Essential
  <2>3. (rows # <<>>) \in BOOLEAN
    OBVIOUS
  <2> QED BY <1>1, <1>2, <1>5, <2>2, <2>3, HandsOver, Zenon
<1>6. CASE ~LastPage(u) /\ GoOn(rows)
  <2>1. ~(page >= n)
    BY <1>6, Zenon DEF LastPage
  <2>2. page + 1 <= n /\ page \in Nat \ {0}
    BY <1>2, <2>1
  <2>3. Ordered(rows, page + 1)
    BY <1>2, <1>3, OrderedNext
  <2>4. Begun(u, rows, page + 1, activity, size, n)
    <3> HIDE DEF n
    <3> QED BY <2>2, <2>3, Zenon DEF Begun
  <2> QED BY <1>1, <1>2, <1>6, <2>4, GoOnStep
<1> QED BY <1>4, <1>5, <1>6 DEF PerUserError

LEMMA GraphErrorStep ==
  ASSUME IInv, NEW u \in Units, NEW s, Reading(u), ~NoUsersFor(u), GraphErrorRaised(u, s)
  PROVE  IInv' /\ [Fetch!FetchNext]_Fetch!fetchVars
<1>1. CASE u \in {"organization", "skus"} /\ Abort
  BY <1>1, AbortStep
<1>2. CASE u = "users" /\ UsersError(s)
  BY <1>2, UsersErrorStep
<1>3. CASE u = "per_user_mfa" /\ PerUserError(u, s)
  BY <1>3, PerUserErrorStep
<1>4. CASE u \notin Essential \cup {"per_user_mfa"} /\ Return(u, <<>>, FALSE)
  <2>1. Final(u, <<>>, FALSE, size, Len(data["users"]))
    BY <1>4 DEF Final, Essential
  <2> QED BY <1>4, <2>1, HandsOver, NothingYet, Zenon
<1> QED BY <1>1, <1>2, <1>3, <1>4 DEF GraphErrorRaised

LEMMA RetryStep ==
  ASSUME IInv, NEW u \in Units, NEW s \in {429, 500}, Retry(u, s)
  PROVE  IInv' /\ [Fetch!FetchNext]_Fetch!fetchVars
<1>1. Reading(u)
  BY DEF Retry, Asking
<1>2. /\ UNCHANGED <<needed, size, todo, data, available, outcome>>
      /\ UNCHANGED <<page, activity, rows>>
  BY DEF Retry, fixed
<1>3. /\ page' \in Nat \ {0} /\ attempt' \in 0 .. MaxRetries /\ last' \in {None, 500}
      /\ activity' \in BOOLEAN /\ rows' \in Seq(AllRows)
  BY <1>2, MaxRetriesAssumption DEF Retry, Asking, IInv, TypeOK
<1>4. Begun(u, rows', page', activity', size, Len(data["users"]))
  <2>1. Begun(u, rows, page, activity, size, Len(data["users"]))
    BY <1>1, UnderWay, Zenon
  <2> QED BY <1>2, <2>1
<1> QED BY <1>1, <1>2, <1>3, <1>4, Continues

LEMMA LastAnswerStep ==
  ASSUME IInv, NEW u \in Units, LastAnswer(u)
  PROVE  IInv' /\ [Fetch!FetchNext]_Fetch!fetchVars
<1>1. Reading(u) /\ Asking(u) /\ LastPage(u) /\ Return(u, Brought(u), TRUE) /\ u # "users"
  BY DEF LastAnswer, Asking
<1>2. Final(u, Brought(u), TRUE, size, Len(data["users"])) /\ Brought(u) \in Seq(AllRows)
  BY <1>1, LastIsWhole
<1> QED BY <1>1, <1>2, HandsOver

LEMMA LastUsersStep ==
  ASSUME IInv, NEW u \in Units, LastUsers(u)
  PROVE  IInv' /\ [Fetch!FetchNext]_Fetch!fetchVars
<1>1. Reading(u) /\ Asking(u) /\ LastPage(u) /\ u = "users"
  BY DEF LastUsers, Asking
<1>2. PICK seen \in BOOLEAN : Return(u, Brought(u), activity /\ seen)
  BY DEF LastUsers
<1>3. Brought(u) = RowsUpTo(size, activity) /\ Brought(u) \in Seq(AllRows)
  BY <1>1, LastIsWhole
<1>4. activity \in BOOLEAN
  BY DEF IInv, TypeOK
<1>5. Final(u, Brought(u), activity /\ seen, size, Len(data["users"]))
  <2>1. u \in Essential /\ u # "organization" /\ u # "skus" /\ u # "per_user_mfa"
    BY <1>1 DEF Essential
  <2> QED BY <1>3, <1>4, <2>1, Zenon DEF Final
<1>6. (activity /\ seen) \in BOOLEAN
  BY <1>4
<1> QED BY <1>1, <1>2, <1>3, <1>5, <1>6, HandsOver, Zenon

LEMMA NoUsersStep ==
  ASSUME IInv, NEW u \in Units, NoUsers(u)
  PROVE  IInv' /\ [Fetch!FetchNext]_Fetch!fetchVars
<1>1. Reading(u) /\ u = "per_user_mfa" /\ data["users"] = <<>> /\ Return(u, <<>>, TRUE)
  BY DEF NoUsers, NoUsersFor
<1>2. Ordered(<<>>, Len(data["users"]) + 1)
  BY DEF Ordered
<1>3. Final(u, <<>>, TRUE, size, Len(data["users"]))
  BY <1>1, <1>2 DEF Final, Essential
<1> QED BY <1>1, <1>3, HandsOver, NothingYet, Zenon

\* Every step keeps the invariant and is one of TenantFetch or none.
LEMMA Step == IInv /\ [Next]_vars => IInv' /\ [Fetch!FetchNext]_Fetch!fetchVars
<1> SUFFICES ASSUME IInv, [Next]_vars
             PROVE  IInv' /\ [Fetch!FetchNext]_Fetch!fetchVars
  OBVIOUS
<1>1. CASE UNCHANGED vars
  <2>1. TypeOK'
    BY <1>1 DEF IInv, TypeOK, vars
  <2>2. (todo \subseteq Wanted /\ OrderInv /\ RowsInv)'
    BY <1>1 DEF IInv, OrderInv, RowsInv, Wanted, vars
  <2>3. ReadInv'
    <3>1. ReadInv
      BY DEF IInv
    <3> QED BY <1>1, <3>1 DEF ReadInv, Read, vars
  <2>4. UNCHANGED Fetch!fetchVars
    BY <1>1, GotKept DEF Fetch!fetchVars, vars
  <2> QED BY <2>1, <2>2, <2>3, <2>4 DEF IInv
<1>2. CASE Done
  BY <1>2, Stops DEF Done
<1>3. ASSUME NEW u \in Units, NEW s \in {429, 500}, Retry(u, s)
      PROVE  IInv' /\ [Fetch!FetchNext]_Fetch!fetchVars
  BY <1>3, RetryStep
<1>4. ASSUME NEW u \in Units, NEW s \in Refusals, Refused(u, s)
      PROVE  IInv' /\ [Fetch!FetchNext]_Fetch!fetchVars
  BY <1>4, GraphErrorStep DEF Refused, Asking
<1>5. ASSUME NEW u \in Units, Exhausted(u)
      PROVE  IInv' /\ [Fetch!FetchNext]_Fetch!fetchVars
  BY <1>5, GraphErrorStep DEF Exhausted
<1>6. ASSUME NEW u \in Units, Broken(u)
      PROVE  IInv' /\ [Fetch!FetchNext]_Fetch!fetchVars
  BY <1>6, AbortStep DEF Broken, Asking
<1>7. ASSUME NEW u \in Units, NextPage(u)
      PROVE  IInv' /\ [Fetch!FetchNext]_Fetch!fetchVars
  <2>1. Asking(u) /\ ~LastPage(u) /\ GoOn(Brought(u)) /\ Reading(u)
    BY <1>7 DEF NextPage, Asking
  <2>2. /\ Begun(u, Brought(u), page + 1, activity, size, Len(data["users"]))
        /\ Brought(u) \in Seq(AllRows)
    BY <2>1, PageGoesOn
  <2> QED BY <2>1, <2>2, GoOnStep
<1>8. ASSUME NEW u \in Units, LastAnswer(u) \/ LastUsers(u) \/ NoUsers(u)
      PROVE  IInv' /\ [Fetch!FetchNext]_Fetch!fetchVars
  BY <1>8, LastAnswerStep, LastUsersStep, NoUsersStep
<1> QED BY <1>1, <1>2, <1>3, <1>4, <1>5, <1>6, <1>7, <1>8 DEF Next

LEMMA Invariance == Spec => []IInv
<1>1. Init => IInv
  BY InitInv
<1>2. IInv /\ [Next]_vars => IInv'
  BY Step
<1> QED BY <1>1, <1>2, PTL DEF Spec

-----------------------------------------------------------------------------
(* Theorems *)

\* Each variable of a fetch has its type, whatever Graph answers and however
\* large its collections are.
THEOREM TypeCorrect == Spec => []TypeOK
<1>1. IInv => TypeOK
  BY DEF IInv
<1> QED BY <1>1, Invariance, PTL

\* For any collection and any number of attempts: the users handed over all
\* come from one query, each is there once, and the flag is off if they came
\* without their sign-in activity.
THEOREM UsersAlwaysOfOneQuery == Spec => []UsersOfOneQuery
<1>1. IInv => UsersOfOneQuery
  <2>1. SUFFICES ASSUME IInv, Read("users")
                 PROVE  /\ data["users"] \in {RowsUpTo(size, TRUE), RowsUpTo(size, FALSE)}
                        /\ available["users"] => data["users"] = RowsUpTo(size, TRUE)
    BY DEF UsersOfOneQuery
  <2>2. Final("users", data["users"], available["users"], size, Len(data["users"]))
    BY <2>1 DEF IInv, ReadInv, Units
  <2>3. PICK a \in BOOLEAN : data["users"] = RowsUpTo(size, a) /\ (available["users"] => a)
    BY <2>2, Zenon DEF Final
  <2> QED BY <2>3
<1> QED BY <1>1, Invariance, PTL

\* For any number of users: per-user MFA states are those of different users
\* of the audit in their order, and states declared unavailable are not there
\* in part.
THEOREM MfaAlwaysOfKnownUsers == Spec => []MfaOfKnownUsers
<1>1. IInv => MfaOfKnownUsers
  <2> SUFFICES ASSUME IInv PROVE MfaOfKnownUsers
    OBVIOUS
  <2> DEFINE mfa == data["per_user_mfa"]
             n == Len(data["users"])
             ok == available["per_user_mfa"]
  <2>1. "per_user_mfa" \in Units /\ data["users"] \in Seq(AllRows)
    BY DEF IInv, TypeOK, Units
  <2>2. n \in Nat /\ (data["users"] # <<>> <=> n # 0)
    BY <2>1
  <2>3. CASE Read("per_user_mfa")
    <3>1. Final("per_user_mfa", mfa, ok, size, n)
      BY <2>1, <2>3 DEF IInv, ReadInv
    <3> HIDE DEF mfa, n, ok
    <3>2. Ordered(mfa, n + 1) /\ (~ok => mfa = <<>>) /\ ((n # 0 /\ ok) => mfa # <<>>)
      BY <3>1, Zenon DEF Final
    <3>3. (n + 1) - 1 = n
      BY <2>2
    <3> QED BY <2>2, <3>2, <3>3 DEF MfaOfKnownUsers, Ordered, mfa, n, ok
  <2>4. CASE ~Read("per_user_mfa")
    <3>1. mfa = <<>> /\ ok
      BY <2>1, <2>4 DEF IInv, ReadInv
    <3> QED BY <2>4, <3>1 DEF MfaOfKnownUsers
  <2> QED BY <2>3, <2>4
<1> QED BY <1>1, Invariance, PTL

\* The fetchers and the Graph client implement TenantFetch, for any retries
\* and collections of any size: a unit is whole, or bare, or declared
\* unavailable, and the fetch ends well only with whole essential units.
THEOREM TenantFetchImplemented == Spec => ImplementsTenantFetch
<1>1. Init => Fetch!FetchInit
  <2> SUFFICES ASSUME Init PROVE Fetch!FetchInit
    OBVIOUS
  <2>1. todo \subseteq Units /\ "organization" \in todo /\ outcome = "fetching"
    BY NeededAssumption DEF Init, Units
  <2>2. \A u \in Units : ResultOf(u) = "none"
    BY DEF Init, ResultOf, Read
  <2>3. Got = [u \in Units |-> "none"]
    BY <2>2 DEF Got
  <2> QED BY <2>1, <2>3 DEF Fetch!FetchInit, Fetch!Units, Units
<1>2. IInv /\ [Next]_vars => [Fetch!FetchNext]_Fetch!fetchVars
  BY Step
<1> QED BY <1>1, <1>2, Invariance, PTL DEF Spec, ImplementsTenantFetch, Fetch!FetchSpec

-----------------------------------------------------------------------------
(* A fetch is bounded *)

\* Pages of a collection of m rows
PagesOf(m) == IF m = 0 THEN 1 ELSE m

\* Nobody asks for a page that is not there.
PageInv == page <= PagesOf(size)

\* The fetches are a handful, so those still to do can be counted.
LEMMA UnitsFinite == IsFiniteSet(Units)
<1>1. ASSUME NEW a, NEW b, NEW c, NEW d PROVE IsFiniteSet({a, b, c, d})
  <2>1. IsFiniteSet({a} \cup {b}) /\ IsFiniteSet({c} \cup {d})
    BY FS_Singleton, FS_Union
  <2>2. {a, b, c, d} = ({a} \cup {b}) \cup ({c} \cup {d})
    OBVIOUS
  <2>3. IsFiniteSet(({a} \cup {b}) \cup ({c} \cup {d}))
    BY <2>1, FS_Union
  <2> QED BY <2>2, <2>3
<1> DEFINE A == {"organization", "skus", "subscriptions", "users"}
           B == {"user_registration", "directory_roles", "ca_policies", "named_locations"}
           C == {"auth_methods", "per_user_mfa", "domains", "domains"}
<1>2. IsFiniteSet(A) /\ IsFiniteSet(B) /\ IsFiniteSet(C)
  BY <1>1
<1>3. Units = (A \cup B) \cup C
  BY DEF Units
<1> HIDE DEF A, B, C
<1>4. IsFiniteSet(A \cup B)
  BY <1>2, FS_Union
<1> QED BY <1>2, <1>3, <1>4, FS_Union

\* No more users are handed over than there are.
LEMMA UsersAtMost ==
  ASSUME IInv
  PROVE  Len(data["users"]) \in Nat /\ Len(data["users"]) <= size
<1>1. "users" \in Units /\ size \in Nat
  BY MaxSizeAssumption DEF IInv, TypeOK, Units
<1>2. CASE Read("users")
  <2>1. Final("users", data["users"], available["users"], size, Len(data["users"]))
    BY <1>1, <1>2 DEF IInv, ReadInv
  <2>2. PICK a \in BOOLEAN : data["users"] = RowsUpTo(size, a)
    BY <2>1, Zenon DEF Final
  <2> QED BY <1>1, <2>2, RowsUpToType
<1>3. CASE ~Read("users")
  <2>1. data["users"] = <<>>
    BY <1>1, <1>3 DEF IInv, ReadInv
  <2> QED BY <1>1, <2>1
<1> QED BY <1>2, <1>3

\* The steps that k queries on all pages, page p and its attempts allow for
Allowance(k, pages, p, a) ==
  (k * pages + (pages - p)) * (MaxRetries + 1) + (MaxRetries - a)

\* It is a number; each attempt, each page and each query uses some of it up.
LEMMA Allowances ==
  ASSUME NEW k \in Nat, NEW pages \in Nat \ {0}, NEW p \in 1 .. pages, NEW a \in 0 .. MaxRetries
  PROVE  /\ Allowance(k, pages, p, a) \in Nat
         /\ a < MaxRetries => Allowance(k, pages, p, a + 1) < Allowance(k, pages, p, a)
         /\ p < pages => Allowance(k, pages, p + 1, 0) < Allowance(k, pages, p, a)
         /\ k > 0 => Allowance(k - 1, pages, 1, 0) < Allowance(k, pages, p, a)
<1> DEFINE r == MaxRetries + 1
           x == k * pages
           y == x + (pages - p)
<1>1. MaxRetries \in Nat /\ r \in Nat /\ r > 0 /\ x \in Nat /\ y \in Nat /\ y >= x
  BY MaxRetriesAssumption
<1>2. ASSUME NEW m \in Int, NEW n \in Nat, m < n
      PROVE  m * r \in Int /\ n * r \in Nat /\ m * r <= n * r - r
  <2>1. PICK d \in Nat : n = m + 1 + d
    <3>1. n - m - 1 \in Nat /\ n = m + 1 + (n - m - 1)
      BY <1>2
    <3> QED BY <3>1
  <2> HIDE DEF r
  <2>2. (m + 1 + d) * r = m * r + r + d * r /\ d * r \in Nat /\ m * r \in Int
    BY <1>1, <2>1
  <2>3. n * r \in Nat
    BY <1>1
  <2> QED BY <1>1, <2>1, <2>2, <2>3
<1>3. y * r \in Nat
  <2> HIDE DEF y, r
  <2> QED BY <1>1
<1>4. Allowance(k, pages, p, a) = y * r + (MaxRetries - a)
  BY DEF Allowance
<1>5. Allowance(k, pages, p, a + 1) = y * r + (MaxRetries - (a + 1))
  BY DEF Allowance
<1>6. ASSUME p < pages PROVE Allowance(k, pages, p + 1, 0) < Allowance(k, pages, p, a)
  <2>1. x + (pages - (p + 1)) = y - 1 /\ y > 0
    BY <1>1, <1>6
  <2>2. Allowance(k, pages, p + 1, 0) = (y - 1) * r + MaxRetries
    BY <1>1, <2>1 DEF Allowance
  <2>3. (y - 1) * r \in Int /\ (y - 1) * r <= y * r - r
    BY <1>1, <1>2, <2>1
  <2> HIDE DEF x, y
  <2> QED BY <1>1, <1>3, <1>4, <2>2, <2>3
<1>7. ASSUME k > 0 PROVE Allowance(k - 1, pages, 1, 0) < Allowance(k, pages, p, a)
  <2>1. (k - 1) * pages = x - pages
    OBVIOUS
  <2>2. (k - 1) * pages + (pages - 1) = x - 1
    BY <1>1, <2>1
  <2>3. Allowance(k - 1, pages, 1, 0) = (x - 1) * r + MaxRetries
    BY <1>1, <2>2 DEF Allowance
  <2> HIDE DEF x, y
  <2>4. x - 1 \in Int /\ x - 1 < y
    BY <1>1
  <2>5. (x - 1) * r \in Int /\ (x - 1) * r <= y * r - r
    BY <1>1, <1>2, <2>4
  <2> QED BY <1>1, <1>3, <1>4, <2>3, <2>5
<1> HIDE DEF x, y
<1> QED BY <1>1, <1>3, <1>4, <1>5, <1>6, <1>7

\* How many queries there may still be
Queries == Cardinality(todo) + (IF activity THEN 1 ELSE 0)

\* The terms of Fuel are in the range of Allowances.
FuelTypes == /\ PagesOf(size) \in Nat \ {0} /\ page \in 1 .. PagesOf(size)
             /\ attempt \in 0 .. MaxRetries /\ Queries \in Nat
             /\ IsFiniteSet(todo) /\ Cardinality(todo) \in Nat

LEMMA FuelIs == IInv /\ PageInv => FuelTypes
<1> SUFFICES ASSUME IInv, PageInv PROVE FuelTypes
  OBVIOUS
<1>1. /\ size \in Nat /\ page \in Nat \ {0} /\ attempt \in 0 .. MaxRetries
      /\ todo \subseteq Units /\ activity \in BOOLEAN
  BY MaxSizeAssumption DEF IInv, TypeOK
<1>2. IsFiniteSet(todo) /\ Cardinality(todo) \in Nat
  BY <1>1, UnitsFinite, FS_Subset, FS_CardinalityType
<1> QED BY <1>1, <1>2 DEF FuelTypes, PageInv, PagesOf, Queries

\* They are so after a step, too.
LEMMA FuelStays == IInv' /\ PageInv' => FuelTypes'
BY FuelIs, PTL

\* What a step does to the counters
Advances ==
  \/ /\ UNCHANGED <<todo, activity, page, attempt>>
     /\ outcome = "fetching" /\ outcome' # "fetching"
  \/ /\ UNCHANGED <<todo, activity, page, outcome>>
     /\ attempt < MaxRetries /\ attempt' = attempt + 1
  \/ /\ UNCHANGED <<todo, activity, outcome>>
     /\ page < PagesOf(size) /\ page' = page + 1 /\ attempt' = 0
  \/ /\ UNCHANGED <<todo, outcome>>
     /\ activity /\ activity' = FALSE /\ page' = 1 /\ attempt' = 0
  \/ /\ UNCHANGED <<activity, outcome>>
     /\ \E u \in todo : todo' = todo \ {u}
     /\ page' = 1 /\ attempt' = 0

\* A refused request advances: it ends the fetch, or hands over what there is,
\* or goes on with another user, or with the second query of the users.
LEMMA ErrorAdvances ==
  ASSUME IInv, NEW u \in Units, NEW s, Reading(u), GraphErrorRaised(u, s)
  PROVE  Advances /\ UNCHANGED size
<1>1. u \in todo /\ outcome = "fetching"
  BY DEF Reading, FirstOf
<1>2. CASE Abort
  BY <1>1, <1>2 DEF Advances, Abort, fixed, request
<1>3. ASSUME NEW rs, NEW ok, Return(u, rs, ok) PROVE Advances /\ UNCHANGED size
  BY <1>1, <1>3 DEF Advances, Return, NewRequest, fixed
<1>4. CASE UsersError(s)
  BY <1>2, <1>4 DEF Advances, UsersError, NewRequest, fixed
<1>5. CASE u = "per_user_mfa" /\ ~LastPage(u) /\ GoOn(rows)
  <2>1. page < Len(data["users"]) /\ page \in Nat /\ size \in Nat
    BY <1>5, UsersAtMost, MaxSizeAssumption DEF LastPage, IInv, TypeOK
  <2>2. page < PagesOf(size)
    BY <2>1, UsersAtMost DEF PagesOf
  <2> QED BY <1>5, <2>2 DEF Advances, GoOn, NewRequest, fixed
<1> QED BY <1>2, <1>3, <1>4, <1>5 DEF GraphErrorRaised, PerUserError

\* Every step advances.
LEMMA StepAdvances ==
  ASSUME IInv, Next
  PROVE  Advances /\ UNCHANGED size
<1>1. ASSUME NEW u \in Units, NEW s \in {429, 500}, Retry(u, s) PROVE Advances /\ UNCHANGED size
  BY <1>1 DEF Retry, Asking, Advances, fixed
<1>2. ASSUME NEW u \in Units, NEW s, Refused(u, s) PROVE Advances /\ UNCHANGED size
  BY <1>2, ErrorAdvances DEF Refused, Asking
<1>3. ASSUME NEW u \in Units, Exhausted(u) PROVE Advances /\ UNCHANGED size
  BY <1>3, ErrorAdvances DEF Exhausted
<1>4. ASSUME NEW u \in Units, Broken(u) PROVE Advances /\ UNCHANGED size
  BY <1>4 DEF Broken, Asking, Reading, Abort, Advances, fixed, request
<1>5. ASSUME NEW u \in Units, NextPage(u) PROVE Advances /\ UNCHANGED size
  <2>1. ~LastPage(u) /\ page \in Nat /\ size \in Nat
    BY <1>5, MaxSizeAssumption DEF NextPage, IInv, TypeOK
  <2>2. page < PagesOf(size)
    BY <2>1, UsersAtMost DEF LastPage, PagesOf
  <2> QED BY <1>5, <2>2 DEF NextPage, GoOn, NewRequest, Advances, fixed
<1>6. ASSUME NEW u \in Units, NEW rs, NEW ok, Reading(u), Return(u, rs, ok)
      PROVE  Advances /\ UNCHANGED size
  BY <1>6 DEF Reading, FirstOf, Return, NewRequest, Advances, fixed
<1>7. ASSUME NEW u \in Units, LastAnswer(u) \/ LastUsers(u) \/ NoUsers(u)
      PROVE  Advances /\ UNCHANGED size
  BY <1>6, <1>7 DEF LastAnswer, LastUsers, NoUsers, Asking
<1>8. CASE Done
  BY <1>8 DEF Done, Advances, fixed, request
<1> QED BY <1>1, <1>2, <1>3, <1>4, <1>5, <1>7, <1>8 DEF Next

\* A page is asked for only when the answer before it had a nextLink.
LEMMA PageNext == IInv /\ PageInv /\ [Next]_vars => PageInv'
<1> SUFFICES ASSUME IInv, PageInv, [Next]_vars PROVE PageInv'
  OBVIOUS
<1>1. CASE UNCHANGED vars
  BY <1>1 DEF PageInv, vars
<1>2. CASE Next
  <2>1. Advances /\ size' = size
    BY <1>2, StepAdvances
  <2>2. PagesOf(size) \in Nat \ {0} /\ page \in Nat
    BY FuelIs DEF FuelTypes
  <2> QED BY <2>1, <2>2 DEF Advances, PageInv
<1> QED BY <1>1, <1>2

\* To advance uses up fuel.
LEMMA AdvanceBurns ==
  ASSUME IInv, PageInv, IInv', PageInv', Advances, size' = size
  PROVE  Fuel' \in Nat /\ Fuel' < Fuel
<1> DEFINE pages == PagesOf(size)
           r == MaxRetries
           on == IF outcome = "fetching" THEN 1 ELSE 0
<1>1. /\ pages \in Nat \ {0} /\ page \in 1 .. pages
      /\ attempt \in 0 .. r /\ Queries \in Nat
      /\ IsFiniteSet(todo) /\ Cardinality(todo) \in Nat
  BY FuelIs DEF FuelTypes
<1>2. /\ page' \in 1 .. pages /\ attempt' \in 0 .. r /\ Queries' \in Nat
  BY FuelStays DEF FuelTypes, PagesOf
<1>3. Fuel = Allowance(Queries, pages, page, attempt) + on
  BY DEF Fuel, Allowance, Queries, PagesOf
<1>4. Fuel' = Allowance(Queries', pages, page', attempt') + on'
  BY DEF Fuel, Allowance, Queries, PagesOf
<1> HIDE DEF pages
<1>5. /\ Allowance(Queries, pages, page, attempt) \in Nat
      /\ Allowance(Queries', pages, page', attempt') \in Nat
  BY <1>1, <1>2, Allowances
<1>6. on \in {0, 1} /\ on' \in {0, 1}
  OBVIOUS
<1>7. CASE /\ UNCHANGED <<todo, activity, page, attempt>>
           /\ outcome = "fetching" /\ outcome' # "fetching"
  <2>1. Queries' = Queries /\ on' = 0 /\ on = 1
    BY <1>7 DEF Queries
  <2> QED BY <1>3, <1>4, <1>5, <1>7, <2>1
<1>8. ASSUME Allowance(Queries', pages, page', attempt') < Allowance(Queries, pages, page, attempt),
             outcome' = outcome
      PROVE  Fuel' \in Nat /\ Fuel' < Fuel
  <2>1. on' = on
    BY <1>8
  <2> HIDE DEF on
  <2> QED BY <1>3, <1>4, <1>5, <1>6, <1>8, <2>1
<1>9. CASE /\ UNCHANGED <<todo, activity, page, outcome>>
           /\ attempt < MaxRetries /\ attempt' = attempt + 1
  <2>1. Queries' = Queries
    BY <1>9 DEF Queries
  <2> QED BY <1>1, <1>8, <1>9, <2>1, Allowances
<1>10. CASE /\ UNCHANGED <<todo, activity, outcome>>
            /\ page < PagesOf(size) /\ page' = page + 1 /\ attempt' = 0
  <2>1. Queries' = Queries
    BY <1>10 DEF Queries
  <2> QED BY <1>1, <1>8, <1>10, <2>1, Allowances DEF pages
<1>11. CASE /\ UNCHANGED <<todo, outcome>>
            /\ activity /\ activity' = FALSE /\ page' = 1 /\ attempt' = 0
  <2>1. Queries' = Queries - 1 /\ Queries > 0
    BY <1>1, <1>11 DEF Queries
  <2> QED BY <1>1, <1>8, <1>11, <2>1, Allowances
<1>12. CASE /\ UNCHANGED <<activity, outcome>>
            /\ \E u \in todo : todo' = todo \ {u}
            /\ page' = 1 /\ attempt' = 0
  <2>1. PICK u \in todo : todo' = todo \ {u}
    BY <1>12
  <2>2. Cardinality(todo') = Cardinality(todo) - 1
    BY <1>1, <2>1, FS_RemoveElement
  <2>3. Cardinality(todo') \in Nat
    BY <1>1, <2>1, FS_Subset, FS_CardinalityType
  <2>4. Queries' = Queries - 1 /\ Queries > 0
    BY <1>1, <1>12, <2>2, <2>3 DEF Queries
  <2> QED BY <1>1, <1>8, <1>12, <2>4, Allowances
<1> QED BY <1>7, <1>9, <1>10, <1>11, <1>12 DEF Advances

\* Every step of a fetch, whatever Graph answers, leaves it less that it may
\* still do: an audit makes at most Fuel requests, which the units asked for,
\* the size of the tenant and the attempts per request determine.
THEOREM FetchAlwaysBounded == Spec => FetchBounded
<1>1. Init => PageInv
  BY MaxSizeAssumption DEF Init, PageInv, PagesOf
<1>2. IInv /\ PageInv /\ [Next]_vars => PageInv'
  BY PageNext
<1>3. IInv /\ PageInv /\ IInv' /\ PageInv' /\ [Next]_vars => [Fuel' \in Nat /\ Fuel' < Fuel]_vars
  <2> SUFFICES ASSUME IInv, PageInv, IInv', PageInv', Next
               PROVE  Fuel' \in Nat /\ Fuel' < Fuel
    OBVIOUS
  <2>1. Advances /\ size' = size
    BY StepAdvances
  <2> QED BY <2>1, AdvanceBurns
<1> QED BY <1>1, <1>2, <1>3, Invariance, PTL DEF Spec, FetchBounded
=============================================================================
