---------------------------- MODULE Host_proofs ----------------------------
(***************************************************************************)
(* What processes share, for any number of them, of audits, secrets, rate   *)
(* cards, formats and file names: each of the three parts of the shared     *)
(* state has an invariant of its own, which its own actions preserve and    *)
(* those of the other parts do not touch.                                  *)
(***************************************************************************)
EXTENDS Host, TLAPS

-----------------------------------------------------------------------------
(* The session secret *)

USE DEF Resolving

SecretNext ==
  \/ \E p \in Processes : \/ \E isSet \in BOOLEAN : CallGetSettings(p, isSet)
                          \/ ResolveSecret(p) \/ EndSecret(p) \/ SignCookie(p)
  \/ UNCHANGED secretVars

\* The invariant of the secret file is preserved by every step.
LEMMA SecretStep ==
  ASSUME SecretTypeOK, SecretInv, SecretNext
  PROVE  SecretTypeOK' /\ SecretInv'
<1> USE SecretAssumption
<1>1. CASE UNCHANGED secretVars
  BY <1>1 DEF SecretTypeOK, SecretInv, secretVars, Creating
<1> SUFFICES ASSUME NEW p \in Processes,
                    \/ \E isSet \in BOOLEAN : CallGetSettings(p, isSet)
                    \/ ResolveSecret(p) \/ EndSecret(p) \/ SignCookie(p)
             PROVE  SecretTypeOK' /\ SecretInv'
  BY <1>1 DEF SecretNext
<1>2. CASE \E isSet \in BOOLEAN : CallGetSettings(p, isSet)
  BY <1>2 DEF SecretTypeOK, SecretInv, Creating, CallGetSettings, Advance
<1>3. CASE LookSecret(p)
  <2>1. CASE secretFile \in Secrets
    BY <1>3, <2>1 DEF SecretTypeOK, SecretInv, Creating, LookSecret, Advance
  <2>2. CASE secretFile \notin Secrets
    <3>1. /\ resolving' = [resolving EXCEPT ![p] = "create"]
          /\ secret' = [secret EXCEPT ![p] = NoSecret]
          /\ raced' = (raced \/ Creating # {})
          /\ UNCHANGED <<secretFile, cookieKey, drawn, ephemeral>>
      BY <1>3, <2>2 DEF LookSecret, NoSecretFound, Advance
    <3>2. SecretTypeOK'
      BY <3>1 DEF SecretTypeOK
    <3>3. ~raced' => Creating' = {p}
      BY <3>1 DEF SecretTypeOK, Creating
    <3> QED BY <2>2, <3>1, <3>2, <3>3 DEF SecretTypeOK, SecretInv
  <2> QED BY <2>1, <2>2
<1>4. CASE WriteSecret(p)
  BY <1>4 DEF SecretTypeOK, SecretInv, Creating, WriteSecret, Advance
<1>5. ASSUME NEW s \in Secrets, CreateSecret(p, s)
      PROVE  SecretTypeOK' /\ SecretInv'
  BY <1>5 DEF SecretTypeOK, SecretInv, Creating, CreateSecret, Draw, Advance
<1>6. ASSUME NEW s \in Secrets, SecretFileFails(p, s)
      PROVE  SecretTypeOK' /\ SecretInv'
  BY <1>6 DEF SecretTypeOK, SecretInv, Creating, SecretFileFails, Draw, Advance
<1>7. CASE EndSecret(p)
  BY <1>7 DEF SecretTypeOK, SecretInv, Creating, EndSecret, Advance
<1>8. CASE SignCookie(p)
  BY <1>8 DEF SecretTypeOK, SecretInv, Creating, SignCookie
<1> QED BY <1>2, <1>3, <1>4, <1>5, <1>6, <1>7, <1>8 DEF ResolveSecret

-----------------------------------------------------------------------------
(* The rate card *)

USE DEF Loading

PriceNext == \/ \E a \in Audits : (\E u \in Urls \cup {NoUrl} : LoadPrices(a, u)) \/ LoadStep(a)
             \/ \E S \in SUBSET Audits : EndLoading(S)
             \/ UNCHANGED priceVars

\* The invariant of the rate card's copy is preserved by every step.
LEMMA PriceStep ==
  ASSUME PriceTypeOK, PriceInv, PriceNext
  PROVE  PriceTypeOK' /\ PriceInv'
<1> USE PriceAssumption DEF PriceTypeOK, PriceInv, SourceToldIfSame, SourceTold, Step, Loaded
<1>1. CASE UNCHANGED priceVars
  BY <1>1 DEF priceVars
<1>2. ASSUME NEW S \in SUBSET Audits, EndLoading(S)
      PROVE  PriceTypeOK' /\ PriceInv'
  BY <1>2 DEF EndLoading
<1> SUFFICES ASSUME NEW a \in Audits,
                    (\E u \in Urls \cup {NoUrl} : LoadPrices(a, u)) \/ LoadStep(a)
             PROVE  PriceTypeOK' /\ PriceInv'
  BY <1>1, <1>2 DEF PriceNext
<1>3. ASSUME NEW u \in Urls \cup {NoUrl}, LoadPrices(a, u)
      PROVE  PriceTypeOK' /\ PriceInv'
  <2>1. CASE u = NoUrl
    BY <1>3, <2>1 DEF LoadPrices
  <2>2. CASE u # NoUrl
    BY <1>3, <2>2 DEF LoadPrices
  <2> QED BY <2>1, <2>2
<1>4. CASE CardAnswers(a)
  BY <1>4 DEF CardAnswers
<1>5. CASE CardFails(a)
  BY <1>5 DEF CardFails
<1>6. CASE OpenCache(a)
  BY <1>6 DEF OpenCache
<1>7. CASE FillCache(a)
  BY <1>7 DEF FillCache
<1>8. CASE CacheNotWritten(a)
  BY <1>8 DEF CacheNotWritten
<1>9. CASE ReadCache(a)
  BY <1>9 DEF ReadCache
<1> QED BY <1>3, <1>4, <1>5, <1>6, <1>7, <1>8, <1>9 DEF LoadStep

-----------------------------------------------------------------------------
(* The report files *)

\* An audit is asked for at least one format, and each of them is a format.
LEMMA FormatsKnown ==
  ASSUME NEW a \in Audits
  PROVE  /\ Len(FormatsOf[a]) \in Nat /\ Len(FormatsOf[a]) > 0
         /\ \A i \in 1 .. Len(FormatsOf[a]) : FormatsOf[a][i] \in AllFormats(a)
         /\ AllFormats(a) \subseteq Formats /\ AllFormats(a) # {}
         /\ BaseName[a] \in Names
<1>1. FormatsOf[a] \in Seq(Formats) /\ FormatsOf[a] # <<>> /\ BaseName[a] \in Names
  BY FilesAssumption
<1>2. Len(FormatsOf[a]) \in Nat /\ Len(FormatsOf[a]) > 0
  BY <1>1
<1>3. \A i \in 1 .. Len(FormatsOf[a]) : FormatsOf[a][i] \in Formats
  BY <1>1
<1>4. 1 \in 1 .. Len(FormatsOf[a])
  BY <1>2
<1> QED BY <1>1, <1>2, <1>3, <1>4 DEF AllFormats

FileNext ==
  \/ \E a \in Audits : \/ StartWriting(a) \/ OpenReport(a) \/ CloseReport(a) \/ WriteFails(a)
                        \/ OpenZip(a) \/ CloseZip(a) \/ SendZip(a)
  \/ \E S \in SUBSET Audits : EndReports(S)
  \/ UNCHANGED fileVars

\* What is in the files has the type the other steps rely on.
LEMMA FileTypeStep ==
  ASSUME FileTypeOK, FileInv, FileNext
  PROVE  FileTypeOK'
<1> USE DEF FileTypeOK, Archives, Contents, zipVars
<1>1. CASE UNCHANGED fileVars
  BY <1>1 DEF fileVars
<1>2. ASSUME NEW S \in SUBSET Audits, EndReports(S)
      PROVE  FileTypeOK'
  BY <1>2, FormatsKnown DEF EndReports
<1> SUFFICES ASSUME NEW a \in Audits,
                    \/ StartWriting(a) \/ OpenReport(a) \/ CloseReport(a) \/ WriteFails(a)
                    \/ OpenZip(a) \/ CloseZip(a) \/ SendZip(a)
             PROVE  FileTypeOK'
  BY <1>1, <1>2 DEF FileNext
<1>3. CASE StartWriting(a)
  BY <1>3, FormatsKnown DEF StartWriting
<1>4. CASE OpenReport(a)
  <2>1. FormatAt(a) \in Formats
    BY <1>4, FormatsKnown DEF OpenReport, FormatAt
  <2> QED BY <1>4, <2>1, FormatsKnown DEF OpenReport, Others
<1>5. CASE CloseReport(a)
  <2>1. FormatAt(a) \in Formats /\ at[a] > 0
    BY <1>5, FormatsKnown DEF CloseReport, FormatAt, FileInv
  <2>2. at' \in [Audits -> Nat] /\ \A b \in Audits : at'[b] <= Len(FormatsOf[b])
    BY <1>5, FormatsKnown DEF CloseReport, NextFormat
  <2>3. reports' \in [Audits -> SUBSET Formats]
    BY <1>5, FormatsKnown DEF CloseReport, Register
  <2> DEFINE old == files[BaseName[a]][FormatAt(a)]
  <2>4. [by |-> old.by \cup {a}, torn |-> old.by # {a}] \in [by : SUBSET Audits, torn : BOOLEAN]
    BY <2>1, FormatsKnown
  <2>5. files' = [files EXCEPT ![BaseName[a]] =
                    [@ EXCEPT ![FormatAt(a)] = [by |-> old.by \cup {a}, torn |-> old.by # {a}]]]
    BY <1>5, <2>1, FormatsKnown DEF CloseReport
  <2> HIDE DEF old
  <2>6. files' \in [Names -> [Formats -> [by : SUBSET Audits, torn : BOOLEAN]]]
    BY <2>1, <2>4, <2>5, FormatsKnown
  <2> QED BY <1>5, <2>2, <2>3, <2>6 DEF CloseReport
<1>6. CASE WriteFails(a)
  BY <1>6, FormatsKnown DEF WriteFails
<1>7. CASE OpenZip(a)
  BY <1>7, FormatsKnown DEF OpenZip, Others, NoArchive, NoFile
<1>8. CASE CloseZip(a)
  <2> DEFINE packed == [f \in Formats |->
               IF zips[BaseName[a]] # NoArchive THEN [by |-> {}, torn |-> TRUE]
               ELSE IF f \in reports[a] THEN files[BaseName[a]][f] ELSE NoFile]
  <2>1. packed \in [Formats -> [by : SUBSET Audits, torn : BOOLEAN]]
    BY FormatsKnown DEF NoFile
  <2>2. zips' = [zips EXCEPT ![BaseName[a]] = packed]
    BY <1>8, FormatsKnown DEF CloseZip
  <2> HIDE DEF packed
  <2> QED BY <1>8, <2>1, <2>2, FormatsKnown DEF CloseZip
<1>9. CASE SendZip(a)
  BY <1>9, FormatsKnown DEF SendZip
<1> QED BY <1>3, <1>4, <1>5, <1>6, <1>7, <1>8, <1>9

\* The part of the invariant that is about one audit.
FileInvOf(b) ==
  /\ isOpen[b] => at[b] > 0
  /\ reports[b] \in {{}, AllFormats(b)}
  /\ reports[b] # {} => at[b] = 0
  /\ zipping[b] => reports[b] # {}
  /\ b \notin disturbed => FilesOwn(b)

\* The invariant of the report files is preserved by every step.
LEMMA FileStep ==
  ASSUME FileTypeOK, FileInv, FileNext
  PROVE  FileInv'
<1> USE DEF FileTypeOK, Archives, Contents, zipVars
<1>1. CASE UNCHANGED fileVars
  BY <1>1 DEF fileVars, FileInv, FilesOwn, OffersOwn, FormatAt
<1> SUFFICES ASSUME NEW b \in Audits, ~UNCHANGED fileVars
             PROVE  FileInvOf(b)'
  BY <1>1 DEF FileInv, FileInvOf
<1>0. FileInvOf(b)
  BY DEF FileInv, FileInvOf
<1> USE DEF FileInvOf, FilesOwn, OffersOwn, FormatAt
<1>2. ASSUME NEW S \in SUBSET Audits, EndReports(S)
      PROVE  FileInvOf(b)'
  <2>1. /\ UNCHANGED <<files, zips, received, disturbed>>
        /\ \A c \in Audits : (isOpen'[c] => isOpen[c]) /\ (zipping'[c] => zipping[c])
    BY <1>2 DEF EndReports
  <2>2. CASE b \in S
    <3>1. at'[b] = 0 /\ ~isOpen'[b] /\ reports'[b] = {} /\ ~zipping'[b] /\ ~sending'[b]
      BY <1>2, <2>2 DEF EndReports
    <3> QED BY <1>0, <2>1, <3>1, FormatsKnown DEF Others
  <2>3. CASE b \notin S
    <3>1. /\ at'[b] = at[b] /\ isOpen'[b] = isOpen[b]
          /\ reports'[b] = reports[b] /\ zipping'[b] = zipping[b] /\ sending'[b] = sending[b]
      BY <1>2, <2>3 DEF EndReports
    <3> QED BY <1>0, <2>1, <3>1, FormatsKnown DEF Others
  <2> QED BY <2>2, <2>3
<1> SUFFICES ASSUME NEW a \in Audits,
                    \/ StartWriting(a) \/ OpenReport(a) \/ CloseReport(a) \/ WriteFails(a)
                    \/ OpenZip(a) \/ CloseZip(a) \/ SendZip(a)
             PROVE  FileInvOf(b)'
  BY <1>1, <1>2 DEF FileNext
<1>3. CASE StartWriting(a)
  <2>1. CASE a = b
    BY <1>0, <1>3, <2>1, FormatsKnown DEF StartWriting
  <2>2. CASE a # b
    <3>1. at'[b] = at[b]
      BY <1>3, <2>2 DEF StartWriting
    <3> QED BY <1>0, <1>3, <3>1 DEF StartWriting
  <2> QED BY <2>1, <2>2
<1>4. CASE OpenReport(a)
  <2>1. CASE a = b
    <3>1. FormatAt(b) \in Formats /\ BaseName[b] \in Names /\ at[b] <= Len(FormatsOf[b])
      BY <1>4, <2>1, FormatsKnown DEF OpenReport
    <3>2. /\ files'[BaseName[b]][FormatAt(b)] = [by |-> {b}, torn |-> TRUE]
          /\ \A f \in Formats \ {FormatAt(b)} : files'[BaseName[b]][f] = files[BaseName[b]][f]
      BY <1>4, <2>1, <3>1 DEF OpenReport
    <3>3. isOpen'[b] /\ at' = at /\ at[b] > 0 /\ ~isOpen[b] /\ reports[b] = {}
      BY <1>0, <1>4, <2>1 DEF OpenReport
    <3>4. b \notin disturbed' => b \notin disturbed /\ \A c \in Others(b) : at[c] = 0
      BY <1>4, <2>1 DEF OpenReport, Others
    <3>5. b \notin disturbed' => \A c \in Others(b) : ~isOpen'[c]
      BY <1>4, <2>1, <3>4 DEF OpenReport, Others, FileInv
    <3>6. \A i \in 1 .. at[b] - 1 : FormatsOf[b][i] \in Formats
      BY <3>1, FormatsKnown
    <3>7. /\ UNCHANGED <<zips, reports, zipVars>>
      BY <1>4 DEF OpenReport
    <3> QED BY <1>0, <3>2, <3>3, <3>4, <3>5, <3>6, <3>7
  <2>2. CASE a # b
    BY <1>0, <1>4, <2>2, FormatsKnown DEF OpenReport, Others
  <2> QED BY <2>1, <2>2
<1>5. CASE CloseReport(a)
  <2>1. CASE a = b
    <3>1. /\ isOpen[b] /\ at[b] \in 1 .. Len(FormatsOf[b]) /\ reports[b] = {}
          /\ FormatAt(b) \in Formats /\ BaseName[b] \in Names
      BY <1>0, <1>5, <2>1, FormatsKnown DEF CloseReport
    <3>2. /\ UNCHANGED <<zips, zipVars, disturbed>>
          /\ ~isOpen'[b] /\ \A c \in Others(b) : isOpen'[c] = isOpen[c]
      BY <1>5, <2>1 DEF CloseReport, Others
    <3>3. /\ files'[BaseName[b]][FormatAt(b)] =
               [by |-> files[BaseName[b]][FormatAt(b)].by \cup {b},
                torn |-> files[BaseName[b]][FormatAt(b)].by # {b}]
          /\ \A f \in Formats \ {FormatAt(b)} : files'[BaseName[b]][f] = files[BaseName[b]][f]
      BY <1>5, <2>1, <3>1 DEF CloseReport
    <3>4. b \notin disturbed => files'[BaseName[b]][FormatAt(b)] = Own(b)
      <4> SUFFICES ASSUME b \notin disturbed
                   PROVE  files'[BaseName[b]][FormatAt(b)] = Own(b)
        OBVIOUS
      <4> DEFINE old == files[BaseName[b]][FormatAt(b)]
      <4>1. old = [by |-> {b}, torn |-> TRUE]
        BY <1>0, <3>1
      <4>2. old.by = {b}
        BY <4>1
      <4>3. old.by \cup {b} = {b} /\ (old.by # {b}) = FALSE
        BY <4>2
      <4> QED BY <3>3, <4>3 DEF Own
    <3>5. b \notin disturbed => \A i \in 1 .. at[b] : files'[BaseName[b]][FormatsOf[b][i]] = Own(b)
      <4> SUFFICES ASSUME b \notin disturbed, NEW i \in 1 .. at[b]
                   PROVE  files'[BaseName[b]][FormatsOf[b][i]] = Own(b)
        OBVIOUS
      <4>1. CASE FormatsOf[b][i] = FormatAt(b)
        BY <3>4, <4>1
      <4>2. CASE FormatsOf[b][i] # FormatAt(b)
        <5>1. i \in 1 .. at[b] - 1 /\ i \in 1 .. Len(FormatsOf[b])
          BY <3>1, <4>2, FormatsKnown
        <5>2. FormatsOf[b][i] \in Formats
          BY <5>1, FormatsKnown
        <5>3. files[BaseName[b]][FormatsOf[b][i]] = Own(b)
          BY <1>0, <4>2, <5>1
        <5> QED BY <3>3, <4>2, <5>2, <5>3
      <4> QED BY <4>1, <4>2
    <3>6. b \notin disturbed => \A c \in Others(b) : ~isOpen'[c]
      BY <1>0, <3>1, <3>2
    <3>7. CASE at[b] = Len(FormatsOf[b])
      <4>1. at'[b] = 0 /\ reports'[b] = AllFormats(b)
        BY <1>5, <2>1, <3>7 DEF CloseReport, NextFormat, Register
      <4>2. b \notin disturbed => \A f \in AllFormats(b) : files'[BaseName[b]][f] = Own(b)
        BY <3>5, <3>7 DEF AllFormats
      <4> QED BY <1>0, <3>2, <3>6, <4>1, <4>2
    <3>8. CASE at[b] # Len(FormatsOf[b])
      <4>1. at'[b] = at[b] + 1 /\ reports'[b] = {}
        BY <1>5, <2>1, <3>1, <3>8 DEF CloseReport, NextFormat
      <4> QED BY <1>0, <3>1, <3>2, <3>5, <3>6, <4>1
    <3> QED BY <3>7, <3>8
  <2>2. CASE a # b
    <3>1. /\ UNCHANGED <<zips, zipVars, disturbed>>
          /\ isOpen[a] /\ at'[b] = at[b] /\ isOpen'[b] = isOpen[b] /\ reports'[b] = reports[b]
          /\ \A c \in Audits : isOpen'[c] => isOpen[c]
      BY <1>5, <2>2 DEF CloseReport, NextFormat, Register
    <3>2. CASE BaseName[a] = BaseName[b]
      <4>1. a \in Others(b)
        BY <2>2, <3>2 DEF Others
      <4>2. b \notin disturbed => ~isOpen[b] /\ at[b] <= 1 /\ reports[b] = {}
        BY <1>0, <3>1, <4>1
      <4>3. b \notin disturbed => 1 .. at[b] - 1 = {}
        BY <4>2
      <4> HIDE DEF FormatAt
      <4> QED BY <1>0, <3>1, <4>2, <4>3 DEF Others
    <3>3. CASE BaseName[a] # BaseName[b]
      <4>1. files'[BaseName[b]] = files[BaseName[b]]
        BY <1>5, <3>3, FormatsKnown DEF CloseReport
      <4> QED BY <1>0, <3>1, <4>1 DEF Others
    <3> QED BY <3>2, <3>3
  <2> QED BY <2>1, <2>2
<1>6. CASE WriteFails(a)
  BY <1>0, <1>6, FormatsKnown DEF WriteFails
<1>7. CASE OpenZip(a)
  <2>1. /\ UNCHANGED <<files, at, isOpen, reports, sending, received>>
        /\ reports[a] # {} /\ zipping' = [zipping EXCEPT ![a] = TRUE]
        /\ b \notin disturbed' => b \notin disturbed
    BY <1>7 DEF OpenZip
  <2>2. CASE a = b
    <3>1. zips'[BaseName[b]] = NoArchive
      BY <1>7, <2>2, FormatsKnown DEF OpenZip
    <3>2. b \notin disturbed' => \A c \in Others(b) : ~zipping'[c]
      BY <1>7, <2>1, <2>2 DEF OpenZip, Others
    <3> QED BY <1>0, <2>1, <2>2, <3>1, <3>2
  <2>3. CASE a # b /\ BaseName[a] = BaseName[b]
    <3>1. b \notin disturbed' => ~zipping[b] /\ ~sending[b]
      BY <1>7, <2>3 DEF OpenZip, Others
    <3> QED BY <1>0, <2>1, <2>3, <3>1
  <2>4. CASE BaseName[a] # BaseName[b]
    <3>1. zips'[BaseName[b]] = zips[BaseName[b]] /\ zipping'[b] = zipping[b]
      BY <1>7, <2>4, FormatsKnown DEF OpenZip
    <3>2. \A c \in Others(b) : zipping'[c] = zipping[c]
      BY <2>1, <2>4 DEF Others
    <3> QED BY <1>0, <2>1, <3>1, <3>2
  <2> QED BY <2>2, <2>3, <2>4
<1>8. CASE CloseZip(a)
  <2>1. /\ UNCHANGED <<files, at, isOpen, reports, received, disturbed>>
        /\ zipping[a] /\ zipping' = [zipping EXCEPT ![a] = FALSE]
        /\ sending' = [sending EXCEPT ![a] = TRUE]
    BY <1>8 DEF CloseZip
  <2>2. \A c \in Audits : zipping'[c] => zipping[c]
    BY <2>1
  <2>3. CASE a = b
    <3>1. reports[b] = AllFormats(b) /\ reports[b] # {} /\ BaseName[b] \in Names
      BY <1>0, <2>1, <2>3, FormatsKnown
    <3>2. b \notin disturbed =>
            zips'[BaseName[b]] =
              [f \in Formats |-> IF f \in reports[b] THEN files[BaseName[b]][f] ELSE NoFile]
      <4> SUFFICES ASSUME b \notin disturbed PROVE zips[BaseName[b]] = NoArchive
        BY <1>8, <2>3, <3>1 DEF CloseZip
      <4> QED BY <1>0, <2>1, <2>3
    <3>3. b \notin disturbed => \A f \in reports[b] : files[BaseName[b]][f] = Own(b)
      BY <1>0, <3>1
    <3>4. b \notin disturbed => zips'[BaseName[b]] = OwnArchive(b)
      BY <3>1, <3>2, <3>3 DEF OwnArchive
    <3>5. b \notin disturbed => \A c \in Others(b) : ~zipping'[c]
      BY <1>0, <2>1, <2>2, <2>3 DEF Others
    <3> QED BY <1>0, <2>1, <2>3, <3>1, <3>4, <3>5
  <2>4. CASE a # b
    <3>1. zipping'[b] = zipping[b] /\ sending'[b] = sending[b]
      BY <2>1, <2>4
    <3>2. (b \notin disturbed /\ (zipping[b] \/ sending[b]))
            => BaseName[a] # BaseName[b] /\ \A c \in Others(b) : ~zipping'[c]
      BY <1>0, <2>1, <2>2, <2>4 DEF Others
    <3>3. BaseName[a] # BaseName[b] => zips'[BaseName[b]] = zips[BaseName[b]]
      BY <1>8, FormatsKnown DEF CloseZip
    <3> QED BY <1>0, <2>1, <3>1, <3>2, <3>3
  <2> QED BY <2>3, <2>4
<1>9. CASE SendZip(a)
  BY <1>0, <1>9, FormatsKnown DEF SendZip
<1> QED BY <1>3, <1>4, <1>5, <1>6, <1>7, <1>8, <1>9

-----------------------------------------------------------------------------
(* All of it *)

IInv == TypeOK /\ SecretInv /\ PriceInv /\ FileInv

LEMMA InitInv == Init => IInv
<1> SUFFICES ASSUME Init PROVE IInv
  OBVIOUS
<1> USE DEF Init, IInv, TypeOK
<1>1. SecretTypeOK /\ SecretInv
  BY SecretAssumption DEF SecretInit, SecretTypeOK, SecretInv, Creating
<1>2. PriceTypeOK /\ PriceInv
  BY PriceAssumption DEF PriceInit, PriceTypeOK, PriceInv, SourceToldIfSame, SourceTold
<1>3. FileTypeOK
  <2>1. NoArchive \in Archives
    BY DEF NoArchive, NoFile, Archives, Contents
  <2> QED BY <2>1, FormatsKnown DEF FileInit, FileTypeOK
<1>4. FileInv
  BY FormatsKnown DEF FileInit, FileInv, FilesOwn, OffersOwn
<1>5. stage \in [Audits -> Stages] /\ starts \in 0 .. MaxStarts
  BY HostAssumption DEF Stages
<1> QED BY <1>1, <1>2, <1>3, <1>4, <1>5

\* Every step is one of the secret file's, of the rate card's and of the report
\* files', where it may leave two of the three alone.
LEMMA Parts ==
  ASSUME IInv, [Next]_vars
  PROVE  /\ SecretNext /\ PriceNext /\ FileNext
         /\ stage' \in [Audits -> Stages]
         /\ url' \in [Processes -> Urls \cup {NoUrl}]
         /\ starts' \in 0 .. MaxStarts
<1> USE HostAssumption DEF IInv, TypeOK, Stages
<1> USE DEF SecretNext, PriceNext, FileNext
<1>1. CASE UNCHANGED vars
  BY <1>1 DEF vars
<1>2. ASSUME NEW p \in Processes, Start(p) \/ Settle(p) \/ Stop(p) \/ Login(p)
      PROVE  /\ SecretNext /\ PriceNext /\ FileNext
             /\ stage' \in [Audits -> Stages]
             /\ url' \in [Processes -> Urls \cup {NoUrl}]
             /\ starts' \in 0 .. MaxStarts
  <2>1. CASE Start(p)
    BY <2>1 DEF Start
  <2>2. CASE Settle(p)
    BY <2>2 DEF Settle
  <2>3. CASE Stop(p)
    BY <2>3 DEF Stop, AuditsOf
  <2>4. CASE Login(p)
    BY <2>4 DEF Login
  <2> QED BY <1>2, <2>1, <2>2, <2>3, <2>4
<1>3. ASSUME NEW a \in Audits,
             \/ Begin(a) \/ Price(a) \/ Fetched(a) \/ FetchFails(a) \/ Write(a) \/ Download(a)
      PROVE  /\ SecretNext /\ PriceNext /\ FileNext
             /\ stage' \in [Audits -> Stages]
             /\ url' \in [Processes -> Urls \cup {NoUrl}]
             /\ starts' \in 0 .. MaxStarts
  <2> USE DEF SetStage
  <2>1. CASE Begin(a)
    <3>1. url[ProcessOf[a]] \in Urls \cup {NoUrl}
      OBVIOUS
    <3> QED BY <2>1, <3>1 DEF Begin
  <2>2. CASE Price(a)
    BY <2>2 DEF Price
  <2>3. CASE Fetched(a)
    BY <2>3 DEF Fetched
  <2>4. CASE FetchFails(a)
    BY <2>4 DEF FetchFails
  <2>5. CASE Write(a)
    BY <2>5 DEF Write
  <2>6. CASE Download(a)
    BY <2>6 DEF Download
  <2> QED BY <1>3, <2>1, <2>2, <2>3, <2>4, <2>5, <2>6
<1> QED BY <1>1, <1>2, <1>3 DEF Next

LEMMA NextInv == IInv /\ [Next]_vars => IInv'
<1> SUFFICES ASSUME IInv, [Next]_vars PROVE IInv'
  OBVIOUS
<1>1. SecretTypeOK' /\ SecretInv'
  BY Parts, SecretStep DEF IInv, TypeOK
<1>2. PriceTypeOK' /\ PriceInv'
  BY Parts, PriceStep DEF IInv, TypeOK
<1>3. FileTypeOK' /\ FileInv'
  BY Parts, FileTypeStep, FileStep DEF IInv, TypeOK
<1> QED BY <1>1, <1>2, <1>3, Parts DEF IInv, TypeOK

LEMMA Invariance == Spec => []IInv
  BY InitInv, NextInv, PTL DEF Spec

\* Whatever the processes do and wherever they stop, all state has its type.
THEOREM TypeCorrect == Spec => []TypeOK
<1>1. IInv => TypeOK
  BY DEF IInv
<1> QED BY <1>1, Invariance, PTL

\* Sessions survive restarts: a cookie signed with the secret of the file
\* verifies in every process that has its secret from there, unless two
\* processes once were at creating the file at the same time.
THEOREM CookieSafe == Spec => []CookieSurvives
<1>1. IInv => CookieSurvives
  BY DEF IInv, TypeOK, SecretInv, CookieSurvives
<1> QED BY <1>1, Invariance, PTL

\* The report names the source of its prices, as long as all audits are
\* configured with the same rate card.
THEOREM SourceSafe == Spec => []SourceToldIfSame
<1>1. IInv => SourceToldIfSame
  BY DEF IInv, PriceInv
<1> QED BY <1>1, Invariance, PTL

\* A session offers its own reports, unless another audit whose files have the
\* same names wrote or sent its own meanwhile.
THEOREM ReportsSafe == Spec => []OwnUnlessDisturbed
<1>1. IInv => OwnUnlessDisturbed
  BY DEF IInv, FileInv, FilesOwn, OwnUnlessDisturbed
<1> QED BY <1>1, Invariance, PTL
=============================================================================
