----------------------------- MODULE ReportFiles -----------------------------
(***************************************************************************)
(* The report files: write_reports of core/report/, base_filename of        *)
(* core/models.py and the download handler of web/app.py.  The files of an  *)
(* audit are named after its tenant and day; where two names come out the   *)
(* same, two audits share their files, and so do their zip archives.        *)
(*                                                                         *)
(* What is in a file is which audits wrote to it since it was last emptied. *)
(* A file is torn from its opening to its closing, and stays so if the      *)
(* process stops or the write fails in between.  A format that write_reports *)
(* does not know, which no form and no option offers, is left out.          *)
(***************************************************************************)
EXTENDS AuditSet, Naturals, Sequences

CONSTANTS Formats, Names,
          BaseName,      \* BaseName[a]: what base_filename makes of audit a
          FormatsOf      \* FormatsOf[a]: the formats a was asked for, in order

ASSUME FilesAssumption ==
  /\ BaseName \in [Audits -> Names]
  /\ \A a \in Audits : FormatsOf[a] \in Seq(Formats) /\ FormatsOf[a] # <<>>

VARIABLES
  files,      \* files[n][f]: the report n.f
  zips,       \* zips[n]: the archive of reports called n in the temporary directory
  at,         \* at[a]: which of its formats audit a has come to, 0 if it is not writing
  isOpen,     \* isOpen[a]: it has opened that file
  reports,    \* reports[a]: the formats registered for download
  zipping,    \* zipping[a]: the process of a is making that archive for it
  sending,    \* sending[a]: an archive is on its way to the browser of a
  \* What has happened so far.
  received,   \* received[a]: what that browser got, per format, in its last archive
  disturbed   \* audits that another audit of the same name has interfered with

zipVars == <<zipping, sending, received>>
fileVars == <<files, zips, at, isOpen, reports, zipVars, disturbed>>

NoFile == [by |-> {}, torn |-> FALSE]
Contents == [by : SUBSET Audits, torn : BOOLEAN]

\* The report of audit a, whole, and nobody else's.
Own(a) == [by |-> {a}, torn |-> FALSE]

Archives == [Formats -> Contents]
NoArchive == [f \in Formats |-> NoFile]

FileTypeOK ==
  /\ files \in [Names -> Archives]
  /\ zips \in [Names -> Archives]
  /\ at \in [Audits -> Nat] /\ \A a \in Audits : at[a] <= Len(FormatsOf[a])
  /\ isOpen \in [Audits -> BOOLEAN]
  /\ reports \in [Audits -> SUBSET Formats]
  /\ zipping \in [Audits -> BOOLEAN]
  /\ sending \in [Audits -> BOOLEAN]
  /\ received \in [Audits -> Archives]
  /\ disturbed \subseteq Audits

FileInit ==
  /\ files = [n \in Names |-> NoArchive] /\ zips = [n \in Names |-> NoArchive]
  /\ at = [a \in Audits |-> 0] /\ isOpen = [a \in Audits |-> FALSE]
  /\ reports = [a \in Audits |-> {}]
  /\ zipping = [a \in Audits |-> FALSE] /\ sending = [a \in Audits |-> FALSE]
  /\ received = [a \in Audits |-> NoArchive]
  /\ disturbed = {}

Others(a) == {b \in Audits \ {a} : BaseName[b] = BaseName[a]}

AllFormats(a) == {FormatsOf[a][i] : i \in 1 .. Len(FormatsOf[a])}

FormatAt(a) == FormatsOf[a][at[a]]

-----------------------------------------------------------------------------
(* write_reports *)

StartWriting(a) == /\ at[a] = 0 /\ reports[a] = {}
                   /\ at' = [at EXCEPT ![a] = 1]
                   /\ UNCHANGED <<files, zips, isOpen, reports, zipVars, disturbed>>

\* A writer opens its file, and by that empties it: what others of that name
\* have is gone, and what they are writing gets mixed with it.
OpenReport(a) ==
  /\ at[a] > 0 /\ ~isOpen[a]
  /\ files' = [files EXCEPT ![BaseName[a]][FormatAt(a)] = [by |-> {a}, torn |-> TRUE]]
  /\ isOpen' = [isOpen EXCEPT ![a] = TRUE]
  /\ disturbed' = disturbed
       \cup {b \in Others(a) : at[b] > 0 \/ reports[b] # {}}
       \cup (IF \E b \in Others(a) : at[b] > 0 THEN {a} ELSE {})
  /\ UNCHANGED <<zips, at, reports, zipVars>>

\* Mutant: writing goes on past the last format.
NextRunsOn(a) == at' = [at EXCEPT ![a] = @ + 1]

NextFormat(a) == at' = [at EXCEPT ![a] = IF @ = Len(FormatsOf[a]) THEN 0 ELSE @ + 1]

Register(a) == reports' = [reports EXCEPT ![a] = AllFormats(a)]

\* Mutant: the paths are registered when the first file has been written.
CloseRegistersEarly(a) ==
  /\ isOpen[a]
  /\ files' = [files EXCEPT ![BaseName[a]][FormatAt(a)] =
                 [by |-> @.by \cup {a}, torn |-> @.by # {a}]]
  /\ isOpen' = [isOpen EXCEPT ![a] = FALSE]
  /\ NextFormat(a)
  /\ Register(a)
  /\ UNCHANGED <<zips, zipVars, disturbed>>

\* It has written all of it.  When it was the last file, the paths are
\* registered with the session, without a break.
CloseReport(a) ==
  /\ isOpen[a]
  /\ files' = [files EXCEPT ![BaseName[a]][FormatAt(a)] =
                 [by |-> @.by \cup {a}, torn |-> @.by # {a}]]
  /\ isOpen' = [isOpen EXCEPT ![a] = FALSE]
  /\ NextFormat(a)
  /\ IF at[a] = Len(FormatsOf[a]) THEN Register(a) ELSE UNCHANGED reports
  /\ UNCHANGED <<zips, zipVars, disturbed>>

\* A writer raises an exception: files it has written stay, and so does the
\* torn one.
WriteFails(a) ==
  /\ at[a] > 0
  /\ at' = [at EXCEPT ![a] = 0]
  /\ isOpen' = [isOpen EXCEPT ![a] = FALSE]
  /\ UNCHANGED <<files, zips, reports, zipVars, disturbed>>

-----------------------------------------------------------------------------
(* Download *)

\* /download/all opens the archive, which empties it.  Whoever makes or
\* sends an archive of that name is disturbed.
OpenZip(a) ==
  /\ reports[a] # {} /\ ~zipping[a]
  /\ zips' = [zips EXCEPT ![BaseName[a]] = NoArchive]
  /\ zipping' = [zipping EXCEPT ![a] = TRUE]
  /\ disturbed' = disturbed
       \cup {b \in Others(a) : zipping[b] \/ sending[b]}
       \cup (IF \E b \in Others(a) : zipping[b] THEN {a} ELSE {})
  /\ UNCHANGED <<files, at, isOpen, reports, sending, received>>

\* It packs the files, and the response will send what is then called so.  Over
\* another archive that was finished meanwhile, the two are a jumble.
CloseZip(a) ==
  /\ zipping[a]
  /\ zips' = [zips EXCEPT ![BaseName[a]] =
       [f \in Formats |->
          IF @ # NoArchive THEN [by |-> {}, torn |-> TRUE]
          ELSE IF f \in reports[a] THEN files[BaseName[a]][f] ELSE NoFile]]
  /\ zipping' = [zipping EXCEPT ![a] = FALSE]
  /\ sending' = [sending EXCEPT ![a] = TRUE]
  /\ UNCHANGED <<files, at, isOpen, reports, received, disturbed>>

\* The process of a sends nothing while it makes an archive.
SendZip(a) == /\ sending[a] /\ ~zipping[a]
              /\ received' = [received EXCEPT ![a] = zips[BaseName[a]]]
              /\ sending' = [sending EXCEPT ![a] = FALSE]
              /\ UNCHANGED <<files, zips, at, isOpen, reports, zipping, disturbed>>

\* The process of the audits of S ends, and its sessions with it.
EndReports(S) ==
  /\ at' = [a \in Audits |-> IF a \in S THEN 0 ELSE at[a]]
  /\ isOpen' = [a \in Audits |-> a \notin S /\ isOpen[a]]
  /\ reports' = [a \in Audits |-> IF a \in S THEN {} ELSE reports[a]]
  /\ zipping' = [a \in Audits |-> a \notin S /\ zipping[a]]
  /\ sending' = [a \in Audits |-> a \notin S /\ sending[a]]
  /\ UNCHANGED <<files, zips, received, disturbed>>

-----------------------------------------------------------------------------
(* Properties *)

OwnArchive(a) == [f \in Formats |-> IF f \in AllFormats(a) THEN Own(a) ELSE NoFile]

\* What audit a offers for download, file by file or in an archive, is its own
\* report, whole and in the formats it was asked for, and nothing else.
OffersOwn(a) ==
  /\ reports[a] # {} => /\ reports[a] = AllFormats(a)
                        /\ \A f \in reports[a] : files[BaseName[a]][f] = Own(a)
  /\ received[a] # NoArchive => received[a] = OwnArchive(a)

\* It is so, whatever the order of audits, downloads, failures and restarts, as
\* long as no other audit whose files have the same names wrote or sent them
\* meanwhile.
OwnUnlessDisturbed == \A a \in Audits : a \notin disturbed => OffersOwn(a)

\* results.html offers the reports of the audit whose results it shows.
DownloadsOwn == \A a \in Audits : OffersOwn(a)

\* What makes it so: files that a has written are its own, the archive that is
\* on its way to it too, and nobody else writes or packs under their name.
FilesOwn(a) ==
  /\ \A i \in 1 .. at[a] - 1 :
       (isOpen[a] => FormatsOf[a][i] # FormatAt(a)) => files[BaseName[a]][FormatsOf[a][i]] = Own(a)
  /\ isOpen[a] => files[BaseName[a]][FormatAt(a)] = [by |-> {a}, torn |-> TRUE]
  /\ zipping[a] => zips[BaseName[a]] = NoArchive
  /\ (sending[a] /\ ~zipping[a]) => zips[BaseName[a]] = OwnArchive(a)
  /\ (zipping[a] \/ sending[a]) => \A b \in Others(a) : ~zipping[b]
  /\ (isOpen[a] \/ at[a] > 1 \/ reports[a] # {}) => \A b \in Others(a) : ~isOpen[b]
  /\ OffersOwn(a)

FileInv == \A a \in Audits :
  /\ isOpen[a] => at[a] > 0
  /\ reports[a] \in {{}, AllFormats(a)}
  /\ reports[a] # {} => at[a] = 0
  /\ zipping[a] => reports[a] # {}
  /\ a \notin disturbed => FilesOwn(a)
=============================================================================
