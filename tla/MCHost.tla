------------------------------- MODULE MCHost -------------------------------
(* Host for TLC: two processes with an audit each, whose reports are called  *)
(* the same.  Both are web applications, which do all that a run of the CLI  *)
(* does, and more.                                                          *)
EXTENDS Host, TLC

CONSTANTS p1, p2, a1, a2, xlsx, docx, name

MCProcessOf == (a1 :> p1) @@ (a2 :> p2)
MCBaseName == (a1 :> name) @@ (a2 :> name)
MCFormatsOf == (a1 :> <<xlsx>>) @@ (a2 :> <<docx, xlsx>>)

\* SESSION_SECRET is not set, and PRICE_SOURCE_URL may change between starts.
MCEnvironments == [secret : {FALSE}, url : Urls]

\* A bound: what comes after the last start or the last secret is about the
\* session secret only (which a process may have left half made), without audits.
MCSecretsAlone == (starts = MaxStarts \/ drawn = Secrets) => \A a \in Audits : stage[a] = "idle"

MCSymmetry == Permutations(Secrets) \cup Permutations(Urls)
=============================================================================
