----------------------------- MODULE SecretFile -----------------------------
(***************************************************************************)
(* The secret that signs the session cookie: _resolve_session_secret of     *)
(* settings.py, and its use in web/sessions.py.  The web application and    *)
(* every CLI command resolve it when they start, from one file in the data  *)
(* directory that the first of them creates.                               *)
(*                                                                         *)
(* write_text opens the file, which empties it, and writes on closing it;   *)
(* other processes run in between, and the process may be stopped there.    *)
(* Two secrets have the same length, so that of two writers the last wins.  *)
(* File modes are left out.                                                *)
(***************************************************************************)
CONSTANTS Processes,
          Secrets,     \* what token_urlsafe can draw
          Configured,  \* the secret of SESSION_SECRET, where that is set
          Absent, Empty, NoSecret

ASSUME SecretAssumption ==
  /\ {Configured, Absent, Empty, NoSecret} \cap Secrets = {}
  /\ Configured # NoSecret

VARIABLES
  secretFile,  \* what is in data/.session_secret
  resolving,   \* resolving[p]: how far process p has come
  secret,      \* secret[p]: the secret p has drawn or read
  cookieKey,   \* the secret the browser's cookie is signed with
  \* What has happened so far.
  drawn,       \* secrets drawn so far
  ephemeral,   \* those of them that were never meant for the file
  raced        \* two processes were at creating the file at the same time

secretVars == <<secretFile, resolving, secret, cookieKey, drawn, ephemeral, raced>>

Resolving == {"off", "look", "create", "write", "ready"}

SecretTypeOK ==
  /\ secretFile \in Secrets \cup {Absent, Empty}
  /\ resolving \in [Processes -> Resolving]
  /\ secret \in [Processes -> Secrets \cup {Configured, NoSecret}]
  /\ cookieKey \in Secrets \cup {Configured, NoSecret}
  /\ ephemeral \subseteq drawn /\ drawn \subseteq Secrets
  /\ raced \in BOOLEAN

SecretInit ==
  /\ secretFile = Absent
  /\ resolving = [p \in Processes |-> "off"]
  /\ secret = [p \in Processes |-> NoSecret]
  /\ cookieKey = NoSecret
  /\ drawn = {} /\ ephemeral = {} /\ raced = FALSE

Advance(p, place, s) == /\ resolving' = [resolving EXCEPT ![p] = place]
                        /\ secret' = [secret EXCEPT ![p] = s]

-----------------------------------------------------------------------------
\* get_settings, for the first time in this process: SESSION_SECRET, if it is
\* set, wins.
CallGetSettings(p, isSet) ==
  /\ resolving[p] = "off"
  /\ IF isSet THEN Advance(p, "ready", Configured) ELSE Advance(p, "look", NoSecret)
  /\ UNCHANGED <<secretFile, cookieKey, drawn, ephemeral, raced>>

Creating == {q \in Processes : resolving[q] \in {"create", "write"}}

\* There is no secret in the file: one has to be made.
NoSecretFound(p) == /\ Advance(p, "create", NoSecret)
                    /\ raced' = (raced \/ Creating # {})

\* Mutant: the file is not read, only written.
LookAway(p) == /\ resolving[p] = "look"
               /\ NoSecretFound(p)
               /\ UNCHANGED <<secretFile, cookieKey, drawn, ephemeral>>

\* The file is read, if it exists; an empty one is as good as none.
LookSecret(p) ==
  /\ resolving[p] = "look"
  /\ IF secretFile \in Secrets THEN Advance(p, "ready", secretFile) /\ UNCHANGED raced
     ELSE NoSecretFound(p)
  /\ UNCHANGED <<secretFile, cookieKey, drawn, ephemeral>>

Draw(s) == s \in Secrets \ drawn /\ drawn' = drawn \cup {s}

\* A secret is drawn, and opening the file empties it.
CreateSecret(p, s) ==
  /\ resolving[p] = "create" /\ Draw(s)
  /\ secretFile' = Empty
  /\ Advance(p, "write", s)
  /\ UNCHANGED <<cookieKey, ephemeral, raced>>

WriteSecret(p) ==
  /\ resolving[p] = "write"
  /\ secretFile' = secret[p]
  /\ Advance(p, "ready", secret[p])
  /\ UNCHANGED <<cookieKey, drawn, ephemeral, raced>>

\* An OSError at any point: this run goes on with a secret of its own.
SecretFileFails(p, s) ==
  /\ resolving[p] \in {"look", "create", "write"} /\ Draw(s)
  /\ ephemeral' = ephemeral \cup {s}
  /\ Advance(p, "ready", s)
  /\ UNCHANGED <<secretFile, cookieKey, raced>>

ResolveSecret(p) == \/ LookSecret(p) \/ WriteSecret(p)
                    \/ \E s \in Secrets : CreateSecret(p, s) \/ SecretFileFails(p, s)

\* The process ends, whatever it was doing.
EndSecret(p) == /\ resolving[p] # "off"
                /\ Advance(p, "off", NoSecret)
                /\ UNCHANGED <<secretFile, cookieKey, drawn, ephemeral, raced>>

\* sign_sid: a response sets the cookie.
SignCookie(p) == /\ resolving[p] = "ready"
                 /\ cookieKey' = secret[p]
                 /\ UNCHANGED <<secretFile, resolving, secret, drawn, ephemeral, raced>>

-----------------------------------------------------------------------------
(* Properties *)

\* "browser sessions survive container restarts": a cookie that was signed with
\* a secret from the file verifies in every process that has its secret from
\* there, however often processes were stopped in between and at whatever
\* point, unless two processes once were at creating the file at the same time.
CookieSurvives ==
  (~raced /\ cookieKey \in Secrets \ ephemeral) =>
    \A p \in Processes : (resolving[p] = "ready" /\ secret[p] \notin ephemeral \cup {Configured})
                            => secret[p] = cookieKey

\* What makes it so: the file holds what any process has taken from it.
SecretInv ==
  /\ \A p \in Processes :
       /\ resolving[p] = "ready" => secret[p] # NoSecret
       /\ resolving[p] = "write" => secret[p] \in drawn \ ephemeral
       /\ resolving[p] \in {"off", "look", "create"} => secret[p] = NoSecret
  /\ secretFile \in Secrets => secretFile \in drawn \ ephemeral
  /\ ~raced =>
       /\ cookieKey \in Secrets \ ephemeral => secretFile = cookieKey
       /\ \A p \in Processes :
            /\ (resolving[p] = "ready" /\ secret[p] \notin ephemeral \cup {Configured})
                  => secretFile = secret[p]
       /\ Creating # {} => secretFile \notin Secrets
       /\ \A p, q \in Creating : p = q
=============================================================================
