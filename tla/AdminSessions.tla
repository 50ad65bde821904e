--------------------------- MODULE AdminSessions ---------------------------
(***************************************************************************)
(* Administrator authentication (server/src/admin_auth, admin/auth,        *)
(* admin/log_events.rs, storage/src/admin_credential).                     *)
(*                                                                         *)
(* One password, its hash in storage and a copy in memory, sessions in     *)
(* memory.  A login keeps the read lock of the hash from reading it until  *)
(* its session is in the store; a rotation verifies, writes storage by     *)
(* compare and swap, swaps the hash under the write lock and then replaces *)
(* the sessions.  Event streams watch their session and end with it.       *)
(*                                                                         *)
(* A password is named by the call that sets it.  A session is named by    *)
(* the call that issues it.  `touched' tells a session's first idle        *)
(* deadline from its later one, and `expired' has its deadline passed.     *)
(***************************************************************************)
EXTENDS Naturals, FiniteSets

CONSTANTS
  Logins, Rotations, Setups, Watchers,
  MaxSessions,  \* MAX_ACTIVE_ADMIN_SESSIONS
  MaxFailures,  \* login_max_failures
  Checks,       \* MAX_CONCURRENT_PASSWORD_CHECKS
  Outside,      \* the password another program may write to storage
  None

VARIABLES
  stored, hash,      \* the password in storage and in memory
  setup_token,       \* it can still be used
  credential_lock,   \* its holder
  readers,           \* logins that hold the hash's read lock
  checks,            \* password checks under way
  hashing,           \* the permit of setup_checks is taken
  failures,          \* failures counted for the source
  sessions,          \* the sessions there are
  older,             \* older[s]: those there when s was created
  password,          \* password[s]: what the issuer of s verified or set
  touched, expired,  \* sets of sessions
  login, tried,      \* progress and password of each login
  rotation, known,   \* progress of each rotation and the hash it read
  setup,             \* progress of each setup
  watch, watched, seen, \* event streams: state, session, deadline read
  edited             \* another program changed the stored password

credentialVars == <<stored, hash, setup_token, credential_lock, edited>>
permitVars == <<checks, hashing, failures>>
sessionVars == <<sessions, older, password, touched, expired>>
loginVars == <<login, tried, readers>>
rotationVars == <<rotation, known>>
watchVars == <<watch, watched, seen>>
vars == <<credentialVars, permitVars, sessionVars, loginVars, rotationVars, setup, watchVars>>

Issuers == Logins \cup Rotations
Passwords == Rotations \cup Setups \cup {Outside}

(* Calls are told apart by their names.                                    *)
AdminAssumption ==
  /\ Logins \cap Rotations = {} /\ Rotations \cap Setups = {}
  /\ None \notin Issuers \cup Passwords

TypeOK ==
  /\ stored \in Passwords \cup {None} /\ hash \in Passwords \cup {None}
  /\ setup_token \in BOOLEAN /\ edited \in BOOLEAN
  /\ credential_lock \in Rotations \cup Setups \cup {None}
  /\ readers \subseteq Logins /\ checks \in 0..Checks /\ hashing \in BOOLEAN
  /\ failures \in 0..(MaxFailures + Cardinality(Logins))
  /\ sessions \subseteq Issuers /\ Cardinality(sessions) <= MaxSessions
  /\ older \in [Issuers -> SUBSET Issuers]
  /\ password \in [Issuers -> Passwords \cup {None}]
  /\ touched \subseteq Issuers /\ expired \subseteq Issuers
  /\ login \in [Logins -> {"idle", "allowed", "checking", "orphan", "issue", "ended"}]
  /\ tried \in [Logins -> Passwords]
  /\ rotation \in [Rotations -> {"idle", "verify", "store", "swap", "clear", "reload", "drop",
                                 "ended"}]
  /\ known \in [Rotations -> Passwords \cup {None}]
  /\ setup \in [Setups -> {"idle", "store", "swap", "reload", "ended"}]
  /\ watch \in [Watchers -> {"idle", "observe", "wait", "ended"}]
  /\ watched \in [Watchers -> Issuers \cup {None}] /\ seen \in [Watchers -> BOOLEAN]

Init ==
  /\ stored = None /\ hash = None /\ setup_token = TRUE /\ edited = FALSE
  /\ credential_lock = None /\ readers = {} /\ checks = 0 /\ hashing = FALSE /\ failures = 0
  /\ sessions = {} /\ older = [i \in Issuers |-> {}]
  /\ password = [i \in Issuers |-> None] /\ touched = {} /\ expired = {}
  /\ login = [l \in Logins |-> "idle"] /\ tried \in [Logins -> Passwords]
  /\ rotation = [c \in Rotations |-> "idle"] /\ known = [c \in Rotations |-> None]
  /\ setup = [s \in Setups |-> "idle"]
  /\ watch = [w \in Watchers |-> "idle"] /\ watched = [w \in Watchers |-> None]
  /\ seen = [w \in Watchers |-> FALSE]

-----------------------------------------------------------------------------
(* Sessions.                                                               *)

Unexpired == sessions \ expired
Oldest(kept) == CHOOSE s \in kept : older[s] \cap kept = {}
MakeRoom(kept) == IF Cardinality(kept) >= MaxSessions THEN kept \ {Oldest(kept)} ELSE kept

(* AdminSessionStore::issue: expired ones go, then the oldest.             *)
Issue(s, verified) ==
  /\ sessions' = MakeRoom(Unexpired) \cup {s}
  /\ older' = [older EXCEPT ![s] = MakeRoom(Unexpired)]
  /\ password' = [password EXCEPT ![s] = verified]
  /\ UNCHANGED <<touched, expired>>

(* Any authenticated request: an expired session is gone, another lives on *)
(* to a later deadline.                                                    *)
Authenticate(s) ==
  /\ s \in sessions
  /\ sessions' = Unexpired
  /\ touched' = IF s \in expired THEN touched ELSE touched \cup {s}
  /\ UNCHANGED <<older, password, expired, credentialVars, permitVars, loginVars, rotationVars,
                 setup, watchVars>>

Expire(s) ==
  /\ s \in sessions
  /\ expired' = expired \cup {s}
  /\ UNCHANGED <<sessions, older, password, touched, credentialVars, permitVars, loginVars,
                 rotationVars, setup, watchVars>>

Logout(s) ==
  /\ s \in sessions
  /\ sessions' = sessions \ {s}
  /\ UNCHANGED <<older, password, touched, expired, credentialVars, permitVars, loginVars,
                 rotationVars, setup, watchVars>>

-----------------------------------------------------------------------------
(* login.                                                                  *)

LoginTo(l, state) == login' = [login EXCEPT ![l] = state]

(* ensure_login_allowed.                                                   *)
LoginAllowed(l) ==
  /\ login[l] = "idle"
  /\ LoginTo(l, IF failures < MaxFailures THEN "allowed" ELSE "ended")
  /\ UNCHANGED <<tried, readers, credentialVars, permitVars, sessionVars, rotationVars, setup,
                 watchVars>>

(* prune_failures: a failure leaves the window.                            *)
FailureAges ==
  /\ failures > 0
  /\ failures' = failures - 1
  /\ UNCHANGED <<checks, hashing, credentialVars, sessionVars, loginVars, rotationVars, setup,
                 watchVars>>

(* The read lock, a permit, and a failure counted in advance.              *)
LoginReads(l) ==
  /\ login[l] = "allowed"
  /\ \/ /\ hash # None /\ checks < Checks
        /\ readers' = readers \cup {l}
        /\ checks' = checks + 1 /\ failures' = failures + 1
        /\ password' = [password EXCEPT ![l] = hash]
        /\ LoginTo(l, "checking")
     \/ /\ hash = None \/ checks = Checks
        /\ LoginTo(l, "ended")
        /\ UNCHANGED <<readers, checks, failures, password>>
  /\ UNCHANGED <<tried, hashing, sessions, older, touched, expired, credentialVars, rotationVars,
                 setup, watchVars>>

\* Faulty variant: the lock is given back with the answer of the check.
LoginVerifiesUnlocks(l) ==
  /\ login[l] = "checking"
  /\ checks' = checks - 1
  /\ readers' = readers \ {l}
  /\ \/ /\ tried[l] = password[l]
        /\ failures' = 0
        /\ LoginTo(l, "issue")
     \/ /\ tried[l] # password[l]
        /\ LoginTo(l, "ended") /\ UNCHANGED failures
  /\ UNCHANGED <<tried, hashing, sessionVars, credentialVars, rotationVars, setup, watchVars>>

(* verify_password.                                                        *)
LoginVerifies(l) ==
  /\ login[l] = "checking"
  /\ checks' = checks - 1
  /\ \/ /\ tried[l] = password[l]
        /\ failures' = 0
        /\ LoginTo(l, "issue") /\ UNCHANGED readers
     \/ /\ tried[l] # password[l]
        /\ LoginTo(l, "ended")
        /\ readers' = readers \ {l} /\ UNCHANGED failures
  /\ UNCHANGED <<tried, hashing, sessionVars, credentialVars, rotationVars, setup, watchVars>>

LoginIssues(l) ==
  /\ login[l] = "issue"
  /\ Issue(l, password[l])
  /\ readers' = readers \ {l}
  /\ LoginTo(l, "ended")
  /\ UNCHANGED <<tried, credentialVars, permitVars, rotationVars, setup, watchVars>>

(* The client hangs up: the check goes on without it and keeps its permit. *)
LoginCancelled(l) ==
  /\ login[l] \in {"allowed", "checking", "issue"}
  /\ readers' = readers \ {l}
  /\ LoginTo(l, IF login[l] = "checking" THEN "orphan" ELSE "ended")
  /\ UNCHANGED <<tried, credentialVars, permitVars, sessionVars, rotationVars, setup, watchVars>>

OrphanEnds(l) ==
  /\ login[l] = "orphan"
  /\ checks' = checks - 1
  /\ LoginTo(l, "ended")
  /\ UNCHANGED <<tried, readers, hashing, failures, credentialVars, sessionVars, rotationVars,
                 setup, watchVars>>

-----------------------------------------------------------------------------
(* rotate_password, in a critical task of its own.                         *)

RotationTo(c, state) == rotation' = [rotation EXCEPT ![c] = state]

RotationStarts(c) ==
  /\ rotation[c] = "idle" /\ credential_lock = None
  /\ \/ /\ hash # None /\ checks < Checks
        /\ credential_lock' = c /\ checks' = checks + 1
        /\ known' = [known EXCEPT ![c] = hash]
        /\ RotationTo(c, "verify")
     \/ /\ hash = None \/ checks = Checks
        /\ RotationTo(c, "ended")
        /\ UNCHANGED <<credential_lock, checks, known>>
  /\ UNCHANGED <<stored, hash, setup_token, edited, hashing, failures, sessionVars, loginVars,
                 setup, watchVars>>

(* The current password is right or wrong; the new one needs a permit to   *)
(* be hashed.                                                              *)
RotationVerifies(c, right) ==
  /\ rotation[c] = "verify"
  /\ checks' = checks - 1
  /\ \/ /\ right /\ ~hashing
        /\ hashing' = TRUE
        /\ RotationTo(c, "store") /\ UNCHANGED credential_lock
     \/ /\ ~right \/ hashing
        /\ RotationTo(c, "ended")
        /\ credential_lock' = None /\ UNCHANGED hashing
  /\ UNCHANGED <<stored, hash, setup_token, edited, failures, sessionVars, loginVars, known,
                 setup, watchVars>>

(* store.replace: compare and swap, or a failure that changed nothing.     *)
RotationStores(c) ==
  /\ rotation[c] = "store"
  /\ hashing' = FALSE
  /\ \/ /\ stored = known[c] /\ stored' = c
        /\ RotationTo(c, "swap") /\ UNCHANGED credential_lock
     \/ /\ stored # known[c] /\ UNCHANGED stored
        /\ RotationTo(c, "reload") /\ UNCHANGED credential_lock
     \/ /\ UNCHANGED stored
        /\ RotationTo(c, "ended")
        /\ credential_lock' = None
  /\ UNCHANGED <<hash, setup_token, edited, checks, failures, sessionVars, loginVars, known,
                 setup, watchVars>>

(* The write lock waits for the logins that read the old hash.             *)
RotationSwaps(c) ==
  /\ readers = {}
  /\ \/ rotation[c] = "swap" /\ hash' = c /\ RotationTo(c, "clear")
     \/ rotation[c] = "reload" /\ hash' = stored /\ RotationTo(c, "drop")
  /\ UNCHANGED <<stored, setup_token, edited, credential_lock, permitVars, sessionVars,
                 loginVars, known, setup, watchVars>>

(* The stored hash cannot be read again: an error, and nothing is changed. *)
RotationReloadFails(c) ==
  /\ rotation[c] = "reload"
  /\ RotationTo(c, "ended")
  /\ credential_lock' = None
  /\ UNCHANGED <<stored, hash, setup_token, edited, permitVars, sessionVars, loginVars, known,
                 setup, watchVars>>

(* Failures and sessions are cleared; a rotation that succeeded issues the *)
(* only session left.                                                      *)
RotationEnds(c) ==
  /\ \/ /\ rotation[c] = "clear"
        /\ sessions' = {c} /\ older' = [older EXCEPT ![c] = {}]
        /\ password' = [password EXCEPT ![c] = c]
     \/ /\ rotation[c] = "drop"
        /\ sessions' = {} /\ UNCHANGED <<older, password>>
  /\ failures' = 0
  /\ credential_lock' = None
  /\ RotationTo(c, "ended")
  /\ UNCHANGED <<stored, hash, setup_token, edited, checks, hashing, touched, expired,
                 loginVars, known, setup, watchVars>>

-----------------------------------------------------------------------------
(* initialize_with_setup_token and initialize_if_missing.                  *)

SetupTo(s, state) == setup' = [setup EXCEPT ![s] = state]

SetupStarts(s, right) ==
  /\ setup[s] = "idle" /\ credential_lock = None
  /\ \/ /\ hash = None /\ setup_token /\ right /\ ~hashing
        /\ credential_lock' = s /\ hashing' = TRUE
        /\ SetupTo(s, "store")
     \/ /\ ~(hash = None /\ setup_token /\ right /\ ~hashing)
        /\ SetupTo(s, "ended")
        /\ UNCHANGED <<credential_lock, hashing>>
  /\ UNCHANGED <<stored, hash, setup_token, edited, checks, failures, sessionVars, loginVars,
                 rotationVars, watchVars>>

(* store.initialize inserts the only row, or finds one.                    *)
SetupStores(s) ==
  /\ setup[s] = "store"
  /\ hashing' = FALSE
  /\ \/ /\ stored = None /\ stored' = s
        /\ SetupTo(s, "swap") /\ UNCHANGED credential_lock
     \/ /\ stored # None /\ UNCHANGED stored
        /\ SetupTo(s, "reload") /\ UNCHANGED credential_lock
     \/ /\ UNCHANGED stored
        /\ SetupTo(s, "ended")
        /\ credential_lock' = None
  /\ UNCHANGED <<hash, setup_token, edited, checks, failures, sessionVars, loginVars,
                 rotationVars, watchVars>>

SetupEnds(s) ==
  /\ setup[s] \in {"swap", "reload"} /\ readers = {}
  /\ hash' = IF setup[s] = "swap" THEN s ELSE stored
  /\ setup_token' = FALSE
  /\ credential_lock' = None
  /\ SetupTo(s, "ended")
  /\ UNCHANGED <<stored, edited, permitVars, sessionVars, loginVars, rotationVars, watchVars>>

-----------------------------------------------------------------------------
(* The process dies and is started again: memory is lost, hash is loaded.  *)
Restart ==
  /\ hash' = stored'
  /\ setup_token' = (stored' = None)
  /\ edited' = FALSE
  /\ credential_lock' = None /\ readers' = {} /\ checks' = 0 /\ hashing' = FALSE
  /\ failures' = 0 /\ sessions' = {}
  /\ login' = [l \in Logins |-> "ended"]
  /\ rotation' = [c \in Rotations |-> IF rotation[c] = "idle" THEN "idle" ELSE "ended"]
  /\ setup' = [s \in Setups |-> IF setup[s] = "idle" THEN "idle" ELSE "ended"]
  /\ watch' = [w \in Watchers |-> "ended"]
  /\ UNCHANGED <<older, password, touched, expired, tried, known, watched, seen>>

\* Faulty variant: it is answered as any other error.
IndeterminateIsAnError(c) ==
  /\ c \in Rotations /\ rotation[c] = "store" /\ stored = known[c]
  /\ stored' \in {stored, c}
  /\ RotationTo(c, "ended")
  /\ credential_lock' = None /\ hashing' = FALSE
  /\ UNCHANGED <<hash, setup_token, edited, checks, failures, sessionVars, loginVars, known,
                 setup, watchVars>>

(* A commit whose outcome is unknown ends the process: map_store_error.    *)
Indeterminate(c) ==
  /\ \/ c \in Rotations /\ rotation[c] = "store" /\ stored = known[c]
     \/ c \in Setups /\ setup[c] = "store" /\ stored = None
  /\ stored' \in {stored, c}
  /\ Restart

Crash == UNCHANGED stored /\ Restart

(* Another program writes the stored password.                             *)
EditOutside ==
  /\ stored \notin {None, Outside}
  /\ stored' = Outside /\ edited' = TRUE
  /\ UNCHANGED <<hash, setup_token, credential_lock, permitVars, sessionVars, loginVars,
                 rotationVars, setup, watchVars>>

-----------------------------------------------------------------------------
(* Event streams: subscribe and session_ended.                             *)

Subscribe(w, s) ==
  /\ watch[w] = "idle" /\ s \in sessions \ expired
  /\ watch' = [watch EXCEPT ![w] = "observe"]
  /\ watched' = [watched EXCEPT ![w] = s]
  /\ UNCHANGED <<seen, credentialVars, permitVars, sessionVars, loginVars, rotationVars, setup>>

(* observe: a live session is waited for, with the deadline it has now.    *)
ObserveSession(w) ==
  /\ watch[w] = "observe"
  /\ watch' = [watch EXCEPT ![w] = IF watched[w] \in sessions \ expired THEN "wait" ELSE "ended"]
  /\ seen' = [seen EXCEPT ![w] = watched[w] \in touched]
  /\ UNCHANGED <<watched, credentialVars, permitVars, sessionVars, loginVars, rotationVars, setup>>

\* Faulty variant: a session removed by somebody else wakes nobody.
WatchFiresAtDeadline(w) ==
  /\ watch[w] = "wait" /\ watched[w] \in sessions
  /\ watched[w] \in expired \/ seen[w] # (watched[w] \in touched)
  /\ watch' = [watch EXCEPT ![w] = "observe"]
  /\ UNCHANGED <<watched, seen, credentialVars, permitVars, sessionVars, loginVars, rotationVars,
                 setup>>

(* The record's sender is dropped, or the deadline that was read passes:   *)
(* then the session is looked at again.                                    *)
WatchFires(w) ==
  /\ watch[w] = "wait"
  /\ \/ /\ watched[w] \notin sessions
        /\ watch' = [watch EXCEPT ![w] = "ended"]
     \/ /\ watched[w] \in sessions
        /\ watched[w] \in expired \/ seen[w] # (watched[w] \in touched)
        /\ watch' = [watch EXCEPT ![w] = "observe"]
  /\ UNCHANGED <<watched, seen, credentialVars, permitVars, sessionVars, loginVars, rotationVars,
                 setup>>

(* A new configuration: session_ended starts again with its settings.      *)
SettingsChange(w) ==
  /\ watch[w] = "wait"
  /\ watch' = [watch EXCEPT ![w] = "observe"]
  /\ UNCHANGED <<watched, seen, credentialVars, permitVars, sessionVars, loginVars, rotationVars,
                 setup>>

Next ==
  \/ \E s \in Issuers : Authenticate(s) \/ Expire(s) \/ Logout(s)
  \/ \E l \in Logins : \/ LoginAllowed(l) \/ LoginReads(l) \/ LoginVerifies(l)
                       \/ LoginIssues(l) \/ LoginCancelled(l) \/ OrphanEnds(l)
  \/ \E c \in Rotations : \/ RotationStarts(c) \/ RotationStores(c)
                          \/ RotationSwaps(c) \/ RotationReloadFails(c) \/ RotationEnds(c)
                          \/ \E right \in BOOLEAN : RotationVerifies(c, right)
  \/ \E s \in Setups : \/ SetupStores(s) \/ SetupEnds(s)
                       \/ \E right \in BOOLEAN : SetupStarts(s, right)
  \/ \E c \in Rotations \cup Setups : Indeterminate(c)
  \/ FailureAges \/ Crash \/ EditOutside
  \/ \E w \in Watchers : \/ ObserveSession(w) \/ WatchFires(w) \/ SettingsChange(w)
                         \/ \E s \in Issuers : Subscribe(w, s)

(* A stream is polled when its timer or its channel fires.                 *)
Fairness == \A w \in Watchers : WF_vars(ObserveSession(w)) /\ WF_vars(WatchFires(w))
Spec == Init /\ [][Next]_vars /\ Fairness

-----------------------------------------------------------------------------
(* Every session was issued for the password in force: one that was        *)
(* verified against an older one does not outlive the rotation, however    *)
(* the two interleave.                                                     *)
SessionsFollowPassword ==
  \/ \E c \in Rotations : rotation[c] \in {"clear", "drop"}
  \/ \A s \in sessions : password[s] = hash

(* With no change under way the memory has the password of storage, also   *)
(* after a commit whose outcome was unknown and after a restart.           *)
PasswordInStep == credential_lock = None /\ ~edited => hash = stored

(* An event stream ends once its session has been removed or has expired.  *)
StreamsEndWithSession ==
  \A w \in Watchers :
    [](watch[w] \in {"observe", "wait"} /\ watched[w] \notin sessions \ expired
         => <>(watch[w] = "ended" \/ watched[w] \in sessions \ expired))
=============================================================================
