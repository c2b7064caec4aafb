------------------------------ MODULE Accounts ------------------------------
(***************************************************************************)
(* Who may sign in: the one-time setup of the first administrator          *)
(* (handlers_auth.go, main.go), users and the rows that belong to them     *)
(* (sqlstore.go, with the cascades of the schema), browser sessions        *)
(* (auth/sessions.go) and the ceremonies of passkeys (auth/passkeys.go).   *)
(*                                                                         *)
(* One store call is one step.  Ids are fresh uuids: a row that is gone    *)
(* never comes back under its id.  Secrets are not modelled: a request     *)
(* that offers one offers the right one.  Names, signatures, the counter   *)
(* of a passkey and cookies are left out; authentication is on.            *)
(* A definition named Slip... is a plausible mistake in the definition     *)
(* after it.                                                               *)
(***************************************************************************)
EXTENDS Naturals, FiniteSets

CONSTANTS
    Users, Sessions, Ceremonies,    \* bound: the ids there are
    Requests, Nobody,
    TTL, CeremonyTTL,
    MaxTime, MaxTokens, MaxFaults   \* bounds

ASSUME AccountsAssumption ==
    /\ Nobody \notin Users \cup Requests
    /\ {TTL, CeremonyTTL, MaxTime, MaxTokens, MaxFaults} \subseteq Nat /\ MaxTokens > 0

VARIABLES
    SetupToken, \* SETUP_TOKEN is set in the environment
    users,      \* the rows of the users
    keys,       \* users with an API key
    passkeys,   \* users with a passkey
    sessions,   \* the rows of the browser sessions
    open,       \* the passkey ceremonies, in memory
    token,      \* the setup token the server accepts; 0 is none
    stored,     \* the one in the settings table
    minted,     \* setup tokens generated so far
    setupRun,   \* the request that holds the setup lock
    req,        \* the requests
    now, faults,
    spent, unsaved  \* history: tokens of completed setups; one could not be cleared
vars == <<SetupToken, users, keys, passkeys, sessions, open, token, stored, minted, setupRun, req, now,
          faults, spent, unsaved>>
store == <<SetupToken, users, keys, passkeys, sessions>>
setup == <<token, stored, minted, setupRun, spent, unsaved>>

-----------------------------------------------------------------------------
(* The store *)

NoUser == [at |-> "unborn", admin |-> FALSE, disabled |-> FALSE]
NoSession == [at |-> "unborn", user |-> Nobody, expires |-> 0]
Idle == [at |-> "idle", user |-> Nobody, session |-> Nobody]

NoCeremony == [at |-> "unborn", user |-> Nobody, end |-> 0]
Gone(row) == [row EXCEPT !.at = "gone"]
Closed(c) == IF open[c].at = "live" THEN Gone(NoCeremony) ELSE open[c]

Exists(u) == u \in Users /\ users[u].at = "live"
Usable(u) == Exists(u) /\ ~users[u].disabled
CountAdmins == Cardinality({u \in Users : Usable(u) /\ users[u].admin})

CreateUser(u, admin) ==
    /\ users[u].at = "unborn"
    /\ users' = [users EXCEPT ![u] = [at |-> "live", admin |-> admin, disabled |-> FALSE]]

(* A slip for the checks: the statement inserts the row it does not find. *)
SlipUpsert(u, row) == users' = [users EXCEPT ![u] = row]

UpdateUser(u, row) ==
    users' = IF users[u].at = "live" THEN [users EXCEPT ![u] = row] ELSE users

(* A slip for the checks: the rows of the user stay. *)
SlipKeepsRows(u) ==
    /\ users' = [users EXCEPT ![u] = Gone(NoUser)]
    /\ UNCHANGED <<keys, passkeys, sessions>>

DeleteUser(u) ==
    /\ users' = [users EXCEPT ![u] = Gone(NoUser)]
    /\ keys' = keys \ {u} /\ passkeys' = passkeys \ {u}
    /\ sessions' = [s \in Sessions |->
                      IF sessions[s].at = "live" /\ sessions[s].user = u
                      THEN Gone(NoSession) ELSE sessions[s]]

(* A slip for the checks: the statement inserts the row it does not find. *)
SlipUpsertSession(s, expires) ==
    sessions' = [sessions EXCEPT ![s] =
                  [sessions[s] EXCEPT !.at = "live", !.expires = expires]]

UpdateSessionExpiry(s, expires) ==
    sessions' = IF sessions[s].at = "live"
                THEN [sessions EXCEPT ![s] = [sessions[s] EXCEPT !.expires = expires]]
                ELSE sessions

DeleteSession(s) == sessions' = [sessions EXCEPT ![s] = Gone(NoSession)]

-----------------------------------------------------------------------------
(* Setup *)

At(r, l) == req[r].at = l
Goto(r, l) == req' = [req EXCEPT ![r] = [req[r] EXCEPT !.at = l]]
Done(r) == req' = [req EXCEPT ![r] = Idle]

(* A slip for the checks: setups are not serialized. *)
SlipNoLock(r) == UNCHANGED setupRun

Locks(r) == setupRun = Nobody /\ setupRun' = r

(* No administrator yet, and the request brings the token the log shows. *)
BeginSetup(r) ==
    /\ At(r, "idle") /\ Locks(r)
    /\ CountAdmins = 0 /\ token # 0
    /\ Goto(r, "admin")
    /\ UNCHANGED <<store, open, token, stored, minted, spent, unsaved, now, faults>>

CreateAdmin(r, u) ==
    /\ At(r, "admin") /\ CreateUser(u, TRUE)
    /\ req' = [req EXCEPT ![r] = [Idle EXCEPT !.at = "key", !.user = u]]
    /\ UNCHANGED <<SetupToken, keys, passkeys, sessions, open, token, stored, minted, setupRun, spent,
                   unsaved, now, faults>>

CreateKey(r) ==
    /\ At(r, "key")
    /\ keys' = IF Exists(req[r].user) THEN keys \cup {req[r].user} ELSE keys
    /\ IF Exists(req[r].user)
       THEN Goto(r, "forget") /\ UNCHANGED setupRun
       ELSE Done(r) /\ setupRun' = Nobody
    /\ UNCHANGED <<SetupToken, users, passkeys, sessions, open, token, stored, minted, spent,
                   unsaved, now, faults>>

(* The store fails: the name is taken, or a key cannot be made. The request *)
(* ends with an error, and the token stays.                                 *)
SetupFails(r) ==
    /\ req[r].at \in {"admin", "key"} /\ faults < MaxFaults
    /\ faults' = faults + 1
    /\ Done(r) /\ setupRun' = Nobody
    /\ UNCHANGED <<store, open, token, stored, minted, spent, unsaved, now>>

(* A slip for the checks: only the persisted copy is cleared. *)
SlipKeepsToken == UNCHANGED token

ClearToken == token' = 0

(* The persisted token is cleared too; a failure to do so is ignored. *)
ForgetToken(r, fails) ==
    /\ At(r, "forget") /\ ClearToken
    /\ IF fails THEN faults < MaxFaults /\ faults' = faults + 1 /\ UNCHANGED stored /\ unsaved' = TRUE
                ELSE stored' = 0 /\ UNCHANGED <<faults, unsaved>>
    /\ spent' = spent \cup {token} /\ Done(r) /\ setupRun' = Nobody
    /\ UNCHANGED <<store, open, minted, now>>

(* The process restarts. Without an administrator it accepts the token of  *)
(* the environment (1 here), the stored one, or one it makes and stores.   *)
Restart ==
    /\ CASE CountAdmins > 0 -> token' = (IF SetupToken THEN 1 ELSE 0) /\ stored' = 0 /\ UNCHANGED minted
         [] CountAdmins = 0 /\ SetupToken -> token' = 1 /\ UNCHANGED <<stored, minted>>
         [] CountAdmins = 0 /\ ~SetupToken /\ stored # 0 ->
              token' = stored /\ UNCHANGED <<stored, minted>>
         [] OTHER -> /\ minted < MaxTokens /\ minted' = minted + 1
                     /\ token' = minted' /\ stored' = minted'
    /\ setupRun' = Nobody /\ req' = [r \in Requests |-> Idle] /\ open' = [c \in Ceremonies |-> Closed(c)]
    /\ UNCHANGED <<store, spent, unsaved, now, faults>>

-----------------------------------------------------------------------------
(* Users: an administrator who can sign in asks, checked as the request begins. *)

SignedIn(u) ==
    /\ Usable(u)
    /\ u \in keys \/ \E s \in Sessions : sessions[s].at = "live" /\ sessions[s].user = u

AdminActs == \E u \in Users : SignedIn(u) /\ users[u].admin

AddUser(u, admin) ==
    /\ AdminActs /\ CreateUser(u, admin)
    /\ UNCHANGED <<SetupToken, keys, passkeys, sessions, open, setup, req, now, faults>>

AddKey(u) ==
    /\ AdminActs /\ Exists(u) /\ keys' = keys \cup {u}
    /\ UNCHANGED <<SetupToken, users, passkeys, sessions, open, setup, req, now, faults>>

(* handleUpdateUser reads the row and writes it back with changes of any kind. *)
ReadUser(r, u) ==
    /\ At(r, "idle") /\ AdminActs /\ Exists(u)
    /\ req' = [req EXCEPT ![r] = [Idle EXCEPT !.at = "edit", !.user = u]]
    /\ UNCHANGED <<store, open, setup, now, faults>>

WriteUser(r, admin, disabled) ==
    /\ At(r, "edit")
    /\ UpdateUser(req[r].user, [at |-> "live", admin |-> admin, disabled |-> disabled])
    /\ Done(r)
    /\ UNCHANGED <<SetupToken, keys, passkeys, sessions, open, setup, now, faults>>

RemoveUser(u) ==
    /\ AdminActs /\ Exists(u) /\ DeleteUser(u)
    /\ UNCHANGED <<SetupToken, open, setup, req, now, faults>>

-----------------------------------------------------------------------------
(* Sessions *)

(* LoginWithKey: the key and its user were valid when they were read. *)
Login(r, u) ==
    /\ At(r, "idle") /\ Usable(u) /\ u \in keys
    /\ req' = [req EXCEPT ![r] = [Idle EXCEPT !.at = "session", !.user = u]]
    /\ UNCHANGED <<store, open, setup, now, faults>>

(* A slip for the checks: the row does not refer to its user. *)
SlipAnyUser(u) == TRUE

References(u) == Exists(u)

(* The store refuses a session of a user it does not have. *)
CreateSession(r, s) ==
    /\ At(r, "session") /\ sessions[s].at = "unborn"
    /\ sessions' = IF References(req[r].user)
                   THEN [sessions EXCEPT ![s] =
                          [at |-> "live", user |-> req[r].user, expires |-> now + TTL]]
                   ELSE sessions
    /\ Done(r)
    /\ UNCHANGED <<SetupToken, users, keys, passkeys, open, setup, now, faults>>

(* LookupSession, of every request that brings a session's cookie. *)
ReadSession(r, s) ==
    /\ At(r, "idle") /\ sessions[s].at = "live"
    /\ req' = [req EXCEPT ![r] =
         [Idle EXCEPT !.at = IF now > sessions[s].expires THEN "expired" ELSE "user",
                      !.user = sessions[s].user, !.session = s]]
    /\ UNCHANGED <<store, open, setup, now, faults>>

DropSession(r) ==
    /\ At(r, "expired") /\ DeleteSession(req[r].session) /\ Done(r)
    /\ UNCHANGED <<SetupToken, users, keys, passkeys, open, setup, now, faults>>

CheckUser(r) ==
    /\ At(r, "user")
    /\ IF Usable(req[r].user) THEN Goto(r, "extend") ELSE Done(r)
    /\ UNCHANGED <<store, open, setup, now, faults>>

(* Every use moves the expiry. *)
ExtendSession(r) ==
    /\ At(r, "extend")
    /\ UpdateSessionExpiry(req[r].session, now + TTL)
    /\ Done(r)
    /\ UNCHANGED <<SetupToken, users, keys, passkeys, open, setup, now, faults>>

(* handleLogout: the session of the cookie goes. *)
Logout(s) ==
    /\ sessions[s].at = "live" /\ DeleteSession(s)
    /\ UNCHANGED <<SetupToken, users, keys, passkeys, open, setup, req, now, faults>>

(* The cleanup job. *)
DeleteExpiredSessions ==
    /\ \E s \in Sessions : sessions[s].at = "live" /\ sessions[s].expires < now
    /\ sessions' = [s \in Sessions |->
                      IF sessions[s].at = "live" /\ sessions[s].expires < now
                      THEN Gone(NoSession) ELSE sessions[s]]
    /\ UNCHANGED <<SetupToken, users, keys, passkeys, open, setup, req, now, faults>>

-----------------------------------------------------------------------------
(* Passkeys: a ceremony is begun and finished by two requests. *)

(* storeSession also drops the ceremonies that ended. A registration is of *)
(* a user (register), a login of nobody yet.                               *)
BeginCeremony(c, u) ==
    /\ open[c].at = "unborn" /\ (u # Nobody => SignedIn(u))
    /\ open' = [d \in Ceremonies |->
         IF d = c THEN [at |-> "live", user |-> u, end |-> now + CeremonyTTL]
         ELSE IF open[d].end < now THEN Closed(d) ELSE open[d]]
    /\ UNCHANGED <<store, setup, req, now, faults>>

Taken(c) == [open EXCEPT ![c] = Gone(NoCeremony)]

(* FinishRegistration and FinishLogin take the ceremony, in time or not.   *)
(* The login looks the passkey up, of a user who is not disabled.          *)
FinishCeremony(r, c, u) ==
    /\ At(r, "idle") /\ open[c].at = "live" /\ open[c].user \in {Nobody, u} /\ Usable(u)
    /\ IF open[c].user = Nobody THEN u \in passkeys ELSE SignedIn(u)
    /\ open' = Taken(c)
    /\ req' = IF now > open[c].end THEN req
              ELSE [req EXCEPT ![r] =
                     [Idle EXCEPT !.at = IF open[c].user = u THEN "passkey" ELSE "session",
                                  !.user = u]]
    /\ UNCHANGED <<store, setup, now, faults>>

CreatePasskey(r) ==
    /\ At(r, "passkey")
    /\ passkeys' = IF References(req[r].user) THEN passkeys \cup {req[r].user} ELSE passkeys
    /\ Done(r)
    /\ UNCHANGED <<SetupToken, users, keys, sessions, open, setup, now, faults>>

(* handleDeletePasskey *)
RemovePasskey(u) ==
    /\ AdminActs /\ u \in passkeys /\ passkeys' = passkeys \ {u}
    /\ UNCHANGED <<SetupToken, users, keys, sessions, open, setup, req, now, faults>>

Tick ==
    /\ now < MaxTime /\ now' = now + 1
    /\ UNCHANGED <<store, open, setup, req, faults>>

-----------------------------------------------------------------------------
(* The first start. *)
Init ==
    /\ SetupToken \in BOOLEAN
    /\ users = [u \in Users |-> NoUser] /\ keys = {} /\ passkeys = {}
    /\ sessions = [s \in Sessions |-> NoSession]
    /\ open = [c \in Ceremonies |-> NoCeremony]
    /\ token = 1 /\ minted = 1 /\ stored = (IF SetupToken THEN 0 ELSE 1)
    /\ setupRun = Nobody /\ req = [r \in Requests |-> Idle]
    /\ now = 0 /\ faults = 0
    /\ spent = {} /\ unsaved = FALSE

Next ==
    \/ \E r \in Requests :
        \/ BeginSetup(r) \/ CreateKey(r) \/ SetupFails(r)
        \/ \E fails \in BOOLEAN : ForgetToken(r, fails)
        \/ \E u \in Users : CreateAdmin(r, u) \/ ReadUser(r, u) \/ Login(r, u)
        \/ \E admin, disabled \in BOOLEAN : WriteUser(r, admin, disabled)
        \/ \E s \in Sessions : CreateSession(r, s) \/ ReadSession(r, s)
        \/ DropSession(r) \/ CheckUser(r) \/ ExtendSession(r)
        \/ \E c \in Ceremonies, u \in Users : FinishCeremony(r, c, u)
        \/ CreatePasskey(r)
    \/ \E u \in Users :
        \/ \E admin \in BOOLEAN : AddUser(u, admin)
        \/ AddKey(u) \/ RemoveUser(u) \/ RemovePasskey(u)
    \/ \E c \in Ceremonies, u \in Users \cup {Nobody} : BeginCeremony(c, u)
    \/ \E s \in Sessions : Logout(s)
    \/ DeleteExpiredSessions \/ Restart \/ Tick

Spec == Init /\ [][Next]_vars

-----------------------------------------------------------------------------
(* Properties *)

Stages == {"unborn", "live", "gone"}

(* setupRun lets one request at a time count the administrators and make   *)
(* one, and nothing changes the token under it.                            *)
SetupAlone ==
    \A r \in Requests :
        req[r].at \in {"admin", "key", "forget"} => setupRun = r /\ token # 0

RowsOK ==
    /\ users \in [Users -> [at: Stages, admin: BOOLEAN, disabled: BOOLEAN]]
    /\ keys \subseteq Users /\ passkeys \subseteq Users
    /\ sessions \in [Sessions -> [at: Stages, user: Users \cup {Nobody}, expires: 0 .. MaxTime + TTL]]
    /\ open \in [Ceremonies ->
                 [at: Stages, user: Users \cup {Nobody}, end: 0 .. MaxTime + CeremonyTTL]]

SetupOK ==
    /\ SetupToken \in BOOLEAN /\ unsaved \in BOOLEAN
    /\ minted \in 1 .. MaxTokens /\ token \in 0 .. minted /\ stored \in 0 .. minted
    /\ spent \subseteq 1 .. minted
    /\ setupRun \in Requests \cup {Nobody} /\ now \in 0 .. MaxTime /\ faults \in 0 .. MaxFaults

RequestsOK ==
    req \in [Requests ->
       [at: {"idle", "admin", "key", "forget", "edit", "session", "user", "extend", "expired",
             "passkey"},
        user: Users \cup {Nobody}, session: Sessions \cup {Nobody}]]

TypeOK == RowsOK /\ SetupOK /\ RequestsOK /\ SetupAlone

(* Keys, passkeys and sessions belong to a user that exists, also when the *)
(* user is deleted between two steps of the request that makes one.        *)
OwnersExist ==
    /\ \A u \in keys \cup passkeys : Exists(u)
    /\ \A s \in Sessions : sessions[s].at = "live" => Exists(sessions[s].user)

(* The setup token of the log works once: after a setup that completed it  *)
(* is not accepted again, even when no administrator is left and whenever  *)
(* the process restarts, unless the environment sets it, or the store      *)
(* failed to clear it.                                                     *)
TokenWorksOnce == (~SetupToken /\ ~unsaved) => token \notin spent

(* What ended stays ended: no request that read a session or a user before *)
(* it was deleted brings the row back when it writes.                      *)
KeepsEnded ==
    /\ \A s \in Sessions : sessions[s].at = "gone" => sessions'[s].at = "gone"
    /\ \A u \in Users : users[u].at = "gone" => users'[u].at = "gone"

EndedStaysEnded == [][KeepsEnded]_vars

=============================================================================
