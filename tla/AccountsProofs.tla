--------------------------- MODULE AccountsProofs ---------------------------
(***************************************************************************)
(* Safety of accounts, proved for every number of users, sessions,         *)
(* requests and restarts and every duration.                               *)
(*                                                                         *)
(*   AccountTypes       types, and setup requests exclude each other       *)
(*   NoOrphanRows       what belongs to a user goes with the user          *)
(*   SetupTokenSpent    a completed setup has used up its token            *)
(*   NothingReturns     what was deleted stays deleted                     *)
(*                                                                         *)
(* The properties are inductive but for two things: what a request in      *)
(* progress holds (Holds), and that the persisted copy of the setup token  *)
(* is no more a spent one than the accepted token is (TokenInv).           *)
(***************************************************************************)
EXTENDS Accounts, TLAPS

(* The user and the session a request works on are there by the time it    *)
(* needs them.                                                             *)
Holds ==
    \A r \in Requests :
        /\ req[r].at \in {"key", "edit", "session", "user", "passkey"} => req[r].user \in Users
        /\ req[r].at \in {"user", "extend", "expired"} => req[r].session \in Sessions

TokenInv == (~SetupToken /\ ~unsaved) => token \notin spent /\ stored \notin spent

Inv == TypeOK /\ Holds /\ OwnersExist /\ TokenInv

(* The first start of the process satisfies the invariant.                 *)
LEMMA InvInit == Init => Inv
<1> SUFFICES ASSUME Init PROVE Inv
  OBVIOUS
<1>1. RowsOK
  BY AccountsAssumption DEF Init, RowsOK, Stages, NoUser, NoSession, NoCeremony
<1>2. SetupOK
  <2>1. SetupToken \in BOOLEAN /\ unsaved \in BOOLEAN /\ setupRun \in Requests \cup {Nobody}
    BY Zenon DEF Init
  <2>2. stored \in 0 .. minted /\ minted \in 1 .. MaxTokens /\ token \in 0 .. minted
    BY AccountsAssumption DEF Init
  <2>3. now \in 0 .. MaxTime /\ faults \in 0 .. MaxFaults /\ spent \subseteq 1 .. minted
    BY AccountsAssumption DEF Init
  <2> QED
    BY <2>1, <2>2, <2>3 DEF SetupOK
<1>3. RequestsOK /\ SetupAlone
  BY DEF Init, RequestsOK, SetupAlone, Idle
<1>4. Holds /\ OwnersExist /\ TokenInv
  BY DEF Init, Holds, OwnersExist, TokenInv, Idle, NoSession
<1> QED
  BY <1>1, <1>2, <1>3, <1>4 DEF Inv, TypeOK

(* Every step of a handler, a job or a restart keeps it.                   *)
LEMMA InvNext == Inv /\ [Next]_vars => Inv'
<1> SUFFICES ASSUME Inv, [Next]_vars PROVE Inv'
  OBVIOUS
<1>1. ASSUME NEW r \in Requests, BeginSetup(r)
      PROVE Inv'
  BY <1>1, AccountsAssumption DEF Inv, TypeOK, RowsOK, SetupOK, RequestsOK, SetupAlone,
     Holds, OwnersExist, TokenInv, Exists, Idle, Stages, store, setup, BeginSetup,
     Locks, Goto, At
<1>2. ASSUME NEW r \in Requests, NEW u \in Users, CreateAdmin(r, u)
      PROVE Inv'
  <2>1. RowsOK'
    BY <1>2, AccountsAssumption DEF Inv, TypeOK, RowsOK, SetupOK, RequestsOK, Holds,
       Stages, CreateAdmin, CreateUser, At, store, setup
  <2>2. SetupOK'
    BY <1>2, AccountsAssumption DEF Inv, TypeOK, SetupOK, RequestsOK, SetupAlone,
       CreateAdmin, CreateUser, At, store, setup
  <2>3. RequestsOK'
    BY <1>2, AccountsAssumption DEF Inv, TypeOK, RequestsOK, SetupOK, Idle, CreateAdmin,
       CreateUser, At, store, setup
  <2>4. SetupAlone'
    BY <1>2, AccountsAssumption DEF Inv, TypeOK, RequestsOK, SetupOK, SetupAlone, Idle,
       CreateAdmin, CreateUser, At, store, setup
  <2>5. Holds'
    BY <1>2, AccountsAssumption DEF Inv, TypeOK, RequestsOK, Holds, Idle, CreateAdmin,
       CreateUser, At, store, setup
  <2>6. OwnersExist'
    BY <1>2, AccountsAssumption DEF Inv, TypeOK, RowsOK, RequestsOK, Holds, OwnersExist,
       Exists, Stages, CreateAdmin, CreateUser, At, store, setup
  <2>7. TokenInv'
    BY <1>2, AccountsAssumption DEF Inv, TypeOK, SetupOK, RequestsOK, SetupAlone,
       TokenInv, CreateAdmin, CreateUser, At, store, setup
  <2> QED
    BY <2>1, <2>2, <2>3, <2>4, <2>5, <2>6, <2>7 DEF Inv, TypeOK
<1>3. ASSUME NEW r \in Requests, CreateKey(r)
      PROVE Inv'
  <2>1. RowsOK'
    BY <1>3, AccountsAssumption DEF Inv, TypeOK, RowsOK, SetupOK, RequestsOK, Holds,
       Stages, CreateKey, Goto, Done, At, Exists, store, setup
  <2>2. SetupOK'
    BY <1>3, AccountsAssumption DEF Inv, TypeOK, SetupOK, RequestsOK, SetupAlone,
       CreateKey, Goto, Done, At, Exists, store, setup
  <2>3. RequestsOK'
    BY <1>3, AccountsAssumption DEF Inv, TypeOK, RequestsOK, SetupOK, Idle, CreateKey,
       Goto, Done, At, Exists, store, setup
  <2>4. SetupAlone'
    BY <1>3, AccountsAssumption DEF Inv, TypeOK, RequestsOK, SetupOK, SetupAlone, Idle,
       CreateKey, Goto, Done, At, Exists, store, setup
  <2>5. Holds'
    BY <1>3, AccountsAssumption DEF Inv, TypeOK, RequestsOK, Holds, Idle, CreateKey,
       Goto, Done, At, Exists, store, setup
  <2>6. OwnersExist'
    BY <1>3, AccountsAssumption DEF Inv, TypeOK, RowsOK, RequestsOK, Holds, OwnersExist,
       Exists, Stages, CreateKey, Goto, Done, At, store, setup
  <2>7. TokenInv'
    BY <1>3, AccountsAssumption DEF Inv, TypeOK, SetupOK, RequestsOK, SetupAlone,
       TokenInv, CreateKey, Goto, Done, At, Exists, store, setup
  <2> QED
    BY <2>1, <2>2, <2>3, <2>4, <2>5, <2>6, <2>7 DEF Inv, TypeOK
<1>4. ASSUME NEW r \in Requests, SetupFails(r)
      PROVE Inv'
  BY <1>4, AccountsAssumption DEF Inv, TypeOK, RowsOK, SetupOK, RequestsOK, SetupAlone,
     Holds, OwnersExist, TokenInv, Exists, Idle, Stages, store, setup, SetupFails, Done,
     At
<1>5. ASSUME NEW r \in Requests, NEW fails \in BOOLEAN, ForgetToken(r, fails)
      PROVE Inv'
  <2>1. RowsOK'
    BY <1>5, AccountsAssumption DEF Inv, TypeOK, RowsOK, SetupOK, RequestsOK, Holds,
       Stages, ForgetToken, Done, At, ClearToken, store, setup
  <2>2. SetupOK'
    <3>1. /\ SetupToken' \in BOOLEAN /\ setupRun' \in Requests \cup {Nobody}
          /\ unsaved' \in BOOLEAN
      BY <1>5, Zenon DEF Inv, TypeOK, SetupOK, ForgetToken, store
    <3>2. /\ minted' \in 1 .. MaxTokens /\ token' \in 0 .. minted' /\ stored' \in 0 .. minted'
          /\ spent' \subseteq 1 .. minted'
      BY <1>5, AccountsAssumption DEF Inv, TypeOK, SetupOK, RequestsOK, SetupAlone, ForgetToken,
         At, ClearToken
    <3>3. now' \in 0 .. MaxTime /\ faults' \in 0 .. MaxFaults
      BY <1>5, AccountsAssumption DEF Inv, TypeOK, SetupOK, ForgetToken
    <3> QED
      BY <3>1, <3>2, <3>3 DEF SetupOK
  <2>3. RequestsOK'
    BY <1>5, AccountsAssumption DEF Inv, TypeOK, RequestsOK, SetupOK, Idle, ForgetToken,
       Done, At, ClearToken, store, setup
  <2>4. SetupAlone'
    BY <1>5, AccountsAssumption DEF Inv, TypeOK, RequestsOK, SetupOK, SetupAlone, Idle,
       ForgetToken, Done, At, ClearToken, store, setup
  <2>5. Holds'
    BY <1>5, AccountsAssumption DEF Inv, TypeOK, RequestsOK, Holds, Idle, ForgetToken,
       Done, At, ClearToken, store, setup
  <2>6. OwnersExist'
    BY <1>5, AccountsAssumption DEF Inv, TypeOK, RowsOK, RequestsOK, Holds, OwnersExist,
       Exists, Stages, ForgetToken, Done, At, ClearToken, store, setup
  <2>7. TokenInv'
    BY <1>5, AccountsAssumption DEF Inv, TypeOK, SetupOK, RequestsOK, SetupAlone,
       TokenInv, ForgetToken, Done, At, ClearToken, store, setup
  <2> QED
    BY <2>1, <2>2, <2>3, <2>4, <2>5, <2>6, <2>7 DEF Inv, TypeOK
<1>6. ASSUME NEW u \in Users, NEW admin \in BOOLEAN, AddUser(u, admin)
      PROVE Inv'
  BY <1>6, AccountsAssumption DEF Inv, TypeOK, RowsOK, SetupOK, RequestsOK, SetupAlone,
     Holds, OwnersExist, TokenInv, Exists, Idle, Stages, store, setup, AddUser,
     CreateUser
<1>7. ASSUME NEW u \in Users, AddKey(u)
      PROVE Inv'
  BY <1>7, AccountsAssumption DEF Inv, TypeOK, RowsOK, SetupOK, RequestsOK, SetupAlone,
     Holds, OwnersExist, TokenInv, Exists, Idle, Stages, store, setup, AddKey
<1>8. ASSUME NEW r \in Requests, NEW u \in Users, ReadUser(r, u)
      PROVE Inv'
  BY <1>8, AccountsAssumption DEF Inv, TypeOK, RowsOK, SetupOK, RequestsOK, SetupAlone,
     Holds, OwnersExist, TokenInv, Exists, Idle, Stages, store, setup, ReadUser, At
<1>9. ASSUME NEW r \in Requests, NEW admin \in BOOLEAN, NEW disabled \in BOOLEAN, WriteUser(r, admin, disabled)
      PROVE Inv'
  <2>1. RowsOK'
    BY <1>9, AccountsAssumption DEF Inv, TypeOK, RowsOK, SetupOK, RequestsOK, Holds,
       Stages, WriteUser, At, UpdateUser, Done, store, setup
  <2>2. SetupOK'
    BY <1>9, AccountsAssumption DEF Inv, TypeOK, SetupOK, RequestsOK, SetupAlone,
       WriteUser, At, UpdateUser, Done, store, setup
  <2>3. RequestsOK'
    BY <1>9, AccountsAssumption DEF Inv, TypeOK, RequestsOK, SetupOK, Idle, WriteUser,
       At, UpdateUser, Done, store, setup
  <2>4. SetupAlone'
    BY <1>9, AccountsAssumption DEF Inv, TypeOK, RequestsOK, SetupOK, SetupAlone, Idle,
       WriteUser, At, UpdateUser, Done, store, setup
  <2>5. Holds'
    BY <1>9, AccountsAssumption DEF Inv, TypeOK, RequestsOK, Holds, Idle, WriteUser, At,
       UpdateUser, Done, store, setup
  <2>6. OwnersExist'
    BY <1>9, AccountsAssumption DEF Inv, TypeOK, RowsOK, RequestsOK, Holds, OwnersExist,
       Exists, Stages, WriteUser, At, UpdateUser, Done, store, setup
  <2>7. TokenInv'
    BY <1>9, AccountsAssumption DEF Inv, TypeOK, SetupOK, RequestsOK, SetupAlone,
       TokenInv, WriteUser, At, UpdateUser, Done, store, setup
  <2> QED
    BY <2>1, <2>2, <2>3, <2>4, <2>5, <2>6, <2>7 DEF Inv, TypeOK
<1>10. ASSUME NEW u \in Users, RemoveUser(u)
      PROVE Inv'
  <2>1. RowsOK'
    <3>1. /\ users' \in [Users -> [at: Stages, admin: BOOLEAN, disabled: BOOLEAN]]
          /\ keys' \subseteq Users /\ passkeys' \subseteq Users
      BY <1>10 DEF Inv, TypeOK, RowsOK, Stages, RemoveUser, DeleteUser, Gone, NoUser, setup
    <3>2. sessions' \in [Sessions ->
            [at: Stages, user: Users \cup {Nobody}, expires: 0 .. MaxTime + TTL]]
      BY <1>10, AccountsAssumption
         DEF Inv, TypeOK, RowsOK, Stages, RemoveUser, DeleteUser, Gone, NoSession
    <3> QED
      BY <1>10, <3>1, <3>2 DEF Inv, TypeOK, RowsOK, RemoveUser
  <2>2. SetupOK'
    BY <1>10, AccountsAssumption DEF Inv, TypeOK, SetupOK, RequestsOK, SetupAlone,
       RemoveUser, Exists, DeleteUser, Gone, NoUser, NoSession, store, setup
  <2>3. RequestsOK'
    BY <1>10, AccountsAssumption DEF Inv, TypeOK, RequestsOK, SetupOK, Idle, RemoveUser,
       Exists, DeleteUser, Gone, NoUser, NoSession, store, setup
  <2>4. SetupAlone'
    BY <1>10, AccountsAssumption DEF Inv, TypeOK, RequestsOK, SetupOK, SetupAlone, Idle,
       RemoveUser, Exists, DeleteUser, Gone, NoUser, NoSession, store, setup
  <2>5. Holds'
    BY <1>10, AccountsAssumption DEF Inv, TypeOK, RequestsOK, Holds, Idle, RemoveUser,
       Exists, DeleteUser, Gone, NoUser, NoSession, store, setup
  <2>6. OwnersExist'
    BY <1>10, AccountsAssumption DEF Inv, TypeOK, RowsOK, RequestsOK, Holds,
       OwnersExist, Exists, Stages, RemoveUser, DeleteUser, Gone, NoUser, NoSession,
       store, setup
  <2>7. TokenInv'
    BY <1>10, AccountsAssumption DEF Inv, TypeOK, SetupOK, RequestsOK, SetupAlone,
       TokenInv, RemoveUser, Exists, DeleteUser, Gone, NoUser, NoSession, store, setup
  <2> QED
    BY <2>1, <2>2, <2>3, <2>4, <2>5, <2>6, <2>7 DEF Inv, TypeOK
<1>11. ASSUME NEW r \in Requests, NEW u \in Users, Login(r, u)
      PROVE Inv'
  BY <1>11, AccountsAssumption DEF Inv, TypeOK, RowsOK, SetupOK, RequestsOK, SetupAlone,
     Holds, OwnersExist, TokenInv, Exists, Idle, Stages, store, setup, Login, At, Usable
<1>12. ASSUME NEW r \in Requests, NEW s \in Sessions, CreateSession(r, s)
      PROVE Inv'
  <2>1. RowsOK'
    BY <1>12, AccountsAssumption DEF Inv, TypeOK, RowsOK, SetupOK, RequestsOK, Holds,
       Stages, CreateSession, At, References, Exists, Done, store, setup
  <2>2. SetupOK'
    BY <1>12, AccountsAssumption DEF Inv, TypeOK, SetupOK, RequestsOK, SetupAlone,
       CreateSession, At, References, Exists, Done, store, setup
  <2>3. RequestsOK'
    BY <1>12, AccountsAssumption DEF Inv, TypeOK, RequestsOK, SetupOK, Idle,
       CreateSession, At, References, Exists, Done, store, setup
  <2>4. SetupAlone'
    BY <1>12, AccountsAssumption DEF Inv, TypeOK, RequestsOK, SetupOK, SetupAlone, Idle,
       CreateSession, At, References, Exists, Done, store, setup
  <2>5. Holds'
    BY <1>12, AccountsAssumption DEF Inv, TypeOK, RequestsOK, Holds, Idle,
       CreateSession, At, References, Exists, Done, store, setup
  <2>6. OwnersExist'
    BY <1>12, AccountsAssumption DEF Inv, TypeOK, RowsOK, RequestsOK, Holds,
       OwnersExist, Exists, Stages, CreateSession, At, References, Done, store, setup
  <2>7. TokenInv'
    BY <1>12, AccountsAssumption DEF Inv, TypeOK, SetupOK, RequestsOK, SetupAlone,
       TokenInv, CreateSession, At, References, Exists, Done, store, setup
  <2> QED
    BY <2>1, <2>2, <2>3, <2>4, <2>5, <2>6, <2>7 DEF Inv, TypeOK
<1>13. ASSUME NEW r \in Requests, NEW s \in Sessions, ReadSession(r, s)
      PROVE Inv'
  BY <1>13, AccountsAssumption DEF Inv, TypeOK, RowsOK, SetupOK, RequestsOK, SetupAlone,
     Holds, OwnersExist, TokenInv, Exists, Idle, Stages, store, setup, ReadSession, At
<1>14. ASSUME NEW r \in Requests, DropSession(r)
      PROVE Inv'
  <2>1. RowsOK'
    BY <1>14, AccountsAssumption DEF Inv, TypeOK, RowsOK, SetupOK, RequestsOK, Holds,
       Stages, DropSession, At, DeleteSession, Gone, NoSession, Done, store, setup
  <2>2. SetupOK'
    BY <1>14, AccountsAssumption DEF Inv, TypeOK, SetupOK, RequestsOK, SetupAlone,
       DropSession, At, DeleteSession, Gone, NoSession, Done, store, setup
  <2>3. RequestsOK'
    BY <1>14, AccountsAssumption DEF Inv, TypeOK, RequestsOK, SetupOK, Idle,
       DropSession, At, DeleteSession, Gone, NoSession, Done, store, setup
  <2>4. SetupAlone'
    BY <1>14, AccountsAssumption DEF Inv, TypeOK, RequestsOK, SetupOK, SetupAlone, Idle,
       DropSession, At, DeleteSession, Gone, NoSession, Done, store, setup
  <2>5. Holds'
    BY <1>14, AccountsAssumption DEF Inv, TypeOK, RequestsOK, Holds, Idle, DropSession,
       At, DeleteSession, Gone, NoSession, Done, store, setup
  <2>6. OwnersExist'
    BY <1>14, AccountsAssumption DEF Inv, TypeOK, RowsOK, RequestsOK, Holds,
       OwnersExist, Exists, Stages, DropSession, At, DeleteSession, Gone, NoSession,
       Done, store, setup
  <2>7. TokenInv'
    BY <1>14, AccountsAssumption DEF Inv, TypeOK, SetupOK, RequestsOK, SetupAlone,
       TokenInv, DropSession, At, DeleteSession, Gone, NoSession, Done, store, setup
  <2> QED
    BY <2>1, <2>2, <2>3, <2>4, <2>5, <2>6, <2>7 DEF Inv, TypeOK
<1>15. ASSUME NEW r \in Requests, CheckUser(r)
      PROVE Inv'
  <2>1. RowsOK'
    BY <1>15, AccountsAssumption DEF Inv, TypeOK, RowsOK, SetupOK, RequestsOK, Holds,
       Stages, CheckUser, At, Usable, Exists, Goto, Done, store, setup
  <2>2. SetupOK'
    BY <1>15, AccountsAssumption DEF Inv, TypeOK, SetupOK, RequestsOK, SetupAlone,
       CheckUser, At, Usable, Exists, Goto, Done, store, setup
  <2>3. RequestsOK'
    BY <1>15, AccountsAssumption DEF Inv, TypeOK, RequestsOK, SetupOK, Idle, CheckUser,
       At, Usable, Exists, Goto, Done, store, setup
  <2>4. SetupAlone'
    BY <1>15, AccountsAssumption DEF Inv, TypeOK, RequestsOK, SetupOK, SetupAlone, Idle,
       CheckUser, At, Usable, Exists, Goto, Done, store, setup
  <2>5. Holds'
    BY <1>15, AccountsAssumption DEF Inv, TypeOK, RequestsOK, Holds, Idle, CheckUser,
       At, Usable, Exists, Goto, Done, store, setup
  <2>6. OwnersExist'
    BY <1>15, AccountsAssumption DEF Inv, TypeOK, RowsOK, RequestsOK, Holds,
       OwnersExist, Exists, Stages, CheckUser, At, Usable, Goto, Done, store, setup
  <2>7. TokenInv'
    BY <1>15, AccountsAssumption DEF Inv, TypeOK, SetupOK, RequestsOK, SetupAlone,
       TokenInv, CheckUser, At, Usable, Exists, Goto, Done, store, setup
  <2> QED
    BY <2>1, <2>2, <2>3, <2>4, <2>5, <2>6, <2>7 DEF Inv, TypeOK
<1>16. ASSUME NEW r \in Requests, ExtendSession(r)
      PROVE Inv'
  <2>1. RowsOK'
    BY <1>16, AccountsAssumption DEF Inv, TypeOK, RowsOK, SetupOK, RequestsOK, Holds,
       Stages, ExtendSession, At, UpdateSessionExpiry, Done, store, setup
  <2>2. SetupOK'
    BY <1>16, AccountsAssumption DEF Inv, TypeOK, SetupOK, RequestsOK, SetupAlone,
       ExtendSession, At, UpdateSessionExpiry, Done, store, setup
  <2>3. RequestsOK'
    BY <1>16, AccountsAssumption DEF Inv, TypeOK, RequestsOK, SetupOK, Idle,
       ExtendSession, At, UpdateSessionExpiry, Done, store, setup
  <2>4. SetupAlone'
    BY <1>16, AccountsAssumption DEF Inv, TypeOK, RequestsOK, SetupOK, SetupAlone, Idle,
       ExtendSession, At, UpdateSessionExpiry, Done, store, setup
  <2>5. Holds'
    BY <1>16, AccountsAssumption DEF Inv, TypeOK, RequestsOK, Holds, Idle,
       ExtendSession, At, UpdateSessionExpiry, Done, store, setup
  <2>6. OwnersExist'
    BY <1>16, AccountsAssumption DEF Inv, TypeOK, RowsOK, RequestsOK, Holds,
       OwnersExist, Exists, Stages, ExtendSession, At, UpdateSessionExpiry, Done, store,
       setup
  <2>7. TokenInv'
    BY <1>16, AccountsAssumption DEF Inv, TypeOK, SetupOK, RequestsOK, SetupAlone,
       TokenInv, ExtendSession, At, UpdateSessionExpiry, Done, store, setup
  <2> QED
    BY <2>1, <2>2, <2>3, <2>4, <2>5, <2>6, <2>7 DEF Inv, TypeOK
<1>17. ASSUME NEW s \in Sessions, Logout(s)
      PROVE Inv'
  BY <1>17, AccountsAssumption DEF Inv, TypeOK, RowsOK, SetupOK, RequestsOK, SetupAlone,
     Holds, OwnersExist, TokenInv, Exists, Idle, Stages, store, setup, Logout,
     DeleteSession, Gone, NoSession
<1>18. ASSUME DeleteExpiredSessions
      PROVE Inv'
  BY <1>18, AccountsAssumption DEF Inv, TypeOK, RowsOK, SetupOK, RequestsOK, SetupAlone,
     Holds, OwnersExist, TokenInv, Exists, Idle, Stages, store, setup,
     DeleteExpiredSessions, Gone, NoSession
<1>19. ASSUME NEW c \in Ceremonies, NEW u \in Users \cup {Nobody}, BeginCeremony(c, u)
      PROVE Inv'
  BY <1>19, AccountsAssumption DEF Inv, TypeOK, RowsOK, SetupOK, RequestsOK, SetupAlone,
     Holds, OwnersExist, TokenInv, Exists, Idle, Stages, store, setup, BeginCeremony,
     Usable, Closed, Gone, NoCeremony
<1>20. ASSUME NEW r \in Requests, NEW c \in Ceremonies, NEW u \in Users, FinishCeremony(r, c, u)
      PROVE Inv'
  <2>1. RowsOK'
    BY <1>20, AccountsAssumption DEF Inv, TypeOK, RowsOK, SetupOK, RequestsOK, Holds,
       Stages, FinishCeremony, At, Usable, Exists, Taken, Gone, NoCeremony, store, setup
  <2>2. SetupOK'
    BY <1>20, AccountsAssumption DEF Inv, TypeOK, SetupOK, RequestsOK, SetupAlone,
       FinishCeremony, At, Usable, Exists, Taken, Gone, NoCeremony, store, setup
  <2>3. RequestsOK'
    BY <1>20, AccountsAssumption DEF Inv, TypeOK, RequestsOK, SetupOK, Idle,
       FinishCeremony, At, Usable, Exists, Taken, Gone, NoCeremony, store, setup
  <2>4. SetupAlone'
    BY <1>20, AccountsAssumption DEF Inv, TypeOK, RequestsOK, SetupOK, SetupAlone, Idle,
       FinishCeremony, At, Usable, Exists, Taken, Gone, NoCeremony, store, setup
  <2>5. Holds'
    BY <1>20, AccountsAssumption DEF Inv, TypeOK, RequestsOK, Holds, Idle,
       FinishCeremony, At, Usable, Exists, Taken, Gone, NoCeremony, store, setup
  <2>6. OwnersExist'
    BY <1>20, AccountsAssumption DEF Inv, TypeOK, RowsOK, RequestsOK, Holds,
       OwnersExist, Exists, Stages, FinishCeremony, At, Usable, Taken, Gone, NoCeremony,
       store, setup
  <2>7. TokenInv'
    BY <1>20, AccountsAssumption DEF Inv, TypeOK, SetupOK, RequestsOK, SetupAlone,
       TokenInv, FinishCeremony, At, Usable, Exists, Taken, Gone, NoCeremony, store,
       setup
  <2> QED
    BY <2>1, <2>2, <2>3, <2>4, <2>5, <2>6, <2>7 DEF Inv, TypeOK
<1>21. ASSUME NEW r \in Requests, CreatePasskey(r)
      PROVE Inv'
  <2>1. RowsOK'
    BY <1>21, AccountsAssumption DEF Inv, TypeOK, RowsOK, SetupOK, RequestsOK, Holds,
       Stages, CreatePasskey, At, References, Exists, Done, store, setup
  <2>2. SetupOK'
    BY <1>21, AccountsAssumption DEF Inv, TypeOK, SetupOK, RequestsOK, SetupAlone,
       CreatePasskey, At, References, Exists, Done, store, setup
  <2>3. RequestsOK'
    BY <1>21, AccountsAssumption DEF Inv, TypeOK, RequestsOK, SetupOK, Idle,
       CreatePasskey, At, References, Exists, Done, store, setup
  <2>4. SetupAlone'
    BY <1>21, AccountsAssumption DEF Inv, TypeOK, RequestsOK, SetupOK, SetupAlone, Idle,
       CreatePasskey, At, References, Exists, Done, store, setup
  <2>5. Holds'
    BY <1>21, AccountsAssumption DEF Inv, TypeOK, RequestsOK, Holds, Idle,
       CreatePasskey, At, References, Exists, Done, store, setup
  <2>6. OwnersExist'
    BY <1>21, AccountsAssumption DEF Inv, TypeOK, RowsOK, RequestsOK, Holds,
       OwnersExist, Exists, Stages, CreatePasskey, At, References, Done, store, setup
  <2>7. TokenInv'
    BY <1>21, AccountsAssumption DEF Inv, TypeOK, SetupOK, RequestsOK, SetupAlone,
       TokenInv, CreatePasskey, At, References, Exists, Done, store, setup
  <2> QED
    BY <2>1, <2>2, <2>3, <2>4, <2>5, <2>6, <2>7 DEF Inv, TypeOK
<1>22. ASSUME Tick
      PROVE Inv'
  BY <1>22, AccountsAssumption DEF Inv, TypeOK, RowsOK, SetupOK, RequestsOK, SetupAlone,
     Holds, OwnersExist, TokenInv, Exists, Idle, Stages, store, setup, Tick
<1>23. ASSUME Restart
      PROVE Inv'
  BY <1>23, AccountsAssumption DEF Inv, TypeOK, RowsOK, SetupOK, RequestsOK, SetupAlone,
     Holds, OwnersExist, TokenInv, Exists, Idle, Stages, store, setup, Restart, Closed,
     Gone, NoCeremony
<1>25. ASSUME NEW u \in Users, RemovePasskey(u)
      PROVE Inv'
  BY <1>25 DEF Inv, TypeOK, RowsOK, SetupOK, RequestsOK, SetupAlone, Holds, OwnersExist,
     TokenInv, Exists, Idle, Stages, store, setup, RemovePasskey
<1>24. ASSUME UNCHANGED vars
      PROVE Inv'
  BY <1>24, AccountsAssumption DEF Inv, TypeOK, RowsOK, SetupOK, RequestsOK, SetupAlone,
     Holds, OwnersExist, TokenInv, Exists, Idle, Stages, store, setup, vars
<1> QED
  BY <1>1, <1>2, <1>3, <1>4, <1>5, <1>6, <1>7, <1>8, <1>9, <1>10, <1>11, <1>12, <1>13,
     <1>14, <1>15, <1>16, <1>17, <1>18, <1>19, <1>20, <1>21, <1>22, <1>23, <1>24, <1>25 DEF
     Next

(* No step brings back a row that is gone.                                 *)
LEMMA EndedStep == Inv /\ [Next]_vars => KeepsEnded
<1> SUFFICES ASSUME Inv, [Next]_vars PROVE KeepsEnded
  OBVIOUS
<1>1. ASSUME NEW r \in Requests, BeginSetup(r)
      PROVE KeepsEnded
  BY <1>1 DEF Inv, TypeOK, RowsOK, RequestsOK, Holds, KeepsEnded, store, setup,
     BeginSetup, Locks, Goto, At
<1>2. ASSUME NEW r \in Requests, NEW u \in Users, CreateAdmin(r, u)
      PROVE KeepsEnded
  BY <1>2 DEF Inv, TypeOK, RowsOK, RequestsOK, Holds, KeepsEnded, store, setup,
     CreateAdmin, CreateUser, At
<1>3. ASSUME NEW r \in Requests, CreateKey(r)
      PROVE KeepsEnded
  BY <1>3 DEF Inv, TypeOK, RowsOK, RequestsOK, Holds, KeepsEnded, store, setup,
     CreateKey, Goto, Done, At, Exists
<1>4. ASSUME NEW r \in Requests, SetupFails(r)
      PROVE KeepsEnded
  BY <1>4 DEF Inv, TypeOK, RowsOK, RequestsOK, Holds, KeepsEnded, store, setup,
     SetupFails, Done, At
<1>5. ASSUME NEW r \in Requests, NEW fails \in BOOLEAN, ForgetToken(r, fails)
      PROVE KeepsEnded
  BY <1>5 DEF Inv, TypeOK, RowsOK, RequestsOK, Holds, KeepsEnded, store, setup,
     ForgetToken, Done, At, ClearToken
<1>6. ASSUME NEW u \in Users, NEW admin \in BOOLEAN, AddUser(u, admin)
      PROVE KeepsEnded
  BY <1>6 DEF Inv, TypeOK, RowsOK, RequestsOK, Holds, KeepsEnded, store, setup, AddUser,
     CreateUser
<1>7. ASSUME NEW u \in Users, AddKey(u)
      PROVE KeepsEnded
  BY <1>7 DEF Inv, TypeOK, RowsOK, RequestsOK, Holds, KeepsEnded, store, setup, AddKey,
     Exists
<1>8. ASSUME NEW r \in Requests, NEW u \in Users, ReadUser(r, u)
      PROVE KeepsEnded
  BY <1>8 DEF Inv, TypeOK, RowsOK, RequestsOK, Holds, KeepsEnded, store, setup,
     ReadUser, At, Exists
<1>9. ASSUME NEW r \in Requests, NEW admin \in BOOLEAN, NEW disabled \in BOOLEAN, WriteUser(r, admin, disabled)
      PROVE KeepsEnded
  BY <1>9 DEF Inv, TypeOK, RowsOK, RequestsOK, Holds, KeepsEnded, store, setup,
     WriteUser, At, UpdateUser, Done
<1>10. ASSUME NEW u \in Users, RemoveUser(u)
      PROVE KeepsEnded
  BY <1>10 DEF Inv, TypeOK, RowsOK, RequestsOK, Holds, KeepsEnded, store, setup,
     RemoveUser, Exists, DeleteUser, Gone, NoUser, NoSession
<1>11. ASSUME NEW r \in Requests, NEW u \in Users, Login(r, u)
      PROVE KeepsEnded
  BY <1>11 DEF Inv, TypeOK, RowsOK, RequestsOK, Holds, KeepsEnded, store, setup, Login,
     At, Usable, Exists
<1>12. ASSUME NEW r \in Requests, NEW s \in Sessions, CreateSession(r, s)
      PROVE KeepsEnded
  BY <1>12 DEF Inv, TypeOK, RowsOK, RequestsOK, Holds, KeepsEnded, store, setup,
     CreateSession, At, References, Exists, Done
<1>13. ASSUME NEW r \in Requests, NEW s \in Sessions, ReadSession(r, s)
      PROVE KeepsEnded
  BY <1>13 DEF Inv, TypeOK, RowsOK, RequestsOK, Holds, KeepsEnded, store, setup,
     ReadSession, At
<1>14. ASSUME NEW r \in Requests, DropSession(r)
      PROVE KeepsEnded
  BY <1>14 DEF Inv, TypeOK, RowsOK, RequestsOK, Holds, KeepsEnded, store, setup,
     DropSession, At, DeleteSession, Gone, NoSession, Done
<1>15. ASSUME NEW r \in Requests, CheckUser(r)
      PROVE KeepsEnded
  BY <1>15 DEF Inv, TypeOK, RowsOK, RequestsOK, Holds, KeepsEnded, store, setup,
     CheckUser, At, Usable, Exists, Goto, Done
<1>16. ASSUME NEW r \in Requests, ExtendSession(r)
      PROVE KeepsEnded
  BY <1>16 DEF Inv, TypeOK, RowsOK, RequestsOK, Holds, KeepsEnded, store, setup,
     ExtendSession, At, UpdateSessionExpiry, Done
<1>17. ASSUME NEW s \in Sessions, Logout(s)
      PROVE KeepsEnded
  BY <1>17 DEF Inv, TypeOK, RowsOK, RequestsOK, Holds, KeepsEnded, store, setup, Logout,
     DeleteSession, Gone, NoSession
<1>18. ASSUME DeleteExpiredSessions
      PROVE KeepsEnded
  BY <1>18 DEF Inv, TypeOK, RowsOK, RequestsOK, Holds, KeepsEnded, store, setup,
     DeleteExpiredSessions, Gone, NoSession
<1>19. ASSUME NEW c \in Ceremonies, NEW u \in Users \cup {Nobody}, BeginCeremony(c, u)
      PROVE KeepsEnded
  BY <1>19 DEF Inv, TypeOK, RowsOK, RequestsOK, Holds, KeepsEnded, store, setup,
     BeginCeremony, Usable, Exists, Closed, Gone, NoCeremony
<1>20. ASSUME NEW r \in Requests, NEW c \in Ceremonies, NEW u \in Users, FinishCeremony(r, c, u)
      PROVE KeepsEnded
  BY <1>20 DEF Inv, TypeOK, RowsOK, RequestsOK, Holds, KeepsEnded, store, setup,
     FinishCeremony, At, Usable, Exists, Taken, Gone, NoCeremony
<1>21. ASSUME NEW r \in Requests, CreatePasskey(r)
      PROVE KeepsEnded
  BY <1>21 DEF Inv, TypeOK, RowsOK, RequestsOK, Holds, KeepsEnded, store, setup,
     CreatePasskey, At, References, Exists, Done
<1>22. ASSUME Tick
      PROVE KeepsEnded
  BY <1>22 DEF Inv, TypeOK, RowsOK, RequestsOK, Holds, KeepsEnded, store, setup, Tick
<1>23. ASSUME Restart
      PROVE KeepsEnded
  BY <1>23 DEF Inv, TypeOK, RowsOK, RequestsOK, Holds, KeepsEnded, store, setup,
     Restart, Closed, Gone, NoCeremony
<1>25. ASSUME NEW u \in Users, RemovePasskey(u)
      PROVE KeepsEnded
  BY <1>25 DEF Inv, TypeOK, RowsOK, RequestsOK, Holds, KeepsEnded, RemovePasskey
<1>24. ASSUME UNCHANGED vars
      PROVE KeepsEnded
  BY <1>24 DEF Inv, TypeOK, RowsOK, RequestsOK, Holds, KeepsEnded, store, setup, vars
<1> QED
  BY <1>1, <1>2, <1>3, <1>4, <1>5, <1>6, <1>7, <1>8, <1>9, <1>10, <1>11, <1>12, <1>13,
     <1>14, <1>15, <1>16, <1>17, <1>18, <1>19, <1>20, <1>21, <1>22, <1>23, <1>24, <1>25 DEF
     Next

-----------------------------------------------------------------------------

(* The invariant holds in every reachable state.                           *)
LEMMA Invariant == Spec => []Inv
  BY InvInit, InvNext, PTL DEF Spec

(* Every row, ceremony and request has its type, and setup requests        *)
(* exclude each other, for any number of users, sessions and requests.     *)
THEOREM AccountTypes == Spec => []TypeOK
<1>1. Inv => TypeOK
  BY DEF Inv
<1> QED
  BY <1>1, Invariant, PTL

(* No key, passkey or session outlives its user (the cascades of           *)
(* DeleteUser and the references checked by CreateSession, CreatePasskey). *)
THEOREM NoOrphanRows == Spec => []OwnersExist
<1>1. Inv => OwnersExist
  BY DEF Inv
<1> QED
  BY <1>1, Invariant, PTL

(* A completed handleSetup has used up its token for good.                 *)
THEOREM SetupTokenSpent == Spec => []TokenWorksOnce
<1>1. Inv => TokenWorksOnce
  BY DEF Inv, TokenInv, TokenWorksOnce
<1> QED
  BY <1>1, Invariant, PTL

(* Neither ExtendSession nor WriteUser, which write what they read earlier, *)
(* brings a deleted row back.                                              *)
THEOREM NothingReturns == Spec => EndedStaysEnded
<1>1. Inv /\ [Next]_vars => [KeepsEnded]_vars
  BY EndedStep
<1> QED
  BY <1>1, Invariant, PTL DEF Spec, EndedStaysEnded

=============================================================================
