------------------------------ MODULE Sessions ------------------------------
(***************************************************************************)
(* The login sessions of one user and what ends them: server/model          *)
(* /session.go, the login, logout, refresh and password-reset functions of  *)
(* server/handler/auth_api.go, and the other writers of user_sessions and   *)
(* of user_accounts.password_hash.                                          *)
(*                                                                          *)
(* Every SQL statement that changes a row is a step of its own, with the    *)
(* SELECTs a request made before it as the step that starts the request.    *)
(* A password is the number of the UPDATE that wrote it; a request with a   *)
(* wrong password, code or key changes nothing and is left out.             *)
(***************************************************************************)
EXTENDS Naturals, FiniteSets

CONSTANTS
    Handlers,      \* requests that may be in flight at once
    MaxSessions,   \* bound: rows ever inserted into user_sessions
    MaxPasswords,  \* bound: UPDATEs of password_hash
    MaxResets      \* bound: rows ever inserted into user_password_resets

ASSUME SessionsAssumption == {MaxSessions, MaxPasswords, MaxResets} \subseteq Nat

VARIABLES
    password,   \* user_accounts.password_hash
    sessions,   \* rows of user_sessions that have not expired
    created,    \* how many were ever inserted
    resets,     \* rows of user_password_resets that have not expired
    issued,     \* how many were ever inserted
    req,        \* req[h]: what request h does next
    since,      \* history: the password of the last reset that ended all sessions
    forked      \* history: logins that may have more than one session

sessionsVars == <<password, sessions, created, resets, issued, req, since, forked>>

history == <<since, forked>>
tokens == <<resets, issued>>

(* A row: held says that a client was given its token, pending that its     *)
(* data asks for the second factor.  The rest is history: the login, named  *)
(* after the first row it inserted, the password that was checked, and      *)
(* whether a reset completed before the row was inserted.                   *)
SessionIds == 1..MaxSessions
NoLogin == 0
SessionRow ==
    [id : SessionIds, pending : BOOLEAN, held : BOOLEAN,
     login : SessionIds, from : 0..MaxPasswords, late : BOOLEAN]

LoginKinds == {"plain", "pending", "code", "key"}
NoReq == [pc |-> "idle", kind |-> "plain", login |-> NoLogin, from |-> 0, late |-> FALSE,
          old |-> NoLogin, new |-> NoLogin]
HandlerStates ==
    [pc : {"idle", "insert", "mark", "undo", "count", "drop", "logout", "refresh",
           "revoke", "revokeAll", "change", "reset", "dropReset", "dropSessions"},
     kind : LoginKinds, login : {NoLogin} \cup SessionIds, from : 0..MaxPasswords, late : BOOLEAN,
     old : Nat, new : {NoLogin} \cup SessionIds]

(* The shape of the user's rows and of a request.                           *)
SessionsTypeOK ==
    /\ password \in 0..MaxPasswords /\ since \in 0..MaxPasswords
    /\ sessions \subseteq SessionRow
    /\ created \in 0..MaxSessions
    /\ issued \in 0..MaxResets /\ resets \subseteq 1..issued
    /\ req \in [Handlers -> HandlerStates]
    /\ forked \subseteq SessionIds

-----------------------------------------------------------------------------
Doing(h, pc) == req[h].pc = pc
Goto(h, pc) == req' = [req EXCEPT ![h].pc = pc]
Finish(h) == req' = [req EXCEPT ![h] = NoReq]
InFlight(h) == ~Doing(h, "idle")
Others(h) == {d \in Handlers \ {h} : InFlight(d)}

(* DELETE of one row; one that is not there is no error.                    *)
OtherThan(id) == {s \in sessions : s.id # id}

(* The other requests that already act for one of these logins.             *)
Busy(h, logins) == {req[d].login : d \in Others(h)} \cap logins

SessionsInit ==
    /\ password = 0 /\ sessions = {} /\ created = 0
    /\ resets = {} /\ issued = 0
    /\ req = [h \in Handlers |-> NoReq]
    /\ since = 0 /\ forked = {}

-----------------------------------------------------------------------------
(* LoginAPIUser and the passkey login: the credentials of the user row that *)
(* the first SELECT loaded were accepted.  Without a code a user with a     *)
(* second factor gets a pending session.                                    *)
Login(h, kind) ==
    /\ Doing(h, "idle") /\ kind \in {"plain", "pending", "key"}
    /\ req' = [req EXCEPT ![h] = [NoReq EXCEPT !.pc = "insert", !.kind = kind,
                                               !.from = password]]
    /\ UNCHANGED <<password, sessions, created, tokens, history>>

(* loadPendingTwoFactorSession, for CompleteAPIUserTwoFactor ("code") and   *)
(* UseAPIUserRecoveryKey ("key").                                           *)
LoadPending(h, s, kind) ==
    /\ Doing(h, "idle") /\ kind \in {"code", "key"}
    /\ s.held /\ s.pending
    /\ req' = [req EXCEPT ![h] = [NoReq EXCEPT !.pc = "insert", !.kind = kind, !.login = s.login,
                                               !.from = s.from, !.late = s.late, !.old = s.id]]
    /\ forked' = forked \cup Busy(h, {s.login})
    /\ UNCHANGED <<password, sessions, created, tokens, since>>

(* CreateSession: the row is inserted without data.                         *)
CreateSession(h) ==
    /\ Doing(h, "insert") /\ created < MaxSessions
    /\ LET id == created + 1
           login == IF req[h].login = NoLogin THEN id ELSE req[h].login
           next == CASE req[h].kind = "plain" -> NoReq
                     [] req[h].kind = "pending" -> [req[h] EXCEPT !.pc = "mark"]
                     [] req[h].kind = "code" -> [req[h] EXCEPT !.pc = "drop"]
                     [] req[h].kind = "key" -> [req[h] EXCEPT !.pc = "count"]
       IN  /\ created' = id
           /\ sessions' = sessions \cup
                 {[id |-> id, pending |-> FALSE, held |-> req[h].kind = "plain",
                   login |-> login, from |-> req[h].from, late |-> req[h].late]}
           /\ req' = [req EXCEPT ![h] = IF next = NoReq THEN NoReq
                                        ELSE [next EXCEPT !.login = login, !.new = id]]
    /\ UNCHANGED <<password, tokens, history>>

InsertFails(h) ==
    /\ Doing(h, "insert")
    /\ Finish(h)
    /\ UNCHANGED <<password, sessions, created, tokens, history>>

(* createPendingTwoFactorSession: UpdateData, and DeleteSession when it     *)
(* fails, whose own failure is ignored.                                     *)
UpdateData(h) ==
    /\ Doing(h, "mark")
    /\ \/ /\ sessions' = {IF s.id = req[h].new
                         THEN [s EXCEPT !.pending = TRUE, !.held = TRUE] ELSE s : s \in sessions}
          /\ Finish(h)
       \/ Goto(h, "undo") /\ UNCHANGED sessions
    /\ UNCHANGED <<password, created, tokens, history>>

UndoPending(h) ==
    /\ Doing(h, "undo")
    /\ sessions' \in {sessions, OtherThan(req[h].new)}
    /\ Finish(h)
    /\ UNCHANGED <<password, created, tokens, history>>

(* The logins whose second-factor step has inserted the new session and not *)
(* yet deleted the pending one.                                             *)
Halfway(hs) ==
    {req[h].login : h \in {h \in hs : req[h].pc \in {"count", "drop"} /\ req[h].old # NoLogin}}

(* loginWithRecoveryKey counts the remaining keys after it has created the  *)
(* session; when that fails the request fails and the row stays.            *)
CountRemaining(h) ==
    /\ Doing(h, "count")
    /\ \/ Goto(h, "drop") /\ UNCHANGED forked
       \/ Finish(h) /\ forked' = forked \cup Halfway({h})
    /\ UNCHANGED <<password, sessions, created, tokens, since>>

HandedOut(id) == {IF s.id = id THEN [s EXCEPT !.held = TRUE] ELSE s : s \in sessions}

(* The pending session is deleted, its error ignored, and the new token is  *)
(* handed to the client.                                                    *)
DropPending(h) ==
    /\ Doing(h, "drop")
    /\ \/ sessions' = {s \in HandedOut(req[h].new) : s.id # req[h].old} /\ UNCHANGED forked
       \/ sessions' = HandedOut(req[h].new) /\ forked' = forked \cup Halfway({h})
    /\ Finish(h)
    /\ UNCHANGED <<password, created, tokens, since>>

-----------------------------------------------------------------------------
(* AuthMiddleware accepts session s: GetByID looks at the row and its       *)
(* expiry.  old is the session, or for RevokeSession the one to revoke.     *)
Authenticate(h, s, op, target) ==
    /\ Doing(h, "idle")
    /\ s.held
    /\ op # "revoke" => target = s
    /\ LET known == IF op = "refresh" THEN [NoReq EXCEPT !.from = s.from, !.late = s.late]
                    ELSE NoReq
       IN  req' = [req EXCEPT ![h] =
                      IF op \in {"logout", "revoke", "refresh"}
                      THEN [known EXCEPT !.pc = op, !.old = target.id, !.login = target.login]
                      ELSE [NoReq EXCEPT !.pc = op]]
    /\ forked' = IF op = "refresh" THEN forked \cup Busy(h, {s.login}) ELSE forked
    /\ UNCHANGED <<password, sessions, created, tokens, since>>

(* LogoutCurrentUserSession, RevokeSession and RevokeAllSessions.           *)
DeleteSession(h) ==
    /\ req[h].pc \in {"logout", "revoke"}
    /\ sessions' \in {sessions, OtherThan(req[h].old)}
    /\ Finish(h)
    /\ UNCHANGED <<password, created, tokens, history>>

DeleteAllSessionsForUser(h) ==
    /\ Doing(h, "revokeAll")
    /\ sessions' \in {sessions, {}}
    /\ Finish(h)
    /\ UNCHANGED <<password, created, tokens, history>>

RefreshBeside(h) ==   \* mutant: the new session is created beside the old one
    /\ Doing(h, "refresh")
    /\ req' = [req EXCEPT ![h].pc = "insert"]
    /\ UNCHANGED <<password, sessions, created, tokens, history>>

(* RefreshCurrentUserSession deletes the old row, even one that is gone,    *)
(* before it creates the new one.                                           *)
RefreshCurrentUserSession(h) ==
    /\ Doing(h, "refresh")
    /\ \/ /\ sessions' = OtherThan(req[h].old)
          /\ Goto(h, "insert")
       \/ Finish(h) /\ UNCHANGED sessions
    /\ UNCHANGED <<password, created, tokens, history>>

(* A session's expires_at passes: GetByID refuses and deletes the row, and  *)
(* the scheduler's CleanupOldSessions deletes it without being asked.       *)
SessionExpires(s) ==
    /\ sessions' = sessions \ {s}
    /\ UNCHANGED <<password, created, tokens, req, history>>

-----------------------------------------------------------------------------
(* changeCurrentUserPassword for a client whose current password was right, *)
(* and the administrator's UpdateUserPassword.  Neither touches sessions.   *)
ChangePassword(h) ==
    /\ Doing(h, "change") /\ password < MaxPasswords
    /\ \/ password' = password + 1
       \/ UNCHANGED password
    /\ Finish(h)
    /\ UNCHANGED <<sessions, created, tokens, history>>

UpdateUserPassword ==
    /\ password < MaxPasswords
    /\ password' = password + 1
    /\ UNCHANGED <<sessions, created, tokens, req, history>>

(* RequestAPIUserPasswordReset's goroutine; earlier resets stay valid.      *)
RequestReset ==
    /\ issued < MaxResets
    /\ issued' = issued + 1
    /\ resets' = resets \cup {issued + 1}
    /\ UNCHANGED <<password, sessions, created, req, history>>

ResetExpires(r) ==
    /\ resets' = resets \ {r}
    /\ UNCHANGED <<password, sessions, created, req, history, issued>>

(* ResetAPIUserPassword: SELECT the token, UPDATE the password, DELETE the  *)
(* token, DELETE the sessions; the errors of the two DELETEs are ignored.   *)
SelectReset(h, r) ==
    /\ Doing(h, "idle")
    /\ req' = [req EXCEPT ![h] = [NoReq EXCEPT !.pc = "reset", !.old = r]]
    /\ UNCHANGED <<password, sessions, created, tokens, history>>

ResetPassword(h) ==
    /\ Doing(h, "reset") /\ password < MaxPasswords
    /\ \/ /\ password' = password + 1
          /\ req' = [req EXCEPT ![h].pc = "dropReset", ![h].from = password + 1]
       \/ Finish(h) /\ UNCHANGED password
    /\ UNCHANGED <<sessions, created, tokens, history>>

DeleteReset(h) ==
    /\ Doing(h, "dropReset")
    /\ resets' \in {resets, resets \ {req[h].old}}
    /\ Goto(h, "dropSessions")
    /\ UNCHANGED <<password, sessions, created, issued, history>>

(* What a request still in flight reads of before is late from here on.     *)
Late(h) ==
    [d \in Handlers |-> IF d \in Others(h) THEN [req[d] EXCEPT !.late = TRUE] ELSE req[d]]

DeleteFullSessions(h) ==   \* mutant: sessions that wait for a second factor stay
    /\ Doing(h, "dropSessions")
    /\ \/ /\ sessions' = {s \in sessions : s.pending}
          /\ since' = req[h].from
          /\ req' = [Late(h) EXCEPT ![h] = NoReq]
       \/ Finish(h) /\ UNCHANGED <<sessions, since>>
    /\ UNCHANGED <<password, created, tokens, forked>>

DeleteUserSessions(h) ==
    /\ Doing(h, "dropSessions")
    /\ \/ /\ sessions' = {}
          /\ since' = IF req[h].from > since THEN req[h].from ELSE since
          /\ req' = [Late(h) EXCEPT ![h] = NoReq]
       \/ Finish(h) /\ UNCHANGED <<sessions, since>>
    /\ UNCHANGED <<password, created, tokens, forked>>

(* The process dies with every request in flight.                           *)
SessionsCrash ==
    /\ \E h \in Handlers : InFlight(h)
    /\ req' = [h \in Handlers |-> NoReq]
    /\ forked' = forked \cup Halfway(Handlers)
    /\ UNCHANGED <<password, sessions, created, tokens, since>>

SessionsNext ==
    \/ \E h \in Handlers :
          \/ \E kind \in LoginKinds : Login(h, kind)
          \/ \E s \in sessions, kind \in LoginKinds : LoadPending(h, s, kind)
          \/ CreateSession(h) \/ InsertFails(h)
          \/ UpdateData(h) \/ UndoPending(h) \/ CountRemaining(h) \/ DropPending(h)
          \/ \E s \in sessions, target \in sessions,
                op \in {"logout", "revoke", "revokeAll", "refresh", "change"} :
                   Authenticate(h, s, op, target)
          \/ DeleteSession(h) \/ DeleteAllSessionsForUser(h) \/ RefreshCurrentUserSession(h)
          \/ ChangePassword(h)
          \/ \E r \in resets : SelectReset(h, r)
          \/ ResetPassword(h) \/ DeleteReset(h) \/ DeleteUserSessions(h)
    \/ \E s \in sessions : SessionExpires(s)
    \/ UpdateUserPassword
    \/ RequestReset
    \/ \E r \in resets : ResetExpires(r)
    \/ SessionsCrash

SessionsSpec == SessionsInit /\ [][SessionsNext]_sessionsVars

-----------------------------------------------------------------------------
(* Once a password reset has deleted the sessions, no session is left, or   *)
(* can come back through a pending login or a refresh, that goes back to an *)
(* earlier password, except by a request that had read its row before that  *)
(* DELETE (ResetAPIUserPassword).                                           *)
ResetEndsSessions == \A s \in sessions : s.from < since => s.late

(* However often a session is completed with a second factor or refreshed,  *)
(* one login has one session when no request works on it, unless two        *)
(* requests used the same session at once or the second-factor step failed  *)
(* after its INSERT (CompleteAPIUserTwoFactor, RefreshCurrentUserSession).  *)
OneSessionPerLogin ==
    \A l \in SessionIds \ forked :
       (\A h \in Handlers : req[h].login # l) =>
          Cardinality({s \in sessions : s.login = l}) <= 1
=============================================================================
