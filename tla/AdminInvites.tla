---------------------------- MODULE AdminInvites ----------------------------
(***************************************************************************)
(* Server administrators and the invitations that create them: the tables  *)
(* server_admin_credentials and server_admin_invites of server.db, and the  *)
(* requests of server/service/admin_invite.go, server/model/admin.go and    *)
(* the admin routes of main.go that read and write them.                    *)
(*                                                                          *)
(* No request runs in a transaction: each SQL statement is one step, and    *)
(* the requests in flight interleave between statements.  SQLite enforces   *)
(* foreign keys per connection, and only the first connection of the pool   *)
(* was told to, so each statement may or may not enforce them.              *)
(*                                                                          *)
(* Admin 1 is the super admin of the setup wizard, the only one there is;   *)
(* it issues the requests about other admins.  User names are left out: a   *)
(* taken or invalid one is one of the reasons an INSERT fails.  So are      *)
(* passwords, tokens and is_active, which only the login reads.             *)
(***************************************************************************)
EXTENDS Naturals, FiniteSets, Sequences

CONSTANTS
    Tokens,     \* invite tokens that may be issued
    Emails,     \* addresses of admins and invitees
    Earlier,    \* the addresses of the admins there already are, by id
    MaxAdmins,  \* bound: admin ids handed out
    Requests    \* requests that may be in flight at once

ASSUME InvitesAssumption ==
    /\ MaxAdmins \in Nat
    /\ Earlier \in Seq(Emails) /\ Len(Earlier) \in 1..MaxAdmins
    /\ \A i, j \in DOMAIN Earlier : Earlier[i] = Earlier[j] => i = j

VARIABLES
    admins,     \* server_admin_credentials: id -> email
    nextId,     \* AUTOINCREMENT
    invites,    \* server_admin_invites: token -> row
    expired,    \* tokens whose expires_at has passed
    request,    \* request[r]: what request r has read, and what it does next
    made,       \* history: the accounts created from each token
    excused,    \* history: tokens whose used mark was lost or undone
    revoked     \* history: tokens revoked while nobody was accepting them

invitesVars == <<admins, nextId, invites, expired, request, made, excused, revoked>>

Ids == 1..MaxAdmins
Unset == MaxAdmins + 1       \* used_by IS NULL
NoAdmin == 0                 \* the id RevokeInvite writes into used_by

InviteRows == [email : Emails, by : Ids, usedBy : Ids \cup {Unset, NoAdmin}]

NoRequest == [pc |-> "idle", token |-> CHOOSE t \in Tokens : TRUE, id |-> 1,
              email |-> Earlier[1]]
RequestStates ==
    [pc : {"idle", "verified", "created", "checked", "loaded"}, token : Tokens,
     id : Ids, email : Emails]

(* The shape of the two tables and of a request.                            *)
InvitesTypeOK ==
    /\ DOMAIN admins \subseteq Ids /\ admins \in [DOMAIN admins -> Emails]
    /\ nextId \in 1..MaxAdmins + 1
    /\ \A i, j \in DOMAIN admins : admins[i] = admins[j] => i = j
    /\ DOMAIN invites \subseteq Tokens /\ invites \in [DOMAIN invites -> InviteRows]
    /\ request \in [Requests -> RequestStates]
    /\ made \in [Tokens -> SUBSET Ids]
    /\ expired \subseteq Tokens /\ excused \subseteq Tokens /\ revoked \subseteq Tokens

-----------------------------------------------------------------------------
At(r, pc) == request[r].pc = pc
Done(r) == request' = [request EXCEPT ![r] = NoRequest]

Holding(r) == request[r].pc \in {"verified", "created"}
Accepting(t) == \E r \in Requests : Holding(r) /\ request[r].token = t

Without(f, S) == [x \in DOMAIN f \ S |-> f[x]]
With(f, x, row) == [y \in DOMAIN f \cup {x} |-> IF y = x THEN row ELSE f[y]]

(* UNIQUE on email; admin i may keep its own.                               *)
EmailFree(email, i) == \A j \in DOMAIN admins \ {i} : admins[j] # email

InvitesInit ==
    /\ admins = Earlier
    /\ nextId = Len(Earlier) + 1
    /\ invites = [t \in {} |-> NoRequest]
    /\ expired = {}
    /\ request = [r \in Requests |-> NoRequest]
    /\ made = [t \in Tokens |-> {}]
    /\ excused = {} /\ revoked = {}

(* expires_at passes.                                                       *)
Expire(t) ==
    /\ t \in DOMAIN invites
    /\ expired' = expired \cup {t}
    /\ UNCHANGED <<admins, nextId, invites, request, made, excused, revoked>>

-----------------------------------------------------------------------------
(* CreateInvite: the inviter exists and nobody has the address...           *)
CheckInvitee(r, by, email) ==
    /\ At(r, "idle")
    /\ by \in DOMAIN admins /\ EmailFree(email, NoAdmin)
    /\ request' = [request EXCEPT ![r] =
                      [NoRequest EXCEPT !.pc = "checked", !.id = by, !.email = email]]
    /\ UNCHANGED <<admins, nextId, invites, expired, made, excused, revoked>>

(* ... and then a row under a fresh token, for any duration.                *)
InsertInvite(r, enforced) ==
    /\ At(r, "checked")
    /\ LET by == request[r].id IN
       \/ /\ enforced => by \in DOMAIN admins
          /\ \E t \in Tokens \ DOMAIN invites :
                /\ made[t] = {} /\ ~Accepting(t)      \* a fresh token
                /\ t \notin expired \cup excused \cup revoked
                /\ invites' = With(invites, t, [email |-> request[r].email, by |-> by,
                                                usedBy |-> Unset])
       \/ enforced /\ by \notin DOMAIN admins /\ UNCHANGED invites
    /\ Done(r)
    /\ UNCHANGED <<admins, nextId, expired, made, excused, revoked>>

-----------------------------------------------------------------------------
(* AcceptInvite: VerifyInvite reads the row, and looks at used_by, not at   *)
(* used_at.                                                                 *)
VerifyInvite(r, t) ==
    /\ At(r, "idle")
    /\ t \in DOMAIN invites /\ invites[t].usedBy = Unset /\ t \notin expired
    /\ request' = [request EXCEPT ![r] =
                      [NoRequest EXCEPT !.pc = "verified", !.token = t, !.email = invites[t].email]]
    /\ UNCHANGED <<admins, nextId, invites, expired, made, excused, revoked>>

(* CreateAdminAccount inserts the credentials row.                          *)
CreateAdminAccount(r) ==
    /\ At(r, "verified")
    /\ nextId <= MaxAdmins
    /\ EmailFree(request[r].email, NoAdmin)
    /\ admins' = With(admins, nextId, request[r].email)
    /\ nextId' = nextId + 1
    /\ made' = [made EXCEPT ![request[r].token] = @ \cup {nextId}]
    /\ request' = [request EXCEPT ![r].pc = "created", ![r].id = nextId]
    /\ UNCHANGED <<invites, expired, excused, revoked>>

(* The address or the name is taken, or the statement fails.                *)
CreateFails(r) ==
    /\ At(r, "verified")
    /\ Done(r)
    /\ UNCHANGED <<admins, nextId, invites, expired, made, excused, revoked>>

(* The preferences row cannot be written, or the account is gone when       *)
(* CreateAdminAccount reads it back: an error, and the invite is not marked.*)
PreferencesFail(r) ==
    /\ At(r, "created")
    /\ Done(r)
    /\ excused' = excused \cup {request[r].token}
    /\ UNCHANGED <<admins, nextId, invites, expired, made, revoked>>

MarkUsedAtOnly(r, enforced) ==   \* mutant: used_by is not written
    /\ At(r, "created")
    /\ Done(r)
    /\ UNCHANGED <<admins, nextId, invites, expired, made, excused, revoked>>

(* MarkInviteUsed; a failure is only printed.                               *)
MarkInviteUsed(r, enforced) ==
    /\ At(r, "created")
    /\ LET t == request[r].token
           i == request[r].id
       IN  IF enforced /\ t \in DOMAIN invites /\ i \notin DOMAIN admins
           THEN excused' = excused \cup {t} /\ UNCHANGED invites
           ELSE /\ invites' = IF t \in DOMAIN invites
                              THEN [invites EXCEPT ![t].usedBy = i] ELSE invites
                /\ UNCHANGED excused
    /\ Done(r)
    /\ UNCHANGED <<admins, nextId, expired, made, revoked>>

-----------------------------------------------------------------------------
RevokeUsedAt(t, enforced) ==   \* mutant: only used_at is set
    /\ UNCHANGED invites
    /\ revoked' = IF Accepting(t) THEN revoked ELSE revoked \cup {t}
    /\ UNCHANGED <<admins, nextId, expired, request, made, excused>>

(* RevokeInvite writes an id no admin has, which a connection that enforces *)
(* foreign keys rejects.                                                    *)
RevokeInvite(t, enforced) ==
    /\ enforced => t \notin DOMAIN invites
    /\ invites' = IF t \in DOMAIN invites
                  THEN [invites EXCEPT ![t].usedBy = NoAdmin] ELSE invites
    /\ revoked' = IF t \notin DOMAIN invites \/ Accepting(t) THEN revoked ELSE revoked \cup {t}
    /\ UNCHANGED <<admins, nextId, expired, request, made, excused>>

(* DeleteAdminAccount of any admin but the first.  ON DELETE CASCADE takes  *)
(* the invites it sent, ON DELETE SET NULL makes the one it used look       *)
(* unused.                                                                  *)
DeleteAdminAccount(i, enforced) ==
    /\ i \in DOMAIN admins \ {1}
    /\ admins' = Without(admins, {i})
    /\ invites' = IF ~enforced THEN invites
                  ELSE [t \in {u \in DOMAIN invites : invites[u].by # i} |->
                           [invites[t] EXCEPT !.usedBy = IF @ = i THEN Unset ELSE @]]
    /\ excused' = excused \cup {t \in Tokens : i \in made[t]}
    /\ UNCHANGED <<nextId, expired, request, made, revoked>>

-----------------------------------------------------------------------------
(* UPDATE of one row, its address included.  Releasing an address while an  *)
(* acceptance for it is in flight lets that one through.                    *)
UpdateAdminAccount(i, email) ==
    IF i \in DOMAIN admins /\ EmailFree(email, i)
    THEN /\ admins' = [admins EXCEPT ![i] = email]
         /\ excused' = IF email = admins[i] THEN excused
                       ELSE excused \cup {request[q].token : q \in
                               {p \in Requests : Holding(p) /\ request[p].email = admins[i]}}
    ELSE UNCHANGED <<admins, excused>>

(* An admin edits its profile.                                              *)
UpdateProfile(i, email) ==
    /\ i \in DOMAIN admins /\ email # admins[i]
    /\ UpdateAdminAccount(i, email)
    /\ UNCHANGED <<nextId, invites, expired, request, made, revoked>>

(* Enabling or disabling loads the row and later writes all of it back.     *)
LoadAdmin(r, i) ==
    /\ At(r, "idle")
    /\ i \in DOMAIN admins
    /\ request' = [request EXCEPT ![r] =
                      [NoRequest EXCEPT !.pc = "loaded", !.id = i, !.email = admins[i]]]
    /\ UNCHANGED <<admins, nextId, invites, expired, made, excused, revoked>>

SetActive(r) ==
    /\ At(r, "loaded")
    /\ UpdateAdminAccount(request[r].id, request[r].email)
    /\ Done(r)
    /\ UNCHANGED <<nextId, invites, expired, made, revoked>>

(* The process dies with every request in flight.                           *)
InvitesCrash ==
    /\ request' = [r \in Requests |-> NoRequest]
    /\ excused' = excused \cup {request[r].token : r \in {q \in Requests : At(q, "created")}}
    /\ UNCHANGED <<admins, nextId, invites, expired, made, revoked>>

-----------------------------------------------------------------------------
AcceptInvite(r) ==
    \/ \E t \in Tokens : VerifyInvite(r, t)
    \/ CreateAdminAccount(r) \/ CreateFails(r) \/ PreferencesFail(r)
    \/ \E enforced \in BOOLEAN : MarkInviteUsed(r, enforced)

CreateInvite(r) ==
    \/ \E by \in Ids, email \in Emails : CheckInvitee(r, by, email)
    \/ \E enforced \in BOOLEAN : InsertInvite(r, enforced)

ToggleAdmin(r) ==
    \/ \E i \in Ids : LoadAdmin(r, i)
    \/ SetActive(r)

InvitesNext ==
    \/ \E r \in Requests : CreateInvite(r) \/ AcceptInvite(r) \/ ToggleAdmin(r)
    \/ \E t \in Tokens : Expire(t) \/ \E enforced \in BOOLEAN : RevokeInvite(t, enforced)
    \/ \E i \in Ids, enforced \in BOOLEAN : DeleteAdminAccount(i, enforced)
    \/ \E i \in Ids, email \in Emails : UpdateProfile(i, email)
    \/ InvitesCrash

InvitesSpec == InvitesInit /\ [][InvitesNext]_invitesVars

-----------------------------------------------------------------------------
(* An invite creates at most one account, although accepting it is three    *)
(* statements and two people may hold the same link (AcceptInvite): the     *)
(* address is UNIQUE until the mark is set, and the mark protects it once   *)
(* the admin has another address.  Excused are the cases where the mark is  *)
(* lost or undone: the account was deleted, marking failed or never came,   *)
(* or the address was released while an acceptance was between statements.  *)
InviteOnce == \A t \in Tokens : t \notin excused => Cardinality(made[t]) <= 1

(* Once an invite is revoked with no acceptance in flight, no account is    *)
(* ever created from it, whatever admins are deleted, renamed or toggled    *)
(* later (RevokeInvite: "This effectively invalidates the invite").         *)
RevokedCreatesNothing == [][\A t \in revoked : made'[t] = made[t]]_invitesVars
=============================================================================
