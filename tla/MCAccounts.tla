----------------------------- MODULE MCAccounts -----------------------------
(***************************************************************************)
(* An instance of AdminInvites, TwoFactor, Sessions and Setup for TLC.  The *)
(* four share no state: invitations need the admin that the setup makes,    *)
(* which is where AdminInvites begins.  So nothing is lost by letting one   *)
(* move only while the others have not: every state of each is reached.     *)
(***************************************************************************)
EXTENDS AdminInvites, TwoFactor, Sessions, Setup, TLC

CONSTANTS t1, root, deputy, guest, r1, r2

OneToken == {t1}
ThreeEmails == {root, deputy, guest}
RootAndDeputy == <<root, deputy>>
TwoNames == {root, deputy}
TwoRequests == {r1, r2}

Symmetry == Permutations(TwoRequests)

AccountsInit == InvitesInit /\ TwoFactorInit /\ SessionsInit /\ SetupInit

AccountsNext ==
    \/ /\ TwoFactorInit /\ SessionsInit /\ SetupInit /\ InvitesNext
       /\ UNCHANGED <<twoFactorVars, sessionsVars, setupVars>>
    \/ /\ InvitesInit /\ SessionsInit /\ SetupInit /\ TwoFactorNext
       /\ UNCHANGED <<invitesVars, sessionsVars, setupVars>>
    \/ /\ InvitesInit /\ TwoFactorInit /\ SetupInit /\ SessionsNext
       /\ UNCHANGED <<invitesVars, twoFactorVars, setupVars>>
    \/ /\ InvitesInit /\ TwoFactorInit /\ SessionsInit /\ SetupNext
       /\ UNCHANGED <<invitesVars, twoFactorVars, sessionsVars>>

AccountsSpec ==
    AccountsInit /\ [][AccountsNext]_<<invitesVars, twoFactorVars, sessionsVars, setupVars>>
=============================================================================
