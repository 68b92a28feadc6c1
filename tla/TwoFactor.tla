------------------------------ MODULE TwoFactor ------------------------------
(***************************************************************************)
(* Two-factor authentication, passkeys and recovery keys of one user:       *)
(* server/handler/twofa.go, passkey.go and server/model/recovery_keys.go.   *)
(*                                                                          *)
(* Every SQL statement is a step of its own, and a request works with the   *)
(* user row its middleware loaded before the handler ran.  Passwords, TOTP  *)
(* codes and WebAuthn ceremonies are left out: a request that fails them    *)
(* changes nothing.                                                         *)
(***************************************************************************)
EXTENDS Naturals, FiniteSets

CONSTANTS
    BatchSize,    \* recovery keys generated at once (10 in the code)
    MaxBatches,   \* bound: generations started
    MaxPasskeys,  \* bound: passkeys registered at once
    Calls         \* requests that may be in flight at once

ASSUME TwoFactorAssumption ==
    BatchSize \in Nat \ {0} /\ {MaxBatches, MaxPasskeys} \subseteq Nat

VARIABLES
    enabled,    \* user_accounts.two_factor_enabled
    passkeys,   \* rows of user_passkeys
    stored,     \* rows of recovery_keys ...
    spent,      \* ... and those with used_at
    batches,    \* generations started
    call,       \* call[c]: what request c does next
    won,        \* history: keys that authorised a login
    shown,      \* history: keys a response showed to the user
    handed,     \* history: those of them that should still work
    bare        \* history: keys were lost in a way twofa.go does not undo

twoFactorVars == <<enabled, passkeys, stored, spent, batches, call, won, shown, handed, bare>>

Keys == [batch : 1..MaxBatches, n : 1..BatchSize]
BatchOf(b) == {k \in Keys : k.batch = b}
Kinds == {"enable", "regenerate", "passkey"}

NoCall == [pc |-> "idle", kind |-> "enable", batch |-> 1, n |-> 1, clash |-> FALSE]
CallStates ==
    [pc : {"idle", "enable", "wipe", "fill", "rollback", "disable", "purge",
           "count", "unused", "use"},
     kind : Kinds, batch : 1..MaxBatches, n : 1..BatchSize + 1, clash : BOOLEAN]

(* The shape of the user's rows and of a request.                           *)
TwoFactorTypeOK ==
    /\ enabled \in BOOLEAN /\ bare \in BOOLEAN
    /\ passkeys \in 0..MaxPasskeys /\ batches \in 0..MaxBatches
    /\ stored \subseteq Keys /\ spent \subseteq stored
    /\ won \subseteq Keys /\ shown \subseteq Keys /\ handed \subseteq shown
    /\ call \in [Calls -> CallStates]

-----------------------------------------------------------------------------
In(c, pc) == call[c].pc = pc
Enter(c, state) == call' = [call EXCEPT ![c] = state]
End(c) == Enter(c, NoCall)
Quiet == \A c \in Calls : In(c, "idle")

TwoFactorInit ==
    /\ enabled = FALSE /\ passkeys = 0
    /\ stored = {} /\ spent = {} /\ batches = 0
    /\ call = [c \in Calls |-> NoCall]
    /\ won = {} /\ shown = {} /\ handed = {} /\ bare = FALSE

(* Other requests between their count or their DELETE and their last INSERT *)
(* when the table is emptied, or filled, under them.                        *)
Disturb(c) ==
    [d \in Calls |-> IF d # c /\ call[d].pc \in {"wipe", "fill"}
                     THEN [call[d] EXCEPT !.clash = TRUE] ELSE call[d]]

-----------------------------------------------------------------------------
(* The checks on the loaded user row.                                       *)
StartEnable(c) ==
    /\ In(c, "idle") /\ ~enabled
    /\ Enter(c, [NoCall EXCEPT !.pc = "enable"])
    /\ UNCHANGED <<enabled, passkeys, stored, spent, batches, won, shown, handed, bare>>

StartDisable(c) ==
    /\ In(c, "idle") /\ enabled
    /\ Enter(c, [NoCall EXCEPT !.pc = "disable"])
    /\ UNCHANGED <<enabled, passkeys, stored, spent, batches, won, shown, handed, bare>>

StartRegenerate(c) ==
    /\ In(c, "idle") /\ enabled
    /\ Enter(c, [NoCall EXCEPT !.pc = "wipe", !.kind = "regenerate"])
    /\ UNCHANGED <<enabled, passkeys, stored, spent, batches, won, shown, handed, bare>>

(* EnableTwoFactor; a failing UPDATE ends the request.                      *)
EnableTwoFactor(c) ==
    /\ In(c, "enable")
    /\ \/ enabled' = TRUE /\ Enter(c, [NoCall EXCEPT !.pc = "wipe"])
       \/ UNCHANGED enabled /\ End(c)
    /\ UNCHANGED <<passkeys, stored, spent, batches, won, shown, handed, bare>>

-----------------------------------------------------------------------------
(* GenerateRecoveryKeys: DeleteAllForUser, then one INSERT per key.         *)
Wipe(c) ==
    /\ In(c, "wipe") /\ batches < MaxBatches
    /\ batches' = batches + 1
    /\ stored' = {} /\ spent' = {}
    /\ call' = [Disturb(c) EXCEPT ![c] = [@ EXCEPT !.pc = "fill", !.batch = batches + 1,
                                                   !.clash = FALSE]]
    /\ handed' = IF call[c].kind = "passkey" /\ ~call[c].clash THEN handed ELSE {}
    /\ UNCHANGED <<enabled, passkeys, won, shown, bare>>

InsertKey(c) ==
    /\ In(c, "fill") /\ call[c].n <= BatchSize
    /\ stored' = stored \cup {[batch |-> call[c].batch, n |-> call[c].n]}
    /\ call' = [Disturb(c) EXCEPT ![c].n = @ + 1]
    /\ UNCHANGED <<enabled, passkeys, spent, batches, won, shown, handed, bare>>

(* The keys are shown to the user.                                          *)
HandOut(c) ==
    /\ In(c, "fill") /\ call[c].n > BatchSize
    /\ shown' = shown \cup BatchOf(call[c].batch)
    /\ handed' = IF call[c].clash THEN handed ELSE handed \cup BatchOf(call[c].batch)
    /\ End(c)
    /\ UNCHANGED <<enabled, passkeys, stored, spent, batches, won, bare>>

KeepEnabled(c) ==   \* mutant: no rollback
    /\ call[c].pc \in {"wipe", "fill"} /\ call[c].n <= BatchSize
    /\ End(c)
    /\ bare' = (bare \/ call[c].kind # "enable")
    /\ UNCHANGED <<enabled, passkeys, stored, spent, batches, won, shown, handed>>

(* A statement fails.  Only enabling undoes what it did.                    *)
GenerateFails(c) ==
    /\ call[c].pc \in {"wipe", "fill"} /\ call[c].n <= BatchSize
    /\ IF call[c].kind = "enable"
       THEN Enter(c, [NoCall EXCEPT !.pc = "rollback"]) /\ UNCHANGED bare
       ELSE End(c) /\ bare' = (bare \/ In(c, "fill"))
    /\ UNCHANGED <<enabled, passkeys, stored, spent, batches, won, shown, handed>>

(* DisableTwoFactor as the rollback; its own failure is reported.           *)
Rollback(c) ==
    /\ In(c, "rollback")
    /\ \/ enabled' = FALSE /\ UNCHANGED bare
       \/ bare' = TRUE /\ UNCHANGED enabled
    /\ End(c)
    /\ UNCHANGED <<passkeys, stored, spent, batches, won, shown, handed>>

-----------------------------------------------------------------------------
DisableTwoFactor(c) ==
    /\ In(c, "disable")
    /\ \/ enabled' = FALSE /\ Enter(c, [NoCall EXCEPT !.pc = "purge"])
       \/ UNCHANGED enabled /\ End(c)
    /\ UNCHANGED <<passkeys, stored, spent, batches, won, shown, handed, bare>>

(* DeleteAllForUser; 2FA may have been enabled again meanwhile.  When the   *)
(* DELETE fails the keys stay.                                              *)
DeleteAllForUser(c) ==
    /\ In(c, "purge")
    /\ \/ /\ stored' = {} /\ spent' = {} /\ handed' = {}
          /\ call' = [Disturb(c) EXCEPT ![c] = NoCall]
          /\ bare' = (bare \/ enabled)
       \/ End(c) /\ UNCHANGED <<stored, spent, handed, bare>>
    /\ UNCHANGED <<enabled, passkeys, batches, won, shown>>

-----------------------------------------------------------------------------
(* Registering a passkey; the first one brings recovery keys with it when   *)
(* the user has no unused ones.                                             *)
CreateUserPasskey(c) ==
    /\ In(c, "idle") /\ passkeys < MaxPasskeys
    /\ passkeys' = passkeys + 1
    /\ Enter(c, [NoCall EXCEPT !.pc = "count", !.kind = "passkey"])
    /\ UNCHANGED <<enabled, stored, spent, batches, won, shown, handed, bare>>

CountByUserID(c) ==
    /\ In(c, "count")
    /\ \/ passkeys = 1 /\ call' = [call EXCEPT ![c].pc = "unused"]
       \/ End(c)      \* another count, or the SELECT fails
    /\ UNCHANGED <<enabled, passkeys, stored, spent, batches, won, shown, handed, bare>>

AssumeNoneUnused(c) ==   \* mutant: unused keys are not counted
    /\ In(c, "unused")
    /\ call' = [call EXCEPT ![c].pc = "wipe"]
    /\ UNCHANGED <<enabled, passkeys, stored, spent, batches, won, shown, handed, bare>>

GetUnusedKeysCount(c) ==
    /\ In(c, "unused")
    /\ \/ stored = spent /\ call' = [call EXCEPT ![c].pc = "wipe"]
       \/ End(c)      \* there are some, or the SELECT fails
    /\ UNCHANGED <<enabled, passkeys, stored, spent, batches, won, shown, handed, bare>>

DeletePasskey ==
    /\ passkeys > 0
    /\ passkeys' = passkeys - 1
    /\ UNCHANGED <<enabled, stored, spent, batches, call, won, shown, handed, bare>>

-----------------------------------------------------------------------------
SelectAnyKey(c, k) ==   \* mutant: used_at is not looked at
    /\ In(c, "idle")
    /\ k \in shown /\ k \in stored
    /\ Enter(c, [NoCall EXCEPT !.pc = "use", !.batch = k.batch, !.n = k.n])
    /\ UNCHANGED <<enabled, passkeys, stored, spent, batches, won, shown, handed, bare>>

(* VerifyAndUseRecoveryKey for a key the user knows: the SELECT finds an    *)
(* unused row ...                                                           *)
SelectKey(c, k) ==
    /\ In(c, "idle")
    /\ k \in shown /\ k \in stored \ spent
    /\ Enter(c, [NoCall EXCEPT !.pc = "use", !.batch = k.batch, !.n = k.n])
    /\ UNCHANGED <<enabled, passkeys, stored, spent, batches, won, shown, handed, bare>>

(* ... and the UPDATE by id asks for nothing more: the login goes through   *)
(* even if the row was used or deleted meanwhile.                           *)
UseKey(c) ==
    /\ In(c, "use")
    /\ LET k == [batch |-> call[c].batch, n |-> call[c].n] IN
       \/ /\ spent' = spent \cup ({k} \cap stored)
          /\ won' = won \cup {k}
          /\ handed' = handed \ {k}
       \/ UNCHANGED <<spent, won, handed>>     \* the UPDATE fails
    /\ End(c)
    /\ UNCHANGED <<enabled, passkeys, stored, batches, shown, bare>>

(* The process dies with every request in flight.                           *)
TwoFactorCrash ==
    /\ ~Quiet
    /\ call' = [c \in Calls |-> NoCall]
    /\ bare' = (bare \/ \E c \in Calls : call[c].pc \in {"wipe", "fill", "rollback"})
    /\ UNCHANGED <<enabled, passkeys, stored, spent, batches, won, shown, handed>>

TwoFactorNext ==
    \/ \E c \in Calls :
          \/ StartEnable(c) \/ EnableTwoFactor(c) \/ Rollback(c)
          \/ StartDisable(c) \/ DisableTwoFactor(c) \/ DeleteAllForUser(c)
          \/ StartRegenerate(c)
          \/ Wipe(c) \/ InsertKey(c) \/ HandOut(c) \/ GenerateFails(c)
          \/ CreateUserPasskey(c) \/ CountByUserID(c) \/ GetUnusedKeysCount(c)
          \/ \E k \in Keys : SelectKey(c, k)
          \/ UseKey(c)
    \/ DeletePasskey
    \/ TwoFactorCrash

TwoFactorSpec == TwoFactorInit /\ [][TwoFactorNext]_twoFactorVars

-----------------------------------------------------------------------------
(* When no request is in flight, a user with 2FA on has recovery keys       *)
(* (enableCurrentUserTwoFactor: "so 2FA is never left on without usable     *)
(* recovery keys"), whichever enables, regenerations and passkey            *)
(* registrations overlapped.  The exceptions are the losses nothing undoes: *)
(* a crash, a failed regeneration or rollback, and a disable whose DELETE   *)
(* comes after 2FA was enabled again.                                       *)
TwoFactorHasKeys == Quiet /\ enabled /\ ~bare => stored # {}

(* A key shown to the user stays valid until the user spends it or asks for *)
(* new ones: registering a passkey never takes it away, unless the keys     *)
(* were generated between its count and its DELETE (GetUnusedKeysCount).    *)
ShownKeysWork == handed \subseteq stored \ spent

(* A key whose use was recorded never passes the SELECT again, although the *)
(* table is emptied and refilled by other requests all the time; only two   *)
(* logins that both read it before either wrote share a key                 *)
(* (VerifyAndUseRecoveryKey, "one-time recovery keys").                     *)
KeyUsedOnce ==
    [][\A c \in Calls, k \in won :
          In(c, "idle") /\ call'[c].pc = "use" => [batch |-> call'[c].batch, n |-> call'[c].n] # k]_twoFactorVars
=============================================================================
