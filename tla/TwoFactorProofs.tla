-------------------------- MODULE TwoFactorProofs --------------------------
(***************************************************************************)
(* Proofs about TwoFactor, for any number of concurrent requests and of     *)
(* recovery keys in a batch.                                                *)
(***************************************************************************)
EXTENDS TwoFactor, FiniteSetTheorems, TLAPS

(* A request in flight is a record of its five fields.                      *)
IsCall(v) == v = [pc |-> v.pc, kind |-> v.kind, batch |-> v.batch, n |-> v.n, clash |-> v.clash]

CallShape == /\ DOMAIN call = Calls /\ call = [c \in Calls |-> call[c]]
             /\ \A c \in Calls : /\ IsCall(call[c]) /\ call[c].batch \in Nat /\ call[c].n \in Nat
                                 /\ call[c].pc \notin {"fill", "use"} => call[c].n = 1
                                 /\ call[c].pc = "fill" => call[c].n \in 1..BatchSize + 1

Key(b, j) == [batch |-> b, n |-> j]

(* Keys no response has shown yet are those of generations under way, each  *)
(* of which has a number of its own.                                        *)
NumbersFresh ==
    /\ batches \in Nat
    /\ \A k \in shown : k.batch \in Nat /\ k.batch <= batches
    /\ \A c \in Calls : call[c].pc = "fill" =>
          call[c].batch <= batches /\ \A k \in shown : k.batch # call[c].batch
    /\ \A c, d \in Calls :
          (call[c].pc = "fill" /\ call[d].pc = "fill" /\ call[c].batch = call[d].batch) => c = d
    /\ \A c \in Calls : call[c].pc = "use" => Key(call[c].batch, call[c].n) \in shown

(* What an undisturbed request relies on: its keys are in the table, or the *)
(* table still holds no unused key.                                         *)
Undisturbed ==
    /\ \A c \in Calls : (call[c].pc = "fill" /\ ~call[c].clash) =>
          \A j \in 1..call[c].n - 1 : Key(call[c].batch, j) \in stored \ spent
    /\ \A c \in Calls : (call[c].pc = "wipe" /\ call[c].kind = "passkey" /\ ~call[c].clash) =>
          stored = spent

WonIsSpent == won \cup spent \subseteq shown /\ won \cap stored \subseteq spent

KeysInv == /\ CallShape /\ spent \subseteq stored
           /\ NumbersFresh /\ Undisturbed /\ WonIsSpent /\ ShownKeysWork

(* With 2FA on and no key in the table, some request is about to insert one *)
(* or to switch 2FA off.                                                    *)
Covers(c) == \/ call[c].pc \in {"wipe", "rollback"} /\ call[c].kind = "enable"
             \/ call[c].pc = "fill" /\ call[c].n = 1
Covered == (enabled /\ ~bare /\ stored = {}) => \E c \in Calls : Covers(c)

-----------------------------------------------------------------------------
CallDom == DOMAIN call = Calls /\ call = [c \in Calls |-> call[c]]
OthersKeep(c) == CallDom' /\ \A d \in Calls \ {c} : call'[d] = call[d]

(* What one request writes leaves the other requests alone.                 *)
LEMMA CallReplaced ==
    ASSUME CallShape, NEW c \in Calls, NEW v, call' = [call EXCEPT ![c] = v]
    PROVE  OthersKeep(c) /\ call'[c] = v
  BY DEF CallShape, CallDom, OthersKeep

(* A request by its fields.  What the flag is stays open.                   *)
Rec(pc, kind, batch, n, x) == [pc |-> pc, kind |-> kind, batch |-> batch, n |-> n, clash |-> x]

(* Noting that another request interfered changes no other field of a       *)
(* request.                                                                 *)
LEMMA FlagSet ==
    ASSUME NEW r, IsCall(r), NEW x
    PROVE  [r EXCEPT !.clash = x] = Rec(r.pc, r.kind, r.batch, r.n, x)
  BY DEF IsCall, Rec

(* A request that goes on to its next statement keeps what it has read.     *)
LEMMA CallMoves ==
    ASSUME CallShape, NEW c \in Calls, NEW pc, call' = [call EXCEPT ![c].pc = pc]
    PROVE  /\ OthersKeep(c)
           /\ call'[c] = Rec(pc, call[c].kind, call[c].batch, call[c].n, call[c].clash)
  <1>1. IsCall(call[c])
    BY DEF CallShape
  <1>2. [call[c] EXCEPT !.pc = pc] =
           Rec(pc, call[c].kind, call[c].batch, call[c].n, call[c].clash)
    BY <1>1 DEF IsCall, Rec
  <1>3. call' = [call EXCEPT ![c] = [call[c] EXCEPT !.pc = pc]]
    OBVIOUS
  <1> QED
    BY <1>2, <1>3, CallReplaced

(* The requests that another one's DELETE or INSERT disturbs.               *)
Disturbs(c) ==
    \A d \in Calls \ {c} :
       /\ IsCall(call'[d]) /\ call'[d].pc = call[d].pc /\ call'[d].kind = call[d].kind
       /\ call'[d].batch = call[d].batch /\ call'[d].n = call[d].n
       /\ call[d].pc \in {"wipe", "fill"} => call'[d].clash

(* What a statement that touches the table of recovery keys does to the     *)
(* other requests in flight: it notes the interference.                     *)
LEMMA Disturbed ==
    ASSUME CallShape, NEW c \in Calls, NEW v, call' = [Disturb(c) EXCEPT ![c] = v]
    PROVE  CallDom' /\ Disturbs(c) /\ call'[c] = v
  <1>1. CallDom' /\ call'[c] = v
    BY DEF CallDom, Disturb
  <1>2. ASSUME NEW d \in Calls \ {c}
        PROVE  /\ IsCall(call'[d]) /\ call'[d].pc = call[d].pc /\ call'[d].kind = call[d].kind
               /\ call'[d].batch = call[d].batch /\ call'[d].n = call[d].n
               /\ call[d].pc \in {"wipe", "fill"} => call'[d].clash
    <2>1. IsCall(call[d])
      BY DEF CallShape
    <2>2. call'[d] = IF call[d].pc \in {"wipe", "fill"}
                     THEN [call[d] EXCEPT !.clash = TRUE] ELSE call[d]
      <3>1. call'[d] = Disturb(c)[d]
        BY DEF Disturb
      <3>2. Disturb(c)[d] = IF d # c /\ call[d].pc \in {"wipe", "fill"}
                            THEN [call[d] EXCEPT !.clash = TRUE] ELSE call[d]
        BY DEF Disturb
      <3> QED
        BY <3>1, <3>2
    <2>3. [call[d] EXCEPT !.clash = TRUE] =
             Rec(call[d].pc, call[d].kind, call[d].batch, call[d].n, TRUE)
      BY <2>1, FlagSet
    <2>4. CASE call[d].pc \in {"wipe", "fill"}
      <3>1. call'[d] = Rec(call[d].pc, call[d].kind, call[d].batch, call[d].n, TRUE)
        BY <2>2, <2>3, <2>4
      <3> QED
        BY <3>1 DEF Rec, IsCall
    <2>5. CASE call[d].pc \notin {"wipe", "fill"}
      <3>1. call'[d] = call[d]
        BY <2>2, <2>5
      <3> QED
        BY <2>1, <2>5, <3>1
    <2> QED
      BY <2>4, <2>5
  <1> QED
    BY <1>1, <1>2 DEF Disturbs

(* A request that goes on, or ends, without touching the keys.              *)
keyTables == <<stored, spent, batches, won, shown, handed>>

Harmless(v) ==
    /\ IsCall(v) /\ v.batch \in Nat /\ v.n = 1
    /\ v.pc \notin {"fill", "use"}
    /\ v.pc = "wipe" /\ v.kind = "passkey" => stored = spent

(* The requests as they start and as they end.                              *)
LEMMA StartsHarmless ==
    /\ NoCall.pc = "idle" /\ Harmless(NoCall)
    /\ Harmless([NoCall EXCEPT !.pc = "enable"])
    /\ Harmless([NoCall EXCEPT !.pc = "disable"])
    /\ Harmless([NoCall EXCEPT !.pc = "wipe"])
    /\ Harmless([NoCall EXCEPT !.pc = "rollback"])
    /\ Harmless([NoCall EXCEPT !.pc = "purge"])
    /\ Harmless([NoCall EXCEPT !.pc = "wipe", !.kind = "regenerate"])
    /\ Harmless([NoCall EXCEPT !.pc = "count", !.kind = "passkey"])
  <1>x. PICK x : NoCall = Rec("idle", "enable", 1, 1, x)
    BY Zenon DEF NoCall, Rec
  <1>1. NoCall.pc = "idle" /\ Harmless(NoCall)
    BY <1>x DEF Rec, IsCall, Harmless
  <1>2. Harmless([NoCall EXCEPT !.pc = "enable"])
    <2> DEFINE r == [NoCall EXCEPT !.pc = "enable"]
    <2>1. r = Rec("enable", "enable", 1, 1, x)
      BY <1>x DEF Rec
    <2> HIDE DEF r
    <2>2. Harmless(r)
      BY <2>1 DEF Rec, IsCall, Harmless
    <2> QED
      BY <2>2 DEF r
  <1>3. Harmless([NoCall EXCEPT !.pc = "disable"])
    <2> DEFINE r == [NoCall EXCEPT !.pc = "disable"]
    <2>1. r = Rec("disable", "enable", 1, 1, x)
      BY <1>x DEF Rec
    <2> HIDE DEF r
    <2>2. Harmless(r)
      BY <2>1 DEF Rec, IsCall, Harmless
    <2> QED
      BY <2>2 DEF r
  <1>4. Harmless([NoCall EXCEPT !.pc = "wipe"])
    <2> DEFINE r == [NoCall EXCEPT !.pc = "wipe"]
    <2>1. r = Rec("wipe", "enable", 1, 1, x)
      BY <1>x DEF Rec
    <2> HIDE DEF r
    <2>2. Harmless(r)
      BY <2>1 DEF Rec, IsCall, Harmless
    <2> QED
      BY <2>2 DEF r
  <1>5. Harmless([NoCall EXCEPT !.pc = "rollback"])
    <2> DEFINE r == [NoCall EXCEPT !.pc = "rollback"]
    <2>1. r = Rec("rollback", "enable", 1, 1, x)
      BY <1>x DEF Rec
    <2> HIDE DEF r
    <2>2. Harmless(r)
      BY <2>1 DEF Rec, IsCall, Harmless
    <2> QED
      BY <2>2 DEF r
  <1>6. Harmless([NoCall EXCEPT !.pc = "purge"])
    <2> DEFINE r == [NoCall EXCEPT !.pc = "purge"]
    <2>1. r = Rec("purge", "enable", 1, 1, x)
      BY <1>x DEF Rec
    <2> HIDE DEF r
    <2>2. Harmless(r)
      BY <2>1 DEF Rec, IsCall, Harmless
    <2> QED
      BY <2>2 DEF r
  <1>7. Harmless([NoCall EXCEPT !.pc = "wipe", !.kind = "regenerate"])
    <2> DEFINE m == [NoCall EXCEPT !.pc = "wipe"]
               r == [m EXCEPT !.kind = "regenerate"]
    <2>1. m = Rec("wipe", "enable", 1, 1, x)
      BY <1>x DEF Rec
    <2>2. [NoCall EXCEPT !.pc = "wipe", !.kind = "regenerate"] = r
      OBVIOUS
    <2> HIDE DEF m
    <2>3. r = Rec("wipe", "regenerate", 1, 1, x)
      BY <2>1 DEF Rec
    <2> HIDE DEF r
    <2>4. Harmless(r)
      BY <2>3 DEF Rec, IsCall, Harmless
    <2> QED
      BY <2>2, <2>4
  <1>8. Harmless([NoCall EXCEPT !.pc = "count", !.kind = "passkey"])
    <2> DEFINE m == [NoCall EXCEPT !.pc = "count"]
               r == [m EXCEPT !.kind = "passkey"]
    <2>1. m = Rec("count", "enable", 1, 1, x)
      BY <1>x DEF Rec
    <2>2. [NoCall EXCEPT !.pc = "count", !.kind = "passkey"] = r
      OBVIOUS
    <2> HIDE DEF m
    <2>3. r = Rec("count", "passkey", 1, 1, x)
      BY <2>1 DEF Rec
    <2> HIDE DEF r
    <2>4. Harmless(r)
      BY <2>3 DEF Rec, IsCall, Harmless
    <2> QED
      BY <2>2, <2>4
  <1> QED
    BY <1>1, <1>2, <1>3, <1>4, <1>5, <1>6, <1>7, <1>8

(* What enabling and its rollback start as.                                 *)
LEMMA StartsEnable ==
    /\ [NoCall EXCEPT !.pc = "wipe"].pc = "wipe"
    /\ [NoCall EXCEPT !.pc = "wipe"].kind = "enable"
    /\ [NoCall EXCEPT !.pc = "rollback"].pc = "rollback"
    /\ [NoCall EXCEPT !.pc = "rollback"].kind = "enable"
  <1>1. PICK x : NoCall = Rec("idle", "enable", 1, 1, x)
    BY Zenon DEF NoCall, Rec
  <1> QED
    BY <1>1 DEF Rec

(* A step that leaves the tables alone and puts its request where nothing   *)
(* is relied upon keeps the invariant.                                      *)
LEMMA HarmlessStep ==
    ASSUME KeysInv, NEW c \in Calls, OthersKeep(c), Harmless(call'[c]), UNCHANGED keyTables
    PROVE  KeysInv'
  <1>0. /\ CallShape /\ spent \subseteq stored
        /\ NumbersFresh /\ Undisturbed /\ WonIsSpent /\ ShownKeysWork
    BY DEF KeysInv
  <1>1. CallShape'
    BY <1>0 DEF CallShape, CallDom, OthersKeep, Harmless
  <1>2. NumbersFresh'
    BY <1>0 DEF NumbersFresh, OthersKeep, Harmless, keyTables
  <1>3. Undisturbed'
    BY <1>0 DEF Undisturbed, OthersKeep, Harmless, keyTables
  <1>4. (spent \subseteq stored)' /\ WonIsSpent' /\ ShownKeysWork'
    BY <1>0 DEF WonIsSpent, ShownKeysWork, keyTables
  <1> QED
    BY <1>1, <1>2, <1>3, <1>4 DEF KeysInv

(* A request that starts, goes on or ends without touching another one.     *)
LEMMA HarmlessAction ==
    ASSUME CallShape, NEW c \in Calls,
           \/ StartEnable(c) \/ StartDisable(c) \/ StartRegenerate(c)
           \/ EnableTwoFactor(c) \/ Rollback(c) \/ GenerateFails(c) \/ DisableTwoFactor(c)
           \/ CreateUserPasskey(c) \/ CountByUserID(c) \/ GetUnusedKeysCount(c)
           \/ HandOut(c) \/ UseKey(c)
    PROVE  OthersKeep(c) /\ Harmless(call'[c])
  <1>e. ASSUME NEW v, Enter(c, v), Harmless(v) PROVE OthersKeep(c) /\ Harmless(call'[c])
    BY <1>e, CallReplaced DEF Enter
  <1>n. Harmless(NoCall)
    BY StartsHarmless
  <1>f. End(c) => OthersKeep(c) /\ Harmless(call'[c])
    BY <1>e, <1>n DEF End
  <1>1. CASE StartEnable(c) \/ StartDisable(c) \/ StartRegenerate(c)
    <2>1. PICK v : Enter(c, v) /\ Harmless(v)
      <3>1. /\ Harmless([NoCall EXCEPT !.pc = "enable"])
            /\ Harmless([NoCall EXCEPT !.pc = "disable"])
            /\ Harmless([NoCall EXCEPT !.pc = "wipe", !.kind = "regenerate"])
        BY StartsHarmless
      <3> QED
        BY <1>1, <3>1 DEF StartEnable, StartDisable, StartRegenerate
    <2> QED
      BY <1>e, <2>1
  <1>2. CASE EnableTwoFactor(c) \/ Rollback(c) \/ GenerateFails(c) \/ DisableTwoFactor(c)
    <2>1. PICK v : Enter(c, v) /\ Harmless(v)
      <3>1. /\ Harmless([NoCall EXCEPT !.pc = "wipe"])
            /\ Harmless([NoCall EXCEPT !.pc = "rollback"])
            /\ Harmless([NoCall EXCEPT !.pc = "purge"])
        BY StartsHarmless
      <3> QED
        BY <1>2, <1>n, <3>1 DEF EnableTwoFactor, Rollback, GenerateFails, DisableTwoFactor, End
    <2> QED
      BY <1>e, <2>1
  <1>3. CASE CreateUserPasskey(c)
    <2>1. Harmless([NoCall EXCEPT !.pc = "count", !.kind = "passkey"])
      BY StartsHarmless
    <2> QED
      BY <1>3, <2>1, CallReplaced DEF CreateUserPasskey, Enter
  <1>4. CASE CountByUserID(c)
    <2>1. CASE call' = [call EXCEPT ![c].pc = "unused"]
      <3>1. call[c].batch \in Nat /\ call[c].n = 1
        BY <1>4 DEF CallShape, CountByUserID, In
      <3>2. OthersKeep(c)
        BY <2>1, CallMoves
      <3>3. PICK r : /\ call'[c] = r
                     /\ r = Rec("unused", call[c].kind, call[c].batch, call[c].n, call[c].clash)
        BY <2>1, CallMoves
      <3>4. Harmless(r)
        BY <2>1, <3>1, <3>3 DEF Harmless, Rec, IsCall
      <3> QED
        BY <3>2, <3>3, <3>4
    <2> QED
      BY <1>f, <1>4, <2>1 DEF CountByUserID
  <1>5. CASE GetUnusedKeysCount(c)
    <2>1. CASE stored = spent /\ call' = [call EXCEPT ![c].pc = "wipe"]
      <3>1. call[c].batch \in Nat /\ call[c].n = 1
        BY <1>5 DEF CallShape, GetUnusedKeysCount, In
      <3>2. OthersKeep(c)
        BY <2>1, CallMoves
      <3>3. PICK r : /\ call'[c] = r
                     /\ r = Rec("wipe", call[c].kind, call[c].batch, call[c].n, call[c].clash)
        BY <2>1, CallMoves
      <3>4. Harmless(r)
        BY <2>1, <3>1, <3>3 DEF Harmless, Rec, IsCall
      <3> QED
        BY <3>2, <3>3, <3>4
    <2> QED
      BY <1>f, <1>5, <2>1 DEF GetUnusedKeysCount
  <1>6. CASE HandOut(c) \/ UseKey(c)
    BY <1>f, <1>6 DEF HandOut, UseKey
  <1> QED
    BY <1>1, <1>2, <1>3, <1>4, <1>5, <1>6

(* The DELETE and the INSERTs of GenerateRecoveryKeys.                      *)
LEMMA WipeAction ==
    ASSUME CallShape, NEW c \in Calls, Wipe(c)
    PROVE  /\ CallDom' /\ Disturbs(c) /\ IsCall(call'[c])
           /\ call'[c].pc = "fill" /\ call'[c].batch = batches + 1 /\ call'[c].n = 1
  <1> DEFINE v == Rec("fill", call[c].kind, batches + 1, call[c].n, FALSE)
  <1>1. call[c].n = 1
    BY DEF Wipe, In, CallShape
  <1>2. call' = [Disturb(c) EXCEPT ![c] = v]
    <2>1. Disturb(c)[c] = call[c] /\ IsCall(call[c])
      BY DEF Disturb, CallShape
    <2>2. [call[c] EXCEPT !.pc = "fill", !.batch = batches + 1, !.clash = FALSE] = v
      <3> DEFINE r == call[c]
                 m == [r EXCEPT !.pc = "fill"]
                 q == [m EXCEPT !.batch = batches + 1]
      <3>1. m = Rec("fill", r.kind, r.batch, r.n, r.clash)
        BY <2>1 DEF IsCall, Rec
      <3>2. [r EXCEPT !.pc = "fill", !.batch = batches + 1, !.clash = FALSE] =
               [q EXCEPT !.clash = FALSE]
        OBVIOUS
      <3> HIDE DEF m
      <3>3. q = Rec("fill", r.kind, batches + 1, r.n, r.clash)
        BY <3>1 DEF Rec
      <3> HIDE DEF q
      <3>4. [q EXCEPT !.clash = FALSE] = v
        <4>1. /\ IsCall(q) /\ q.pc = "fill" /\ q.kind = call[c].kind
              /\ q.batch = batches + 1 /\ q.n = call[c].n
          BY <3>3 DEF Rec, IsCall
        <4>2. [q EXCEPT !.clash = FALSE] = Rec(q.pc, q.kind, q.batch, q.n, FALSE)
          BY <4>1, FlagSet
        <4> QED
          BY <4>1, <4>2
      <3> QED
        BY <3>2, <3>4
    <2>3. call' = [Disturb(c) EXCEPT ![c] = [call[c] EXCEPT !.pc = "fill",
                                                !.batch = batches + 1, !.clash = FALSE]]
      BY <2>1 DEF Wipe
    <2> QED
      BY <2>2, <2>3
  <1>3. IsCall(v) /\ v.pc = "fill" /\ v.batch = batches + 1 /\ v.n = 1
    BY <1>1 DEF Rec, IsCall
  <1> HIDE DEF v
  <1> QED
    BY <1>2, <1>3, Disturbed

(* What the INSERT of one recovery key makes of the request that generates  *)
(* the batch.                                                               *)
LEMMA InsertAction ==
    ASSUME CallShape, NEW c \in Calls, InsertKey(c)
    PROVE  /\ CallDom' /\ Disturbs(c) /\ IsCall(call'[c])
           /\ call'[c].pc = "fill" /\ call'[c].batch = call[c].batch
           /\ call'[c].n = call[c].n + 1 /\ call'[c].clash = call[c].clash
  <1> DEFINE v == Rec(call[c].pc, call[c].kind, call[c].batch, call[c].n + 1, call[c].clash)
  <1>1. call[c].pc = "fill"
    BY DEF InsertKey, In
  <1>2. call' = [Disturb(c) EXCEPT ![c] = v]
    <2>1. Disturb(c)[c] = call[c] /\ IsCall(call[c])
      BY DEF Disturb, CallShape
    <2>2. [call[c] EXCEPT !.n = call[c].n + 1] = v
      BY <2>1 DEF IsCall, Rec
    <2>3. call' = [Disturb(c) EXCEPT ![c] = [call[c] EXCEPT !.n = call[c].n + 1]]
      BY <2>1 DEF InsertKey
    <2> QED
      BY <2>2, <2>3
  <1>3. /\ IsCall(v) /\ v.pc = "fill" /\ v.batch = call[c].batch /\ v.n = call[c].n + 1
        /\ v.clash = call[c].clash
    BY <1>1 DEF Rec, IsCall
  <1> HIDE DEF v
  <1> QED
    BY <1>2, <1>3, Disturbed

(* A login that has found its key.                                          *)
LEMMA SelectAction ==
    ASSUME CallShape, NEW c \in Calls, NEW k, SelectKey(c, k)
    PROVE  /\ OthersKeep(c) /\ IsCall(call'[c]) /\ call'[c].pc = "use"
           /\ call'[c].batch = k.batch /\ call'[c].n = k.n
  <1> DEFINE v == [NoCall EXCEPT !.pc = "use", !.batch = k.batch, !.n = k.n]
  <1>1. IsCall(v) /\ v.pc = "use" /\ v.batch = k.batch /\ v.n = k.n
    <2>x. PICK x : NoCall = Rec("idle", "enable", 1, 1, x)
      BY Zenon DEF NoCall, Rec
    <2> DEFINE m == [NoCall EXCEPT !.pc = "use"]
               q == [m EXCEPT !.batch = k.batch]
    <2>1. m = Rec("use", "enable", 1, 1, x)
      BY <2>x DEF Rec
    <2>2. v = [q EXCEPT !.n = k.n]
      OBVIOUS
    <2> HIDE DEF m, v
    <2>3. q = Rec("use", "enable", k.batch, 1, x)
      BY <2>1 DEF Rec
    <2> HIDE DEF q
    <2>4. v = Rec("use", "enable", k.batch, k.n, x)
      BY <2>2, <2>3 DEF Rec
    <2> QED
      BY <2>4 DEF Rec, IsCall
  <1>2. call' = [call EXCEPT ![c] = v]
    BY DEF SelectKey, Enter
  <1> HIDE DEF v
  <1> QED
    BY <1>1, <1>2, CallReplaced

(* Each statement of enabling, disabling, regenerating and using keys and   *)
(* of a passkey registration keeps the invariant.                           *)
LEMMA KeysStep == KeysInv /\ [TwoFactorNext]_twoFactorVars => KeysInv'
  <1> SUFFICES ASSUME KeysInv, [TwoFactorNext]_twoFactorVars PROVE KeysInv'
    OBVIOUS
  <1>0. /\ CallShape /\ spent \subseteq stored
        /\ NumbersFresh /\ Undisturbed /\ WonIsSpent /\ ShownKeysWork
    BY DEF KeysInv
  <1>n. Harmless(NoCall)
    BY StartsHarmless
  <1>i. NoCall.pc = "idle"
    BY StartsHarmless
  <1>e. ASSUME NEW c \in Calls, End(c), UNCHANGED keyTables PROVE KeysInv'
    BY <1>0, <1>n, <1>e, CallReplaced, HarmlessStep DEF End, Enter
  <1>1. ASSUME NEW c \in Calls,
               \/ StartEnable(c) \/ StartDisable(c) \/ StartRegenerate(c)
               \/ EnableTwoFactor(c) \/ Rollback(c) \/ GenerateFails(c) \/ DisableTwoFactor(c)
               \/ CreateUserPasskey(c) \/ CountByUserID(c) \/ GetUnusedKeysCount(c)
        PROVE  KeysInv'
    <2>1. UNCHANGED keyTables
      BY <1>1 DEF StartEnable, StartDisable, StartRegenerate, EnableTwoFactor, Rollback,
            GenerateFails, DisableTwoFactor, CreateUserPasskey, CountByUserID,
            GetUnusedKeysCount, keyTables
    <2>2. OthersKeep(c) /\ Harmless(call'[c])
      BY <1>0, <1>1, HarmlessAction
    <2> QED
      BY <2>1, <2>2, HarmlessStep
  <1>4. ASSUME NEW c \in Calls, Wipe(c) PROVE KeysInv'
    <2>1. /\ call[c].pc = "wipe" /\ call[c].n = 1 /\ batches \in Nat
          /\ batches' = batches + 1 /\ stored' = {} /\ spent' = {} /\ UNCHANGED <<won, shown>>
          /\ handed' = IF call[c].kind = "passkey" /\ ~call[c].clash THEN handed ELSE {}
      BY <1>0, <1>4 DEF Wipe, In, CallShape, NumbersFresh
    <2>3. /\ CallDom' /\ Disturbs(c) /\ IsCall(call'[c])
          /\ call'[c].pc = "fill" /\ call'[c].batch = batches + 1 /\ call'[c].n = 1
      BY <1>0, <1>4, WipeAction
    <2>4. CallShape'
      BY <1>0, <2>1, <2>3, TwoFactorAssumption
         DEF CallShape, CallDom, Disturbs, TwoFactorAssumption
    <2>5. NumbersFresh'
      BY <1>0, <2>1, <2>3 DEF NumbersFresh, CallShape, Disturbs
    <2>6. Undisturbed'
      BY <1>0, <2>1, <2>3 DEF Undisturbed, Disturbs
    <2>7. ShownKeysWork'
      BY <1>0, <2>1 DEF ShownKeysWork, Undisturbed
    <2> QED
      BY <1>0, <2>1, <2>4, <2>5, <2>6, <2>7 DEF KeysInv, WonIsSpent
  <1>5. ASSUME NEW c \in Calls, InsertKey(c) PROVE KeysInv'
    <2> DEFINE k == Key(call[c].batch, call[c].n)
    <2>1. /\ call[c].pc = "fill" /\ call[c].n <= BatchSize
          /\ call[c].n \in Nat \ {0} /\ call[c].batch \in Nat
          /\ stored' = stored \cup {k} /\ UNCHANGED <<spent, batches, won, shown, handed>>
      BY <1>0, <1>5 DEF InsertKey, In, CallShape, Key
    <2>3. /\ CallDom' /\ Disturbs(c) /\ IsCall(call'[c])
          /\ call'[c].pc = "fill" /\ call'[c].batch = call[c].batch
          /\ call'[c].n = call[c].n + 1 /\ call'[c].clash = call[c].clash
      BY <1>0, <1>5, InsertAction
    <2>4. CallShape'
      BY <1>0, <2>1, <2>3, TwoFactorAssumption
         DEF CallShape, CallDom, Disturbs, TwoFactorAssumption
    <2>5. NumbersFresh'
      BY <1>0, <2>1, <2>3 DEF NumbersFresh, Disturbs
    <2>6. k \notin shown
      BY <1>0, <2>1 DEF NumbersFresh, Key
    <2>7. k \notin spent
      BY <1>0, <2>6 DEF WonIsSpent
    <2>8. Undisturbed'
      <3>1. ASSUME NEW d \in Calls, call'[d].pc = "fill", ~call'[d].clash
            PROVE  \A j \in 1..call'[d].n - 1 : Key(call'[d].batch, j) \in stored' \ spent'
        <4>1. d = c /\ ~call[c].clash
          BY <2>3, <3>1 DEF Disturbs
        <4>2. \A j \in 1..call[c].n - 1 : Key(call[c].batch, j) \in stored \ spent
          BY <1>0, <2>1, <4>1 DEF Undisturbed
        <4>3. \A j \in 1..call[c].n : j \in 1..call[c].n - 1 \/ j = call[c].n
          BY <2>1
        <4>4. 1..call'[d].n - 1 = 1..call[c].n
          BY <2>1, <2>3, <4>1
        <4> QED
          BY <2>1, <2>3, <2>7, <4>1, <4>2, <4>3, <4>4
      <3>2. ASSUME NEW d \in Calls, call'[d].pc = "wipe", ~call'[d].clash PROVE FALSE
        BY <2>3, <3>2 DEF Disturbs
      <3> QED
        BY <3>1, <3>2 DEF Undisturbed
    <2>9. ShownKeysWork' /\ WonIsSpent' /\ (spent \subseteq stored)'
      BY <1>0, <2>1, <2>6 DEF ShownKeysWork, WonIsSpent
    <2> QED
      BY <2>4, <2>5, <2>8, <2>9 DEF KeysInv
  <1>6. ASSUME NEW c \in Calls, HandOut(c) PROVE KeysInv'
    <2>1. /\ call[c].pc = "fill" /\ call[c].n = BatchSize + 1 /\ BatchSize \in Nat \ {0}
          /\ UNCHANGED <<stored, spent, batches, won>>
          /\ shown' = shown \cup BatchOf(call[c].batch)
          /\ handed' = IF call[c].clash THEN handed ELSE handed \cup BatchOf(call[c].batch)
          /\ End(c)
      BY <1>0, <1>6, TwoFactorAssumption DEF HandOut, In, CallShape, TwoFactorAssumption
    <2>2. OthersKeep(c) /\ Harmless(call'[c])
      BY <1>0, <1>6, HarmlessAction
    <2>3. \A k \in BatchOf(call[c].batch) : k.batch = call[c].batch /\ k.n \in 1..BatchSize
                                            /\ k = Key(k.batch, k.n)
      BY DEF BatchOf, Keys, Key
    <2>4. ~call[c].clash => BatchOf(call[c].batch) \subseteq stored \ spent
      <3>1. BatchSize + 1 - 1 = BatchSize
        BY <2>1
      <3> QED
        BY <1>0, <2>1, <2>3, <3>1 DEF Undisturbed
    <2>5. CallShape'
      BY <1>0, <2>2 DEF CallShape, CallDom, OthersKeep, Harmless
    <2>6. NumbersFresh'
      <3>1. call[c].batch \in Nat /\ call[c].batch <= batches
        BY <1>0, <2>1 DEF NumbersFresh, CallShape
      <3>2. \A d \in Calls : call'[d].pc \in {"fill", "use"} => d # c /\ call'[d] = call[d]
        BY <2>2 DEF OthersKeep, Harmless
      <3> QED
        BY <1>0, <2>1, <2>3, <3>1, <3>2 DEF NumbersFresh
    <2>7. Undisturbed'
      <3>1. \A d \in Calls : call'[d].pc \in {"fill", "wipe"} => d # c /\ call'[d] = call[d]
        BY <1>0, <1>i, <2>1, <2>2, CallReplaced DEF OthersKeep, End, Enter
      <3> QED
        BY <1>0, <2>1, <3>1 DEF Undisturbed
    <2>8. ShownKeysWork' /\ WonIsSpent' /\ (spent \subseteq stored)'
      BY <1>0, <2>1, <2>4 DEF ShownKeysWork, WonIsSpent
    <2> QED
      BY <2>5, <2>6, <2>7, <2>8 DEF KeysInv
  <1>7. ASSUME NEW c \in Calls, DeleteAllForUser(c) PROVE KeysInv'
    <2>1. CASE End(c) /\ UNCHANGED <<stored, spent, handed>>
      <3>1. UNCHANGED keyTables
        BY <1>7, <2>1 DEF DeleteAllForUser, keyTables
      <3> QED
        BY <1>e, <2>1, <3>1
    <2>2. CASE /\ stored' = {} /\ spent' = {} /\ handed' = {}
               /\ call' = [Disturb(c) EXCEPT ![c] = NoCall]
      <3>1. UNCHANGED <<batches, won, shown>>
        BY <1>7 DEF DeleteAllForUser
      <3>2. CallDom' /\ Disturbs(c) /\ call'[c] = NoCall
        BY <1>0, <2>2, Disturbed
      <3>3. /\ IsCall(call'[c]) /\ call'[c].pc = "idle" /\ call'[c].n = 1
            /\ call'[c].batch \in Nat
        BY <1>n, <1>i, <3>2 DEF Harmless
      <3>4. CallShape'
        BY <1>0, <3>2, <3>3 DEF CallShape, CallDom, Disturbs
      <3>5. NumbersFresh'
        BY <1>0, <3>1, <3>2, <3>3 DEF NumbersFresh, Disturbs
      <3>6. Undisturbed'
        BY <1>0, <3>2, <3>3 DEF Undisturbed, Disturbs
      <3>7. ShownKeysWork' /\ WonIsSpent' /\ (spent \subseteq stored)'
        BY <1>0, <2>2, <3>1 DEF ShownKeysWork, WonIsSpent
      <3> QED
        BY <3>4, <3>5, <3>6, <3>7 DEF KeysInv
    <2> QED
      BY <1>7, <2>1, <2>2 DEF DeleteAllForUser
  <1>8. ASSUME NEW c \in Calls, NEW k \in Keys, SelectKey(c, k) PROVE KeysInv'
    <2>1. k \in shown /\ UNCHANGED keyTables
      BY <1>8 DEF SelectKey, keyTables
    <2>2. k = Key(k.batch, k.n) /\ k.batch \in Nat /\ k.n \in Nat
      BY DEF Keys, Key
    <2>3. /\ OthersKeep(c) /\ IsCall(call'[c]) /\ call'[c].pc = "use"
          /\ call'[c].batch = k.batch /\ call'[c].n = k.n
      BY <1>0, <1>8, SelectAction
    <2>4. CallShape'
      BY <1>0, <2>2, <2>3 DEF CallShape, CallDom, OthersKeep
    <2>5. NumbersFresh'
      BY <1>0, <2>1, <2>2, <2>3 DEF NumbersFresh, OthersKeep, keyTables
    <2>6. Undisturbed'
      BY <1>0, <2>1, <2>3 DEF Undisturbed, OthersKeep, keyTables
    <2>7. ShownKeysWork' /\ WonIsSpent' /\ (spent \subseteq stored)'
      BY <1>0, <2>1 DEF ShownKeysWork, WonIsSpent, keyTables
    <2> QED
      BY <2>4, <2>5, <2>6, <2>7 DEF KeysInv
  <1>9. ASSUME NEW c \in Calls, UseKey(c) PROVE KeysInv'
    <2> DEFINE k == Key(call[c].batch, call[c].n)
    <2>1. call[c].pc = "use" /\ End(c) /\ UNCHANGED <<stored, batches, shown>>
      BY <1>9 DEF UseKey, In
    <2>2. CASE UNCHANGED <<spent, won, handed>>
      BY <1>e, <2>1, <2>2 DEF keyTables
    <2>3. CASE /\ spent' = spent \cup ({k} \cap stored) /\ won' = won \cup {k}
               /\ handed' = handed \ {k}
      <3>1. k \in shown
        BY <1>0, <2>1 DEF NumbersFresh
      <3>2. OthersKeep(c) /\ Harmless(call'[c]) /\ call'[c].pc = "idle"
        BY <1>0, <1>n, <1>i, <2>1, CallReplaced DEF End, Enter
      <3>3. CallShape'
        BY <1>0, <3>2 DEF CallShape, CallDom, OthersKeep, Harmless
      <3>4. NumbersFresh'
        BY <1>0, <2>1, <3>2 DEF NumbersFresh, OthersKeep, Harmless
      <3>5. Undisturbed'
        <4>1. \A d \in Calls : call'[d].pc \in {"fill", "wipe"} => d # c /\ call'[d] = call[d]
          BY <3>2 DEF OthersKeep
        <4>2. \A d \in Calls : call'[d].pc = "fill" => \A j : Key(call'[d].batch, j) # k
          BY <1>0, <3>1, <4>1 DEF NumbersFresh, Key
        <4> QED
          BY <1>0, <2>1, <2>3, <4>1, <4>2 DEF Undisturbed
      <3>6. ShownKeysWork' /\ WonIsSpent' /\ (spent \subseteq stored)'
        BY <1>0, <2>1, <2>3, <3>1 DEF ShownKeysWork, WonIsSpent
      <3> QED
        BY <3>3, <3>4, <3>5, <3>6 DEF KeysInv
    <2> QED
      BY <1>9, <2>2, <2>3 DEF UseKey, Key
  <1>10. CASE TwoFactorCrash
    <2>1. UNCHANGED keyTables /\ CallDom' /\ \A c \in Calls : call'[c] = NoCall
      BY <1>10 DEF TwoFactorCrash, keyTables, CallDom
    <2>2. \A c \in Calls : Harmless(call'[c]) /\ call'[c].pc = "idle"
      BY <1>n, <1>i, <2>1
    <2>3. CallShape'
      BY <2>1, <2>2 DEF CallShape, CallDom, Harmless
    <2>4. NumbersFresh' /\ Undisturbed'
      BY <1>0, <2>1, <2>2 DEF NumbersFresh, Undisturbed, keyTables
    <2>5. ShownKeysWork' /\ WonIsSpent' /\ (spent \subseteq stored)'
      BY <1>0, <2>1 DEF ShownKeysWork, WonIsSpent, keyTables
    <2> QED
      BY <2>3, <2>4, <2>5 DEF KeysInv
  <1>11. CASE DeletePasskey \/ UNCHANGED twoFactorVars
    <2>1. UNCHANGED <<keyTables, call>>
      BY <1>11 DEF DeletePasskey, twoFactorVars, keyTables
    <2> QED
      BY <1>0, <2>1 DEF KeysInv, CallShape, NumbersFresh, Undisturbed, WonIsSpent, ShownKeysWork,
                        keyTables
  <1> QED
    BY <1>1, <1>4, <1>5, <1>6, <1>7, <1>8, <1>9, <1>10, <1>11 DEF TwoFactorNext

(* The invariant holds with no key in the table.                            *)
LEMMA KeysInit == TwoFactorInit => KeysInv
  <1> SUFFICES ASSUME TwoFactorInit PROVE KeysInv
    OBVIOUS
  <1>1. /\ stored = {} /\ spent = {} /\ batches = 0 /\ won = {} /\ shown = {} /\ handed = {}
        /\ call = [c \in Calls |-> NoCall]
    BY DEF TwoFactorInit
  <1>2. \A c \in Calls : Harmless(call[c]) /\ call[c].pc = "idle"
    BY <1>1, StartsHarmless
  <1>3. CallShape
    BY <1>1, <1>2 DEF CallShape, Harmless
  <1>4. NumbersFresh /\ Undisturbed
    BY <1>1, <1>2 DEF NumbersFresh, Undisturbed
  <1> QED
    BY <1>1, <1>3, <1>4 DEF KeysInv, WonIsSpent, ShownKeysWork

(* The invariant of the recovery keys holds in every reachable state, for   *)
(* any number of concurrent requests and any batch size.                    *)
THEOREM KeysInductive == TwoFactorSpec => []KeysInv
  BY KeysInit, KeysStep, PTL DEF TwoFactorSpec

(* A key shown to the user stays valid until the user spends it or asks for *)
(* new ones, unless keys were generated between the count and the DELETE of *)
(* a passkey registration (GetUnusedKeysCount).                             *)
THEOREM ShownKeysStayValid == TwoFactorSpec => []ShownKeysWork
  <1>1. KeysInv => ShownKeysWork
    BY DEF KeysInv
  <1> QED
    BY <1>1, KeysInductive, PTL

(* A recovery key whose use was recorded never passes the SELECT again,     *)
(* although the table is emptied and refilled all the time                  *)
(* (VerifyAndUseRecoveryKey).                                               *)
THEOREM KeysUsedOnce == TwoFactorSpec => KeyUsedOnce
  <1> DEFINE Reuse == \A c \in Calls, k \in won :
                In(c, "idle") /\ call'[c].pc = "use" =>
                   [batch |-> call'[c].batch, n |-> call'[c].n] # k
  <1>1. KeysInv /\ [TwoFactorNext]_twoFactorVars => [Reuse]_twoFactorVars
    <2> SUFFICES ASSUME KeysInv, TwoFactorNext, NEW c \in Calls, NEW k \in won,
                        call[c].pc = "idle", call'[c].pc = "use"
                 PROVE  Key(call'[c].batch, call'[c].n) # k
      BY DEF In, Key
    <2>0. CallShape /\ won \cap stored \subseteq spent
      BY DEF KeysInv, WonIsSpent
    <2>1. ASSUME NEW d \in Calls, OthersKeep(d) \/ Disturbs(d), call'[d].pc # "use" PROVE FALSE
      BY <2>1 DEF OthersKeep, Disturbs
    <2>2. ASSUME NEW d \in Calls,
                 \/ StartEnable(d) \/ StartDisable(d) \/ StartRegenerate(d)
                 \/ EnableTwoFactor(d) \/ Rollback(d) \/ GenerateFails(d) \/ DisableTwoFactor(d)
                 \/ CreateUserPasskey(d) \/ CountByUserID(d) \/ GetUnusedKeysCount(d)
                 \/ HandOut(d) \/ UseKey(d)
          PROVE  FALSE
      BY <2>0, <2>1, <2>2, HarmlessAction DEF Harmless
    <2>3. ASSUME NEW d \in Calls, Wipe(d) \/ InsertKey(d) PROVE FALSE
      BY <2>0, <2>1, <2>3, WipeAction, InsertAction
    <2>4. ASSUME NEW d \in Calls, DeleteAllForUser(d) PROVE FALSE
      <3>1. (OthersKeep(d) \/ Disturbs(d)) /\ call'[d] = NoCall
        BY <2>0, <2>4, CallReplaced, Disturbed DEF DeleteAllForUser, End, Enter
      <3> QED
        BY <2>1, <3>1, StartsHarmless
    <2>5. ASSUME NEW d \in Calls, NEW j \in Keys, SelectKey(d, j)
          PROVE  Key(call'[c].batch, call'[c].n) # k
      <3>1. /\ OthersKeep(d) /\ call'[d].batch = j.batch /\ call'[d].n = j.n
            /\ j \in stored \ spent
        BY <2>0, <2>5, SelectAction DEF SelectKey
      <3>2. c = d
        BY <3>1 DEF OthersKeep
      <3>3. j = Key(j.batch, j.n)
        BY DEF Keys, Key
      <3> QED
        BY <2>0, <3>1, <3>2, <3>3
    <2>6. ~TwoFactorCrash /\ ~DeletePasskey
      BY StartsHarmless DEF TwoFactorCrash, DeletePasskey
    <2> QED
      BY <2>2, <2>3, <2>4, <2>5, <2>6 DEF TwoFactorNext
  <1> QED
    BY <1>1, KeysInductive, PTL DEF TwoFactorSpec, KeyUsedOnce

-----------------------------------------------------------------------------
(* Each step keeps a request behind an enabled second factor without keys:  *)
(* one that is about to insert them or to switch it off.                    *)
LEMMA CoveredStep == KeysInv /\ Covered /\ [TwoFactorNext]_twoFactorVars => Covered'
  <1> SUFFICES ASSUME KeysInv, Covered, [TwoFactorNext]_twoFactorVars,
                      enabled', ~bare', stored' = {}
               PROVE  \E c \in Calls : Covers(c)'
    BY DEF Covered
  <1>0. CallShape
    BY DEF KeysInv
  <1>b. ~bare
    BY Zenon DEF TwoFactorNext, twoFactorVars, StartEnable, EnableTwoFactor, Rollback, StartDisable,
       DisableTwoFactor, DeleteAllForUser, StartRegenerate, Wipe, InsertKey, HandOut,
       GenerateFails, CreateUserPasskey, CountByUserID, GetUnusedKeysCount, SelectKey, UseKey,
       DeletePasskey, TwoFactorCrash
  <1>1. (enabled /\ stored = {}) => \E c \in Calls : Covers(c)
    BY <1>b DEF Covered
  <1>2. ASSUME NEW d \in Calls, OthersKeep(d), ~Covers(d), UNCHANGED <<enabled, stored>>
        PROVE  \E c \in Calls : Covers(c)'
    <2>1. enabled /\ stored = {}
      BY <1>2
    <2>2. PICK c \in Calls : Covers(c)
      BY <1>1, <2>1
    <2>3. c # d /\ call'[c] = call[c]
      BY <1>2, <2>2 DEF OthersKeep
    <2> QED
      BY <2>2, <2>3 DEF Covers
  <1>3. ASSUME NEW d \in Calls,
               \/ StartEnable(d) \/ StartDisable(d) \/ StartRegenerate(d)
               \/ CreateUserPasskey(d) \/ CountByUserID(d) \/ GetUnusedKeysCount(d)
               \/ HandOut(d) \/ UseKey(d)
        PROVE  \E c \in Calls : Covers(c)'
    <2>1. OthersKeep(d)
      BY <1>0, <1>3, HarmlessAction
    <2>2. UNCHANGED <<enabled, stored>>
      BY <1>3 DEF StartEnable, StartDisable, StartRegenerate, CreateUserPasskey, CountByUserID,
            GetUnusedKeysCount, HandOut, UseKey
    <2>3. BatchSize \in Nat \ {0} /\ call[d].n \in Nat
      BY <1>0, TwoFactorAssumption DEF TwoFactorAssumption, CallShape
    <2>4. ~Covers(d)
      <3>1. \/ call[d].pc \in {"idle", "count", "unused", "use"}
            \/ call[d].pc = "fill" /\ call[d].n > BatchSize
        BY <1>3 DEF StartEnable, StartDisable, StartRegenerate, CreateUserPasskey,
              CountByUserID, GetUnusedKeysCount, HandOut, UseKey, In
      <3> QED
        BY <2>3, <3>1 DEF Covers
    <2> QED
      BY <1>2, <2>1, <2>2, <2>4
  <1>4. ASSUME NEW d \in Calls, EnableTwoFactor(d) \/ DisableTwoFactor(d)
        PROVE  \E c \in Calls : Covers(c)'
    <2>1. OthersKeep(d) /\ stored' = stored /\ ~Covers(d)
      BY <1>0, <1>4, HarmlessAction DEF EnableTwoFactor, DisableTwoFactor, Covers, In
    <2>2. CASE UNCHANGED enabled
      BY <1>2, <2>1, <2>2
    <2>3. CASE Enter(d, [NoCall EXCEPT !.pc = "wipe"])
      <3>1. call'[d] = [NoCall EXCEPT !.pc = "wipe"]
        BY <1>0, <2>3, CallReplaced DEF Enter
      <3> QED
        BY <3>1, StartsEnable DEF Covers
    <2>4. CASE enabled' = FALSE
      BY <2>4
    <2> QED
      BY <1>4, <2>2, <2>3, <2>4 DEF EnableTwoFactor, DisableTwoFactor
  <1>5. ASSUME NEW d \in Calls, Rollback(d) PROVE FALSE
    BY <1>5, Zenon DEF Rollback
  <1>6. ASSUME NEW d \in Calls, GenerateFails(d) PROVE \E c \in Calls : Covers(c)'
    <2>1. OthersKeep(d) /\ UNCHANGED <<enabled, stored>>
      BY <1>0, <1>6, HarmlessAction DEF GenerateFails
    <2>2. CASE call[d].kind = "enable"
      <3>1. Enter(d, [NoCall EXCEPT !.pc = "rollback"])
        BY <1>6, <2>2 DEF GenerateFails
      <3>2. call'[d] = [NoCall EXCEPT !.pc = "rollback"]
        BY <1>0, <3>1, CallReplaced DEF Enter
      <3> QED
        BY <3>2, StartsEnable DEF Covers
    <2>3. CASE call[d].kind # "enable"
      <3>1. call[d].pc # "fill"
        BY <1>6, <2>3, Zenon DEF GenerateFails, In
      <3> QED
        BY <1>2, <2>1, <2>3, <3>1 DEF Covers
    <2> QED
      BY <2>2, <2>3
  <1>7. ASSUME NEW d \in Calls, Wipe(d) PROVE \E c \in Calls : Covers(c)'
    BY <1>0, <1>7, WipeAction DEF Covers
  <1>8. ASSUME NEW d \in Calls, InsertKey(d) PROVE FALSE
    BY <1>8 DEF InsertKey
  <1>9. ASSUME NEW d \in Calls, DeleteAllForUser(d) PROVE \E c \in Calls : Covers(c)'
    <2>1. CASE End(d) /\ UNCHANGED <<stored, spent, handed, bare>>
      <3>1. OthersKeep(d) /\ UNCHANGED <<enabled, stored>> /\ ~Covers(d)
        BY <1>0, <1>9, <2>1, CallReplaced DEF DeleteAllForUser, End, Enter, Covers, In
      <3> QED
        BY <1>2, <3>1
    <2>2. CASE bare' = (bare \/ enabled)
      <3>1. enabled' = enabled
        BY <1>9 DEF DeleteAllForUser
      <3> QED
        BY <2>2, <3>1, Zenon
    <2> QED
      BY <1>9, <2>1, <2>2 DEF DeleteAllForUser
  <1>10. ASSUME NEW d \in Calls, NEW k \in Keys, SelectKey(d, k) PROVE \E c \in Calls : Covers(c)'
    <2>1. OthersKeep(d)
      BY <1>0, <1>10, SelectAction
    <2>2. UNCHANGED <<enabled, stored>> /\ ~Covers(d)
      BY <1>10 DEF SelectKey, Covers, In
    <2> QED
      BY <1>2, <2>1, <2>2
  <1>11. CASE TwoFactorCrash
    <2>1. enabled /\ stored = {}
      BY <1>11 DEF TwoFactorCrash
    <2>2. \E c \in Calls : call[c].pc \in {"wipe", "fill", "rollback"}
      BY <1>1, <2>1 DEF Covers
    <2> QED
      BY <1>11, <2>2, Zenon DEF TwoFactorCrash
  <1>12. CASE DeletePasskey \/ UNCHANGED twoFactorVars
    <2>1. UNCHANGED <<enabled, stored, call>>
      BY <1>12 DEF DeletePasskey, twoFactorVars
    <2>2. enabled /\ stored = {}
      BY <2>1
    <2> QED
      BY <1>1, <2>1, <2>2 DEF Covers
  <1> QED
    BY <1>3, <1>4, <1>5, <1>6, <1>7, <1>8, <1>9, <1>10, <1>11, <1>12 DEF TwoFactorNext

(* When no request is in flight, a user with 2FA on has recovery keys       *)
(* (enableCurrentUserTwoFactor), apart from the losses that                 *)
(* TwoFactorHasKeys names.                                                  *)
THEOREM EnabledHasKeys == TwoFactorSpec => []TwoFactorHasKeys
  <1>1. TwoFactorInit => Covered
    BY DEF TwoFactorInit, Covered
  <1>2. Covered => TwoFactorHasKeys
    BY DEF Covered, Covers, TwoFactorHasKeys, Quiet, In
  <1> QED
    BY <1>1, <1>2, CoveredStep, KeysInductive, PTL DEF TwoFactorSpec
=============================================================================
