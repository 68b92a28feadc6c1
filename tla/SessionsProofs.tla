--------------------------- MODULE SessionsProofs ---------------------------
(***************************************************************************)
(* Proofs about Sessions, for any number of concurrent requests, sessions,  *)
(* passwords and resets.                                                    *)
(***************************************************************************)
EXTENDS Sessions, FiniteSetTheorems, TLAPS

(* A row of user_sessions and a request are records of their fields.        *)
Row(id, pending, held, login, from, late) ==
    [id |-> id, pending |-> pending, held |-> held, login |-> login, from |-> from, late |-> late]
IsRow(s) == s = Row(s.id, s.pending, s.held, s.login, s.from, s.late)

Req(pc, kind, login, from, late, old, new) ==
    [pc |-> pc, kind |-> kind, login |-> login, from |-> from, late |-> late,
     old |-> old, new |-> new]
IsReq(r) == r = Req(r.pc, r.kind, r.login, r.from, r.late, r.old, r.new)

SessionsShape ==
    /\ DOMAIN req = Handlers /\ req = [h \in Handlers |-> req[h]]
    /\ \A h \in Handlers : IsReq(req[h])
    /\ \A s \in sessions : IsRow(s)

(* Whether a reset completed since the row or the request was read.         *)
IsLate(x) == x.late

(* No reset is ahead of the password, and what could still become a session *)
(* is late if it goes back to a password before the last reset.             *)
Passwords == /\ password \in Nat /\ since \in Nat /\ since <= password
             /\ \A s \in sessions : s.from \in Nat /\ s.from <= password
             /\ \A h \in Handlers : req[h].from \in Nat /\ req[h].from <= password
LateIsMarked ==
    /\ \A s \in sessions : s.from < since => IsLate(s)
    /\ \A h \in Handlers : (req[h].pc \in {"insert", "refresh"} /\ req[h].from < since) => IsLate(req[h])

ResetInv == SessionsShape /\ Passwords /\ LateIsMarked

-----------------------------------------------------------------------------
(* Ids grow, and a login is named after a row it inserted.                  *)
Numbered ==
    /\ created \in Nat
    /\ \A s \in sessions : s.id \in 1..created /\ s.login \in 1..created
    /\ \A h \in Handlers : req[h].login \in 0..created
    /\ \A s, t \in sessions : s.id = t.id => s = t

(* The requests that may leave their login with another session, and the    *)
(* rows such a login may have meanwhile.                                    *)
Works(h, l) ==
    /\ req[h].pc \in {"insert", "refresh", "mark", "undo", "count", "drop"}
    /\ req[h].login = l
Accounts(h, id) ==
    \/ req[h].pc = "refresh" /\ id = req[h].old
    \/ req[h].pc = "insert" /\ req[h].kind # "plain" /\ id = req[h].old
    \/ req[h].pc \in {"mark", "undo", "count", "drop"} /\ id = req[h].new
    \/ req[h].pc \in {"count", "drop"} /\ id = req[h].old

(* A refresh ends in a plain session, and only a new login is put on hold.  *)
KindsFit ==
    \A h \in Handlers :
       /\ req[h].pc = "refresh" => req[h].kind = "plain"
       /\ req[h].pc = "insert" /\ req[h].kind = "pending" => req[h].login = NoLogin
       /\ req[h].pc = "insert" => req[h].kind \in LoginKinds

OneWorker ==
    \A h, d \in Handlers, l \in Nat :
       (l \notin forked \cup {NoLogin} /\ Works(h, l) /\ Works(d, l)) => h = d
Accounted ==
    \A s \in sessions, h \in Handlers :
       (s.login \notin forked /\ Works(h, s.login)) => Accounts(h, s.id)
Single ==
    \A s, t \in sessions :
       (s.login = t.login /\ s.login \notin forked /\ \A h \in Handlers : ~Works(h, s.login)) => s = t

LoginInv == SessionsShape /\ Numbered /\ KindsFit /\ OneWorker /\ Accounted /\ Single
-----------------------------------------------------------------------------
(* What a step does to the requests other than h: nothing.                  *)
OnlyReq(h) == /\ DOMAIN req' = Handlers /\ req' = [d \in Handlers |-> req'[d]]
              /\ \A d \in Handlers \ {h} : req'[d] = req[d]

(* The fields of a request that is written out.                             *)
LEMMA ReqFields ==
    ASSUME NEW pc, NEW kind, NEW login, NEW from, NEW late, NEW old, NEW new,
           NEW v, v = Req(pc, kind, login, from, late, old, new)
    PROVE  /\ IsReq(v) /\ v.pc = pc /\ v.kind = kind /\ v.login = login /\ v.from = from
           /\ v.late = late /\ v.old = old /\ v.new = new
  BY DEF Req, IsReq

(* The fields of a row of user_sessions that is written out.                *)
LEMMA RowFields ==
    ASSUME NEW id, NEW pending, NEW held, NEW login, NEW from, NEW late,
           NEW v, v = Row(id, pending, held, login, from, late)
    PROVE  /\ IsRow(v) /\ v.id = id /\ v.held = held /\ v.login = login /\ v.from = from
           /\ v.late = late
  BY DEF Row, IsRow

(* A slot without a request is a record of the same fields.                 *)
LEMMA IdleReq == \E x : NoReq = Req("idle", "plain", NoLogin, 0, x, NoLogin, NoLogin)
  BY Zenon DEF NoReq, Req

(* What a handler writes about its own request leaves the others alone.     *)
LEMMA ReqReplaced ==
    ASSUME SessionsShape, NEW h \in Handlers, NEW v, req' = [req EXCEPT ![h] = v]
    PROVE  OnlyReq(h) /\ req'[h] = v
  BY DEF SessionsShape, OnlyReq

(* What the end of a handler makes of its request.                          *)
LEMMA ReqEnds ==
    ASSUME SessionsShape, NEW h \in Handlers, Finish(h)
    PROVE  /\ OnlyReq(h) /\ IsReq(req'[h]) /\ req'[h].pc = "idle" /\ req'[h].login = NoLogin
           /\ req'[h].from = 0
  <1>1. PICK x : NoReq = Req("idle", "plain", NoLogin, 0, x, NoLogin, NoLogin)
    BY IdleReq
  <1>2. OnlyReq(h) /\ req'[h] = NoReq
    BY ReqReplaced DEF Finish
  <1>. QED  BY <1>1, <1>2, ReqFields

(* A handler that goes on to its next statement keeps what it has read.     *)
LEMMA ReqMoves ==
    ASSUME SessionsShape, NEW h \in Handlers, NEW pc, Goto(h, pc)
    PROVE  /\ OnlyReq(h) /\ IsReq(req'[h]) /\ req'[h].pc = pc /\ req'[h].kind = req[h].kind
           /\ req'[h].login = req[h].login /\ req'[h].from = req[h].from
           /\ req'[h].late = req[h].late /\ req'[h].old = req[h].old /\ req'[h].new = req[h].new
  <1>. DEFINE v == [req[h] EXCEPT !.pc = pc]
  <1>1. v = Req(pc, req[h].kind, req[h].login, req[h].from, req[h].late, req[h].old, req[h].new)
    <2>1. IsReq(req[h])
      BY DEF SessionsShape
    <2>. QED  BY <2>1 DEF IsReq, Req
  <1>2. req' = [req EXCEPT ![h] = v]
    BY DEF Goto
  <1>. HIDE DEF v
  <1>9. OnlyReq(h) /\ req'[h] = v
    BY <1>2, ReqReplaced
  <1>. QED  BY <1>9, <1>1, ReqFields

(* What the password check of a login leaves for its INSERT.                *)
LEMMA LoginDoes ==
    ASSUME SessionsShape, NEW h \in Handlers, NEW kind, Login(h, kind)
    PROVE  /\ OnlyReq(h) /\ IsReq(req'[h]) /\ req'[h].pc = "insert" /\ req'[h].kind = kind
           /\ req'[h].login = NoLogin /\ req'[h].from = password
  <1>. DEFINE a == [NoReq EXCEPT !.pc = "insert"]
              b == [a EXCEPT !.kind = kind]
              v == [b EXCEPT !.from = password]
  <1>1. req' = [req EXCEPT ![h] = v]
    BY DEF Login
  <1>2. PICK x : NoReq = Req("idle", "plain", NoLogin, 0, x, NoLogin, NoLogin)
    BY IdleReq
  <1>3. a = Req("insert", "plain", NoLogin, 0, x, NoLogin, NoLogin)
    BY <1>2 DEF Req
  <1>. HIDE DEF a
  <1>4. b = Req("insert", kind, NoLogin, 0, x, NoLogin, NoLogin)
    BY <1>3 DEF Req
  <1>. HIDE DEF b
  <1>5. v = Req("insert", kind, NoLogin, password, x, NoLogin, NoLogin)
    BY <1>4 DEF Req
  <1>. HIDE DEF v
  <1>9. OnlyReq(h) /\ req'[h] = v
    BY <1>1, ReqReplaced
  <1>. QED  BY <1>9, <1>5, ReqFields

(* What loading the pending session of a second factor leaves for the       *)
(* INSERT.                                                                  *)
LEMMA LoadDoes ==
    ASSUME SessionsShape, NEW h \in Handlers, NEW s, NEW kind, LoadPending(h, s, kind)
    PROVE  /\ OnlyReq(h) /\ IsReq(req'[h]) /\ req'[h].pc = "insert" /\ req'[h].kind = kind
           /\ req'[h].login = s.login /\ req'[h].from = s.from /\ req'[h].late = s.late
           /\ req'[h].old = s.id
  <1>. DEFINE a == [NoReq EXCEPT !.pc = "insert"]
              b == [a EXCEPT !.kind = kind]
              c == [b EXCEPT !.login = s.login]
              d == [c EXCEPT !.from = s.from]
              e == [d EXCEPT !.late = s.late]
              v == [e EXCEPT !.old = s.id]
  <1>1. req' = [req EXCEPT ![h] = v]
    BY DEF LoadPending
  <1>2. PICK x : NoReq = Req("idle", "plain", NoLogin, 0, x, NoLogin, NoLogin)
    BY IdleReq
  <1>3. a = Req("insert", "plain", NoLogin, 0, x, NoLogin, NoLogin)
    BY <1>2 DEF Req
  <1>. HIDE DEF a
  <1>4. b = Req("insert", kind, NoLogin, 0, x, NoLogin, NoLogin)
    BY <1>3 DEF Req
  <1>. HIDE DEF b
  <1>5. c = Req("insert", kind, s.login, 0, x, NoLogin, NoLogin)
    BY <1>4 DEF Req
  <1>. HIDE DEF c
  <1>6. d = Req("insert", kind, s.login, s.from, x, NoLogin, NoLogin)
    BY <1>5 DEF Req
  <1>. HIDE DEF d
  <1>7. e = Req("insert", kind, s.login, s.from, s.late, NoLogin, NoLogin)
    BY <1>6 DEF Req
  <1>. HIDE DEF e
  <1>8. v = Req("insert", kind, s.login, s.from, s.late, s.id, NoLogin)
    BY <1>7 DEF Req
  <1>. HIDE DEF v
  <1>9. OnlyReq(h) /\ req'[h] = v
    BY <1>1, ReqReplaced
  <1>. QED  BY <1>9, <1>8, ReqFields

(* What loading the session leaves for the refresh.                         *)
LEMMA AuthenticateDoes ==
    ASSUME SessionsShape, NEW h \in Handlers, NEW s, NEW target,
           NEW op \in {"logout", "revoke", "revokeAll", "refresh", "change"},
           Authenticate(h, s, op, target)
    PROVE  /\ OnlyReq(h) /\ IsReq(req'[h]) /\ req'[h].pc = op /\ req'[h].kind = "plain"
           /\ req'[h].login \in {NoLogin, target.login}
           /\ op = "refresh" => /\ req'[h].login = s.login /\ req'[h].from = s.from
                                /\ req'[h].late = s.late /\ req'[h].old = s.id
           /\ op # "refresh" => req'[h].from = 0
  <1>2. PICK x : NoReq = Req("idle", "plain", NoLogin, 0, x, NoLogin, NoLogin)
    BY IdleReq
  <1>3. CASE op = "refresh"
    <2>. DEFINE a == [NoReq EXCEPT !.from = s.from]
                b == [a EXCEPT !.late = s.late]
                c == [b EXCEPT !.pc = op]
                d == [c EXCEPT !.old = target.id]
                v == [d EXCEPT !.login = target.login]
    <2>1. req' = [req EXCEPT ![h] = v]
      BY <1>3 DEF Authenticate
    <2>2. target = s
      BY <1>3 DEF Authenticate
    <2>3. a = Req("idle", "plain", NoLogin, s.from, x, NoLogin, NoLogin)
      BY <1>2 DEF Req
    <2>. HIDE DEF a
    <2>4. b = Req("idle", "plain", NoLogin, s.from, s.late, NoLogin, NoLogin)
      BY <2>3 DEF Req
    <2>. HIDE DEF b
    <2>5. c = Req(op, "plain", NoLogin, s.from, s.late, NoLogin, NoLogin)
      BY <2>4 DEF Req
    <2>. HIDE DEF c
    <2>6. d = Req(op, "plain", NoLogin, s.from, s.late, target.id, NoLogin)
      BY <2>5 DEF Req
    <2>. HIDE DEF d
    <2>7. v = Req(op, "plain", target.login, s.from, s.late, target.id, NoLogin)
      BY <2>6 DEF Req
    <2>. HIDE DEF v
    <2>8. OnlyReq(h) /\ req'[h] = v
      BY <2>1, ReqReplaced
    <2>. QED  BY <2>8, <2>7, <1>3, <2>2, ReqFields
  <1>4. CASE op \in {"logout", "revoke"}
    <2>. DEFINE c == [NoReq EXCEPT !.pc = op]
                d == [c EXCEPT !.old = target.id]
                v == [d EXCEPT !.login = target.login]
    <2>1. req' = [req EXCEPT ![h] = v]
      BY <1>4 DEF Authenticate
    <2>5. c = Req(op, "plain", NoLogin, 0, x, NoLogin, NoLogin)
      BY <1>2 DEF Req
    <2>. HIDE DEF c
    <2>6. d = Req(op, "plain", NoLogin, 0, x, target.id, NoLogin)
      BY <2>5 DEF Req
    <2>. HIDE DEF d
    <2>7. v = Req(op, "plain", target.login, 0, x, target.id, NoLogin)
      BY <2>6 DEF Req
    <2>. HIDE DEF v
    <2>8. OnlyReq(h) /\ req'[h] = v
      BY <2>1, ReqReplaced
    <2>. QED  BY <2>8, <2>7, <1>4, ReqFields
  <1>5. CASE op \in {"revokeAll", "change"}
    <2>. DEFINE v == [NoReq EXCEPT !.pc = op]
    <2>1. req' = [req EXCEPT ![h] = v]
      BY <1>5 DEF Authenticate
    <2>2. v = Req(op, "plain", NoLogin, 0, x, NoLogin, NoLogin)
      BY <1>2 DEF Req
    <2>. HIDE DEF v
    <2>8. OnlyReq(h) /\ req'[h] = v
      BY <2>1, ReqReplaced
    <2>. QED  BY <2>8, <2>2, <1>5, ReqFields
  <1>. QED  BY <1>3, <1>4, <1>5

(* What reading the reset token leaves for the UPDATE of the password.      *)
LEMMA SelectResetDoes ==
    ASSUME SessionsShape, NEW h \in Handlers, NEW r, SelectReset(h, r)
    PROVE  /\ OnlyReq(h) /\ IsReq(req'[h]) /\ req'[h].pc = "reset" /\ req'[h].login = NoLogin
           /\ req'[h].from = 0
  <1>. DEFINE a == [NoReq EXCEPT !.pc = "reset"]
              v == [a EXCEPT !.old = r]
  <1>1. req' = [req EXCEPT ![h] = v]
    BY DEF SelectReset
  <1>2. PICK x : NoReq = Req("idle", "plain", NoLogin, 0, x, NoLogin, NoLogin)
    BY IdleReq
  <1>3. a = Req("reset", "plain", NoLogin, 0, x, NoLogin, NoLogin)
    BY <1>2 DEF Req
  <1>. HIDE DEF a
  <1>4. v = Req("reset", "plain", NoLogin, 0, x, r, NoLogin)
    BY <1>3 DEF Req
  <1>. HIDE DEF v
  <1>9. OnlyReq(h) /\ req'[h] = v
    BY <1>1, ReqReplaced
  <1>. QED  BY <1>9, <1>4, ReqFields

(* The UPDATE of the password leaves the other requests alone.              *)
LEMMA ResetDoes ==
    ASSUME SessionsShape, NEW h \in Handlers,
           req' = [req EXCEPT ![h].pc = "dropReset", ![h].from = password + 1]
    PROVE  /\ OnlyReq(h) /\ IsReq(req'[h]) /\ req'[h].pc = "dropReset"
           /\ req'[h].login = req[h].login /\ req'[h].from = password + 1
  <1>. DEFINE a == [req[h] EXCEPT !.pc = "dropReset"]
              v == [a EXCEPT !.from = password + 1]
  <1>1. req = [d \in Handlers |-> req[d]] /\ IsReq(req[h])
    BY DEF SessionsShape
  <1>2. req' = [[req EXCEPT ![h] = a] EXCEPT ![h] = v]
    BY <1>1
  <1>3. a = Req("dropReset", req[h].kind, req[h].login, req[h].from, req[h].late, req[h].old, req[h].new)
    BY <1>1 DEF IsReq, Req
  <1>. HIDE DEF a
  <1>4. v = Req("dropReset", req[h].kind, req[h].login, password + 1, req[h].late, req[h].old, req[h].new)
    BY <1>3 DEF Req
  <1>. HIDE DEF v
  <1>5. OnlyReq(h) /\ req'[h] = v
    BY <1>1, <1>2 DEF OnlyReq
  <1>. QED  BY <1>4, <1>5, ReqFields

(* Marking a request or a row as late changes no other field.               *)
LEMMA LateSet ==
    ASSUME NEW r, IsReq(r), NEW y
    PROVE  [r EXCEPT !.late = y] = Req(r.pc, r.kind, r.login, r.from, y, r.old, r.new)
  BY DEF IsReq, Req

(* The requests that DELETE of all sessions makes late, but for their mark. *)
SameReq(d) == /\ IsReq(req'[d]) /\ req'[d].pc = req[d].pc /\ req'[d].kind = req[d].kind
              /\ req'[d].login = req[d].login /\ req'[d].from = req[d].from
              /\ req'[d].old = req[d].old /\ req'[d].new = req[d].new

(* What the DELETE that completes a reset makes of the requests that read a *)
(* session or a password before it.                                         *)
LEMMA LateDoes ==
    ASSUME SessionsShape, NEW h \in Handlers, req' = [Late(h) EXCEPT ![h] = NoReq]
    PROVE  /\ DOMAIN req' = Handlers /\ req' = [d \in Handlers |-> req'[d]]
           /\ IsReq(req'[h]) /\ req'[h].pc = "idle" /\ req'[h].login = NoLogin /\ req'[h].from = 0
           /\ \A d \in Handlers \ {h} : SameReq(d) /\ (req[d].pc # "idle" => IsLate(req'[d]))
  <1>1. /\ DOMAIN req' = Handlers /\ req' = [d \in Handlers |-> req'[d]]
        /\ req'[h] = NoReq
        /\ \A d \in Handlers \ {h} : req'[d] = Late(h)[d]
    BY DEF Late
  <1>2. PICK x : NoReq = Req("idle", "plain", NoLogin, 0, x, NoLogin, NoLogin)
    BY IdleReq
  <1>3. IsReq(req'[h]) /\ req'[h].pc = "idle" /\ req'[h].login = NoLogin /\ req'[h].from = 0
    BY <1>1, <1>2, ReqFields
  <1>4. ASSUME NEW d \in Handlers \ {h}
        PROVE  SameReq(d) /\ (req[d].pc # "idle" => IsLate(req'[d]))
    <2>1. IsReq(req[d])
      BY DEF SessionsShape
    <2>2. CASE req[d].pc = "idle"
      <3>1. req'[d] = req[d]
        BY <1>1, <2>2 DEF Late, Others, InFlight, Doing
      <3>. QED  BY <2>1, <2>2, <3>1 DEF SameReq
    <2>3. CASE req[d].pc # "idle"
      <3>1. req'[d] = [req[d] EXCEPT !.late = TRUE]
        BY <1>1, <2>3, Zenon DEF Late, Others, InFlight, Doing
      <3>2. PICK y : y = TRUE /\ req'[d] = [req[d] EXCEPT !.late = y]
        BY <3>1, Zenon
      <3>3. req'[d] = Req(req[d].pc, req[d].kind, req[d].login, req[d].from, y, req[d].old, req[d].new)
        BY <2>1, <3>2, LateSet, Zenon
      <3>4. SameReq(d) /\ req'[d].late = y
        BY <3>3, ReqFields DEF SameReq
      <3>5. IsLate(req'[d])
        BY <3>2, <3>4, Zenon DEF IsLate
      <3>. QED  BY <3>4, <3>5
    <2>. QED  BY <2>2, <2>3
  <1>. QED  BY <1>1, <1>3, <1>4

(* What the INSERT of CreateSession makes of the table and of its request.  *)
LEMMA CreateDoes ==
    ASSUME SessionsShape, NEW h \in Handlers, CreateSession(h), req[h].kind \in LoginKinds
    PROVE  \E l, row :
              /\ l = IF req[h].login = NoLogin THEN created + 1 ELSE req[h].login
              /\ sessions' = sessions \cup {row}
              /\ IsRow(row) /\ row.id = created + 1 /\ row.login = l /\ row.from = req[h].from
              /\ IsLate(row) <=> IsLate(req[h])
              /\ OnlyReq(h) /\ IsReq(req'[h])
              /\ req[h].kind = "plain" => req'[h].pc = "idle" /\ req'[h].login = NoLogin
                                          /\ req'[h].from = 0
              /\ req[h].kind # "plain" =>
                    /\ req'[h].pc = IF req[h].kind = "pending" THEN "mark"
                                    ELSE IF req[h].kind = "code" THEN "drop" ELSE "count"
                    /\ req'[h].login = l /\ req'[h].new = created + 1
                    /\ req'[h].old = req[h].old /\ req'[h].from = req[h].from
  <1>. DEFINE l == IF req[h].login = NoLogin THEN created + 1 ELSE req[h].login
  <1>1. PICK x, y : sessions' = sessions \cup {Row(created + 1, x, y, l, req[h].from, req[h].late)}
    BY Zenon DEF CreateSession, Row
  <1>. DEFINE row == Row(created + 1, x, y, l, req[h].from, req[h].late)
  <1>2. /\ IsRow(row) /\ row.id = created + 1 /\ row.login = l /\ row.from = req[h].from
        /\ row.late = req[h].late
    BY DEF Row, IsRow
  <1>3. IsLate(row) <=> IsLate(req[h])
    BY <1>2, Zenon DEF IsLate
  <1>4. PICK z : NoReq = Req("idle", "plain", NoLogin, 0, z, NoLogin, NoLogin)
    BY IdleReq
  <1>5. NoReq.pc = "idle" /\ IsReq(NoReq) /\ NoReq.login = NoLogin /\ NoReq.from = 0
    BY <1>4, ReqFields
  <1>. HIDE DEF row
  <1>6. CASE req[h].kind = "plain"
    <2>1. req' = [req EXCEPT ![h] = NoReq]
      BY <1>6 DEF CreateSession
    <2>2. OnlyReq(h) /\ req'[h] = NoReq
      BY <2>1, ReqReplaced
    <2>. QED  BY <1>1, <1>2, <1>3, <1>5, <1>6, <2>2 DEF row
  <1>7. ASSUME NEW pc \in {"mark", "drop", "count"},
               req' = [req EXCEPT ![h] = IF [req[h] EXCEPT !.pc = pc] = NoReq THEN NoReq
                                         ELSE [[req[h] EXCEPT !.pc = pc] EXCEPT !.login = l, !.new = created + 1]]
        PROVE  /\ OnlyReq(h) /\ IsReq(req'[h]) /\ req'[h].pc = pc
               /\ req'[h].login = l /\ req'[h].new = created + 1
               /\ req'[h].old = req[h].old /\ req'[h].from = req[h].from
    <2>. DEFINE a == [req[h] EXCEPT !.pc = pc]
                b == [a EXCEPT !.login = l]
                v == [b EXCEPT !.new = created + 1]
    <2>1. req' = [req EXCEPT ![h] = IF a = NoReq THEN NoReq ELSE v]
      BY <1>7
    <2>2. a = Req(pc, req[h].kind, req[h].login, req[h].from, req[h].late, req[h].old, req[h].new)
      <3>1. IsReq(req[h])
        BY DEF SessionsShape
      <3>. QED  BY <3>1 DEF IsReq, Req
    <2>. HIDE DEF a
    <2>3. a.pc = pc
      BY <2>2, ReqFields
    <2>4. a # NoReq
      BY <2>3, <1>5, <1>7
    <2>5. b = Req(pc, req[h].kind, l, req[h].from, req[h].late, req[h].old, req[h].new)
      BY <2>2 DEF Req
    <2>. HIDE DEF b
    <2>6. v = Req(pc, req[h].kind, l, req[h].from, req[h].late, req[h].old, created + 1)
      BY <2>5 DEF Req
    <2>. HIDE DEF v
    <2>7. OnlyReq(h) /\ req'[h] = v
      BY <2>1, <2>4, ReqReplaced
    <2>. HIDE DEF l
    <2>. QED  BY <2>6, <2>7, ReqFields
  <1>8. CASE req[h].kind = "pending"
    <2>1. req' = [req EXCEPT ![h] = IF [req[h] EXCEPT !.pc = "mark"] = NoReq THEN NoReq
                     ELSE [[req[h] EXCEPT !.pc = "mark"] EXCEPT !.login = l, !.new = created + 1]]
      BY <1>8 DEF CreateSession
    <2>. QED  BY <1>1, <1>2, <1>3, <1>7, <1>8, <2>1 DEF row
  <1>9. CASE req[h].kind = "code"
    <2>1. req' = [req EXCEPT ![h] = IF [req[h] EXCEPT !.pc = "drop"] = NoReq THEN NoReq
                     ELSE [[req[h] EXCEPT !.pc = "drop"] EXCEPT !.login = l, !.new = created + 1]]
      BY <1>9 DEF CreateSession
    <2>. QED  BY <1>1, <1>2, <1>3, <1>7, <1>9, <2>1 DEF row
  <1>10. CASE req[h].kind = "key"
    <2>1. req' = [req EXCEPT ![h] = IF [req[h] EXCEPT !.pc = "count"] = NoReq THEN NoReq
                     ELSE [[req[h] EXCEPT !.pc = "count"] EXCEPT !.login = l, !.new = created + 1]]
      BY <1>10 DEF CreateSession
    <2>. QED  BY <1>1, <1>2, <1>3, <1>7, <1>10, <2>1 DEF row
  <1>. QED  BY <1>6, <1>8, <1>9, <1>10 DEF LoginKinds

(* Deleting rows and handing tokens out leaves the sessions that remain.    *)
Kept == /\ \A t \in sessions' : IsRow(t)
        /\ \A t \in sessions' : \E s \in sessions :
              t.id = s.id /\ t.login = s.login /\ t.from = s.from /\ (IsLate(t) <=> IsLate(s))
UniqueIds == \A s, t \in sessions : s.id = t.id => s = t

(* Deleting rows keeps the others.                                          *)
LEMMA Removed ==
    ASSUME SessionsShape, sessions' \subseteq sessions
    PROVE  Kept /\ (UniqueIds => UniqueIds')
  BY DEF SessionsShape, Kept, UniqueIds

(* Rewriting one row, as long as its id, login and origin stay, keeps every *)
(* row.                                                                     *)
LEMMA Remade ==
    ASSUME SessionsShape, NEW n, NEW f,
           \A s \in sessions : /\ IsRow(f[s]) /\ f[s].id = s.id /\ f[s].login = s.login
                               /\ f[s].from = s.from /\ (IsLate(f[s]) <=> IsLate(s)),
           sessions' \subseteq {IF s.id = n THEN f[s] ELSE s : s \in sessions}
    PROVE  Kept /\ (UniqueIds => UniqueIds')
  <1>1. Kept
    BY DEF SessionsShape, Kept
  <1>2. ASSUME UniqueIds, NEW t \in sessions', NEW u \in sessions', t.id = u.id PROVE t = u
    <2>1. PICK s \in sessions : t = IF s.id = n THEN f[s] ELSE s
      OBVIOUS
    <2>2. PICK r \in sessions : u = IF r.id = n THEN f[r] ELSE r
      OBVIOUS
    <2>3. s.id = r.id
      BY <1>2, <2>1, <2>2
    <2>. QED  BY <1>2, <2>1, <2>2, <2>3 DEF UniqueIds
  <1>. QED  BY <1>1, <1>2 DEF UniqueIds

(* Handing a token out changes one field of its row.                        *)
LEMMA HeldSet ==
    ASSUME NEW s, IsRow(s), NEW x
    PROVE  [s EXCEPT !.held = x] = Row(s.id, s.pending, x, s.login, s.from, s.late)
  BY DEF IsRow, Row

(* Putting a session on hold for the second factor changes one field of its *)
(* row.                                                                     *)
LEMMA PendingSet ==
    ASSUME NEW s, IsRow(s), NEW x
    PROVE  [s EXCEPT !.pending = x] = Row(s.id, x, s.held, s.login, s.from, s.late)
  BY DEF IsRow, Row

(* A row rewritten in these two fields only is as late as before.           *)
LEMMA RowKept ==
    ASSUME NEW s, NEW t, NEW x, NEW y, t = Row(s.id, x, y, s.login, s.from, s.late)
    PROVE  /\ IsRow(t) /\ t.id = s.id /\ t.login = s.login /\ t.from = s.from
           /\ (IsLate(t) <=> IsLate(s))
  <1>1. IsRow(t) /\ t.id = s.id /\ t.login = s.login /\ t.from = s.from /\ t.late = s.late
    BY RowFields
  <1>. QED  BY <1>1, Zenon DEF IsLate

(* Setting the cookie keeps every row.                                      *)
LEMMA HandedOutKept ==
    ASSUME SessionsShape, NEW n, sessions' \subseteq HandedOut(n)
    PROVE  Kept /\ (UniqueIds => UniqueIds')
  <1>. DEFINE f(s) == [s EXCEPT !.held = TRUE]
  <1>1. ASSUME NEW s \in sessions
        PROVE  /\ IsRow(f(s)) /\ f(s).id = s.id /\ f(s).login = s.login
               /\ f(s).from = s.from /\ (IsLate(f(s)) <=> IsLate(s))
    <2>1. PICK x : f(s) = [s EXCEPT !.held = x]
      BY Zenon
    <2>2. IsRow(s)
      BY DEF SessionsShape
    <2>. HIDE DEF f
    <2>3. f(s) = Row(s.id, s.pending, x, s.login, s.from, s.late)
      BY <2>1, <2>2, HeldSet, Zenon
    <2>. QED  BY <2>3, RowKept
  <1>2. sessions' \subseteq {IF s.id = n THEN f(s) ELSE s : s \in sessions}
    BY Zenon DEF HandedOut
  <1>. HIDE DEF f
  <1>3. PICK g : g = [s \in sessions |-> f(s)]
    OBVIOUS
  <1>4. sessions' \subseteq {IF s.id = n THEN g[s] ELSE s : s \in sessions}
    BY <1>2, <1>3
  <1>. QED  BY <1>1, <1>3, <1>4, Remade

(* What the UPDATE of createPendingTwoFactorSession makes of the rows.      *)
Marked(n) ==
    {IF s.id = n THEN [s EXCEPT !.pending = TRUE, !.held = TRUE] ELSE s : s \in sessions}

(* The UPDATE of createPendingTwoFactorSession keeps every row.             *)
LEMMA MarkedKept ==
    ASSUME SessionsShape, NEW n, sessions' = Marked(n)
    PROVE  Kept /\ (UniqueIds => UniqueIds')
  <1>. DEFINE f(s) == [s EXCEPT !.pending = TRUE, !.held = TRUE]
  <1>1. ASSUME NEW s \in sessions
        PROVE  /\ IsRow(f(s)) /\ f(s).id = s.id /\ f(s).login = s.login
               /\ f(s).from = s.from /\ (IsLate(f(s)) <=> IsLate(s))
    <2>1. PICK x : f(s) = [[s EXCEPT !.pending = x] EXCEPT !.held = x]
      BY Zenon
    <2>2. IsRow(s)
      BY DEF SessionsShape
    <2>. HIDE DEF f
    <2>. DEFINE r == [s EXCEPT !.pending = x]
    <2>3. r = Row(s.id, x, s.held, s.login, s.from, s.late)
      BY <2>2, PendingSet, Zenon
    <2>4. f(s) = [r EXCEPT !.held = x]
      BY <2>1, Zenon
    <2>. HIDE DEF r
    <2>5. f(s) = Row(s.id, x, x, s.login, s.from, s.late)
      <3>1. IsRow(r) /\ r.id = s.id /\ r.pending = x /\ r.login = s.login /\ r.from = s.from /\ r.late = s.late
        BY <2>3 DEF Row, IsRow
      <3>2. f(s) = Row(r.id, r.pending, x, r.login, r.from, r.late)
        BY <2>4, <3>1, HeldSet, Zenon
      <3>. QED  BY <3>1, <3>2, Zenon
    <2>. QED  BY <2>5, RowKept
  <1>2. sessions' \subseteq {IF s.id = n THEN f(s) ELSE s : s \in sessions}
    BY Zenon DEF Marked
  <1>. HIDE DEF f
  <1>3. PICK g : g = [s \in sessions |-> f(s)]
    OBVIOUS
  <1>4. sessions' \subseteq {IF s.id = n THEN g[s] ELSE s : s \in sessions}
    BY <1>2, <1>3
  <1>. QED  BY <1>1, <1>3, <1>4, Remade

-----------------------------------------------------------------------------
(* The invariant holds with no session and no request.                      *)
LEMMA ResetStart == SessionsInit => ResetInv /\ LoginInv
  <1>. SUFFICES ASSUME SessionsInit PROVE ResetInv /\ LoginInv
    OBVIOUS
  <1>1. PICK z : NoReq = Req("idle", "plain", NoLogin, 0, z, NoLogin, NoLogin)
    BY IdleReq
  <1>2. NoReq.pc = "idle" /\ IsReq(NoReq) /\ NoReq.login = NoLogin /\ NoReq.from = 0
    BY <1>1, ReqFields
  <1>3. SessionsShape
    BY <1>2 DEF SessionsInit, SessionsShape
  <1>4. Passwords /\ LateIsMarked
    BY <1>2 DEF SessionsInit, Passwords, LateIsMarked
  <1>5. Numbered
    BY <1>2 DEF SessionsInit, Numbered, NoLogin
  <1>6. KindsFit /\ OneWorker /\ Accounted /\ Single
    BY <1>2 DEF SessionsInit, KindsFit, OneWorker, Accounted, Single, Works
  <1>. QED  BY <1>3, <1>4, <1>5, <1>6 DEF ResetInv, LoginInv

(* A step of one request that keeps or deletes rows and leaves the last     *)
(* reset alone.                                                             *)
LEMMA ResetOne ==
    ASSUME ResetInv, Kept, NEW h \in Handlers, OnlyReq(h), IsReq(req'[h]),
           password' \in Nat, password <= password', since' = since,
           req'[h].from \in Nat, req'[h].from <= password',
           (req'[h].pc \in {"insert", "refresh"} /\ req'[h].from < since) => IsLate(req'[h])
    PROVE  ResetInv'
  <1>1. SessionsShape'
    BY DEF ResetInv, SessionsShape, Kept, OnlyReq
  <1>2. Passwords'
    <2>1. \A s \in sessions' : s.from \in Nat /\ s.from <= password'
      BY DEF ResetInv, Passwords, Kept
    <2>2. \A d \in Handlers : req'[d].from \in Nat /\ req'[d].from <= password'
      BY DEF ResetInv, Passwords, OnlyReq
    <2>. QED  BY <2>1, <2>2 DEF ResetInv, Passwords
  <1>3. LateIsMarked'
    <2>1. \A s \in sessions' : s.from < since => IsLate(s)
      BY DEF ResetInv, LateIsMarked, Kept
    <2>2. ASSUME NEW d \in Handlers, req'[d].pc \in {"insert", "refresh"}, req'[d].from < since
          PROVE  IsLate(req'[d])
      BY <2>2 DEF ResetInv, LateIsMarked, OnlyReq
    <2>. QED  BY <2>1, <2>2 DEF LateIsMarked, IsLate
  <1>. QED  BY <1>1, <1>2, <1>3 DEF ResetInv

(* The end of a handler keeps the part of the invariant that is about       *)
(* resets.                                                                  *)
LEMMA ResetEnded ==
    ASSUME ResetInv, Kept, NEW h \in Handlers, Finish(h),
           password' \in {password, password + 1}, since' = since
    PROVE  ResetInv'
  <1>1. /\ OnlyReq(h) /\ IsReq(req'[h]) /\ req'[h].pc = "idle" /\ req'[h].from = 0
    BY ReqEnds DEF ResetInv
  <1>2. password' \in Nat /\ password <= password'
    BY DEF ResetInv, Passwords
  <1>. QED  BY <1>1, <1>2, ResetOne

(* So does going on to the next statement.                                  *)
LEMMA ResetMoved ==
    ASSUME ResetInv, Kept, NEW h \in Handlers, NEW pc, Goto(h, pc),
           pc = "insert" => req[h].pc = "refresh", pc # "refresh", UNCHANGED <<password, since>>
    PROVE  ResetInv'
  <1>1. /\ OnlyReq(h) /\ IsReq(req'[h]) /\ req'[h].pc = pc /\ req'[h].from = req[h].from
        /\ req'[h].late = req[h].late
    BY ReqMoves DEF ResetInv
  <1>2. IsLate(req'[h]) <=> IsLate(req[h])
    BY <1>1, Zenon DEF IsLate
  <1>3. password' \in Nat /\ password <= password' /\ req[h].from \in Nat /\ req[h].from <= password'
    BY DEF ResetInv, Passwords
  <1>4. (req'[h].pc \in {"insert", "refresh"} /\ req'[h].from < since) => IsLate(req'[h])
    BY <1>1, <1>2 DEF ResetInv, LateIsMarked
  <1>. QED  BY <1>1, <1>3, <1>4, ResetOne

(* Every statement of a login, a refresh, a second factor, a logout and a   *)
(* reset keeps it.                                                          *)
LEMMA ResetStep ==
    ASSUME ResetInv, \A h \in Handlers : req[h].pc = "insert" => req[h].kind \in LoginKinds,
           [SessionsNext]_sessionsVars
    PROVE  ResetInv'
  <1>0. SessionsShape /\ password \in Nat /\ since \in Nat /\ since <= password
    BY DEF ResetInv, Passwords
  <1>1. ASSUME NEW h \in Handlers, NEW kind, Login(h, kind)  PROVE ResetInv'
    <2>1. UNCHANGED <<password, sessions, since>>
      BY <1>1 DEF Login, history
    <2>2. Kept
      BY <1>0, <2>1, Removed
    <2>3. /\ OnlyReq(h) /\ IsReq(req'[h]) /\ req'[h].from = password
      BY <1>0, <1>1, LoginDoes
    <2>. QED  BY <1>0, <2>1, <2>2, <2>3, ResetOne
  <1>2. ASSUME NEW h \in Handlers, NEW s \in sessions, NEW kind, LoadPending(h, s, kind)  PROVE ResetInv'
    <2>1. UNCHANGED <<password, sessions, since>>
      BY <1>2 DEF LoadPending
    <2>2. Kept
      BY <1>0, <2>1, Removed
    <2>3. OnlyReq(h) /\ IsReq(req'[h]) /\ req'[h].from = s.from /\ req'[h].late = s.late
      BY <1>0, <1>2, LoadDoes
    <2>4. IsLate(req'[h]) <=> IsLate(s)
      BY <2>3, Zenon DEF IsLate
    <2>5. s.from \in Nat /\ s.from <= password /\ (s.from < since => IsLate(s))
      BY DEF ResetInv, Passwords, LateIsMarked
    <2>. QED  BY <1>0, <2>1, <2>2, <2>3, <2>4, <2>5, ResetOne
  <1>3. ASSUME NEW h \in Handlers, CreateSession(h)  PROVE ResetInv'
    <2>1. req[h].pc = "insert" /\ UNCHANGED <<password, since>>
      BY <1>3 DEF CreateSession, Doing, history
    <2>2. PICK l, row :
              /\ sessions' = sessions \cup {row}
              /\ IsRow(row) /\ row.from = req[h].from
              /\ IsLate(row) <=> IsLate(req[h])
              /\ OnlyReq(h) /\ IsReq(req'[h])
              /\ req[h].kind = "plain" => req'[h].pc = "idle" /\ req'[h].from = 0
              /\ req[h].kind # "plain" =>
                    /\ req'[h].pc = IF req[h].kind = "pending" THEN "mark"
                                    ELSE IF req[h].kind = "code" THEN "drop" ELSE "count"
                    /\ req'[h].from = req[h].from
      BY <1>0, <1>3, <2>1, CreateDoes
    <2>3. req[h].from \in Nat /\ req[h].from <= password /\ (req[h].from < since => IsLate(row))
      BY <2>1, <2>2 DEF ResetInv, Passwords, LateIsMarked
    <2>4. req'[h].pc \notin {"insert", "refresh"} /\ req'[h].from \in Nat /\ req'[h].from <= password
      BY <1>0, <2>2, <2>3
    <2>5. SessionsShape'
      BY <2>2 DEF ResetInv, SessionsShape, OnlyReq
    <2>6. Passwords'
      BY <2>1, <2>2, <2>3, <2>4 DEF ResetInv, Passwords, OnlyReq
    <2>7. LateIsMarked'
      <3>1. \A s \in sessions' : s.from < since => IsLate(s)
        BY <2>2, <2>3 DEF ResetInv, LateIsMarked
      <3>2. \A d \in Handlers : (req'[d].pc \in {"insert", "refresh"} /\ req'[d].from < since) => IsLate(req'[d])
        BY <2>2, <2>4 DEF ResetInv, LateIsMarked, OnlyReq
      <3>. QED  BY <2>1, <3>1, <3>2 DEF LateIsMarked, IsLate
    <2>. QED  BY <2>5, <2>6, <2>7 DEF ResetInv
  <1>4. ASSUME NEW h \in Handlers, InsertFails(h)  PROVE ResetInv'
    BY <1>0, <1>4, Removed, ResetEnded DEF InsertFails, history
  <1>5. ASSUME NEW h \in Handlers, UpdateData(h)  PROVE ResetInv'
    <2>1. UNCHANGED <<password, since>>
      BY <1>5, Zenon DEF UpdateData, history
    <2>2. \/ sessions' = Marked(req[h].new) /\ Finish(h)
          \/ Goto(h, "undo") /\ UNCHANGED sessions
      BY <1>5, Zenon DEF UpdateData, Marked
    <2>. QED  BY <1>0, <2>1, <2>2, Removed, MarkedKept, ResetEnded, ResetMoved
  <1>6. ASSUME NEW h \in Handlers, UndoPending(h)  PROVE ResetInv'
    <2>1. UNCHANGED <<password, since>> /\ Finish(h) /\ sessions' \subseteq sessions
      BY <1>6 DEF UndoPending, history, OtherThan
    <2>. QED  BY <1>0, <2>1, Removed, ResetEnded
  <1>7. ASSUME NEW h \in Handlers, CountRemaining(h)  PROVE ResetInv'
    <2>1. UNCHANGED <<password, sessions, since>> /\ (Goto(h, "drop") \/ Finish(h))
      BY <1>7 DEF CountRemaining
    <2>. QED  BY <1>0, <2>1, Removed, ResetEnded, ResetMoved
  <1>8. ASSUME NEW h \in Handlers, DropPending(h)  PROVE ResetInv'
    <2>1. UNCHANGED <<password, since>> /\ Finish(h) /\ sessions' \subseteq HandedOut(req[h].new)
      BY <1>8 DEF DropPending
    <2>. QED  BY <1>0, <2>1, HandedOutKept, ResetEnded
  <1>9. ASSUME NEW h \in Handlers, NEW s \in sessions, NEW target \in sessions,
               NEW op \in {"logout", "revoke", "revokeAll", "refresh", "change"},
               Authenticate(h, s, op, target)
        PROVE  ResetInv'
    <2>1. UNCHANGED <<password, sessions, since>>
      BY <1>9 DEF Authenticate
    <2>2. Kept
      BY <1>0, <2>1, Removed
    <2>3. /\ OnlyReq(h) /\ IsReq(req'[h]) /\ req'[h].pc = op
          /\ op = "refresh" => req'[h].from = s.from /\ req'[h].late = s.late
          /\ op # "refresh" => req'[h].from = 0
      BY <1>0, <1>9, AuthenticateDoes
    <2>4. op = "refresh" => (IsLate(req'[h]) <=> IsLate(s))
      BY <2>3, Zenon DEF IsLate
    <2>5. s.from \in Nat /\ s.from <= password /\ (s.from < since => IsLate(s))
      BY DEF ResetInv, Passwords, LateIsMarked
    <2>. QED  BY <1>0, <2>1, <2>2, <2>3, <2>4, <2>5, ResetOne
  <1>10. ASSUME NEW h \in Handlers, DeleteSession(h) \/ DeleteAllSessionsForUser(h)  PROVE ResetInv'
    <2>1. UNCHANGED <<password, since>> /\ Finish(h) /\ sessions' \subseteq sessions
      BY <1>10 DEF DeleteSession, DeleteAllSessionsForUser, history, OtherThan
    <2>. QED  BY <1>0, <2>1, Removed, ResetEnded
  <1>11. ASSUME NEW h \in Handlers, RefreshCurrentUserSession(h)  PROVE ResetInv'
    <2>1. /\ UNCHANGED <<password, since>> /\ sessions' \subseteq sessions
          /\ req[h].pc = "refresh" /\ (Goto(h, "insert") \/ Finish(h))
      BY <1>11 DEF RefreshCurrentUserSession, history, OtherThan, Doing
    <2>. QED  BY <1>0, <2>1, Removed, ResetEnded, ResetMoved
  <1>12. ASSUME NEW h \in Handlers, ChangePassword(h)  PROVE ResetInv'
    <2>1. /\ UNCHANGED <<sessions, since>> /\ password' \in {password, password + 1} /\ Finish(h)
      BY <1>12 DEF ChangePassword, history
    <2>. QED  BY <1>0, <2>1, Removed, ResetEnded
  <1>13. ASSUME NEW h \in Handlers, NEW r, SelectReset(h, r)  PROVE ResetInv'
    <2>1. UNCHANGED <<password, sessions, since>>
      BY <1>13 DEF SelectReset, history
    <2>2. Kept
      BY <1>0, <2>1, Removed
    <2>3. /\ OnlyReq(h) /\ IsReq(req'[h]) /\ req'[h].pc = "reset" /\ req'[h].from = 0
      BY <1>0, <1>13, SelectResetDoes
    <2>. QED  BY <1>0, <2>1, <2>2, <2>3, ResetOne
  <1>14. ASSUME NEW h \in Handlers, ResetPassword(h)  PROVE ResetInv'
    <2>1. UNCHANGED <<sessions, since>>
      BY <1>14 DEF ResetPassword, history
    <2>2. Kept
      BY <1>0, <2>1, Removed
    <2>3. CASE Finish(h) /\ UNCHANGED password
      BY <1>0, <2>1, <2>2, <2>3, ResetEnded
    <2>4. CASE /\ password' = password + 1
               /\ req' = [req EXCEPT ![h].pc = "dropReset", ![h].from = password + 1]
      <3>1. OnlyReq(h) /\ IsReq(req'[h]) /\ req'[h].pc = "dropReset" /\ req'[h].from = password + 1
        BY <1>0, <2>4, ResetDoes
      <3>2. password' = password + 1
        BY <2>4
      <3>3. /\ password' \in Nat /\ password <= password' /\ req'[h].from \in Nat
            /\ req'[h].from <= password' /\ req'[h].pc \notin {"insert", "refresh"}
        BY <1>0, <3>1, <3>2
      <3>. QED  BY <2>1, <2>2, <3>1, <3>3, ResetOne
    <2>. QED  BY <1>14, <2>3, <2>4 DEF ResetPassword
  <1>15. ASSUME NEW h \in Handlers, DeleteReset(h)  PROVE ResetInv'
    <2>1. UNCHANGED <<password, sessions, since>> /\ Goto(h, "dropSessions")
      BY <1>15 DEF DeleteReset, history
    <2>. QED  BY <1>0, <2>1, Removed, ResetMoved
  <1>16. ASSUME NEW h \in Handlers, DeleteUserSessions(h)  PROVE ResetInv'
    <2>1. UNCHANGED password
      BY <1>16 DEF DeleteUserSessions
    <2>2. CASE Finish(h) /\ UNCHANGED <<sessions, since>>
      BY <1>0, <2>1, <2>2, Removed, ResetEnded
    <2>3. CASE /\ sessions' = {}
               /\ since' = IF req[h].from > since THEN req[h].from ELSE since
               /\ req' = [Late(h) EXCEPT ![h] = NoReq]
      <3>1. /\ DOMAIN req' = Handlers /\ req' = [d \in Handlers |-> req'[d]]
            /\ IsReq(req'[h]) /\ req'[h].pc = "idle" /\ req'[h].from = 0
            /\ \A d \in Handlers \ {h} : SameReq(d) /\ (req[d].pc # "idle" => IsLate(req'[d]))
        BY <1>0, <2>3, LateDoes
      <3>2. sessions' = {} /\ since' \in Nat /\ since' <= password'
        BY <1>0, <2>1, <2>3 DEF ResetInv, Passwords
      <3>3. SessionsShape'
        BY <3>1, <3>2 DEF SessionsShape, SameReq
      <3>4. Passwords'
        BY <1>0, <2>1, <3>1, <3>2 DEF ResetInv, Passwords, SameReq
      <3>5. \A d \in Handlers : req'[d].pc \in {"insert", "refresh"} => IsLate(req'[d])
        BY <3>1 DEF SameReq
      <3>6. LateIsMarked'
        BY <3>2, <3>5 DEF LateIsMarked, IsLate
      <3>. QED  BY <3>3, <3>4, <3>6 DEF ResetInv
    <2>. QED  BY <1>16, <2>2, <2>3 DEF DeleteUserSessions
  <1>17. ASSUME sessions' \subseteq sessions, UNCHANGED <<req, since>>, password' \in {password, password + 1}
         PROVE  ResetInv'
    <2>1. password' \in Nat /\ password <= password'
      BY <1>0, <1>17
    <2>2. SessionsShape'
      BY <1>17 DEF ResetInv, SessionsShape
    <2>3. Passwords'
      BY <1>17, <2>1 DEF ResetInv, Passwords
    <2>4. LateIsMarked'
      BY <1>17 DEF ResetInv, LateIsMarked, IsLate
    <2>. QED  BY <2>2, <2>3, <2>4 DEF ResetInv
  <1>18. CASE SessionsCrash
    <2>1. req' = [h \in Handlers |-> NoReq] /\ UNCHANGED <<password, sessions, since>>
      BY <1>18 DEF SessionsCrash
    <2>2. PICK z : NoReq = Req("idle", "plain", NoLogin, 0, z, NoLogin, NoLogin)
      BY IdleReq
    <2>3. NoReq.pc = "idle" /\ IsReq(NoReq) /\ NoReq.from = 0
      BY <2>2, ReqFields
    <2>4. SessionsShape'
      BY <2>1, <2>3 DEF ResetInv, SessionsShape
    <2>5. Passwords'
      BY <2>1, <2>3 DEF ResetInv, Passwords
    <2>6. LateIsMarked'
      BY <2>1, <2>3 DEF ResetInv, LateIsMarked, IsLate
    <2>. QED  BY <2>4, <2>5, <2>6 DEF ResetInv
  <1>19. CASE \E s \in sessions : SessionExpires(s)
    BY <1>17, <1>19 DEF SessionExpires, history
  <1>20. CASE UpdateUserPassword \/ RequestReset \/ \E r \in resets : ResetExpires(r)
    BY <1>17, <1>20 DEF UpdateUserPassword, RequestReset, ResetExpires, history
  <1>21. CASE UNCHANGED sessionsVars
    BY <1>17, <1>21 DEF sessionsVars
  <1>. QED
    BY <1>1, <1>2, <1>3, <1>4, <1>5, <1>6, <1>7, <1>8, <1>9, <1>10, <1>11, <1>12, <1>13, <1>14,
       <1>15, <1>16, <1>18, <1>19, <1>20, <1>21
    DEF SessionsNext

-----------------------------------------------------------------------------
(* Where a handler acts for a login, and the kinds that fit there.          *)
Workers == {"insert", "refresh", "mark", "undo", "count", "drop"}

KindFits(r) == /\ r.pc = "refresh" => r.kind = "plain"
               /\ r.pc = "insert" /\ r.kind = "pending" => r.login = NoLogin
               /\ r.pc = "insert" => r.kind \in LoginKinds

(* A step after which no handler acts for a login that it did not act for   *)
(* before keeps the part of the invariant that is about logins, if a login  *)
(* that is let go has one session left.                                     *)
LEMMA LetGo ==
    ASSUME LoginInv, Kept, UniqueIds', created' = created, forked \subseteq forked',
           DOMAIN req' = Handlers, req' = [d \in Handlers |-> req'[d]],
           \A d \in Handlers :
              \/ SameReq(d)
              \/ /\ IsReq(req'[d]) /\ KindFits(req'[d]) /\ req'[d].login \in 0..created
                 /\ req'[d].pc \notin Workers \/ req'[d].login = NoLogin
                 /\ \A s, t \in sessions' :
                       (s.login = t.login /\ s.login \notin forked' /\ Works(d, s.login)) => s.id = t.id
    PROVE  LoginInv'
  <1>1. SessionsShape'
    BY DEF LoginInv, SessionsShape, Kept, SameReq
  <1>2. Numbered'
    BY DEF LoginInv, Numbered, Kept, UniqueIds, SameReq
  <1>3. KindsFit'
    BY DEF LoginInv, KindsFit, KindFits, SameReq
  <1>4. \A d \in Handlers, l \in 1..created : Works(d, l)' => SameReq(d) /\ Works(d, l)
    BY DEF Works, SameReq, Workers, NoLogin
  <1>5. \A s \in sessions' : s.login \in 1..created
    BY DEF LoginInv, Numbered, Kept
  <1>6. OneWorker'
    <2>. SUFFICES ASSUME NEW h \in Handlers, NEW d \in Handlers, NEW l \in Nat,
                         l \notin forked' \cup {NoLogin}, Works(h, l)', Works(d, l)'
                  PROVE  h = d
      BY DEF OneWorker
    <2>1. l \in 1..created
      BY <1>2 DEF Numbered, NoLogin, Works
    <2>2. Works(h, l) /\ Works(d, l)
      BY <1>4, <2>1
    <2>. QED  BY <2>2 DEF LoginInv, OneWorker
  <1>7. Accounted'
    <2>. SUFFICES ASSUME NEW t \in sessions', NEW h \in Handlers, t.login \notin forked', Works(h, t.login)'
                  PROVE  Accounts(h, t.id)'
      BY DEF Accounted, Works, Accounts
    <2>1. SameReq(h) /\ Works(h, t.login)
      BY <1>4, <1>5
    <2>2. PICK s \in sessions : t.id = s.id /\ t.login = s.login
      BY DEF Kept
    <2>3. Accounts(h, t.id)
      BY <2>1, <2>2 DEF LoginInv, Accounted
    <2>. QED  BY <2>1, <2>3 DEF Accounts, SameReq
  <1>8. Single'
    <2>. SUFFICES ASSUME NEW s \in sessions', NEW t \in sessions', s.login = t.login,
                         s.login \notin forked', \A h \in Handlers : ~Works(h, s.login)'
                  PROVE  s = t
      BY DEF Single, Works
    <2>1. PICK s0 \in sessions : s.id = s0.id /\ s.login = s0.login
      BY DEF Kept
    <2>2. PICK t0 \in sessions : t.id = t0.id /\ t.login = t0.login
      BY DEF Kept
    <2>3. s.id = t.id
      <3>1. CASE \A h \in Handlers : ~Works(h, s.login)
        <4>1. \A h \in Handlers : ~Works(h, s0.login)
          BY <2>1, <3>1 DEF Works
        <4>3. s0.login = t0.login /\ s0.login \notin forked
          BY <2>1, <2>2
        <4>4. Single
          BY DEF LoginInv
        <4>2. s0 = t0
          BY <4>1, <4>3, <4>4 DEF Single
        <4>. QED  BY <2>1, <2>2, <4>2
      <3>2. ASSUME NEW h \in Handlers, Works(h, s.login)  PROVE s.id = t.id
        <4>1. ~SameReq(h)
          BY <3>2 DEF Works, SameReq
        <4>. QED  BY <3>2, <4>1
      <3>. QED  BY <3>1, <3>2
    <2>. QED  BY <2>3 DEF UniqueIds
  <1>. QED  BY <1>1, <1>2, <1>3, <1>6, <1>7, <1>8 DEF LoginInv

(* The same for a step of one handler.                                      *)
LEMMA LetGoOne ==
    ASSUME LoginInv, Kept, UniqueIds', created' = created, forked \subseteq forked',
           NEW h \in Handlers, OnlyReq(h),
           IsReq(req'[h]), KindFits(req'[h]), req'[h].login \in 0..created,
           req'[h].pc \notin Workers \/ req'[h].login = NoLogin,
           \A s, t \in sessions' :
              (s.login = t.login /\ s.login \notin forked' /\ Works(h, s.login)) => s.id = t.id
    PROVE  LoginInv'
  <1>1. \A d \in Handlers \ {h} : SameReq(d)
    BY DEF OnlyReq, SameReq, LoginInv, SessionsShape
  <1>2. DOMAIN req' = Handlers /\ req' = [d \in Handlers |-> req'[d]]
    BY DEF OnlyReq
  <1>. QED  BY <1>1, <1>2, LetGo

(* A handler may end when the login it acts for has at most one session.    *)
LEMMA LoginEnded ==
    ASSUME LoginInv, Kept, UniqueIds', created' = created, forked \subseteq forked',
           NEW h \in Handlers, Finish(h),
           \A s, t \in sessions' :
              (s.login = t.login /\ s.login \notin forked' /\ Works(h, s.login)) => s.id = t.id
    PROVE  LoginInv'
  <1>1. /\ OnlyReq(h) /\ IsReq(req'[h]) /\ req'[h].pc = "idle" /\ req'[h].login = NoLogin
    BY ReqEnds DEF LoginInv
  <1>2. KindFits(req'[h]) /\ req'[h].login \in 0..created
    BY <1>1 DEF KindFits, NoLogin, LoginInv, Numbered
  <1>. QED  BY <1>1, <1>2, LetGoOne

(* A request that takes the session of a login on: unless another request   *)
(* acts for the login as well, it has this one session only.                *)
LEMMA TakesOn ==
    ASSUME LoginInv, NEW h \in Handlers, NEW s \in sessions, req[h].pc = "idle",
           UNCHANGED <<sessions, created>>, forked' = forked \cup Busy(h, {s.login}),
           OnlyReq(h), IsReq(req'[h]), KindFits(req'[h]),
           req'[h].login = s.login, req'[h].old = s.id,
           req'[h].pc = "refresh" \/ (req'[h].pc = "insert" /\ req'[h].kind # "plain")
    PROVE  LoginInv'
  <1>1. SessionsShape' /\ Numbered' /\ KindsFit'
    <2>1. SessionsShape'
      BY DEF LoginInv, SessionsShape, OnlyReq
    <2>2. Numbered'
      BY DEF LoginInv, Numbered, OnlyReq
    <2>3. KindsFit'
      BY DEF LoginInv, KindsFit, KindFits, OnlyReq
    <2>. QED  BY <2>1, <2>2, <2>3
  <1>2. forked \subseteq forked'
    OBVIOUS
  <1>3. s.login \notin forked' => \A d \in Handlers : ~Works(d, s.login)
    <2>. SUFFICES ASSUME NEW d \in Handlers, Works(d, s.login)  PROVE s.login \in forked'
      OBVIOUS
    <2>1. d \in Others(h) /\ req[d].login = s.login
      BY DEF Works, Others, InFlight, Doing
    <2>. QED  BY <2>1 DEF Busy
  <1>4. \A d \in Handlers \ {h}, l \in Nat : Works(d, l)' <=> Works(d, l)
    BY DEF Works, OnlyReq
  <1>5. \A r \in sessions : r.login \in Nat
    BY DEF LoginInv, Numbered
  <1>6. OneWorker'
    <2>. SUFFICES ASSUME NEW d \in Handlers, NEW e \in Handlers, NEW l \in Nat,
                         l \notin forked' \cup {NoLogin}, Works(d, l)', Works(e, l)'
                  PROVE  d = e
      BY DEF OneWorker
    <2>1. Works(h, l)' => l = s.login
      BY DEF Works
    <2>2. CASE d = h /\ e # h
      BY <1>3, <1>4, <2>1, <2>2
    <2>3. CASE e = h /\ d # h
      BY <1>3, <1>4, <2>1, <2>3
    <2>4. CASE d # h /\ e # h
      BY <1>2, <1>4, <2>4 DEF LoginInv, OneWorker
    <2>. QED  BY <2>2, <2>3, <2>4
  <1>7. Accounted'
    <2>. SUFFICES ASSUME NEW t \in sessions, NEW d \in Handlers, t.login \notin forked', Works(d, t.login)'
                  PROVE  Accounts(d, t.id)'
      BY DEF Accounted, Works, Accounts
    <2>1. CASE d = h
      <3>1. t.login = s.login
        BY <2>1 DEF Works
      <3>2. t = s
        BY <1>2, <1>3, <3>1 DEF LoginInv, Single
      <3>. QED  BY <2>1, <3>2 DEF Accounts
    <2>2. CASE d # h
      <3>1. Accounts(d, t.id)
        BY <1>2, <1>4, <1>5, <2>2 DEF LoginInv, Accounted
      <3>. QED  BY <2>2, <3>1 DEF Accounts, OnlyReq
    <2>. QED  BY <2>1, <2>2
  <1>8. Single'
    <2>. SUFFICES ASSUME NEW r \in sessions, NEW t \in sessions, r.login = t.login,
                         r.login \notin forked', \A d \in Handlers : ~Works(d, r.login)'
                  PROVE  r = t
      BY DEF Single, Works
    <2>1. ~Works(h, r.login)
      BY DEF Works
    <2>2. \A d \in Handlers : ~Works(d, r.login)
      BY <1>4, <1>5, <2>1
    <2>. QED  BY <1>2, <2>2 DEF LoginInv, Single
  <1>. QED  BY <1>1, <1>6, <1>7, <1>8 DEF LoginInv

(* A request that goes on to its next statement.                            *)
LEMMA GoesOn ==
    ASSUME LoginInv, sessions' \subseteq sessions, UNCHANGED <<created, forked>>,
           NEW h \in Handlers, NEW pc \in Workers, Goto(h, pc), req[h].pc \in Workers,
           pc = "insert" => req[h].kind = "plain", pc # "refresh",
           \A s \in sessions' : Works(h, s.login) /\ Accounts(h, s.id) => Accounts(h, s.id)'
    PROVE  LoginInv'
  <1>1. /\ OnlyReq(h) /\ IsReq(req'[h]) /\ req'[h].pc = pc /\ req'[h].kind = req[h].kind
        /\ req'[h].login = req[h].login
    BY ReqMoves DEF LoginInv
  <1>2. \A d \in Handlers, l \in Nat : Works(d, l)' <=> Works(d, l)
    BY <1>1 DEF Works, OnlyReq, Workers
  <1>3. \A d \in Handlers : req'[d].login = req[d].login /\ req[d].login \in Nat
    BY <1>1 DEF OnlyReq, LoginInv, Numbered
  <1>4. \A s \in sessions : s.login \in Nat
    BY DEF LoginInv, Numbered
  <1>5. SessionsShape'
    BY <1>1 DEF LoginInv, SessionsShape, OnlyReq
  <1>6. Numbered'
    BY <1>1 DEF LoginInv, Numbered, OnlyReq
  <1>7. KindsFit'
    BY <1>1 DEF LoginInv, KindsFit, OnlyReq, LoginKinds
  <1>8. OneWorker'
    BY <1>2 DEF LoginInv, OneWorker
  <1>9. Accounted'
    <2>. SUFFICES ASSUME NEW t \in sessions', NEW d \in Handlers, t.login \notin forked, Works(d, t.login)'
                  PROVE  Accounts(d, t.id)'
      BY DEF Accounted, Works, Accounts
    <2>1. Works(d, t.login) /\ Accounts(d, t.id)
      BY <1>2, <1>4 DEF LoginInv, Accounted
    <2>2. CASE d = h
      BY <2>1, <2>2
    <2>3. CASE d # h
      BY <1>1, <2>1, <2>3 DEF Accounts, OnlyReq
    <2>. QED  BY <2>2, <2>3
  <1>10. Single'
    <2>. SUFFICES ASSUME NEW r \in sessions', NEW t \in sessions', r.login = t.login,
                         r.login \notin forked, \A d \in Handlers : ~Works(d, r.login)'
                  PROVE  r = t
      BY DEF Single, Works
    <2>. QED  BY <1>2, <1>4 DEF LoginInv, Single
  <1>. QED  BY <1>5, <1>6, <1>7, <1>8, <1>9, <1>10 DEF LoginInv

(* The INSERT of CreateSession gives its login the session it is to have    *)
(* beside the pending one, or the first one.                                *)
LEMMA CreateKeeps ==
    ASSUME LoginInv, NEW h \in Handlers, CreateSession(h)
    PROVE  LoginInv'
  <1>1. req[h].pc = "insert" /\ created' = created + 1 /\ UNCHANGED forked
    BY DEF CreateSession, Doing, history
  <1>2. /\ req[h].kind \in LoginKinds /\ (req[h].kind = "pending" => req[h].login = NoLogin)
        /\ created \in Nat /\ req[h].login \in 0..created
    BY <1>1 DEF LoginInv, KindsFit, Numbered
  <1>3. PICK l, row :
              /\ l = IF req[h].login = NoLogin THEN created + 1 ELSE req[h].login
              /\ sessions' = sessions \cup {row}
              /\ IsRow(row) /\ row.id = created + 1 /\ row.login = l
              /\ OnlyReq(h) /\ IsReq(req'[h])
              /\ req[h].kind = "plain" => req'[h].pc = "idle" /\ req'[h].login = NoLogin
              /\ req[h].kind # "plain" =>
                    /\ req'[h].pc = IF req[h].kind = "pending" THEN "mark"
                                    ELSE IF req[h].kind = "code" THEN "drop" ELSE "count"
                    /\ req'[h].login = l /\ req'[h].new = created + 1
                    /\ req'[h].old = req[h].old
    <2>1. SessionsShape
      BY DEF LoginInv
    <2>. QED  BY <1>2, <2>1, CreateDoes
  <1>4. l \in 1..created + 1
    BY <1>2, <1>3 DEF NoLogin
  <1>5. req'[h].pc \notin {"insert", "refresh"}
    BY <1>3
  <1>6. SessionsShape'
    BY <1>3 DEF LoginInv, SessionsShape, OnlyReq
  <1>7. Numbered'
    <2>1. \A s \in sessions : s.id \in 1..created /\ s.login \in 1..created
      BY DEF LoginInv, Numbered
    <2>2. \A s \in sessions' : s.id \in 1..created + 1 /\ s.login \in 1..created + 1
      BY <1>2, <1>3, <1>4, <2>1
    <2>3. \A d \in Handlers : req'[d].login \in 0..created + 1
      BY <1>2, <1>3, <1>4 DEF LoginInv, Numbered, OnlyReq, NoLogin
    <2>4. \A s, t \in sessions' : s.id = t.id => s = t
      BY <1>2, <1>3, <2>1 DEF LoginInv, Numbered
    <2>. QED  BY <1>1, <1>2, <2>2, <2>3, <2>4 DEF Numbered
  <1>8. KindsFit'
    BY <1>3, <1>5 DEF LoginInv, KindsFit, OnlyReq
  <1>9. ASSUME NEW k \in Nat, k # l
        PROVE  \A d \in Handlers : Works(d, k)' => d # h /\ Works(d, k)
    BY <1>3, <1>9 DEF Works, OnlyReq, NoLogin
  <1>10. req[h].login = NoLogin =>
            /\ \A s \in sessions : s.login # l
            /\ \A d \in Handlers \ {h} : ~Works(d, l)'
    <2>1. \A d \in Handlers \ {h} : req'[d].login # created + 1
      BY <1>2, <1>3 DEF LoginInv, Numbered, OnlyReq
    <2>2. \A s \in sessions : s.login # created + 1
      BY <1>2 DEF LoginInv, Numbered
    <2>. QED  BY <1>3, <2>1, <2>2 DEF Works
  <1>11. req[h].login # NoLogin => l = req[h].login /\ Works(h, l)
    BY <1>1, <1>3 DEF Works
  <1>12. l \notin forked => \A d \in Handlers \ {h} : ~Works(d, l)'
    <2>. SUFFICES ASSUME l \notin forked, NEW d \in Handlers \ {h}, Works(d, l)', req[h].login # NoLogin
                  PROVE  FALSE
      BY <1>10
    <2>1. Works(d, l)
      BY <1>3 DEF Works, OnlyReq
    <2>2. l \in Nat
      BY <1>2, <1>4
    <2>. QED  BY <1>11, <2>1, <2>2 DEF LoginInv, OneWorker
  <1>13. OneWorker'
    <2>. SUFFICES ASSUME NEW d \in Handlers, NEW e \in Handlers, NEW k \in Nat,
                         k \notin forked \cup {NoLogin}, Works(d, k)', Works(e, k)'
                  PROVE  d = e
      BY <1>1 DEF OneWorker
    <2>1. CASE k = l
      BY <1>12, <2>1
    <2>2. CASE k # l
      BY <1>9, <2>2 DEF LoginInv, OneWorker
    <2>. QED  BY <2>1, <2>2
  <1>14. \A s \in sessions : s.login \in Nat
    BY DEF LoginInv, Numbered
  <1>15. ASSUME NEW s \in sessions, s.login = l, l \notin forked
         PROVE  req[h].kind # "plain" /\ req[h].kind # "pending" /\ s.id = req[h].old
    <2>1. Works(h, s.login) /\ s.login \notin forked /\ req[h].login # NoLogin
      BY <1>10, <1>11, <1>15
    <2>2. Accounts(h, s.id)
      BY <2>1 DEF LoginInv, Accounted
    <2>. QED  BY <1>1, <1>2, <2>1, <2>2 DEF Accounts
  <1>16. Accounted'
    <2>. SUFFICES ASSUME NEW s \in sessions', NEW d \in Handlers, s.login \notin forked, Works(d, s.login)'
                  PROVE  Accounts(d, s.id)'
      BY <1>1 DEF Accounted, Works, Accounts
    <2>1. CASE s.login = l
      <3>1. d = h
        <4>1. Works(d, l)'
          BY <2>1 DEF Works
        <4>. QED  BY <1>12, <2>1, <4>1
      <3>2. req[h].kind # "plain"
        BY <1>3, <2>1, <3>1 DEF Works
      <3>3. CASE s = row
        BY <1>2, <1>3, <3>1, <3>2, <3>3 DEF Accounts, LoginKinds
      <3>4. CASE s \in sessions
        BY <1>2, <1>3, <1>15, <2>1, <3>1, <3>2, <3>4 DEF Accounts, LoginKinds
      <3>. QED  BY <1>3, <3>3, <3>4
    <2>2. CASE s.login # l
      <3>1. s \in sessions
        BY <1>3, <2>2
      <3>2. d # h /\ Works(d, s.login)
        BY <1>9, <1>14, <2>2, <3>1
      <3>3. Accounts(d, s.id)
        BY <3>1, <3>2 DEF LoginInv, Accounted
      <3>. QED  BY <1>3, <3>2, <3>3 DEF Accounts, OnlyReq
    <2>. QED  BY <2>1, <2>2
  <1>17. Single'
    <2>. SUFFICES ASSUME NEW s \in sessions', NEW t \in sessions', s.login = t.login,
                         s.login \notin forked, \A d \in Handlers : ~Works(d, s.login)'
                  PROVE  s = t
      BY <1>1 DEF Single, Works
    <2>1. CASE s.login = l
      <3>1. req[h].kind = "plain"
        <4>. SUFFICES ASSUME req[h].kind # "plain"  PROVE Works(h, s.login)'
          OBVIOUS
        <4>. QED  BY <1>2, <1>3, <2>1 DEF Works, LoginKinds
      <3>2. \A r \in sessions : r.login # l
        BY <1>15, <2>1, <3>1
      <3>. QED  BY <1>3, <2>1, <3>2
    <2>2. CASE s.login # l
      <3>1. s \in sessions /\ t \in sessions
        BY <1>3, <2>2
      <3>2. \A d \in Handlers : ~Works(d, s.login)
        <4>. SUFFICES ASSUME NEW d \in Handlers, Works(d, s.login)  PROVE FALSE
          OBVIOUS
        <4>1. d # h
          BY <1>3, <1>14, <2>2, <3>1 DEF Works, LoginInv, Numbered, NoLogin
        <4>. QED  BY <1>3, <4>1 DEF Works, OnlyReq
      <3>. QED  BY <3>1, <3>2 DEF LoginInv, Single
    <2>. QED  BY <2>1, <2>2
  <1>. QED  BY <1>6, <1>7, <1>8, <1>13, <1>16, <1>17 DEF LoginInv

(* Every statement keeps the part of the invariant that is about logins:    *)
(* only the requests that CreateSession, the refresh and the second factor  *)
(* run for a login may leave it with two rows, and only one of them at a    *)
(* time.                                                                    *)
LEMMA LoginStep ==
    ASSUME LoginInv, [SessionsNext]_sessionsVars  PROVE LoginInv'
  <1>0. SessionsShape /\ UniqueIds /\ created \in Nat
    BY DEF LoginInv, Numbered, UniqueIds
  <1>01. \A s \in sessions : s.id \in 1..created /\ s.login \in 1..created
    BY DEF LoginInv, Numbered
  <1>1. ASSUME NEW h \in Handlers, NEW kind \in LoginKinds, Login(h, kind)  PROVE LoginInv'
    <2>1. req[h].pc = "idle" /\ UNCHANGED <<sessions, created, forked>>
      BY <1>1 DEF Login, Doing, history
    <2>2. Kept /\ UniqueIds'
      BY <1>0, <2>1, Removed
    <2>3. /\ OnlyReq(h) /\ IsReq(req'[h]) /\ req'[h].pc = "insert" /\ req'[h].kind = kind
          /\ req'[h].login = NoLogin
      BY <1>0, <1>1, LoginDoes
    <2>4. KindFits(req'[h]) /\ req'[h].login \in 0..created
      BY <1>0, <2>3 DEF KindFits, NoLogin
    <2>5. \A s \in sessions' : ~Works(h, s.login)
      BY <2>1 DEF Works
    <2>. QED  BY <2>1, <2>2, <2>3, <2>4, <2>5, LetGoOne
  <1>2. ASSUME NEW h \in Handlers, NEW s \in sessions, NEW kind \in LoginKinds, LoadPending(h, s, kind)
        PROVE  LoginInv'
    <2>1. /\ req[h].pc = "idle" /\ kind \in {"code", "key"} /\ UNCHANGED <<sessions, created>>
          /\ forked' = forked \cup Busy(h, {s.login})
      BY <1>2 DEF LoadPending, Doing
    <2>2. /\ OnlyReq(h) /\ IsReq(req'[h]) /\ req'[h].pc = "insert" /\ req'[h].kind = kind
          /\ req'[h].login = s.login /\ req'[h].old = s.id
      BY <1>0, <1>2, LoadDoes
    <2>3. KindFits(req'[h])
      BY <2>1, <2>2 DEF KindFits
    <2>. QED  BY <2>1, <2>2, <2>3, TakesOn
  <1>3. ASSUME NEW h \in Handlers, InsertFails(h)  PROVE LoginInv'
    <2>1. req[h].pc = "insert" /\ Finish(h) /\ UNCHANGED <<sessions, created, forked>>
      BY <1>3 DEF InsertFails, Doing, history
    <2>2. ASSUME NEW s \in sessions, s.login \notin forked, Works(h, s.login)  PROVE s.id = req[h].old
      BY <2>1, <2>2 DEF LoginInv, Accounted, Accounts
    <2>3. Kept /\ UniqueIds'
      BY <1>0, <2>1, Removed
    <2>. QED  BY <2>1, <2>2, <2>3, LoginEnded DEF Works
  <1>4. ASSUME NEW h \in Handlers, UpdateData(h)  PROVE LoginInv'
    <2>1. req[h].pc = "mark" /\ UNCHANGED <<created, forked>>
      BY <1>4, Zenon DEF UpdateData, history, Doing
    <2>2. \/ sessions' = Marked(req[h].new) /\ Finish(h)
          \/ Goto(h, "undo") /\ UNCHANGED sessions
      BY <1>4, Zenon DEF UpdateData, Marked
    <2>3. ASSUME NEW s \in sessions, s.login \notin forked, Works(h, s.login)  PROVE s.id = req[h].new
      BY <2>1, <2>3 DEF LoginInv, Accounted, Accounts
    <2>4. CASE sessions' = Marked(req[h].new) /\ Finish(h)
      <3>1. Kept /\ UniqueIds'
        BY <1>0, <2>4, MarkedKept
      <3>2. ASSUME NEW t \in sessions', t.login \notin forked', Works(h, t.login)  PROVE t.id = req[h].new
        <4>1. PICK s \in sessions : t.id = s.id /\ t.login = s.login
          BY <3>1 DEF Kept
        <4>2. Works(h, s.login) /\ s.login \notin forked
          BY <2>1, <3>2, <4>1
        <4>. QED  BY <2>3, <4>1, <4>2
      <3>. QED  BY <2>1, <2>4, <3>1, <3>2, LoginEnded DEF Works
    <2>5. CASE Goto(h, "undo") /\ UNCHANGED sessions
      <3>1. req'[h].new = req[h].new /\ req'[h].pc = "undo"
        BY <1>0, <2>5, ReqMoves
      <3>2. \A s \in sessions' : Works(h, s.login) /\ Accounts(h, s.id) => Accounts(h, s.id)'
        BY <2>1, <3>1 DEF Accounts
      <3>. QED  BY <2>1, <2>5, <3>2, GoesOn DEF Workers
    <2>. QED  BY <2>2, <2>4, <2>5
  <1>5. ASSUME NEW h \in Handlers, UndoPending(h)  PROVE LoginInv'
    <2>1. req[h].pc = "undo" /\ UNCHANGED <<created, forked>> /\ Finish(h) /\ sessions' \subseteq sessions
      BY <1>5 DEF UndoPending, history, OtherThan, Doing
    <2>2. ASSUME NEW s \in sessions, s.login \notin forked, Works(h, s.login)  PROVE s.id = req[h].new
      BY <2>1, <2>2 DEF LoginInv, Accounted, Accounts
    <2>3. Kept /\ UniqueIds'
      BY <1>0, <2>1, Removed
    <2>. QED  BY <2>1, <2>2, <2>3, LoginEnded DEF Works
  <1>6. ASSUME NEW h \in Handlers, CountRemaining(h)  PROVE LoginInv'
    <2>1. req[h].pc = "count" /\ UNCHANGED <<sessions, created>>
      BY <1>6 DEF CountRemaining, Doing
    <2>2. CASE Goto(h, "drop") /\ UNCHANGED forked
      <3>1. req'[h].new = req[h].new /\ req'[h].old = req[h].old /\ req'[h].pc = "drop"
        BY <1>0, <2>2, ReqMoves
      <3>2. \A s \in sessions' : Works(h, s.login) /\ Accounts(h, s.id) => Accounts(h, s.id)'
        BY <2>1, <3>1 DEF Accounts
      <3>. QED  BY <2>1, <2>2, <3>2, GoesOn DEF Workers
    <2>3. CASE Finish(h) /\ forked' = forked \cup Halfway({h})
      <3>1. ASSUME NEW s \in sessions, s.login \notin forked', Works(h, s.login)  PROVE s.id = req[h].new
        <4>1. req[h].old = NoLogin
          BY <2>1, <2>3, <3>1 DEF Halfway, Works
        <4>2. s.id # NoLogin
          BY <1>01 DEF NoLogin
        <4>. QED  BY <2>1, <2>3, <3>1, <4>1, <4>2 DEF LoginInv, Accounted, Accounts
      <3>2. Kept /\ UniqueIds'
        BY <1>0, <2>1, Removed
      <3>. QED  BY <2>1, <2>3, <3>1, <3>2, LoginEnded DEF Works
    <2>. QED  BY <1>6, <2>2, <2>3 DEF CountRemaining
  <1>7. ASSUME NEW h \in Handlers, DropPending(h)  PROVE LoginInv'
    <2>1. /\ req[h].pc = "drop" /\ UNCHANGED created /\ Finish(h)
          /\ sessions' \subseteq HandedOut(req[h].new)
          /\ \/ (\A s \in sessions' : s.id # req[h].old) /\ forked' = forked
             \/ forked' = forked \cup Halfway({h})
      BY <1>7 DEF DropPending, Doing
    <2>2. Kept /\ UniqueIds'
      BY <1>0, <2>1, HandedOutKept
    <2>3. ASSUME NEW t \in sessions', t.login \notin forked', Works(h, t.login)  PROVE t.id = req[h].new
      <3>1. PICK s \in sessions : t.id = s.id /\ t.login = s.login
        BY <2>2 DEF Kept
      <3>2. Works(h, s.login) /\ s.login \notin forked
        BY <2>1, <2>3, <3>1
      <3>3. s.id = req[h].new \/ s.id = req[h].old
        BY <2>1, <3>2 DEF LoginInv, Accounted, Accounts
      <3>4. CASE s.id = req[h].old
        <4>1. req[h].old = NoLogin
          BY <2>1, <2>3, <3>1, <3>4 DEF Halfway, Works
        <4>. QED  BY <1>01, <3>4, <4>1 DEF NoLogin
      <3>. QED  BY <3>1, <3>3, <3>4
    <2>4. forked \subseteq forked'
      BY <2>1
    <2>. QED  BY <2>1, <2>2, <2>3, <2>4, LoginEnded DEF Works
  <1>8. ASSUME NEW h \in Handlers, NEW s \in sessions, NEW target \in sessions,
               NEW op \in {"logout", "revoke", "revokeAll", "refresh", "change"},
               Authenticate(h, s, op, target)
        PROVE  LoginInv'
    <2>1. /\ req[h].pc = "idle" /\ UNCHANGED <<sessions, created>>
          /\ forked' = IF op = "refresh" THEN forked \cup Busy(h, {s.login}) ELSE forked
      BY <1>8 DEF Authenticate, Doing
    <2>2. /\ OnlyReq(h) /\ IsReq(req'[h]) /\ req'[h].pc = op /\ req'[h].kind = "plain"
          /\ req'[h].login \in {NoLogin, target.login}
          /\ op = "refresh" => req'[h].login = s.login /\ req'[h].old = s.id
      BY <1>0, <1>8, AuthenticateDoes
    <2>3. KindFits(req'[h]) /\ req'[h].login \in 0..created
      BY <1>0, <1>01, <2>2 DEF KindFits, NoLogin
    <2>4. CASE op = "refresh"
      BY <2>1, <2>2, <2>3, <2>4, TakesOn
    <2>5. CASE op # "refresh"
      <3>1. Kept /\ UniqueIds'
        BY <1>0, <2>1, Removed
      <3>2. \A r \in sessions' : ~Works(h, r.login)
        BY <2>1 DEF Works
      <3>. QED  BY <2>1, <2>2, <2>3, <2>5, <3>1, <3>2, LetGoOne DEF Workers
    <2>. QED  BY <2>4, <2>5
  <1>9. ASSUME NEW h \in Handlers, Finish(h), req[h].pc \notin Workers, sessions' \subseteq sessions,
               UNCHANGED <<created, forked>>
        PROVE  LoginInv'
    <2>1. Kept /\ UniqueIds'
      BY <1>0, <1>9, Removed
    <2>2. \A r \in sessions' : ~Works(h, r.login)
      BY <1>9 DEF Works, Workers
    <2>. QED  BY <1>9, <2>1, <2>2, LoginEnded
  <1>10. ASSUME NEW h \in Handlers, DeleteSession(h) \/ DeleteAllSessionsForUser(h)  PROVE LoginInv'
    BY <1>9, <1>10 DEF DeleteSession, DeleteAllSessionsForUser, history, OtherThan, Doing, Workers
  <1>11. ASSUME NEW h \in Handlers, RefreshCurrentUserSession(h)  PROVE LoginInv'
    <2>1. req[h].pc = "refresh" /\ UNCHANGED <<created, forked>>
      BY <1>11 DEF RefreshCurrentUserSession, history, Doing
    <2>2. ASSUME NEW s \in sessions, s.login \notin forked, Works(h, s.login)  PROVE s.id = req[h].old
      BY <2>1, <2>2 DEF LoginInv, Accounted, Accounts
    <2>3. CASE Finish(h) /\ UNCHANGED sessions
      <3>1. Kept /\ UniqueIds'
        BY <1>0, <2>3, Removed
      <3>. QED  BY <2>1, <2>2, <2>3, <3>1, LoginEnded DEF Works
    <2>4. CASE sessions' = OtherThan(req[h].old) /\ Goto(h, "insert")
      <3>1. \A s \in sessions' : s \in sessions /\ s.id # req[h].old
        BY <2>4 DEF OtherThan
      <3>2. \A s \in sessions' : Works(h, s.login) /\ Accounts(h, s.id) => Accounts(h, s.id)'
        BY <2>1, <3>1 DEF Accounts
      <3>3. req[h].kind = "plain"
        BY <2>1 DEF LoginInv, KindsFit
      <3>. QED  BY <2>1, <2>4, <3>1, <3>2, <3>3, GoesOn DEF Workers
    <2>. QED  BY <1>11, <2>3, <2>4 DEF RefreshCurrentUserSession
  <1>12. ASSUME NEW h \in Handlers, ChangePassword(h)  PROVE LoginInv'
    BY <1>9, <1>12 DEF ChangePassword, history, Doing, Workers
  <1>13. ASSUME NEW h \in Handlers, UNCHANGED <<sessions, created, forked>>, OnlyReq(h),
                IsReq(req'[h]), req[h].pc \notin Workers, req'[h].pc \notin Workers,
                req'[h].login \in 0..created
         PROVE  LoginInv'
    <2>1. Kept /\ UniqueIds'
      BY <1>0, <1>13, Removed
    <2>2. \A r \in sessions' : ~Works(h, r.login)
      BY <1>13 DEF Works, Workers
    <2>3. KindFits(req'[h])
      BY <1>13 DEF KindFits, Workers
    <2>. QED  BY <1>13, <2>1, <2>2, <2>3, LetGoOne
  <1>14. ASSUME NEW h \in Handlers, NEW r, SelectReset(h, r)  PROVE LoginInv'
    <2>1. req[h].pc = "idle" /\ UNCHANGED <<sessions, created, forked>>
      BY <1>14 DEF SelectReset, history, Doing
    <2>2. /\ OnlyReq(h) /\ IsReq(req'[h]) /\ req'[h].pc = "reset" /\ req'[h].login = NoLogin
      BY <1>0, <1>14, SelectResetDoes
    <2>. QED  BY <1>0, <1>13, <2>1, <2>2 DEF Workers, NoLogin
  <1>15. ASSUME NEW h \in Handlers, ResetPassword(h)  PROVE LoginInv'
    <2>1. req[h].pc = "reset" /\ UNCHANGED <<sessions, created, forked>>
      BY <1>15 DEF ResetPassword, history, Doing
    <2>2. CASE Finish(h)
      BY <1>9, <2>1, <2>2 DEF Workers
    <2>3. CASE req' = [req EXCEPT ![h].pc = "dropReset", ![h].from = password + 1]
      <3>1. /\ OnlyReq(h) /\ IsReq(req'[h]) /\ req'[h].pc = "dropReset"
            /\ req'[h].login = req[h].login
        BY <1>0, <2>3, ResetDoes
      <3>2. req[h].login \in 0..created
        BY DEF LoginInv, Numbered
      <3>. QED  BY <1>13, <2>1, <3>1, <3>2 DEF Workers
    <2>. QED  BY <1>15, <2>2, <2>3 DEF ResetPassword
  <1>16. ASSUME NEW h \in Handlers, DeleteReset(h)  PROVE LoginInv'
    <2>1. req[h].pc = "dropReset" /\ UNCHANGED <<sessions, created, forked>> /\ Goto(h, "dropSessions")
      BY <1>16 DEF DeleteReset, history, Doing
    <2>2. OnlyReq(h) /\ IsReq(req'[h]) /\ req'[h].pc = "dropSessions" /\ req'[h].login = req[h].login
      BY <1>0, <2>1, ReqMoves
    <2>3. req[h].login \in 0..created
      BY DEF LoginInv, Numbered
    <2>. QED  BY <1>13, <2>1, <2>2, <2>3 DEF Workers
  <1>17. ASSUME NEW h \in Handlers, DeleteUserSessions(h)  PROVE LoginInv'
    <2>1. req[h].pc = "dropSessions" /\ UNCHANGED <<created, forked>>
      BY <1>17 DEF DeleteUserSessions, Doing
    <2>2. CASE Finish(h) /\ UNCHANGED sessions
      BY <1>9, <2>1, <2>2 DEF Workers
    <2>3. CASE sessions' = {} /\ req' = [Late(h) EXCEPT ![h] = NoReq]
      <3>1. /\ DOMAIN req' = Handlers /\ req' = [d \in Handlers |-> req'[d]]
            /\ IsReq(req'[h]) /\ req'[h].pc = "idle" /\ req'[h].login = NoLogin
            /\ \A d \in Handlers \ {h} : SameReq(d)
        BY <1>0, <2>3, LateDoes
      <3>2. KindFits(req'[h]) /\ req'[h].login \in 0..created
        BY <1>0, <3>1 DEF KindFits, NoLogin
      <3>3. Kept /\ UniqueIds'
        BY <1>0, <2>3, Removed
      <3>4. sessions' = {}
        BY <2>3
      <3>. QED  BY <2>1, <3>1, <3>2, <3>3, <3>4, LetGo
    <2>. QED  BY <1>17, <2>2, <2>3 DEF DeleteUserSessions
  <1>18. ASSUME sessions' \subseteq sessions, UNCHANGED <<req, created, forked>>
         PROVE  LoginInv'
    <2>1. Kept /\ UniqueIds'
      BY <1>0, <1>18, Removed
    <2>2. \A d \in Handlers : SameReq(d)
      BY <1>0, <1>18 DEF SameReq, SessionsShape
    <2>3. DOMAIN req' = Handlers /\ req' = [d \in Handlers |-> req'[d]]
      BY <1>0, <1>18 DEF SessionsShape
    <2>. QED  BY <1>18, <2>1, <2>2, <2>3, LetGo
  <1>19. CASE SessionsCrash
    <2>1. /\ req' = [h \in Handlers |-> NoReq] /\ forked' = forked \cup Halfway(Handlers)
          /\ UNCHANGED <<sessions, created>>
      BY <1>19 DEF SessionsCrash
    <2>2. PICK z : NoReq = Req("idle", "plain", NoLogin, 0, z, NoLogin, NoLogin)
      BY IdleReq
    <2>3. NoReq.pc = "idle" /\ IsReq(NoReq) /\ NoReq.login = NoLogin
      BY <2>2, ReqFields
    <2>4. KindFits(NoReq) /\ NoReq.login \in 0..created
      BY <1>0, <2>3 DEF KindFits, NoLogin
    <2>5. Kept /\ UniqueIds'
      BY <1>0, <2>1, Removed
    <2>6. ASSUME NEW d \in Handlers, NEW s \in sessions, NEW t \in sessions, s.login = t.login,
                 s.login \notin forked', Works(d, s.login)
          PROVE  s.id = t.id
      <3>1. Accounts(d, s.id) /\ Accounts(d, t.id)
        <4>1. s.login \notin forked /\ t.login \notin forked /\ Works(d, t.login)
          BY <2>1, <2>6
        <4>. QED  BY <2>6, <4>1 DEF LoginInv, Accounted
      <3>2. req[d].pc \in {"count", "drop"} => req[d].old = NoLogin
        BY <2>1, <2>6 DEF Halfway, Works
      <3>3. s.id # NoLogin /\ t.id # NoLogin
        BY <1>01 DEF NoLogin
      <3>. QED  BY <3>1, <3>2, <3>3 DEF Accounts
    <2>7. \A d \in Handlers : req'[d] = NoReq
      BY <2>1
    <2>8. DOMAIN req' = Handlers /\ req' = [d \in Handlers |-> req'[d]] /\ forked \subseteq forked'
      BY <2>1
    <2>9. UNCHANGED <<sessions, created>>
      BY <2>1
    <2>. QED  BY <2>3, <2>4, <2>5, <2>6, <2>7, <2>8, <2>9, LetGo DEF Workers
  <1>20. CASE \E s \in sessions : SessionExpires(s)
    BY <1>18, <1>20 DEF SessionExpires, history
  <1>21. CASE UpdateUserPassword \/ RequestReset \/ \E r \in resets : ResetExpires(r)
    BY <1>18, <1>21 DEF UpdateUserPassword, RequestReset, ResetExpires, history
  <1>22. CASE UNCHANGED sessionsVars
    BY <1>18, <1>22 DEF sessionsVars
  <1>. QED
    BY <1>1, <1>2, <1>3, <1>4, <1>5, <1>6, <1>7, <1>8, <1>10, <1>11, <1>12, <1>14,
       <1>15, <1>16, <1>17, <1>19, <1>20, <1>21, <1>22, CreateKeeps
    DEF SessionsNext

(* The invariant of the sessions holds in every reachable state, for any    *)
(* number of handlers, sessions, passwords and resets.                      *)
THEOREM SessionsInductive == SessionsSpec => [](ResetInv /\ LoginInv)
  <1>1. ResetInv /\ LoginInv /\ [SessionsNext]_sessionsVars => (ResetInv /\ LoginInv)'
    <2>. SUFFICES ASSUME ResetInv, LoginInv, [SessionsNext]_sessionsVars PROVE ResetInv' /\ LoginInv'
      OBVIOUS
    <2>1. \A h \in Handlers : req[h].pc = "insert" => req[h].kind \in LoginKinds
      BY DEF LoginInv, KindsFit
    <2>. QED  BY <2>1, ResetStep, LoginStep
  <1>. QED  BY <1>1, ResetStart, PTL DEF SessionsSpec

(* After a password reset no session that goes back to the old password is  *)
(* left, except one whose login, refresh or second factor was between its   *)
(* check and its INSERT when the reset deleted the rows.                    *)
THEOREM ResetEndsThem == SessionsSpec => []ResetEndsSessions
  <1>1. ResetInv => ResetEndsSessions
    BY DEF ResetInv, LateIsMarked, IsLate, ResetEndsSessions
  <1>. QED  BY <1>1, SessionsInductive, PTL

(* A login that nobody is working on has at most one session row, unless    *)
(* two requests acted for it at once or a row it should have deleted stayed *)
(* behind.                                                                  *)
THEOREM LoginHasOneSession == SessionsSpec => []OneSessionPerLogin
  <1>1. LoginInv => OneSessionPerLogin
    <2>. SUFFICES ASSUME LoginInv, NEW l \in SessionIds \ forked, \A h \in Handlers : req[h].login # l
                  PROVE  Cardinality({s \in sessions : s.login = l}) <= 1
      BY DEF OneSessionPerLogin
    <2>. DEFINE S == {s \in sessions : s.login = l}
    <2>1. \A h \in Handlers : ~Works(h, l)
      BY DEF Works
    <2>2. \A s, t \in S : s = t
      <3>. SUFFICES ASSUME NEW s \in sessions, NEW t \in sessions, s.login = l, t.login = l  PROVE s = t
        OBVIOUS
      <3>1. \A h \in Handlers : ~Works(h, s.login)
        BY DEF Works
      <3>. QED  BY <3>1 DEF LoginInv, Single
    <2>. HIDE DEF S
    <2>3. CASE S = {}
      BY <2>3, FS_EmptySet DEF S
    <2>4. CASE S # {}
      <3>1. PICK s : S = {s}
        BY <2>2, <2>4
      <3>2. Cardinality({s}) = 1
        BY FS_Singleton, Zenon
      <3>. QED  BY <3>1, <3>2 DEF S
    <2>. QED  BY <2>3, <2>4
  <1>. QED  BY <1>1, SessionsInductive, PTL

=============================================================================
