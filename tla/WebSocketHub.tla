---------------------------- MODULE WebSocketHub ----------------------------
(***************************************************************************)
(* The hub of real-time notification sockets                                *)
(* (server/service/websocket_hub.go) and the handler that feeds it          *)
(* (HandleWebSocketConnection).                                             *)
(*                                                                          *)
(* Goroutines: the hub, which alone changes the clients map; a read pump    *)
(* and a write pump per connection; and callers of BroadcastToUser or       *)
(* BroadcastToAdmin, which look a client up under the lock and send to it   *)
(* after releasing it.  They meet in three bounded Go channels: register,   *)
(* unregister and each client's Send.  The map is keyed by user, not by     *)
(* connection, and the hub's select takes ready channels in any order.      *)
(***************************************************************************)
EXTENDS Integers, FiniteSets, Sequences, SequencesExt

CONSTANTS
    Clients,    \* connections, each of which is made at most once
    idOf,       \* idOf[c]: the user or administrator, the key of the map
    None,       \* no entry in the map
    Senders,    \* callers of BroadcastToUser and BroadcastToAdmin
    QueueCap,   \* capacity of register and of unregister
    SendCap     \* capacity of a client's Send channel

ASSUME HubAssumption ==
    /\ idOf \in [Clients -> Range(idOf)]
    /\ None \notin Clients
    /\ {QueueCap, SendCap} \subseteq Nat \ {0}

VARIABLES
    clients,     \* h.clients
    register,    \* contents of h.register
    unregister,  \* contents of h.unregister
    buffered,    \* how many messages each Send channel holds
    closed,      \* the clients whose Send channel has been closed
    socket,      \* each connection: none, open, closed
    reader,      \* ReadPump: none, reading, leaving (in its defer), done
    writer,      \* WritePump: none, writing, done
    hub,         \* the hub goroutine: select, send, blocked, panicked
    sender,      \* the broadcasting goroutines: idle, send, blocked
    hubIncidents    \* history: twin, inverted, overflow, hubOverflow, swept, raced

hubVars == <<clients, register, unregister, buffered, closed, socket, reader, writer,
             hub, sender, hubIncidents>>

channels == <<register, unregister>>
sends    == <<buffered, closed>>
pumps    == <<socket, reader, writer>>

Ids == {idOf[c] : c \in Clients}
Queued(ch) == {ch[i] : i \in DOMAIN ch}
Registered(c) == clients[idOf[c]] = c

HubAt(pc, todo, cur) == [pc |-> pc, todo |-> todo, cur |-> cur]
Selecting == HubAt("select", {}, None)
Quiet == [pc |-> "idle", cur |-> None]

HubTypeOK ==
    /\ clients \in [Ids -> Clients \cup {None}]
    /\ register \in Seq(Clients) /\ Len(register) <= QueueCap
    /\ unregister \in Seq(Clients) /\ Len(unregister) <= QueueCap
    /\ buffered \in [Clients -> 0..SendCap] /\ closed \subseteq Clients
    /\ socket \in [Clients -> {"none", "open", "closed"}]
    /\ reader \in [Clients -> {"none", "reading", "leaving", "done"}]
    /\ writer \in [Clients -> {"none", "writing", "done"}]
    /\ hub.pc \in {"select", "send", "blocked", "panicked"}
    /\ hub.todo \subseteq Clients /\ hub.cur \in Clients \cup {None}
    /\ sender \in [Senders -> [pc : {"idle", "send", "blocked"}, cur : Clients \cup {None}]]

HubInit ==
    /\ clients = [id \in Ids |-> None]
    /\ register = <<>> /\ unregister = <<>>
    /\ buffered = [c \in Clients |-> 0] /\ closed = {}
    /\ socket = [c \in Clients |-> "none"]
    /\ reader = [c \in Clients |-> "none"]
    /\ writer = [c \in Clients |-> "none"]
    /\ hub = Selecting
    /\ sender = [s \in Senders |-> Quiet]
    /\ hubIncidents = {}

Note(kind, happened) == hubIncidents' = IF happened THEN hubIncidents \cup {kind} ELSE hubIncidents

-----------------------------------------------------------------------------
(* HandleWebSocketConnection: upgrade, RegisterClient, start both pumps.    *)
(* It waits while the register channel is full.  Another connection of the  *)
(* same user that has not been forgotten yet makes the two twins.           *)
Alive(c) ==
    \/ reader[c] \in {"reading", "leaving"}
    \/ Registered(c)
    \/ c \in Queued(register) \cup Queued(unregister)
    \/ \E s \in Senders : sender[s].cur = c
    \/ c \in hub.todo \cup {hub.cur}

HandleWebSocketConnection(c) ==
    /\ reader[c] = "none"
    /\ Len(register) < QueueCap
    /\ register' = Append(register, c)
    /\ socket' = [socket EXCEPT ![c] = "open"]
    /\ reader' = [reader EXCEPT ![c] = "reading"]
    /\ writer' = [writer EXCEPT ![c] = "writing"]
    /\ Note("twin", \E d \in Clients \ {c} : idOf[d] = idOf[c] /\ Alive(d))
    /\ UNCHANGED <<clients, unregister, sends, hub, sender>>

(* ReadPump: a read fails because the peer is gone, the read deadline has   *)
(* passed or the connection was closed on this side.                        *)
ReadFails(c) ==
    /\ reader[c] = "reading"
    /\ reader' = [reader EXCEPT ![c] = "leaving"]
    /\ UNCHANGED <<clients, channels, sends, socket, writer, hub, sender, hubIncidents>>

ReadPumpForgets(c) ==   \* mutant: the connection is closed, not unregistered
    /\ reader[c] = "leaving"
    /\ reader' = [reader EXCEPT ![c] = "done"]
    /\ socket' = [socket EXCEPT ![c] = "closed"]
    /\ UNCHANGED <<clients, channels, sends, writer, hub, sender, hubIncidents>>

(* Its deferred function: UnregisterClient, then Conn.Close.                *)
ReadPumpEnds(c) ==
    /\ reader[c] = "leaving"
    /\ Len(unregister) < QueueCap
    /\ unregister' = Append(unregister, c)
    /\ reader' = [reader EXCEPT ![c] = "done"]
    /\ socket' = [socket EXCEPT ![c] = "closed"]
    /\ UNCHANGED <<clients, register, sends, writer, hub, sender, hubIncidents>>

(* WritePump: one message and everything queued behind it.                  *)
WritePumpSends(c) ==
    /\ writer[c] = "writing" /\ buffered[c] > 0 /\ socket[c] = "open"
    /\ buffered' = [buffered EXCEPT ![c] = 0]
    /\ UNCHANGED <<clients, channels, closed, pumps, hub, sender, hubIncidents>>

(* It ends on a write error (also that of its own ping) or when the hub has *)
(* closed Send and it is drained; either way it closes the connection.      *)
WritePumpEnds(c) ==
    /\ writer[c] = "writing"
    /\ writer' = [writer EXCEPT ![c] = "done"]
    /\ socket' = [socket EXCEPT ![c] = "closed"]
    /\ UNCHANGED <<clients, channels, sends, reader, hub, sender, hubIncidents>>

-----------------------------------------------------------------------------
(* The hub's select.                                                        *)
HubRegisters ==
    /\ hub.pc = "select"
    /\ register # <<>>
    /\ register' = Tail(register)
    /\ clients' = [clients EXCEPT ![idOf[Head(register)]] = Head(register)]
    /\ UNCHANGED <<unregister, sends, pumps, hub, sender, hubIncidents>>

(* close(c.Send): closing a closed channel panics, and the process dies.    *)
Close(C) ==
    /\ closed' = closed \cup C
    /\ hub' = IF C \cap closed = {} THEN Selecting ELSE HubAt("panicked", {}, None)

UnregisterAlwaysCloses ==   \* mutant: no check that the ID is in the map
    /\ hub.pc = "select"
    /\ unregister # <<>>
    /\ unregister' = Tail(unregister)
    /\ Close({Head(unregister)})
    /\ clients' = [clients EXCEPT ![idOf[Head(unregister)]] = None]
    /\ Note("inverted", Head(unregister) \in Queued(register))
    /\ UNCHANGED <<register, buffered, pumps, sender>>

(* The entry under the client's ID is deleted, whoever's entry it is.       *)
HubUnregisters ==
    /\ hub.pc = "select"
    /\ unregister # <<>>
    /\ unregister' = Tail(unregister)
    /\ LET c == Head(unregister) IN
       /\ IF clients[idOf[c]] # None
          THEN Close({c}) /\ clients' = [clients EXCEPT ![idOf[c]] = None]
          ELSE UNCHANGED <<closed, hub, clients>>
       /\ Note("inverted", c \in Queued(register))
    /\ UNCHANGED <<register, buffered, pumps, sender>>

(* pingClients: a snapshot of the map, then sendToClient for each.          *)
HubPings ==
    /\ hub.pc = "select"
    /\ \E c \in Clients : Registered(c)
    /\ hub' = HubAt("send", {c \in Clients : Registered(c)}, None)
    /\ UNCHANGED <<clients, channels, sends, pumps, sender, hubIncidents>>

HubWaitsForRoom(c) ==   \* mutant: a send without a default case
    /\ hub.pc = "send" /\ c \in hub.todo
    /\ c \notin closed /\ buffered[c] < SendCap
    /\ buffered' = [buffered EXCEPT ![c] = @ + 1]
    /\ hub' = IF hub.todo = {c} THEN Selecting ELSE HubAt("send", hub.todo \ {c}, None)
    /\ UNCHANGED <<clients, channels, closed, pumps, sender, hubIncidents>>

(* sendToClient on the hub goroutine: sending on a closed channel panics, a *)
(* full buffer makes it call UnregisterClient, which only it can drain.     *)
HubSends(c) ==
    /\ hub.pc = "send" /\ c \in hub.todo
    /\ LET rest == hub.todo \ {c} IN
       \/ /\ c \in closed
          /\ hub' = HubAt("panicked", {}, None)
          /\ UNCHANGED <<buffered, hubIncidents>>
       \/ /\ c \notin closed /\ buffered[c] < SendCap
          /\ buffered' = [buffered EXCEPT ![c] = @ + 1]
          /\ hub' = IF rest = {} THEN Selecting ELSE HubAt("send", rest, None)
          /\ UNCHANGED hubIncidents
       \/ /\ c \notin closed /\ buffered[c] = SendCap
          /\ hub' = HubAt("blocked", rest, c)
          /\ hubIncidents' = hubIncidents \cup {"overflow", "hubOverflow"}
          /\ UNCHANGED buffered
    /\ UNCHANGED <<clients, channels, closed, pumps, sender>>

HubUnregisterClient ==
    /\ hub.pc = "blocked"
    /\ Len(unregister) < QueueCap
    /\ unregister' = Append(unregister, hub.cur)
    /\ socket' = [socket EXCEPT ![hub.cur] = "closed"]
    /\ hub' = IF hub.todo = {} THEN Selecting ELSE HubAt("send", hub.todo, None)
    /\ UNCHANGED <<clients, register, sends, reader, writer, sender, hubIncidents>>

SweepAnyone(stale) ==   \* mutant: LastPing is not refreshed by pongs
    /\ hub.pc = "select"
    /\ stale # {} /\ \A c \in stale : Registered(c)
    /\ clients' = [id \in Ids |-> IF clients[id] \in stale THEN None ELSE clients[id]]
    /\ Close(stale)
    /\ socket' = [c \in Clients |-> IF c \in stale THEN "closed" ELSE socket[c]]
    /\ hubIncidents' = hubIncidents \cup {"swept"}
    /\ UNCHANGED <<channels, buffered, reader, writer, sender>>

(* cleanupStaleConnections: LastPing is more than two minutes old.  Every   *)
(* update of it also precedes a read deadline of one minute, so by then the *)
(* read pump has left its loop.                                             *)
CleanupStale(stale) ==
    /\ hub.pc = "select"
    /\ stale # {} /\ \A c \in stale : Registered(c) /\ reader[c] \in {"leaving", "done"}
    /\ clients' = [id \in Ids |-> IF clients[id] \in stale THEN None ELSE clients[id]]
    /\ Close(stale)
    /\ socket' = [c \in Clients |-> IF c \in stale THEN "closed" ELSE socket[c]]
    /\ hubIncidents' = hubIncidents \cup {"swept"}
    /\ UNCHANGED <<channels, buffered, reader, writer, sender>>

-----------------------------------------------------------------------------
(* BroadcastToUser, BroadcastToAdmin: look the client up under the lock ... *)
LookUp(s, id) ==
    /\ sender[s] = Quiet
    /\ clients[id] # None
    /\ sender' = [sender EXCEPT ![s] = [pc |-> "send", cur |-> clients[id]]]
    /\ UNCHANGED <<clients, channels, sends, pumps, hub, hubIncidents>>

(* ... and sendToClient without it.  The caller recovers from the panic of  *)
(* a send on a channel closed in between.                                   *)
SenderSends(s) ==
    /\ sender[s].pc = "send"
    /\ LET c == sender[s].cur IN
       \/ /\ c \in closed
          /\ sender' = [sender EXCEPT ![s] = Quiet]
          /\ hubIncidents' = hubIncidents \cup {"raced"}
          /\ UNCHANGED buffered
       \/ /\ c \notin closed /\ buffered[c] < SendCap
          /\ buffered' = [buffered EXCEPT ![c] = @ + 1]
          /\ sender' = [sender EXCEPT ![s] = Quiet]
          /\ UNCHANGED hubIncidents
       \/ /\ c \notin closed /\ buffered[c] = SendCap
          /\ sender' = [sender EXCEPT ![s].pc = "blocked"]
          /\ hubIncidents' = hubIncidents \cup {"overflow"}
          /\ UNCHANGED buffered
    /\ UNCHANGED <<clients, channels, closed, pumps, hub>>

SenderUnregisters(s) ==
    /\ sender[s].pc = "blocked"
    /\ Len(unregister) < QueueCap
    /\ unregister' = Append(unregister, sender[s].cur)
    /\ socket' = [socket EXCEPT ![sender[s].cur] = "closed"]
    /\ sender' = [sender EXCEPT ![s] = Quiet]
    /\ UNCHANGED <<clients, register, sends, reader, writer, hub, hubIncidents>>

HubStep ==
    \/ HubRegisters
    \/ HubUnregisters
    \/ HubPings
    \/ \E c \in Clients : HubSends(c)
    \/ HubUnregisterClient
    \/ \E stale \in SUBSET Clients : CleanupStale(stale)

SenderStep(s) == SenderSends(s) \/ SenderUnregisters(s)

(* A panic on the hub goroutine ends the process.                           *)
HubNext ==
    /\ hub.pc # "panicked"
    /\ \/ \E c \in Clients : \/ HandleWebSocketConnection(c)
                             \/ ReadFails(c)
                             \/ ReadPumpEnds(c)
                             \/ WritePumpSends(c)
                             \/ WritePumpEnds(c)
       \/ HubStep
       \/ \E s \in Senders : (\E id \in Ids : LookUp(s, id)) \/ SenderStep(s)

HubSpec == HubInit /\ [][HubNext]_hubVars

(* Go's select chooses at random among the ready channels, so a channel     *)
(* that is ready again and again is served, and so is a goroutine waiting   *)
(* to send on it.  A write on a closed connection fails.  No fairness is    *)
(* assumed of peers, of broadcasters or of registration.                    *)
HubFairness ==
    /\ SF_hubVars(HubUnregisters)
    /\ WF_hubVars(\E c \in Clients : HubSends(c))
    /\ \A c \in Clients : /\ SF_hubVars(ReadPumpEnds(c))
                          /\ WF_hubVars(socket[c] = "closed" /\ WritePumpEnds(c))

FairHubSpec == HubSpec /\ HubFairness

-----------------------------------------------------------------------------
(* The hub goroutine, and with it the process, panics only when twins meet  *)
(* a connection that is unregistered more than once (its buffer overflowed, *)
(* or it was swept as stale): close(client.Send) has no other guard.        *)
PanicNeedsTwins ==
    hub.pc = "panicked" =>
        "twin" \in hubIncidents /\ hubIncidents \cap {"overflow", "swept", "inverted"} # {}

(* A connected user is reachable: a connection being read whose             *)
(* registration was taken is the one its ID leads to, as long as no user    *)
(* has two connections and no buffer overflowed.                            *)
ConnectedIsListed ==
    hubIncidents \cap {"twin", "overflow"} = {} =>
        \A c \in Clients :
            (reader[c] = "reading" /\ c \notin Queued(register)) => Registered(c)

(* The map keeps no dead connection: one whose read pump is over is being   *)
(* unregistered, unless its unregistration overtook its registration.       *)
ListedIsAlive ==
    "inverted" \notin hubIncidents =>
        \A c \in Clients :
            (Registered(c) /\ reader[c] = "done") => c \in Queued(unregister)

(* The goroutines of a connection that ends do end, and its handler is not  *)
(* held up for ever, unless a buffer overflows under the hub's own ping (it *)
(* then waits for itself on a full unregister channel) or the process dies. *)
PumpsEnd ==
    \A c \in Clients :
        reader[c] = "leaving" ~>
            \/ reader[c] = "done" /\ writer[c] = "done"
            \/ "hubOverflow" \in hubIncidents
            \/ hub.pc = "panicked"
=============================================================================
