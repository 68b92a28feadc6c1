-------------------------- MODULE ClusterElection --------------------------
(***************************************************************************)
(* Cluster membership and primary election (cluster/cluster.go), over the   *)
(* shared table cluster_nodes.                                              *)
(*                                                                          *)
(* Every node runs a loop that sends a heartbeat, marks nodes whose         *)
(* heartbeat is old, and elects a primary when it finds none that is        *)
(* healthy.  An election is a SELECT and two UPDATEs without a transaction. *)
(* Each node also remembers its role (currentState), which IsPrimary        *)
(* answers from and which the heartbeat writes back into the row.  Starting *)
(* a node elects before the first tick of its loop: three statements with   *)
(* timeouts of 5, 10 and 10 seconds against a ticker of 30.                 *)
(***************************************************************************)
EXTENDS Integers

CONSTANTS
    Nodes,       \* node ids, in the order of ORDER BY node_id
    Threshold,   \* heartbeatDegradedThreshold, in clock units
    MayBeLate,   \* whether a live node's heartbeat may get older than Threshold
    MaxEvents    \* bound: starts, stops and failed statements, together

ASSUME ClusterAssumption ==
    /\ Nodes \subseteq Nat \ {0}
    /\ {Threshold, MaxEvents} \subseteq Nat
    /\ MayBeLate \in BOOLEAN

VARIABLES
    rows,       \* cluster_nodes: state and is_healthy
    age,        \* how old each last_heartbeat is; what exceeds Threshold is alike
    proc,       \* down, starting, up, stopped (a tick may be pending), ended
    pc,         \* where the node's goroutine is
    role,       \* currentState
    stale,      \* what staleNodeIDs returned
    chosen,     \* newPrimary, 0 before an election
    used,       \* events so far, for the bound
    incidents   \* history: which of Incidents have happened

vars == <<rows, age, proc, pc, role, stale, chosen, used, incidents>>
locals == <<stale, chosen>>

Roles == {"primary", "secondary", "unknown"}
Procs == {"down", "starting", "up", "stopped", "ended"}
Labels == {"loop", "stale", "mark", "check", "select", "demote", "promote"}
Incidents == {"lowJoin", "late", "raced", "stop", "crossed"}
Row == [state : Roles \cup {"absent"}, healthy : BOOLEAN]
Absent == [state |-> "absent", healthy |-> FALSE]
Old == Threshold + 1
Live == {n \in Nodes : proc[n] \in {"starting", "up"}}
Registered == {n \in Nodes : rows[n] # Absent}
Healthy == {n \in Nodes : rows[n].healthy}
Primaries == {n \in Nodes : rows[n].state = "primary"}

TypeOK ==
    /\ rows \in [Nodes -> Row]
    /\ age \in [Nodes -> 0..Old]
    /\ proc \in [Nodes -> Procs]
    /\ pc \in [Nodes -> Labels]
    /\ role \in [Nodes -> Roles]
    /\ stale \in [Nodes -> SUBSET Nodes]
    /\ chosen \in [Nodes -> Nodes \cup {0}]
    /\ used \in Nat
    /\ incidents \subseteq Incidents

Init ==
    /\ rows = [n \in Nodes |-> Absent]
    /\ age = [n \in Nodes |-> 0]
    /\ proc = [n \in Nodes |-> "down"]
    /\ pc = [n \in Nodes |-> "loop"]
    /\ role = [n \in Nodes |-> "unknown"]
    /\ stale = [n \in Nodes |-> {}]
    /\ chosen = [n \in Nodes |-> 0]
    /\ used = 0
    /\ incidents = {}

Note(kind, happened) == incidents' = IF happened THEN incidents \cup {kind} ELSE incidents

Goto(n, l) == pc' = [pc EXCEPT ![n] = l]

Event == used < MaxEvents /\ used' = used + 1

(* A statement returns an error.                                            *)
Fails == Event

(* Time passes.  A node that lives and lets its heartbeat grow old is late. *)
Tick ==
    /\ \E n \in Registered : age[n] < Old
    /\ age' = [n \in Nodes |-> IF n \in Registered /\ age[n] < Old THEN age[n] + 1 ELSE age[n]]
    /\ LET late == \E n \in Live : age[n] >= Threshold IN
       (late => MayBeLate) /\ Note("late", late)
    /\ UNCHANGED <<rows, proc, pc, role, locals, used>>

-----------------------------------------------------------------------------
RegisterKeepsHealth(n) ==   \* mutant: INSERT, or UPDATE of the state only
    [rows EXCEPT ![n] = IF @ = Absent THEN [state |-> "secondary", healthy |-> TRUE]
                        ELSE [@ EXCEPT !.state = "secondary"]]

(* registerNode: INSERT OR REPLACE with is_healthy = 1.                     *)
RegisterNode(n) == [rows EXCEPT ![n] = [state |-> "secondary", healthy |-> TRUE]]

(* StartClusterManager registers the node and goes on to elect.             *)
StartClusterManager(n) ==
    /\ proc[n] = "down"
    /\ Event
    /\ proc' = [proc EXCEPT ![n] = "starting"]
    /\ role' = [role EXCEPT ![n] = "unknown"]
    /\ rows' = RegisterNode(n)
    /\ age' = [age EXCEPT ![n] = 0]
    /\ Goto(n, "select")
    /\ incidents' = incidents
          \cup (IF \E m \in Live : m > n THEN {"lowJoin"} ELSE {})
          \cup (IF \E m \in Nodes : n \in stale[m] THEN {"raced"} ELSE {})
    /\ UNCHANGED locals

UnregisterOffline(n) == [rows EXCEPT ![n] = [state |-> "offline", healthy |-> FALSE]]   \* mutant

UnregisterNode(n) == [rows EXCEPT ![n] = [state |-> "unknown", healthy |-> FALSE]]

(* StopClusterManager, called from another goroutine: a round under way     *)
(* goes on, and a tick that is already pending may start one more.  An      *)
(* error of unregisterNode is ignored.                                      *)
StopClusterManager(n) ==
    /\ proc[n] = "up"
    /\ Event
    /\ proc' = [proc EXCEPT ![n] = "stopped"]
    /\ rows' \in {rows, UnregisterNode(n)}
    /\ incidents' = incidents \cup {"stop"}
    /\ UNCHANGED <<age, pc, role, locals>>

(* The process ends, in whatever state.                                     *)
Exit(n) ==
    /\ proc[n] # "down"
    /\ proc' = [proc EXCEPT ![n] = "down"]
    /\ Goto(n, "loop")
    /\ role' = [role EXCEPT ![n] = "unknown"]
    /\ stale' = [stale EXCEPT ![n] = {}]
    /\ chosen' = [chosen EXCEPT ![n] = 0]
    /\ UNCHANGED <<rows, age, used, incidents>>

-----------------------------------------------------------------------------
(* heartbeatLoop: a tick.  sendHeartbeat writes the time and the role this  *)
(* node remembers; if it fails the round goes on.                           *)
SendHeartbeat(n) ==
    /\ pc[n] = "loop" /\ proc[n] \in {"up", "stopped"}
    /\ proc' = [proc EXCEPT ![n] = IF @ = "stopped" THEN "ended" ELSE @]
    /\ Goto(n, "stale")
    /\ \/ /\ rows' = [rows EXCEPT ![n].state = role[n]]
          /\ age' = [age EXCEPT ![n] = 0]
          /\ UNCHANGED used
       \/ Fails /\ UNCHANGED <<rows, age>>
    /\ UNCHANGED <<role, locals, incidents>>

(* checkClusterHealth: staleNodeIDs ...                                     *)
StaleNodeIDs(n) ==
    /\ pc[n] = "stale"
    /\ \/ LET old == {m \in Healthy : age[m] > Threshold} IN
          /\ stale' = [stale EXCEPT ![n] = old]
          /\ Goto(n, IF old = {} THEN "check" ELSE "mark")
          /\ UNCHANGED used
       \/ Fails /\ Goto(n, "loop") /\ UNCHANGED stale
    /\ UNCHANGED <<rows, age, proc, role, chosen, incidents>>

(* ... markNodesUnhealthy, which does nothing for an empty list ...         *)
MarkNodesUnhealthy(n) ==
    /\ pc[n] = "mark"
    /\ stale' = [stale EXCEPT ![n] = {}]
    /\ LET marked == [m \in Nodes |-> IF m \in stale[n] THEN [rows[m] EXCEPT !.healthy = FALSE]
                                     ELSE rows[m]]
       IN  \/ rows' = marked /\ Goto(n, "check") /\ UNCHANGED used
           \/ Fails /\ Goto(n, "loop") /\ rows' \in {rows, marked}
    /\ UNCHANGED <<age, proc, role, chosen, incidents>>

CheckAnyPrimary(n) ==   \* mutant: elects only when no row says primary
    /\ pc[n] = "check"
    /\ Goto(n, IF Primaries = {} THEN "select" ELSE "loop")
    /\ UNCHANGED <<rows, age, proc, role, locals, used, incidents>>

(* ... and a look at one row that says primary, whichever comes first.  An  *)
(* error leaves primaryHealthy false and so leads to an election as well.   *)
CheckPrimary(n) ==
    /\ pc[n] = "check"
    /\ \/ \E m \in Primaries : Goto(n, IF rows[m].healthy THEN "loop" ELSE "select") /\ UNCHANGED used
       \/ Primaries = {} /\ Goto(n, "select") /\ UNCHANGED used
       \/ Fails /\ Goto(n, "select")
    /\ UNCHANGED <<rows, age, proc, role, locals, incidents>>

-----------------------------------------------------------------------------
(* electPrimary.  When it returns, a starting node has started.             *)
Returns(n) ==
    /\ Goto(n, "loop")
    /\ proc' = [proc EXCEPT ![n] = IF @ = "starting" THEN "up" ELSE @]

LastCandidate(c) == c \in Healthy /\ \A m \in Healthy : m <= c   \* mutant: ORDER BY ... DESC

(* The first row of SELECT ... WHERE is_healthy = 1 ORDER BY node_id ASC.   *)
FirstCandidate(c) == c \in Healthy /\ \A m \in Healthy : c <= m

Elect(n, c) ==
    /\ FirstCandidate(c)
    /\ chosen' = [chosen EXCEPT ![n] = c]
    /\ Goto(n, "demote")
    /\ Note("crossed", \E m \in Nodes : chosen[m] \notin {0, c})
    /\ UNCHANGED <<proc, used>>

SelectCandidates(n) ==
    /\ pc[n] = "select"
    /\ \/ \E c \in Nodes : Elect(n, c)
       \/ Healthy = {} /\ Returns(n) /\ UNCHANGED <<chosen, used, incidents>>
       \/ Fails /\ Returns(n) /\ UNCHANGED <<chosen, incidents>>
    /\ UNCHANGED <<rows, age, role, stale>>

NobodyDemoted == rows   \* mutant: the first UPDATE is missing

AllSecondary == [m \in Nodes |-> IF m \in Registered THEN [rows[m] EXCEPT !.state = "secondary"]
                                 ELSE rows[m]]

(* UPDATE cluster_nodes SET state = 'secondary'.  If it fails it may have   *)
(* been applied all the same.                                               *)
Demote(n) ==
    /\ pc[n] = "demote"
    /\ \/ rows' = AllSecondary /\ Goto(n, "promote") /\ UNCHANGED <<proc, chosen, used>>
       \/ /\ Fails /\ Returns(n)
          /\ chosen' = [chosen EXCEPT ![n] = 0]
          /\ rows' \in {rows, AllSecondary}
    /\ UNCHANGED <<age, role, stale, incidents>>

(* UPDATE ... SET state = 'primary' WHERE node_id = newPrimary, then the    *)
(* node's own role.                                                         *)
Promote(n) ==
    /\ pc[n] = "promote"
    /\ Returns(n)
    /\ chosen' = [chosen EXCEPT ![n] = 0]
    /\ LET promoted == [rows EXCEPT ![chosen[n]].state = "primary"] IN
       \/ /\ rows' = promoted
          /\ role' = [role EXCEPT ![n] = IF chosen[n] = n THEN "primary" ELSE "secondary"]
          /\ UNCHANGED used
       \/ Fails /\ rows' \in {rows, promoted} /\ UNCHANGED role
    /\ UNCHANGED <<age, stale, incidents>>

Round(n) ==
    \/ SendHeartbeat(n)
    \/ StaleNodeIDs(n)
    \/ MarkNodesUnhealthy(n)
    \/ CheckPrimary(n)
    \/ SelectCandidates(n)
    \/ Demote(n)
    \/ Promote(n)

Next ==
    \/ Tick
    \/ \E n \in Nodes : \/ StartClusterManager(n)
                        \/ StopClusterManager(n)
                        \/ Exit(n)
                        \/ Round(n)

Spec == Init /\ [][Next]_vars

(* Time passes and a live node's loop goes round; nothing makes a node      *)
(* start, stop or die.                                                      *)
FairSpec ==
    /\ Spec
    /\ WF_vars(Tick)
    /\ \A n \in Nodes : WF_vars(Round(n))

-----------------------------------------------------------------------------
(* The inductive invariant behind the properties below, in parts: what the  *)
(* locals mean; a live node's heartbeat is fresh; nobody is about to mark a *)
(* live node; whoever leads or is about to has the lowest id that can be    *)
(* elected; elections under way agree, with each other and with the leader; *)
(* and once everybody is demoted only their choice is named primary.        *)
Bookkeeping ==
    \A n \in Nodes : /\ chosen[n] # 0 <=> pc[n] \in {"demote", "promote"}
                     /\ proc[n] = "down" => pc[n] = "loop"

NoneStopped ==
    "stop" \notin incidents => \A n \in Nodes : proc[n] \notin {"stopped", "ended"}

InTime == "late" \notin incidents => \A n \in Live : age[n] <= Threshold

StaleAreDown ==
    incidents \cap {"late", "raced"} = {} => \A n \in Nodes : stale[n] \cap Live = {}

Leads(n) == n \in Live /\ role[n] = "primary"
Elects(n) == n \in Live /\ chosen[n] = n

LowestLeads ==
    incidents \cap {"lowJoin", "late", "raced"} = {} =>
        \A n \in Nodes : Leads(n) \/ Elects(n) => \A m \in Healthy : n <= m

ElectionsAgree ==
    incidents = {} =>
        \A m, n \in Nodes : chosen[n] # 0 =>
            /\ chosen[m] # 0 => chosen[m] = chosen[n]
            /\ Leads(m) => chosen[n] = m

TableAgrees ==
    incidents = {} =>
        \A n \in Nodes : /\ pc[n] = "promote" => Primaries \subseteq {chosen[n]}
                         /\ Leads(n) => Primaries \subseteq {n}

-----------------------------------------------------------------------------
(* Two live nodes never both answer IsPrimary with true, whatever is        *)
(* stopped, crashes or fails, as long as nodes join in the order of their   *)
(* ids, every live node's heartbeat is in time and no node comes back while *)
(* another is about to mark it unhealthy.                                   *)
OnePrimary ==
    incidents \cap {"lowJoin", "late", "raced"} = {} =>
        \A m, n \in Live : (role[m] = "primary" /\ role[n] = "primary") => m = n

(* The table itself names at most one primary, so that "LIMIT 1" finds the  *)
(* one there is, unless besides those a node was stopped (its last round    *)
(* may write over what unregisterNode wrote) or an election began while one *)
(* with another outcome was between its statements.                         *)
OnePrimaryRow == incidents = {} => \A m, n \in Primaries : m = n

(* A live node can be elected: nothing ever sets is_healthy again but       *)
(* registration, so a node must not lose it while it lives, unless it is    *)
(* late or came back under another node's check.                            *)
LiveIsCandidate ==
    incidents \cap {"late", "raced"} = {} => Live \subseteq Healthy

CInv ==
    /\ TypeOK
    /\ Bookkeeping
    /\ NoneStopped
    /\ InTime
    /\ StaleAreDown
    /\ LiveIsCandidate
    /\ LowestLeads
    /\ ElectionsAgree
    /\ TableAgrees
    /\ OnePrimaryRow

(* A node that is alone takes over: when every other node is down, it       *)
(* becomes primary, or something happens to it or joins it first.           *)
Alone(n) == proc[n] = "up" /\ Live = {n}

TakesOver ==
    \A n \in Nodes :
        Alone(n) ~> (role[n] = "primary" \/ ~Alone(n) \/ incidents \cap {"late", "raced"} # {})
=============================================================================
