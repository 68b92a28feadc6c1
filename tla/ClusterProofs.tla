--------------------------- MODULE ClusterProofs ---------------------------
(***************************************************************************)
(* Proofs about ClusterElection, for every set of node ids, every threshold *)
(* and any number of starts, stops and failed statements.                   *)
(***************************************************************************)
EXTENDS ClusterElection, TLAPS

USE ClusterAssumption DEF ClusterAssumption

(* An UPDATE of the column state leaves is_healthy alone ...                *)
LEMMA SetState ==
  ASSUME NEW r \in Row, NEW s \in Roles
  PROVE  LET q == [r EXCEPT !.state = s]
         IN  q \in Row /\ q.state = s /\ q.healthy = r.healthy
  BY DEF Row

(* ... and one of is_healthy leaves the state alone.                        *)
LEMMA SetUnhealthy ==
  ASSUME NEW r \in Row
  PROVE  LET q == [r EXCEPT !.healthy = FALSE]
         IN  q \in Row /\ q.state = r.state /\ ~q.healthy
  BY DEF Row

(* INSERT writes a whole row.                                               *)
LEMMA NewRow ==
  ASSUME NEW s \in Roles, NEW h \in BOOLEAN
  PROVE  [state |-> s, healthy |-> h] \in Row
  BY DEF Row

(* registerNode makes the node a candidate, and secondary.                  *)
LEMMA RegisterTable ==
  ASSUME rows \in [Nodes -> Row], NEW n \in Nodes, rows' = RegisterNode(n)
  PROVE  /\ rows' \in [Nodes -> Row]
         /\ Healthy' = Healthy \cup {n}
         /\ Primaries' = Primaries \ {n}
  <1> DEFINE r == [state |-> "secondary", healthy |-> TRUE]
  <1>1. r \in Row
    BY NewRow DEF Roles
  <1>2. rows' = [rows EXCEPT ![n] = r]
    BY DEF RegisterNode
  <1>3. r.healthy /\ r.state = "secondary"
    OBVIOUS
  <1> HIDE DEF r
  <1> QED
    BY <1>1, <1>2, <1>3 DEF Healthy, Primaries

(* unregisterNode makes it neither a candidate nor primary.                 *)
LEMMA UnregisterTable ==
  ASSUME rows \in [Nodes -> Row], NEW n \in Nodes, rows' = UnregisterNode(n)
  PROVE  /\ rows' \in [Nodes -> Row]
         /\ Healthy' = Healthy \ {n}
         /\ Primaries' = Primaries \ {n}
  <1> DEFINE r == [state |-> "unknown", healthy |-> FALSE]
  <1>1. r \in Row
    BY NewRow DEF Roles
  <1>2. rows' = [rows EXCEPT ![n] = r]
    BY DEF UnregisterNode
  <1>3. ~r.healthy /\ r.state = "unknown"
    OBVIOUS
  <1> HIDE DEF r
  <1> QED
    BY <1>1, <1>2, <1>3 DEF Healthy, Primaries

(* sendHeartbeat and the second UPDATE of an election write one state.      *)
LEMMA StateTable ==
  ASSUME rows \in [Nodes -> Row], NEW n \in Nodes, NEW s \in Roles,
         rows' = [rows EXCEPT ![n].state = s]
  PROVE  /\ rows' \in [Nodes -> Row]
         /\ Healthy' = Healthy
         /\ Primaries' = IF s = "primary" THEN Primaries \cup {n} ELSE Primaries \ {n}
  <1> DEFINE r == [rows[n] EXCEPT !.state = s]
  <1>1. r \in Row /\ r.state = s /\ r.healthy = rows[n].healthy
    BY SetState
  <1>2. rows' = [rows EXCEPT ![n] = r]
    OBVIOUS
  <1> HIDE DEF r
  <1> QED
    BY <1>1, <1>2 DEF Healthy, Primaries

(* markNodesUnhealthy takes the listed nodes out of the candidates.         *)
LEMMA MarkTable ==
  ASSUME rows \in [Nodes -> Row], NEW S \in SUBSET Nodes,
         rows' = [m \in Nodes |-> IF m \in S THEN [rows[m] EXCEPT !.healthy = FALSE] ELSE rows[m]]
  PROVE  /\ rows' \in [Nodes -> Row]
         /\ Healthy' = Healthy \ S
         /\ Primaries' = Primaries
  <1>1. \A m \in Nodes : /\ rows'[m] \in Row
                         /\ rows'[m].state = rows[m].state
                         /\ rows'[m].healthy <=> (m \notin S /\ rows[m].healthy)
    BY SetUnhealthy
  <1> QED
    BY <1>1 DEF Healthy, Primaries

(* The first UPDATE of an election leaves no row that says primary.         *)
LEMMA DemoteTable ==
  ASSUME rows \in [Nodes -> Row], rows' = AllSecondary
  PROVE  /\ rows' \in [Nodes -> Row]
         /\ Healthy' = Healthy
         /\ Primaries' = {}
  <1>1. rows' = [m \in Nodes |-> IF m \in Registered THEN [rows[m] EXCEPT !.state = "secondary"]
                                 ELSE rows[m]]
    BY DEF AllSecondary
  <1>2. ASSUME NEW m \in Nodes
        PROVE  /\ rows'[m] \in Row
               /\ rows'[m].state # "primary"
               /\ rows'[m].healthy = rows[m].healthy
    <2>1. CASE m \in Registered
      BY <1>1, <2>1, SetState DEF Roles
    <2>2. CASE m \notin Registered
      BY <1>1, <2>2 DEF Registered, Absent
    <2> QED
      BY <2>1, <2>2
  <1> QED
    BY <1>1, <1>2 DEF Healthy, Primaries

(* The table is empty and no node runs: the initial state is well typed.    *)
LEMMA TypeInit == Init => TypeOK
  BY DEF Init, TypeOK, Row, Absent, Roles, Old, Procs, Labels, Incidents

(* Every statement of the loop, every start, stop and exit keeps the types. *)
LEMMA TypeStep == TypeOK /\ [Next]_vars => TypeOK'
  <1> SUFFICES ASSUME TypeOK, [Next]_vars PROVE TypeOK'
    OBVIOUS
  <1> USE DEF TypeOK, Old
  <1>1. CASE Tick
    <2>1. incidents' \subseteq Incidents
      BY <1>1 DEF Tick, Note, Incidents
    <2> QED
      BY <1>1, <2>1 DEF Tick, locals
  <1>2. ASSUME NEW n \in Nodes, StartClusterManager(n) PROVE TypeOK'
    <2>1. rows' \in [Nodes -> Row]
      BY <1>2, RegisterTable DEF StartClusterManager
    <2>2. incidents' \subseteq Incidents
      BY <1>2 DEF StartClusterManager, Incidents
    <2>3. proc' \in [Nodes -> Procs] /\ pc' \in [Nodes -> Labels] /\ role' \in [Nodes -> Roles]
      BY <1>2 DEF StartClusterManager, Goto, Procs, Labels, Roles
    <2> QED
      BY <1>2, <2>1, <2>2, <2>3 DEF StartClusterManager, Event, locals
  <1>3. ASSUME NEW n \in Nodes, StopClusterManager(n) PROVE TypeOK'
    <2>1. rows' \in [Nodes -> Row]
      BY <1>3, UnregisterTable DEF StopClusterManager
    <2>2. incidents' \subseteq Incidents /\ proc' \in [Nodes -> Procs]
      BY <1>3 DEF StopClusterManager, Incidents, Procs
    <2> QED
      BY <1>3, <2>1, <2>2 DEF StopClusterManager, Event, locals
  <1>4. ASSUME NEW n \in Nodes, Exit(n) PROVE TypeOK'
    BY <1>4 DEF Exit, Goto, Roles, Procs, Labels
  <1>5. ASSUME NEW n \in Nodes, Round(n) PROVE TypeOK'
    <2>1. CASE SendHeartbeat(n)
      <3>1. rows' \in [Nodes -> Row]
        BY <2>1, StateTable DEF SendHeartbeat
      <3>2. proc' \in [Nodes -> Procs] /\ pc' \in [Nodes -> Labels]
        BY <2>1 DEF SendHeartbeat, Goto, Procs, Labels
      <3> QED
        BY <2>1, <3>1, <3>2 DEF SendHeartbeat, Fails, Event, locals
    <2>2. CASE StaleNodeIDs(n)
      <3>1. pc' \in [Nodes -> Labels] /\ stale' \in [Nodes -> SUBSET Nodes]
        BY <2>2 DEF StaleNodeIDs, Goto, Labels, Healthy
      <3> QED
        BY <2>2, <3>1 DEF StaleNodeIDs, Fails, Event
    <2>3. CASE MarkNodesUnhealthy(n)
      <3>1. rows' \in [Nodes -> Row]
        BY <2>3, MarkTable DEF MarkNodesUnhealthy
      <3>2. pc' \in [Nodes -> Labels]
        BY <2>3 DEF MarkNodesUnhealthy, Goto, Labels
      <3>3. stale' \in [Nodes -> SUBSET Nodes] /\ used' \in Nat
        BY <2>3 DEF MarkNodesUnhealthy, Fails, Event
      <3> QED
        BY <2>3, <3>1, <3>2, <3>3 DEF MarkNodesUnhealthy
    <2>4. CASE CheckPrimary(n)
      <3>1. pc' \in [Nodes -> Labels]
        BY <2>4 DEF CheckPrimary, Goto, Labels
      <3> QED
        BY <2>4, <3>1 DEF CheckPrimary, Fails, Event, locals
    <2>5. CASE SelectCandidates(n)
      <3>1. ASSUME NEW c \in Nodes, Elect(n, c) PROVE TypeOK'
        <4>1. pc' \in [Nodes -> Labels] /\ incidents' \subseteq Incidents
          BY <3>1 DEF Elect, Goto, Labels, Note, Incidents
        <4> QED
          BY <2>5, <3>1, <4>1 DEF Elect, SelectCandidates
      <3>2. CASE Returns(n) /\ chosen' = chosen /\ incidents' = incidents /\ used' \in Nat
        <4>1. proc' \in [Nodes -> Procs] /\ pc' \in [Nodes -> Labels]
          BY <3>2 DEF Returns, Goto, Procs, Labels
        <4> QED
          BY <2>5, <3>2, <4>1 DEF SelectCandidates
      <3> QED
        BY <2>5, <3>1, <3>2 DEF SelectCandidates, Fails, Event
    <2>6. CASE Demote(n)
      <3>1. rows' \in [Nodes -> Row]
        BY <2>6, DemoteTable DEF Demote
      <3>2. proc' \in [Nodes -> Procs] /\ pc' \in [Nodes -> Labels]
        BY <2>6 DEF Demote, Returns, Goto, Procs, Labels
      <3>3. chosen' \in [Nodes -> Nodes \cup {0}] /\ used' \in Nat
        BY <2>6 DEF Demote, Fails, Event
      <3> QED
        BY <2>6, <3>1, <3>2, <3>3 DEF Demote
    <2>7. CASE Promote(n)
      <3>1. rows' \in [Nodes -> Row]
        <4>1. CASE chosen[n] \in Nodes
          BY <2>7, <4>1, StateTable DEF Promote, Roles
        <4>2. CASE chosen[n] \notin Nodes
          BY <2>7, <4>2 DEF Promote
        <4> QED
          BY <4>1, <4>2
      <3>2. proc' \in [Nodes -> Procs] /\ pc' \in [Nodes -> Labels] /\ role' \in [Nodes -> Roles]
        BY <2>7 DEF Promote, Returns, Goto, Procs, Labels, Roles
      <3>3. chosen' \in [Nodes -> Nodes \cup {0}] /\ used' \in Nat
        BY <2>7 DEF Promote, Fails, Event
      <3> QED
        BY <2>7, <3>1, <3>2, <3>3 DEF Promote
    <2> QED
      BY <1>5, <2>1, <2>2, <2>3, <2>4, <2>5, <2>6, <2>7 DEF Round
  <1>6. CASE UNCHANGED vars
    BY <1>6 DEF vars, locals
  <1> QED
    BY <1>1, <1>2, <1>3, <1>4, <1>5, <1>6 DEF Next

(* Every variable keeps its type.                                           *)
THEOREM ClusterTypeCorrect == Spec => []TypeOK
  BY TypeInit, TypeStep, PTL DEF Spec

-----------------------------------------------------------------------------
(* Nobody runs at first, so CInv holds.                                     *)
LEMMA InvInit == Init => CInv
  <1> SUFFICES ASSUME Init PROVE CInv
    OBVIOUS
  <1>1. TypeOK
    BY TypeInit
  <1>2. Live = {} /\ Primaries = {}
    BY DEF Init, Live, Primaries, Absent
  <1>3. Bookkeeping /\ NoneStopped /\ InTime /\ StaleAreDown
    BY <1>2 DEF Init, Bookkeeping, NoneStopped, InTime, StaleAreDown
  <1>4. LiveIsCandidate /\ LowestLeads /\ ElectionsAgree /\ TableAgrees /\ OnePrimaryRow
    BY <1>2 DEF Init, LiveIsCandidate, LowestLeads, ElectionsAgree, TableAgrees,
                OnePrimaryRow, Leads, Elects
  <1> QED
    BY <1>1, <1>3, <1>4 DEF CInv

(* Incidents only accumulate, so a part of CInv that excludes some of them  *)
(* holds vacuously after them.                                              *)
LEMMA IncidentsGrow == ASSUME [Next]_vars PROVE incidents \subseteq incidents'
  <1>1. CASE Tick
    BY <1>1 DEF Tick, Note
  <1>2. ASSUME NEW n \in Nodes, StartClusterManager(n) \/ StopClusterManager(n) \/ Exit(n)
        PROVE  incidents \subseteq incidents'
    BY <1>2 DEF StartClusterManager, StopClusterManager, Exit
  <1>3. ASSUME NEW n \in Nodes, Round(n) PROVE incidents \subseteq incidents'
    BY <1>3 DEF Round, SendHeartbeat, StaleNodeIDs, MarkNodesUnhealthy, CheckPrimary,
                SelectCandidates, Elect, Note, Demote, Promote
  <1>4. CASE UNCHANGED vars
    BY <1>4 DEF vars
  <1> QED
    BY <1>1, <1>2, <1>3, <1>4 DEF Next

(* The loop of a node neither starts nor ends a process: a stopped node's   *)
(* last round is not a live node's.                                         *)
LEMMA RoundLive == ASSUME TypeOK, NEW n \in Nodes, Round(n)
                   PROVE  /\ Live' = Live
                          /\ \A m \in Nodes : /\ proc'[m] = "down" <=> proc[m] = "down"
                                              /\ m # n => proc'[m] = proc[m] /\ pc'[m] = pc[m]
                          /\ proc'[n] = proc[n] \/ proc[n] \in {"starting", "stopped"}
                          /\ proc'[n] = "ended" => proc[n] \in {"stopped", "ended"}
                          /\ proc'[n] = "stopped" => proc[n] = "stopped"
  <1> USE DEF TypeOK
  <1>1. CASE SendHeartbeat(n)
    BY <1>1 DEF SendHeartbeat, Goto, Live
  <1>2. CASE StaleNodeIDs(n) \/ MarkNodesUnhealthy(n) \/ CheckPrimary(n)
    BY <1>2 DEF StaleNodeIDs, MarkNodesUnhealthy, CheckPrimary, Goto, Live
  <1>3. CASE SelectCandidates(n)
    BY <1>3 DEF SelectCandidates, Elect, Returns, Goto, Live
  <1>4. CASE Demote(n) \/ Promote(n)
    BY <1>4 DEF Demote, Promote, Returns, Goto, Live
  <1> QED
    BY <1>1, <1>2, <1>3, <1>4 DEF Round

(* newPrimary is set between the SELECT of an election and its end, and a   *)
(* node that is down is nowhere.                                            *)
LEMMA BookkeepingStep == CInv /\ [Next]_vars => Bookkeeping'
  <1> SUFFICES ASSUME CInv, [Next]_vars PROVE Bookkeeping'
    OBVIOUS
  <1> USE DEF CInv, TypeOK, Bookkeeping
  <1>1. CASE Tick
    BY <1>1 DEF Tick, locals
  <1>2. ASSUME NEW n \in Nodes, StartClusterManager(n) PROVE Bookkeeping'
    BY <1>2 DEF StartClusterManager, Goto, locals
  <1>3. ASSUME NEW n \in Nodes, StopClusterManager(n) PROVE Bookkeeping'
    BY <1>3 DEF StopClusterManager, locals
  <1>4. ASSUME NEW n \in Nodes, Exit(n) PROVE Bookkeeping'
    BY <1>4 DEF Exit, Goto
  <1>5. ASSUME NEW n \in Nodes, Round(n) PROVE Bookkeeping'
    <2>1. \A m \in Nodes : proc'[m] = "down" => pc'[m] = "loop"
      <3>1. pc[n] = "loop" => proc[n] # "down"
        BY <1>5 DEF Round, SendHeartbeat, StaleNodeIDs, MarkNodesUnhealthy, CheckPrimary,
                    SelectCandidates, Demote, Promote
      <3> QED
        BY <1>5, <3>1, RoundLive
    <2>2. CASE SendHeartbeat(n)
      BY <2>1, <2>2 DEF SendHeartbeat, Goto, locals
    <2>3. CASE StaleNodeIDs(n) \/ MarkNodesUnhealthy(n)
      BY <2>1, <2>3 DEF StaleNodeIDs, MarkNodesUnhealthy, Goto
    <2>4. CASE CheckPrimary(n)
      BY <2>1, <2>4 DEF CheckPrimary, Goto, locals
    <2>5. CASE SelectCandidates(n)
      <3>1. ASSUME NEW c \in Nodes, Elect(n, c) PROVE Bookkeeping'
        BY <2>1, <3>1 DEF Elect, Goto
      <3>2. CASE Returns(n) /\ chosen' = chosen
        BY <2>1, <2>5, <3>2 DEF Returns, Goto, SelectCandidates
      <3> QED
        BY <2>5, <3>1, <3>2 DEF SelectCandidates
    <2>6. CASE Demote(n)
      BY <2>1, <2>6 DEF Demote, Returns, Goto
    <2>7. CASE Promote(n)
      BY <2>1, <2>7 DEF Promote, Returns, Goto
    <2> QED
      BY <1>5, <2>2, <2>3, <2>4, <2>5, <2>6, <2>7 DEF Round
  <1>6. CASE UNCHANGED vars
    BY <1>6 DEF vars
  <1> QED
    BY <1>1, <1>2, <1>3, <1>4, <1>5, <1>6 DEF Next

(* Only StopClusterManager makes a node stopped.                            *)
LEMMA NoneStoppedStep == CInv /\ [Next]_vars => NoneStopped'
  <1> SUFFICES ASSUME CInv, [Next]_vars, "stop" \notin incidents', NEW m \in Nodes
               PROVE  proc'[m] \notin {"stopped", "ended"}
    BY DEF NoneStopped
  <1>0. proc[m] \notin {"stopped", "ended"}
    BY IncidentsGrow DEF CInv, NoneStopped
  <1> USE <1>0 DEF CInv, TypeOK
  <1>1. CASE Tick
    BY <1>1 DEF Tick
  <1>2. ASSUME NEW n \in Nodes, StartClusterManager(n) \/ StopClusterManager(n) \/ Exit(n)
        PROVE  proc'[m] \notin {"stopped", "ended"}
    BY <1>2 DEF StartClusterManager, StopClusterManager, Exit
  <1>3. ASSUME NEW n \in Nodes, Round(n) PROVE proc'[m] \notin {"stopped", "ended"}
    BY <1>3, RoundLive
  <1>4. CASE UNCHANGED vars
    BY <1>4 DEF vars
  <1> QED
    BY <1>1, <1>2, <1>3, <1>4 DEF Next

(* Unless time has overtaken a live node, its heartbeat is fresh: it starts *)
(* with a fresh one, and only time makes it older.                          *)
LEMMA InTimeStep == CInv /\ [Next]_vars => InTime'
  <1> SUFFICES ASSUME CInv, [Next]_vars, "late" \notin incidents', NEW m \in Live'
               PROVE  age'[m] <= Threshold
    BY DEF InTime
  <1>0. m \in Nodes /\ (m \in Live => age[m] <= Threshold)
    BY IncidentsGrow DEF CInv, InTime, Live
  <1> USE <1>0 DEF CInv, TypeOK
  <1>1. CASE Tick
    <2>1. m \in Live /\ age[m] < Threshold
      BY <1>1 DEF Tick, Note, Live
    <2> QED
      BY <1>1, <2>1 DEF Tick
  <1>2. ASSUME NEW n \in Nodes, StartClusterManager(n) \/ StopClusterManager(n) \/ Exit(n)
        PROVE  age'[m] <= Threshold
    BY <1>2 DEF StartClusterManager, StopClusterManager, Exit, Live
  <1>3. ASSUME NEW n \in Nodes, Round(n) PROVE age'[m] <= Threshold
    <2>1. m \in Live
      BY <1>3, RoundLive
    <2> QED
      BY <1>3, <2>1 DEF Round, SendHeartbeat, StaleNodeIDs, MarkNodesUnhealthy, CheckPrimary,
                        SelectCandidates, Demote, Promote
  <1>4. CASE UNCHANGED vars
    BY <1>4 DEF vars, Live
  <1> QED
    BY <1>1, <1>2, <1>3, <1>4 DEF Next

(* What staleNodeIDs returned is not alive when markNodesUnhealthy comes:   *)
(* the heartbeat was old, and the node has not started since.               *)
LEMMA StaleStep == CInv /\ [Next]_vars => StaleAreDown'
  <1> SUFFICES ASSUME CInv, [Next]_vars, incidents' \cap {"late", "raced"} = {},
                      NEW k \in Nodes
               PROVE  stale'[k] \cap Live' = {}
    BY DEF StaleAreDown
  <1>0. incidents \cap {"late", "raced"} = {}
    BY IncidentsGrow
  <1>1. stale[k] \cap Live = {} /\ \A m \in Live : age[m] <= Threshold
    BY <1>0 DEF CInv, StaleAreDown, InTime
  <1> USE <1>1 DEF CInv, TypeOK
  <1>2. CASE Tick
    BY <1>2 DEF Tick, Live, locals
  <1>3. ASSUME NEW n \in Nodes, StartClusterManager(n) PROVE stale'[k] \cap Live' = {}
    <2>1. n \notin stale[k] /\ stale' = stale
      BY <1>3 DEF StartClusterManager, locals
    <2>2. Live' = Live \cup {n}
      BY <1>3 DEF StartClusterManager, Live
    <2> QED
      BY <2>1, <2>2
  <1>4. ASSUME NEW n \in Nodes, StopClusterManager(n) PROVE stale'[k] \cap Live' = {}
    BY <1>4 DEF StopClusterManager, Live, locals
  <1>5. ASSUME NEW n \in Nodes, Exit(n) PROVE stale'[k] \cap Live' = {}
    BY <1>5 DEF Exit, Live
  <1>6. ASSUME NEW n \in Nodes, Round(n) PROVE stale'[k] \cap Live' = {}
    <2>0. Live' = Live
      BY <1>6, RoundLive
    <2>1. CASE StaleNodeIDs(n)
      <3> DEFINE old == {m \in Healthy : age[m] > Threshold}
      <3>1. stale'[k] = stale[k] \/ stale'[k] = old
        BY <2>1 DEF StaleNodeIDs
      <3>2. \A m \in Live : age[m] \in Int /\ Threshold \in Int
        BY DEF Live, Old
      <3>3. old \cap Live = {}
        BY <3>2
      <3> QED
        BY <2>0, <3>1, <3>3
    <2>2. CASE MarkNodesUnhealthy(n)
      BY <2>0, <2>2 DEF MarkNodesUnhealthy
    <2>3. CASE stale' = stale
      BY <2>0, <2>3
    <2> QED
      BY <1>6, <2>1, <2>2, <2>3 DEF Round, SendHeartbeat, CheckPrimary, SelectCandidates,
                                    Demote, Promote, locals
  <1>7. CASE UNCHANGED vars
    BY <1>7 DEF vars, Live
  <1> QED
    BY <1>2, <1>3, <1>4, <1>5, <1>6, <1>7 DEF Next

(* What a round does to is_healthy: markNodesUnhealthy alone clears it, for *)
(* the nodes of its list.                                                   *)
LEMMA RoundHealthy == ASSUME TypeOK, NEW n \in Nodes, Round(n), Bookkeeping
                      PROVE  \/ Healthy' = Healthy
                             \/ MarkNodesUnhealthy(n) /\ Healthy' = Healthy \ stale[n]
  <1> USE DEF TypeOK
  <1>1. CASE SendHeartbeat(n)
    <2>1. CASE rows' = rows
      BY <2>1 DEF Healthy
    <2>2. CASE rows' = [rows EXCEPT ![n].state = role[n]]
      BY <2>2, StateTable
    <2> QED
      BY <1>1, <2>1, <2>2 DEF SendHeartbeat
  <1>2. CASE StaleNodeIDs(n) \/ CheckPrimary(n) \/ SelectCandidates(n)
    BY <1>2 DEF StaleNodeIDs, CheckPrimary, SelectCandidates, Healthy
  <1>3. CASE MarkNodesUnhealthy(n)
    <2>1. CASE rows' = rows
      BY <2>1 DEF Healthy
    <2>2. CASE rows' # rows
      BY <1>3, <2>2, MarkTable DEF MarkNodesUnhealthy
    <2> QED
      BY <2>1, <2>2
  <1>4. CASE Demote(n)
    <2>1. CASE rows' = rows
      BY <2>1 DEF Healthy
    <2>2. CASE rows' = AllSecondary
      BY <2>2, DemoteTable
    <2> QED
      BY <1>4, <2>1, <2>2 DEF Demote
  <1>5. CASE Promote(n)
    <2>1. CASE rows' = rows
      BY <2>1 DEF Healthy
    <2>2. CASE rows' = [rows EXCEPT ![chosen[n]].state = "primary"]
      <3>1. chosen[n] \in Nodes
        BY <1>5 DEF Bookkeeping, Promote
      <3> QED
        BY <2>2, <3>1, StateTable DEF Roles
    <2> QED
      BY <1>5, <2>1, <2>2 DEF Promote
  <1> QED
    BY <1>1, <1>2, <1>3, <1>4, <1>5 DEF Round

(* A live node keeps is_healthy: it starts with it, and it is on no list of *)
(* nodes to be marked.                                                      *)
LEMMA CandidateStep == CInv /\ [Next]_vars => LiveIsCandidate'
  <1> SUFFICES ASSUME CInv, [Next]_vars, incidents' \cap {"late", "raced"} = {}
               PROVE  Live' \subseteq Healthy'
    BY DEF LiveIsCandidate
  <1>0. incidents \cap {"late", "raced"} = {}
    BY IncidentsGrow
  <1>1. Live \subseteq Healthy /\ \A k \in Nodes : stale[k] \cap Live = {}
    BY <1>0 DEF CInv, StaleAreDown, LiveIsCandidate
  <1> USE <1>1 DEF CInv, TypeOK
  <1>2. CASE Tick
    BY <1>2 DEF Tick, Live, Healthy
  <1>3. ASSUME NEW n \in Nodes, StartClusterManager(n) PROVE Live' \subseteq Healthy'
    <2>1. Healthy' = Healthy \cup {n}
      BY <1>3, RegisterTable DEF StartClusterManager
    <2>2. Live' = Live \cup {n}
      BY <1>3 DEF StartClusterManager, Live
    <2> QED
      BY <2>1, <2>2
  <1>4. ASSUME NEW n \in Nodes, StopClusterManager(n) PROVE Live' \subseteq Healthy'
    <2>1. Healthy' = Healthy \/ Healthy' = Healthy \ {n}
      BY <1>4, UnregisterTable DEF StopClusterManager, Healthy
    <2>2. Live' = Live \ {n}
      BY <1>4 DEF StopClusterManager, Live
    <2> QED
      BY <2>1, <2>2
  <1>5. ASSUME NEW n \in Nodes, Exit(n) PROVE Live' \subseteq Healthy'
    BY <1>5 DEF Exit, Live, Healthy
  <1>6. ASSUME NEW n \in Nodes, Round(n) PROVE Live' \subseteq Healthy'
    BY <1>6, RoundLive, RoundHealthy
  <1>7. CASE UNCHANGED vars
    BY <1>7 DEF vars, Live, Healthy
  <1> QED
    BY <1>2, <1>3, <1>4, <1>5, <1>6, <1>7 DEF Next

(* What a step outside the elections does to who leads: a start and an exit *)
(* forget a role, the rest of the loop leaves roles and choices alone.      *)
LEMMA QuietRound ==
  ASSUME TypeOK, NEW n \in Nodes,
         SendHeartbeat(n) \/ StaleNodeIDs(n) \/ MarkNodesUnhealthy(n) \/ CheckPrimary(n)
  PROVE  role' = role /\ chosen' = chosen /\ incidents' = incidents
  BY DEF SendHeartbeat, StaleNodeIDs, MarkNodesUnhealthy, CheckPrimary, locals

(* A node that leads, or is about to, has the lowest id among those that    *)
(* can be elected: FirstCandidate chose it, and nobody lower has joined.    *)
LEMMA LowestStep == CInv /\ [Next]_vars => LowestLeads'
  <1> SUFFICES ASSUME CInv, [Next]_vars, incidents' \cap {"lowJoin", "late", "raced"} = {},
                      NEW k \in Nodes, Leads(k)' \/ Elects(k)', NEW m \in Healthy'
               PROVE  k <= m
    BY DEF LowestLeads
  <1>0. incidents \cap {"lowJoin", "late", "raced"} = {}
    BY IncidentsGrow
  <1>1. Leads(k) \/ Elects(k) => \A j \in Healthy : k <= j
    BY <1>0 DEF CInv, LowestLeads
  <1> USE DEF CInv, TypeOK, Leads, Elects
  <1>2. CASE Tick
    BY <1>1, <1>2 DEF Tick, Live, Healthy, locals
  <1>3. ASSUME NEW n \in Nodes, StartClusterManager(n) PROVE k <= m
    <2>1. Healthy' = Healthy \cup {n}
      BY <1>3, RegisterTable DEF StartClusterManager
    <2>2. Live' = Live \cup {n} /\ chosen' = chosen /\ role' = [role EXCEPT ![n] = "unknown"]
      BY <1>3 DEF StartClusterManager, Live, locals
    <2>3. chosen[n] # n
      BY <1>3 DEF StartClusterManager, Bookkeeping
    <2>4. k # n /\ (Leads(k) \/ Elects(k))
      BY <2>2, <2>3
    <2>5. ~(k > n)
      BY <1>3, <2>4 DEF StartClusterManager
    <2> QED
      BY <1>1, <2>1, <2>4, <2>5
  <1>4. ASSUME NEW n \in Nodes, StopClusterManager(n) PROVE k <= m
    <2>1. m \in Healthy
      BY <1>4, UnregisterTable DEF StopClusterManager, Healthy
    <2> QED
      BY <1>1, <1>4, <2>1 DEF StopClusterManager, Live, locals
  <1>5. ASSUME NEW n \in Nodes, Exit(n) PROVE k <= m
    BY <1>1, <1>5 DEF Exit, Live, Healthy
  <1>6. ASSUME NEW n \in Nodes, Round(n) PROVE k <= m
    <2>0. Live' = Live /\ m \in Healthy
      BY <1>6, RoundLive, RoundHealthy
    <2>1. CASE SendHeartbeat(n) \/ StaleNodeIDs(n) \/ MarkNodesUnhealthy(n) \/ CheckPrimary(n)
      BY <1>1, <2>0, <2>1, QuietRound
    <2>2. CASE SelectCandidates(n)
      <3>1. ASSUME NEW c \in Nodes, Elect(n, c) PROVE k <= m
        BY <1>1, <2>0, <2>2, <3>1 DEF SelectCandidates, Elect, FirstCandidate
      <3>2. CASE chosen' = chosen
        BY <1>1, <2>0, <2>2, <3>2 DEF SelectCandidates
      <3> QED
        BY <2>2, <3>1, <3>2 DEF SelectCandidates
    <2>3. CASE Demote(n)
      BY <1>1, <2>0, <2>3 DEF Demote
    <2>4. CASE Promote(n)
      BY <1>1, <2>0, <2>4 DEF Promote
    <2> QED
      BY <1>6, <2>1, <2>2, <2>3, <2>4 DEF Round
  <1>7. CASE UNCHANGED vars
    BY <1>1, <1>7 DEF vars, Live, Healthy
  <1> QED
    BY <1>2, <1>3, <1>4, <1>5, <1>6, <1>7 DEF Next

(* Two live nodes that lead are the same one: each can be elected, and each *)
(* has the lowest id.                                                       *)
LEMMA LeadersAgree ==
  ASSUME TypeOK, LowestLeads, LiveIsCandidate,
         incidents \cap {"lowJoin", "late", "raced"} = {},
         NEW m \in Nodes, NEW n \in Nodes, Leads(m), Leads(n)
  PROVE  m = n
  <1>1. m \in Healthy /\ n \in Healthy
    BY DEF LiveIsCandidate, Leads
  <1>2. m <= n /\ n <= m
    BY <1>1 DEF LowestLeads
  <1> QED
    BY <1>2

(* Elections under way agree with each other and with the leader: the first *)
(* candidate is the leader while there is one.                              *)
LEMMA AgreeStep == CInv /\ [Next]_vars => ElectionsAgree'
  <1> SUFFICES ASSUME CInv, [Next]_vars, incidents' = {},
                      NEW j \in Nodes, NEW k \in Nodes, chosen'[k] # 0
               PROVE  /\ chosen'[j] # 0 => chosen'[j] = chosen'[k]
                      /\ Leads(j)' => chosen'[k] = j
    BY DEF ElectionsAgree
  <1> DEFINE Goal == /\ chosen'[j] # 0 => chosen'[j] = chosen'[k]
                     /\ Leads(j)' => chosen'[k] = j
  <1>0. incidents = {}
    BY IncidentsGrow
  <1>1. \A m, n \in Nodes : chosen[n] # 0 => /\ chosen[m] # 0 => chosen[m] = chosen[n]
                                             /\ Leads(m) => chosen[n] = m
    BY <1>0 DEF CInv, ElectionsAgree
  <1> USE DEF CInv, TypeOK, Leads
  <1>2. CASE Tick
    BY <1>1, <1>2 DEF Tick, Live, locals
  <1>3. ASSUME NEW n \in Nodes, StartClusterManager(n) PROVE Goal
    <2>1. chosen' = chosen /\ role'[n] = "unknown" /\ \A m \in Nodes : m # n => role'[m] = role[m]
      BY <1>3 DEF StartClusterManager, locals
    <2>2. Live' = Live \cup {n}
      BY <1>3 DEF StartClusterManager, Live
    <2> QED
      BY <1>1, <2>1, <2>2
  <1>4. ASSUME NEW n \in Nodes, StopClusterManager(n) PROVE Goal
    BY <1>4 DEF StopClusterManager
  <1>5. ASSUME NEW n \in Nodes, Exit(n) PROVE Goal
    BY <1>1, <1>5 DEF Exit, Live
  <1>6. ASSUME NEW n \in Nodes, Round(n) PROVE Goal
    <2>0. Live' = Live
      BY <1>6, RoundLive
    <2>1. CASE SendHeartbeat(n) \/ StaleNodeIDs(n) \/ MarkNodesUnhealthy(n) \/ CheckPrimary(n)
      BY <1>1, <2>0, <2>1, QuietRound
    <2>2. CASE SelectCandidates(n)
      <3>1. ASSUME NEW c \in Nodes, Elect(n, c) PROVE Goal
        <4>1. \A m \in Nodes : chosen[m] \in {0, c}
          BY <3>1 DEF Elect, Note
        <4>2. \A m \in Nodes : Leads(m) => m = c
          <5> SUFFICES ASSUME NEW m \in Nodes, Leads(m) PROVE m = c
            OBVIOUS
          <5>1. m \in Healthy /\ \A i \in Healthy : m <= i
            BY <1>0 DEF LiveIsCandidate, LowestLeads
          <5>2. c \in Healthy /\ c <= m
            BY <3>1, <5>1 DEF Elect, FirstCandidate
          <5> QED
            BY <5>1, <5>2
        <4>3. chosen' = [chosen EXCEPT ![n] = c] /\ role' = role
          BY <2>2, <3>1 DEF Elect, SelectCandidates
        <4> QED
          BY <2>0, <4>1, <4>2, <4>3
      <3>2. CASE chosen' = chosen
        BY <1>1, <2>0, <2>2, <3>2 DEF SelectCandidates
      <3> QED
        BY <2>2, <3>1, <3>2 DEF SelectCandidates
    <2>3. CASE Demote(n)
      BY <1>1, <2>0, <2>3 DEF Demote
    <2>4. CASE Promote(n)
      <3>1. chosen' = [chosen EXCEPT ![n] = 0] /\ chosen[n] # 0
        BY <2>4 DEF Promote, Bookkeeping
      <3>2. role' = role \/ role' = [role EXCEPT ![n] = IF chosen[n] = n THEN "primary" ELSE "secondary"]
        BY <2>4 DEF Promote
      <3>3. k # n /\ chosen'[k] = chosen[k]
        BY <3>1
      <3>4. Leads(j)' => (Leads(j) \/ (j = n /\ chosen[n] = n))
        BY <2>0, <3>2
      <3> QED
        BY <1>1, <3>1, <3>3, <3>4
    <2> QED
      BY <1>6, <2>1, <2>2, <2>3, <2>4 DEF Round
  <1>7. CASE UNCHANGED vars
    BY <1>1, <1>7 DEF vars, Live
  <1> QED
    BY <1>2, <1>3, <1>4, <1>5, <1>6, <1>7 DEF Next

(* What a round does to the rows that say primary, when no node was stopped:*)
(* nothing new, or the sender of a heartbeat that leads, or the choice of   *)
(* an election that everybody was demoted for.                              *)
LEMMA RoundPrimaries ==
  ASSUME CInv, incidents = {}, NEW n \in Nodes, Round(n)
  PROVE  \/ Primaries' \subseteq Primaries
         \/ SendHeartbeat(n) /\ Leads(n) /\ Primaries' = {n}
         \/ Promote(n) /\ Primaries' = {chosen[n]}
  <1> USE DEF CInv, TypeOK
  <1>0. CASE rows' = rows
    BY <1>0 DEF Primaries
  <1>1. CASE SendHeartbeat(n) /\ rows' # rows
    <2>1. n \in Live
      BY <1>1 DEF SendHeartbeat, NoneStopped, Live
    <2>2. Primaries' = IF role[n] = "primary" THEN Primaries \cup {n} ELSE Primaries \ {n}
      BY <1>1, StateTable DEF SendHeartbeat
    <2>3. CASE role[n] = "primary"
      <3>1. Leads(n) /\ Primaries \subseteq {n}
        BY <2>1, <2>3 DEF Leads, TableAgrees
      <3> QED
        BY <1>1, <2>2, <2>3, <3>1
    <2>4. CASE role[n] # "primary"
      BY <2>2, <2>4
    <2> QED
      BY <2>3, <2>4
  <1>2. CASE MarkNodesUnhealthy(n) /\ rows' # rows
    <2>1. Primaries' = Primaries
      BY <1>2, MarkTable DEF MarkNodesUnhealthy
    <2> QED
      BY <2>1
  <1>3. CASE Demote(n) /\ rows' # rows
    <2>1. rows' = AllSecondary
      BY <1>3 DEF Demote
    <2> QED
      BY <2>1, DemoteTable
  <1>4. CASE Promote(n) /\ rows' # rows
    <2>1. chosen[n] \in Nodes /\ Primaries \subseteq {chosen[n]}
      BY <1>4 DEF Promote, Bookkeeping, TableAgrees
    <2>2. rows' = [rows EXCEPT ![chosen[n]].state = "primary"]
      BY <1>4 DEF Promote
    <2>3. Primaries' = Primaries \cup {chosen[n]}
      BY <2>1, <2>2, StateTable DEF Roles
    <2> QED
      BY <1>4, <2>1, <2>3
  <1> QED
    BY <1>0, <1>1, <1>2, <1>3, <1>4
    DEF Round, StaleNodeIDs, CheckPrimary, SelectCandidates

(* Once everybody is demoted, and while a node leads, no other row says     *)
(* primary.                                                                 *)
LEMMA TableStep == CInv /\ [Next]_vars => TableAgrees'
  <1> SUFFICES ASSUME CInv, [Next]_vars, incidents' = {}, NEW k \in Nodes
               PROVE  /\ pc'[k] = "promote" => Primaries' \subseteq {chosen'[k]}
                      /\ Leads(k)' => Primaries' \subseteq {k}
    BY DEF TableAgrees
  <1> DEFINE Goal == /\ pc'[k] = "promote" => Primaries' \subseteq {chosen'[k]}
                     /\ Leads(k)' => Primaries' \subseteq {k}
  <1>0. incidents = {}
    BY IncidentsGrow
  <1>1. /\ pc[k] = "promote" => Primaries \subseteq {chosen[k]}
        /\ Leads(k) => Primaries \subseteq {k}
    BY <1>0 DEF CInv, TableAgrees
  <1> USE DEF CInv, TypeOK
  <1>2. CASE Tick
    BY <1>1, <1>2 DEF Tick, Live, Leads, Primaries, locals
  <1>3. ASSUME NEW n \in Nodes, StartClusterManager(n) PROVE Goal
    <2>1. Primaries' \subseteq Primaries
      BY <1>3, RegisterTable DEF StartClusterManager
    <2>2. chosen' = chosen /\ (pc'[k] = "promote" => pc[k] = "promote")
      BY <1>3 DEF StartClusterManager, Goto, locals
    <2>3. Leads(k)' => Leads(k)
      BY <1>3 DEF StartClusterManager, Leads, Live
    <2> QED
      BY <1>1, <2>1, <2>2, <2>3
  <1>4. ASSUME NEW n \in Nodes, StopClusterManager(n) PROVE Goal
    BY <1>4 DEF StopClusterManager
  <1>5. ASSUME NEW n \in Nodes, Exit(n) PROVE Goal
    BY <1>1, <1>5 DEF Exit, Goto, Leads, Live, Primaries
  <1>6. ASSUME NEW n \in Nodes, Round(n) PROVE Goal
    <2>0. Live' = Live
      BY <1>6, RoundLive
    <2>1. CASE Demote(n) /\ pc'[n] = "promote"
      <3>1. Primaries' = {}
        BY <2>1, DemoteTable DEF Demote, Returns, Goto
      <3> QED
        BY <3>1
    <2>2. CASE Promote(n)
      <3>1. chosen[n] # 0 /\ pc'[n] = "loop" /\ \A m \in Nodes : m # n => chosen'[m] = chosen[m] /\ pc'[m] = pc[m]
        BY <2>2 DEF Promote, Returns, Goto, Bookkeeping
      <3>2. Primaries' \subseteq {chosen[n]}
        BY <1>0, <1>6, <2>2, RoundPrimaries DEF SendHeartbeat, Promote, TableAgrees
      <3>3. pc'[k] = "promote" => chosen'[k] = chosen[n]
        BY <1>0, <3>1 DEF ElectionsAgree, Bookkeeping
      <3>4. Leads(k)' => chosen[n] = k
        <4>1. role' = role \/ role' = [role EXCEPT ![n] = IF chosen[n] = n THEN "primary" ELSE "secondary"]
          BY <2>2 DEF Promote
        <4>2. Leads(k)' => (Leads(k) \/ (k = n /\ chosen[n] = n))
          BY <2>0, <4>1 DEF Leads
        <4> QED
          BY <1>0, <3>1, <4>2 DEF ElectionsAgree
      <3> QED
        BY <3>2, <3>3, <3>4
    <2>3. CASE ~Promote(n) /\ ~(Demote(n) /\ pc'[n] = "promote")
      <3>1. role' = role /\ (pc'[k] = "promote" => pc[k] = "promote" /\ chosen'[k] = chosen[k])
        <4>1. CASE SendHeartbeat(n) \/ StaleNodeIDs(n) \/ MarkNodesUnhealthy(n) \/ CheckPrimary(n)
          <5>1. pc'[k] = "promote" => pc[k] = "promote"
            BY <4>1 DEF SendHeartbeat, StaleNodeIDs, MarkNodesUnhealthy, CheckPrimary, Goto
          <5> QED
            BY <4>1, <5>1, QuietRound
        <4>2. CASE SelectCandidates(n)
          BY <4>2 DEF SelectCandidates, Elect, Returns, Goto
        <4>3. CASE Demote(n)
          BY <2>3, <4>3 DEF Demote, Returns, Goto
        <4> QED
          BY <1>6, <2>3, <4>1, <4>2, <4>3 DEF Round
      <3>2. Leads(k)' <=> Leads(k)
        BY <2>0, <3>1 DEF Leads
      <3>3. CASE Primaries' \subseteq Primaries
        BY <1>1, <3>1, <3>2, <3>3
      <3>4. CASE Leads(n) /\ Primaries' = {n}
        <4>1. Leads(k) => k = n
          BY <1>0, <3>4, LeadersAgree
        <4>2. pc[k] = "promote" => chosen[k] = n
          BY <1>0, <3>4 DEF ElectionsAgree, Bookkeeping
        <4> QED
          BY <3>1, <3>2, <3>4, <4>1, <4>2
      <3> QED
        BY <1>0, <1>6, <2>3, <3>3, <3>4, RoundPrimaries
    <2> QED
      BY <2>1, <2>2, <2>3
  <1>7. CASE UNCHANGED vars
    BY <1>1, <1>7 DEF vars, Live, Leads, Primaries
  <1> QED
    BY <1>2, <1>3, <1>4, <1>5, <1>6, <1>7 DEF Next

(* A step that adds a row saying primary leaves that row the only one.      *)
LEMMA OneRowStep == CInv /\ [Next]_vars => OnePrimaryRow'
  <1> SUFFICES ASSUME CInv, [Next]_vars, incidents' = {}
               PROVE  \A j, k \in Primaries' : j = k
    BY DEF OnePrimaryRow
  <1>0. incidents = {}
    BY IncidentsGrow
  <1>1. \A j, k \in Primaries : j = k
    BY <1>0 DEF CInv, OnePrimaryRow
  <1> SUFFICES Primaries' \subseteq Primaries \/ \E n : Primaries' = {n}
    BY <1>1
  <1>2. CASE Tick \/ UNCHANGED vars
    BY <1>2 DEF Tick, vars, Primaries
  <1>3. ASSUME NEW n \in Nodes, StartClusterManager(n) PROVE Primaries' \subseteq Primaries
    BY <1>3, RegisterTable DEF StartClusterManager, CInv, TypeOK
  <1>4. ASSUME NEW n \in Nodes, StopClusterManager(n) \/ Exit(n)
        PROVE  Primaries' \subseteq Primaries
    BY <1>4 DEF StopClusterManager, Exit, Primaries
  <1>5. ASSUME NEW n \in Nodes, Round(n)
        PROVE  Primaries' \subseteq Primaries \/ \E m : Primaries' = {m}
    BY <1>0, <1>5, RoundPrimaries
  <1> QED
    BY <1>2, <1>3, <1>4, <1>5 DEF Next

-----------------------------------------------------------------------------
(* CInv is an invariant.                                                    *)
THEOREM ClusterInvariant == Spec => []CInv
  <1>1. CInv /\ [Next]_vars => CInv'
    <2> SUFFICES ASSUME CInv, [Next]_vars PROVE CInv'
      OBVIOUS
    <2>1. TypeOK'
      BY TypeStep DEF CInv
    <2> QED
      BY <2>1, BookkeepingStep, NoneStoppedStep, InTimeStep, StaleStep, CandidateStep,
         LowestStep, AgreeStep, TableStep, OneRowStep
      DEF CInv
  <1> QED
    BY <1>1, InvInit, PTL DEF Spec

(* However many nodes there are and whatever fails, a live node whose       *)
(* heartbeat is in time stays a candidate for electPrimary.                 *)
THEOREM LiveNodesAreCandidates == Spec => []LiveIsCandidate
  <1>1. CInv => LiveIsCandidate
    BY DEF CInv
  <1> QED
    BY <1>1, ClusterInvariant, PTL

(* IsPrimary is true of at most one live node, for any number of nodes that *)
(* join in the order of their ids: elections need no transaction for that.  *)
THEOREM PrimaryIsUnique == Spec => []OnePrimary
  <1>1. CInv => OnePrimary
    <2> SUFFICES ASSUME CInv, incidents \cap {"lowJoin", "late", "raced"} = {},
                        NEW m \in Live, NEW n \in Live,
                        role[m] = "primary", role[n] = "primary"
                 PROVE  m = n
      BY DEF OnePrimary
    <2>1. Leads(m) /\ Leads(n) /\ m \in Nodes /\ n \in Nodes
      BY DEF Leads, Live
    <2> QED
      BY <2>1, LeadersAgree DEF CInv
  <1> QED
    BY <1>1, ClusterInvariant, PTL

(* cluster_nodes names at most one primary, although a heartbeat writes a   *)
(* remembered role back and an election takes three statements.             *)
THEOREM PrimaryRowIsUnique == Spec => []OnePrimaryRow
  <1>1. CInv => OnePrimaryRow
    BY DEF CInv
  <1> QED
    BY <1>1, ClusterInvariant, PTL
=============================================================================
