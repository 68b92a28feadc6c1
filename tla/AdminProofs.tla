---------------------------- MODULE AdminProofs ----------------------------
(***************************************************************************)
(* Proofs about Setup and AdminInvites, one after the other: no theorem is  *)
(* about both.                                                              *)
(***************************************************************************)
EXTENDS Setup, AdminInvites, FiniteSetTheorems, TLAPS

(***************************************************************************)
(* Setup, for any number of browsers, names and starts.                     *)
(***************************************************************************)
(* A visit is a record of its four fields.                                  *)
IsVisit(v) == v = [at |-> v.at, page |-> v.page, name |-> v.name, sent |-> v.sent]

Visits == /\ DOMAIN visit = Browsers /\ visit = [b \in Browsers |-> visit[b]]
          /\ \A b \in Browsers : IsVisit(visit[b])

(* As long as no two submissions overlapped and no COUNT failed, a browser  *)
(* between the gate's COUNT and the INSERT has an empty table before it.    *)
Alone == mishaps \cap {"overlap", "blind"} = {}
GateHolds ==
    /\ \A b \in Browsers : visit[b].at = "form" => visit[b].page = AccountPage
    /\ Alone => /\ Submitting # {} => primaries = {}
                /\ \A m, n \in primaries : m = n

OneAdminInv == Visits /\ GateHolds

-----------------------------------------------------------------------------
OthersStay(b) == Visits' /\ \A d \in Browsers \ {b} : visit'[d] = visit[d]

(* What a request's answer, or its next step, makes of its visit.           *)
LEMMA VisitReplaced ==
    ASSUME Visits, NEW b \in Browsers, NEW v, IsVisit(v), visit' = [visit EXCEPT ![b] = v]
    PROVE  OthersStay(b) /\ visit'[b] = v
  BY DEF Visits, OthersStay

(* A request that ends leaves its browser idle and the others where they    *)
(* were.                                                                    *)
LEMMA GoesHome ==
    ASSUME Visits, NEW b \in Browsers, NEW p,
           visit' = [visit EXCEPT ![b] = [Home EXCEPT !.sent = p]]
    PROVE  OthersStay(b) /\ visit'[b].at = "idle"
  <1> DEFINE v == [Home EXCEPT !.sent = p]
  <1>1. IsVisit(v) /\ v.at = "idle"
    <2>1. PICK x : Home = [at |-> "idle", page |-> AccountPage, name |-> x, sent |-> AccountPage]
      BY DEF Home
    <2>2. v = [at |-> "idle", page |-> AccountPage, name |-> x, sent |-> p]
      BY <2>1
    <2> QED
      BY <2>2 DEF IsVisit
  <1> HIDE DEF v
  <1>2. visit' = [visit EXCEPT ![b] = v]
    BY DEF v
  <1> QED
    BY <1>1, <1>2, VisitReplaced

(* A request that goes on to its next statement keeps the page it was sent  *)
(* to.                                                                      *)
LEMMA VisitMoves ==
    ASSUME Visits, NEW b \in Browsers, NEW at, visit' = [visit EXCEPT ![b].at = at]
    PROVE  OthersStay(b) /\ visit'[b].at = at /\ visit'[b].page = visit[b].page
  <1> DEFINE v == [visit[b] EXCEPT !.at = at]
  <1>1. IsVisit(v) /\ v.at = at /\ v.page = visit[b].page
    BY DEF Visits, IsVisit
  <1>2. visit' = [visit EXCEPT ![b] = v]
    OBVIOUS
  <1> HIDE DEF v
  <1> QED
    BY <1>1, <1>2, VisitReplaced

(* The COUNT of the gate sends the browser to the page it answers.          *)
LEMMA VisitCounts ==
    ASSUME Visits, NEW b \in Browsers, NEW at, NEW page,
           visit' = [visit EXCEPT ![b].at = at, ![b].page = page]
    PROVE  OthersStay(b) /\ visit'[b].at = at /\ visit'[b].page = page
  <1> DEFINE v == [at |-> at, page |-> page, name |-> visit[b].name, sent |-> visit[b].sent]
             f == [visit EXCEPT ![b].at = at]
  <1>1. IsVisit(v) /\ v.at = at /\ v.page = page
    BY DEF IsVisit
  <1>2. visit' = [visit EXCEPT ![b] = v]
    <2>0. IsVisit(visit[b])
      BY DEF Visits
    <2>1. /\ DOMAIN f = Browsers /\ \A d \in Browsers \ {b} : f[d] = visit[d]
          /\ f[b] = [at |-> at, page |-> visit[b].page, name |-> visit[b].name,
                     sent |-> visit[b].sent]
      BY <2>0 DEF Visits, IsVisit
    <2>2. visit' = [f EXCEPT ![b].page = page]
      OBVIOUS
    <2> HIDE DEF f
    <2>3. visit' = [f EXCEPT ![b] = v]
      <3> DEFINE g == f[b]
      <3>1. g = [at |-> at, page |-> visit[b].page, name |-> visit[b].name,
                 sent |-> visit[b].sent]
        BY <2>1
      <3>2. visit' = [f EXCEPT ![b] = [g EXCEPT !.page = page]]
        BY <2>2
      <3> HIDE DEF g
      <3>3. [g EXCEPT !.page = page] = v
        BY <3>1
      <3> QED
        BY <3>2, <3>3
    <2> QED
      BY <2>1, <2>3 DEF Visits
  <1> HIDE DEF v
  <1> QED
    BY <1>1, <1>2, VisitReplaced

(* The submission of the form takes a user name along and nothing else      *)
(* changes.                                                                 *)
LEMMA VisitNames ==
    ASSUME Visits, NEW b \in Browsers, NEW at, NEW name,
           visit' = [visit EXCEPT ![b].at = at, ![b].name = name]
    PROVE  OthersStay(b) /\ visit'[b].at = at /\ visit'[b].page = visit[b].page
  <1> DEFINE v == [at |-> at, page |-> visit[b].page, name |-> name, sent |-> visit[b].sent]
             f == [visit EXCEPT ![b].at = at]
  <1>1. IsVisit(v) /\ v.at = at /\ v.page = visit[b].page
    BY DEF IsVisit
  <1>2. visit' = [visit EXCEPT ![b] = v]
    <2>0. IsVisit(visit[b])
      BY DEF Visits
    <2>1. /\ DOMAIN f = Browsers /\ \A d \in Browsers \ {b} : f[d] = visit[d]
          /\ f[b] = [at |-> at, page |-> visit[b].page, name |-> visit[b].name,
                     sent |-> visit[b].sent]
      BY <2>0 DEF Visits, IsVisit
    <2>2. visit' = [f EXCEPT ![b].name = name]
      OBVIOUS
    <2> HIDE DEF f
    <2>3. visit' = [f EXCEPT ![b] = v]
      <3> DEFINE g == f[b]
      <3>1. g = [at |-> at, page |-> visit[b].page, name |-> visit[b].name,
                 sent |-> visit[b].sent]
        BY <2>1
      <3>2. visit' = [f EXCEPT ![b] = [g EXCEPT !.name = name]]
        BY <2>2
      <3> HIDE DEF g
      <3>3. [g EXCEPT !.name = name] = v
        BY <3>1
      <3> QED
        BY <3>2, <3>3
    <2> QED
      BY <2>1, <2>3 DEF Visits
  <1> HIDE DEF v
  <1> QED
    BY <1>1, <1>2, VisitReplaced

(* Noting what the browser was sent leaves its place alone.                 *)
LEMMA VisitSent ==
    ASSUME Visits, NEW b \in Browsers, NEW p, visit' = [visit EXCEPT ![b].sent = p]
    PROVE  OthersStay(b) /\ visit'[b].at = visit[b].at /\ visit'[b].page = visit[b].page
  <1> DEFINE v == [visit[b] EXCEPT !.sent = p]
  <1>1. IsVisit(v) /\ v.at = visit[b].at /\ v.page = visit[b].page
    BY DEF Visits, IsVisit
  <1>2. visit' = [visit EXCEPT ![b] = v]
    OBVIOUS
  <1> HIDE DEF v
  <1> QED
    BY <1>1, <1>2, VisitReplaced

-----------------------------------------------------------------------------
(* A browser of which only the place or the page changes.                   *)
LEMMA OneAdminStep == OneAdminInv /\ [SetupNext]_setupVars => OneAdminInv'
  <1> SUFFICES ASSUME OneAdminInv, [SetupNext]_setupVars PROVE OneAdminInv'
    OBVIOUS
  <1> USE DEF AccountPage
  <1>0. Visits /\ GateHolds
    BY DEF OneAdminInv
  <1>1. Alone' => Alone
    <2>1. mishaps \subseteq mishaps'
      BY DEF SetupNext, setupVars, DetectFirstRun, InitDualDB, SaveSetupToken, SaveFails,
             Happened, DisplayFirstRunBanner, ServerEnds, CommandCounts, CommandSaves,
             CommandShows, CommandEnds,
             VerifySetupTokenAtAdmin, ProofExpires, Wizard, CountAdmins, TurnAway, CheckName,
             ProcessPage, CompleteSetup, InsertAdmin, InsertSession, DeleteSetupToken
    <2> QED
      BY <2>1 DEF Alone
  <1>2. CASE UNCHANGED <<visit, primaries>>
    BY <1>0, <1>1, <1>2 DEF OneAdminInv, Visits, GateHolds, Submitting
  <1>3. ASSUME NEW b \in Browsers, OthersStay(b), visit'[b].at \in {"idle", "session"},
               primaries' = primaries
        PROVE  OneAdminInv'
    <2>1. Submitting' \subseteq Submitting
      BY <1>3 DEF OthersStay, Submitting
    <2> QED
      BY <1>0, <1>1, <1>3, <2>1 DEF OneAdminInv, OthersStay, GateHolds
  <1>4. CASE ServerEnds
    <2>1. \A b \in Browsers : visit'[b] = [Home EXCEPT !.sent = visit[b].sent]
      BY <1>4 DEF ServerEnds
    <2>2. \A b \in Browsers : IsVisit(visit'[b]) /\ visit'[b].at = "idle"
      <3> TAKE b \in Browsers
      <3>1. PICK x : Home = [at |-> "idle", page |-> AccountPage, name |-> x, sent |-> AccountPage]
        BY DEF Home
      <3>2. visit'[b] = [at |-> "idle", page |-> AccountPage, name |-> x, sent |-> visit[b].sent]
        BY <2>1, <3>1
      <3> QED
        BY <3>2 DEF IsVisit
    <2>3. Visits' /\ primaries' = primaries
      BY <1>4, <2>2 DEF ServerEnds, Visits, tables
    <2>4. Submitting' = {}
      BY <2>2 DEF Submitting
    <2> QED
      BY <1>0, <1>1, <2>2, <2>3, <2>4 DEF OneAdminInv, GateHolds
  <1>5. ASSUME NEW b \in Browsers, ProofExpires(b) PROVE OneAdminInv'
    <2>1. /\ OthersStay(b) /\ visit'[b].at = visit[b].at /\ visit'[b].page = visit[b].page
          /\ primaries' = primaries
      BY <1>0, <1>5, VisitSent DEF ProofExpires, tables
    <2>2. Submitting' = Submitting
      BY <2>1 DEF OthersStay, Submitting
    <2> QED
      BY <1>0, <1>1, <2>1, <2>2 DEF OneAdminInv, OthersStay, GateHolds
  <1>6. ASSUME NEW b \in Browsers, NEW page \in Pages, CountAdmins(b, page) PROVE OneAdminInv'
    <2>1. primaries' = primaries
      BY <1>6 DEF CountAdmins, tables
    <2>2. CASE Refused(b, page)
      BY <1>0, <1>3, <2>1, <2>2, GoesHome DEF Refused
    <2>3. CASE visit' = [visit EXCEPT ![b].at = "counted", ![b].page = page] /\ primaries = {}
      <3>1. OthersStay(b) /\ visit'[b].at = "counted"
        BY <1>0, <2>3, VisitCounts
      <3> QED
        BY <1>0, <2>1, <2>3, <3>1 DEF OneAdminInv, OthersStay, GateHolds
    <2>4. CASE visit' = [visit EXCEPT ![b].at = "counted", ![b].page = page] /\ Happened("blind")
      <3>1. OthersStay(b) /\ visit'[b].at = "counted"
        BY <1>0, <2>4, VisitCounts
      <3>2. ~Alone'
        BY <2>4 DEF Happened, Alone
      <3> QED
        BY <1>0, <3>1, <3>2 DEF OneAdminInv, OthersStay, GateHolds
    <2> QED
      BY <1>6, <2>2, <2>3, <2>4 DEF CountAdmins
  <1>7. ASSUME NEW b \in Browsers, TurnAway(b) \/ ProcessPage(b) \/ CompleteSetup(b)
        PROVE  OneAdminInv'
    <2>1. primaries' = primaries
      BY <1>7 DEF TurnAway, ProcessPage, CompleteSetup, tables
    <2>2. \E p : visit' = [visit EXCEPT ![b] = [Home EXCEPT !.sent = p]]
      BY <1>7 DEF TurnAway, ProcessPage, CompleteSetup, Refused, Answered
    <2> QED
      BY <1>0, <1>3, <2>1, <2>2, GoesHome
  <1>8. ASSUME NEW b \in Browsers, NEW name \in Names, CheckName(b, name) PROVE OneAdminInv'
    <2>1. primaries' = primaries /\ visit[b].at = "counted" /\ visit[b].page = AccountPage
      BY <1>8 DEF CheckName, tables, Asks
    <2>2. CASE Answered(b)
      BY <1>0, <1>3, <2>1, <2>2, GoesHome DEF Answered
    <2>3. CASE visit' = [visit EXCEPT ![b].at = "form", ![b].name = name]
      <3>1. OthersStay(b) /\ visit'[b].at = "form" /\ visit'[b].page = visit[b].page
        BY <1>0, <2>3, VisitNames
      <3>2. Submitting' \subseteq Submitting
        BY <2>1, <3>1 DEF Submitting, OthersStay
      <3> QED
        BY <1>0, <1>1, <2>1, <3>1, <3>2 DEF OneAdminInv, OthersStay, GateHolds
    <2> QED
      BY <1>8, <2>2, <2>3 DEF CheckName
  <1>9. ASSUME NEW b \in Browsers, InsertAdmin(b) PROVE OneAdminInv'
    <2>1. visit[b].at = "form" /\ visit[b].page = AccountPage
      BY <1>0, <1>9 DEF InsertAdmin, GateHolds
    <2>2. OthersStay(b) /\ visit'[b].at \in {"idle", "inserted"}
      BY <1>0, <1>9, VisitMoves, GoesHome DEF InsertAdmin, Answered
    <2>3. Alone' => Submitting = {b}
      BY <1>9 DEF InsertAdmin, Alone
    <2>4. Alone' => Submitting' = {} /\ primaries = {}
      BY <1>0, <1>1, <2>2, <2>3 DEF Submitting, OthersStay, GateHolds
    <2>5. primaries' = primaries \/ primaries' = primaries \cup {visit[b].name}
      BY <1>9 DEF InsertAdmin
    <2>6. Alone' => \A m, n \in primaries' : m = n
      BY <2>4, <2>5
    <2> QED
      BY <1>0, <2>2, <2>4, <2>6 DEF OneAdminInv, OthersStay, GateHolds
  <1>10. ASSUME NEW b \in Browsers, InsertSession(b) \/ DeleteSetupToken(b) PROVE OneAdminInv'
    <2>1. primaries' = primaries
      BY <1>10 DEF InsertSession, DeleteSetupToken, tables
    <2>2. \/ visit' = [visit EXCEPT ![b].at = "session"]
          \/ \E p : visit' = [visit EXCEPT ![b] = [Home EXCEPT !.sent = p]]
      BY <1>10 DEF InsertSession, DeleteSetupToken, Answered
    <2> QED
      BY <1>0, <1>3, <2>1, <2>2, GoesHome, VisitMoves
  <1>11. CASE \/ DetectFirstRun \/ InitDualDB \/ SaveSetupToken \/ DisplayFirstRunBanner
              \/ CommandCounts \/ CommandSaves \/ CommandShows \/ CommandEnds
             \/ UNCHANGED setupVars
              \/ \E b \in Browsers : VerifySetupTokenAtAdmin(b)
    BY <1>2, <1>11 DEF DetectFirstRun, InitDualDB, SaveSetupToken, DisplayFirstRunBanner,
          CommandCounts, CommandSaves, CommandShows, CommandEnds, VerifySetupTokenAtAdmin,
          setupVars, tables
  <1> QED
    BY <1>4, <1>5, <1>6, <1>7, <1>8, <1>9, <1>10, <1>11 DEF SetupNext, Wizard

(* The setup wizard creates at most one primary administrator as long as no *)
(* two submissions overlap and no COUNT fails: the COUNT that opens the     *)
(* form is what every later statement relies on.                            *)
THEOREM OneAdminFromSetup == SetupSpec => []OneSetupAdmin
  <1>1. SetupInit => OneAdminInv
    <2> SUFFICES ASSUME SetupInit PROVE OneAdminInv
      OBVIOUS
    <2>1. PICK x : Home = [at |-> "idle", page |-> AccountPage, name |-> x, sent |-> AccountPage]
      BY DEF Home
    <2>2. IsVisit(Home) /\ Home.at = "idle"
      BY <2>1 DEF IsVisit
    <2>3. visit = [b \in Browsers |-> Home] /\ primaries = {}
      BY DEF SetupInit
    <2> QED
      BY <2>2, <2>3 DEF OneAdminInv, Visits, GateHolds
  <1>2. OneAdminInv => OneSetupAdmin
    <2> SUFFICES ASSUME OneAdminInv, Alone PROVE Cardinality(primaries) <= 1
      BY DEF OneSetupAdmin, Alone
    <2>1. \A m, n \in primaries : m = n
      BY DEF OneAdminInv, GateHolds
    <2>2. CASE primaries = {}
      BY <2>2, FS_EmptySet
    <2>3. ASSUME NEW n \in primaries PROVE Cardinality(primaries) <= 1
      <3>1. primaries = {n}
        BY <2>1
      <3> QED
        BY <3>1, FS_Singleton
    <2> QED
      BY <2>2, <2>3
  <1> QED
    BY <1>1, <1>2, OneAdminStep, PTL DEF SetupSpec

-----------------------------------------------------------------------------
(* Where the token is, at every place of main, while there is no admin.     *)
(* Seen: the tokens that were shown, or are about to be shown by the command. *)
Seen == printed \cup ToBeShown
Saved == mishaps \cap {"saveFailed", "cut"} = {}
TokenSafe ==
    /\ server.at \in {"down", "open", "save", "banner", "up"}
    /\ server.at \in {"down", "up"} => server.token = NoFile
    /\ server.at \in {"save", "banner", "up"} => dbFile
    /\ server.at = "open" => (dbFile <=> server.token = NoFile)
    /\ (Saved /\ primaries = {}) =>
          /\ dbFile /\ server.token = NoFile => tokenFile \in Seen
          /\ server.at = "banner" => tokenFile \in Seen \cup {server.token}

ServerShape == /\ server = [at |-> server.at, token |-> server.token]
               /\ bounds \in [tokens : Nat, starts : Nat, mishaps : Nat]

(* A request that is past its INSERT left an admin behind it.               *)
InsertedIsThere == \A b \in Browsers : visit[b].at \in {"inserted", "session"} => primaries # {}

(* Spending a token, a start or a mishap keeps the counters natural         *)
(* numbers.                                                                 *)
LEMMA BoundsStay ==
    ASSUME ServerShape, NEW what \in {"tokens", "starts", "mishaps"}, Spend(what)
    PROVE  bounds' \in [tokens : Nat, starts : Nat, mishaps : Nat]
  BY DEF ServerShape, Spend

(* An account that the wizard inserted is still there when it logs the      *)
(* administrator in.                                                        *)
LEMMA InsertedStep == Visits /\ InsertedIsThere /\ [SetupNext]_setupVars => InsertedIsThere'
  <1> SUFFICES ASSUME Visits, InsertedIsThere, [SetupNext]_setupVars,
                      NEW b \in Browsers, visit'[b].at \in {"inserted", "session"}
               PROVE  primaries' # {}
    BY DEF InsertedIsThere
  <1>1. primaries \subseteq primaries'
    BY DEF SetupNext, setupVars, tables, DetectFirstRun, InitDualDB, SaveSetupToken,
           DisplayFirstRunBanner, ServerEnds, CommandCounts, CommandSaves,
             CommandShows, CommandEnds,
           VerifySetupTokenAtAdmin, ProofExpires, Wizard, CountAdmins, TurnAway, CheckName,
           ProcessPage, CompleteSetup, InsertAdmin, InsertSession, DeleteSetupToken
  <1>2. CASE visit[b].at \in {"inserted", "session"}
    BY <1>1, <1>2 DEF InsertedIsThere
  <1>3. CASE visit' = visit
    BY <1>2, <1>3
  <1>4. CASE ServerEnds
    <2>1. visit'[b] = [Home EXCEPT !.sent = visit[b].sent]
      BY <1>4 DEF ServerEnds
    <2>2. visit'[b].at = "idle"
      BY <2>1 DEF Home
    <2> QED
      BY <2>2
  <1>5. ASSUME NEW d \in Browsers, ProofExpires(d) \/ Wizard(d) PROVE primaries' # {}
    <2>1. CASE InsertAdmin(d)
      <3>1. \/ visit[d].name \in primaries'
            \/ Answered(d)
        BY <2>1 DEF InsertAdmin
      <3>2. CASE Answered(d)
        <4>1. OthersStay(d) /\ visit'[d].at = "idle"
          BY <3>2, GoesHome DEF Answered
        <4> QED
          BY <1>2, <4>1 DEF OthersStay
      <3> QED
        BY <3>1, <3>2
    <2>2. CASE ProofExpires(d)
      BY <1>2, <2>2, VisitSent DEF ProofExpires, OthersStay
    <2>3. CASE InsertSession(d)
      <3>1. visit[d].at = "inserted" /\ OthersStay(d)
        BY <2>3, VisitMoves, GoesHome DEF InsertSession, Answered
      <3> QED
        BY <1>1, <1>2, <3>1 DEF OthersStay, InsertedIsThere
    <2>4. ASSUME NEW p, visit' = [visit EXCEPT ![d] = [Home EXCEPT !.sent = p]]
          PROVE  primaries' # {}
      BY <1>2, <2>4, GoesHome DEF OthersStay
    <2>5. CASE TurnAway(d) \/ ProcessPage(d) \/ CompleteSetup(d) \/ DeleteSetupToken(d)
      BY <2>4, <2>5 DEF TurnAway, ProcessPage, CompleteSetup, DeleteSetupToken, Refused, Answered
    <2>6. ASSUME NEW page \in Pages, CountAdmins(d, page) PROVE primaries' # {}
      <3>1. CASE visit' = [visit EXCEPT ![d].at = "counted", ![d].page = page]
        BY <1>2, <3>1, VisitCounts DEF OthersStay
      <3> QED
        BY <2>4, <2>6, <3>1 DEF CountAdmins, Refused
    <2>7. ASSUME NEW name \in Names, CheckName(d, name) PROVE primaries' # {}
      <3>1. CASE visit' = [visit EXCEPT ![d].at = "form", ![d].name = name]
        BY <1>2, <3>1, VisitNames DEF OthersStay
      <3> QED
        BY <2>4, <2>7, <3>1 DEF CheckName, Answered
    <2> QED
      BY <1>5, <2>1, <2>2, <2>3, <2>5, <2>6, <2>7 DEF Wizard
  <1>6. CASE \/ DetectFirstRun \/ InitDualDB \/ SaveSetupToken \/ DisplayFirstRunBanner
             \/ CommandCounts \/ CommandSaves \/ CommandShows \/ CommandEnds
             \/ UNCHANGED setupVars
             \/ \E d \in Browsers : VerifySetupTokenAtAdmin(d)
    BY <1>3, <1>6 DEF DetectFirstRun, InitDualDB, SaveSetupToken, DisplayFirstRunBanner,
          CommandCounts, CommandSaves, CommandShows, CommandEnds, VerifySetupTokenAtAdmin, setupVars
  <1> QED
    BY <1>4, <1>5, <1>6 DEF SetupNext

(* Each step of a start, of the command and of the wizard keeps the token   *)
(* in the file among those that were shown.                                 *)
LEMMA TokenStep ==
    TokenSafe /\ ServerShape /\ InsertedIsThere /\ [SetupNext]_setupVars => TokenSafe' /\ ServerShape'
  <1> SUFFICES ASSUME TokenSafe, ServerShape, InsertedIsThere, [SetupNext]_setupVars
               PROVE  TokenSafe' /\ ServerShape'
    OBVIOUS
  <1> USE DEF NoFile
  <1>1. /\ (Saved' /\ primaries' = {}) => (Saved /\ primaries = {})
        /\ Saved' => Seen \subseteq Seen'
    <2>1. /\ mishaps \subseteq mishaps' /\ primaries \subseteq primaries'
          /\ printed \subseteq printed'
      BY DEF SetupNext, setupVars, tables, DetectFirstRun, InitDualDB, SaveSetupToken, SaveFails,
             Happened, DisplayFirstRunBanner, ServerEnds, CommandCounts, CommandSaves,
             CommandShows, CommandEnds,
             VerifySetupTokenAtAdmin, ProofExpires, Wizard, CountAdmins, TurnAway, CheckName,
             ProcessPage, CompleteSetup, InsertAdmin, InsertSession, DeleteSetupToken
    <2>2. CASE UNCHANGED command
      BY <2>1, <2>2 DEF Saved, Seen, ToBeShown
    <2>3. CASE CommandCounts \/ CommandSaves
      <3>1. command.at # "saved"
        BY <2>3 DEF CommandCounts, CommandSaves, NoCommand
      <3> QED
        BY <2>1, <3>1 DEF Saved, Seen, ToBeShown
    <2>4. CASE CommandShows
      <3>1. printed' = printed \cup {command.token}
        BY <2>4 DEF CommandShows
      <3> QED
        BY <2>1, <3>1 DEF Saved, Seen, ToBeShown
    <2>5. CASE CommandEnds
      <3>1. command.at = "saved" => "cut" \in mishaps'
        BY <2>5 DEF CommandEnds
      <3> QED
        BY <2>1, <3>1 DEF Saved, Seen, ToBeShown
    <2>6. \/ UNCHANGED command \/ CommandCounts \/ CommandSaves \/ CommandShows \/ CommandEnds
      BY DEF SetupNext, setupVars, DetectFirstRun, InitDualDB, SaveSetupToken,
             DisplayFirstRunBanner, ServerEnds,
             VerifySetupTokenAtAdmin, ProofExpires, Wizard, CountAdmins, TurnAway, CheckName,
             ProcessPage, CompleteSetup, InsertAdmin, InsertSession, DeleteSetupToken
    <2> QED
      BY <2>2, <2>3, <2>4, <2>5, <2>6
  <1>2. ASSUME UNCHANGED <<server, dbFile>>, tokenFile' = tokenFile \/ primaries # {},
               bounds' \in [tokens : Nat, starts : Nat, mishaps : Nat]
        PROVE  TokenSafe' /\ ServerShape'
    BY <1>1, <1>2 DEF TokenSafe, ServerShape
  <1>3. Mishap => bounds' \in [tokens : Nat, starts : Nat, mishaps : Nat]
    BY BoundsStay DEF Mishap
  <1>4. UNCHANGED bounds => bounds' \in [tokens : Nat, starts : Nat, mishaps : Nat]
    BY DEF ServerShape
  <1>5. CASE DetectFirstRun
    <2>1. UNCHANGED <<dbFile, tokenFile, primaries, printed, mishaps>> /\ server = Down
      BY <1>5 DEF DetectFirstRun, files, tables
    <2>2. server.at = "down" /\ server.token = NoFile
      BY <2>1 DEF Down
    <2>3. CASE dbFile
      <3>1. server' = [at |-> "open", token |-> NoFile] /\ Spend("starts")
        BY <1>5, <2>3 DEF DetectFirstRun
      <3>2. ServerShape'
        BY <3>1, BoundsStay DEF ServerShape
      <3> QED
        BY <1>1, <2>1, <2>2, <2>3, <3>1, <3>2 DEF TokenSafe
    <2>4. CASE ~dbFile
      <3>1. /\ server' = [at |-> "open", token |-> bounds.tokens + 1]
            /\ bounds' = [bounds EXCEPT !.starts = @ + 1, !.tokens = @ + 1]
        BY <1>5, <2>4 DEF DetectFirstRun, Fresh
      <3>2. bounds.tokens \in Nat /\ bounds.starts \in Nat /\ bounds.mishaps \in Nat
            /\ bounds = [tokens |-> bounds.tokens, starts |-> bounds.starts, mishaps |-> bounds.mishaps]
        BY DEF ServerShape
      <3>3. bounds' = [tokens |-> bounds.tokens + 1, starts |-> bounds.starts + 1,
                       mishaps |-> bounds.mishaps]
        BY <3>1, <3>2
      <3>4. ServerShape'
        BY <3>1, <3>2, <3>3 DEF ServerShape
      <3>5. server'.at = "open" /\ server'.token # NoFile
        BY <3>1, <3>2
      <3> QED
        BY <2>1, <2>4, <3>4, <3>5 DEF TokenSafe
    <2> QED
      BY <2>3, <2>4
  <1>6. CASE InitDualDB
    <2>1. /\ server.at = "open" /\ dbFile' = TRUE /\ server' = [server EXCEPT !.at = "save"]
          /\ UNCHANGED <<tokenFile, primaries, bounds, printed, mishaps>>
      BY <1>6 DEF InitDualDB, tables
    <2>2. /\ server' = [at |-> "save", token |-> server.token]
      BY <2>1 DEF ServerShape
    <2>3. server'.at = "save" /\ server'.token = server.token /\ ServerShape'
      BY <2>1, <2>2 DEF ServerShape
    <2> QED
      BY <1>1, <2>1, <2>3 DEF TokenSafe
  <1>7. CASE SaveSetupToken
    <2>1. /\ server.at = "save" /\ server' = [server EXCEPT !.at = "banner"]
          /\ UNCHANGED <<dbFile, primaries, printed>>
          /\ \/ /\ tokenFile' = IF server.token = NoFile THEN tokenFile ELSE server.token
                /\ UNCHANGED <<bounds, mishaps>>
             \/ SaveFails
      BY <1>7 DEF SaveSetupToken, tables
    <2>2. server' = [at |-> "banner", token |-> server.token]
      BY <2>1 DEF ServerShape
    <2>3. ServerShape'
      BY <1>3, <1>4, <2>1, <2>2 DEF ServerShape, SaveFails
    <2>4. SaveFails => ~Saved'
      BY DEF SaveFails, Happened, Saved
    <2>5. server'.at = "banner" /\ server'.token = server.token
      BY <2>2
    <2> QED
      BY <1>1, <2>1, <2>3, <2>4, <2>5 DEF TokenSafe
  <1>8. CASE DisplayFirstRunBanner
    <2>1. /\ server.at = "banner" /\ server' = [at |-> "up", token |-> NoFile]
          /\ printed' = IF server.token = NoFile THEN printed ELSE printed \cup {server.token}
          /\ UNCHANGED <<dbFile, tokenFile, primaries, bounds, mishaps>>
      BY <1>8 DEF DisplayFirstRunBanner, tables, files
    <2>2. server'.at = "up" /\ server'.token = NoFile /\ ServerShape'
      BY <2>1 DEF ServerShape
    <2>3. server.token # NoFile => server.token \in Seen'
      BY <2>1 DEF Seen
    <2> QED
      BY <1>1, <2>1, <2>2, <2>3 DEF TokenSafe
  <1>9. CASE ServerEnds
    <2>1. /\ server' = Down /\ UNCHANGED <<dbFile, tokenFile, primaries, bounds, printed>>
          /\ (dbFile /\ server.token # NoFile) => ~Saved'
      BY <1>9 DEF ServerEnds, tables, files, Saved
    <2>2. server'.at = "down" /\ server'.token = NoFile /\ ServerShape'
      BY <2>1 DEF ServerShape, Down
    <2> QED
      BY <1>1, <2>1, <2>2 DEF TokenSafe
  <1>10. CASE CommandSaves
    <2>1. UNCHANGED <<dbFile, primaries, server>>
      BY <1>10 DEF CommandSaves, tables
    <2>2. CASE SaveFails
      <3>1. ~Saved'
        BY <2>2 DEF SaveFails, Happened, Saved
      <3>2. ServerShape'
        BY <1>3, <2>1, <2>2 DEF SaveFails, ServerShape
      <3> QED
        BY <2>1, <3>1, <3>2 DEF TokenSafe
    <2>3. CASE Spend("tokens") /\ tokenFile' = Fresh /\ command' = [at |-> "saved", token |-> Fresh]
      <3>1. ServerShape'
        BY <2>1, <2>3, BoundsStay DEF ServerShape
      <3>2. tokenFile' \in Seen'
        BY <2>3 DEF Seen, ToBeShown
      <3> QED
        BY <2>1, <3>1, <3>2 DEF TokenSafe
    <2> QED
      BY <1>10, <2>2, <2>3 DEF CommandSaves
  <1>11. ASSUME NEW b \in Browsers, DeleteSetupToken(b) PROVE TokenSafe' /\ ServerShape'
    <2>1. primaries # {}
      BY <1>11 DEF DeleteSetupToken, InsertedIsThere
    <2> QED
      BY <1>2, <1>3, <1>4, <1>11, <2>1 DEF DeleteSetupToken
  <1>12. ASSUME NEW b \in Browsers,
                \/ VerifySetupTokenAtAdmin(b) \/ ProofExpires(b) \/ TurnAway(b) \/ ProcessPage(b)
                \/ CompleteSetup(b) \/ InsertAdmin(b) \/ InsertSession(b)
                \/ (\E page \in Pages : CountAdmins(b, page))
                \/ (\E name \in Names : CheckName(b, name))
         PROVE  TokenSafe' /\ ServerShape'
    <2>1. UNCHANGED <<server, dbFile, tokenFile>> /\ (UNCHANGED bounds \/ Mishap)
      BY <1>12 DEF VerifySetupTokenAtAdmin, ProofExpires, TurnAway, ProcessPage, CompleteSetup,
            InsertAdmin, InsertSession, CountAdmins, CheckName, files
    <2> QED
      BY <1>2, <1>3, <1>4, <2>1
  <1>13. CASE CommandCounts \/ CommandShows \/ CommandEnds \/ UNCHANGED setupVars
    BY <1>2, <1>4, <1>13 DEF CommandCounts, CommandShows, CommandEnds, setupVars, files
  <1> QED
    BY <1>5, <1>6, <1>7, <1>8, <1>9, <1>10, <1>11, <1>12, <1>13 DEF SetupNext, Wizard

(* A server without an admin can be set up: the token in the file is one    *)
(* that was shown, or that the command is about to show, unless a token     *)
(* could not be saved, the first run ended between creating server.db and   *)
(* the banner, or the command between saving and showing.                   *)
THEOREM ServerCanBeSetUp == SetupSpec => []SetupPossible
  <1> DEFINE Inv == Visits /\ GateHolds /\ InsertedIsThere /\ TokenSafe /\ ServerShape
  <1>1. SetupInit => Inv
    <2> SUFFICES ASSUME SetupInit PROVE Inv
      OBVIOUS
    <2>1. PICK x : Home = [at |-> "idle", page |-> AccountPage, name |-> x, sent |-> AccountPage]
      BY DEF Home
    <2>2. IsVisit(Home) /\ Home.at = "idle"
      BY <2>1 DEF IsVisit
    <2>3. visit = [b \in Browsers |-> Home] /\ primaries = {} /\ server = Down /\ dbFile = FALSE
          /\ bounds = [tokens |-> 0, starts |-> 0, mishaps |-> 0]
      BY DEF SetupInit
    <2>4. Visits /\ GateHolds /\ InsertedIsThere
      BY <2>2, <2>3 DEF Visits, GateHolds, InsertedIsThere
    <2>5. ServerShape /\ server.at = "down" /\ server.token = NoFile
      BY <2>3 DEF ServerShape, Down
    <2> QED
      BY <2>3, <2>4, <2>5 DEF TokenSafe
  <1>2. Inv /\ [SetupNext]_setupVars => Inv'
    BY OneAdminStep, InsertedStep, TokenStep DEF OneAdminInv
  <1>3. Inv => SetupPossible
    BY DEF TokenSafe, SetupPossible, Saved, Seen, NoFile
  <1> QED
    BY <1>1, <1>2, <1>3, PTL DEF SetupSpec

-----------------------------------------------------------------------------
(***************************************************************************)
(* AdminInvites, for every set of tokens and addresses and any number of    *)
(* concurrent requests.                                                     *)
(***************************************************************************)
(* Records by their fields.                                                 *)
IsRequest(v) == v = [pc |-> v.pc, token |-> v.token, id |-> v.id, email |-> v.email]
IsInvite(v) == v = [email |-> v.email, by |-> v.by, usedBy |-> v.usedBy]

InvitesShape ==
    /\ DOMAIN request = Requests /\ request = [r \in Requests |-> request[r]]
    /\ \A r \in Requests : IsRequest(request[r]) /\ (Holding(r) => request[r].token \in Tokens)
    /\ DOMAIN invites \subseteq Tokens
    /\ \A t \in DOMAIN invites : IsInvite(invites[t])
    /\ nextId \in 1..MaxAdmins + 1 /\ DOMAIN admins \subseteq 1..nextId - 1
    /\ DOMAIN made = Tokens /\ \A t \in Tokens : made[t] \subseteq 1..nextId - 1

(* The acceptances of a token carry the address of its invite.              *)
OneAddress ==
    /\ \A r, q \in Requests :
          (Holding(r) /\ Holding(q) /\ request[r].token = request[q].token)
             => request[r].email = request[q].email
    /\ \A r \in Requests : (Holding(r) /\ request[r].token \in DOMAIN invites)
             => request[r].email = invites[request[r].token].email

(* used_by, and a request about to write it, name an account that came from *)
(* the token.                                                               *)
MarksAreTrue ==
    /\ \A r \in Requests : request[r].pc = "created" => request[r].id \in made[request[r].token]
    /\ \A t \in DOMAIN invites :
          invites[t].usedBy \in {Unset, NoAdmin} \/ invites[t].usedBy \in made[t]

(* The account made from a token still has the address as long as somebody  *)
(* could accept the invite once more, and the mark is set or on its way.    *)
Protected ==
    \A t \in Tokens \ excused :
       /\ \A i, j \in made[t] : i = j
       /\ made[t] \subseteq DOMAIN admins
       /\ \A r \in Requests, i \in made[t] :
             (Holding(r) /\ request[r].token = t) => admins[i] = request[r].email
       /\ (made[t] # {} /\ t \in DOMAIN invites /\ invites[t].usedBy = Unset) =>
             \E r \in Requests : request[r].pc = "created" /\ request[r].token = t

(* A revoked invite is marked, and nobody is accepting it.                  *)
RevokedIsOver ==
    \A t \in revoked : ~Accepting(t) /\ (t \in DOMAIN invites => invites[t].usedBy = NoAdmin)

InvitesInv == InvitesShape /\ OneAddress /\ MarksAreTrue /\ Protected /\ RevokedIsOver
-----------------------------------------------------------------------------
(* A request slot without a request is a record of the four fields.         *)
LEMMA IdleRequest == IsRequest(NoRequest) /\ NoRequest.pc = "idle"
  <1>1. PICK x : NoRequest = [pc |-> "idle", token |-> x, id |-> 1, email |-> Earlier[1]]
    BY DEF NoRequest
  <1>. QED  BY <1>1 DEF IsRequest

(* A step that only ends requests, excuses tokens and changes addresses     *)
(* keeps the invariant, provided it excuses the tokens whose protection it  *)
(* takes away: those with an acceptance between its INSERT and its mark,    *)
(* and those in flight for an address that it releases.                     *)
LEMMA QuietStep ==
  ASSUME InvitesInv,
         UNCHANGED <<nextId, invites, made, revoked>>,
         excused \subseteq excused',
         DOMAIN request' = Requests, request' = [q \in Requests |-> request'[q]],
         \A q \in Requests : IsRequest(request'[q]),
         \A q \in Requests :
            \/ request'[q] = request[q]
            \/ /\ request'[q].pc \notin {"verified", "created"}
               /\ request[q].pc = "created" => request[q].token \in excused',
         DOMAIN admins' \subseteq DOMAIN admins,
         \A t \in Tokens \ excused' : made[t] \subseteq DOMAIN admins',
         \A q \in Requests :
            Holding(q) => \/ request[q].token \in excused'
                          \/ \A i \in made[request[q].token] : admins'[i] = admins[i]
  PROVE  InvitesInv'
  <1>. USE DEF InvitesInv
  <1>1. InvitesShape'
    BY DEF InvitesShape, Holding
  <1>2. OneAddress'
    BY DEF OneAddress, Holding
  <1>3. MarksAreTrue'
    BY DEF MarksAreTrue
  <1>4. Protected'
    <2>. SUFFICES ASSUME NEW t \in Tokens \ excused'
                  PROVE  /\ \A i, j \in made[t] : i = j
                         /\ made[t] \subseteq DOMAIN admins'
                         /\ \A r \in Requests, i \in made[t] :
                               (Holding(r)' /\ request'[r].token = t) => admins'[i] = request'[r].email
                         /\ (made[t] # {} /\ t \in DOMAIN invites /\ invites[t].usedBy = Unset) =>
                               \E r \in Requests : request'[r].pc = "created" /\ request'[r].token = t
      BY DEF Protected
    <2>. t \in Tokens \ excused
      OBVIOUS
    <2>1. \A i, j \in made[t] : i = j
      BY DEF Protected
    <2>2. \A r \in Requests, i \in made[t] :
             (Holding(r)' /\ request'[r].token = t) => admins'[i] = request'[r].email
      BY DEF Protected, Holding
    <2>3. (made[t] # {} /\ t \in DOMAIN invites /\ invites[t].usedBy = Unset) =>
             \E r \in Requests : request'[r].pc = "created" /\ request'[r].token = t
      BY DEF Protected
    <2>. QED  BY <2>1, <2>2, <2>3
  <1>5. RevokedIsOver'
    BY DEF RevokedIsOver, Accepting, Holding
  <1>. QED  BY <1>1, <1>2, <1>3, <1>4, <1>5

(* The end of a request that held nothing, or whose token is excused, keeps *)
(* the invariant.                                                           *)
LEMMA EndedRequest ==
  ASSUME InvitesInv, NEW r \in Requests, NEW v, IsRequest(v),
         v.pc \notin {"verified", "created"},
         request' = [request EXCEPT ![r] = v],
         request[r].pc = "created" => request[r].token \in excused',
         excused \subseteq excused',
         UNCHANGED <<admins, nextId, invites, made, revoked>>
  PROVE  InvitesInv'
  <1>1. /\ DOMAIN request' = Requests /\ request' = [q \in Requests |-> request'[q]]
        /\ \A q \in Requests : IsRequest(request'[q])
        /\ \A q \in Requests :
             \/ request'[q] = request[q]
             \/ /\ request'[q].pc \notin {"verified", "created"}
                /\ request[q].pc = "created" => request[q].token \in excused'
    BY DEF InvitesInv, InvitesShape
  <1>2. \A t \in Tokens \ excused' : made[t] \subseteq DOMAIN admins'
    BY DEF InvitesInv, Protected
  <1>. QED  BY <1>1, <1>2, QuietStep

(* VerifyInvite lets a second acceptance in only while the first is between *)
(* its INSERT and MarkInviteUsed, so that the account still has the address *)
(* of the invite.                                                           *)
LEMMA VerifyStep ==
  ASSUME InvitesInv, NEW r \in Requests, NEW t \in Tokens, VerifyInvite(r, t)
  PROVE  InvitesInv'
  <1>. DEFINE a == [NoRequest EXCEPT !.pc = "verified"]
              b == [a EXCEPT !.token = t]
              v == [b EXCEPT !.email = invites[t].email]
  <1>0. PICK x : NoRequest = [pc |-> "idle", token |-> x, id |-> 1, email |-> Earlier[1]]
    BY DEF NoRequest
  <1>1. IsRequest(v) /\ v.pc = "verified" /\ v.token = t /\ v.email = invites[t].email
    <2>1. a = [pc |-> "verified", token |-> x, id |-> 1, email |-> Earlier[1]]
      BY <1>0
    <2>. HIDE DEF a
    <2>2. b = [pc |-> "verified", token |-> t, id |-> 1, email |-> Earlier[1]]
      BY <2>1
    <2>. HIDE DEF b
    <2>3. v = [pc |-> "verified", token |-> t, id |-> 1, email |-> invites[t].email]
      BY <2>2
    <2>. QED  BY <2>3 DEF IsRequest
  <1>2. request' = [request EXCEPT ![r] = v]
    BY DEF VerifyInvite
  <1>. HIDE DEF a, b, v
  <1>3. /\ request[r].pc = "idle" /\ t \in DOMAIN invites /\ invites[t].usedBy = Unset
        /\ UNCHANGED <<admins, nextId, invites, made, excused, revoked>>
    BY DEF VerifyInvite, At
  <1>4. DOMAIN request' = Requests /\ request' = [q \in Requests |-> request'[q]]
    BY <1>2 DEF InvitesInv, InvitesShape
  <1>5. request'[r] = v /\ \A q \in Requests \ {r} : request'[q] = request[q]
    BY <1>2 DEF InvitesInv, InvitesShape
  <1>6. InvitesShape'
    BY <1>1, <1>3, <1>4, <1>5 DEF InvitesInv, InvitesShape, Holding
  <1>7. OneAddress'
    BY <1>1, <1>3, <1>5 DEF InvitesInv, OneAddress, Holding
  <1>8. MarksAreTrue'
    BY <1>1, <1>3, <1>5 DEF InvitesInv, MarksAreTrue
  <1>9. Protected'
    <2>. SUFFICES ASSUME NEW u \in Tokens \ excused
                  PROVE  /\ \A i, j \in made[u] : i = j
                         /\ made[u] \subseteq DOMAIN admins
                         /\ \A q \in Requests, i \in made[u] :
                               (Holding(q)' /\ request'[q].token = u) => admins[i] = request'[q].email
                         /\ (made[u] # {} /\ u \in DOMAIN invites /\ invites[u].usedBy = Unset) =>
                               \E q \in Requests : request'[q].pc = "created" /\ request'[q].token = u
      BY <1>3 DEF Protected
    <2>1. (\A i, j \in made[u] : i = j) /\ made[u] \subseteq DOMAIN admins
      BY DEF InvitesInv, Protected
    <2>2. ASSUME NEW q \in Requests, NEW i \in made[u], Holding(q)', request'[q].token = u
          PROVE  admins[i] = request'[q].email
      <3>1. CASE q # r
        BY <3>1, <2>2, <1>5 DEF InvitesInv, Protected, Holding
      <3>2. CASE q = r
        <4>1. u = t
          BY <3>2, <2>2, <1>5, <1>1
        <4>2. PICK p \in Requests : request[p].pc = "created" /\ request[p].token = t
          BY <4>1, <1>3 DEF InvitesInv, Protected
        <4>3. Holding(p)
          BY <4>2 DEF Holding
        <4>4. admins[i] = request[p].email
          BY <4>1, <4>2, <4>3 DEF InvitesInv, Protected
        <4>5. request[p].email = invites[t].email
          BY <4>2, <4>3, <1>3 DEF InvitesInv, OneAddress
        <4>. QED  BY <4>4, <4>5, <3>2, <1>5, <1>1
      <3>. QED  BY <3>1, <3>2
    <2>3. (made[u] # {} /\ u \in DOMAIN invites /\ invites[u].usedBy = Unset) =>
             \E q \in Requests : request'[q].pc = "created" /\ request'[q].token = u
      BY <1>3, <1>5 DEF InvitesInv, Protected
    <2>. QED  BY <2>1, <2>2, <2>3
  <1>10. RevokedIsOver'
    <2>1. t \notin revoked
      BY <1>3 DEF InvitesInv, RevokedIsOver, InvitesShape, Unset, NoAdmin
    <2>. QED  BY <2>1, <1>1, <1>3, <1>5 DEF InvitesInv, RevokedIsOver, Accepting, Holding
  <1>. QED  BY <1>6, <1>7, <1>8, <1>9, <1>10 DEF InvitesInv

(* CreateAdminAccount inserts a row only if no account came from the token  *)
(* yet: an earlier one still has the address, and the column is UNIQUE.     *)
LEMMA CreateStep ==
  ASSUME InvitesInv, NEW r \in Requests, CreateAdminAccount(r)
  PROVE  InvitesInv'
  <1>. DEFINE t == request[r].token
              e == request[r].email
              k == [request[r] EXCEPT !.pc = "created"]
  <1>1. /\ request[r].pc = "verified" /\ nextId <= MaxAdmins /\ EmailFree(e, NoAdmin)
        /\ admins' = With(admins, nextId, e) /\ nextId' = nextId + 1
        /\ made' = [made EXCEPT ![t] = @ \cup {nextId}]
        /\ UNCHANGED <<invites, excused, revoked>>
    BY DEF CreateAdminAccount, At
  <1>2. Holding(r) /\ t \in Tokens
    BY <1>1 DEF Holding, InvitesInv, InvitesShape
  <1>3. /\ DOMAIN request' = Requests /\ request' = [q \in Requests |-> request'[q]]
        /\ request'[r] = [pc |-> "created", token |-> t, id |-> nextId, email |-> e]
        /\ \A q \in Requests \ {r} : request'[q] = request[q]
    <2>1. request = [q \in Requests |-> request[q]] /\ IsRequest(request[r])
      BY DEF InvitesInv, InvitesShape
    <2>2. k = [pc |-> "created", token |-> t, id |-> request[r].id, email |-> e]
      BY <2>1 DEF IsRequest
    <2>3. request' = [[request EXCEPT ![r] = k] EXCEPT ![r] = [k EXCEPT !.id = nextId]]
      BY <2>1 DEF CreateAdminAccount
    <2>. HIDE DEF k, t, e
    <2>4. [k EXCEPT !.id = nextId] = [pc |-> "created", token |-> t, id |-> nextId, email |-> e]
      BY <2>2
    <2>. QED  BY <2>1, <2>3, <2>4
  <1>4. /\ IsRequest(request'[r]) /\ request'[r].pc = "created" /\ request'[r].token = t
        /\ request'[r].id = nextId /\ request'[r].email = e
    BY <1>3 DEF IsRequest
  <1>. HIDE DEF k
  <1>5. made[t] = {} \/ t \in excused
    <2>. SUFFICES ASSUME NEW i \in made[t], t \notin excused  PROVE FALSE
      OBVIOUS
    <2>1. i \in DOMAIN admins /\ admins[i] = e
      BY <1>2 DEF InvitesInv, Protected
    <2>2. i # NoAdmin
      BY <1>2 DEF InvitesInv, InvitesShape, NoAdmin
    <2>. QED  BY <2>1, <2>2, <1>1 DEF EmailFree
  <1>6. nextId \in Nat /\ nextId >= 1 /\ DOMAIN admins \subseteq 1..nextId - 1
    BY InvitesAssumption DEF InvitesInv, InvitesShape
  <1>7. /\ DOMAIN admins' = DOMAIN admins \cup {nextId} /\ admins'[nextId] = e
        /\ \A i \in DOMAIN admins : admins'[i] = admins[i]
    <2>1. nextId \notin DOMAIN admins
      BY <1>6
    <2>. QED  BY <1>1, <2>1 DEF With
  <1>8. /\ DOMAIN made' = Tokens /\ made'[t] = made[t] \cup {nextId}
        /\ \A u \in Tokens \ {t} : made'[u] = made[u]
    BY <1>1, <1>2 DEF InvitesInv, InvitesShape
  <1>. HIDE DEF t, e
  <1>9. InvitesShape'
    <2>1. nextId' \in 1..MaxAdmins + 1
      BY <1>1, <1>6, InvitesAssumption
    <2>2. DOMAIN admins' \subseteq 1..nextId' - 1
      BY <1>1, <1>6, <1>7
    <2>3. \A u \in Tokens : made'[u] \subseteq 1..nextId' - 1
      BY <1>1, <1>6, <1>8 DEF InvitesInv, InvitesShape
    <2>. QED  BY <2>1, <2>2, <2>3, <1>1, <1>2, <1>3, <1>4, <1>8 DEF InvitesInv, InvitesShape, Holding
  <1>10. OneAddress'
    <2>1. ASSUME NEW q \in Requests \ {r}, Holding(q), request[q].token = t
          PROVE  request[q].email = e
      BY <2>1, <1>2 DEF InvitesInv, OneAddress, t, e
    <2>2. t \in DOMAIN invites => e = invites[t].email
      BY <1>2 DEF InvitesInv, OneAddress, t, e
    <2>. QED  BY <2>1, <2>2, <1>1, <1>3, <1>4 DEF InvitesInv, OneAddress, Holding
  <1>11. MarksAreTrue'
    <2>1. \A u \in Tokens : made[u] \subseteq made'[u]
      BY <1>8
    <2>2. \A u \in DOMAIN invites : u \in Tokens
      BY DEF InvitesInv, InvitesShape
    <2>3. ASSUME NEW q \in Requests, request'[q].pc = "created"
          PROVE  request'[q].id \in made'[request'[q].token]
      <3>1. CASE q = r
        BY <3>1, <1>2, <1>4, <1>8
      <3>2. CASE q # r
        <4>1. request'[q] = request[q] /\ request[q].token \in Tokens
          BY <3>2, <2>3, <1>3 DEF InvitesInv, InvitesShape, Holding
        <4>. QED  BY <4>1, <2>1, <2>3 DEF InvitesInv, MarksAreTrue
      <3>. QED  BY <3>1, <3>2
    <2>. QED  BY <2>1, <2>2, <2>3, <1>1 DEF InvitesInv, MarksAreTrue
  <1>12. Protected'
    <2>. SUFFICES ASSUME NEW u \in Tokens \ excused
                  PROVE  /\ \A i, j \in made'[u] : i = j
                         /\ made'[u] \subseteq DOMAIN admins'
                         /\ \A q \in Requests, i \in made'[u] :
                               (Holding(q)' /\ request'[q].token = u) => admins'[i] = request'[q].email
                         /\ (made'[u] # {} /\ u \in DOMAIN invites /\ invites[u].usedBy = Unset) =>
                               \E q \in Requests : request'[q].pc = "created" /\ request'[q].token = u
      BY <1>1 DEF Protected
    <2>1. CASE u = t
      <3>1. made'[u] = {nextId}
        BY <2>1, <1>5, <1>8
      <3>2. ASSUME NEW q \in Requests, Holding(q)', request'[q].token = u
            PROVE  request'[q].email = e
        <4>1. Holding(r)' /\ request'[r].token = u
          BY <2>1, <1>4 DEF Holding
        <4>. QED  BY <3>2, <4>1, <1>10, <1>4 DEF OneAddress
      <3>. QED  BY <3>1, <3>2, <2>1, <1>4, <1>7
    <2>2. CASE u # t
      <3>1. made'[u] = made[u] /\ made[u] \subseteq DOMAIN admins /\ \A i, j \in made[u] : i = j
        BY <2>2, <1>8 DEF InvitesInv, Protected
      <3>2. \A q \in Requests : request'[q].token = u => request'[q] = request[q]
        BY <2>2, <1>3, <1>4
      <3>3. \A q \in Requests, i \in made[u] :
               (Holding(q)' /\ request'[q].token = u) => admins'[i] = request'[q].email
        BY <3>1, <3>2, <1>7 DEF InvitesInv, Protected, Holding
      <3>4. (made[u] # {} /\ u \in DOMAIN invites /\ invites[u].usedBy = Unset) =>
               \E q \in Requests : request'[q].pc = "created" /\ request'[q].token = u
        <4>1. \A q \in Requests : request[q].pc = "created" => request'[q] = request[q]
          BY <1>1, <1>3
        <4>. QED  BY <4>1 DEF InvitesInv, Protected
      <3>. QED  BY <3>1, <3>3, <3>4, <1>7
    <2>. QED  BY <2>1, <2>2
  <1>13. RevokedIsOver'
    <2>1. \A q \in Requests : request'[q].token = request[q].token /\ (Holding(q)' => Holding(q))
      BY <1>2, <1>3, <1>4 DEF Holding, t
    <2>. QED  BY <2>1, <1>1 DEF InvitesInv, RevokedIsOver, Accepting
  <1>. QED  BY <1>9, <1>10, <1>11, <1>12, <1>13 DEF InvitesInv

(* CreateInvite inserts under a token that nobody has seen.                 *)
LEMMA InsertStep ==
  ASSUME InvitesInv, NEW r \in Requests, NEW enforced \in BOOLEAN, InsertInvite(r, enforced)
  PROVE  InvitesInv'
  <1>1. /\ request[r].pc = "checked" /\ request' = [request EXCEPT ![r] = NoRequest]
        /\ UNCHANGED <<admins, nextId, made, excused, revoked>>
    BY DEF InsertInvite, At, Done
  <1>2. /\ DOMAIN request' = Requests /\ request' = [q \in Requests |-> request'[q]]
        /\ request'[r] = NoRequest
        /\ \A q \in Requests \ {r} : request'[q] = request[q]
    BY <1>1 DEF InvitesInv, InvitesShape
  <1>3. CASE UNCHANGED invites
    BY <1>1, <1>3, IdleRequest, EndedRequest
  <1>4. ASSUME NEW t \in Tokens \ DOMAIN invites,
               made[t] = {} /\ ~Accepting(t) /\ t \notin expired \cup excused \cup revoked,
               invites' = With(invites, t, [email |-> request[r].email, by |-> request[r].id,
                                            usedBy |-> Unset])
        PROVE  InvitesInv'
    <2>1. /\ DOMAIN invites' = DOMAIN invites \cup {t}
          /\ invites'[t] = [email |-> request[r].email, by |-> request[r].id, usedBy |-> Unset]
          /\ \A u \in DOMAIN invites : invites'[u] = invites[u]
      BY <1>4 DEF With
    <2>2. IsInvite(invites'[t]) /\ invites'[t].usedBy = Unset
      BY <2>1 DEF IsInvite
    <2>3. InvitesShape'
      BY <1>1, <1>2, <2>1, <2>2, IdleRequest DEF InvitesInv, InvitesShape, Holding
    <2>4. \A q \in Requests : Holding(q)' => Holding(q) /\ request'[q] = request[q] /\ request[q].token # t
      BY <1>2, <1>4, IdleRequest DEF Holding, Accepting
    <2>5. OneAddress'
      BY <2>1, <2>4 DEF InvitesInv, OneAddress
    <2>6. MarksAreTrue'
      <3>1. \A q \in Requests : request'[q].pc = "created" => request'[q] = request[q]
        BY <1>2, IdleRequest
      <3>. QED  BY <3>1, <1>1, <2>1, <2>2 DEF InvitesInv, MarksAreTrue
    <2>7. Protected'
      <3>. SUFFICES ASSUME NEW u \in Tokens \ excused
                    PROVE  /\ \A i, j \in made[u] : i = j
                           /\ made[u] \subseteq DOMAIN admins
                           /\ \A q \in Requests, i \in made[u] :
                                 (Holding(q)' /\ request'[q].token = u) => admins[i] = request'[q].email
                           /\ (made[u] # {} /\ u \in DOMAIN invites' /\ invites'[u].usedBy = Unset) =>
                                 \E q \in Requests : request'[q].pc = "created" /\ request'[q].token = u
        BY <1>1 DEF Protected
      <3>1. (\A i, j \in made[u] : i = j) /\ made[u] \subseteq DOMAIN admins
        BY DEF InvitesInv, Protected
      <3>2. \A q \in Requests, i \in made[u] :
               (Holding(q)' /\ request'[q].token = u) => admins[i] = request'[q].email
        BY <2>4 DEF InvitesInv, Protected
      <3>3. (made[u] # {} /\ u \in DOMAIN invites' /\ invites'[u].usedBy = Unset) =>
               \E q \in Requests : request'[q].pc = "created" /\ request'[q].token = u
        <4>1. \A q \in Requests : request[q].pc = "created" => request'[q] = request[q]
          BY <1>1, <1>2
        <4>. QED  BY <4>1, <1>4, <2>1 DEF InvitesInv, Protected
      <3>. QED  BY <3>1, <3>2, <3>3
    <2>8. RevokedIsOver'
      BY <1>1, <1>4, <2>1, <2>4 DEF InvitesInv, RevokedIsOver, Accepting
    <2>. QED  BY <2>3, <2>5, <2>6, <2>7, <2>8 DEF InvitesInv
  <1>. QED  BY <1>3, <1>4 DEF InsertInvite

(* MarkInviteUsed writes the id of the account it made, or is rejected and  *)
(* excused.                                                                 *)
LEMMA MarkStep ==
  ASSUME InvitesInv, NEW r \in Requests, NEW enforced \in BOOLEAN, MarkInviteUsed(r, enforced)
  PROVE  InvitesInv'
  <1>. DEFINE t == request[r].token
              i == request[r].id
  <1>1. /\ request[r].pc = "created" /\ request' = [request EXCEPT ![r] = NoRequest]
        /\ UNCHANGED <<admins, nextId, made, revoked>>
    BY DEF MarkInviteUsed, At, Done
  <1>2. /\ DOMAIN request' = Requests /\ request' = [q \in Requests |-> request'[q]]
        /\ request'[r] = NoRequest
        /\ \A q \in Requests \ {r} : request'[q] = request[q]
    BY <1>1 DEF InvitesInv, InvitesShape
  <1>3. Holding(r) /\ t \in Tokens /\ i \in made[t]
    BY <1>1 DEF Holding, InvitesInv, InvitesShape, MarksAreTrue
  <1>4. i # Unset
    BY <1>3, InvitesAssumption DEF InvitesInv, InvitesShape, Unset
  <1>5. CASE UNCHANGED invites /\ excused' = excused \cup {t}
    BY <1>1, <1>5, IdleRequest, EndedRequest
  <1>6. ASSUME UNCHANGED excused,
               invites' = IF t \in DOMAIN invites
                          THEN [invites EXCEPT ![t].usedBy = i] ELSE invites
        PROVE  InvitesInv'
    <2>1. DOMAIN invites' = DOMAIN invites /\ \A u \in DOMAIN invites \ {t} : invites'[u] = invites[u]
      BY <1>6
    <2>2. t \in DOMAIN invites =>
             /\ IsInvite(invites'[t]) /\ invites'[t].email = invites[t].email /\ invites'[t].usedBy = i
      <3>. SUFFICES ASSUME t \in DOMAIN invites
                    PROVE  /\ IsInvite(invites'[t]) /\ invites'[t].email = invites[t].email
                           /\ invites'[t].usedBy = i
        OBVIOUS
      <3>1. invites'[t] = [invites[t] EXCEPT !.usedBy = i] /\ IsInvite(invites[t])
        BY <1>6 DEF InvitesInv, InvitesShape
      <3>2. invites'[t] = [email |-> invites[t].email, by |-> invites[t].by, usedBy |-> i]
        BY <3>1 DEF IsInvite
      <3>. QED  BY <3>2 DEF IsInvite
    <2>3. InvitesShape'
      BY <1>1, <1>2, <2>1, <2>2, IdleRequest DEF InvitesInv, InvitesShape, Holding
    <2>4. \A q \in Requests : Holding(q)' => Holding(q) /\ request'[q] = request[q]
      BY <1>2, IdleRequest DEF Holding
    <2>. HIDE DEF t, i
    <2>5. OneAddress'
      BY <2>1, <2>2, <2>4 DEF InvitesInv, OneAddress
    <2>6. MarksAreTrue'
      <3>1. \A q \in Requests : request'[q].pc = "created" => request'[q] = request[q]
        BY <1>2, IdleRequest
      <3>. QED  BY <3>1, <1>1, <1>3, <2>1, <2>2 DEF InvitesInv, MarksAreTrue
    <2>7. Protected'
      <3>. SUFFICES ASSUME NEW u \in Tokens \ excused
                    PROVE  /\ \A k, j \in made[u] : k = j
                           /\ made[u] \subseteq DOMAIN admins
                           /\ \A q \in Requests, k \in made[u] :
                                 (Holding(q)' /\ request'[q].token = u) => admins[k] = request'[q].email
                           /\ (made[u] # {} /\ u \in DOMAIN invites' /\ invites'[u].usedBy = Unset) =>
                                 \E q \in Requests : request'[q].pc = "created" /\ request'[q].token = u
        BY <1>1, <1>6 DEF Protected
      <3>1. (\A k, j \in made[u] : k = j) /\ made[u] \subseteq DOMAIN admins
        BY DEF InvitesInv, Protected
      <3>2. \A q \in Requests, k \in made[u] :
               (Holding(q)' /\ request'[q].token = u) => admins[k] = request'[q].email
        BY <2>4 DEF InvitesInv, Protected
      <3>3. (made[u] # {} /\ u \in DOMAIN invites' /\ invites'[u].usedBy = Unset) =>
               \E q \in Requests : request'[q].pc = "created" /\ request'[q].token = u
        <4>1. CASE u = t
          BY <4>1, <1>4, <2>1, <2>2
        <4>2. CASE u # t
          <5>1. \A q \in Requests : request[q].token = u => request'[q] = request[q]
            BY <4>2, <1>2 DEF t
          <5>. QED  BY <4>2, <5>1, <2>1 DEF InvitesInv, Protected
        <4>. QED  BY <4>1, <4>2
      <3>. QED  BY <3>1, <3>2, <3>3
    <2>8. RevokedIsOver'
      <3>1. t \notin revoked
        BY <1>3 DEF InvitesInv, RevokedIsOver, Accepting, t
      <3>. QED  BY <1>1, <3>1, <2>1, <2>4 DEF InvitesInv, RevokedIsOver, Accepting
    <2>. QED  BY <2>3, <2>5, <2>6, <2>7, <2>8 DEF InvitesInv
  <1>. QED  BY <1>5, <1>6 DEF MarkInviteUsed

(* RevokeInvite marks the row, and nobody is accepting it or the revocation *)
(* does not count.                                                          *)
LEMMA RevokeStep ==
  ASSUME InvitesInv, NEW t \in Tokens, NEW enforced \in BOOLEAN, RevokeInvite(t, enforced)
  PROVE  InvitesInv'
  <1>1. /\ UNCHANGED <<admins, nextId, request, made, excused>>
        /\ invites' = IF t \in DOMAIN invites
                      THEN [invites EXCEPT ![t].usedBy = NoAdmin] ELSE invites
        /\ revoked' = IF t \notin DOMAIN invites \/ Accepting(t) THEN revoked ELSE revoked \cup {t}
    BY DEF RevokeInvite
  <1>2. DOMAIN invites' = DOMAIN invites /\ \A u \in DOMAIN invites \ {t} : invites'[u] = invites[u]
    BY <1>1
  <1>3. t \in DOMAIN invites =>
           /\ IsInvite(invites'[t]) /\ invites'[t].email = invites[t].email
           /\ invites'[t].usedBy = NoAdmin
    <2>. SUFFICES ASSUME t \in DOMAIN invites
                  PROVE  /\ IsInvite(invites'[t]) /\ invites'[t].email = invites[t].email
                         /\ invites'[t].usedBy = NoAdmin
      OBVIOUS
    <2>1. invites'[t] = [invites[t] EXCEPT !.usedBy = NoAdmin] /\ IsInvite(invites[t])
      BY <1>1 DEF InvitesInv, InvitesShape
    <2>2. invites'[t] = [email |-> invites[t].email, by |-> invites[t].by, usedBy |-> NoAdmin]
      BY <2>1 DEF IsInvite
    <2>. QED  BY <2>2 DEF IsInvite
  <1>4. InvitesShape'
    BY <1>1, <1>2, <1>3 DEF InvitesInv, InvitesShape, Holding
  <1>5. OneAddress'
    BY <1>1, <1>2, <1>3 DEF InvitesInv, OneAddress, Holding
  <1>6. MarksAreTrue'
    BY <1>1, <1>2, <1>3 DEF InvitesInv, MarksAreTrue
  <1>7. Protected'
    <2>1. NoAdmin # Unset
      BY InvitesAssumption DEF NoAdmin, Unset
    <2>2. \A u \in DOMAIN invites' : invites'[u].usedBy = Unset => invites[u].usedBy = Unset
      BY <2>1, <1>2, <1>3
    <2>. QED  BY <2>2, <1>1, <1>2 DEF InvitesInv, Protected, Holding
  <1>8. RevokedIsOver'
    <2>1. \A u \in Tokens : Accepting(u)' = Accepting(u)
      BY <1>1 DEF Accepting, Holding
    <2>2. \A u \in revoked' : ~Accepting(u)'
      BY <1>1 DEF InvitesInv, RevokedIsOver, Accepting, Holding
    <2>3. \A u \in revoked' : u \in DOMAIN invites' => invites'[u].usedBy = NoAdmin
      BY <1>1, <1>2, <1>3 DEF InvitesInv, RevokedIsOver
    <2>. QED  BY <2>2, <2>3 DEF RevokedIsOver
  <1>. QED  BY <1>4, <1>5, <1>6, <1>7, <1>8 DEF InvitesInv

(* DeleteAdminAccount makes unused only the invites of the account it       *)
(* deletes (ON DELETE SET NULL), which are excused.                         *)
LEMMA DeleteStep ==
  ASSUME InvitesInv, NEW i \in Ids, NEW enforced \in BOOLEAN, DeleteAdminAccount(i, enforced)
  PROVE  InvitesInv'
  <1>0. UNCHANGED <<request, made>>
    BY DEF DeleteAdminAccount
  <1>1. /\ UNCHANGED <<nextId, request, made, revoked>>
        /\ admins' = Without(admins, {i})
        /\ excused' = excused \cup {t \in Tokens : i \in made[t]}
    BY DEF DeleteAdminAccount
  <1>2. \/ invites' = invites
        \/ invites' = [t \in {u \in DOMAIN invites : invites[u].by # i} |->
                           [invites[t] EXCEPT !.usedBy = IF @ = i THEN Unset ELSE @]]
    BY DEF DeleteAdminAccount
  <1>3. DOMAIN admins' = DOMAIN admins \ {i} /\ \A j \in DOMAIN admins \ {i} : admins'[j] = admins[j]
    BY <1>1 DEF Without
  <1>4. DOMAIN invites' \subseteq DOMAIN invites
    BY <1>2
  <1>5. ASSUME NEW t \in DOMAIN invites'
        PROVE  /\ IsInvite(invites'[t]) /\ invites'[t].email = invites[t].email
               /\ invites'[t].usedBy = IF invites[t].usedBy = i /\ invites'[t].usedBy = Unset
                                       THEN Unset ELSE invites[t].usedBy
    <2>1. CASE invites' = invites
      BY <2>1 DEF InvitesInv, InvitesShape
    <2>2. CASE invites' = [u \in {u \in DOMAIN invites : invites[u].by # i} |->
                           [invites[u] EXCEPT !.usedBy = IF @ = i THEN Unset ELSE @]]
      <3>1. /\ invites'[t] = [invites[t] EXCEPT !.usedBy = IF invites[t].usedBy = i THEN Unset
                                                             ELSE invites[t].usedBy]
            /\ IsInvite(invites[t])
        BY <2>2, <1>4 DEF InvitesInv, InvitesShape
      <3>2. invites'[t] = [email |-> invites[t].email, by |-> invites[t].by,
                           usedBy |-> IF invites[t].usedBy = i THEN Unset ELSE invites[t].usedBy]
        BY <3>1 DEF IsInvite
      <3>. QED  BY <3>2 DEF IsInvite
    <2>. QED  BY <1>2, <2>1, <2>2
  <1>6. i # NoAdmin /\ i # Unset /\ NoAdmin # Unset
    BY InvitesAssumption DEF Ids, NoAdmin, Unset
  <1>7. InvitesShape'
    BY <1>1, <1>3, <1>4, <1>5 DEF InvitesInv, InvitesShape, Holding
  <1>8. OneAddress'
    BY <1>1, <1>4, <1>5 DEF InvitesInv, OneAddress, Holding
  <1>9. MarksAreTrue'
    BY <1>1, <1>4, <1>5 DEF InvitesInv, MarksAreTrue
  <1>10. Protected'
    <2>. SUFFICES ASSUME NEW u \in Tokens \ excused'
                  PROVE  /\ \A k, j \in made[u] : k = j
                         /\ made[u] \subseteq DOMAIN admins'
                         /\ \A q \in Requests, k \in made[u] :
                               (Holding(q) /\ request[q].token = u) => admins'[k] = request[q].email
                         /\ (made[u] # {} /\ u \in DOMAIN invites' /\ invites'[u].usedBy = Unset) =>
                               \E q \in Requests : request[q].pc = "created" /\ request[q].token = u
      BY <1>0 DEF Protected, Holding
    <2>1. u \notin excused /\ i \notin made[u]
      BY <1>1
    <2>2. (\A k, j \in made[u] : k = j) /\ made[u] \subseteq DOMAIN admins
      BY <2>1 DEF InvitesInv, Protected
    <2>3. \A q \in Requests, k \in made[u] :
             (Holding(q) /\ request[q].token = u) => admins'[k] = request[q].email
      BY <2>1, <2>2, <1>3 DEF InvitesInv, Protected
    <2>4. u \in DOMAIN invites' /\ invites'[u].usedBy = Unset => invites[u].usedBy = Unset
      BY <2>1, <1>4, <1>5, <1>6 DEF InvitesInv, MarksAreTrue
    <2>. QED  BY <2>1, <2>2, <2>3, <2>4, <1>3, <1>4 DEF InvitesInv, Protected
  <1>11. RevokedIsOver'
    BY <1>1, <1>4, <1>5, <1>6 DEF InvitesInv, RevokedIsOver, Accepting, Holding
  <1>. QED  BY <1>7, <1>8, <1>9, <1>10, <1>11 DEF InvitesInv

(* UpdateAdminAccount excuses the acceptances in flight for the address it  *)
(* releases, and no other account's address changes.                        *)
LEMMA UpdateKeeps ==
  ASSUME InvitesInv, NEW i, NEW email, UpdateAdminAccount(i, email)
  PROVE  /\ excused \subseteq excused'
         /\ DOMAIN admins' = DOMAIN admins
         /\ \A t \in Tokens \ excused' : made[t] \subseteq DOMAIN admins'
         /\ \A q \in Requests :
               Holding(q) => \/ request[q].token \in excused'
                             \/ \A k \in made[request[q].token] : admins'[k] = admins[k]
  <1>1. CASE UNCHANGED <<admins, excused>>
    BY <1>1 DEF InvitesInv, Protected
  <1>2. CASE /\ i \in DOMAIN admins
             /\ admins' = [admins EXCEPT ![i] = email]
             /\ excused' = IF email = admins[i] THEN excused
                           ELSE excused \cup {request[q].token : q \in
                               {p \in Requests : Holding(p) /\ request[p].email = admins[i]}}
    <2>1. excused \subseteq excused' /\ DOMAIN admins' = DOMAIN admins
      BY <1>2
    <2>2. \A t \in Tokens \ excused' : made[t] \subseteq DOMAIN admins'
      BY <2>1 DEF InvitesInv, Protected
    <2>3. ASSUME NEW q \in Requests, Holding(q), request[q].token \notin excused',
                 NEW k \in made[request[q].token]
          PROVE  admins'[k] = admins[k]
      <3>1. request[q].token \in Tokens \ excused
        BY <2>1, <2>3 DEF InvitesInv, InvitesShape
      <3>2. k \in DOMAIN admins /\ admins[k] = request[q].email
        BY <2>3, <3>1 DEF InvitesInv, Protected
      <3>3. CASE k # i
        BY <1>2, <3>2, <3>3
      <3>4. CASE k = i
        BY <1>2, <2>3, <3>2, <3>4
      <3>. QED  BY <3>3, <3>4
    <2>. QED  BY <2>1, <2>2, <2>3
  <1>. QED  BY <1>1, <1>2 DEF UpdateAdminAccount

(* The invariant holds with the administrators there already are and no     *)
(* invite.                                                                  *)
LEMMA InvitesStart == InvitesInit => InvitesInv
  <1>. SUFFICES ASSUME InvitesInit PROVE InvitesInv
    OBVIOUS
  <1>1. InvitesShape
    <2>1. DOMAIN Earlier = 1..Len(Earlier) /\ Len(Earlier) \in Nat
      BY InvitesAssumption
    <2>. QED  BY <2>1, IdleRequest, InvitesAssumption DEF InvitesInit, InvitesShape, Holding
  <1>. QED  BY <1>1, IdleRequest
       DEF InvitesInit, InvitesInv, OneAddress, MarksAreTrue, Protected, RevokedIsOver, Holding

(* Every request, crash and expiry keeps the invariant.                     *)
LEMMA InvitesStep == InvitesInv /\ [InvitesNext]_invitesVars => InvitesInv'
  <1>. SUFFICES ASSUME InvitesInv, [InvitesNext]_invitesVars PROVE InvitesInv'
    OBVIOUS
  <1>0. request = [q \in Requests |-> request[q]] /\ \A q \in Requests : IsRequest(request[q])
    BY DEF InvitesInv, InvitesShape
  <1>1. ASSUME NEW r \in Requests, NEW by \in Ids, NEW email \in Emails, CheckInvitee(r, by, email)
        PROVE  InvitesInv'
    <2>. DEFINE a == [NoRequest EXCEPT !.pc = "checked"]
                b == [a EXCEPT !.id = by]
                v == [b EXCEPT !.email = email]
    <2>1. IsRequest(v) /\ v.pc = "checked"
      <3>1. PICK x : NoRequest = [pc |-> "idle", token |-> x, id |-> 1, email |-> Earlier[1]]
        BY DEF NoRequest
      <3>2. a = [pc |-> "checked", token |-> x, id |-> 1, email |-> Earlier[1]]
        BY <3>1
      <3>. HIDE DEF a
      <3>3. b = [pc |-> "checked", token |-> x, id |-> by, email |-> Earlier[1]]
        BY <3>2
      <3>. HIDE DEF b
      <3>4. v = [pc |-> "checked", token |-> x, id |-> by, email |-> email]
        BY <3>3
      <3>. QED  BY <3>4 DEF IsRequest
    <2>2. request' = [request EXCEPT ![r] = v]
      BY <1>1 DEF CheckInvitee
    <2>. HIDE DEF a, b, v
    <2>3. request[r].pc = "idle" /\ UNCHANGED <<admins, nextId, invites, made, excused, revoked>>
      BY <1>1 DEF CheckInvitee, At
    <2>. QED  BY <2>1, <2>2, <2>3, EndedRequest
  <1>2. ASSUME NEW r \in Requests, NEW i \in Ids, LoadAdmin(r, i)
        PROVE  InvitesInv'
    <2>. DEFINE a == [NoRequest EXCEPT !.pc = "loaded"]
                b == [a EXCEPT !.id = i]
                v == [b EXCEPT !.email = admins[i]]
    <2>1. IsRequest(v) /\ v.pc = "loaded"
      <3>1. PICK x : NoRequest = [pc |-> "idle", token |-> x, id |-> 1, email |-> Earlier[1]]
        BY DEF NoRequest
      <3>2. a = [pc |-> "loaded", token |-> x, id |-> 1, email |-> Earlier[1]]
        BY <3>1
      <3>. HIDE DEF a
      <3>3. b = [pc |-> "loaded", token |-> x, id |-> i, email |-> Earlier[1]]
        BY <3>2
      <3>. HIDE DEF b
      <3>4. v = [pc |-> "loaded", token |-> x, id |-> i, email |-> admins[i]]
        BY <3>3
      <3>. QED  BY <3>4 DEF IsRequest
    <2>2. request' = [request EXCEPT ![r] = v]
      BY <1>2 DEF LoadAdmin
    <2>. HIDE DEF a, b, v
    <2>3. request[r].pc = "idle" /\ UNCHANGED <<admins, nextId, invites, made, excused, revoked>>
      BY <1>2 DEF LoadAdmin, At
    <2>. QED  BY <2>1, <2>2, <2>3, EndedRequest
  <1>3. ASSUME NEW r \in Requests, CreateFails(r)  PROVE InvitesInv'
    BY <1>3, IdleRequest, EndedRequest DEF CreateFails, Done, At
  <1>4. ASSUME NEW r \in Requests, PreferencesFail(r)  PROVE InvitesInv'
    BY <1>4, IdleRequest, EndedRequest DEF PreferencesFail, Done, At
  <1>5. ASSUME NEW t \in Tokens, Expire(t)  PROVE InvitesInv'
    <2>1. UNCHANGED <<admins, nextId, invites, request, made, excused, revoked>>
      BY <1>5 DEF Expire
    <2>2. \A u \in Tokens \ excused' : made[u] \subseteq DOMAIN admins'
      BY <2>1 DEF InvitesInv, Protected
    <2>. QED  BY <1>0, <2>1, <2>2, QuietStep
  <1>6. ASSUME NEW i \in Ids, NEW email \in Emails, UpdateProfile(i, email)  PROVE InvitesInv'
    <2>1. UpdateAdminAccount(i, email) /\ UNCHANGED <<nextId, invites, request, made, revoked>>
      BY <1>6 DEF UpdateProfile
    <2>. QED  BY <1>0, <2>1, UpdateKeeps, QuietStep
  <1>7. ASSUME NEW r \in Requests, SetActive(r)  PROVE InvitesInv'
    <2>1. /\ UpdateAdminAccount(request[r].id, request[r].email)
          /\ UNCHANGED <<nextId, invites, made, revoked>>
          /\ request[r].pc = "loaded" /\ request' = [request EXCEPT ![r] = NoRequest]
      BY <1>7 DEF SetActive, At, Done
    <2>2. /\ excused \subseteq excused'
          /\ DOMAIN admins' = DOMAIN admins
          /\ \A t \in Tokens \ excused' : made[t] \subseteq DOMAIN admins'
          /\ \A q \in Requests :
               Holding(q) => \/ request[q].token \in excused'
                             \/ \A k \in made[request[q].token] : admins'[k] = admins[k]
      BY <2>1, UpdateKeeps
    <2>3. /\ request' = [q \in Requests |-> request'[q]]
          /\ request'[r] = NoRequest
          /\ \A q \in Requests \ {r} : request'[q] = request[q]
      BY <1>0, <2>1
    <2>. QED  BY <1>0, <2>1, <2>2, <2>3, IdleRequest, QuietStep
  <1>8. ASSUME InvitesCrash  PROVE InvitesInv'
    <2>1. /\ request' = [r \in Requests |-> NoRequest]
          /\ excused' = excused \cup {request[r].token : r \in {q \in Requests : request[q].pc = "created"}}
          /\ UNCHANGED <<admins, nextId, invites, made, revoked>>
      BY <1>8 DEF InvitesCrash, At
    <2>2. \A t \in Tokens \ excused' : made[t] \subseteq DOMAIN admins'
      BY <2>1 DEF InvitesInv, Protected
    <2>. QED  BY <2>1, <2>2, IdleRequest, QuietStep
  <1>9. CASE UNCHANGED invitesVars
    <2>1. \A u \in Tokens \ excused' : made[u] \subseteq DOMAIN admins'
      BY <1>9 DEF InvitesInv, Protected, invitesVars
    <2>. QED  BY <1>0, <1>9, <2>1, QuietStep DEF invitesVars
  <1>. QED
    BY <1>1, <1>2, <1>3, <1>4, <1>5, <1>6, <1>7, <1>8, <1>9,
       VerifyStep, CreateStep, InsertStep, MarkStep, RevokeStep, DeleteStep
    DEF InvitesNext, AcceptInvite, CreateInvite, ToggleAdmin

(* The invariant of the invites holds in every reachable state, for every   *)
(* set of tokens and addresses and any number of concurrent requests.       *)
THEOREM InvitesInductive == InvitesSpec => []InvitesInv
  BY InvitesStart, InvitesStep, PTL DEF InvitesSpec

(* An invite creates at most one account, although AcceptInvite is three    *)
(* statements outside a transaction, unless its mark was lost or undone.    *)
THEOREM OneAccountPerInvite == InvitesSpec => []InviteOnce
  <1>1. InvitesInv => InviteOnce
    <2>. SUFFICES ASSUME InvitesInv, NEW t \in Tokens, t \notin excused
                  PROVE  Cardinality(made[t]) <= 1
      BY DEF InviteOnce
    <2>1. \A i, j \in made[t] : i = j
      BY DEF InvitesInv, Protected
    <2>2. CASE made[t] = {}
      BY <2>2, FS_EmptySet
    <2>3. CASE made[t] # {}
      <3>1. PICK i : made[t] = {i}
        BY <2>1, <2>3
      <3>2. Cardinality({i}) = 1
        BY FS_Singleton, Zenon
      <3>. QED  BY <3>1, <3>2
    <2>. QED  BY <2>2, <2>3
  <1>. QED  BY <1>1, InvitesInductive, PTL

(* No account is ever created from an invite that was revoked while nobody  *)
(* was accepting it.                                                        *)
THEOREM RevokedStaysRevoked == InvitesSpec => RevokedCreatesNothing
  <1>1. InvitesInv /\ [InvitesNext]_invitesVars => [\A t \in revoked : made'[t] = made[t]]_invitesVars
    <2>. SUFFICES ASSUME InvitesInv, [InvitesNext]_invitesVars, NEW t \in revoked, made' # made
                  PROVE  made'[t] = made[t]
      OBVIOUS
    <2>1. PICK r \in Requests : CreateAdminAccount(r)
      BY DEF InvitesNext, AcceptInvite, CreateInvite, ToggleAdmin, invitesVars, CheckInvitee,
             InsertInvite, VerifyInvite, CreateFails, PreferencesFail, MarkInviteUsed, LoadAdmin,
             SetActive, Expire, RevokeInvite, DeleteAdminAccount, UpdateProfile, InvitesCrash
    <2>2. Accepting(request[r].token)
      BY <2>1 DEF CreateAdminAccount, At, Accepting, Holding
    <2>3. request[r].token # t
      BY <2>2 DEF InvitesInv, RevokedIsOver
    <2>. QED  BY <2>1, <2>3 DEF CreateAdminAccount
  <1>. QED  BY <1>1, InvitesInductive, PTL DEF InvitesSpec, RevokedCreatesNothing
=============================================================================
