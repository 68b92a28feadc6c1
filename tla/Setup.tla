------------------------------- MODULE Setup -------------------------------
(***************************************************************************)
(* The first run and the setup wizard: the one-time setup token that        *)
(* main.go generates when there is no server.db, the token that the command *)
(* --maintenance setup generates, and the pages of server/handler/setup.go  *)
(* behind the gates of server/middleware/setup.go.                          *)
(*                                                                          *)
(* Three kinds of process meet in setup_token.txt and in the table          *)
(* server_admin_credentials: the server, which ends and is started again,   *)
(* the command, and the browsers' requests.  A token stands for its hash, a *)
(* browser submits only tokens that somebody was shown.  The cookie that    *)
(* proves a verified token is not bound to the token.  A submitted form is  *)
(* a valid one; settings made by the pages in the middle are left out.      *)
(***************************************************************************)
EXTENDS Integers, FiniteSets

CONSTANTS
    Browsers,       \* each has a cookie jar and one request at a time
    Names,          \* user names the form may be submitted with
    LastPage,       \* number of the page that completes the setup: 6
    MaxSetupTokens, \* bound: tokens generated
    MaxStarts,      \* bound: starts of the server
    MaxMishaps      \* bound: operations that fail

ASSUME SetupAssumption ==
    /\ LastPage \in Nat /\ LastPage > 1
    /\ {MaxSetupTokens, MaxStarts, MaxMishaps} \subseteq Nat

VARIABLES
    dbFile,     \* server.db exists
    primaries,  \* names in server_admin_credentials, all super admins
    completed,  \* server_config has setup.completed
    tokenFile,  \* setup_token.txt: a token, NoFile or Garbage
    server,     \* the server: its place in main, and the token it holds
    command,    \* --maintenance setup: its place, and the token it saved
    visit,      \* visit[b]: the request of b, and the page b was sent to
    proven,     \* browsers with a valid setup_token_verified cookie
    bounds,     \* tokens, starts and failures so far
    printed,    \* history: tokens an operator was shown
    mishaps     \* history: saveFailed, cut, overlap, blind

setupVars == <<dbFile, primaries, completed, tokenFile, server, command, visit,
               proven, bounds, printed, mishaps>>

NoFile == 0
Garbage == -1
SetupTokens == 1..MaxSetupTokens
Pages == 1..LastPage
AccountPage == 1
Elsewhere == 0

Down == [at |-> "down", token |-> NoFile]
NoCommand == [at |-> "idle", token |-> NoFile]
Home == [at |-> "idle", page |-> AccountPage, name |-> CHOOSE n \in Names : TRUE,
         sent |-> AccountPage]

(* The shape of the files, of the tables and of the processes.              *)
SetupTypeOK ==
    /\ dbFile \in BOOLEAN /\ completed \in BOOLEAN /\ primaries \subseteq Names
    /\ tokenFile \in SetupTokens \cup {NoFile, Garbage}
    /\ server \in [at : {"down", "open", "save", "banner", "up"},
                   token : SetupTokens \cup {NoFile}]
    /\ command \in [at : {"idle", "counted", "saved"}, token : SetupTokens \cup {NoFile}]
    /\ visit \in [Browsers -> [at : {"idle", "counted", "form", "inserted", "session"},
                               page : Pages, name : Names,
                               sent : Pages \cup {Elsewhere}]]
    /\ proven \subseteq Browsers /\ printed \subseteq SetupTokens
    /\ mishaps \subseteq {"saveFailed", "cut", "overlap", "blind"}

SetupInit ==
    /\ dbFile = FALSE /\ primaries = {} /\ completed = FALSE /\ tokenFile = NoFile
    /\ server = Down /\ command = NoCommand
    /\ visit = [b \in Browsers |-> Home] /\ proven = {}
    /\ bounds = [tokens |-> 0, starts |-> 0, mishaps |-> 0]
    /\ printed = {} /\ mishaps = {}

-----------------------------------------------------------------------------
files == <<dbFile, tokenFile>>
tables == <<primaries, completed>>

Spend(what) == bounds' = [bounds EXCEPT ![what] = @ + 1]
May(what, limit) == bounds[what] < limit
Mishap == May("mishaps", MaxMishaps) /\ Spend("mishaps")
Happened(what) == mishaps' = mishaps \cup {what}

(* GenerateSetupToken: the next token.                                      *)
Fresh == bounds.tokens + 1

(* SaveSetupToken failed: WriteFile may have truncated the file.            *)
SaveFails == Mishap /\ tokenFile' \in {tokenFile, Garbage} /\ Happened("saveFailed")

(* DetectFirstRun: no server.db, and then a token, in memory.               *)
DetectFirstRun ==
    /\ server = Down /\ May("starts", MaxStarts)
    /\ IF dbFile
       THEN server' = [at |-> "open", token |-> NoFile] /\ Spend("starts")
       ELSE /\ May("tokens", MaxSetupTokens)
            /\ server' = [at |-> "open", token |-> Fresh]
            /\ bounds' = [bounds EXCEPT !.starts = @ + 1, !.tokens = @ + 1]
    /\ UNCHANGED <<files, tables, command, visit, proven, printed, mishaps>>

(* InitDualDB creates server.db.                                            *)
InitDualDB ==
    /\ server.at = "open"
    /\ dbFile' = TRUE
    /\ server' = [server EXCEPT !.at = "save"]
    /\ UNCHANGED <<tokenFile, tables, command, visit, proven, bounds, printed, mishaps>>

(* SaveSetupToken on the first run; a failure is logged.                    *)
SaveSetupToken ==
    /\ server.at = "save"
    /\ \/ /\ tokenFile' = IF server.token = NoFile THEN tokenFile ELSE server.token
          /\ UNCHANGED <<bounds, mishaps>>
       \/ server.token # NoFile /\ SaveFails
    /\ server' = [server EXCEPT !.at = "banner"]
    /\ UNCHANGED <<dbFile, tables, command, visit, proven, printed>>

(* The server listens, and then the banner shows the token.                 *)
Serving == server.at \in {"banner", "up"}

DisplayFirstRunBanner ==
    /\ server.at = "banner"
    /\ printed' = IF server.token = NoFile THEN printed ELSE printed \cup {server.token}
    /\ server' = [at |-> "up", token |-> NoFile]
    /\ UNCHANGED <<files, tables, command, visit, proven, bounds, mishaps>>

(* The process ends, for whatever reason, with its requests.  It was cut    *)
(* short if server.db is there and the token has not been shown yet.        *)
ServerEnds ==
    /\ server # Down
    /\ server' = Down
    /\ visit' = [b \in Browsers |-> [Home EXCEPT !.sent = visit[b].sent]]
    /\ mishaps' = IF dbFile /\ server.token # NoFile THEN mishaps \cup {"cut"} ELSE mishaps
    /\ UNCHANGED <<files, tables, command, proven, bounds, printed>>

-----------------------------------------------------------------------------
(* adminRecoverySetup: counts the admins.  Without any it goes on; with     *)
(* admins it goes on for root, who confirms or knows the token.             *)
CommandCounts ==
    /\ dbFile /\ command = NoCommand
    /\ command' = [NoCommand EXCEPT !.at = "counted"]
    /\ UNCHANGED <<files, tables, server, visit, proven, bounds, printed, mishaps>>

(* Either way a new token is saved, or the command fails.                   *)
CommandSaves ==
    /\ command.at = "counted"
    /\ \/ /\ May("tokens", MaxSetupTokens) /\ Spend("tokens")
          /\ tokenFile' = Fresh /\ command' = [at |-> "saved", token |-> Fresh]
          /\ UNCHANGED mishaps
       \/ SaveFails /\ command' = NoCommand
    /\ UNCHANGED <<dbFile, tables, server, visit, proven, printed>>

(* The saved token is shown, which is the last thing the command does.      *)
CommandShows ==
    /\ command.at = "saved"
    /\ printed' = printed \cup {command.token}
    /\ command' = NoCommand
    /\ UNCHANGED <<files, tables, server, visit, proven, bounds, mishaps>>

(* The command ends before that: refused, not confirmed, content with the   *)
(* token it was given, or killed.  It was cut short if it had replaced the  *)
(* token in the file by one that nobody has seen.                           *)
CommandEnds ==
    /\ command # NoCommand
    /\ command' = NoCommand
    /\ mishaps' = IF command.at = "saved" THEN mishaps \cup {"cut"} ELSE mishaps
    /\ UNCHANGED <<files, tables, server, visit, proven, bounds, printed>>

(* The token that the command is about to show.                             *)
ToBeShown == IF command.at = "saved" THEN {command.token} ELSE {}

-----------------------------------------------------------------------------
(* VerifySetupTokenAtAdmin: a token that was shown and is in the file.  It  *)
(* asks for nothing else.                                                   *)
VerifySetupTokenAtAdmin(b) ==
    /\ Serving /\ visit[b].at = "idle"
    /\ tokenFile \in printed
    /\ proven' = proven \cup {b}
    /\ UNCHANGED <<files, tables, server, command, visit, bounds, printed, mishaps>>

(* setupProofTTL and the cookie's MaxAge: one hour.  The browser has to     *)
(* begin again.                                                             *)
ProofExpires(b) ==
    /\ b \in proven /\ proven' = proven \ {b}
    /\ visit' = [visit EXCEPT ![b].sent = AccountPage]
    /\ UNCHANGED <<files, tables, server, command, bounds, printed, mishaps>>

Answered(b) == visit' = [visit EXCEPT ![b] = [Home EXCEPT !.sent = visit[b].sent]]

(* A page is refused by a redirect out of the wizard.  That is of interest  *)
(* where the wizard itself had sent the browser to the page.                *)
Refused(b, page) ==
    visit' = [visit EXCEPT ![b] = [Home EXCEPT !.sent =
                 IF page > AccountPage /\ page = visit[b].sent THEN Elsewhere
                                                              ELSE visit[b].sent]]

CountsNoOne(b, page) ==   \* mutant: only the token file is looked at
    /\ Serving /\ visit[b].at = "idle"
    /\ visit' = [visit EXCEPT ![b].at = "counted", ![b].page = page]
    /\ UNCHANGED <<files, tables, server, command, proven, bounds, printed, mishaps>>

(* BlockSetupAfterComplete: an admin exists, the setup is over.  A COUNT    *)
(* that fails counts for none.                                              *)
CountAdmins(b, page) ==
    /\ Serving /\ visit[b].at = "idle"
    /\ \/ /\ primaries # {} /\ Refused(b, page)
          /\ UNCHANGED <<bounds, mishaps>>
       \/ /\ primaries = {} /\ UNCHANGED <<bounds, mishaps>>
          /\ visit' = [visit EXCEPT ![b].at = "counted", ![b].page = page]
       \/ /\ primaries # {} /\ Mishap /\ Happened("blind")
          /\ visit' = [visit EXCEPT ![b].at = "counted", ![b].page = page]
    /\ UNCHANGED <<files, tables, server, command, proven, printed>>

(* The rest of the gates, RequireSetupTokenVerified included: the token     *)
(* file exists, whatever is in it, and the browser's proof is valid.        *)
GatesOpen(b) == tokenFile # NoFile /\ b \in proven

TurnAway(b) ==
    /\ visit[b].at = "counted" /\ ~GatesOpen(b)
    /\ Refused(b, visit[b].page)
    /\ UNCHANGED <<files, tables, server, command, proven, bounds, printed, mishaps>>

Asks(b, pages) == visit[b].at = "counted" /\ GatesOpen(b) /\ visit[b].page \in pages

(* CreateAdmin, up to the COUNT of the accounts with that name.             *)
CheckName(b, name) ==
    /\ Asks(b, {AccountPage})
    /\ IF name \in primaries THEN Answered(b)
       ELSE visit' = [visit EXCEPT ![b].at = "form", ![b].name = name]
    /\ UNCHANGED <<files, tables, server, command, proven, bounds, printed, mishaps>>

(* The pages in the middle are shown, and submitting or skipping one sends  *)
(* the browser to the next.                                                 *)
ProcessPage(b) ==
    /\ Asks(b, AccountPage + 1..LastPage - 1)
    /\ visit' = [visit EXCEPT ![b] = [Home EXCEPT !.sent = visit[b].page + 1]]
    /\ UNCHANGED <<files, tables, server, command, proven, bounds, printed, mishaps>>

(* CompleteSetup marks the setup complete, or logs that it could not.       *)
CompleteSetup(b) ==
    /\ Asks(b, {LastPage})
    /\ \/ completed' = TRUE /\ UNCHANGED bounds
       \/ Mishap /\ UNCHANGED completed
    /\ Answered(b)
    /\ UNCHANGED <<files, primaries, server, command, proven, printed, mishaps>>

(* The submissions between the COUNT of the gate and the INSERT.            *)
Submitting == {b \in Browsers : visit[b].at \in {"counted", "form"}
                                /\ visit[b].page = AccountPage}

InsertAfterDelete(b) ==   \* mutant: the token is used up before the INSERT
    /\ visit[b].at = "form" /\ visit[b].name \notin primaries
    /\ tokenFile' = NoFile
    /\ \/ /\ primaries' = primaries \cup {visit[b].name}
          /\ visit' = [visit EXCEPT ![b].at = "inserted"]
          /\ UNCHANGED bounds
       \/ Mishap /\ Answered(b) /\ UNCHANGED primaries
    /\ UNCHANGED <<dbFile, completed, server, command, proven, printed, mishaps>>

(* CreateAdmin: INSERT of a super admin.  The name is unique.  A failed     *)
(* INSERT may have taken effect.                                            *)
InsertAdmin(b) ==
    /\ visit[b].at = "form"
    /\ LET name == visit[b].name IN
       \/ /\ name \notin primaries
          /\ primaries' = primaries \cup {name}
          /\ visit' = [visit EXCEPT ![b].at = "inserted"]
          /\ UNCHANGED bounds
       \/ /\ name \in primaries /\ Answered(b) /\ UNCHANGED <<primaries, bounds>>
       \/ /\ name \notin primaries /\ Mishap /\ Answered(b)
          /\ primaries' \in {primaries, primaries \cup {name}}
    /\ mishaps' = IF Submitting # {b} THEN mishaps \cup {"overlap"} ELSE mishaps
    /\ UNCHANGED <<files, completed, server, command, proven, printed>>

(* INSERT of the session; without it the token is kept.                     *)
InsertSession(b) ==
    /\ visit[b].at = "inserted"
    /\ \/ visit' = [visit EXCEPT ![b].at = "session"] /\ UNCHANGED bounds
       \/ Mishap /\ Answered(b)
    /\ UNCHANGED <<files, tables, server, command, proven, printed, mishaps>>

(* DeleteSetupToken, a failure of which is logged; the answer clears the    *)
(* proof and sends the browser to the second page.                          *)
DeleteSetupToken(b) ==
    /\ visit[b].at = "session"
    /\ \/ tokenFile' = NoFile /\ UNCHANGED bounds
       \/ Mishap /\ UNCHANGED tokenFile
    /\ proven' = proven \ {b}
    /\ visit' = [visit EXCEPT ![b] = [Home EXCEPT !.sent = AccountPage + 1]]
    /\ UNCHANGED <<dbFile, tables, server, command, printed, mishaps>>

Wizard(b) ==
    \/ \E page \in Pages : CountAdmins(b, page)
    \/ TurnAway(b)
    \/ \E name \in Names : CheckName(b, name)
    \/ ProcessPage(b)
    \/ CompleteSetup(b)
    \/ InsertAdmin(b)
    \/ InsertSession(b)
    \/ DeleteSetupToken(b)

SetupNext ==
    \/ DetectFirstRun \/ InitDualDB \/ SaveSetupToken \/ DisplayFirstRunBanner
    \/ ServerEnds
    \/ CommandCounts \/ CommandSaves \/ CommandShows \/ CommandEnds
    \/ \E b \in Browsers : VerifySetupTokenAtAdmin(b) \/ ProofExpires(b) \/ Wizard(b)

SetupSpec == SetupInit /\ [][SetupNext]_setupVars

-----------------------------------------------------------------------------
(* The wizard makes one super admin, however often the server ends and      *)
(* whatever tokens the command makes later, unless two submissions overlap  *)
(* between the gate's COUNT and the INSERT, or the COUNT fails and the gate *)
(* takes that for an empty table.                                           *)
OneSetupAdmin ==
    mishaps \cap {"overlap", "blind"} = {} => Cardinality(primaries) <= 1

(* A server without an admin can be set up: the token in the file is one    *)
(* that was shown, or that the command is about to show, unless a token     *)
(* could not be saved, the first run ended after server.db was created and  *)
(* before the banner, or the command ended between saving and showing.  No  *)
(* later start makes another token, only the command does.                  *)
SetupPossible ==
    (server.at = "up" /\ primaries = {} /\ mishaps \cap {"saveFailed", "cut"} = {})
        => tokenFile \in printed \cup ToBeShown

(* "6 steps: Admin Account, API Token, Server Config, Security, Services,   *)
(* Complete": a page that the wizard sends a browser to is shown to it, at  *)
(* least as long as nothing fails, the server runs on and no two            *)
(* submissions overlap.  Creating the account sends the browser to a page   *)
(* that the gate refuses as soon as there is an account.                    *)
NoPageRefused ==
    (bounds.mishaps = 0 /\ bounds.starts = 1 /\ mishaps = {})
        => \A b \in Browsers : visit[b].sent # Elsewhere
=============================================================================
