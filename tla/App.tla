-------------------------------- MODULE App --------------------------------
(***************************************************************************)
(* The event loop's keyboard and screen (internal/ui/app.go, help.go,       *)
(* unlock.go, sync.go, sftp.go): which dialog the next key goes to, which   *)
(* one the right panel shows, and what the messages of commands and dials   *)
(* do to both while the user is somewhere else.                             *)
(*                                                                          *)
(* A dialog is a name in `up', or a variable when it asks several things.   *)
(* The tabs are the current one and one in the background (Tabs has the     *)
(* rest); the tab and file connections are the states the handlers          *)
(* distinguish.  Keys are what they do in the keymap's default.  The gate   *)
(* of the program's start is in Migrate: here a gate was asked for.         *)
(***************************************************************************)
EXTENDS Naturals, FiniteSets

CONSTANTS
    Stacked     \* bound: dialogs up or on their way, and a second tab, at once

ASSUME StackedAssumption == Stacked \in Nat \ {0}

VARIABLES
    focus,      \* focusArea
    right,      \* rightMode
    prev,       \* prevRight, what closing the import or sync form restores
    up,         \* "import", "sync", "rename", "pending", "card" (sftpErr), "help", "filter"
    confirm,    \* what the confirm panel asks, or "none"
    keyPass,    \* whose connection the key's passphrase is for, or "none"
    gate,       \* unlock: "none", "asked" or "busy"
    after,      \* what runs once the vault is open
    opened,     \* pass # "": the vault is open
    checking,   \* the sync form is busy
    cur, bg,    \* the current tab and the one in the background
    files,      \* the file connection: "none", "dialing" or "up"
    forFiles,   \* lastWasSFTP
    msgs        \* messages of commands on their way

screen == <<focus, right, prev>>
vault == <<gate, after, opened>>
dialogs == <<up, confirm, keyPass, checking, vault>>
world == <<cur, bg, files, forFiles>>
appVars == <<screen, dialogs, world, msgs>>

Areas == {"list", "session", "form", "files", "import", "sync"}
Rights == {"empty", "form", "terminal", "error", "import", "sync", "sftp"}
Questions == {"host", "own"}
TabStates == {"none", "connecting", "live", "down"}

\* The first name of a list of <<name, condition>> whose condition holds.
FirstOf(rows) ==
    rows[CHOOSE i \in DOMAIN rows : rows[i][2] /\ \A j \in 1..(i - 1) : ~rows[j][2]][1]

\* handleKey: who gets the next key.
Owner == FirstOf(<<
    <<"gate", gate # "none">>, <<"keyPass", keyPass # "none">>, <<"help", "help" \in up>>,
    <<"filter", focus = "list" /\ "filter" \in up>>,
    <<"import", focus = "import">>, <<"sync", focus = "sync">>,
    <<"rename", "rename" \in up>>, <<"confirm", confirm # "none">>,
    <<"pending", "pending" \in up>>, <<"card", focus = "files" /\ "card" \in up>>,
    <<focus, TRUE>> >>)

\* Mutant: the confirm panel is drawn over the passphrase question.
PanelOldestFirst ==
    FirstOf(<< <<"gate", gate # "none">>, <<"help", "help" \in up>>,
               <<"confirm", confirm # "none">>, <<"keyPass", keyPass # "none">>,
               <<right, TRUE>> >>)

\* View: what is drawn last, and so over the rest: the gate, which is drawn
\* alone, the help card, which floats over any mode, a dialog of the split view
\* or what replaces the body of the right panel, and the panel itself.
Panel == IF right = "sftp"
    THEN FirstOf(<< <<"gate", gate # "none">>, <<"help", "help" \in up>>,
            <<"rename", "rename" \in up>>, <<"pending", "pending" \in up>>,
            <<"confirm", confirm # "none">>, <<"card", "card" \in up>>, <<"files", TRUE>> >>)
    ELSE FirstOf(<< <<"gate", gate # "none">>, <<"help", "help" \in up>>,
            <<"keyPass", keyPass # "none">>, <<"confirm", confirm # "none">>,
            <<right, TRUE>> >>)

modalUp ==
    \/ gate # "none" \/ keyPass # "none" \/ confirm # "none"
    \/ up \cap {"pending", "rename", "card", "import", "sync"} # {}

Up(x) == IF x = "none" THEN 0 ELSE 1
Depth == Cardinality(up) + Up(confirm) + Up(keyPass) + Up(gate)
Room == Depth + Cardinality(msgs) + Up(bg) <= Stacked

Dialing == {cur, bg} \cap {"connecting", "down"} # {} \/ files = "dialing"

\* A command is started; its message comes later.
Send(m) == msgs' = msgs \cup {m}

-----------------------------------------------------------------------------
(* Parts that handlers share.  Each says what becomes of the variables it   *)
(* names; the action that uses it says what becomes of the others.          *)

Show(r, f) == right' = r /\ focus' = f /\ UNCHANGED prev

\* switchTo: the tab now in front takes the focus if it has, or had, a session;
\* held is the focus as it stands.
SwitchTo(front, back, held) ==
    /\ cur' = front /\ bg' = back
    /\ Show("terminal", IF front \in {"connecting"} THEN held ELSE "session")
    /\ UNCHANGED <<files, forFiles>>

\* openTab, a new tab: refused when the pool is empty.
AddTab(state) ==
    IF bg # "none" THEN UNCHANGED <<cur, bg>> ELSE cur' = state /\ bg' = cur
NewTab ==
    /\ AddTab("connecting")
    /\ IF bg # "none" THEN UNCHANGED <<screen, forFiles>>
                      ELSE Show("terminal", "list") /\ forFiles' = FALSE
    /\ UNCHANGED files

\* openTab for a server that may already have a tab.
ShowOrNewTab(held) ==
    \/ NewTab
    \/ cur # "none" /\ SwitchTo(cur, bg, held)
    \/ bg # "none" /\ SwitchTo(bg, cur, held)

\* startSFTP: teardownSFTP, then a new connection; rest is what is still on its way.
StartFiles(rest) ==
    /\ up' = up \ {"pending", "rename", "card"}
    /\ files' = "dialing" /\ forFiles' = TRUE
    /\ Show("sftp", "files")
    /\ msgs' = rest \ {"planned", "purgePlanned"}

\* Mutant: closing the last tab leaves the panel and the focus where they are.
CloseLeavesFocus == cur' = bg /\ bg' = "none" /\ UNCHANGED screen

\* closeTab: of the current tab, whose neighbour moves into view, or of the other.
CloseCurrent ==
    /\ cur' = bg /\ bg' = "none"
    /\ IF bg = "none" /\ right = "terminal" THEN Show("empty", "list") ELSE UNCHANGED screen
CloseBackground ==
    /\ bg' = "none" /\ UNCHANGED <<cur, screen>>

\* closeImport and closeSync.
Restore(form) ==
    /\ up' = up \ {form}
    /\ right' = prev /\ focus' = "list" /\ UNCHANGED prev

OpenSyncForm ==
    /\ up' = up \cup {"sync"} /\ checking' = FALSE
    /\ prev' = right /\ right' = "sync" /\ focus' = "sync"

\* What handleKeyPassKey does with the passphrase once there is a vault.  For a
\* file connection it opens a tab as well, and drops that tab's dial.
Resume(what, rest) ==
    IF what = "tab"
    THEN NewTab /\ msgs' = rest /\ UNCHANGED up
    ELSE AddTab("connecting") /\ StartFiles(rest)

-----------------------------------------------------------------------------
(* The way out: what esc (ctrl+b in a session) does to the dialog that owns  *)
(* the keyboard.                                                             *)

CancelGate ==
    /\ Owner = "gate" /\ gate = "asked"
    /\ gate' = "none" /\ after' = "none"
    /\ UNCHANGED <<screen, world, up, confirm, keyPass, checking, opened, msgs>>

CancelKeyPass ==
    /\ Owner = "keyPass"
    /\ keyPass' = "none"
    /\ UNCHANGED <<screen, world, up, confirm, checking, vault, msgs>>

\* help, filter, rename and the file card each take themselves down.
CloseSimple(d) ==
    /\ d \in up /\ Owner = d
    /\ up' = up \ {d}
    /\ UNCHANGED <<screen, world, confirm, keyPass, checking, vault, msgs>>

CancelPending ==
    /\ Owner = "pending"
    /\ up' = up \ {"pending"}
    /\ UNCHANGED <<screen, world, confirm, keyPass, checking, vault, msgs>>

\* The import and sync forms; without a form behind it the focus just leaves.
CancelForm(d) ==
    /\ d \in {"import", "sync"} /\ Owner = d
    /\ ~(d = "sync" /\ d \in up /\ checking)
    /\ IF d \in up THEN Restore(d) ELSE Show(right, "list") /\ UNCHANGED up
    /\ checking' = FALSE
    /\ UNCHANGED <<world, confirm, keyPass, vault, msgs>>

AnswerConfirm ==
    /\ Owner = "confirm"
    /\ confirm' = "none"
    /\ msgs' = IF confirm = "host" THEN msgs \cup {"answered"} ELSE msgs
    /\ UNCHANGED <<screen, world, up, keyPass, checking, vault>>

\* Leaving a session or the file panes keeps them; leaving the form drops it.
LeavePanel ==
    /\ Owner \in {"session", "files", "form"}
    /\ Show(IF Owner = "form" THEN "empty" ELSE right, "list")
    /\ UNCHANGED <<world, dialogs, msgs>>

StepBack ==
    \/ CancelGate \/ CancelKeyPass \/ CancelPending
    \/ \E d \in {"help", "filter", "rename", "card"} : CloseSimple(d)
    \/ \E d \in {"import", "sync"} : CancelForm(d)
    \/ AnswerConfirm
    \/ LeavePanel

-----------------------------------------------------------------------------
(* The other keys, by the owner of the keyboard.                            *)

SubmitGate ==
    /\ Owner = "gate" /\ gate = "asked"
    /\ gate' = "busy" /\ Send("unlocked")
    /\ UNCHANGED <<screen, world, up, confirm, keyPass, checking, after, opened>>

EnterKeyPass ==
    /\ Owner = "keyPass"
    /\ keyPass' = "none"
    /\ IF opened
       THEN Resume(keyPass, msgs) /\ UNCHANGED vault
       ELSE /\ gate' = "asked" /\ after' = keyPass
            /\ UNCHANGED <<screen, world, up, opened, msgs>>
    /\ UNCHANGED <<confirm, checking>>

\* Accepting with nothing chosen closes; until the parse answers there is none.
AcceptImport ==
    /\ Owner = "import" /\ "import" \in up /\ "parsed" \notin msgs
    /\ Send("imported")
    /\ UNCHANGED <<screen, dialogs, world>>

SubmitSync ==
    /\ Owner = "sync" /\ "sync" \in up /\ ~checking
    /\ checking' = TRUE /\ Send("checked")
    /\ UNCHANGED <<screen, world, up, confirm, keyPass, vault>>

StartTransfer ==
    /\ Owner = "pending"
    /\ up' = up \ {"pending"}
    /\ UNCHANGED <<screen, world, confirm, keyPass, checking, vault, msgs>>

\* A transfer or a delete is planned first; a walk under way refuses another.
StartPlan ==
    /\ Owner = "files" /\ msgs \cap {"planned", "purgePlanned"} = {}
    /\ \/ files = "up" /\ Send("planned")
       \/ Send("purgePlanned")
    /\ UNCHANGED <<screen, dialogs, world>>

StartRename ==
    /\ Owner = "files"
    /\ up' = up \cup {"rename"}
    /\ UNCHANGED <<screen, world, confirm, keyPass, checking, vault, msgs>>

\* retryConnect and editServer, on the error card or on the files' card.
Retry ==
    /\ (Owner = "list" /\ right = "error") \/ Owner = "card"
    /\ IF forFiles
       THEN StartFiles(msgs) /\ UNCHANGED <<cur, bg>>
       ELSE ShowOrNewTab(focus) /\ UNCHANGED <<up, msgs>>
    /\ UNCHANGED <<confirm, keyPass, checking, vault>>

Edit ==
    /\ Owner \in {"list", "card"}
    /\ Show("form", "form")
    /\ up' = IF Owner = "card" THEN up \ {"card"} ELSE up
    /\ UNCHANGED <<world, confirm, keyPass, checking, vault, msgs>>

\* submitForm: an entry with a secret needs the vault.
SubmitForm ==
    /\ Owner = "form"
    /\ \/ Send("saved") /\ UNCHANGED vault
       \/ ~opened /\ gate' = "asked" /\ after' = "save" /\ UNCHANGED <<opened, msgs>>
    /\ UNCHANGED <<screen, world, up, confirm, keyPass, checking>>

\* activateSelection, with the focus on the list: "+ Connect", or a server.
Activate ==
    \/ Show("form", "form") /\ UNCHANGED world
    \/ ShowOrNewTab("list")

ActivateRow ==
    /\ Owner = "list" /\ Activate
    /\ UNCHANGED <<dialogs, msgs>>

NewSession ==
    /\ Owner = "list" /\ NewTab
    /\ UNCHANGED <<dialogs, msgs>>

OpenFiles ==
    /\ Owner = "list"
    /\ \/ files = "up" /\ Show("sftp", "files") /\ UNCHANGED <<up, files, forFiles, msgs>>
       \/ StartFiles(msgs)
    /\ UNCHANGED <<cur, bg, confirm, keyPass, checking, vault>>

AskDelete ==
    /\ Owner = "list"
    /\ confirm' = "own"
    /\ UNCHANGED <<screen, world, up, keyPass, checking, vault, msgs>>

DismissError ==
    /\ Owner = "list" /\ right = "error"
    /\ Show(IF cur # "none" THEN "terminal" ELSE "empty", "list")
    /\ UNCHANGED <<dialogs, world, msgs>>

OpenImport ==
    /\ Owner = "list" /\ "parsed" \notin msgs
    /\ up' = up \cup {"import"}
    /\ prev' = right /\ right' = "import" /\ focus' = "import"
    /\ Send("parsed")
    /\ UNCHANGED <<world, confirm, keyPass, checking, vault>>

OpenSync ==
    /\ Owner = "list"
    /\ IF opened
       THEN OpenSyncForm /\ UNCHANGED vault
       ELSE gate' = "asked" /\ after' = "sync" /\ UNCHANGED <<screen, up, checking, opened>>
    /\ UNCHANGED <<world, confirm, keyPass, msgs>>

StartPull ==
    /\ Owner = "list" /\ opened
    /\ Send("fetched")
    /\ UNCHANGED <<screen, dialogs, world>>

\* actFocusPanel.
FocusPanel ==
    /\ Owner = "list"
    /\ \/ right = "terminal" /\ cur = "live" /\ Show(right, "session")
       \/ right = "form" /\ Show(right, "form")
       \/ right = "sftp" /\ Show(right, "files")
    /\ UNCHANGED <<dialogs, world, msgs>>

StartFilter ==
    /\ Owner = "list"
    /\ up' = up \cup {"filter"}
    /\ UNCHANGED <<screen, world, confirm, keyPass, checking, vault, msgs>>

\* helpAvailable.
OpenHelp ==
    /\ Owner \in {"list", "files"} /\ ~modalUp
    /\ up' = up \cup {"help"}
    /\ UNCHANGED <<screen, world, confirm, keyPass, checking, vault, msgs>>

\* tabKey.
TabKey ==
    /\ ~modalUp /\ Owner \notin {"help", "filter"} /\ cur # "none"
    /\ \/ SwitchTo(cur, bg, focus)
       \/ bg # "none" /\ SwitchTo(bg, cur, focus)
       \/ CloseCurrent /\ UNCHANGED <<files, forFiles>>
    /\ UNCHANGED <<dialogs, msgs>>

-----------------------------------------------------------------------------
(* The mouse.  Only the gate and the help card stop it.                      *)

ClickCard ==
    /\ gate = "none" /\ "help" \in up
    /\ up' = up \ {"help"}
    /\ UNCHANGED <<screen, world, confirm, keyPass, checking, vault, msgs>>

ClickList ==
    /\ gate = "none" /\ "help" \notin up
    /\ \/ Show(right, "list") /\ UNCHANGED world
       \/ Activate
    /\ UNCHANGED <<dialogs, msgs>>

ClickPanel ==
    /\ gate = "none" /\ "help" \notin up
    /\ \/ right = "form" /\ Show(right, "form")
       \/ /\ right = "terminal" /\ (cur = "live" \/ (cur = "down" /\ ~modalUp))
          /\ Show(right, "session")
       \/ /\ right = "sftp" /\ confirm = "none" /\ up \cap {"pending", "rename", "card"} = {}
          /\ Show(right, "files")
    /\ UNCHANGED <<dialogs, world, msgs>>

\* Rows dragged to the other pane are planned as t would.
DragRows ==
    /\ gate = "none" /\ "help" \notin up
    /\ right = "sftp" /\ confirm = "none" /\ up \cap {"pending", "rename", "card"} = {}
    /\ files = "up" /\ msgs \cap {"planned", "purgePlanned"} = {}
    /\ Show(right, "files")
    /\ Send("planned")
    /\ UNCHANGED <<dialogs, world>>

UserKey ==
    \/ SubmitGate \/ EnterKeyPass \/ AcceptImport \/ SubmitSync \/ StartTransfer
    \/ StartPlan \/ StartRename \/ Retry \/ Edit \/ SubmitForm
    \/ ActivateRow \/ NewSession \/ OpenFiles \/ AskDelete \/ DismissError
    \/ OpenImport \/ OpenSync \/ StartPull \/ FocusPanel \/ StartFilter \/ OpenHelp
    \/ TabKey \/ ClickCard \/ ClickList \/ ClickPanel \/ DragRows

-----------------------------------------------------------------------------
(* Messages.                                                                *)

\* connectedMsg: a first connection of the current tab takes the focus, a
\* reconnection leaves it; a background tab changes nothing on screen.
Connected ==
    /\ \/ /\ cur \in {"connecting", "down"}
          /\ cur' = "live" /\ UNCHANGED bg
          /\ Show("terminal", IF cur = "connecting" THEN "session" ELSE focus)
       \/ /\ bg \in {"connecting", "down"}
          /\ bg' = "live" /\ UNCHANGED <<cur, screen>>
    /\ UNCHANGED <<dialogs, files, forFiles, msgs>>

\* connectFailedMsg of a reconnection: the tab waits again, or is parked.
RetryFailed ==
    /\ "down" \in {cur, bg}
    /\ confirm' = "none"
    /\ UNCHANGED <<screen, up, keyPass, checking, vault, world, msgs>>

\* connectFailedMsg of a first connection: the tab goes, whichever it is, and
\* the error card comes, or the question for a locked key.
FirstFailed ==
    /\ confirm' = "none"
    /\ \/ \* a locked key
          /\ \/ cur = "connecting" /\ CloseCurrent
             \/ bg = "connecting" /\ CloseBackground
          /\ keyPass' = "tab"
       \/ /\ \/ cur = "connecting" /\ cur' = bg /\ bg' = "none"
             \/ bg = "connecting" /\ bg' = "none" /\ UNCHANGED cur
          /\ Show("error", "list")
          /\ UNCHANGED keyPass
    /\ UNCHANGED <<up, checking, vault, files, forFiles, msgs>>

\* sessionEndedMsg.
SessionEnded ==
    /\ \/ cur = "live" /\ cur' = "down" /\ UNCHANGED <<bg, screen>>
       \/ bg = "live" /\ bg' = "down" /\ UNCHANGED <<cur, screen>>
       \/ cur = "live" /\ CloseCurrent
       \/ bg = "live" /\ CloseBackground
    /\ UNCHANGED <<dialogs, files, forFiles, msgs>>

\* askHostKey; a question nobody waits for is rejected.
AskHostKey ==
    /\ Dialing
    /\ confirm' = "host" /\ Show(right, "list")
    /\ UNCHANGED <<up, keyPass, checking, vault, world, msgs>>

HostKeyAnswered ==
    /\ "answered" \in msgs /\ msgs' = msgs \ {"answered"}
    /\ confirm' = "none"
    /\ UNCHANGED <<screen, up, keyPass, checking, vault, world>>

FilesConnected ==
    /\ files = "dialing" /\ files' = "up"
    /\ UNCHANGED <<screen, dialogs, cur, bg, forFiles, msgs>>

\* sftpFailedMsg: the card, or the question for a locked key.
FilesFailed ==
    /\ files = "dialing" /\ files' = "none"
    /\ confirm' = "none"
    /\ \/ keyPass' = "files" /\ UNCHANGED <<up, screen>>
       \/ up' = up \cup {"card"} /\ Show(right, "files") /\ UNCHANGED keyPass
    /\ UNCHANGED <<checking, vault, cur, bg, forFiles, msgs>>

\* plannedMsg and deletePlannedMsg, with something to ask about or without.
Planned ==
    /\ "planned" \in msgs /\ msgs' = msgs \ {"planned"}
    /\ up' \in {up, up \cup {"pending"}}
    /\ UNCHANGED <<screen, confirm, keyPass, checking, vault, world>>

PurgePlanned ==
    /\ "purgePlanned" \in msgs /\ msgs' = msgs \ {"purgePlanned"}
    /\ confirm' \in {confirm, "own"}
    /\ UNCHANGED <<screen, up, keyPass, checking, vault, world>>

\* sshConfigParsedMsg: nothing to show closes the preview, anything opens it.
Parsed ==
    /\ "parsed" \in msgs /\ msgs' = msgs \ {"parsed"}
    /\ \/ Restore("import")
       \/ up' = up \cup {"import"} /\ UNCHANGED screen
    /\ UNCHANGED <<confirm, keyPass, checking, vault, world>>

Imported ==
    /\ "imported" \in msgs /\ msgs' = msgs \ {"imported"}
    /\ Restore("import")
    /\ UNCHANGED <<confirm, keyPass, checking, vault, world>>

\* serverSavedMsg; an error stays in the form.
Saved ==
    /\ "saved" \in msgs /\ msgs' = msgs \ {"saved"}
    /\ Show("empty", "list") \/ UNCHANGED screen
    /\ UNCHANGED <<dialogs, world>>

\* Mutant: a check that failed leaves the form busy.
CheckedStaysBusy ==
    /\ "checked" \in msgs /\ msgs' = msgs \ {"checked"}
    /\ (checking' = FALSE /\ Restore("sync")) \/ UNCHANGED <<checking, up, screen>>
    /\ UNCHANGED <<confirm, keyPass, vault, world>>

\* syncCheckedMsg.
Checked ==
    /\ "checked" \in msgs /\ msgs' = msgs \ {"checked"}
    /\ checking' = FALSE
    /\ Restore("sync") \/ UNCHANGED <<up, screen>>
    /\ UNCHANGED <<confirm, keyPass, vault, world>>

\* syncFetchedMsg.
Fetched ==
    /\ "fetched" \in msgs /\ msgs' = msgs \ {"fetched"}
    /\ \/ confirm' = "own" /\ Show(right, "list")
       \/ UNCHANGED <<confirm, screen>>
    /\ UNCHANGED <<up, keyPass, checking, vault, world>>

\* applyUnlocked: a wrong passphrase asks again, the right one runs what waited.
UnlockFailed ==
    /\ "unlocked" \in msgs /\ msgs' = msgs \ {"unlocked"}
    /\ gate' = "asked"
    /\ UNCHANGED <<screen, world, up, confirm, keyPass, checking, after, opened>>

Unlocked ==
    /\ "unlocked" \in msgs
    /\ gate' = "none" /\ after' = "none" /\ opened' = TRUE
    /\ LET rest == msgs \ {"unlocked"}
       IN  \/ /\ after = "save" /\ msgs' = rest \cup {"saved"}
              /\ UNCHANGED <<screen, up, checking, world>>
           \/ /\ after = "sync" /\ OpenSyncForm /\ msgs' = rest
              /\ UNCHANGED world
           \/ /\ after \in {"tab", "files"} /\ Resume(after, rest)
              /\ UNCHANGED checking
    /\ UNCHANGED <<confirm, keyPass>>

Message ==
    \/ Connected \/ RetryFailed \/ FirstFailed \/ SessionEnded
    \/ AskHostKey \/ HostKeyAnswered \/ FilesConnected \/ FilesFailed
    \/ Planned \/ PurgePlanned \/ Parsed \/ Imported \/ Saved
    \/ Checked \/ Fetched \/ UnlockFailed \/ Unlocked

-----------------------------------------------------------------------------

AppInit ==
    /\ focus = "list" /\ right = "empty" /\ prev = "empty"
    /\ up = {} /\ confirm = "none" /\ keyPass = "none"
    /\ gate = "none" /\ after = "none" /\ checking = FALSE
    /\ cur = "none" /\ bg = "none" /\ files = "none" /\ forFiles = FALSE
    /\ opened \in BOOLEAN
    /\ msgs = {}

AppNext ==
    \/ StepBack
    \/ UserKey /\ Room'
    \/ Message /\ Room'

AppSpec == AppInit /\ [][AppNext]_appVars

-----------------------------------------------------------------------------
(* Properties.                                                              *)

\* Every variable holds a value of its type.
AppTypeOK ==
    /\ focus \in Areas /\ right \in Rights /\ prev \in Rights
    /\ up \subseteq {"import", "sync", "rename", "pending", "card", "help", "filter"}
    /\ confirm \in Questions \cup {"none"} /\ keyPass \in {"none", "tab", "files"}
    /\ gate \in {"none", "asked", "busy"} /\ after \in {"none", "save", "sync", "tab", "files"}
    /\ cur \in TabStates /\ bg \in TabStates /\ files \in {"none", "dialing", "up"}
    /\ {checking, opened, forFiles} \subseteq BOOLEAN
    /\ msgs \subseteq {"parsed", "imported", "saved", "checked", "fetched", "answered",
                       "unlocked", "planned", "purgePlanned"}

\* "The remote shell needs ctrl+c, ctrl+d, q and friends" (app.go:1256), so the
\* focus of a session must never be left behind when the panel or the last tab
\* goes: what is typed for a shell goes to one that is on screen, whichever
\* dial, listing, save or end of a session came in meanwhile.
ShellOnScreen == Owner = "session" => right = "terminal" /\ cur # "none"

\* A dialog that waits for its command "takes no input at all" (unlock.go:184,
\* sync.go:313); the answer that ends the wait is on its way.
Busy == \/ Owner = "gate" /\ gate = "busy" /\ "unlocked" \in msgs /\ after # "none"
        \/ Owner = "sync" /\ checking /\ "checked" \in msgs

\* There is always a way out: unless it is busy, the owner of the keyboard has a
\* key that takes a dialog down or leads back to the list, wherever messages and
\* clicks have left the user; so a few such keys end in the list.
WayOut ==
    \/ Owner = "list" \/ Busy
    \/ ENABLED (StepBack /\ (Depth' < Depth \/ (focus # "list" /\ focus' = "list")))

\* "confirm, when set, replaces the right panel body and swallows every key that
\* is not an answer to it" (app.go:94): the question a key answers is the one
\* on screen.  The four exceptions are real, and in the README: View draws the
\* help card over the passphrase question, which comes before it for the keys,
\* has no passphrase question in the split view, shows a waiting transfer there
\* over a question that has the keyboard, and shows the split view's dialogs
\* nowhere else, where they still have it.
AnsweredAsShown ==
    Owner \in {"gate", "keyPass", "help", "rename", "confirm", "pending", "card"} =>
        \/ Panel = Owner
        \/ Owner = "keyPass" /\ "help" \in up
        \/ Owner = "keyPass" /\ right = "sftp"
        \/ Owner = "confirm" /\ right = "sftp" /\ "pending" \in up
        \/ Owner \in {"rename", "pending", "card"} /\ right # "sftp"
=============================================================================
